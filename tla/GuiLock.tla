-------------------------------- MODULE GuiLock --------------------------------
(***************************************************************************)
(* src/internal/gui/gui.go: unlocking, locking and serving.  The App guards *)
(* its fields (store, srv, planes, session) with a.mu.  open runs under it  *)
(* from its test to its assignment, argon2 included.  lockNow only takes    *)
(* the store out under it and closes that store after the unlock, and proxy *)
(* copies the handler out under it and serves after the unlock.  So a store *)
(* may be open while the App already says "locked", and the human may       *)
(* unlock again, which opens a second store over the same file.             *)
(***************************************************************************)
EXTENDS StoreOwner

CONSTANTS
  Lockers, \* goroutines in lockNow: the lock button, the idle ticker, shutdown
  Handlers \* goroutines serving a proxied request

VARIABLES
  closing, \* closing[l]: the store lockNow took out and has yet to close
  serving  \* serving[h]: the store of the planes the handler copied

guiVars == <<ownerVars, closing, serving>>

GuiTypeOK ==
  /\ OwnerTypeOK
  /\ closing \in [Lockers -> Stores \cup {NoStore}]
  /\ serving \in [Handlers -> Stores \cup {NoStore}]

GuiInit ==
  /\ OwnerInit
  /\ closing = [l \in Lockers |-> NoStore]
  /\ serving = [h \in Handlers |-> NoStore]

\* A closed store is garbage, and its identity free, once no goroutine holds it.
Held(s) ==
  \/ s = current
  \/ \E l \in Lockers : closing[l] = s
  \/ \E h \in Handlers : serving[h] = s

\* Faulty variant of MayOpen: the test for a server in place is missing.
MayOpenAgain == TRUE

MayOpen == current = NoStore

\* setup and unlock, under a.mu.  With a server in place they change nothing.
AppOpen(s) ==
  /\ MayOpen
  /\ ~Held(s)
  /\ Acquire(s)
  /\ UNCHANGED <<closing, serving>>

\* The first half of lockNow.  With nothing to lock it changes nothing.
TakeOut(l) ==
  /\ current # NoStore
  /\ closing[l] = NoStore
  /\ closing' = [closing EXCEPT ![l] = current]
  /\ current' = NoStore
  /\ UNCHANGED <<storeVars, serving, overlapped>>

\* The second half: Close, after a.mu was released.
CloseTaken(l, ok) ==
  /\ closing[l] # NoStore
  /\ Close(closing[l], ok)
  /\ closing' = [closing EXCEPT ![l] = NoStore]
  /\ UNCHANGED <<current, serving, overlapped>>

\* proxy copies a.planes; without any it answers 423.
Capture(h) ==
  /\ current # NoStore
  /\ serving[h] = NoStore
  /\ serving' = [serving EXCEPT ![h] = current]
  /\ UNCHANGED <<storeVars, current, closing, overlapped>>

\* The captured planes handle the request: one operation of the store (a fetch
\* appends its audit row), or nothing that changes it.
Serve(h) ==
  /\ serving[h] # NoStore
  /\ \/ StoreCall(serving[h])
     \/ UNCHANGED storeVars
  /\ serving' = [serving EXCEPT ![h] = NoStore]
  /\ UNCHANGED <<current, closing, overlapped>>

Restart ==
  /\ Relaunch
  /\ closing' = [l \in Lockers |-> NoStore]
  /\ serving' = [h \in Handlers |-> NoStore]

GuiNext ==
  \/ \E s \in Stores : AppOpen(s)
  \/ \E l \in Lockers : TakeOut(l)
  \/ \E l \in Lockers, ok \in BOOLEAN : CloseTaken(l, ok)
  \/ \E h \in Handlers : Capture(h) \/ Serve(h)
  \/ Restart

GuiSpec == GuiInit /\ [][GuiNext]_guiVars

-------------------------------------------------------------------------------
(* Properties. *)

\* The audit chain verifies even when two stores write the same file in turn:
\* each writes a whole document of its own (store.go:329-365).
ChainSurvivesOverlap == AuditIntact

\* A store is open exactly as long as it is in someone's hands, and those are one
\* pair: the App serves it, or one goroutine is about to close it.  No key is left
\* behind in RAM, and none is wiped under a session that goes on.
NoOrphan ==
  \A s \in Stores :
    /\ key[s] = "live" <=> (s = current \/ \E l \in Lockers : closing[l] = s)
    /\ \A l \in Lockers :
         closing[l] = s => s # current /\ \A m \in Lockers : closing[m] = s => m = l

\* store.go:156-157, "persists immediately": an acknowledged change is in the file
\* until the human changes it again.
AckedStaysInFile == FileHoldsAcked
===============================================================================
