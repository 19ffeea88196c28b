------------------------------ MODULE StoreOwner ------------------------------
(***************************************************************************)
(* What src/internal/gui/gui.go (App) and src/component/component.go       *)
(* (Component) have in common: an owner that keeps one store in its        *)
(* fields, opens it, and lets go of it.  What was handed out before, to a  *)
(* handler, a route or a fetch, goes on using the store it was made for.   *)
(***************************************************************************)
EXTENDS VaultStore

CONSTANT NoStore \* no store at hand

ASSUME OwnerAssumption == NoStore \notin Stores

VARIABLES
  current,   \* the store in the owner's fields
  overlapped \* history: a store was opened while another was open

ownerVars == <<storeVars, current, overlapped>>

OwnerTypeOK ==
  /\ StoreTypeOK
  /\ current \in Stores \cup {NoStore}
  /\ overlapped \in BOOLEAN

OwnerInit ==
  /\ StoreInit
  /\ current = NoStore
  /\ overlapped = FALSE

\* Opening a vault, or creating it on the first launch, into the owner's fields.
Acquire(s) ==
  /\ Create(s) \/ Open(s)
  /\ current' = s
  /\ overlapped' = (overlapped \/ ~Exclusive)

\* The process dies and is started again.
Relaunch ==
  /\ Crash
  /\ current' = NoStore
  /\ UNCHANGED overlapped

-------------------------------------------------------------------------------
(* Properties. *)

FileHoldsAcked ==
  \A n \in Names : file # NoFile /\ acked[n] # Unsure => file.creds[n] = acked[n]

\* As long as every store was closed before the next was opened, an acknowledged
\* change is in the file, through locks, unlocks and restarts, although handlers,
\* routes and fetches of closed stores go on being served beside the new one
\* (gui.go:87-96, 209-266, component.go:84-119, 141-160).
DurableUnlessOverlapped == ~overlapped => FileHoldsAcked
===============================================================================
