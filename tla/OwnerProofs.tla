------------------------------ MODULE OwnerProofs ------------------------------
(* The two owners of a store, the App of the GUI and the suite's Component, for *)
(* any goroutines, stores and schedules.  Unlike StoreSpec they may have two    *)
(* stores open at once: SoundInv holds all the same, StoreInv while they have   *)
(* not.  Each theorem is about one of the two specifications.                   *)
EXTENDS GuiLock, Component, VaultStoreProofs

OwnerInv ==
  /\ OwnerTypeOK
  /\ SoundInv
  /\ ~overlapped => StoreInv

LEMMA OwnerInitEstablishes == OwnerInit => OwnerInv
  BY StoreInitEstablishes
     DEF OwnerInit, OwnerInv, OwnerTypeOK, StoreInv, SoundInv, StoreTypeOK

\* Opening a store beside another one is where StoreInv may be lost.
LEMMA AcquirePreserves ==
  ASSUME OwnerInv, NEW s \in Stores, Acquire(s)
  PROVE  OwnerInv'
<1>1. SoundInv'
  BY CreateSound, OpenSound DEF OwnerInv, Acquire
<1>2. ASSUME ~overlapped'
      PROVE  StoreInv'
  <2>1. ~overlapped /\ Exclusive
    BY <1>2 DEF Acquire, OwnerInv, OwnerTypeOK
  <2>2. QED
    BY <2>1, CreatePreserves, OpenPreserves DEF OwnerInv, Acquire
<1>3. OwnerTypeOK'
  <2>1. StoreTypeOK'
    BY <1>1 DEF SoundInv
  <2>2. overlapped' \in BOOLEAN
    BY DEF Acquire
  <2>3. QED
    BY <2>1, <2>2 DEF OwnerTypeOK, Acquire
<1>4. QED
  BY <1>1, <1>2, <1>3 DEF OwnerInv

LEMMA RelaunchPreserves ==
  ASSUME OwnerInv, Relaunch
  PROVE  OwnerInv'
<1>1. SoundInv' /\ (StoreInv => StoreInv')
  BY CrashPreserves DEF OwnerInv, Relaunch
<1>2. QED
  BY <1>1 DEF OwnerInv, OwnerTypeOK, SoundInv, Relaunch

\* Any other step: an operation of a store that somebody holds, its closing, or none.
LEMMA StoreUsePreserves ==
  ASSUME OwnerInv, UNCHANGED overlapped, current' \in Stores \cup {NoStore},
         \/ \E s \in Stores : StoreCall(s) \/ \E ok \in BOOLEAN : Close(s, ok)
         \/ UNCHANGED storeVars
  PROVE  OwnerInv'
<1>1. SoundInv' /\ (StoreInv => StoreInv')
  BY CallPreserves, ClosePreserves, StutterPreserves DEF OwnerInv
<1>2. QED
  BY <1>1 DEF OwnerInv, OwnerTypeOK, SoundInv

\* Operations of a store do not touch the keys.
LEMMA CallKeepsKeys == ASSUME NEW s, StoreCall(s) PROVE UNCHANGED key
  BY DEF StoreCall, Put, Delete, Enable, AppendAudit, ClearAuditBefore

\* Nothing but the creation of the first file writes while every store is closed.
LEMMA LockedFileKept ==
  ASSUME Exclusive, file # NoFile, NEW s \in Stores,
         Create(s) \/ Open(s) \/ StoreCall(s) \/ Crash \/ \E ok \in BOOLEAN : Close(s, ok)
  PROVE  file' = file
  BY DEF Create, Open, StoreCall, Put, Delete, Enable, AppendAudit, ClearAuditBefore,
         Close, Crash, Save, Exclusive

-------------------------------------------------------------------------------
(* GuiLock. *)

GuiInv ==
  /\ GuiTypeOK
  /\ OwnerInv
  /\ NoOrphan

LEMMA GuiInitEstablishes == GuiInit => GuiInv
  BY OwnerInitEstablishes, OwnerAssumption
     DEF GuiInit, GuiInv, GuiTypeOK, OwnerInv, OwnerInit, StoreInit, NoOrphan

LEMMA GuiStepPreserves == GuiInv /\ [GuiNext]_guiVars => GuiInv'
<1> SUFFICES ASSUME GuiInv, [GuiNext]_guiVars
             PROVE  GuiInv'
  OBVIOUS
<1>0. OwnerInv /\ OwnerTypeOK /\ StoreTypeOK
  BY DEF GuiInv, OwnerInv, OwnerTypeOK
<1>1. ASSUME NEW s \in Stores, AppOpen(s)
      PROVE  GuiInv'
  <2>1. OwnerInv'
    BY <1>0, <1>1, AcquirePreserves DEF AppOpen
  <2>2. key' = [key EXCEPT ![s] = "live"] /\ current = NoStore /\ current' = s
    BY <1>1 DEF AppOpen, MayOpen, Acquire, Create, Open
  <2>3. NoOrphan'
    BY <1>0, <1>1, <2>2, OwnerAssumption DEF AppOpen, Held, GuiInv, NoOrphan, StoreTypeOK
  <2>4. QED
    BY <1>1, <2>1, <2>3 DEF AppOpen, GuiInv, GuiTypeOK, OwnerInv
<1>2. ASSUME NEW l \in Lockers, TakeOut(l)
      PROVE  GuiInv'
  <2>1. OwnerInv'
    BY <1>0, <1>2, StoreUsePreserves DEF TakeOut
  <2>2. current \in Stores
    BY <1>0, <1>2 DEF TakeOut, OwnerTypeOK
  <2>3. NoOrphan'
    BY <1>2, <2>2, OwnerAssumption DEF TakeOut, GuiInv, GuiTypeOK, NoOrphan, storeVars
  <2>4. QED
    BY <1>2, <2>1, <2>2, <2>3 DEF TakeOut, GuiInv, GuiTypeOK, OwnerInv
<1>3. ASSUME NEW l \in Lockers, NEW ok \in BOOLEAN, CloseTaken(l, ok)
      PROVE  GuiInv'
  <2>1. closing[l] \in Stores
    BY <1>3 DEF CloseTaken, GuiInv, GuiTypeOK
  <2>2. OwnerInv'
    BY <1>0, <1>3, <2>1, StoreUsePreserves DEF CloseTaken, OwnerTypeOK
  <2>3. key' = [key EXCEPT ![closing[l]] = "nil"]
    BY <1>3 DEF CloseTaken, Close, Wiped
  <2>4. NoOrphan'
    BY <1>0, <1>3, <2>1, <2>3, OwnerAssumption
       DEF CloseTaken, GuiInv, GuiTypeOK, NoOrphan, StoreTypeOK
  <2>5. QED
    BY <1>3, <2>2, <2>4 DEF CloseTaken, GuiInv, GuiTypeOK, OwnerInv
<1>4. ASSUME NEW h \in Handlers, Capture(h)
      PROVE  GuiInv'
  <2>1. OwnerInv'
    BY <1>0, <1>4, StoreUsePreserves DEF Capture, OwnerTypeOK
  <2>2. NoOrphan'
    BY <1>4 DEF Capture, GuiInv, NoOrphan, storeVars
  <2>3. QED
    BY <1>0, <1>4, <2>1, <2>2 DEF Capture, GuiInv, GuiTypeOK, OwnerInv, OwnerTypeOK
<1>5. ASSUME NEW h \in Handlers, Serve(h)
      PROVE  GuiInv'
  <2>1. serving[h] \in Stores
    BY <1>5 DEF Serve, GuiInv, GuiTypeOK
  <2>2. OwnerInv'
    BY <1>0, <1>5, <2>1, StoreUsePreserves DEF Serve, OwnerTypeOK
  <2>3. UNCHANGED <<key, current, closing>>
    BY <1>5, CallKeepsKeys DEF Serve, storeVars
  <2>4. NoOrphan'
    BY <2>3 DEF GuiInv, NoOrphan
  <2>5. QED
    BY <1>5, <2>2, <2>4 DEF Serve, GuiInv, GuiTypeOK, OwnerInv
<1>6. CASE Restart
  <2>1. OwnerInv'
    BY <1>0, <1>6, RelaunchPreserves DEF Restart
  <2>2. NoOrphan'
    BY <1>6, OwnerAssumption DEF Restart, Relaunch, Crash, NoOrphan
  <2>3. QED
    BY <1>6, <2>1, <2>2 DEF Restart, GuiInv, GuiTypeOK, OwnerInv
<1>7. CASE UNCHANGED guiVars
  <2>1. OwnerInv'
    BY <1>0, <1>7, StoreUsePreserves DEF guiVars, ownerVars, OwnerTypeOK
  <2>2. QED
    BY <1>7, <2>1 DEF guiVars, ownerVars, storeVars, GuiInv, GuiTypeOK, OwnerInv, NoOrphan
<1>8. QED
  BY <1>1, <1>2, <1>3, <1>4, <1>5, <1>6, <1>7 DEF GuiNext

LEMMA GuiInvariant == GuiSpec => []GuiInv
  BY GuiInitEstablishes, GuiStepPreserves, PTL DEF GuiSpec

\* The types hold with any number of lockers and handlers.
THEOREM GuiTypeCorrect == GuiSpec => []GuiTypeOK
<1>1. GuiInv => GuiTypeOK
  BY DEF GuiInv
<1>2. QED
  BY <1>1, GuiInvariant, PTL

\* As long as no unlock comes between the two halves of a lock, what was acknowledged
\* is in the file, whatever handlers of earlier sessions still do (gui.go:87-96, 209-266).
THEOREM GuiDurable == GuiSpec => []DurableUnlessOverlapped
<1>1. GuiInv => DurableUnlessOverlapped
  BY DEF GuiInv, OwnerInv, StoreInv, AckedDurable, DurableUnlessOverlapped, FileHoldsAcked
<1>2. QED
  BY <1>1, GuiInvariant, PTL

\* The chain verifies in every store and in the file, even when two sessions write the
\* file in turn (store.go:329-365).
THEOREM GuiChainVerifies == GuiSpec => []ChainSurvivesOverlap
<1>1. GuiInv => ChainSurvivesOverlap
  BY DEF GuiInv, OwnerInv, SoundInv, ChainSurvivesOverlap
<1>2. QED
  BY <1>1, GuiInvariant, PTL

\* Every open store is in one pair of hands, however locks and unlocks interleave
\* (gui.go:87-96, 209-244).
THEOREM NoStoreOrphaned == GuiSpec => []NoOrphan
<1>1. GuiInv => NoOrphan
  BY DEF GuiInv
<1>2. QED
  BY <1>1, GuiInvariant, PTL

\* While the App and its lockers hold no open store the file does not change, whatever
\* the handlers still in flight call (store.go:329-332, gui.go:257-266).
THEOREM GuiLockedFileStable == GuiSpec => LockedFileStable
<1>1. GuiInv /\ [GuiNext]_guiVars => [Exclusive /\ file # NoFile => file' = file]_storeVars
  <2> SUFFICES ASSUME GuiInv, [GuiNext]_guiVars, Exclusive, file # NoFile
               PROVE  file' = file
    OBVIOUS
  <2>1. ASSUME NEW s \in Stores, AppOpen(s)
        PROVE  file' = file
    BY <2>1, LockedFileKept DEF AppOpen, Acquire
  <2>2. ASSUME NEW l \in Lockers, NEW ok \in BOOLEAN, CloseTaken(l, ok)
        PROVE  file' = file
    BY <2>2, LockedFileKept DEF CloseTaken, GuiInv, GuiTypeOK
  <2>3. ASSUME NEW h \in Handlers, Serve(h)
        PROVE  file' = file
    BY <2>3, LockedFileKept DEF Serve, GuiInv, GuiTypeOK, storeVars
  <2>4. QED
    BY <2>1, <2>2, <2>3
       DEF GuiNext, TakeOut, Capture, Restart, Relaunch, Crash, guiVars, ownerVars, storeVars
<1>2. QED
  BY <1>1, GuiInvariant, PTL DEF GuiSpec, LockedFileStable

\* As long as every store was closed before the next was opened, the App, its lockers and
\* its handlers do to stores and file only what StoreSpec allows, so that all that is
\* proved of it holds (gui.go:87-96, 209-266).
THEOREM GuiInTurnIsStore == GuiSpec /\ []~overlapped => StoreSpec
<1>1. GuiInit => StoreInit
  BY DEF GuiInit, OwnerInit
<1>2. GuiInv /\ ~overlapped' /\ [GuiNext]_guiVars => [StoreNext]_storeVars
  <2> SUFFICES ASSUME GuiInv, ~overlapped', [GuiNext]_guiVars
               PROVE  [StoreNext]_storeVars
    OBVIOUS
  <2>1. ASSUME NEW s \in Stores, AppOpen(s)
        PROVE  StoreNext
    BY <2>1 DEF AppOpen, Acquire, StoreNext
  <2>2. ASSUME NEW l \in Lockers, NEW ok \in BOOLEAN, CloseTaken(l, ok)
        PROVE  StoreNext
    BY <2>2 DEF CloseTaken, GuiInv, GuiTypeOK, StoreNext
  <2>3. ASSUME NEW h \in Handlers, Serve(h)
        PROVE  StoreNext \/ UNCHANGED storeVars
    BY <2>3 DEF Serve, GuiInv, GuiTypeOK, StoreNext
  <2>4. CASE Restart
    BY <2>4 DEF Restart, Relaunch, StoreNext
  <2>5. QED
    BY <2>1, <2>2, <2>3, <2>4 DEF GuiNext, TakeOut, Capture, guiVars, ownerVars
<1>3. QED
  BY <1>1, <1>2, GuiInvariant, PTL DEF GuiSpec, StoreSpec

-------------------------------------------------------------------------------
(* Component. *)

\* A fetch in progress has a store.
FetchHasStore ==
  \A g \in Tools : tool[g].at \in {"tested", "fetching"} => tool[g].store \in Stores

ComponentInv ==
  /\ ComponentTypeOK
  /\ OwnerInv
  /\ FetchHasStore
  /\ OnlyCurrentOpen

LEMMA ComponentInitEstablishes == ComponentInit => ComponentInv
  BY OwnerInitEstablishes, OwnerAssumption
     DEF ComponentInit, ComponentInv, ComponentTypeOK, OwnerInv, OwnerInit, StoreInit,
         FetchHasStore, OnlyCurrentOpen, Outside

LEMMA ComponentStepPreserves == ComponentInv /\ [ComponentNext]_componentVars => ComponentInv'
<1> SUFFICES ASSUME ComponentInv, [ComponentNext]_componentVars
             PROVE  ComponentInv'
  OBVIOUS
<1>0. OwnerInv /\ OwnerTypeOK /\ StoreTypeOK
  BY DEF ComponentInv, OwnerInv, OwnerTypeOK
<1>1. ASSUME NEW s \in Stores, Unlock(s)
      PROVE  ComponentInv'
  <2>1. OwnerInv'
    BY <1>0, <1>1, AcquirePreserves DEF Unlock
  <2>2. key' = [key EXCEPT ![s] = "live"] /\ current' = s
    BY <1>1 DEF Unlock, Acquire, Create, Open
  <2>3. OnlyCurrentOpen'
    BY <1>0, <1>1, <2>2 DEF Unlock, Acquire, Exclusive, OnlyCurrentOpen, StoreTypeOK
  <2>4. QED
    BY <1>1, <2>1, <2>3
       DEF Unlock, ComponentInv, ComponentTypeOK, OwnerInv, FetchHasStore
<1>2. CASE Mount
  <2>1. OwnerInv'
    BY <1>0, <1>2, StoreUsePreserves DEF Mount, OwnerTypeOK
  <2>2. QED
    BY <1>0, <1>2, <2>1
       DEF Mount, ComponentInv, ComponentTypeOK, OwnerInv, OwnerTypeOK, FetchHasStore,
           OnlyCurrentOpen, storeVars
<1>3. ASSUME NEW ok \in BOOLEAN, Lock(ok)
      PROVE  ComponentInv'
  <2>1. current \in Stores
    BY <1>0, <1>3 DEF Lock, OwnerTypeOK
  <2>2. OwnerInv'
    BY <1>0, <1>3, <2>1, StoreUsePreserves DEF Lock
  <2>3. key' = [key EXCEPT ![current] = "nil"] /\ current' = NoStore
    BY <1>3 DEF Lock, Close, Wiped
  <2>4. OnlyCurrentOpen'
    BY <1>0, <1>3, <2>1, <2>3, OwnerAssumption
       DEF Lock, ComponentInv, OnlyCurrentOpen, StoreTypeOK
  <2>5. QED
    BY <1>3, <2>2, <2>4 DEF Lock, ComponentInv, ComponentTypeOK, OwnerInv, FetchHasStore
<1>4. ASSUME NEW s \in Stores, Route(s)
      PROVE  ComponentInv'
  <2>1. OwnerInv'
    BY <1>0, <1>4, StoreUsePreserves DEF Route, OwnerTypeOK
  <2>2. UNCHANGED <<key, current, mounted, tool, overlapped>>
    BY <1>4, CallKeepsKeys DEF Route
  <2>3. QED
    BY <2>1, <2>2
       DEF ComponentInv, ComponentTypeOK, OwnerInv, FetchHasStore, OnlyCurrentOpen
<1>5. ASSUME NEW g \in Tools, TestUnlocked(g)
      PROVE  ComponentInv'
  <2>1. OwnerInv' /\ current \in Stores
    BY <1>0, <1>5, StoreUsePreserves DEF TestUnlocked, OwnerTypeOK
  <2>2. QED
    BY <1>5, <2>1
       DEF TestUnlocked, ComponentInv, ComponentTypeOK, OwnerInv, FetchHasStore,
           OnlyCurrentOpen, storeVars
<1>6. ASSUME NEW g \in Tools, TakeEngine(g)
      PROVE  ComponentInv'
  <2>1. OwnerInv'
    BY <1>0, <1>6, StoreUsePreserves DEF TakeEngine, OwnerTypeOK
  <2>2. PICK s \in Stores \cup {NoStore} :
          tool' = [tool EXCEPT ![g] = [at |-> IF s = NoStore THEN "panicked" ELSE "fetching",
                                       store |-> s]]
    BY <1>0, <1>6 DEF TakeEngine, ComponentInv, ComponentTypeOK, OwnerTypeOK
  <2>3. ComponentTypeOK' /\ FetchHasStore'
    BY <1>6, <2>1, <2>2, OwnerAssumption
       DEF TakeEngine, ComponentInv, ComponentTypeOK, OwnerInv, FetchHasStore
  <2>4. QED
    BY <1>6, <2>1, <2>3 DEF TakeEngine, ComponentInv, OnlyCurrentOpen, storeVars
<1>7. ASSUME NEW g \in Tools, FinishFetch(g)
      PROVE  ComponentInv'
  <2>1. tool[g].store \in Stores
    BY <1>7 DEF FinishFetch, ComponentInv, FetchHasStore
  <2>2. StoreCall(tool[g].store)
    BY <1>7 DEF FinishFetch, StoreCall
  <2>3. OwnerInv' /\ UNCHANGED key
    BY <1>0, <1>7, <2>1, <2>2, StoreUsePreserves, CallKeepsKeys DEF FinishFetch, OwnerTypeOK
  <2>4. QED
    BY <1>7, <2>3, OwnerAssumption
       DEF FinishFetch, ComponentInv, ComponentTypeOK, OwnerInv, FetchHasStore,
           OnlyCurrentOpen, Outside
<1>8. CASE SuiteRestarts
  <2>1. OwnerInv'
    BY <1>0, <1>8, RelaunchPreserves DEF SuiteRestarts
  <2>2. OnlyCurrentOpen'
    BY <1>8, OwnerAssumption DEF SuiteRestarts, Relaunch, Crash, OnlyCurrentOpen
  <2>3. QED
    BY <1>8, <2>1, <2>2
       DEF SuiteRestarts, ComponentInv, ComponentTypeOK, OwnerInv, FetchHasStore, Outside
<1>9. CASE UNCHANGED componentVars
  <2>1. OwnerInv'
    BY <1>0, <1>9, StoreUsePreserves DEF componentVars, ownerVars, OwnerTypeOK
  <2>2. QED
    BY <1>9, <2>1
       DEF componentVars, ownerVars, storeVars, ComponentInv, ComponentTypeOK, OwnerInv,
           FetchHasStore, OnlyCurrentOpen
<1>10. QED
  BY <1>1, <1>2, <1>3, <1>4, <1>5, <1>6, <1>7, <1>8, <1>9 DEF ComponentNext

LEMMA ComponentInvariant == ComponentSpec => []ComponentInv
  BY ComponentInitEstablishes, ComponentStepPreserves, PTL DEF ComponentSpec

\* The types hold with any number of tools, and a fetch never goes on without a store.
THEOREM ComponentTypeCorrect == ComponentSpec => []ComponentTypeOK
<1>1. ComponentInv => ComponentTypeOK
  BY DEF ComponentInv
<1>2. QED
  BY <1>1, ComponentInvariant, PTL

\* As long as every Unlock follows a Lock, what was acknowledged is in the file, whatever
\* routes and fetches of closed stores do (component.go:84-119, 141-160).
THEOREM ComponentDurable == ComponentSpec => []DurableUnlessOverlapped
<1>1. ComponentInv => DurableUnlessOverlapped
  BY DEF ComponentInv, OwnerInv, StoreInv, AckedDurable, DurableUnlessOverlapped, FileHoldsAcked
<1>2. QED
  BY <1>1, ComponentInvariant, PTL

\* As long as every Unlock follows a Lock, Lock would close the only store whose key is
\* in RAM (component.go:84-110, 152-160).
THEOREM OnlyCurrentIsOpen == ComponentSpec => []OnlyCurrentOpen
<1>1. ComponentInv => OnlyCurrentOpen
  BY DEF ComponentInv
<1>2. QED
  BY <1>1, ComponentInvariant, PTL

\* While every store is closed the file does not change, whatever the routes on the mux
\* and the fetches in flight call (store.go:329-332, component.go:112-119, 141-150).
THEOREM ComponentLockedFileStable == ComponentSpec => LockedFileStable
<1>1. ComponentInv /\ [ComponentNext]_componentVars
        => [Exclusive /\ file # NoFile => file' = file]_storeVars
  <2> SUFFICES ASSUME ComponentInv, [ComponentNext]_componentVars, Exclusive, file # NoFile
               PROVE  file' = file
    OBVIOUS
  <2>1. ASSUME NEW s \in Stores, Unlock(s)
        PROVE  file' = file
    BY <2>1, LockedFileKept DEF Unlock, Acquire
  <2>2. ASSUME NEW ok \in BOOLEAN, Lock(ok)
        PROVE  file' = file
    BY <2>2, LockedFileKept DEF Lock, ComponentInv, OwnerInv, OwnerTypeOK
  <2>3. ASSUME NEW s \in Stores, Route(s)
        PROVE  file' = file
    BY <2>3, LockedFileKept DEF Route
  <2>4. ASSUME NEW g \in Tools, FinishFetch(g)
        PROVE  file' = file
    <3>1. tool[g].store \in Stores /\ StoreCall(tool[g].store)
      BY <2>4 DEF FinishFetch, StoreCall, ComponentInv, FetchHasStore
    <3>2. QED
      BY <3>1, LockedFileKept
  <2>5. QED
    BY <2>1, <2>2, <2>3, <2>4
       DEF ComponentNext, Mount, TestUnlocked, TakeEngine, SuiteRestarts, Relaunch, Crash,
           componentVars, ownerVars, storeVars
<1>2. QED
  BY <1>1, ComponentInvariant, PTL DEF ComponentSpec, LockedFileStable

\* As long as every Unlock follows a Lock, the component, its routes and its tools do to
\* stores and file only what StoreSpec allows (component.go:84-119, 141-160).
THEOREM ComponentInTurnIsStore == ComponentSpec /\ []~overlapped => StoreSpec
<1>1. ComponentInit => StoreInit
  BY DEF ComponentInit, OwnerInit
<1>2. ComponentInv /\ ~overlapped' /\ [ComponentNext]_componentVars => [StoreNext]_storeVars
  <2> SUFFICES ASSUME ComponentInv, ~overlapped', [ComponentNext]_componentVars
               PROVE  [StoreNext]_storeVars
    OBVIOUS
  <2>1. ASSUME NEW s \in Stores, Unlock(s)
        PROVE  StoreNext
    BY <2>1 DEF Unlock, Acquire, StoreNext
  <2>2. ASSUME NEW ok \in BOOLEAN, Lock(ok)
        PROVE  StoreNext
    BY <2>2 DEF Lock, ComponentInv, OwnerInv, OwnerTypeOK, StoreNext
  <2>3. ASSUME NEW s \in Stores, Route(s)
        PROVE  StoreNext
    BY <2>3 DEF Route, StoreNext
  <2>4. ASSUME NEW g \in Tools, FinishFetch(g)
        PROVE  StoreNext
    <3>1. tool[g].store \in Stores /\ StoreCall(tool[g].store)
      BY <2>4 DEF FinishFetch, StoreCall, ComponentInv, FetchHasStore
    <3>2. QED
      BY <3>1 DEF StoreNext
  <2>5. CASE SuiteRestarts
    BY <2>5 DEF SuiteRestarts, Relaunch, StoreNext
  <2>6. QED
    BY <2>1, <2>2, <2>3, <2>4, <2>5
       DEF ComponentNext, Mount, TestUnlocked, TakeEngine, componentVars, ownerVars
<1>3. QED
  BY <1>1, <1>2, ComponentInvariant, PTL DEF ComponentSpec, StoreSpec
===============================================================================
