------------------------------- MODULE Component -------------------------------
(***************************************************************************)
(* src/component/component.go: the vault inside the suite.  The suite's    *)
(* owner goroutine calls Unlock, Mount and Lock, in any order; the routes  *)
(* Mount registers stay on the suite's mux for good and lead to the store  *)
(* they were made for; tools call Fetch from goroutines of their own.  The *)
(* Component has no mutex: Fetch tests c.srv and then reads it again.      *)
(***************************************************************************)
EXTENDS StoreOwner

CONSTANT Tools \* goroutines in Component.Fetch

VARIABLES
  mounted, \* the stores whose planes are on the suite's mux
  tool     \* tool[g]: [at |-> where Fetch is, store |-> the store it has seen]

componentVars == <<ownerVars, mounted, tool>>

Outside == [at |-> "outside", store |-> NoStore]

ComponentTypeOK ==
  /\ OwnerTypeOK
  /\ mounted \subseteq Stores
  /\ tool \in [Tools -> [at : {"outside", "tested", "fetching", "panicked"},
                         store : Stores \cup {NoStore}]]

ComponentInit ==
  /\ OwnerInit
  /\ mounted = {}
  /\ tool = [g \in Tools |-> Outside]

-------------------------------------------------------------------------------
\* A store object is new unless something still leads to it.
Reached(s) == s = current \/ s \in mounted \/ \E g \in Tools : tool[g].store = s

\* CreateWithDEK on the first launch, OpenWithDEK later.  Nothing asks whether the
\* component is unlocked already.
Unlock(s) ==
  /\ ~Reached(s)
  /\ Acquire(s)
  /\ UNCHANGED <<mounted, tool>>

\* Nothing happens while c.srv is nil.
Mount ==
  /\ current # NoStore
  /\ mounted' = mounted \cup {current}
  /\ UNCHANGED <<storeVars, current, tool, overlapped>>

\* Faulty variant of Lock: the component forgets its store without closing it.
LockForgets(ok) ==
  /\ current # NoStore
  /\ current' = NoStore
  /\ ok \in BOOLEAN
  /\ UNCHANGED <<storeVars, mounted, tool, overlapped>>

\* Lock.  The fields are cleared whatever Close answers.
Lock(ok) ==
  /\ current # NoStore
  /\ Close(current, ok)
  /\ current' = NoStore
  /\ UNCHANGED <<mounted, tool, overlapped>>

\* A request through the mux, answered by the store its routes were made for.
Route(s) ==
  /\ s \in mounted
  /\ StoreCall(s)
  /\ UNCHANGED <<current, mounted, tool, overlapped>>

\* Fetch.  With c.srv nil it answers ErrLocked and changes nothing.
TestUnlocked(g) ==
  /\ tool[g].at = "outside"
  /\ current # NoStore
  /\ tool' = [tool EXCEPT ![g] = [at |-> "tested", store |-> current]]
  /\ UNCHANGED <<storeVars, current, mounted, overlapped>>

\* c.srv.Engine(): a data race with the owner.  The build may use the pointer it has
\* tested, or load the field again; a nil one is dereferenced.
TakeEngine(g) ==
  /\ tool[g].at = "tested"
  /\ \E s \in {tool[g].store, current} :
       tool' = [tool EXCEPT ![g] = [at |-> IF s = NoStore THEN "panicked" ELSE "fetching",
                                    store |-> s]]
  /\ UNCHANGED <<storeVars, current, mounted, overlapped>>

\* The pipeline runs and appends its row.
FinishFetch(g) ==
  /\ tool[g].at = "fetching"
  /\ \E e \in AuditInput, ok \in BOOLEAN : AppendAudit(tool[g].store, e, ok)
  /\ tool' = [tool EXCEPT ![g] = Outside]
  /\ UNCHANGED <<current, mounted, overlapped>>

\* The suite ends and is started again.
SuiteRestarts ==
  /\ Relaunch
  /\ mounted' = {}
  /\ tool' = [g \in Tools |-> Outside]

ComponentNext ==
  \/ \E s \in Stores : Unlock(s)
  \/ Mount
  \/ \E ok \in BOOLEAN : Lock(ok)
  \/ \E s \in Stores : Route(s)
  \/ \E g \in Tools : TestUnlocked(g) \/ TakeEngine(g) \/ FinishFetch(g)
  \/ SuiteRestarts

ComponentSpec == ComponentInit /\ [][ComponentNext]_componentVars

-------------------------------------------------------------------------------
(* Properties. *)

\* Only the store that the component would close has its key in RAM, as long as
\* every Unlock follows a Lock.
OnlyCurrentOpen ==
  ~overlapped => \A s \in Stores : key[s] = "live" <=> s = current

-------------------------------------------------------------------------------
(* Statements of the comments that the code does not meet. *)

\* component.go:152, "Lock re-seals and zeroizes the key": a component that is locked
\* holds no key.
LockWipesKey == current = NoStore => Exclusive

\* component.go:139-140, "ErrLocked if not unlocked": a fetch that meets a locked
\* component is answered so.
FetchAnswersLocked == \A g \in Tools : tool[g].at # "panicked"
===============================================================================
