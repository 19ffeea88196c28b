---------------------------- MODULE PendingApprover ----------------------------
(***************************************************************************)
(* src/internal/server/approver.go.  A confirm-tier fetch blocks in        *)
(* Confirm until a human decides through the control plane, the approval   *)
(* timeout fires or the request's context is cancelled.  The map of        *)
(* pending requests is the only state the mutex guards: decide looks the   *)
(* request up under it and sends on the request's channel after releasing  *)
(* it, so a decision may reach a request that has already gone.            *)
(*                                                                         *)
(* A call stands for one pending request and for its random id.  The       *)
(* channel has one slot (make(chan bool, 1)), empty or holding a decision. *)
(***************************************************************************)
EXTENDS Naturals

CONSTANTS Calls,    \* the calls of Confirm, each with its own id
          Deciders, \* handler goroutines of POST .../approvals/{id}
          NoCall    \* the id a decider holds when it has none

ASSUME NoCallAssumption == NoCall \notin Calls

VARIABLES
  call,    \* call[c]: where Confirm is
  pending, \* the ids in p.pending
  slot,    \* slot[c]: the buffer of pr.ch
  fired,   \* the calls whose timer has fired
  gone,    \* the calls whose context is done
  verdict, \* verdict[c]: what Confirm returns, and why
  decider, \* decider[d]: the request d looked up and the decision it brings
  first    \* first[c]: history, the first decision acknowledged for c

approverVars == <<call, pending, slot, fired, gone, verdict, decider, first>>

Decisions == {"approve", "deny"}
Idle == [id |-> NoCall, decision |-> "deny"]

ApproverTypeOK ==
  /\ call \in [Calls -> {"idle", "waiting", "leaving", "done"}]
  /\ pending \subseteq Calls
  /\ slot \in [Calls -> Decisions \cup {"empty"}]
  /\ fired \subseteq Calls
  /\ gone \subseteq Calls
  /\ verdict \in [Calls -> {"none", "approved", "denied", "expired", "cancelled"}]
  /\ decider \in [Deciders -> [id : Calls \cup {NoCall}, decision : Decisions]]
  /\ first \in [Calls -> Decisions \cup {"none"}]

ApproverInit ==
  /\ call = [c \in Calls |-> "idle"]
  /\ pending = {}
  /\ slot = [c \in Calls |-> "empty"]
  /\ fired = {}
  /\ gone = {}
  /\ verdict = [c \in Calls |-> "none"]
  /\ decider = [d \in Deciders |-> Idle]
  /\ first = [c \in Calls |-> "none"]

-------------------------------------------------------------------------------
(* Confirm, one call. *)

Register(c) ==
  /\ call[c] = "idle"
  /\ call' = [call EXCEPT ![c] = "waiting"]
  /\ pending' = pending \cup {c}
  /\ UNCHANGED <<slot, fired, gone, verdict, decider, first>>

\* time.NewTimer(p.timeout) runs while Confirm waits (it is stopped on return).
TimerFires(c) ==
  /\ call[c] = "waiting"
  /\ c \notin fired
  /\ fired' = fired \cup {c}
  /\ UNCHANGED <<call, pending, slot, gone, verdict, decider, first>>

\* The caller of /v1/fetch goes away: its request context is cancelled.
Cancel(c) ==
  /\ call[c] # "done"
  /\ c \notin gone
  /\ gone' = gone \cup {c}
  /\ UNCHANGED <<call, pending, slot, fired, verdict, decider, first>>

\* One case of the select is taken; with several ready, any of them.
Returns(c, outcome) ==
  /\ call[c] = "waiting"
  /\ call' = [call EXCEPT ![c] = "leaving"]
  /\ verdict' = [verdict EXCEPT ![c] = outcome]
  /\ UNCHANGED <<pending, fired, gone, decider, first>>

Receive(c) ==
  /\ slot[c] # "empty"
  /\ slot' = [slot EXCEPT ![c] = "empty"]
  /\ Returns(c, IF slot[c] = "approve" THEN "approved" ELSE "denied")

\* Faulty variant of Expire: the timeout lets the request through.
ExpireOpen(c) == c \in fired /\ Returns(c, "approved") /\ UNCHANGED slot

Expire(c) == c \in fired /\ Returns(c, "expired") /\ UNCHANGED slot

Abandon(c) == c \in gone /\ Returns(c, "cancelled") /\ UNCHANGED slot

Unlisted(c) == pending \ {c}

\* The deferred delete, under the mutex; Confirm returns its verdict.
Leave(c) ==
  /\ call[c] = "leaving"
  /\ call' = [call EXCEPT ![c] = "done"]
  /\ pending' = Unlisted(c)
  /\ UNCHANGED <<slot, fired, gone, verdict, decider, first>>

-------------------------------------------------------------------------------
(* decide, one goroutine of the control plane.  An id that is not pending  *)
(* is answered 404 and changes nothing, so only a found one is a step.     *)

Find(d, c, decision) ==
  /\ decider[d] = Idle
  /\ c \in pending
  /\ decider' = [decider EXCEPT ![d] = [id |-> c, decision |-> decision]]
  /\ UNCHANGED <<call, pending, slot, fired, gone, verdict, first>>

\* Faulty variant of Free: a second decision replaces an unread first.
FreeAlways(c) == TRUE

Free(c) == slot[c] = "empty"

\* The send after the unlock does not block: it fills the free slot and the
\* human is told "decided", or it finds the slot full and the answer is 404.
Deliver(d) ==
  LET c == decider[d].id IN
  /\ c # NoCall
  /\ decider' = [decider EXCEPT ![d] = Idle]
  /\ \/ /\ Free(c)
        /\ slot' = [slot EXCEPT ![c] = decider[d].decision]
        /\ first' = IF first[c] = "none"
                      THEN [first EXCEPT ![c] = decider[d].decision]
                      ELSE first
     \/ /\ ~Free(c)
        /\ UNCHANGED <<slot, first>>
  /\ UNCHANGED <<call, pending, fired, gone, verdict>>

-------------------------------------------------------------------------------
\* Faulty variant of Select: no case for the timer.
SelectUntimed(c) == Receive(c) \/ Abandon(c)

Select(c) == Receive(c) \/ Expire(c) \/ Abandon(c)

ConfirmStep(c) == Select(c) \/ Leave(c) \/ TimerFires(c) \/ Cancel(c)

DecideStep(d) ==
  \/ \E c \in Calls, decision \in Decisions : Find(d, c, decision)
  \/ Deliver(d)

ApproverNext ==
  \/ \E c \in Calls : Register(c) \/ ConfirmStep(c)
  \/ \E d \in Deciders : DecideStep(d)

\* The runtime schedules Confirm and its timer; nothing makes a human decide
\* and nothing makes a caller go away.
ApproverFairness ==
  \A c \in Calls : /\ WF_approverVars(TimerFires(c))
                   /\ WF_approverVars(Select(c))
                   /\ WF_approverVars(Leave(c))

ApproverSafety == ApproverInit /\ [][ApproverNext]_approverVars
ApproverSpec == ApproverSafety /\ ApproverFairness

-------------------------------------------------------------------------------
(* Properties. *)

\* Confirm returns what the first acknowledged decision said, or fails closed:
\* a later decision, and one that finds the request already gone, never turns
\* a refusal into an approval or the reverse.
VerdictFaithful ==
  \A c \in Calls :
    /\ verdict[c] = "approved" => first[c] = "approve"
    /\ verdict[c] = "denied" => first[c] = "deny"

\* A request whose first acknowledged decision was "approve" is refused only
\* when its timer had fired or its caller had gone: nothing else overrides the
\* human (approver.go:53-64).
ApprovalLostOnlyToTimeout ==
  \A c \in Calls :
    first[c] = "approve" /\ call[c] \in {"leaving", "done"} /\ verdict[c] # "approved"
      => c \in fired \cup gone

\* The list the human sees holds exactly the requests still inside Confirm: one
\* that has returned is never offered for approval, one that waits always is.
PendingIsLive ==
  pending = {c \in Calls : call[c] \in {"waiting", "leaving"}}

\* No confirm-tier call hangs: every call that waits returns, and is taken off
\* the list, even if no human ever answers.
ConfirmReturns ==
  \A c \in Calls : (call[c] = "waiting") ~> (call[c] = "done" /\ c \notin pending)

\* PendingApprover implements Approval.
AbstractRequest ==
  [c \in Calls |->
     IF call[c] = "idle" THEN "idle"
     ELSE IF call[c] = "waiting" THEN "asked"
     ELSE IF verdict[c] = "approved" THEN "approved" ELSE "refused"]
AbstractSaid == [c \in Calls |-> IF first[c] = "none" THEN "nothing" ELSE first[c]]

Abstract == INSTANCE Approval WITH request <- AbstractRequest, said <- AbstractSaid

\* Every behaviour of the approver is one the abstract specification allows.
ImplementsApproval == Abstract!ApprovalSpec
===============================================================================
