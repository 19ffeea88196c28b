------------------------------- MODULE Approval -------------------------------
(***************************************************************************)
(* What the approval of a confirm-tier request promises, whatever the      *)
(* mechanism: a request that was asked for is either approved, and then    *)
(* only because the first answer a human gave to it was "approve", or      *)
(* refused.  A refusal needs no answer (the broker fails closed), and no   *)
(* request stays open.  PendingApprover implements this specification.     *)
(***************************************************************************)
CONSTANT Calls

VARIABLES request, \* request[c]: "idle", "asked", "approved" or "refused"
          said     \* said[c]: the first answer accepted for c, or "nothing"

abstractVars == <<request, said>>

ApprovalTypeOK ==
  /\ request \in [Calls -> {"idle", "asked", "approved", "refused"}]
  /\ said \in [Calls -> {"nothing", "approve", "deny"}]

ApprovalInit ==
  /\ request = [c \in Calls |-> "idle"]
  /\ said = [c \in Calls |-> "nothing"]

Ask(c) ==
  /\ request[c] = "idle"
  /\ request' = [request EXCEPT ![c] = "asked"]
  /\ UNCHANGED said

\* Only the first answer is kept.  It may come too late to matter.
Say(c, answer) ==
  /\ request[c] # "idle"
  /\ said[c] = "nothing"
  /\ said' = [said EXCEPT ![c] = answer]
  /\ UNCHANGED request

Approve(c) ==
  /\ request[c] = "asked"
  /\ said[c] = "approve"
  /\ request' = [request EXCEPT ![c] = "approved"]
  /\ UNCHANGED said

Refuse(c) ==
  /\ request[c] = "asked"
  /\ request' = [request EXCEPT ![c] = "refused"]
  /\ UNCHANGED said

ApprovalNext ==
  \E c \in Calls :
    \/ Ask(c)
    \/ \E answer \in {"approve", "deny"} : Say(c, answer)
    \/ Approve(c)
    \/ Refuse(c)

ApprovalSafety == ApprovalInit /\ [][ApprovalNext]_abstractVars

ApprovalSpec ==
  /\ ApprovalSafety
  /\ \A c \in Calls : WF_abstractVars(Approve(c) \/ Refuse(c))
===============================================================================
