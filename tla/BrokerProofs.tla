------------------------------ MODULE BrokerProofs -----------------------------
(* First the human approval alone: its invariants, and that it implements the    *)
(* safety part of Approval.  Then the pipeline over the store and the approval:  *)
(* both keep what was proved of them, and the fetches keep to the policy and     *)
(* leave truthful rows, one each.  For any fetches, deciders, credentials,       *)
(* stores and policies.                                                          *)
EXTENDS Broker, VaultStoreProofs

-------------------------------------------------------------------------------
(* PendingApprover. *)

\* A decider only ever holds the id of a call that has registered.
DeciderKnowsCall ==
  \A d \in Deciders : decider[d].id # NoCall => call[decider[d].id] # "idle"

\* Until Confirm selects, the slot and the history agree on the first decision.
SlotHoldsFirst ==
  \A c \in Calls :
    call[c] \in {"idle", "waiting"} =>
      /\ verdict[c] = "none"
      /\ first[c] = IF slot[c] = "empty" THEN "none" ELSE slot[c]
      /\ call[c] = "idle" => slot[c] = "empty"

\* A refusal nobody asked for comes from the timer or from the context.
RefusalHasCause ==
  \A c \in Calls :
    /\ verdict[c] = "expired" => c \in fired
    /\ verdict[c] = "cancelled" => c \in gone
    /\ call[c] \in {"leaving", "done"} => verdict[c] # "none"

ApproverInv ==
  /\ ApproverTypeOK
  /\ DeciderKnowsCall
  /\ SlotHoldsFirst
  /\ RefusalHasCause
  /\ VerdictFaithful
  /\ PendingIsLive

LEMMA ApproverInitEstablishes == ApproverInit => ApproverInv
  BY NoCallAssumption
     DEF ApproverInit, ApproverInv, ApproverTypeOK, DeciderKnowsCall, SlotHoldsFirst,
         RefusalHasCause, VerdictFaithful, PendingIsLive, Idle, Decisions

LEMMA ApproverStepPreserves == ApproverInv /\ [ApproverNext]_approverVars => ApproverInv'
<1> SUFFICES ASSUME ApproverInv, [ApproverNext]_approverVars
             PROVE  ApproverInv'
  OBVIOUS
<1> USE NoCallAssumption
    DEF ApproverInv, ApproverTypeOK, DeciderKnowsCall, SlotHoldsFirst,
        RefusalHasCause, VerdictFaithful, PendingIsLive, Decisions
<1>1. ASSUME NEW c \in Calls, Register(c)
      PROVE  ApproverInv'
  BY <1>1 DEF Register
<1>2. ASSUME NEW c \in Calls, TimerFires(c)
      PROVE  ApproverInv'
  BY <1>2 DEF TimerFires
<1>3. ASSUME NEW c \in Calls, Cancel(c)
      PROVE  ApproverInv'
  BY <1>3 DEF Cancel
<1>4. ASSUME NEW c \in Calls, Receive(c)
      PROVE  ApproverInv'
  BY <1>4 DEF Receive, Returns
<1>5. ASSUME NEW c \in Calls, Expire(c)
      PROVE  ApproverInv'
  BY <1>5 DEF Expire, Returns
<1>6. ASSUME NEW c \in Calls, Abandon(c)
      PROVE  ApproverInv'
  BY <1>6 DEF Abandon, Returns
<1>7. ASSUME NEW c \in Calls, Leave(c)
      PROVE  ApproverInv'
  BY <1>7 DEF Leave, Unlisted
<1>8. ASSUME NEW d \in Deciders, NEW c \in Calls, NEW ruling \in Decisions,
             Find(d, c, ruling)
      PROVE  ApproverInv'
  BY <1>8 DEF Find
<1>9. ASSUME NEW d \in Deciders, Deliver(d)
      PROVE  ApproverInv'
  <2> DEFINE c == decider[d].id
  <2>1. c \in Calls /\ call[c] # "idle"
    BY <1>9 DEF Deliver, Free
  <2>2. CASE slot[c] = "empty"
    BY <1>9, <2>1, <2>2 DEF Deliver, Free, Idle
  <2>3. CASE slot[c] # "empty"
    BY <1>9, <2>1, <2>3 DEF Deliver, Free, Idle
  <2>4. QED
    BY <2>2, <2>3
<1>10. CASE UNCHANGED approverVars
  BY <1>10 DEF approverVars
<1>11. QED
  BY <1>1, <1>2, <1>3, <1>4, <1>5, <1>6, <1>7, <1>8, <1>9, <1>10
     DEF ApproverNext, ConfirmStep, Select, DecideStep

\* The inductive invariant holds in every state of every behaviour.
THEOREM ApproverInvariant == ApproverSafety => []ApproverInv
  BY ApproverInitEstablishes, ApproverStepPreserves, PTL DEF ApproverSafety

\* Type correctness of the approver's state, for every set of calls and deciders.
THEOREM ApproverTypeCorrect == ApproverSafety => []ApproverTypeOK
<1>1. ApproverInv => ApproverTypeOK
  BY DEF ApproverInv
<1>2. QED
  BY <1>1, ApproverInvariant, PTL

\* Confirm answers what the first acknowledged decision said, or fails closed
\* (approver.go:53-64), however many decisions race for the request.
THEOREM VerdictIsFaithful == ApproverSafety => []VerdictFaithful
<1>1. ApproverInv => VerdictFaithful
  BY DEF ApproverInv
<1>2. QED
  BY <1>1, ApproverInvariant, PTL

\* An acknowledged first approval is overridden by the timeout or by the caller
\* leaving, and by nothing else (approver.go:53-64).
THEOREM ApprovalSurvives == ApproverSafety => []ApprovalLostOnlyToTimeout
<1>1. ApproverInv => ApprovalLostOnlyToTimeout
  BY DEF ApproverInv, ApproverTypeOK, RefusalHasCause, VerdictFaithful,
         ApprovalLostOnlyToTimeout
<1>2. QED
  BY <1>1, ApproverInvariant, PTL

\* The list shown to the human is the set of calls inside Confirm
\* (approver.go:46-52, the registration and the deferred delete).
THEOREM PendingListExact == ApproverSafety => []PendingIsLive
<1>1. ApproverInv => PendingIsLive
  BY DEF ApproverInv
<1>2. QED
  BY <1>1, ApproverInvariant, PTL

-------------------------------------------------------------------------------
(* Refinement.  The select of Confirm is the abstract Approve or Refuse, an  *)
(* acknowledged first decision is the abstract Say; every other step of the  *)
(* approver changes nothing the abstract specification sees.                 *)

LEMMA ApproverStepImplements ==
  ApproverInv /\ [ApproverNext]_approverVars
    => [Abstract!ApprovalNext]_(Abstract!abstractVars)
<1> SUFFICES ASSUME ApproverInv, [ApproverNext]_approverVars
             PROVE  [Abstract!ApprovalNext]_(Abstract!abstractVars)
  OBVIOUS
<1> USE NoCallAssumption
    DEF ApproverInv, ApproverTypeOK, SlotHoldsFirst, DeciderKnowsCall, Decisions,
        AbstractRequest, AbstractSaid
<1>1. ASSUME NEW c \in Calls, Register(c)
      PROVE  Abstract!Ask(c)
  BY <1>1 DEF Register, Abstract!Ask
<1>2. ASSUME NEW c \in Calls, TimerFires(c) \/ Cancel(c) \/ Leave(c)
      PROVE  UNCHANGED Abstract!abstractVars
  BY <1>2 DEF TimerFires, Cancel, Leave, Unlisted, Abstract!abstractVars
<1>3. ASSUME NEW c \in Calls, Receive(c)
      PROVE  Abstract!Approve(c) \/ Abstract!Refuse(c)
  BY <1>3 DEF Receive, Returns, Abstract!Approve, Abstract!Refuse
<1>4. ASSUME NEW c \in Calls, Expire(c) \/ Abandon(c)
      PROVE  Abstract!Refuse(c)
  <2>1. call' = [call EXCEPT ![c] = "leaving"] /\ verdict'[c] # "approved"
    BY <1>4 DEF Expire, Abandon, Returns
  <2>2. call[c] = "waiting" /\ UNCHANGED first /\ \A k \in Calls \ {c} : verdict'[k] = verdict[k]
    BY <1>4 DEF Expire, Abandon, Returns
  <2>3. QED
    BY <2>1, <2>2 DEF Abstract!Refuse
<1>5. ASSUME NEW d \in Deciders, NEW c \in Calls, NEW ruling \in Decisions,
             Find(d, c, ruling)
      PROVE  UNCHANGED Abstract!abstractVars
  BY <1>5 DEF Find, Abstract!abstractVars
<1>6. ASSUME NEW d \in Deciders, Deliver(d)
      PROVE  [Abstract!ApprovalNext]_(Abstract!abstractVars)
  <2>1. PICK c \in Calls, answer \in Decisions :
          c = decider[d].id /\ answer = decider[d].decision /\ call[c] # "idle"
    BY <1>6 DEF Deliver, Free
  <2>2. CASE slot[c] = "empty" /\ first[c] = "none"
    <3>1. first' = [first EXCEPT ![c] = answer] /\ UNCHANGED <<call, verdict>>
      BY <1>6, <2>1, <2>2 DEF Deliver, Free
    <3>2. AbstractSaid' = [AbstractSaid EXCEPT ![c] = answer]
      BY <2>1, <3>1
    <3>3. Abstract!Say(c, answer)
      BY <2>1, <2>2, <3>1, <3>2 DEF Abstract!Say
    <3>4. QED
      BY <2>1, <3>3 DEF Abstract!ApprovalNext
  <2>3. CASE slot[c] # "empty" \/ first[c] # "none"
    <3>1. UNCHANGED <<call, verdict, first>>
      BY <1>6, <2>1, <2>3 DEF Deliver, Free
    <3>2. QED
      BY <3>1 DEF Abstract!abstractVars
  <2>4. QED
    BY <2>2, <2>3
<1>7. CASE UNCHANGED approverVars
  BY <1>7 DEF approverVars, Abstract!abstractVars
<1>8. QED
  BY <1>1, <1>2, <1>3, <1>4, <1>5, <1>6, <1>7
     DEF ApproverNext, ConfirmStep, Select, DecideStep, Abstract!ApprovalNext

\* Every behaviour of the approver is a behaviour of the abstract approval: a
\* request is approved only on the human's first answer, and never reopened.
THEOREM ApproverImplementsApproval == ApproverSafety => Abstract!ApprovalSafety
<1>1. ApproverInit => Abstract!ApprovalInit
  BY DEF ApproverInit, Abstract!ApprovalInit, AbstractRequest, AbstractSaid
<1>2. QED
  BY <1>1, ApproverStepImplements, ApproverInvariant, PTL
     DEF ApproverSafety, Abstract!ApprovalSafety

-------------------------------------------------------------------------------
(* Broker. *)

TierOfJob(f) == TierOf(held[f], job[f].method)

\* The credential held lets the request go to its host.
Granted(f) ==
  /\ held[f] \in Creds
  /\ job[f].host \in held[f].hosts
  /\ TierOfJob(f) # "deny"

\* A confirm tier has been through Confirm and was approved; no other ever asked.
Cleared(f) ==
  /\ TierOfJob(f) = "confirm" => call[f] = "done" /\ verdict[f] = "approved"
  /\ TierOfJob(f) # "confirm" => call[f] = "idle"

Ruled(f) == decision[f] = IF TierOfJob(f) = "confirm" THEN "confirmed" ELSE "allowed"

\* What was sent is the secret of the credential held, to the host admitted.
Posted(f) == sent[f].secret = held[f].secret /\ sent[f].host = job[f].host

\* How far a fetch is and what that means.
Phase(f) ==
  /\ stage[f] # "idle" => job[f] \in Requests
  /\ stage[f] \in {"idle", "lookup", "admit"} => call[f] = "idle"
  /\ stage[f] = "admit" => held[f] \in Creds
  /\ stage[f] = "confirm" => Granted(f) /\ TierOfJob(f) = "confirm"
  /\ stage[f] \in {"rate", "send", "respond"} => Granted(f) /\ Cleared(f) /\ Ruled(f)
  /\ stage[f] \notin {"respond", "audit", "done"} => ~WasSent(f)
  /\ stage[f] \notin {"audit", "done"} => upstream[f] = "none"
  /\ stage[f] = "respond" => WasSent(f)
  /\ WasSent(f) => Granted(f) /\ Cleared(f) /\ Posted(f)

\* What the decision says of a fetch that is about to leave its row, or has.
Settled(f) ==
  /\ decision[f] \in {"allowed", "confirmed"} =>
       WasSent(f) /\ upstream[f] = "clean" /\ Ruled(f) /\ held[f] \in Creds
  /\ decision[f] = "blocked" => ~WasSent(f) /\ call[f] = "done" /\ verdict[f] # "approved" /\ held[f] \in Creds
  /\ decision[f] = "denied" => upstream[f] # "clean"
  /\ decision[f] # "none"

Sendings ==
  [secret : {""} \cup {c.secret : c \in Creds},
   host : {""} \cup {r.host : r \in Requests},
   vault : {"absent", "live", "nil"}]

FetchInv ==
  /\ FetchTypeOK
  /\ sent \in [Calls -> Sendings]
  /\ \A f \in Calls : Phase(f) /\ (stage[f] \in {"audit", "done"} => Settled(f))

-------------------------------------------------------------------------------
(* The rows. *)

NoRow(log, f) == RowsOf(log, f) = {}
OneRow(log, f) == \E i \in DOMAIN log : RowsOf(log, f) = {i}

\* Every row is that of a fetch that has returned.
RowsReturned(log) ==
  \A i \in DOMAIN log : \E f \in Calls : log[i].fields = <<f, decision[f]>> /\ stage[f] = "done"

\* A log has no row of a fetch twice.
RowsOnce(log) == \A f \in Calls : NoRow(log, f) \/ OneRow(log, f)

RowsInv ==
  /\ \A s \in Stores : RowsReturned(doc[s].audit) /\ RowsOnce(doc[s].audit)
  /\ file # NoFile => RowsReturned(file.audit) /\ RowsOnce(file.audit)
  /\ \A f \in Calls : stage[f] = "done" => OneRow(doc[serves[f]].audit, f)
  /\ \A f \in logged :
       /\ file # NoFile /\ OneRow(file.audit, f)
       /\ \A s \in Stores : key[s] = "live" => OneRow(doc[s].audit, f)

BrokerInv == StoreInv /\ ApproverInv /\ FetchInv /\ RowsInv

LEMMA BrokerInitEstablishes == BrokerInit => BrokerInv
<1> SUFFICES ASSUME BrokerInit
             PROVE  BrokerInv
  OBVIOUS
<1>1. StoreInv /\ ApproverInv
  BY StoreInitEstablishes, ApproverInitEstablishes DEF BrokerInit
<1>2. (CHOOSE s \in Stores : TRUE) \in Stores
  BY BrokerAssumption
<1>3. NoHash \in Hashes
  BY DEF NoHash, Hashes
<1>4. FetchTypeOK
  BY <1>2, <1>3 DEF BrokerInit, FetchInit, FetchTypeOK, Stages, Verdicts, Endings
<1>5. FetchInv
  <2>1. NoSend \in Sendings
    BY DEF NoSend, Sendings
  <2>2. sent \in [Calls -> Sendings]
    BY <2>1 DEF BrokerInit, FetchInit
  <2>3. QED
    BY <1>4, <2>2 DEF BrokerInit, FetchInit, ApproverInit, FetchInv, Phase, WasSent
<1>6. RowsInv
  BY DEF BrokerInit, FetchInit, StoreInit, EmptyDoc, RowsInv, RowsReturned, RowsOnce, NoRow, RowsOf
<1>7. QED
  BY <1>1, <1>5, <1>6 DEF BrokerInv

-------------------------------------------------------------------------------
(* The components take steps of their own. *)

LEMMA OneIsTime == 1 \in Times
<1>1. MaxTime >= 1
  BY BrokerAssumption
<1>2. MaxTime \in Nat
  BY TimeAssumption
<1>3. QED
  BY <1>1, <1>2 DEF Times

LEMMA NamedAndSecret == (\A r \in Requests : r.name \in Names) /\ (\A c \in Creds : c.secret # "")
  BY BrokerAssumption

\* What a lookup may return.
LEMMA LookupTyped ==
  ASSUME BrokerInv, NEW f \in Calls, stage[f] # "idle"
  PROVE  doc[serves[f]].creds[job[f].name] \in Creds \cup {NoCred}
<1>1. serves[f] \in Stores /\ job[f].name \in Names
  BY NamedAndSecret DEF BrokerInv, FetchInv, FetchTypeOK, Phase
<1>2. QED
  BY <1>1 DEF BrokerInv, StoreInv, SoundInv, StoreTypeOK, Docs

\* What goes out is the secret of a credential, never an empty one.
LEMMA OutgoingTyped ==
  ASSUME BrokerInv, NEW f \in Calls, stage[f] = "send"
  PROVE  Outgoing(f) \in Sendings /\ Outgoing(f) # NoSend
<1>1. held[f] \in Creds /\ job[f] \in Requests /\ key[serves[f]] \in {"absent", "live", "nil"}
  BY DEF BrokerInv, FetchInv, FetchTypeOK, Phase, Granted, StoreInv, SoundInv, StoreTypeOK
<1>2. Outgoing(f) \in Sendings
  BY <1>1 DEF Outgoing, Sendings
<1>3. held[f].secret # ""
  BY <1>1, NamedAndSecret
<1>4. Outgoing(f).secret # "" /\ NoSend.secret = ""
  BY <1>3 DEF Outgoing, NoSend
<1>5. QED
  BY <1>2, <1>4

LEMMA RowIsInput ==
  ASSUME BrokerInv, NEW f \in Calls, stage[f] = "audit",
         NEW tier, tier = IF decision[f] = "denied" THEN "" ELSE TierOf(held[f], job[f].method)
  PROVE  [time |-> 1, fields |-> <<f, decision[f]>>, tier |-> tier] \in AuditInput
<1>2. <<f, decision[f]>> \in Entries
  BY BrokerAssumption DEF BrokerInv, FetchInv, FetchTypeOK
<1>3. decision[f] # "denied" => held[f] \in Creds
  BY DEF BrokerInv, FetchInv, FetchTypeOK, Verdicts, Settled
<1>4. tier \in Tiers
  BY <1>3, BrokerAssumption DEF TierOf
<1>5. QED
  BY OneIsTime, <1>2, <1>4 DEF AuditInput

LEMMA StoreMoves == BrokerInv /\ [BrokerNext]_brokerVars => [StoreNext]_storeVars
<1> SUFFICES ASSUME BrokerInv, [BrokerNext]_brokerVars
             PROVE  [StoreNext]_storeVars
  OBVIOUS
<1>1. CASE Human
  BY <1>1, BrokerAssumption DEF Human, StoreNext, StoreCall
<1>2. ASSUME NEW f \in Calls, NEW ok \in BOOLEAN, Audit(f, ok)
      PROVE  StoreNext
  <2> DEFINE e == [time |-> 1, fields |-> <<f, decision[f]>>,
                   tier |-> IF decision[f] = "denied" THEN "" ELSE TierOf(held[f], job[f].method)]
  <2>1. e \in AuditInput
    BY <1>2, RowIsInput DEF Audit
  <2>2. AppendAudit(serves[f], e, ok) /\ serves[f] \in Stores
    BY <1>2 DEF Audit, BrokerInv, FetchInv, FetchTypeOK
  <2> HIDE DEF e
  <2>3. QED
    BY <2>1, <2>2 DEF StoreNext, StoreCall
<1>3. CASE Approving
  BY <1>3 DEF Approving
<1>4. ASSUME NEW f \in Calls, FetchStep(f), \A ok \in BOOLEAN : ~Audit(f, ok)
      PROVE  UNCHANGED storeVars
  BY <1>4 DEF FetchStep, LookupCredential, Admit, Confirmed, Prepare, Forward, Respond
<1>5. ASSUME NEW f \in Calls, NEW s \in Stores, NEW r \in Requests, Begin(f, s, r)
      PROVE  UNCHANGED storeVars
  BY <1>5 DEF Begin
<1>6. CASE UNCHANGED brokerVars
  BY <1>6 DEF brokerVars
<1>7. QED
  BY <1>1, <1>2, <1>3, <1>4, <1>5, <1>6 DEF BrokerNext

LEMMA ApproverMoves == BrokerInv /\ [BrokerNext]_brokerVars => [ApproverNext]_approverVars
<1> SUFFICES ASSUME BrokerInv, [BrokerNext]_brokerVars
             PROVE  [ApproverNext]_approverVars
  OBVIOUS
<1>1. CASE Human
  BY <1>1 DEF Human
<1>2. ASSUME NEW f \in Calls, FetchStep(f)
      PROVE  [ApproverNext]_approverVars
  BY <1>2 DEF FetchStep, LookupCredential, Admit, Confirmed, Prepare, Forward, Respond, Audit, ApproverNext
<1>3. CASE Approving
  BY <1>3 DEF Approving, ApproverNext, ConfirmStep
<1>4. ASSUME NEW f \in Calls, NEW s \in Stores, NEW r \in Requests, Begin(f, s, r)
      PROVE  UNCHANGED approverVars
  BY <1>4 DEF Begin
<1>5. CASE UNCHANGED brokerVars
  BY <1>5 DEF brokerVars
<1>6. QED
  BY <1>1, <1>2, <1>3, <1>4, <1>5 DEF BrokerNext

-------------------------------------------------------------------------------
(* The fetches. *)

\* A call that has not begun or has returned is not touched by the others' steps.
LEMMA OthersKeepCall ==
  ASSUME BrokerInv, BrokerNext, NEW g \in Calls, \A e, a : ~Admit(g, e, a)
  PROVE  /\ call[g] = "idle" => call'[g] = "idle"
         /\ call[g] = "done" => call'[g] = "done" /\ verdict'[g] = verdict[g]
<1> USE DEF BrokerInv, ApproverInv, ApproverTypeOK
<1>1. CASE Human
  BY <1>1 DEF Human, approverVars
<1>2. ASSUME NEW f \in Calls, FetchStep(f), f # g
      PROVE  /\ call[g] = "idle" => call'[g] = "idle"
             /\ call[g] = "done" => call'[g] = "done" /\ verdict'[g] = verdict[g]
  BY <1>2 DEF FetchStep, LookupCredential, Admit, Confirmed, Prepare, Forward, Respond, Audit,
              Register, approverVars
<1>3. CASE FetchStep(g)
  BY <1>3 DEF FetchStep, LookupCredential, Confirmed, Prepare, Forward, Respond, Audit, approverVars
<1>4. CASE Approving
  BY <1>4 DEF Approving, Select, Receive, Expire, Abandon, Returns, Leave, TimerFires, Cancel,
              DecideStep, Find, Deliver
<1>5. ASSUME NEW f \in Calls, NEW s \in Stores, NEW r \in Requests, Begin(f, s, r)
      PROVE  UNCHANGED approverVars
  BY <1>5 DEF Begin
<1>6. QED
  BY <1>1, <1>2, <1>3, <1>4, <1>5 DEF BrokerNext, approverVars

\* A fetch that does not move keeps its place and its meaning.
LEMMA StillFetchKeeps ==
  ASSUME BrokerInv, NEW g \in Calls,
         stage'[g] = stage[g], job'[g] = job[g], held'[g] = held[g], decision'[g] = decision[g],
         sent'[g] = sent[g], upstream'[g] = upstream[g],
         call[g] = "idle" => call'[g] = "idle",
         call[g] = "done" => call'[g] = "done" /\ verdict'[g] = verdict[g]
  PROVE  Phase(g)' /\ (stage'[g] \in {"audit", "done"} => Settled(g)')
  BY DEF BrokerInv, FetchInv, Phase, Settled, Granted, Cleared, Ruled, Posted, WasSent, TierOfJob

LEMMA FetchTypesKept == BrokerInv /\ [BrokerNext]_brokerVars => FetchTypeOK' /\ (sent \in [Calls -> Sendings])'
<1> SUFFICES ASSUME BrokerInv, [BrokerNext]_brokerVars
             PROVE  FetchTypeOK' /\ sent' \in [Calls -> Sendings]
  OBVIOUS
<1> USE DEF BrokerInv, FetchInv, FetchTypeOK
<1>1. CASE UNCHANGED fetchVars
  BY <1>1 DEF fetchVars
<1>2. ASSUME NEW f \in Calls, NEW s \in Stores, NEW r \in Requests, Begin(f, s, r)
      PROVE  FetchTypeOK' /\ sent' \in [Calls -> Sendings]
  BY <1>2 DEF Begin, Goto, Stages
<1>3. ASSUME NEW f \in Calls, LookupCredential(f)
      PROVE  FetchTypeOK' /\ sent' \in [Calls -> Sendings]
  <2>1. doc[serves[f]].creds[job[f].name] \in Creds \cup {NoCred}
    BY <1>3, LookupTyped DEF LookupCredential
  <2>2. QED
    BY <1>3, <2>1 DEF LookupCredential, Goto, Deny, Stages, Verdicts
<1>4. ASSUME NEW f \in Calls, NEW e, NEW a, Admit(f, e, a)
      PROVE  FetchTypeOK' /\ sent' \in [Calls -> Sendings]
  BY <1>4 DEF Admit, Goto, Deny, Stages, Verdicts
<1>5. ASSUME NEW f \in Calls, Confirmed(f)
      PROVE  FetchTypeOK' /\ sent' \in [Calls -> Sendings]
  BY <1>5 DEF Confirmed, Goto, AfterRuling, Ruling, Stages, Verdicts
<1>6. ASSUME NEW f \in Calls, NEW w, NEW c, Prepare(f, w, c)
      PROVE  FetchTypeOK' /\ sent' \in [Calls -> Sendings]
  BY <1>6 DEF Prepare, Goto, Deny, Stages, Verdicts
<1>7. ASSUME NEW f \in Calls, Forward(f)
      PROVE  FetchTypeOK' /\ sent' \in [Calls -> Sendings]
  <2>1. Outgoing(f) \in Sendings
    BY <1>7, OutgoingTyped DEF Forward
  <2>2. QED
    BY <1>7, <2>1 DEF Forward, Goto, Deny, Stages, Verdicts
<1>8. ASSUME NEW f \in Calls, NEW ending \in Endings, Respond(f, ending)
      PROVE  FetchTypeOK' /\ sent' \in [Calls -> Sendings]
  BY <1>8 DEF Respond, Goto, Deny, Stages, Verdicts
<1>9. ASSUME NEW f \in Calls, NEW ok \in BOOLEAN, Audit(f, ok)
      PROVE  FetchTypeOK' /\ sent' \in [Calls -> Sendings]
  <2>1. NoHash \in Hashes
    BY DEF NoHash, Hashes
  <2>2. QED
    BY <1>9, <2>1 DEF Audit, Goto, Stages
<1>10. QED
  BY <1>1, <1>2, <1>3, <1>4, <1>5, <1>6, <1>7, <1>8, <1>9
  DEF BrokerNext, FetchStep, Human, Approving, brokerVars

LEMMA FetchesKept == BrokerInv /\ [BrokerNext]_brokerVars => FetchInv'
<1> SUFFICES ASSUME BrokerInv, [BrokerNext]_brokerVars, NEW g \in Calls
             PROVE  Phase(g)' /\ (stage'[g] \in {"audit", "done"} => Settled(g)')
  BY FetchTypesKept DEF FetchInv
<1> DEFINE Good == Phase(g)' /\ (stage'[g] \in {"audit", "done"} => Settled(g)')
<1> USE DEF FetchTypeOK
<1>0. FetchTypeOK /\ sent \in [Calls -> Sendings] /\ Phase(g) /\ (stage[g] \in {"audit", "done"} => Settled(g))
  BY DEF BrokerInv, FetchInv
<1>1. CASE UNCHANGED fetchVars
  <2>1. CASE UNCHANGED brokerVars
    BY <2>1, StillFetchKeeps DEF brokerVars, fetchVars, approverVars
  <2>2. CASE BrokerNext /\ \A e, a : ~Admit(g, e, a)
    BY <1>1, <2>2, OthersKeepCall, StillFetchKeeps DEF fetchVars
  <2>3. ASSUME NEW e, NEW a, Admit(g, e, a)
        PROVE  FALSE
    BY <1>0, <1>1, <2>3 DEF Admit, Goto, Deny, fetchVars
  <2>4. QED
    BY <2>1, <2>2, <2>3
<1>2. ASSUME NEW f \in Calls, f # g, FetchStep(f) \/ \E s \in Stores, r \in Requests : Begin(f, s, r)
      PROVE  Good
  <2>1. /\ stage'[g] = stage[g] /\ job'[g] = job[g] /\ held'[g] = held[g]
        /\ decision'[g] = decision[g] /\ sent'[g] = sent[g] /\ upstream'[g] = upstream[g]
    BY <1>0, <1>2 DEF FetchStep, LookupCredential, Admit, Confirmed, Prepare, Forward, Respond, Audit,
                      Begin, Goto, Deny
  <2>2. /\ call[g] = "idle" => call'[g] = "idle"
        /\ call[g] = "done" => call'[g] = "done" /\ verdict'[g] = verdict[g]
    BY <1>2 DEF FetchStep, LookupCredential, Admit, Confirmed, Prepare, Forward, Respond, Audit,
                Begin, Register, approverVars, BrokerInv, ApproverInv, ApproverTypeOK
  <2>3. QED
    BY <2>1, <2>2, StillFetchKeeps
<1> USE <1>0 DEF Phase, Settled, Granted, Cleared, Ruled, Posted, WasSent, TierOfJob, approverVars
<1>3. ASSUME NEW s \in Stores, NEW r \in Requests, Begin(g, s, r)
      PROVE  Good
  BY <1>3 DEF Begin, Goto
<1>4. CASE LookupCredential(g)
  <2>1. stage[g] = "lookup" /\ doc[serves[g]].creds[job[g].name] \in Creds \cup {NoCred}
    BY <1>4, LookupTyped DEF LookupCredential
  <2>2. QED
    BY <1>4, <2>1 DEF LookupCredential, Goto, Deny
<1>5. ASSUME NEW e, NEW a, Admit(g, e, a)
      PROVE  Good
  BY <1>5 DEF Admit, Goto, Deny, Register, Admitted, BrokerInv, ApproverInv, ApproverTypeOK
<1>6. CASE Confirmed(g)
  BY <1>6 DEF Confirmed, Goto, AfterRuling, Ruling, LetThrough
<1>7. ASSUME NEW w, NEW c, Prepare(g, w, c)
      PROVE  Good
  BY <1>7 DEF Prepare, Goto, Deny
<1>8. CASE Forward(g)
  <2>1. stage[g] = "send" /\ Outgoing(g) # NoSend
    BY <1>8, OutgoingTyped DEF Forward
  <2>2. Outgoing(g).secret = held[g].secret /\ Outgoing(g).host = job[g].host
    BY DEF Outgoing
  <2>3. QED
    BY <1>8, <2>1, <2>2 DEF Forward, Goto, Deny
<1>9. ASSUME NEW ending \in Endings, Respond(g, ending)
      PROVE  Good
  BY <1>9 DEF Respond, Goto, Deny, Withheld
<1>10. ASSUME NEW ok \in BOOLEAN, Audit(g, ok)
       PROVE  Good
  BY <1>10 DEF Audit, Goto
<1>11. QED
  BY <1>1, <1>2, <1>3, <1>4, <1>5, <1>6, <1>7, <1>8, <1>9, <1>10
  DEF BrokerNext, FetchStep, Human, Approving, brokerVars

-------------------------------------------------------------------------------
(* The rows. *)

\* What appending a row does to the rows of each fetch.
LEMMA RowsAfterChaining ==
  ASSUME NEW log \in Seq(Rows), NEW e
  PROVE  /\ \A g : g # e.fields[1] => RowsOf(Chained(log, e), g) = RowsOf(log, g)
         /\ NoRow(log, e.fields[1]) => RowsOf(Chained(log, e), e.fields[1]) = {Len(log) + 1}
         /\ DOMAIN Chained(log, e) = 1..(Len(log) + 1)
         /\ \A i \in 1..Len(log) : Chained(log, e)[i] = log[i]
         /\ Chained(log, e)[Len(log) + 1].fields = e.fields
<1> DEFINE row == [time |-> e.time, fields |-> e.fields, tier |-> e.tier,
                   prev |-> LastHash(log), hash |-> AuditHash(LastHash(log), e)]
<1>1. Chained(log, e) = Append(log, row)
  BY DEF Chained
<1>2. row.fields = e.fields
  OBVIOUS
<1> HIDE DEF row
<1>3. /\ DOMAIN Chained(log, e) = 1..(Len(log) + 1)
      /\ \A i \in 1..Len(log) : Chained(log, e)[i] = log[i]
      /\ Chained(log, e)[Len(log) + 1] = row
      /\ DOMAIN log = 1..Len(log)
  BY <1>1
<1>4. QED
  BY <1>2, <1>3 DEF RowsOf, NoRow

\* What RowsReturned says in the next state of a log that may be new.
ReturnedNext(log) ==
  \A i \in DOMAIN log : \E f \in Calls : log[i].fields = <<f, decision'[f]>> /\ stage'[f] = "done"

\* A returned fetch is not touched again.
LEMMA DoneStays ==
  ASSUME BrokerInv, [BrokerNext]_brokerVars, NEW f \in Calls, stage[f] = "done"
  PROVE  stage'[f] = "done" /\ decision'[f] = decision[f] /\ serves'[f] = serves[f]
<1> USE DEF BrokerInv, FetchInv, FetchTypeOK
<1>1. CASE UNCHANGED fetchVars
  BY <1>1 DEF fetchVars
<1>2. ASSUME NEW g \in Calls, FetchStep(g)
      PROVE  stage'[f] = "done" /\ decision'[f] = decision[f] /\ serves'[f] = serves[f]
  BY <1>2 DEF FetchStep, LookupCredential, Admit, Confirmed, Prepare, Forward, Respond, Audit,
              Goto, Deny
<1>3. ASSUME NEW g \in Calls, NEW s \in Stores, NEW r \in Requests, Begin(g, s, r)
      PROVE  stage'[f] = "done" /\ decision'[f] = decision[f] /\ serves'[f] = serves[f]
  BY <1>3 DEF Begin, Goto
<1>4. QED
  BY <1>1, <1>2, <1>3 DEF BrokerNext, Human, Approving, brokerVars

\* A log that did not change stays a log of returned fetches.
LEMMA ReturnedStay ==
  ASSUME BrokerInv, [BrokerNext]_brokerVars, NEW log, RowsReturned(log)
  PROVE  ReturnedNext(log)
  BY DoneStays DEF RowsReturned, ReturnedNext

\* The row of a fetch that returns is its first and only one.
LEMMA AppendedOnce ==
  ASSUME BrokerInv, [BrokerNext]_brokerVars, NEW log \in Seq(Rows), RowsReturned(log), RowsOnce(log),
         NEW f \in Calls, stage[f] = "audit", stage'[f] = "done", decision'[f] = decision[f],
         NEW e, e.fields = <<f, decision[f]>>
  PROVE  /\ ReturnedNext(Chained(log, e)) /\ RowsOnce(Chained(log, e))
         /\ OneRow(Chained(log, e), f)
         /\ \A g \in Calls : g # f => (OneRow(log, g) <=> OneRow(Chained(log, e), g))
         /\ ~OneRow(log, f)
<1> DEFINE new == Chained(log, e)
<1>1. /\ \A g : g # f => RowsOf(new, g) = RowsOf(log, g)
      /\ NoRow(log, f) => RowsOf(new, f) = {Len(log) + 1}
      /\ DOMAIN new = 1..(Len(log) + 1)
      /\ \A i \in 1..Len(log) : new[i] = log[i]
      /\ new[Len(log) + 1].fields = <<f, decision[f]>>
  <2>1. e.fields[1] = f
    OBVIOUS
  <2>2. /\ \A g : g # e.fields[1] => RowsOf(new, g) = RowsOf(log, g)
        /\ NoRow(log, e.fields[1]) => RowsOf(new, e.fields[1]) = {Len(log) + 1}
        /\ DOMAIN new = 1..(Len(log) + 1)
        /\ \A i \in 1..Len(log) : new[i] = log[i]
        /\ new[Len(log) + 1].fields = e.fields
    BY RowsAfterChaining
  <2> HIDE DEF new
  <2>3. QED
    BY <2>1, <2>2
<1> HIDE DEF new
<1>2. Len(log) \in Nat /\ DOMAIN log = 1..Len(log)
  OBVIOUS
<1>3. NoRow(log, f)
  BY DEF RowsReturned, NoRow, RowsOf
<1>4. \A g \in Calls : g # f => (OneRow(log, g) <=> OneRow(new, g))
  <2> SUFFICES ASSUME NEW g \in Calls, g # f
               PROVE  OneRow(log, g) <=> OneRow(new, g)
    OBVIOUS
  <2>1. RowsOf(new, g) = RowsOf(log, g)
    BY <1>1
  <2>2. ASSUME NEW i \in DOMAIN new, RowsOf(new, g) = {i}
        PROVE  i \in DOMAIN log
    BY <2>1, <2>2 DEF RowsOf
  <2>3. QED
    BY <1>1, <1>2, <2>1, <2>2 DEF OneRow
<1>5. OneRow(new, f)
  BY <1>1, <1>2, <1>3 DEF OneRow
<1>6. RowsOnce(new)
  BY <1>1, <1>4, <1>5 DEF RowsOnce, NoRow
<1>7. ReturnedNext(new)
  <2> SUFFICES ASSUME NEW i \in 1..(Len(log) + 1)
               PROVE  \E g \in Calls : new[i].fields = <<g, decision'[g]>> /\ stage'[g] = "done"
    BY <1>1 DEF ReturnedNext
  <2>1. CASE i = Len(log) + 1
    BY <1>1, <2>1
  <2>2. CASE i \in 1..Len(log)
    BY <1>1, <1>2, <2>2, ReturnedStay DEF ReturnedNext
  <2>3. QED
    BY <1>2, <2>1, <2>2
<1>8. ~OneRow(log, f)
  BY <1>3 DEF OneRow, NoRow
<1>9. QED
  BY <1>4, <1>5, <1>6, <1>7, <1>8 DEF new

\* A step that returns no fetch and gives the documents and the file logs they had.
LEMMA NoRowAdded ==
  ASSUME BrokerInv, [BrokerNext]_brokerVars, StoreInv',
         \A f \in Calls : (stage'[f] = "done") = (stage[f] = "done"),
         logged' = logged,
         \A s \in Stores : doc'[s].audit = doc[s].audit \/
           (~InUse(s) /\ (doc'[s].audit = << >> \/ (file # NoFile /\ doc'[s].audit = file.audit))),
         \A s \in Stores : key'[s] = "live" =>
           \/ key[s] = "live" /\ doc'[s].audit = doc[s].audit
           \/ file # NoFile /\ doc'[s].audit = file.audit
           \/ file = NoFile,
         \/ file' = file
         \/ file = NoFile /\ file'.audit = << >>
         \/ \E s \in Stores : key[s] = "live" /\ file'.audit = doc[s].audit,
         file # NoFile => file' # NoFile
  PROVE  RowsInv'
<1> USE DEF BrokerInv, RowsInv
<1>1. ReturnedNext(<< >>) /\ RowsOnce(<< >>)
  BY DEF ReturnedNext, RowsOnce, NoRow, RowsOf
<1>2. /\ \A s \in Stores : ReturnedNext(doc[s].audit)
      /\ file # NoFile => ReturnedNext(file.audit)
  BY ReturnedStay
<1>3. \A s \in Stores : ReturnedNext(doc'[s].audit) /\ RowsOnce(doc'[s].audit)
  BY <1>1, <1>2
<1>4. file' # NoFile => ReturnedNext(file'.audit) /\ RowsOnce(file'.audit)
  BY <1>1, <1>2
<1>5. \A f \in Calls : stage'[f] = "done" => OneRow(doc'[serves'[f]].audit, f)
  <2> SUFFICES ASSUME NEW f \in Calls, stage'[f] = "done"
               PROVE  OneRow(doc'[serves'[f]].audit, f)
    OBVIOUS
  <2>1. stage[f] = "done" /\ serves'[f] = serves[f] /\ serves[f] \in Stores
    BY DoneStays DEF FetchInv, FetchTypeOK
  <2>2. InUse(serves[f])
    BY <2>1 DEF InUse
  <2>3. QED
    BY <2>1, <2>2
<1>6. \A f \in logged : file # NoFile /\ OneRow(file.audit, f)
                        /\ \A s \in Stores : key[s] = "live" => OneRow(doc[s].audit, f)
  OBVIOUS
<1>7. \A f \in logged' : /\ file' # NoFile /\ OneRow(file'.audit, f)
                         /\ \A s \in Stores : key'[s] = "live" => OneRow(doc'[s].audit, f)
  BY <1>6
<1>8. QED
  BY <1>3, <1>4, <1>5, <1>7 DEF ReturnedNext, RowsReturned, RowsOnce, OneRow, NoRow, RowsOf

\* A fetch that returns leaves its row.
LEMMA AuditKeepsRows ==
  ASSUME BrokerInv, [BrokerNext]_brokerVars, NEW f \in Calls, NEW ok \in BOOLEAN, Audit(f, ok)
  PROVE  RowsInv'
<1> DEFINE s == serves[f]
           log == doc[s].audit
           e == [time |-> 1, fields |-> <<f, decision[f]>>,
                 tier |-> IF decision[f] = "denied" THEN "" ELSE TierOf(held[f], job[f].method)]
           d == [doc[s] EXCEPT !.audit = Chained(log, e)]
<1> USE DEF BrokerInv, RowsInv
<1>1. /\ stage[f] = "audit" /\ doc' = [doc EXCEPT ![s] = d] /\ Save(s, d, ok)
      /\ stage' = [stage EXCEPT ![f] = "done"] /\ UNCHANGED <<serves, decision, key>>
      /\ logged' = IF ok THEN logged \cup {f} ELSE logged
  BY DEF Audit, AppendAudit, Goto
<1>2. e.fields = <<f, decision[f]>>
  OBVIOUS
<1> HIDE DEF e
<1>3. s \in Stores /\ doc \in [Stores -> Docs] /\ stage \in [Calls -> Stages] /\ OneLive
      /\ serves \in [Calls -> Stores] /\ file \in Docs \cup {NoFile} /\ logged \subseteq Calls
  BY DEF StoreInv, SoundInv, StoreTypeOK, FetchInv, FetchTypeOK
<1>4. log \in Seq(Rows) /\ d.audit = Chained(log, e)
  BY <1>3 DEF Docs
<1> DEFINE new == Chained(log, e)
<1>5. /\ ReturnedNext(new) /\ RowsOnce(new) /\ OneRow(new, f) /\ ~OneRow(log, f)
      /\ \A g \in Calls : g # f => (OneRow(log, g) <=> OneRow(new, g))
  BY <1>1, <1>2, <1>3, <1>4, AppendedOnce
<1>6. doc'[s].audit = new /\ \A t \in Stores \ {s} : doc'[t] = doc[t]
  BY <1>1, <1>3, <1>4
<1>7. /\ ok => key[s] = "live" /\ file' = d /\ d.audit = new /\ d # NoFile
      /\ ~ok => file' = file
  <2>1. d \in Docs
    BY <1>1, <1>3, <1>4, RowIsInput, ChainedType DEF Docs, e
  <2>2. QED
    BY <1>1, <1>4, <2>1, NoFileAssumption DEF Save
<1> HIDE DEF new, d, log
<1>8. f \notin logged
  BY <1>1, <1>3 DEF OneRow, RowsOf, RowsReturned
<1>9. \A t \in Stores : ReturnedNext(doc'[t].audit) /\ RowsOnce(doc'[t].audit)
  BY <1>5, <1>6, ReturnedStay
<1>10. file' # NoFile => ReturnedNext(file'.audit) /\ RowsOnce(file'.audit)
  BY <1>5, <1>7, ReturnedStay
<1>11. \A g \in Calls : stage'[g] = "done" => OneRow(doc'[serves'[g]].audit, g)
  BY <1>1, <1>3, <1>5, <1>6 DEF log
<1>12. \A g \in logged' : /\ file' # NoFile /\ OneRow(file'.audit, g)
                          /\ \A t \in Stores : key'[t] = "live" => OneRow(doc'[t].audit, g)
  <2>1. ASSUME NEW g \in logged
        PROVE  /\ file' # NoFile /\ OneRow(file'.audit, g)
               /\ \A t \in Stores : key'[t] = "live" => OneRow(doc'[t].audit, g)
    BY <1>1, <1>3, <1>5, <1>6, <1>7, <1>8 DEF log
  <2>2. ok => /\ file' # NoFile /\ OneRow(file'.audit, f)
              /\ \A t \in Stores : key'[t] = "live" => OneRow(doc'[t].audit, f)
    BY <1>1, <1>3, <1>5, <1>6, <1>7 DEF OneLive
  <2>3. QED
    BY <1>1, <2>1, <2>2
<1>13. QED
  BY <1>9, <1>10, <1>11, <1>12 DEF ReturnedNext, RowsReturned, RowsOnce, OneRow, NoRow, RowsOf

LEMMA RowsKept == BrokerInv /\ [BrokerNext]_brokerVars => RowsInv'
<1> SUFFICES ASSUME BrokerInv, [BrokerNext]_brokerVars
             PROVE  RowsInv'
  OBVIOUS
<1>1. StoreInv'
  BY StoreMoves, StoreStepPreserves DEF BrokerInv
<1>2. StoreInv /\ StoreTypeOK /\ FileFirst /\ (logged # {} => file # NoFile)
  BY DEF BrokerInv, StoreInv, SoundInv, RowsInv
<1>3. stage \in [Calls -> Stages]
  BY DEF BrokerInv, FetchInv, FetchTypeOK
<1>4. CASE Human
  <2>0. UNCHANGED <<stage, logged>>
    BY <1>4 DEF Human, fetchVars
  <2>1. ASSUME NEW s \in Stores, Exclusive, ~InUse(s), Create(s) \/ Open(s)
        PROVE  RowsInv'
    BY <1>1, <1>2, <2>0, <2>1, NoRowAdded DEF Create, Open, Exclusive, EmptyDoc, StoreTypeOK
  <2>2. ASSUME NEW s \in Stores, NEW n \in Names, NEW ok \in SaveOutcomes, key[s] = "live",
               Delete(s, n, ok) \/ \E v \in Creds : Put(s, n, v, ok)
        PROVE  RowsInv'
    <3>1. PICK v \in Creds \cup {NoCred} :
            /\ doc' = [doc EXCEPT ![s] = [doc[s] EXCEPT !.creds[n] = v]]
            /\ file' = IF ok THEN [doc[s] EXCEPT !.creds[n] = v] ELSE file
            /\ key' = key
      BY <2>2 DEF Delete, Put, Save
    <3>2. \A t \in Stores : doc'[t].audit = doc[t].audit
      BY <1>2, <3>1 DEF StoreTypeOK, Docs
    <3>3. file' = file \/ file'.audit = doc[s].audit
      BY <1>2, <3>1 DEF StoreTypeOK, Docs
    <3>4. file # NoFile /\ file' # NoFile
      BY <1>1, <1>2, <2>2, <3>1 DEF FileFirst, StoreInv, SoundInv
    <3>5. QED
      BY <1>1, <2>0, <2>2, <3>1, <3>2, <3>3, <3>4, NoRowAdded
  <2>3. ASSUME NEW s \in Stores, NEW n \in Names, NEW on \in BOOLEAN, Enable(s, n, on)
        PROVE  RowsInv'
    BY <1>1, <2>0, <2>3, NoRowAdded DEF Enable
  <2>4. ASSUME NEW s \in Stores, NEW ok \in SaveOutcomes, Close(s, ok)
        PROVE  RowsInv'
    <3>1. /\ key[s] = "live" /\ UNCHANGED doc /\ file' = IF ok THEN doc[s] ELSE file
          /\ \A t \in Stores : key'[t] = "live" => key[t] = "live"
      BY <1>2, <2>4 DEF Close, Save, Wiped, StoreTypeOK
    <3>2. file # NoFile => file' # NoFile
      BY <1>2, <3>1, NoFileAssumption DEF StoreTypeOK
    <3>3. QED
      BY <1>1, <2>0, <3>1, <3>2, NoRowAdded
  <2>5. QED
    BY <1>4, <2>1, <2>2, <2>3, <2>4 DEF Human
<1>5. ASSUME NEW f \in Calls, NEW ok \in BOOLEAN, Audit(f, ok)
      PROVE  RowsInv'
  BY <1>5, AuditKeepsRows
<1>6. ASSUME UNCHANGED storeVars, UNCHANGED logged,
             \A f \in Calls : (stage'[f] = "done") = (stage[f] = "done")
      PROVE  RowsInv'
  BY <1>1, <1>6, NoRowAdded DEF storeVars
<1>7. ASSUME NEW f \in Calls, FetchStep(f), \A ok \in BOOLEAN : ~Audit(f, ok)
      PROVE  RowsInv'
  <2>1. /\ UNCHANGED storeVars /\ UNCHANGED logged
        /\ \A g \in Calls : (stage'[g] = "done") = (stage[g] = "done")
    BY <1>3, <1>7 DEF FetchStep, LookupCredential, Admit, Confirmed, Prepare, Forward, Respond,
                      AfterRuling, Goto, Deny
  <2>2. QED
    BY <1>6, <2>1
<1>8. ASSUME NEW f \in Calls, NEW s \in Stores, NEW r \in Requests, Begin(f, s, r)
      PROVE  RowsInv'
  BY <1>3, <1>6, <1>8 DEF Begin, Goto
<1>9. CASE Approving \/ UNCHANGED brokerVars
  BY <1>6, <1>9 DEF Approving, fetchVars, brokerVars
<1>10. QED
  BY <1>4, <1>5, <1>7, <1>8, <1>9 DEF BrokerNext

LEMMA BrokerStepPreserves == BrokerInv /\ [BrokerNext]_brokerVars => BrokerInv'
<1> SUFFICES ASSUME BrokerInv, [BrokerNext]_brokerVars
             PROVE  BrokerInv'
  OBVIOUS
<1>1. StoreInv'
  BY StoreMoves, StoreStepPreserves DEF BrokerInv
<1>2. ApproverInv'
  BY ApproverMoves, ApproverStepPreserves DEF BrokerInv
<1>3. QED
  BY <1>1, <1>2, FetchesKept, RowsKept DEF BrokerInv

\* The inductive invariant holds in every state of every behaviour.
THEOREM BrokerInvariant == BrokerSafety => []BrokerInv
  BY BrokerInitEstablishes, BrokerStepPreserves, PTL DEF BrokerSafety

\* Whatever the fetches and the human do, the vault underneath behaves like a store in
\* use by itself, so that all that is proved of StoreSpec holds beside the pipeline
\* (fetch.go:106-121, store.go:156-316).
THEOREM BrokerUsesStore == BrokerSafety => StoreSpec
<1>1. BrokerInit => StoreInit
  BY DEF BrokerInit
<1>2. QED
  BY <1>1, StoreMoves, BrokerInvariant, PTL DEF BrokerSafety, StoreSpec

\* And the approver underneath keeps what Approval promises: a fetch gets its answer from
\* no other place (fetch.go:172-185, approver.go:37-65).
THEOREM BrokerKeepsApproval == BrokerSafety => Abstract!ApprovalSafety
<1>1. BrokerInit => ApproverInit
  BY DEF BrokerInit
<1>2. BrokerSafety => ApproverSafety
  BY <1>1, ApproverMoves, BrokerInvariant, PTL DEF BrokerSafety, ApproverSafety
<1>3. QED
  BY <1>2, ApproverImplementsApproval

-------------------------------------------------------------------------------
(* The results. *)

\* Type correctness of the composition: the store, the approval and the fetches.
THEOREM BrokerTypeCorrect == BrokerSafety => []BrokerTypeOK
<1>1. BrokerInv => BrokerTypeOK
  BY DEF BrokerInv, StoreInv, SoundInv, ApproverInv, FetchInv, BrokerTypeOK
<1>2. QED
  BY <1>1, BrokerInvariant, PTL

\* For any policies and any changes the human makes meanwhile, the secret sent is
\* one whose own credential allows that host and tier (fetch.go:121, 161, 206).
THEOREM SecretBoundByPolicy == BrokerSafety => []PolicyBindsSecret
<1>1. BrokerInv => PolicyBindsSecret
  <2> SUFFICES ASSUME BrokerInv, NEW f \in Calls, WasSent(f)
               PROVE  \E c \in Creds : /\ c.secret = sent[f].secret
                                       /\ sent[f].host \in c.hosts
                                       /\ TierOf(c, job[f].method) # "deny"
    BY DEF PolicyBindsSecret
  <2>1. Granted(f) /\ Posted(f)
    BY DEF BrokerInv, FetchInv, Phase
  <2>2. held[f] \in Creds
    BY <2>1 DEF Granted
  <2> WITNESS held[f] \in Creds
  <2>3. QED
    BY <2>1 DEF Granted, Posted, TierOfJob
<1>2. QED
  BY <1>1, BrokerInvariant, PTL

\* What went out and under which tier, with the human's first answer.
LEMMA ClearedMeansApproved ==
  ASSUME BrokerInv, NEW f \in Calls, WasSent(f)
  PROVE  TierOfJob(f) = "confirm" <=> first[f] = "approve"
<1>1. Cleared(f)
  BY DEF BrokerInv, FetchInv, Phase
<1>2. CASE TierOfJob(f) = "confirm"
  BY <1>1, <1>2 DEF Cleared, BrokerInv, ApproverInv, VerdictFaithful
<1>3. CASE TierOfJob(f) # "confirm"
  BY <1>1, <1>3 DEF Cleared, BrokerInv, ApproverInv, ApproverTypeOK, SlotHoldsFirst
<1>4. QED
  BY <1>2, <1>3

\* However many decisions race for it, and whoever leaves or times out, a request
\* of a confirm tier was sent only on a human's approval (fetch.go:172-185,
\* approver.go:37-65).
THEOREM WritesWaitForHuman == BrokerSafety => []WritesNeedHuman
<1>1. BrokerInv => WritesNeedHuman
  <2> SUFFICES ASSUME BrokerInv, NEW f \in Calls, WasSent(f), TierOfJob(f) = "confirm"
               PROVE  first[f] = "approve" /\ decision[f] # "blocked"
    BY DEF WritesNeedHuman, TierOfJob
  <2>1. first[f] = "approve"
    BY ClearedMeansApproved
  <2>2. decision[f] # "blocked"
    BY DEF BrokerInv, FetchInv, FetchTypeOK, Stages, Phase, Ruled, Settled
  <2>3. QED
    BY <2>1, <2>2
<1>2. QED
  BY <1>1, BrokerInvariant, PTL

\* Every row of every log tells what became of its fetch (fetch.go:106-118,
\* 177-185, 243), whatever the saves, the human and the other fetches do.
THEOREM RowsTellTheTruth == BrokerSafety => []RowTruthful
<1>1. BrokerInv => RowTruthful
  <2> SUFFICES ASSUME BrokerInv, NEW s \in Stores, NEW i \in DOMAIN doc[s].audit,
                      NEW f, f = doc[s].audit[i].fields[1],
                      NEW d, d = doc[s].audit[i].fields[2]
               PROVE  /\ d \in {"allowed", "confirmed"} => WasSent(f) /\ upstream[f] = "clean"
                      /\ d = "confirmed" <=> WasSent(f) /\ upstream[f] = "clean" /\ first[f] = "approve"
                      /\ d = "blocked" => ~WasSent(f) /\ (first[f] = "deny" \/ f \in fired \cup gone)
                      /\ d = "denied" => upstream[f] # "clean"
    BY DEF RowTruthful
  <2>1. PICK g \in Calls : doc[s].audit[i].fields = <<g, decision[g]>> /\ stage[g] = "done"
    BY DEF BrokerInv, RowsInv, RowsReturned
  <2>2. f \in Calls /\ d = decision[f] /\ stage[f] = "done"
    BY <2>1
  <2>3. Settled(f) /\ d \in Verdicts
    BY <2>2 DEF BrokerInv, FetchInv, FetchTypeOK
  <2>4. WasSent(f) => (TierOfJob(f) = "confirm" <=> first[f] = "approve")
    BY <2>2, ClearedMeansApproved
  <2>5. verdict[f] # "approved" /\ call[f] = "done" => first[f] = "deny" \/ f \in fired \cup gone
    BY <2>2 DEF BrokerInv, ApproverInv, ApproverTypeOK, RefusalHasCause, VerdictFaithful
  <2>6. QED
    BY <2>2, <2>3, <2>4, <2>5 DEF Settled, Verdicts, Ruled
<1>2. QED
  BY <1>1, BrokerInvariant, PTL

\* A fetch that returned has one row in its store, and one in the file once its
\* save succeeded, for logs of any length (fetch.go:106-118, 243).
THEOREM AccountedExactlyOnce == BrokerSafety => []AccountedOnce
<1>1. \A log, f : /\ OneRow(log, f) => Cardinality(RowsOf(log, f)) = 1
                  /\ NoRow(log, f) => Cardinality(RowsOf(log, f)) = 0
  BY FS_Singleton, FS_EmptySet DEF OneRow, NoRow
<1>2. BrokerInv => AccountedOnce
  BY <1>1 DEF BrokerInv, RowsInv, RowsOnce, AccountedOnce
<1>3. QED
  BY <1>2, BrokerInvariant, PTL
===============================================================================
