-------------------------------- MODULE Broker --------------------------------
(***************************************************************************)
(* src/internal/vault/fetch.go: the pipeline that makes a request with a   *)
(* stored credential, over the store (VaultStore) and the human approval   *)
(* (PendingApprover).  Fetches run in goroutines of their own; the human   *)
(* changes, enables, deletes and locks at any moment between their steps.  *)
(*                                                                         *)
(* A fetch takes the shared state only where the code does: it reads the   *)
(* credential once, under the store's mutex, waits in Confirm, asks the    *)
(* limiter, and appends its audit row.  What lies between is local and is  *)
(* one step.  A fetch and its approval have the same identifier.           *)
(*                                                                         *)
(* A closed store still serves the fetches that hold it: those in flight,  *)
(* and, in the suite component, those that come through the mounted routes *)
(* (component.go:115-119) after Lock.                                      *)
(***************************************************************************)
EXTENDS VaultStore, PendingApprover

CONSTANTS
  Requests,     \* [name, method, host, form] an agent may ask for
  SaveOutcomes  \* bound: outcomes of the saves of the human's operations

(* A credential is a record [secret, hosts, read, write, insecure, private,   *)
(* perishable, limited]: the policy fields of model.go:29-43, with the        *)
(* allowlist as the set of hosts it matches, "perishable" for an expiry date  *)
(* and "limited" for a positive rate_per_min.  A request's form is "https",   *)
(* "http", "oddport" (https on a port other than 443 and 80) or "malformed".  *)

Verdicts == {"none", "allowed", "confirmed", "blocked", "denied"}

ASSUME BrokerAssumption ==
  /\ SaveOutcomes \subseteq BOOLEAN
  /\ Stores # {}
  /\ MaxTime >= 1
  /\ Calls \X Verdicts \subseteq Entries
  /\ {"", "auto", "confirm", "deny"} \subseteq Tiers
  /\ \A r \in Requests : r.name \in Names
  /\ \A c \in Creds : c.secret # "" /\ {c.read, c.write} \subseteq {"auto", "confirm", "deny"}

NoRequest == [name |-> "", method |-> "", host |-> "", form |-> ""]
NoSend == [secret |-> "", host |-> "", vault |-> "live"]

VARIABLES
  stage,    \* stage[f]: where the fetch is
  job,      \* job[f]: its request
  serves,   \* serves[f]: the store of the engine it runs in
  held,     \* held[f]: the credential lookup returned
  decision, \* decision[f]: what its audit row will say
  sent,     \* history: what was sent upstream, and what the vault's key was then
  upstream, \* history: how the exchange ended
  logged,   \* history: the fetches whose AppendAudit returned nil
  reply     \* reply[f]: the audit_id returned

fetchVars == <<stage, job, serves, held, decision, sent, upstream, logged, reply>>
brokerVars == <<storeVars, approverVars, fetchVars>>

Stages == {"idle", "lookup", "admit", "confirm", "rate", "send", "respond", "audit", "done"}
Endings == {"none", "failed", "opaque", "reflected", "clean"}

FetchTypeOK ==
  /\ stage \in [Calls -> Stages]
  /\ job \in [Calls -> Requests \cup {NoRequest}]
  /\ serves \in [Calls -> Stores]
  /\ held \in [Calls -> Creds \cup {NoCred}]
  /\ decision \in [Calls -> Verdicts]
  /\ upstream \in [Calls -> Endings]
  /\ logged \subseteq Calls
  /\ reply \in [Calls -> Hashes]

BrokerTypeOK == StoreTypeOK /\ ApproverTypeOK /\ FetchTypeOK

FetchInit ==
  /\ stage = [f \in Calls |-> "idle"]
  /\ job = [f \in Calls |-> NoRequest]
  /\ serves = [f \in Calls |-> CHOOSE s \in Stores : TRUE]
  /\ held = [f \in Calls |-> NoCred]
  /\ decision = [f \in Calls |-> "none"]
  /\ sent = [f \in Calls |-> NoSend]
  /\ upstream = [f \in Calls |-> "none"]
  /\ logged = {}
  /\ reply = [f \in Calls |-> NoHash]

BrokerInit == StoreInit /\ ApproverInit /\ FetchInit

-------------------------------------------------------------------------------
(* The policy, as the pipeline applies it to the credential it holds. *)

\* classifyTier: GET and HEAD read, every other method writes.
TierOf(c, method) == IF method = "read" THEN c.read ELSE c.write

\* Step 2: scheme, userinfo, port and host of the URL.
UrlAccepted(c, r) ==
  /\ r.form # "malformed"
  /\ r.form = "http" => c.insecure
  /\ r.form = "oddport" => ~c.private

\* Steps 1 to 5 after the lookup: the request may go to this address.
Admitted(c, r, expired, address) ==
  /\ ~expired
  /\ UrlAccepted(c, r)
  /\ r.host \in c.hosts
  /\ address = "public" \/ (address = "private" /\ c.private)
  /\ TierOf(c, r.method) # "deny"

-------------------------------------------------------------------------------
(* One fetch. *)

Goto(f, where) == stage' = [stage EXCEPT ![f] = where]

\* fail: the reason is returned to the agent, the row says "denied".
Deny(f) == Goto(f, "audit") /\ decision' = [decision EXCEPT ![f] = "denied"]

Begin(f, s, r) ==
  /\ stage[f] = "idle"
  /\ key[s] # "absent"
  /\ Goto(f, "lookup")
  /\ job' = [job EXCEPT ![f] = r]
  /\ serves' = [serves EXCEPT ![f] = s]
  /\ UNCHANGED <<storeVars, approverVars, held, decision, sent, upstream, logged, reply>>

\* Step 1: the credential pointer and its session flag, read together.
LookupCredential(f) ==
  LET s == serves[f]
      n == job[f].name IN
  /\ stage[f] = "lookup"
  /\ \/ /\ doc[s].creds[n] # NoCred /\ n \in enabled[s]
        /\ held' = [held EXCEPT ![f] = doc[s].creds[n]]
        /\ Goto(f, "admit")
        /\ UNCHANGED decision
     \/ /\ doc[s].creds[n] = NoCred \/ n \notin enabled[s]
        /\ Deny(f)
        /\ UNCHANGED held
  /\ UNCHANGED <<storeVars, approverVars, job, serves, sent, upstream, logged, reply>>

\* Steps 1 to 5.  The clock says whether a perishable credential has expired, the
\* resolver which address the host has ("never" is denied to everyone).
Admit(f, expired, address) ==
  LET c == held[f]
      r == job[f] IN
  /\ stage[f] = "admit"
  /\ expired => c.perishable
  /\ \/ /\ Admitted(c, r, expired, address)
        /\ TierOf(c, r.method) = "confirm"
        /\ Goto(f, "confirm")
        /\ Register(f)
        /\ UNCHANGED decision
     \/ /\ Admitted(c, r, expired, address)
        /\ TierOf(c, r.method) # "confirm"
        /\ Goto(f, "rate")
        /\ decision' = [decision EXCEPT ![f] = "allowed"]
        /\ UNCHANGED approverVars
     \/ /\ ~Admitted(c, r, expired, address)
        /\ Deny(f)
        /\ UNCHANGED approverVars
  /\ UNCHANGED <<storeVars, job, serves, held, sent, upstream, logged, reply>>

\* Faulty variant of LetThrough: the error of a cancelled request is ignored.
LetThroughUnchecked(f) == verdict[f] \in {"approved", "cancelled"}

LetThrough(f) == verdict[f] = "approved"

Ruling(f) == IF LetThrough(f) THEN "confirmed" ELSE "blocked"

\* Faulty variant of AfterRuling: a blocked fetch returns without its row.
AfterRulingUnlogged(f) == IF LetThrough(f) THEN "rate" ELSE "done"

AfterRuling(f) == IF LetThrough(f) THEN "rate" ELSE "audit"

\* Confirm has returned.
Confirmed(f) ==
  /\ stage[f] = "confirm"
  /\ call[f] = "done"
  /\ Goto(f, AfterRuling(f))
  /\ decision' = [decision EXCEPT ![f] = Ruling(f)]
  /\ UNCHANGED <<storeVars, approverVars, job, serves, held, sent, upstream, logged, reply>>

\* Steps 6 and 7: the limiter of a limited credential, a header or body that cannot
\* be built, or the agent's own copy of the secret in the request, deny it.
Prepare(f, within, clean) ==
  /\ stage[f] = "rate"
  /\ ~within => held[f].limited
  /\ \/ within /\ clean /\ Goto(f, "send") /\ UNCHANGED decision
     \/ ~(within /\ clean) /\ Deny(f)
  /\ UNCHANGED <<storeVars, approverVars, job, serves, held, sent, upstream, logged, reply>>

\* Faulty variant of Outgoing: the credential is looked up again to inject it.
OutgoingReread(f) ==
  LET c == doc[serves[f]].creds[job[f].name] IN
  [secret |-> IF c = NoCred THEN held[f].secret ELSE c.secret,
   host |-> job[f].host, vault |-> key[serves[f]]]

\* What client.Do puts on the wire: the secret of the credential the fetch holds,
\* to the host the pipeline admitted.
Outgoing(f) ==
  [secret |-> held[f].secret, host |-> job[f].host, vault |-> key[serves[f]]]

\* Step 8.  The connection may fail before anything is sent.
Forward(f) ==
  /\ stage[f] = "send"
  /\ \/ /\ sent' = [sent EXCEPT ![f] = Outgoing(f)]
        /\ Goto(f, "respond")
        /\ UNCHANGED decision
     \/ /\ Deny(f)
        /\ UNCHANGED sent
  /\ UNCHANGED <<storeVars, approverVars, job, serves, held, upstream, logged, reply>>

\* Faulty variant of Withheld: an answer that was withheld is logged as a success.
WithheldOnError(ending) == ending = "failed"

Withheld(ending) == ending # "clean"

\* Steps 8 and 9: no answer, one in an encoding that cannot be scanned, or one that
\* holds the secret, is withheld from the agent and logged as denied.
Respond(f, ending) ==
  /\ stage[f] = "respond"
  /\ upstream' = [upstream EXCEPT ![f] = ending]
  /\ IF Withheld(ending) THEN Deny(f) ELSE Goto(f, "audit") /\ UNCHANGED decision
  /\ UNCHANGED <<storeVars, approverVars, job, serves, held, sent, logged, reply>>

\* Step 10, and the return.  AppendAudit works on a copy of the entry, so the hash
\* the caller reads back from its own is still empty; its error is dropped.
Audit(f, ok) ==
  LET tier == IF decision[f] = "denied" THEN "" ELSE TierOf(held[f], job[f].method) IN
  /\ stage[f] = "audit"
  /\ AppendAudit(serves[f], [time |-> 1, fields |-> <<f, decision[f]>>, tier |-> tier], ok)
  /\ logged' = IF ok THEN logged \cup {f} ELSE logged
  /\ reply' = [reply EXCEPT ![f] = NoHash]
  /\ Goto(f, "done")
  /\ UNCHANGED <<approverVars, job, serves, held, decision, sent, upstream>>

-------------------------------------------------------------------------------
(* The rest of the system. *)

\* A store object that a fetch holds is not re-used for another session.
InUse(s) == \E f \in Calls : stage[f] # "idle" /\ serves[f] = s

\* The control plane, and the owner of the store, who opens and locks it.
Human ==
  /\ \/ \E s \in Stores : Exclusive /\ ~InUse(s) /\ (Create(s) \/ Open(s))
     \/ \E s \in Stores, n \in Names, ok \in SaveOutcomes :
          key[s] = "live" /\ (Delete(s, n, ok) \/ \E v \in Creds : Put(s, n, v, ok))
     \/ \E s \in Stores, n \in Names, on \in BOOLEAN : key[s] = "live" /\ Enable(s, n, on)
     \/ \E s \in Stores, ok \in SaveOutcomes : Close(s, ok)
  /\ UNCHANGED <<approverVars, fetchVars>>

FetchStep(f) ==
  \/ LookupCredential(f)
  \/ \E expired \in BOOLEAN, address \in {"public", "private", "never"} :
       Admit(f, expired, address)
  \/ Confirmed(f)
  \/ \E within, clean \in BOOLEAN : Prepare(f, within, clean)
  \/ Forward(f)
  \/ \E ending \in Endings \ {"none"} : Respond(f, ending)
  \/ \E ok \in BOOLEAN : Audit(f, ok)

\* Confirm and its timer, the callers that give up, and the human's decisions.
Approving ==
  /\ \/ \E f \in Calls : Select(f) \/ Leave(f) \/ TimerFires(f)
     \/ \E f \in Calls : stage[f] = "confirm" /\ Cancel(f)
     \/ \E d \in Deciders : DecideStep(d)
  /\ UNCHANGED <<storeVars, fetchVars>>

BrokerNext ==
  \/ Human
  \/ \E f \in Calls, s \in Stores, r \in Requests : Begin(f, s, r)
  \/ \E f \in Calls : FetchStep(f)
  \/ Approving

BrokerSafety == BrokerInit /\ [][BrokerNext]_brokerVars

\* The goroutine of a fetch runs; the resolver, the client (10 s) and the approval
\* (its timer) give up in the end.  Nothing obliges the human.
BrokerFairness ==
  \A f \in Calls :
    /\ WF_brokerVars(FetchStep(f))
    /\ WF_brokerVars(TimerFires(f) /\ UNCHANGED <<storeVars, fetchVars>>)
    /\ WF_brokerVars(Select(f) /\ UNCHANGED <<storeVars, fetchVars>>)
    /\ WF_brokerVars(Leave(f) /\ UNCHANGED <<storeVars, fetchVars>>)

BrokerSpec == BrokerSafety /\ BrokerFairness
-------------------------------------------------------------------------------
(* Properties. *)

WasSent(f) == sent[f] # NoSend
RowsOf(log, f) == {i \in DOMAIN log : log[i].fields[1] = f}

\* A secret only goes where the credential it belongs to allows: the fetch applies
\* the policy and injects the secret of one credential, even when the human
\* replaces or deletes that name while the fetch waits (fetch.go:121, 161, 206).
PolicyBindsSecret ==
  \A f \in Calls : WasSent(f) =>
    \E c \in Creds : /\ c.secret = sent[f].secret
                     /\ sent[f].host \in c.hosts
                     /\ TierOf(c, job[f].method) # "deny"

\* Nothing of a confirm tier is sent unless the first thing a human answered to
\* this very request was to approve it; a timeout, a caller that leaves or a late
\* second answer never lets it through (fetch.go:172-185, approver.go:37-65).
WritesNeedHuman ==
  \A f \in Calls : WasSent(f) /\ TierOf(held[f], job[f].method) = "confirm"
    => first[f] = "approve" /\ decision[f] # "blocked"

\* What a row says happened did happen: "allowed" and "confirmed" mean that the
\* agent got a clean answer, "confirmed" also that a human approved; "blocked" that
\* nothing was sent, because no human approved in time; "denied" that the agent
\* got nothing (fetch.go:106-118, 177-185, 243).
RowTruthful ==
  \A s \in Stores : \A i \in DOMAIN doc[s].audit :
    LET f == doc[s].audit[i].fields[1]
        d == doc[s].audit[i].fields[2] IN
    /\ d \in {"allowed", "confirmed"} => WasSent(f) /\ upstream[f] = "clean"
    /\ d = "confirmed" <=> WasSent(f) /\ upstream[f] = "clean" /\ first[f] = "approve"
    /\ d = "blocked" => ~WasSent(f) /\ (first[f] = "deny" \/ f \in fired \cup gone)
    /\ d = "denied" => upstream[f] # "clean"

\* Every fetch that has returned left one row, and never two: in the log of its
\* store, and in the file when the save succeeded (fetch.go:106-118, 243).
AccountedOnce ==
  \A f \in Calls :
    /\ stage[f] = "done" => Cardinality(RowsOf(doc[serves[f]].audit, f)) = 1
    /\ file # NoFile =>
         Cardinality(RowsOf(file.audit, f)) \in (IF f \in logged THEN {1} ELSE {0, 1})

\* A fetch that has begun returns to the agent, whatever the upstream does and
\* even if no human ever answers.
FetchFinishes == \A f \in Calls : (stage[f] = "lookup") ~> (stage[f] = "done")

-------------------------------------------------------------------------------
(* Statements of the documents that the code does not meet. *)

\* SECURITY.md:14-15: every authenticated action is in the log on the drive.  Once
\* a fetch that sent something has returned, its row is in the file.
SentIsOnDrive ==
  \A f \in Calls : WasSent(f) /\ stage[f] = "done" => RowsOf(file.audit, f) # {}

\* SECURITY.md:93: an agent cannot act after the auto-lock without a re-unlock.
NoSendAfterLock == \A f \in Calls : sent[f].vault = "live"

\* DESIGN.md:127: the response carries the audit_id of its row.
ReplyNamesRow ==
  \A f \in logged :
    \E i \in RowsOf(doc[serves[f]].audit, f) : doc[serves[f]].audit[i].hash = reply[f]

\* model.go:66 lists "error" and "timeout" among the decisions: a request that was
\* sent and failed upstream is not logged as one that was denied.
FailureIsNotDenial ==
  \A f \in Calls : stage[f] = "done" /\ upstream[f] = "failed" => decision[f] # "denied"
===============================================================================
