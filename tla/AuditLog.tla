------------------------------- MODULE AuditLog -------------------------------
(***************************************************************************)
(* The hash-chained audit log of src/internal/vault/store.go as operators  *)
(* on a sequence of rows.                                                  *)
(*                                                                         *)
(* A row is [time, fields, tier, prev, hash].  SHA-256 is taken to be      *)
(* collision free: a hash is the sequence of what has been hashed up to    *)
(* and including its row, and the empty string is the empty sequence.      *)
(* fields stands for the columns auditHash covers besides the time         *)
(* (credential, method, host, decision, status, bytes, source, latency);   *)
(* the tier is a column of its own because auditHash leaves it out.        *)
(***************************************************************************)
EXTENDS Naturals, Sequences, FiniteSets

CONSTANTS
  Entries, \* what a row says besides its time and tier
  Tiers,   \* the tiers a row may carry
  MaxTime  \* bound: row times and cutoffs

ASSUME TimeAssumption == MaxTime \in Nat

Times == 1..MaxTime
Hashes == Seq(Times \X Entries)
Rows == [time : Times, fields : Entries, tier : Tiers, prev : Hashes, hash : Hashes]

\* What AppendAudit is given.
AuditInput == [time : Times, fields : Entries, tier : Tiers]

NoHash == << >>

\* What auditHash feeds the digest besides the previous hash.
Body(e) == <<e.time, e.fields>>

AuditHash(prev, e) == Append(prev, Body(e))

\* Faulty variant of LastHash: the assignment under the if shadows prev.
LastHashShadowed(log) == NoHash

LastHash(log) == IF log = << >> THEN NoHash ELSE log[Len(log)].hash

\* AppendAudit, before it saves.
Chained(log, e) ==
  LET prev == LastHash(log) IN
  Append(log, [time |-> e.time, fields |-> e.fields, tier |-> e.tier,
               prev |-> prev, hash |-> AuditHash(prev, e)])

\* Faulty variant of VerifyAudit: rows are recomputed, the links are not compared.
VerifyRowsOnly(log) ==
  \A i \in DOMAIN log : log[i].hash = AuditHash(log[i].prev, log[i])

\* VerifyAudit: no prev_hash break and no row_hash mismatch.
VerifyAudit(log) ==
  \A i \in DOMAIN log :
    /\ log[i].prev = IF i = 1 THEN NoHash ELSE log[i - 1].hash
    /\ log[i].hash = AuditHash(log[i].prev, log[i])

\* Faulty variant of KeptRows: a row at the cutoff itself is dropped.
KeptAfter(log, cutoff) ==
  LET keep == {i \in DOMAIN log : log[i].time > cutoff}
      increasing == {f \in [1..Cardinality(keep) -> keep] :
                       \A i, j \in DOMAIN f : i < j => f[i] < f[j]}
  IN {[j \in DOMAIN f |-> log[f[j]]] : f \in increasing}

\* The rows ClearAuditBefore keeps, wherever they stand in the log, in the log's
\* order: a set of one sequence, enumerated by the only increasing function.
KeptRows(log, cutoff) ==
  LET keep == {i \in DOMAIN log : log[i].time >= cutoff}
      increasing == {f \in [1..Cardinality(keep) -> keep] :
                       \A i, j \in DOMAIN f : i < j => f[i] < f[j]}
  IN {[j \in DOMAIN f |-> log[f[j]]] : f \in increasing}

\* Faulty variant of Rechained: the kept rows keep their old hashes.
NotRechained(log) == log

\* The loop of ClearAuditBefore chains the kept rows anew from the empty string,
\* so the hash of the i-th covers the first i of them.
Rechained(log) ==
  LET covers(i) == [j \in 1..i |-> Body(log[j])] IN
  [i \in DOMAIN log |-> [log[i] EXCEPT !.prev = covers(i - 1), !.hash = covers(i)]]

\* What a log says, without the chaining.
Bodies(log) == [i \in DOMAIN log |-> Body(log[i])]
===============================================================================
