----------------------------- MODULE AuditEvidence -----------------------------
(***************************************************************************)
(* What VerifyAudit (src/internal/vault/store.go:280-294) can tell of a log *)
(* that was changed behind the program's back: rows lost, moved or altered  *)
(* in the stored document, their recorded hashes left as they were.         *)
(***************************************************************************)
EXTENDS AuditLog, SequencesExt

CONSTANTS MaxRows, \* bound: rows written
          MaxEdits \* bound: changes made afterwards

ASSUME EvidenceAssumption == MaxRows \in Nat /\ MaxEdits \in Nat

VARIABLES stored,  \* the audit log as it stands in the file
          written, \* history: the rows the program appended
          edits    \* the number of changes made behind its back

evidenceVars == <<stored, written, edits>>

EvidenceTypeOK ==
  /\ stored \in Seq(Rows)
  /\ written \in Seq(AuditInput)
  /\ edits \in Nat

EvidenceInit ==
  /\ stored = << >>
  /\ written = << >>
  /\ edits = 0

\* AppendAudit, by the program.
Write(e) ==
  /\ edits = 0
  /\ Len(stored) < MaxRows
  /\ stored' = Chained(stored, e)
  /\ written' = Append(written, e)
  /\ UNCHANGED edits

Edited(new) ==
  /\ edits < MaxEdits
  /\ edits' = edits + 1
  /\ stored' = new
  /\ UNCHANGED written

Lose(i) == Edited(RemoveAt(stored, i))

Move(i, j) ==
  /\ i < j
  /\ Edited([stored EXCEPT ![i] = stored[j], ![j] = stored[i]])

Alter(i, e) == Edited([stored EXCEPT ![i].time = e.time, ![i].fields = e.fields])

Retier(i, t) == Edited([stored EXCEPT ![i].tier = t])

EvidenceNext ==
  \/ \E e \in AuditInput : Write(e)
  \/ \E i \in DOMAIN stored : Lose(i)
  \/ \E i, j \in DOMAIN stored : Move(i, j)
  \/ \E i \in DOMAIN stored, e \in AuditInput : Alter(i, e)
  \/ \E i \in DOMAIN stored, t \in Tiers : Retier(i, t)

EvidenceSpec == EvidenceInit /\ [][EvidenceNext]_evidenceVars

-------------------------------------------------------------------------------
(* Properties. *)

\* A log that verifies says what the program wrote, up to a point: no row before
\* its end was lost, moved or altered (store.go:280-294).
VerifiedIsPrefix ==
  VerifyAudit(stored) => IsPrefix(Bodies(stored), Bodies(written))

\* DESIGN.md section 7, "so truncation or reordering is detectable": a log that
\* verifies has all the rows.
TruncationDetected ==
  VerifyAudit(stored) => Len(stored) = Len(written)

\* DESIGN.md section 7 lists the tier among the fields of the row the hash is
\* taken over: a log that verifies shows the tiers that were written.
TierCovered ==
  VerifyAudit(stored) /\ Len(stored) = Len(written)
    => \A i \in DOMAIN stored : stored[i].tier = written[i].tier
===============================================================================
