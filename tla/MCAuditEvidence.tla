---------------------------- MODULE MCAuditEvidence ----------------------------
(* Up to three rows and two changes: two changes can undo each other, and can *)
(* bring rows together that were never neighbours.                            *)
EXTENDS AuditEvidence, TLC

Symmetric == Permutations(Entries)
===============================================================================
