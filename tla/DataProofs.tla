------------------------------ MODULE DataProofs ------------------------------
(* Proofs about AuditEvidence and Exchange, the two modules whose subject is   *)
(* data: what a log that verifies tells of what was written, and where a       *)
(* request may go, what goes along and what comes back.  In between stands what *)
(* labels are to a comparison of characters.  All relate sequences position by *)
(* position; LeastElement stands in for induction over positions.              *)
EXTENDS AuditEvidence, Exchange, FiniteSetTheorems, SequenceTheorems,
        WellFoundedInduction, TLAPS

\* Every set of naturals with an element has a least one.
LEMMA LeastElement ==
  ASSUME NEW S \in SUBSET Nat, S # {}
  PROVE  \E m \in S : \A n \in S : m <= n
<1> DEFINE R == StrictSubsetOrdering(Nat)
           T == {1..m : m \in S}
<1>1. T \subseteq FiniteSubsetsOf(Nat) /\ T # {}
  <2>1. \A m \in S : 1..m \in FiniteSubsetsOf(Nat)
    <3>1. \A m \in Nat : IsFiniteSet(1..m)
      BY FS_Interval
    <3>2. QED
      BY <3>1 DEF FiniteSubsetsOf
  <2>2. QED
    BY <2>1
<1>2. IsWellFoundedOn(R, FiniteSubsetsOf(Nat))
  BY FS_StrictSubsetOrderingWellFounded
<1>3. PICK x \in T : \A y \in T : ~(<<y, x>> \in R)
  <2> HIDE DEF R, T
  <2>1. QED
    BY <1>1, <1>2, WFMin
<1>4. PICK m \in S : x = 1..m
  OBVIOUS
<1>5. ASSUME NEW n \in S, n < m
      PROVE  FALSE
  <2>1. (1..n) \subseteq (1..m) /\ m \in 1..m /\ m \notin 1..n
    BY <1>5
  <2>2. <<1..n, x>> \in R
    BY <1>4, <2>1 DEF StrictSubsetOrdering
  <2>3. QED
    BY <1>3, <2>2
<1>6. QED
  BY <1>5

-------------------------------------------------------------------------------
(* A log changed behind the program's back.  Whatever is done to the stored    *)
(* rows, every hash in them was taken over some beginning of what was written; *)
(* in a log that verifies, the i-th hash covers exactly the first i rows.      *)

\* What the hash of the n-th row written covers.
Beginning(n) == [j \in 1..n |-> Body(written[j])]

HashesAreOfBeginnings ==
  \A i \in DOMAIN stored : \E n \in 1..Len(written) : stored[i].hash = Beginning(n)

AllWrittenUntilEdited ==
  edits = 0 => /\ Len(stored) = Len(written)
               /\ \A i \in DOMAIN stored : stored[i].hash = Beginning(i)

EvidenceInv == EvidenceTypeOK /\ HashesAreOfBeginnings /\ AllWrittenUntilEdited

\* In a log that verifies the i-th hash covers the first i rows as they stand.
LEMMA VerifiedHash ==
  ASSUME NEW log \in Seq(Rows), VerifyAudit(log)
  PROVE  \A i \in DOMAIN log : log[i].hash = [j \in 1..i |-> Body(log[j])]
<1> DEFINE Wrong == {i \in DOMAIN log : log[i].hash # [j \in 1..i |-> Body(log[j])]}
<1>1. SUFFICES ASSUME Wrong # {}
               PROVE  FALSE
  OBVIOUS
<1>2. PICK m \in Wrong : \A i \in Wrong : m <= i
  <2>1. Wrong \in SUBSET Nat
    OBVIOUS
  <2> HIDE DEF Wrong
  <2>2. QED
    BY <1>1, <2>1, LeastElement
<1>3. log[m].prev = [j \in 1..(m - 1) |-> Body(log[j])]
  <2>1. CASE m = 1
    BY <2>1 DEF VerifyAudit, NoHash
  <2>2. CASE m # 1
    <3>1. m - 1 \in DOMAIN log /\ m - 1 \notin Wrong
      BY <1>2, <2>2
    <3>2. QED
      BY <2>2, <3>1 DEF VerifyAudit
  <2>3. QED
    BY <2>1, <2>2
<1>4. log[m].hash = Append(log[m].prev, Body(log[m]))
  BY DEF VerifyAudit, AuditHash
<1>5. Append([j \in 1..(m - 1) |-> Body(log[j])], Body(log[m])) = [j \in 1..m |-> Body(log[j])]
  <2> DEFINE Bs == {Body(log[j]) : j \in 1..m}
             s == [j \in 1..(m - 1) |-> Body(log[j])]
             t == [j \in 1..m |-> Body(log[j])]
  <2>1. m \in Nat \ {0}
    OBVIOUS
  <2>2. s \in Seq(Bs) /\ t \in Seq(Bs) /\ Body(log[m]) \in Bs /\ Len(s) = m - 1 /\ Len(t) = m
    BY <2>1
  <2>3. \A j \in 1..m : t[j] = IF j = m THEN Body(log[m]) ELSE s[j]
    BY <2>1
  <2> HIDE DEF s, t, Bs
  <2>4. Append(s, Body(log[m])) = t
    BY <2>1, <2>2, <2>3
  <2>5. QED
    BY <2>4 DEF s, t
<1>6. QED
  BY <1>3, <1>4, <1>5

LEMMA EvidenceInitEstablishes == EvidenceInit => EvidenceInv
  BY DEF EvidenceInit, EvidenceInv, EvidenceTypeOK, HashesAreOfBeginnings, AllWrittenUntilEdited

\* Whatever rows are lost, moved or altered, the hashes left are still of beginnings.
LEMMA EditPreserves ==
  ASSUME EvidenceInv, NEW new \in Seq(Rows), Edited(new),
         \A i \in DOMAIN new : \E j \in DOMAIN stored : new[i].hash = stored[j].hash
  PROVE  EvidenceInv'
<1>1. written' = written /\ stored' = new /\ edits' = edits + 1
  BY DEF Edited
<1>2. \A n \in Nat : Beginning(n)' = Beginning(n)
  BY <1>1 DEF Beginning
<1>3. EvidenceTypeOK'
  BY <1>1 DEF EvidenceInv, EvidenceTypeOK
<1>4. HashesAreOfBeginnings'
  <2> SUFFICES ASSUME NEW i \in DOMAIN new
               PROVE  \E n \in 1..Len(written) : new[i].hash = Beginning(n)'
    BY <1>1 DEF HashesAreOfBeginnings
  <2>1. PICK j \in DOMAIN stored : new[i].hash = stored[j].hash
    OBVIOUS
  <2>2. PICK n \in 1..Len(written) : stored[j].hash = Beginning(n)
    BY DEF EvidenceInv, HashesAreOfBeginnings
  <2>3. n \in Nat
    BY <2>2 DEF EvidenceInv, EvidenceTypeOK
  <2>4. QED
    BY <1>2, <2>1, <2>2, <2>3
<1>5. AllWrittenUntilEdited'
  BY <1>1 DEF EvidenceInv, EvidenceTypeOK, AllWrittenUntilEdited
<1>6. QED
  BY <1>3, <1>4, <1>5 DEF EvidenceInv

\* A row appended hashes one more than the row before it, and is what was written.
LEMMA WritePreserves ==
  ASSUME EvidenceInv, NEW e \in AuditInput, Write(e)
  PROVE  EvidenceInv'
<1> DEFINE row == [time |-> e.time, fields |-> e.fields, tier |-> e.tier,
                   prev |-> LastHash(stored), hash |-> AuditHash(LastHash(stored), e)]
<1>0. PICK n \in Nat : n = Len(stored)
  BY DEF EvidenceInv, EvidenceTypeOK
<1>1. /\ stored \in Seq(Rows) /\ written \in Seq(AuditInput)
      /\ Len(stored) = n /\ Len(written) = n
      /\ \A i \in 1..n : stored[i].hash = Beginning(i)
  BY <1>0 DEF EvidenceInv, EvidenceTypeOK, AllWrittenUntilEdited, Write
<1>2. stored' = Append(stored, row) /\ written' = Append(written, e) /\ edits' = edits
  BY DEF Write, Chained
<1>3. Body(e) \in Times \X Entries /\ \A j \in 1..n : Body(written[j]) \in Times \X Entries
  <2>1. \A j \in 1..n : written[j] \in AuditInput
    BY <1>1
  <2>2. QED
    BY <2>1 DEF AuditInput, Body
<1>4. LastHash(stored) = Beginning(n)
  BY <1>1 DEF LastHash, NoHash, Beginning
<1>5. Beginning(n) \in Hashes /\ Len(Beginning(n)) = n
  BY <1>1, <1>3 DEF Beginning, Hashes
<1>6. row \in Rows
  BY <1>3, <1>4, <1>5 DEF Rows, AuditInput, AuditHash, Hashes
<1>7. \A i \in 1..n : Beginning(i)' = Beginning(i)
  <2>1. \A j \in 1..n : written'[j] = written[j]
    BY <1>1, <1>2
  <2>2. QED
    BY <2>1 DEF Beginning
<1>8. row.hash = Beginning(n + 1)'
  <2> DEFINE s == Beginning(n)
             t == [j \in 1..(n + 1) |-> Body(written'[j])]
  <2>1. \A j \in 1..(n + 1) : written'[j] = IF j = n + 1 THEN e ELSE written[j]
    BY <1>1, <1>2
  <2>2. \A j \in 1..(n + 1) : t[j] = IF j = n + 1 THEN Body(e) ELSE s[j]
    BY <2>1, <1>1 DEF Beginning
  <2>3. t \in Seq(Times \X Entries) /\ Len(t) = n + 1
    <3>1. \A j \in 1..(n + 1) : t[j] \in Times \X Entries
      BY <2>1, <1>1, <1>3
    <3>2. QED
      BY <3>1, <1>1
  <2> HIDE DEF t, s
  <2>4. s \in Seq(Times \X Entries) /\ Len(s) = n
    BY <1>5 DEF Hashes, s
  <2>5. Append(s, Body(e)) = t
    <3>1. /\ Append(s, Body(e)) \in Seq(Times \X Entries)
          /\ Len(Append(s, Body(e))) = n + 1
          /\ \A j \in 1..(n + 1) : Append(s, Body(e))[j] = IF j = n + 1 THEN Body(e) ELSE s[j]
      BY <2>4, <1>1, <1>3
    <3>2. QED
      BY <3>1, <2>2, <2>3, SeqEqual
  <2>6. QED
    BY <2>5, <1>4 DEF s, t, Beginning, AuditHash
<1>9. /\ Len(stored') = n + 1 /\ Len(written') = n + 1
      /\ \A i \in 1..(n + 1) : stored'[i] = IF i = n + 1 THEN row ELSE stored[i]
  BY <1>1, <1>2, <1>6
<1> HIDE DEF row
<1>10. \A i \in 1..(n + 1) : stored'[i].hash = Beginning(i)'
  BY <1>1, <1>7, <1>8, <1>9
<1>11. EvidenceTypeOK'
  BY <1>1, <1>2, <1>6 DEF EvidenceInv, EvidenceTypeOK
<1>12. HashesAreOfBeginnings' /\ AllWrittenUntilEdited'
  <2>1. DOMAIN stored' = 1..(n + 1)
    BY <1>9, <1>11 DEF EvidenceTypeOK
  <2>2. QED
    BY <1>1, <1>9, <1>10, <2>1 DEF HashesAreOfBeginnings, AllWrittenUntilEdited
<1>13. QED
  BY <1>11, <1>12 DEF EvidenceInv

LEMMA EvidenceStepPreserves == EvidenceInv /\ [EvidenceNext]_evidenceVars => EvidenceInv'
<1> SUFFICES ASSUME EvidenceInv, [EvidenceNext]_evidenceVars
             PROVE  EvidenceInv'
  OBVIOUS
<1>1. stored \in Seq(Rows) /\ \A i \in DOMAIN stored : stored[i] \in Rows
  BY DEF EvidenceInv, EvidenceTypeOK
<1>2. ASSUME NEW e \in AuditInput, Write(e) PROVE EvidenceInv'
  BY <1>2, WritePreserves
<1>3. ASSUME NEW i \in DOMAIN stored, Lose(i) PROVE EvidenceInv'
  <2> DEFINE new == RemoveAt(stored, i)
             n == Len(stored)
  <2>1. i \in 1..n /\ n \in Nat
    BY <1>1
  <2>2. /\ SubSeq(stored, 1, i - 1) \in Seq(Rows) /\ Len(SubSeq(stored, 1, i - 1)) = i - 1
        /\ \A j \in 1..(i - 1) : SubSeq(stored, 1, i - 1)[j] = stored[j]
    BY <1>1, <2>1
  <2>3. /\ SubSeq(stored, i + 1, n) \in Seq(Rows) /\ Len(SubSeq(stored, i + 1, n)) = n - i
        /\ \A j \in 1..(n - i) : SubSeq(stored, i + 1, n)[j] = stored[i + j]
    BY <1>1, <2>1
  <2>4. /\ new \in Seq(Rows) /\ Len(new) = n - 1 /\ DOMAIN new = 1..(n - 1)
        /\ \A j \in 1..(n - 1) : new[j] = IF j < i THEN stored[j] ELSE stored[j + 1]
    <3> DEFINE a == SubSeq(stored, 1, i - 1)
               b == SubSeq(stored, i + 1, n)
    <3>1. new = a \o b
      BY DEF RemoveAt
    <3> HIDE DEF a, b, new, n
    <3>2. /\ a \o b \in Seq(Rows) /\ Len(a \o b) = Len(a) + Len(b)
          /\ \A j \in 1..(Len(a) + Len(b)) : (a \o b)[j] = IF j <= Len(a) THEN a[j] ELSE b[j - Len(a)]
      BY <2>2, <2>3, ConcatProperties DEF a, b
    <3>3. Len(a) = i - 1 /\ Len(b) = n - i
      BY <2>2, <2>3 DEF a, b
    <3>4. \A j \in 1..(n - 1) : new[j] = IF j < i THEN stored[j] ELSE stored[j + 1]
      <4> SUFFICES ASSUME NEW j \in 1..(n - 1)
                   PROVE  new[j] = IF j < i THEN stored[j] ELSE stored[j + 1]
        OBVIOUS
      <4>1. CASE j < i
        <5>1. j \in 1..(i - 1) /\ j <= Len(a)
          BY <2>1, <3>3, <4>1
        <5>2. QED
          BY <2>1, <2>2, <3>1, <3>2, <3>3, <4>1, <5>1 DEF a
      <4>2. CASE ~(j < i)
        <5>1. j - Len(a) \in 1..(n - i) /\ ~(j <= Len(a)) /\ i + (j - Len(a)) = j + 1
          BY <2>1, <3>3, <4>2
        <5>2. QED
          <6>1. b[j - Len(a)] = stored[i + (j - Len(a))]
            BY <2>3, <5>1 DEF b, n
          <6>2. (a \o b)[j] = b[j - Len(a)]
            BY <2>1, <3>2, <3>3, <5>1
          <6>3. QED
            BY <3>1, <4>2, <5>1, <6>1, <6>2
      <4>3. QED
        BY <4>1, <4>2
    <3>5. new \in Seq(Rows) /\ Len(new) = n - 1
      BY <2>1, <3>1, <3>2, <3>3
    <3>6. DOMAIN new = 1..(n - 1)
      BY <3>5
    <3>7. QED
      BY <3>4, <3>5, <3>6
  <2> HIDE DEF new
  <2>5. \A j \in DOMAIN new : \E k \in DOMAIN stored : new[j].hash = stored[k].hash
    <3> SUFFICES ASSUME NEW j \in 1..(n - 1)
                 PROVE  \E k \in 1..n : new[j].hash = stored[k].hash
      BY <1>1, <2>4
    <3>1. QED
      BY <2>1, <2>4
  <2>6. QED
    BY <1>3, <2>4, <2>5, EditPreserves DEF Lose, new
<1>4. ASSUME NEW i \in DOMAIN stored, NEW j \in DOMAIN stored, Move(i, j) PROVE EvidenceInv'
  <2> DEFINE new == [stored EXCEPT ![i] = stored[j], ![j] = stored[i]]
  <2>1. new \in Seq(Rows) /\ DOMAIN new = DOMAIN stored
    BY <1>1
  <2>2. \A k \in DOMAIN new : \E l \in DOMAIN stored : new[k].hash = stored[l].hash
    OBVIOUS
  <2>3. QED
    BY <1>4, <2>1, <2>2, EditPreserves DEF Move
<1>5. ASSUME NEW i \in DOMAIN stored, NEW e \in AuditInput, Alter(i, e) PROVE EvidenceInv'
  <2> DEFINE new == [stored EXCEPT ![i].time = e.time, ![i].fields = e.fields]
             row == [stored[i] EXCEPT !.time = e.time, !.fields = e.fields]
  <2>1. row \in Rows /\ row.hash = stored[i].hash
    BY <1>1 DEF Rows, AuditInput
  <2>2. new = [stored EXCEPT ![i] = row]
    BY <1>1
  <2> HIDE DEF row
  <2>3. /\ [stored EXCEPT ![i] = row] \in Seq(Rows)
        /\ DOMAIN [stored EXCEPT ![i] = row] = DOMAIN stored
    BY <1>1, <2>1
  <2>4. \A k \in DOMAIN stored : [stored EXCEPT ![i] = row][k].hash = stored[k].hash
    BY <1>1, <2>1
  <2> HIDE DEF new
  <2>5. QED
    BY <1>5, <2>2, <2>3, <2>4, EditPreserves DEF Alter, new
<1>6. ASSUME NEW i \in DOMAIN stored, NEW t \in Tiers, Retier(i, t) PROVE EvidenceInv'
  <2> DEFINE new == [stored EXCEPT ![i].tier = t]
  <2>1. new \in Seq(Rows) /\ DOMAIN new = DOMAIN stored
    BY <1>1 DEF Rows
  <2>2. \A k \in DOMAIN new : new[k].hash = stored[k].hash
    BY <1>1 DEF Rows
  <2>3. QED
    BY <1>6, <2>1, <2>2, EditPreserves DEF Retier
<1>7. ASSUME UNCHANGED evidenceVars PROVE EvidenceInv'
  <2>1. stored' = stored /\ written' = written /\ edits' = edits
    BY <1>7 DEF evidenceVars
  <2>2. \A i : Beginning(i)' = Beginning(i)
    BY <2>1 DEF Beginning
  <2>3. QED
    BY <2>1, <2>2 DEF EvidenceInv, EvidenceTypeOK, HashesAreOfBeginnings, AllWrittenUntilEdited
<1>8. QED
  BY <1>2, <1>3, <1>4, <1>5, <1>6, <1>7 DEF EvidenceNext

LEMMA EvidenceInvariant == EvidenceSpec => []EvidenceInv
  BY EvidenceInitEstablishes, EvidenceStepPreserves, PTL DEF EvidenceSpec

\* The stored rows, what was written and the number of edits keep their types.
THEOREM EvidenceTypeCorrect == EvidenceSpec => []EvidenceTypeOK
<1>1. EvidenceInv => EvidenceTypeOK
  BY DEF EvidenceInv
<1>2. QED
  BY <1>1, EvidenceInvariant, PTL

\* For any number of rows and of changes behind the program's back, a log that
\* verifies is a beginning of what the program wrote (store.go:280-294).
THEOREM VerifiedIsBeginning == EvidenceSpec => []VerifiedIsPrefix
<1>1. EvidenceInv => VerifiedIsPrefix
  <2> SUFFICES ASSUME EvidenceInv, VerifyAudit(stored)
               PROVE  IsPrefix(Bodies(stored), Bodies(written))
    BY DEF VerifiedIsPrefix
  <2> DEFINE n == Len(stored)
  <2>1. /\ stored \in Seq(Rows) /\ written \in Seq(AuditInput)
        /\ n \in Nat /\ DOMAIN stored = 1..n
        /\ Len(written) \in Nat /\ DOMAIN written = 1..Len(written)
    BY DEF EvidenceInv, EvidenceTypeOK
  <2>2. n <= Len(written) /\ \A j \in 1..n : Body(stored[j]) = Body(written[j])
    <3>1. CASE n = 0
      BY <2>1, <3>1
    <3>2. CASE n # 0
      <4>1. stored[n].hash = [j \in 1..n |-> Body(stored[j])]
        BY <2>1, <3>2, VerifiedHash
      <4>2. PICK k \in 1..Len(written) : stored[n].hash = Beginning(k)
        BY <2>1, <3>2 DEF EvidenceInv, HashesAreOfBeginnings
      <4>3. k = n
        <5>1. DOMAIN stored[n].hash = 1..n /\ DOMAIN stored[n].hash = 1..k
          BY <4>1, <4>2 DEF Beginning
        <5>2. k \in 1..n /\ n \in 1..k
          BY <2>1, <3>2, <4>2, <5>1
        <5>3. k \in Nat /\ n \in Nat
          BY <2>1
        <5> HIDE DEF n
        <5>4. QED
          BY <5>2, <5>3
      <4>4. QED
        BY <2>1, <4>1, <4>2, <4>3 DEF Beginning
    <3>3. QED
      BY <3>1, <3>2
  <2>3. Len(Bodies(stored)) = n /\ Len(Bodies(written)) = Len(written)
    BY <2>1 DEF Bodies
  <2>4. SubSeq(Bodies(stored), 1, n) = SubSeq(Bodies(written), 1, n)
    <3>1. \A j \in 1..n : Bodies(stored)[j] = Bodies(written)[j]
      BY <2>1, <2>2 DEF Bodies
    <3>2. QED
      BY <2>1, <3>1
  <2>5. QED
    BY <2>1, <2>2, <2>3, <2>4 DEF IsPrefix
<1>2. QED
  BY <1>1, EvidenceInvariant, PTL

-------------------------------------------------------------------------------
(* Counting the elements of a finite set of numbers from below. *)

\* Ranks run from 0 to the size of the set, in the order of the elements.
LEMMA RankOrder ==
  ASSUME NEW S \in SUBSET Nat, IsFiniteSet(S)
  PROVE  /\ Cardinality(S) \in Nat
         /\ \A i \in S : Rank(S, i) \in 0..(Cardinality(S) - 1)
         /\ \A i, j \in S : i < j => Rank(S, i) < Rank(S, j)
<1> DEFINE Below(i) == {j \in S : j < i}
<1>1. Cardinality(S) \in Nat
  BY FS_CardinalityType
<1>2. \A i \in Nat : IsFiniteSet(Below(i)) /\ Rank(S, i) = Cardinality(Below(i)) /\ Rank(S, i) \in Nat
  <2> SUFFICES ASSUME NEW i \in Nat
               PROVE  IsFiniteSet(Below(i)) /\ Rank(S, i) = Cardinality(Below(i)) /\ Rank(S, i) \in Nat
    OBVIOUS
  <2>1. Below(i) \in SUBSET S
    OBVIOUS
  <2>2. IsFiniteSet(Below(i)) /\ Cardinality(Below(i)) \in Nat
    BY <2>1, FS_Subset, FS_CardinalityType
  <2>3. QED
    BY <2>2 DEF Rank
<1>3. ASSUME NEW T, IsFiniteSet(T), NEW U \in SUBSET T, NEW x \in T, x \notin U
      PROVE  Cardinality(U) < Cardinality(T)
  <2>1. /\ Cardinality(U) <= Cardinality(T) /\ IsFiniteSet(U)
        /\ Cardinality(T) = Cardinality(U) => T = U
    BY <1>3, FS_Subset
  <2>2. Cardinality(U) \in Nat /\ Cardinality(T) \in Nat
    BY <1>3, <2>1, FS_CardinalityType
  <2>3. QED
    BY <1>3, <2>1, <2>2
<1>4. ASSUME NEW i \in S
      PROVE  Rank(S, i) \in 0..(Cardinality(S) - 1)
  <2>1. Below(i) \in SUBSET S /\ i \notin Below(i)
    OBVIOUS
  <2>2. Cardinality(Below(i)) < Cardinality(S)
    <3> HIDE DEF Below
    <3>1. QED
      BY <1>3, <2>1
  <2>3. QED
    BY <1>1, <1>2, <2>2
<1>5. ASSUME NEW i \in S, NEW j \in S, i < j
      PROVE  Rank(S, i) < Rank(S, j)
  <2>1. Below(i) \in SUBSET Below(j) /\ i \in Below(j) /\ i \notin Below(i)
    <3>1. i \in Nat /\ j \in Nat /\ \A k \in S : k \in Nat
      OBVIOUS
    <3>2. \A k \in S : k < i => k < j
      BY <1>5, <3>1
    <3>3. Below(i) \subseteq Below(j)
      BY <3>2
    <3>4. i \in Below(j) /\ i \notin Below(i)
      BY <1>5, <3>1
    <3>5. QED
      BY <3>3, <3>4
  <2>2. IsFiniteSet(Below(j)) /\ i \in Nat /\ j \in Nat
    BY <1>2
  <2>3. Cardinality(Below(i)) < Cardinality(Below(j))
    <3> HIDE DEF Below
    <3>1. QED
      BY <1>3, <2>1, <2>2
  <2>4. QED
    BY <1>2, <2>2, <2>3
<1>6. QED
  BY <1>1, <1>4, <1>5

\* Nth and Rank are inverse to one another.
LEMMA NthRank ==
  ASSUME NEW S \in SUBSET Nat, IsFiniteSet(S)
  PROVE  /\ \A k \in 1..Cardinality(S) : Nth(S, k) \in S /\ Rank(S, Nth(S, k)) = k - 1
         /\ \A i \in S : Rank(S, i) + 1 \in 1..Cardinality(S) /\ Nth(S, Rank(S, i) + 1) = i
<1> DEFINE n == Cardinality(S)
           f == [i \in S |-> Rank(S, i)]
<1>1. n \in Nat /\ \A i \in S : Rank(S, i) \in 0..(n - 1)
  BY RankOrder
<1>2. \A i, j \in S : Rank(S, i) = Rank(S, j) => i = j
  <2> SUFFICES ASSUME NEW i \in S, NEW j \in S, Rank(S, i) = Rank(S, j)
               PROVE  i = j
    OBVIOUS
  <2>1. ~(i < j) /\ ~(j < i)
    BY <1>1, RankOrder
  <2>2. QED
    BY <2>1
<1>3. f \in Surjection(S, 0..(n - 1))
  <2>1. f \in Injection(S, 0..(n - 1))
    BY <1>1, <1>2 DEF Injection, IsInjective
  <2>2. IsFiniteSet(0..(n - 1)) /\ Cardinality(0..(n - 1)) = n
    <3> HIDE DEF n
    <3>1. 0 \in Int /\ n - 1 \in Int
      BY <1>1
    <3>2. /\ IsFiniteSet(0..(n - 1))
          /\ Cardinality(0..(n - 1)) = IF 0 > n - 1 THEN 0 ELSE (n - 1) - 0 + 1
      BY <3>1, FS_Interval
    <3>3. QED
      BY <1>1, <3>2
  <2> HIDE DEF f
  <2>3. QED
    BY <2>1, <2>2, FS_Injection
<1>4. ASSUME NEW k \in 1..n
      PROVE  Nth(S, k) \in S /\ Rank(S, Nth(S, k)) = k - 1
  <2>1. k - 1 \in 0..(n - 1)
    BY <1>1
  <2>2. \E i \in S : f[i] = k - 1
    BY <1>3, <2>1 DEF Surjection
  <2>3. \E i \in S : Rank(S, i) = k - 1
    BY <2>2
  <2>4. QED
    BY <2>3 DEF Nth
<1>5. ASSUME NEW i \in S
      PROVE  Rank(S, i) + 1 \in 1..n /\ Nth(S, Rank(S, i) + 1) = i
  <2>1. Rank(S, i) + 1 \in 1..n /\ (Rank(S, i) + 1) - 1 = Rank(S, i)
    BY <1>1
  <2>2. Nth(S, Rank(S, i) + 1) \in S /\ Rank(S, Nth(S, Rank(S, i) + 1)) = Rank(S, i)
    <3> DEFINE k == Rank(S, i) + 1
    <3>1. k \in 1..n /\ k - 1 = Rank(S, i)
      BY <2>1
    <3> HIDE DEF k
    <3>2. Nth(S, k) \in S /\ Rank(S, Nth(S, k)) = Rank(S, i)
      BY <1>4, <3>1
    <3>3. QED
      BY <3>2 DEF k
  <2>3. QED
    BY <1>2, <2>1, <2>2
<1>6. QED
  BY <1>4, <1>5

\* Elements in their order, one after the other.
LEMMA NthOrder ==
  ASSUME NEW S \in SUBSET Nat, IsFiniteSet(S), NEW k \in 1..Cardinality(S)
  PROVE  /\ \A j \in 1..Cardinality(S) : k < j <=> Nth(S, k) < Nth(S, j)
         /\ k + 1 <= Cardinality(S) => \A i \in S : ~(Nth(S, k) < i /\ i < Nth(S, k + 1))
<1>1. Cardinality(S) \in Nat
  BY RankOrder
<1>2. \A j \in 1..Cardinality(S) : k < j <=> Nth(S, k) < Nth(S, j)
  <2> SUFFICES ASSUME NEW j \in 1..Cardinality(S)
               PROVE  k < j <=> Nth(S, k) < Nth(S, j)
    OBVIOUS
  <2> DEFINE a == Nth(S, k)
             b == Nth(S, j)
  <2>1. a \in S /\ b \in S /\ Rank(S, a) = k - 1 /\ Rank(S, b) = j - 1
    BY NthRank
  <2> HIDE DEF a, b
  <2>2. (a < b => Rank(S, a) < Rank(S, b)) /\ (b < a => Rank(S, b) < Rank(S, a))
    BY <2>1, RankOrder
  <2>3. a \in Nat /\ b \in Nat /\ k \in Nat /\ j \in Nat
    BY <2>1
  <2>4. a < b <=> k < j
    BY <2>1, <2>2, <2>3
  <2>5. QED
    BY <2>4 DEF a, b
<1>3. ASSUME k + 1 <= Cardinality(S), NEW i \in S, Nth(S, k) < i, i < Nth(S, k + 1)
      PROVE  FALSE
  <2>1. k + 1 \in 1..Cardinality(S) /\ (k + 1) - 1 = k
    BY <1>1, <1>3
  <2>2. Nth(S, k + 1) \in S /\ Rank(S, Nth(S, k + 1)) = k
    <3> DEFINE m == k + 1
    <3>1. m \in 1..Cardinality(S) /\ m - 1 = k
      BY <2>1
    <3> HIDE DEF m
    <3>2. Nth(S, m) \in S /\ Rank(S, Nth(S, m)) = k
      BY <3>1, NthRank
    <3>3. QED
      BY <3>2 DEF m
  <2>3. Nth(S, k) \in S /\ Rank(S, Nth(S, k)) = k - 1
    BY NthRank
  <2>4. Rank(S, Nth(S, k)) < Rank(S, i) /\ Rank(S, i) < Rank(S, Nth(S, k + 1))
    BY <1>3, <2>2, <2>3, RankOrder
  <2>5. Rank(S, i) \in Nat
    BY <1>1, RankOrder
  <2>6. QED
    BY <2>2, <2>3, <2>4, <2>5
<1>4. QED
  BY <1>2, <1>3

\* The last element of all.
LEMMA NthLast ==
  ASSUME NEW S \in SUBSET Nat, IsFiniteSet(S), NEW top \in S, \A i \in S : i <= top
  PROVE  Cardinality(S) \in Nat \ {0} /\ Nth(S, Cardinality(S)) = top
<1>1. Cardinality(S) \in Nat /\ Rank(S, top) + 1 \in 1..Cardinality(S) /\ Nth(S, Rank(S, top) + 1) = top
  BY RankOrder, NthRank
<1> DEFINE n == Cardinality(S)
           k == Rank(S, top) + 1
<1>2. n \in 1..n /\ n # 0
  BY <1>1
<1> HIDE DEF n, k
<1>3. Nth(S, n) \in S /\ (k < n <=> Nth(S, k) < Nth(S, n)) /\ k \in 1..n /\ Nth(S, k) = top
  BY <1>1, <1>2, NthRank, NthOrder DEF n, k
<1>4. ~(k < n)
  <2>1. Nth(S, n) \in Nat /\ top \in Nat /\ Nth(S, n) <= top
    BY <1>3
  <2>2. QED
    BY <1>3, <2>1
<1>5. k = n
  BY <1>1, <1>3, <1>4 DEF n
<1>6. QED
  BY <1>1, <1>2, <1>3, <1>5 DEF n

-------------------------------------------------------------------------------
(* Names and labels. *)

LEMMA CutsFinite ==
  ASSUME NEW t \in Seq(Characters)
  PROVE  /\ Cuts(t) \in SUBSET Nat
         /\ IsFiniteSet(Cuts(t))
         /\ Cardinality(Cuts(t)) \in Nat \ {0, 1}
         /\ Nth(Cuts(t), 1) = 0
         /\ Nth(Cuts(t), Cardinality(Cuts(t))) = Len(t) + 1
         /\ \A i \in Cuts(t) : i \in 0..(Len(t) + 1)
<1> DEFINE S == Cuts(t)
           n == Cardinality(S)
<1>1. Len(t) \in Nat /\ DOMAIN t = 1..Len(t)
  OBVIOUS
<1>2. S \in SUBSET Nat /\ 0 \in S /\ Len(t) + 1 \in S /\ \A i \in S : i \in 0..(Len(t) + 1)
  BY <1>1 DEF Cuts
<1>3. IsFiniteSet(S)
  <2>1. Len(t) + 1 \in Nat /\ \A i \in S : i <= Len(t) + 1
    BY <1>1, <1>2
  <2> HIDE DEF S
  <2>2. QED
    BY <1>2, <2>1, FS_BoundedSetOfNaturals
<1> HIDE DEF S
<1>4. n \in Nat \ {0} /\ Nth(S, n) = Len(t) + 1
  BY <1>1, <1>2, <1>3, NthLast
<1>5. Nth(S, 1) = 0
  <2>1. 1 \in 1..n /\ Rank(S, 0) + 1 \in 1..n /\ Nth(S, Rank(S, 0) + 1) = 0
    BY <1>2, <1>3, <1>4, NthRank
  <2> DEFINE k == Rank(S, 0) + 1
  <2> HIDE DEF k, n
  <2>2. Nth(S, 1) \in S /\ (1 < k <=> Nth(S, 1) < 0)
    <3>1. 1 \in 1..n /\ k \in 1..n /\ Nth(S, k) = 0
      BY <2>1 DEF k
    <3>2. QED
      BY <1>2, <1>3, <3>1, NthRank, NthOrder DEF n
  <2>3. k = 1
    <3>1. Nth(S, 1) \in Nat
      BY <1>2, <2>2
    <3>2. ~(1 < k) /\ k \in 1..n
      BY <2>1, <2>2, <3>1 DEF k
    <3>3. QED
      BY <3>2
  <2>4. QED
    BY <2>1, <2>3 DEF k
<1>6. n # 1
  BY <1>1, <1>4, <1>5
<1>7. QED
  BY <1>2, <1>3, <1>4, <1>5, <1>6 DEF S

\* A suffix agrees with the end of the sequence position by position.
LEMMA SuffixByPosition ==
  ASSUME NEW S, NEW s \in Seq(S), NEW t \in Seq(S)
  PROVE  IsSuffix(s, t) <=> /\ Len(s) <= Len(t)
                            /\ \A i \in 1..Len(s) : t[Len(t) - Len(s) + i] = s[i]
<1> DEFINE m == Len(s)
           n == Len(t)
<1>1. m \in Nat /\ n \in Nat
  OBVIOUS
<1>2. /\ Reverse(s) \in Seq(S) /\ Len(Reverse(s)) = m /\ \A i \in 1..m : Reverse(s)[i] = s[(m - i) + 1]
      /\ Reverse(t) \in Seq(S) /\ Len(Reverse(t)) = n /\ \A i \in 1..n : Reverse(t)[i] = t[(n - i) + 1]
  <2>1. \A i \in 1..m : s[(m - i) + 1] \in S
    OBVIOUS
  <2>2. \A i \in 1..n : t[(n - i) + 1] \in S
    OBVIOUS
  <2>3. QED
    BY <1>1, <2>1, <2>2 DEF Reverse
<1>3. m <= n => (SubSeq(Reverse(s), 1, m) = SubSeq(Reverse(t), 1, m) <=>
                   \A i \in 1..m : s[(m - i) + 1] = t[(n - i) + 1])
  <2> DEFINE a == Reverse(s)
             b == Reverse(t)
  <2> HIDE DEF a, b
  <2>1. SUFFICES ASSUME m <= n
                 PROVE  SubSeq(a, 1, m) = SubSeq(b, 1, m) <=>
                          \A i \in 1..m : s[(m - i) + 1] = t[(n - i) + 1]
    BY DEF a, b
  <2>2. /\ SubSeq(a, 1, m) \in Seq(S) /\ Len(SubSeq(a, 1, m)) = m
        /\ \A i \in 1..m : SubSeq(a, 1, m)[i] = a[i]
    BY <1>1, <1>2 DEF a
  <2>3. /\ SubSeq(b, 1, m) \in Seq(S) /\ Len(SubSeq(b, 1, m)) = m
        /\ \A i \in 1..m : SubSeq(b, 1, m)[i] = b[i]
    BY <1>1, <1>2, <2>1 DEF b
  <2>4. SubSeq(a, 1, m) = SubSeq(b, 1, m) <=> \A i \in 1..m : a[i] = b[i]
    <3>1. (\A i \in 1..m : a[i] = b[i]) => SubSeq(a, 1, m) = SubSeq(b, 1, m)
      BY <2>2, <2>3, SeqEqual
    <3>2. SubSeq(a, 1, m) = SubSeq(b, 1, m) => \A i \in 1..m : a[i] = b[i]
      BY <2>2, <2>3
    <3>3. QED
      BY <3>1, <3>2
  <2>5. \A i \in 1..m : a[i] = s[(m - i) + 1] /\ b[i] = t[(n - i) + 1]
    BY <1>1, <1>2, <2>1 DEF a, b
  <2>6. QED
    BY <2>4, <2>5
<1>4. m <= n => ((\A i \in 1..m : s[(m - i) + 1] = t[(n - i) + 1]) <=>
                   \A i \in 1..m : t[n - m + i] = s[i])
  <2>1. ASSUME \A i \in 1..m : s[(m - i) + 1] = t[(n - i) + 1], NEW i \in 1..m
        PROVE  t[n - m + i] = s[i]
    <3>1. (m - i) + 1 \in 1..m /\ (m - ((m - i) + 1)) + 1 = i /\ (n - ((m - i) + 1)) + 1 = n - m + i
      BY <1>1
    <3>2. QED
      BY <2>1, <3>1
  <2>2. ASSUME \A i \in 1..m : t[n - m + i] = s[i], NEW i \in 1..m
        PROVE  s[(m - i) + 1] = t[(n - i) + 1]
    <3>1. (m - i) + 1 \in 1..m /\ n - m + ((m - i) + 1) = (n - i) + 1
      BY <1>1
    <3>2. QED
      BY <2>2, <3>1
  <2>3. QED
    BY <2>1, <2>2
<1>5. IsSuffix(s, t) <=> m <= n /\ SubSeq(Reverse(s), 1, m) = SubSeq(Reverse(t), 1, m)
  BY <1>2 DEF IsSuffix, IsPrefix
<1>6. QED
  BY <1>3, <1>4, <1>5

\* A name stands under a wildcard when a dot and the wildcard's base end it, and
\* something stands before them.
LEMMA UnderByPosition ==
  ASSUME NEW text \in Seq(Characters), NEW base \in Seq(Characters)
  PROVE  LET d == Len(text) - Len(base) IN
         UnderWildcard(text, base) <=> /\ d > 1
                                       /\ text[d] = "."
                                       /\ \A i \in 1..Len(base) : text[d + i] = base[i]
<1> DEFINE d == Len(text) - Len(base)
           s == <<".">> \o base
<1>1. Len(text) \in Nat /\ Len(base) \in Nat
  OBVIOUS
<1>2. /\ s \in Seq(Characters) /\ Len(s) = Len(base) + 1 /\ s[1] = "."
      /\ \A i \in 1..Len(base) : s[i + 1] = base[i]
  <2>1. "." \in Characters
    BY DEF Characters
  <2>2. QED
    BY <1>1, <2>1
<1> HIDE DEF s
<1>3. IsSuffix(s, text) <=> /\ Len(s) <= Len(text)
                            /\ \A i \in 1..Len(s) : text[Len(text) - Len(s) + i] = s[i]
  BY <1>2, SuffixByPosition
<1>4. Len(text) - Len(s) = d - 1 /\ (Len(s) <= Len(text) <=> d >= 1) /\ d \in Int
  BY <1>1, <1>2
<1>5. (\A i \in 1..(Len(base) + 1) : text[(d - 1) + i] = s[i])
        <=> text[d] = "." /\ \A i \in 1..Len(base) : text[d + i] = base[i]
  <2>1. ASSUME \A i \in 1..(Len(base) + 1) : text[(d - 1) + i] = s[i]
        PROVE  text[d] = "." /\ \A i \in 1..Len(base) : text[d + i] = base[i]
    <3>1. 1 \in 1..(Len(base) + 1) /\ (d - 1) + 1 = d
      BY <1>1, <1>4
    <3>2. \A i \in 1..Len(base) : i + 1 \in 1..(Len(base) + 1) /\ (d - 1) + (i + 1) = d + i
      BY <1>1, <1>4
    <3> HIDE DEF d
    <3>3. QED
      BY <1>2, <2>1, <3>1, <3>2
  <2>2. ASSUME text[d] = ".", \A i \in 1..Len(base) : text[d + i] = base[i],
               NEW i \in 1..(Len(base) + 1)
        PROVE  text[(d - 1) + i] = s[i]
    <3>1. CASE i = 1
      <4>1. (d - 1) + i = d
        BY <1>4, <3>1
      <4>2. QED
        BY <1>2, <2>2, <3>1, <4>1
    <3>2. CASE i # 1
      <4>1. i - 1 \in 1..Len(base) /\ (i - 1) + 1 = i /\ d + (i - 1) = (d - 1) + i
        BY <1>1, <1>4, <3>2
      <4> HIDE DEF d
      <4>2. QED
        BY <1>2, <2>2, <4>1
    <3>3. QED
      BY <3>1, <3>2
  <2>3. QED
    BY <2>1, <2>2
<1>6. Len(text) > Len(base) + 1 <=> d > 1
  BY <1>1
<1>7. UnderWildcard(text, base) <=> IsSuffix(s, text) /\ d > 1
  BY <1>6 DEF UnderWildcard, s
<1> HIDE DEF d
<1>8. UnderWildcard(text, base) <=> /\ d > 1
                                    /\ text[d] = "."
                                    /\ \A i \in 1..Len(base) : text[d + i] = base[i]
  <2>1. (\A i \in 1..Len(s) : text[Len(text) - Len(s) + i] = s[i])
          <=> \A i \in 1..(Len(base) + 1) : text[(d - 1) + i] = s[i]
    BY <1>2, <1>4
  <2>2. d > 1 => d >= 1
    BY <1>4
  <2>3. QED
    BY <1>3, <1>4, <1>5, <1>7, <2>1, <2>2
<1>9. QED
  BY <1>8 DEF d

\* The labels of a name, character by character.
LEMMA LabelsByPosition ==
  ASSUME NEW t \in Seq(Characters)
  PROVE  LET C == Cuts(t)
             n == Cardinality(C)
         IN  /\ Labels(t) \in Seq(Seq(Characters))
             /\ Len(Labels(t)) = n - 1
             /\ \A k \in 1..(n - 1) :
                  /\ Nth(C, k) \in Nat /\ Nth(C, k + 1) \in Nat /\ Nth(C, k) < Nth(C, k + 1)
                  /\ Labels(t)[k] \in Seq(Characters)
                  /\ Len(Labels(t)[k]) = Nth(C, k + 1) - Nth(C, k) - 1
                  /\ \A i \in 1..(Nth(C, k + 1) - Nth(C, k) - 1) : Labels(t)[k][i] = t[Nth(C, k) + i]
<1> DEFINE C == Cuts(t)
           n == Cardinality(C)
<1>1. /\ C \in SUBSET Nat /\ IsFiniteSet(C) /\ n \in Nat \ {0, 1} /\ Len(t) \in Nat
      /\ \A i \in C : i \in 0..(Len(t) + 1)
  BY CutsFinite
<1> HIDE DEF C
<1>2. ASSUME NEW k \in 1..(n - 1)
      PROVE  LET a == Nth(C, k)
                 b == Nth(C, k + 1)
             IN  /\ a \in Nat /\ b \in Nat /\ a < b
                 /\ SubSeq(t, a + 1, b - 1) \in Seq(Characters)
                 /\ Len(SubSeq(t, a + 1, b - 1)) = b - a - 1
                 /\ \A i \in 1..(b - a - 1) : SubSeq(t, a + 1, b - 1)[i] = t[a + i]
  <2> DEFINE a == Nth(C, k)
             j == k + 1
             b == Nth(C, j)
  <2>1. k \in 1..n /\ j \in 1..n /\ k < j
    BY <1>1
  <2> HIDE DEF j, n
  <2>2. a \in C /\ b \in C /\ a < b
    BY <1>1, <2>1, NthRank, NthOrder DEF n
  <2> HIDE DEF a, b
  <2>3. a \in Nat /\ b \in Nat /\ b <= Len(t) + 1
    BY <1>1, <2>2
  <2>4. \A i \in (a + 1)..(b - 1) : t[i] \in Characters
    <3>1. \A i \in (a + 1)..(b - 1) : i \in 1..Len(t)
      BY <1>1, <2>3
    <3>2. QED
      BY <3>1
  <2>5. /\ SubSeq(t, a + 1, b - 1) \in Seq(Characters)
        /\ Len(SubSeq(t, a + 1, b - 1)) = IF a + 1 <= b - 1 THEN (b - 1) - (a + 1) + 1 ELSE 0
        /\ \A i \in 1..((b - 1) - (a + 1) + 1) : SubSeq(t, a + 1, b - 1)[i] = t[(a + 1) + i - 1]
    <3>1. a + 1 \in Int /\ b - 1 \in Int
      BY <2>3
    <3>2. QED
      BY <2>4, <3>1, SubSeqProperties
  <2>6. Len(SubSeq(t, a + 1, b - 1)) = b - a - 1
    BY <2>2, <2>3, <2>5
  <2>7. \A i \in 1..(b - a - 1) : SubSeq(t, a + 1, b - 1)[i] = t[a + i]
    <3>1. (b - 1) - (a + 1) + 1 = b - a - 1
      BY <2>3
    <3>2. \A i \in 1..(b - a - 1) : (a + 1) + i - 1 = a + i
      BY <2>3
    <3>3. QED
      BY <2>5, <3>1, <3>2
  <2>8. QED
    BY <2>2, <2>3, <2>5, <2>6, <2>7 DEF a, b, j
<1>3. Labels(t) = [k \in 1..(n - 1) |-> SubSeq(t, Nth(C, k) + 1, Nth(C, k + 1) - 1)]
  BY DEF Labels, C
<1>4. \A k \in 1..(n - 1) : SubSeq(t, Nth(C, k) + 1, Nth(C, k + 1) - 1) \in Seq(Characters)
  BY <1>2
<1>5. Labels(t) \in Seq(Seq(Characters)) /\ Len(Labels(t)) = n - 1
  <2>1. n - 1 \in Nat
    BY <1>1
  <2> DEFINE label == [k \in 1..(n - 1) |-> SubSeq(t, Nth(C, k) + 1, Nth(C, k + 1) - 1)]
  <2>2. label \in [1..(n - 1) -> Seq(Characters)]
    BY <1>4
  <2> HIDE DEF n, label
  <2>3. label \in Seq(Seq(Characters)) /\ Len(label) = n - 1
    BY <2>1, <2>2
  <2>4. QED
    BY <1>3, <2>3 DEF label
<1>6. \A k \in 1..(n - 1) : Labels(t)[k] = SubSeq(t, Nth(C, k) + 1, Nth(C, k + 1) - 1)
  BY <1>3
<1>7. QED
  BY <1>2, <1>5, <1>6 DEF C

\* The d-th character of the name is a dot, and the base is all that follows it.
BaseAfter(text, d, base) ==
  /\ Len(text) = d + Len(base)
  /\ text[d] = "."
  /\ \A i \in 1..Len(base) : text[d + i] = base[i]

\* The cuts of a name from a dot on are those of what follows the dot.
LEMMA CutsAfterDot ==
  ASSUME NEW text \in Seq(Characters), NEW base \in Seq(Characters),
         NEW d \in Nat \ {0}, BaseAfter(text, d, base)
  PROVE  \E k \in Nat \ {0} :
           /\ Cardinality(Cuts(text)) = k + Cardinality(Cuts(base))
           /\ \A m \in 1..Cardinality(Cuts(base)) : Nth(Cuts(text), k + m) = d + Nth(Cuts(base), m)
<1> DEFINE C == Cuts(text)
           B == Cuts(base)
           k == Rank(C, d)
<1>1. /\ Len(text) \in Nat /\ Len(base) \in Nat /\ DOMAIN text = 1..Len(text) /\ DOMAIN base = 1..Len(base)
      /\ Len(text) = d + Len(base)
  BY DEF BaseAfter
<1>2. /\ C \in SUBSET Nat /\ IsFiniteSet(C) /\ Cardinality(C) \in Nat \ {0, 1}
      /\ Nth(C, 1) = 0 /\ Nth(C, Cardinality(C)) = Len(text) + 1
      /\ \A i \in C : i \in 0..(Len(text) + 1)
      /\ B \in SUBSET Nat /\ IsFiniteSet(B) /\ Cardinality(B) \in Nat \ {0, 1}
      /\ Nth(B, 1) = 0 /\ Nth(B, Cardinality(B)) = Len(base) + 1
      /\ \A i \in B : i \in 0..(Len(base) + 1)
  BY CutsFinite
<1>3. \A j \in 0..(Len(base) + 1) : d + j \in C <=> j \in B
  <2> SUFFICES ASSUME NEW j \in 0..(Len(base) + 1)
               PROVE  d + j \in C <=> j \in B
    OBVIOUS
  <2>1. CASE j = 0
    <3>1. d + j = d /\ d \in 1..Len(text)
      BY <1>1, <2>1
    <3>2. QED
      BY <1>1, <2>1, <3>1 DEF Cuts, BaseAfter
  <2>2. CASE j = Len(base) + 1
    <3>1. d + j = Len(text) + 1
      BY <1>1, <2>2
    <3>2. QED
      BY <2>2, <3>1 DEF Cuts
  <2>3. CASE j \in 1..Len(base)
    <3>1. d + j \in 1..Len(text) /\ d + j # 0 /\ d + j # Len(text) + 1 /\ j # 0 /\ j # Len(base) + 1
      BY <1>1, <2>3
    <3>2. text[d + j] = base[j]
      BY <2>3 DEF BaseAfter
    <3>3. QED
      BY <1>1, <2>3, <3>1, <3>2 DEF Cuts
  <2>4. QED
    BY <1>1, <2>1, <2>2, <2>3
<1> HIDE DEF C, B
<1>4. 0 \in C /\ d \in C /\ Rank(C, 0) < k /\ Rank(C, 0) \in Nat /\ k \in Nat
  <2>1. 0 \in C /\ 0 \in B
    BY DEF C, B, Cuts
  <2>2. d \in C
    <3>1. 0 \in 0..(Len(base) + 1) /\ d + 0 = d
      BY <1>1
    <3>2. QED
      BY <1>3, <2>1, <3>1
  <2>3. QED
    BY <1>2, <2>1, <2>2, RankOrder
<1>5. ASSUME NEW j \in B
      PROVE  Rank(C, d + j) = k + Rank(B, j)
  <2> DEFINE X == {x \in C : x < d}
             Z == {y \in B : y < j}
             Y == {d + y : y \in Z}
             f == [y \in Z |-> d + y]
  <2>1. j \in Nat /\ \A y \in B : y \in Nat /\ y \in 0..(Len(base) + 1)
    BY <1>2
  <2>2. {x \in C : x < d + j} = X \cup Y
    <3>1. ASSUME NEW x \in C, x < d + j, ~(x < d)
          PROVE  x \in Y
      <4>1. x \in Nat /\ x <= Len(text) + 1
        BY <1>2
      <4>2. x - d \in 0..(Len(base) + 1) /\ d + (x - d) = x /\ x - d < j
        BY <1>1, <2>1, <3>1, <4>1
      <4>3. x - d \in B
        BY <1>3, <4>2
      <4>4. QED
        BY <4>2, <4>3
    <3>2. ASSUME NEW y \in Z
          PROVE  d + y \in C /\ d + y < d + j
      BY <1>3, <2>1
    <3>3. ASSUME NEW x \in X
          PROVE  x < d + j
      BY <1>2, <2>1
    <3>4. QED
      BY <3>1, <3>2, <3>3
  <2>3. X \cap Y = {}
    <3>1. \A y \in Z : ~(d + y < d)
      BY <2>1
    <3>2. QED
      BY <3>1
  <2>4. IsFiniteSet(X) /\ IsFiniteSet(Z)
    <3>1. X \in SUBSET C /\ Z \in SUBSET B
      OBVIOUS
    <3> HIDE DEF X, Z
    <3>2. QED
      BY <1>2, <3>1, FS_Subset
  <2>5. IsFiniteSet(Y) /\ Cardinality(Y) = Cardinality(Z)
    <3>1. \A y, z \in Z : d + y = d + z => y = z
      BY <2>1
    <3>2. f \in Bijection(Z, Y)
      <4> HIDE DEF Z
      <4>1. f \in [Z -> Y] /\ \A u \in Y : \E y \in Z : f[y] = u
        OBVIOUS
      <4>2. f \in Surjection(Z, Y)
        <5> HIDE DEF f, Y
        <5>1. QED
          BY <4>1 DEF Surjection
      <4>3. \A y, z \in Z : f[y] = f[z] => y = z
        BY <3>1
      <4>4. f \in Injection(Z, Y)
        <5> HIDE DEF f, Y
        <5>1. QED
          BY <4>1, <4>3 DEF Injection, IsInjective
      <4>5. QED
        BY <4>2, <4>4 DEF Bijection
    <3> HIDE DEF f, Y, Z
    <3>3. ExistsBijection(Z, Y)
      BY <3>2 DEF ExistsBijection
    <3>4. QED
      BY <2>4, <3>3, FS_Bijection
  <2>6. Cardinality(X \cup Y) = Cardinality(X) + Cardinality(Y) - Cardinality(X \cap Y)
    <3> HIDE DEF X, Y
    <3>1. QED
      BY <2>4, <2>5, FS_Union
  <2>7. Cardinality(X \cap Y) = 0
    BY <2>3, FS_EmptySet
  <2>8. Cardinality(X) \in Nat /\ Cardinality(Z) \in Nat
    BY <2>4, FS_CardinalityType
  <2>9. Rank(C, d + j) = Cardinality(X \cup Y) /\ k = Cardinality(X) /\ Rank(B, j) = Cardinality(Z)
    BY <2>2 DEF Rank
  <2> HIDE DEF X, Y, Z
  <2>10. QED
    BY <2>5, <2>6, <2>7, <2>8, <2>9
<1> HIDE DEF k
<1>6. ASSUME NEW m \in 1..Cardinality(B)
      PROVE  Nth(C, k + m) = d + Nth(B, m)
  <2> DEFINE j == Nth(B, m)
  <2>1. j \in B /\ Rank(B, j) = m - 1
    BY <1>2, NthRank
  <2> HIDE DEF j
  <2>2. d + j \in C /\ Rank(C, d + j) = k + (m - 1)
    BY <1>2, <1>3, <1>5, <2>1
  <2>3. Nth(C, Rank(C, d + j) + 1) = d + j
    BY <1>2, <2>2, NthRank
  <2>4. k + (m - 1) + 1 = k + m
    BY <1>4
  <2>5. QED
    BY <2>2, <2>3, <2>4 DEF j
<1>7. Cardinality(C) = k + Cardinality(B)
  <2> DEFINE n == Cardinality(C)
             m == Cardinality(B)
             top == Len(text) + 1
  <2>1. m \in 1..m /\ n \in 1..n
    BY <1>2
  <2>2. Nth(B, m) = Len(base) + 1 /\ Nth(C, n) = top
    BY <1>2
  <2> HIDE DEF n, m, top
  <2>3. Nth(B, m) \in B /\ Rank(B, Nth(B, m)) = m - 1 /\ Rank(C, Nth(C, n)) = n - 1
    BY <1>2, <2>1, NthRank DEF n, m
  <2>4. d + Nth(B, m) = top
    BY <1>1, <2>2 DEF top
  <2>5. Rank(C, top) = k + (m - 1) /\ Rank(C, top) = n - 1
    BY <1>5, <2>2, <2>3, <2>4
  <2>6. n \in Nat /\ m \in Nat
    BY <2>1
  <2>7. QED
    BY <1>4, <2>5, <2>6 DEF n, m
<1>8. k \in Nat \ {0}
  BY <1>4
<1>9. QED
  BY <1>6, <1>7, <1>8 DEF C, B

\* The labels of the base are the last ones of a name, and those before them are not
\* just one empty one.
LabelsEnd(text, base) ==
  \E k \in 1..(Len(Labels(text)) - 1) :
    /\ SubSeq(Labels(text), k + 1, Len(Labels(text))) = Labels(base)
    /\ SubSeq(Labels(text), 1, k) # << << >> >>

\* A base that follows a dot, with something before the dot, ends the labels.
LEMMA BaseEndsLabels ==
  ASSUME NEW text \in Seq(Characters), NEW base \in Seq(Characters),
         NEW d \in Nat \ {0, 1}, BaseAfter(text, d, base)
  PROVE  LabelsEnd(text, base)
<1> DEFINE C == Cuts(text)
           B == Cuts(base)
           n == Cardinality(C)
           q == Cardinality(B)
           L == Labels(text)
           K == Labels(base)
<1>1. PICK k \in Nat \ {0} :
        n = k + q /\ \A m \in 1..q : Nth(C, k + m) = d + Nth(B, m)
  BY CutsAfterDot
<1>2. /\ n \in Nat \ {0, 1} /\ Nth(C, 1) = 0 /\ q \in Nat \ {0, 1} /\ Nth(B, 1) = 0
      /\ Nth(B, q) = Len(base) + 1 /\ \A i \in B : i \in 0..(Len(base) + 1)
      /\ B \in SUBSET Nat /\ IsFiniteSet(B)
  BY CutsFinite
<1>3. /\ L \in Seq(Seq(Characters)) /\ Len(L) = n - 1
      /\ \A j \in 1..(n - 1) :
           /\ Nth(C, j) \in Nat /\ Nth(C, j + 1) \in Nat /\ Nth(C, j) < Nth(C, j + 1)
           /\ L[j] \in Seq(Characters)
           /\ Len(L[j]) = Nth(C, j + 1) - Nth(C, j) - 1
           /\ \A i \in 1..(Nth(C, j + 1) - Nth(C, j) - 1) : L[j][i] = text[Nth(C, j) + i]
  BY LabelsByPosition
<1>4. /\ K \in Seq(Seq(Characters)) /\ Len(K) = q - 1
      /\ \A j \in 1..(q - 1) :
           /\ Nth(B, j) \in Nat /\ Nth(B, j + 1) \in Nat /\ Nth(B, j) < Nth(B, j + 1)
           /\ K[j] \in Seq(Characters)
           /\ Len(K[j]) = Nth(B, j + 1) - Nth(B, j) - 1
           /\ \A i \in 1..(Nth(B, j + 1) - Nth(B, j) - 1) : K[j][i] = base[Nth(B, j) + i]
  BY LabelsByPosition
<1> HIDE DEF C, B, n, q, L, K
<1>5. ASSUME NEW m \in 1..(q - 1)
      PROVE  L[k + m] = K[m]
  <2> DEFINE j == k + m
             a == Nth(B, m)
             b == Nth(B, m + 1)
  <2>1. j \in 1..(n - 1) /\ j + 1 = k + (m + 1) /\ m \in 1..q /\ m + 1 \in 1..q
    BY <1>1, <1>2
  <2>2. Nth(C, j) = d + a /\ Nth(C, j + 1) = d + b
    BY <1>1, <2>1
  <2>3. a \in Nat /\ b \in Nat /\ a < b /\ b <= Len(base) + 1
    <3>1. b \in B
      BY <1>2, <2>1, NthRank DEF q
    <3>2. b \in 0..(Len(base) + 1)
      BY <1>2, <3>1
    <3>3. a \in Nat /\ b \in Nat /\ a < b
      BY <1>4
    <3> HIDE DEF a, b
    <3>4. Len(base) \in Nat
      OBVIOUS
    <3>5. QED
      BY <3>2, <3>3, <3>4
  <2> HIDE DEF j, a, b
  <2>4. /\ L[j] \in Seq(Characters) /\ Len(L[j]) = (d + b) - (d + a) - 1
        /\ \A i \in 1..((d + b) - (d + a) - 1) : L[j][i] = text[(d + a) + i]
    BY <1>3, <2>1, <2>2
  <2>5. /\ K[m] \in Seq(Characters) /\ Len(K[m]) = b - a - 1
        /\ \A i \in 1..(b - a - 1) : K[m][i] = base[a + i]
    BY <1>4 DEF a, b
  <2>6. (d + b) - (d + a) - 1 = b - a - 1
    BY <2>3
  <2>7. ASSUME NEW i \in 1..(b - a - 1)
        PROVE  L[j][i] = K[m][i]
    <3>1. a + i \in 1..Len(base) /\ (d + a) + i = d + (a + i)
      BY <2>3
    <3>2. text[d + (a + i)] = base[a + i]
      BY <3>1 DEF BaseAfter
    <3>3. QED
      BY <2>4, <2>5, <2>6, <3>1, <3>2
  <2>8. L[j] = K[m]
    <3> DEFINE u == L[j]
               v == K[m]
    <3>1. u \in Seq(Characters) /\ v \in Seq(Characters) /\ Len(u) = b - a - 1 /\ Len(v) = b - a - 1
      BY <2>4, <2>5, <2>6
    <3>2. \A i \in 1..(b - a - 1) : u[i] = v[i]
      BY <2>7
    <3> HIDE DEF u, v
    <3>3. u = v
      BY <3>1, <3>2, SeqEqual
    <3>4. QED
      BY <3>3 DEF u, v
  <2>9. QED
    BY <2>8 DEF j
<1>6. SubSeq(L, k + 1, Len(L)) = K
  <2>1. k + 1 \in Int /\ n - 1 \in Int /\ \A i \in (k + 1)..(n - 1) : i \in 1..(n - 1)
    BY <1>1, <1>2
  <2>2. \A i \in (k + 1)..(n - 1) : L[i] \in Seq(Characters)
    BY <1>3, <2>1
  <2>3. /\ SubSeq(L, k + 1, n - 1) \in Seq(Seq(Characters))
        /\ Len(SubSeq(L, k + 1, n - 1)) = IF k + 1 <= n - 1 THEN (n - 1) - (k + 1) + 1 ELSE 0
        /\ \A i \in 1..((n - 1) - (k + 1) + 1) : SubSeq(L, k + 1, n - 1)[i] = L[(k + 1) + i - 1]
    BY <2>1, <2>2, SubSeqProperties
  <2>4. (n - 1) - (k + 1) + 1 = q - 1 /\ k + 1 <= n - 1 /\ q - 1 \in Nat
    BY <1>1, <1>2
  <2>5. \A i \in 1..(q - 1) : (k + 1) + i - 1 = k + i
    BY <1>2
  <2>6. \A i \in 1..(q - 1) : SubSeq(L, k + 1, n - 1)[i] = K[i]
    BY <1>5, <2>3, <2>4, <2>5
  <2>7. SubSeq(L, k + 1, n - 1) = K
    BY <1>4, <2>3, <2>4, <2>6, SeqEqual
  <2>8. QED
    BY <1>3, <2>7
<1>7. SubSeq(L, 1, k) # << << >> >>
  <2>1. SUFFICES ASSUME SubSeq(L, 1, k) = << << >> >>
                 PROVE  FALSE
    OBVIOUS
  <2>2. /\ Len(SubSeq(L, 1, k)) = k /\ SubSeq(L, 1, k)[1] = L[1]
    <3>1. \A i \in 1..k : i \in 1..(n - 1)
      BY <1>1, <1>2
    <3>2. \A i \in 1..k : L[i] \in Seq(Characters)
      BY <1>3, <3>1
    <3>3. /\ Len(SubSeq(L, 1, k)) = IF 1 <= k THEN k - 1 + 1 ELSE 0
          /\ \A i \in 1..(k - 1 + 1) : SubSeq(L, 1, k)[i] = L[1 + i - 1]
      BY <3>2, SubSeqProperties
    <3>4. QED
      BY <3>3
  <2>3. k = 1 /\ L[1] = << >>
    <3>1. Len(<< << >> >>) = 1 /\ << << >> >>[1] = << >>
      OBVIOUS
    <3>2. QED
      BY <2>1, <2>2, <3>1, Zenon
  <2>4. 1 \in 1..(n - 1) /\ 1 \in 1..q
    BY <1>2
  <2>5. Len(L[1]) = Nth(C, 1 + 1) - Nth(C, 1) - 1
    BY <1>3, <2>4
  <2>6. Nth(C, 1 + 1) = d + Nth(B, 1)
    BY <1>1, <2>3, <2>4
  <2>7. Len(L[1]) = d - 1 /\ Len(L[1]) = 0
    BY <1>2, <2>3, <2>5, <2>6
  <2>8. QED
    BY <2>7
<1>8. k \in 1..(Len(L) - 1)
  BY <1>1, <1>2, <1>3
<1>9. QED
  BY <1>6, <1>7, <1>8 DEF LabelsEnd, L, K

\* A base whose labels end a name's follows a dot in it, with something before the dot.
LEMMA LabelsEndInBase ==
  ASSUME NEW text \in Seq(Characters), NEW base \in Seq(Characters), LabelsEnd(text, base)
  PROVE  \E d \in Nat \ {0, 1} : BaseAfter(text, d, base)
<1> DEFINE C == Cuts(text)
           B == Cuts(base)
           n == Cardinality(C)
           q == Cardinality(B)
           L == Labels(text)
           K == Labels(base)
<1>1. PICK k \in 1..(Len(L) - 1) :
        /\ SubSeq(L, k + 1, Len(L)) = K
        /\ SubSeq(L, 1, k) # << << >> >>
  BY DEF LabelsEnd
<1>2. /\ C \in SUBSET Nat /\ IsFiniteSet(C) /\ n \in Nat \ {0, 1}
      /\ Nth(C, 1) = 0 /\ Nth(C, n) = Len(text) + 1 /\ \A i \in C : i \in 0..(Len(text) + 1)
      /\ B \in SUBSET Nat /\ IsFiniteSet(B) /\ q \in Nat \ {0, 1}
      /\ Nth(B, 1) = 0 /\ Nth(B, q) = Len(base) + 1 /\ \A i \in B : i \in 0..(Len(base) + 1)
  BY CutsFinite
<1>3. /\ L \in Seq(Seq(Characters)) /\ Len(L) = n - 1
      /\ \A j \in 1..(n - 1) :
           /\ Nth(C, j) \in Nat /\ Nth(C, j + 1) \in Nat /\ Nth(C, j) < Nth(C, j + 1)
           /\ L[j] \in Seq(Characters)
           /\ Len(L[j]) = Nth(C, j + 1) - Nth(C, j) - 1
           /\ \A i \in 1..(Nth(C, j + 1) - Nth(C, j) - 1) : L[j][i] = text[Nth(C, j) + i]
  BY LabelsByPosition
<1>4. /\ K \in Seq(Seq(Characters)) /\ Len(K) = q - 1
      /\ \A j \in 1..(q - 1) :
           /\ Nth(B, j) \in Nat /\ Nth(B, j + 1) \in Nat /\ Nth(B, j) < Nth(B, j + 1)
           /\ K[j] \in Seq(Characters)
           /\ Len(K[j]) = Nth(B, j + 1) - Nth(B, j) - 1
           /\ \A i \in 1..(Nth(B, j + 1) - Nth(B, j) - 1) : K[j][i] = base[Nth(B, j) + i]
  BY LabelsByPosition
<1>5. /\ Len(text) \in Nat /\ Len(base) \in Nat /\ DOMAIN text = 1..Len(text) /\ DOMAIN base = 1..Len(base)
      /\ \A i \in 1..Len(text) : i \in C => text[i] = "."
      /\ \A i \in 1..Len(base) : i \in B <=> base[i] = "."
  BY DEF Cuts
<1> DEFINE d == Nth(C, k + 1)
<1> HIDE DEF C, B, n, q, L, K
<1>6. k \in 1..(n - 2) /\ n = k + q /\ \A m \in 1..(q - 1) : L[k + m] = K[m]
  <2>1. k \in 1..(n - 2)
    BY <1>2, <1>3
  <2>2. k + 1 \in Int /\ n - 1 \in Int /\ \A i \in (k + 1)..(n - 1) : i \in 1..(n - 1)
    BY <1>2, <2>1
  <2>3. \A i \in (k + 1)..(n - 1) : L[i] \in Seq(Characters)
    BY <1>3, <2>2
  <2>4. /\ Len(SubSeq(L, k + 1, n - 1)) = IF k + 1 <= n - 1 THEN (n - 1) - (k + 1) + 1 ELSE 0
        /\ \A i \in 1..((n - 1) - (k + 1) + 1) : SubSeq(L, k + 1, n - 1)[i] = L[(k + 1) + i - 1]
    BY <2>2, <2>3, SubSeqProperties
  <2>5. SubSeq(L, k + 1, n - 1) = K
    BY <1>1, <1>3
  <2>6. n = k + q
    BY <1>2, <1>4, <2>1, <2>4, <2>5
  <2>7. (n - 1) - (k + 1) + 1 = q - 1 /\ \A i \in 1..(q - 1) : (k + 1) + i - 1 = k + i
    BY <1>2, <2>1, <2>6
  <2>8. QED
    BY <2>1, <2>4, <2>5, <2>6, <2>7
<1>7. \A j \in 1..n : Nth(C, j) \in C /\ Nth(C, j) \in Nat
  BY <1>2, NthRank DEF n
<1>8. d \in Nat /\ k + 1 \in 1..n
  BY <1>2, <1>6, <1>7
<1> HIDE DEF d
\* Label by label, the cuts of the name from d on are those of the base.
<1>9. \A m \in 1..q : Nth(C, k + m) = d + Nth(B, m)
  <2> DEFINE W == {m \in 1..q : Nth(C, k + m) # d + Nth(B, m)}
  <2>1. SUFFICES ASSUME W # {}
                 PROVE  FALSE
    OBVIOUS
  <2>2. PICK m \in W : \A j \in W : m <= j
    <3>1. W \in SUBSET Nat
      BY <1>2
    <3> HIDE DEF W
    <3>2. QED
      BY <2>1, <3>1, LeastElement
  <2>3. m \in 1..q /\ Nth(C, k + m) # d + Nth(B, m)
    OBVIOUS
  <2>4. m # 1
    BY <1>2, <1>8, <2>3 DEF d
  <2> DEFINE j == m - 1
             i == k + j
  <2>5. j \in 1..(q - 1) /\ j \in 1..q /\ j + 1 = m /\ i \in 1..(n - 1) /\ i + 1 = k + m
    BY <1>2, <1>6, <2>3, <2>4
  <2>6. Nth(C, i) = d + Nth(B, j)
    <3>1. j \notin W
      BY <2>2, <2>3
    <3> HIDE DEF j
    <3>2. QED
      BY <2>5, <3>1
  <2>7. L[i] = K[j]
    BY <1>6, <2>5
  <2> HIDE DEF i, j, W
  <2>8. /\ Len(L[i]) = Nth(C, k + m) - Nth(C, i) - 1 /\ Nth(C, i) \in Nat /\ Nth(C, k + m) \in Nat
        /\ Len(K[j]) = Nth(B, m) - Nth(B, j) - 1 /\ Nth(B, j) \in Nat /\ Nth(B, m) \in Nat
    <3>1. /\ Len(L[i]) = Nth(C, i + 1) - Nth(C, i) - 1 /\ Nth(C, i) \in Nat /\ Nth(C, i + 1) \in Nat
      BY <1>3, <2>5
    <3>2. /\ Len(K[j]) = Nth(B, j + 1) - Nth(B, j) - 1 /\ Nth(B, j) \in Nat /\ Nth(B, j + 1) \in Nat
      BY <1>4, <2>5
    <3>3. i + 1 = k + m /\ j + 1 = m
      BY <2>5
    <3>4. QED
      BY <3>1, <3>2, <3>3
  <2>9. Nth(C, k + m) = d + Nth(B, m)
    <3>1. Len(L[i]) = Len(K[j])
      BY <2>7
    <3>2. Nth(C, k + m) - Nth(C, i) - 1 = Nth(B, m) - Nth(B, j) - 1
      BY <2>8, <3>1
    <3> DEFINE c == Nth(C, i)
               c1 == Nth(C, k + m)
               b == Nth(B, j)
               b1 == Nth(B, m)
    <3>3. d \in Nat /\ c \in Nat /\ c1 \in Nat /\ b \in Nat /\ b1 \in Nat
      BY <1>8, <2>8
    <3>4. c1 - c - 1 = b1 - b - 1 /\ c = d + b
      BY <2>6, <3>2
    <3> HIDE DEF c, c1, b, b1
    <3>5. c1 = d + b1
      BY <3>3, <3>4
    <3>6. QED
      BY <3>5 DEF c1, b1
  <2>10. QED
    BY <2>3, <2>9
<1>10. Len(text) = d + Len(base)
  <2>1. q \in 1..q /\ Nth(C, k + q) = Len(text) + 1
    BY <1>2, <1>6
  <2>2. Len(text) + 1 = d + (Len(base) + 1)
    BY <1>2, <1>9, <2>1
  <2>3. Len(text) \in Nat /\ Len(base) \in Nat /\ d \in Nat
    BY <1>5, <1>8
  <2>4. \A x, y \in Nat : x + 1 = d + (y + 1) => x = d + y
    BY <2>3
  <2>5. QED
    BY <2>2, <2>3, <2>4
<1>11. 0 < d /\ text[d] = "."
  <2>1. 1 \in 1..n /\ 1 < k + 1
    BY <1>2, <1>6
  <2>2. Nth(C, 1) < d
    BY <1>2, <1>8, <2>1, NthOrder DEF d, n
  <2>3. d \in C /\ d <= Len(text)
    BY <1>5, <1>7, <1>8, <1>10 DEF d
  <2>4. 0 < d
    BY <1>2, <2>2
  <2>5. d \in 1..Len(text)
    BY <1>5, <1>8, <2>3, <2>4
  <2>6. QED
    BY <1>5, <2>3, <2>4, <2>5
<1>12. ASSUME NEW i \in 1..Len(base)
       PROVE  text[d + i] = base[i]
  <2>1. d + i \in 1..Len(text)
    BY <1>5, <1>8, <1>10
  <2>2. CASE i \in B
    <3> DEFINE m == Rank(B, i) + 1
    <3>1. m \in 1..q /\ Nth(B, m) = i
      BY <1>2, <2>2, NthRank DEF q
    <3> HIDE DEF m
    <3>2. k + m \in 1..n /\ Nth(C, k + m) = d + i
      BY <1>2, <1>6, <1>9, <3>1
    <3>3. d + i \in C
      BY <1>7, <3>2
    <3>4. text[d + i] = "." /\ base[i] = "."
      BY <1>5, <2>1, <2>2, <3>3
    <3>5. QED
      BY <3>4
  <2>3. CASE i \notin B
    <3> DEFINE W == {m \in 1..q : i < Nth(B, m)}
    <3>1. q \in W
      BY <1>2, <1>5
    <3>2. PICK m \in W : \A j \in W : m <= j
      <4>1. W \in SUBSET Nat
        BY <1>2
      <4> HIDE DEF W
      <4>2. QED
        BY <3>1, <4>1, LeastElement
    <3>3. m \in 1..q /\ i < Nth(B, m)
      OBVIOUS
    <3>4. m # 1
      BY <1>2, <1>5, <3>3
    <3> DEFINE j == m - 1
               a == Nth(B, j)
               b == Nth(B, m)
    <3>5. j \in 1..(q - 1) /\ j \in 1..q /\ j + 1 = m
      BY <1>2, <3>3, <3>4
    <3>6. ~(i < a)
      <4>1. j \notin W
        BY <3>2, <3>3
      <4> HIDE DEF j
      <4>2. QED
        BY <3>5, <4>1
    <3> HIDE DEF j, W
    <3>7. a \in B /\ a \in Nat
      BY <1>2, <3>5, NthRank DEF q
    <3> HIDE DEF a
    <3>8. a < i
      BY <1>5, <2>3, <3>6, <3>7
    <3>9. /\ \A x \in 1..(b - a - 1) : K[j][x] = base[a + x]
          /\ b \in Nat
      BY <1>4, <3>5 DEF a
    <3>10. i - a \in 1..(b - a - 1) /\ a + (i - a) = i /\ (d + a) + (i - a) = d + i
      BY <1>5, <1>8, <3>3, <3>7, <3>8, <3>9
    <3>11. /\ k + j \in 1..(n - 1) /\ (k + j) + 1 = k + m
           /\ Nth(C, k + j) = d + a /\ Nth(C, k + m) = d + b
      BY <1>2, <1>6, <1>9, <3>3, <3>5 DEF a
    <3>12. (d + b) - (d + a) - 1 = b - a - 1
      BY <1>8, <3>7, <3>9
    <3>13. \A x \in 1..(b - a - 1) : L[k + j][x] = text[(d + a) + x]
      <4> DEFINE y == k + j
      <4>1. y \in 1..(n - 1) /\ Nth(C, y) = d + a /\ Nth(C, y + 1) = d + b
        BY <3>11
      <4> HIDE DEF y, b
      <4>2. \A x \in 1..((d + b) - (d + a) - 1) : L[y][x] = text[(d + a) + x]
        BY <1>3, <4>1
      <4>3. QED
        BY <3>12, <4>2 DEF y
    <3>14. L[k + j] = K[j]
      BY <1>6, <3>5
    <3> HIDE DEF b
    <3>15. text[d + i] = L[k + j][i - a] /\ base[i] = K[j][i - a]
      BY <3>9, <3>10, <3>13
    <3>16. QED
      BY <3>14, <3>15
  <2>4. QED
    BY <2>2, <2>3
<1>13. d # 1
  <2>1. SUFFICES ASSUME d = 1
                 PROVE  FALSE
    OBVIOUS
  <2>2. 2 \in 1..n /\ 1 \in 1..(n - 1) /\ 1 \in 1..n /\ k \in 1..n
    BY <1>2, <1>6
  <2>3. Nth(C, 1) < Nth(C, 2) /\ Nth(C, 2) \in Nat
    BY <1>2, <1>7, <2>2, NthOrder DEF n
  <2>4. k = 1
    <3>1. 2 < k + 1 => Nth(C, 2) < d
      BY <1>2, <1>8, <2>2, NthOrder DEF d, n
    <3>2. ~(2 < k + 1)
      BY <1>2, <2>1, <2>3, <3>1
    <3>3. QED
      BY <1>6, <3>2
  <2>5. Len(L[1]) = Nth(C, 1 + 1) - Nth(C, 1) - 1 /\ L[1] \in Seq(Characters)
    BY <1>3, <2>2
  <2>6. Nth(C, 1 + 1) = 1
    BY <2>1, <2>4 DEF d
  <2>7. Len(L[1]) = 0
    BY <1>2, <2>5, <2>6
  <2>8. L[1] = << >>
    BY <2>5, <2>7, EmptySeq
  <2>9. SubSeq(L, 1, 1) = << L[1] >>
    <3>1. 1 \in Int /\ \A x \in 1..1 : L[x] \in Seq(Characters)
      BY <2>5
    <3>2. /\ SubSeq(L, 1, 1) \in Seq(Seq(Characters))
          /\ Len(SubSeq(L, 1, 1)) = 1
          /\ SubSeq(L, 1, 1)[1] = L[1]
      <4>1. /\ SubSeq(L, 1, 1) \in Seq(Seq(Characters))
            /\ Len(SubSeq(L, 1, 1)) = IF 1 <= 1 THEN 1 - 1 + 1 ELSE 0
            /\ \A x \in 1..(1 - 1 + 1) : SubSeq(L, 1, 1)[x] = L[1 + x - 1]
        BY <3>1, SubSeqProperties
      <4>2. QED
        BY <4>1
    <3>3. << L[1] >> \in Seq(Seq(Characters)) /\ Len(<< L[1] >>) = 1 /\ << L[1] >>[1] = L[1]
      BY <2>5
    <3>4. \A x \in 1..1 : x = 1
      OBVIOUS
    <3>5. QED
      BY <3>2, <3>3, <3>4, SeqEqual
  <2>10. QED
    BY <1>1, <2>4, <2>8, <2>9
<1>14. BaseAfter(text, d, base)
  BY <1>10, <1>11, <1>12 DEF BaseAfter
<1>15. d \in Nat \ {0, 1}
  BY <1>8, <1>11, <1>13
<1>16. QED
  BY <1>14, <1>15

\* The comparison of characters in hostAllowed decides by labels.
LEMMA WildcardByLabels ==
  ASSUME NEW text \in Seq(Characters), NEW base \in Seq(Characters)
  PROVE  UnderWildcard(text, base) <=> LabelsEnd(text, base)
<1> DEFINE e == Len(text) - Len(base)
<1>1. Len(text) \in Nat /\ Len(base) \in Nat /\ e \in Int
  OBVIOUS
<1>2. UnderWildcard(text, base) <=> /\ e > 1
                                    /\ text[e] = "."
                                    /\ \A i \in 1..Len(base) : text[e + i] = base[i]
  BY UnderByPosition
<1>3. Len(text) = e + Len(base)
  BY <1>1
<1>4. \A d \in Nat : Len(text) = d + Len(base) => d = e
  BY <1>1
<1> HIDE DEF e
<1>5. UnderWildcard(text, base) <=> e > 1 /\ BaseAfter(text, e, base)
  BY <1>2, <1>3 DEF BaseAfter
<1>6. ASSUME UnderWildcard(text, base) PROVE LabelsEnd(text, base)
  <2>1. e \in Nat \ {0, 1} /\ BaseAfter(text, e, base)
    BY <1>1, <1>5, <1>6
  <2>2. QED
    BY <2>1, BaseEndsLabels
<1>7. ASSUME LabelsEnd(text, base) PROVE UnderWildcard(text, base)
  <2>1. PICK d \in Nat \ {0, 1} : BaseAfter(text, d, base)
    BY <1>7, LabelsEndInBase
  <2>2. d = e
    BY <1>4, <2>1 DEF BaseAfter
  <2>3. e > 1
    BY <2>2
  <2>4. QED
    BY <1>5, <2>1, <2>2, <2>3
<1>8. QED
  BY <1>6, <1>7

\* normalizeHost keeps an address, and gives a host.
LEMMA NormalizedType ==
  ASSUME NEW h \in Hosts
  PROVE  Normalized(h) \in Hosts /\ Normalized(h).ip = h.ip
<1> DEFINE t == WithoutDot(h.text)
<1>1. h.text \in Seq(Characters) /\ h.ip \in Ranges \cup {NoIP}
  BY DEF Hosts
<1>2. t \in Seq(Characters)
  BY <1>1 DEF WithoutDot, Front
<1> HIDE DEF t
<1>3. Lower(t) \in Seq(Characters)
  <2>1. \A i \in 1..Len(t) : (IF t[i] = "G" THEN "g" ELSE t[i]) \in Characters
    BY <1>2 DEF Characters
  <2>2. DOMAIN t = 1..Len(t) /\ Len(t) \in Nat
    BY <1>2
  <2>3. QED
    BY <2>1, <2>2 DEF Lower
<1>4. << >> \in Seq(Characters)
  BY EmptySeq
<1>5. QED
  BY <1>1, <1>3, <1>4 DEF Normalized, t, Hosts, HostText, NoHost

\* hostAllowed, as it stands in the code, against what the patterns cover.
LEMMA AllowedIsCovered ==
  ASSUME NEW host \in Hosts, NEW patterns \in SUBSET AllowPatterns
  PROVE  HostAllowed(host, patterns) <=> \E p \in patterns : Covers(p, host)
<1> SUFFICES ASSUME NEW p \in patterns
             PROVE  LET base == Normalized(p.base) IN
                    (/\ base # NoHost
                     /\ IF p.wild
                          THEN host.ip = NoIP /\ base.ip = NoIP /\ UnderWildcard(host.text, base.text)
                          ELSE host = base) <=> Covers(p, host)
  BY DEF HostAllowed
<1>1. Normalized(p.base).text \in Seq(Characters) /\ host.text \in Seq(Characters)
  BY NormalizedType DEF AllowPatterns, Hosts
<1>2. UnderWildcard(host.text, Normalized(p.base).text)
        <=> LabelsEnd(host.text, Normalized(p.base).text)
  BY <1>1, WildcardByLabels
<1>3. QED
  BY <1>2 DEF Covers, LabelsEnd

-------------------------------------------------------------------------------
(* One request with a credential.  Every stage is entered with what was checked *)
(* on the way there still true, because what it was checked of is not written   *)
(* again: the credential and the request once they are set, the address once it *)
(* is pinned, the headers once they are built.                                  *)

Unsent == {"store", "ask", "check", "resolve", "build", "send"}

InOrder ==
  /\ stage # "store" => cred # Nothing /\ ShapeValid(cred) /\ PatternsValid(cred)
  /\ stage \notin {"store", "ask"} => job # Nothing
  /\ stage \in {"store", "ask", "check", "resolve"} => pinned = NoIP
  /\ stage \in {"build", "send", "receive"} => pinned # NoIP
  /\ stage \in Unsent => dialed = NoIP
  /\ stage # "end" => delivered = Nothing /\ result = ""

TargetAllowed == HostAllowed(Normalized(job.host), cred.patterns)

TargetChecked ==
  /\ stage = "resolve" \/ pinned # NoIP => TargetAllowed
  /\ pinned # NoIP => pinned = Pinned(Normalized(job.host), answers, cred.private)
  /\ dialed # NoIP => pinned = dialed
  /\ result = "host_not_allowed" => ~TargetAllowed

\* The headers carry the credential once, and the agent's part not the secret.
WireClean ==
  /\ InjectName(cred) \in DOMAIN wire
  /\ \A n \in DOMAIN wire :
       n \in Denylist \cup {InjectName(cred)} => n = InjectName(cred) /\ wire[n] = "auth"
  /\ LongSecret => job.exposes = {} /\ \A n \in DOMAIN wire : wire[n] # "secret"

Echoless == \A e \in delivered.body \cup UNION ToSet(delivered.values) : e.form = "other"

DeliveryClean ==
  delivered # Nothing =>
    /\ LongSecret => Echoless
    /\ delivered.location # NoLocation => LocationKept(delivered.location)

ExchangeInv ==
  /\ ExchangeTypeOK
  /\ InOrder
  /\ TargetChecked
  /\ stage \in {"send", "receive"} \/ Sent => WireClean
  /\ DeliveryClean

LEMMA ExchangeInitEstablishes == ExchangeInit => ExchangeInv
<1> SUFFICES ASSUME ExchangeInit
             PROVE  ExchangeInv
  OBVIOUS
<1>1. wire \in [DOMAIN wire -> FieldValues \cup {"auth"}]
  <2>1. wire \in Seq(FieldValues \cup {"auth"})
    BY EmptySeq DEF ExchangeInit
  <2>2. QED
    BY <2>1
<1>2. answers \in Seq(Ranges)
  BY EmptySeq DEF ExchangeInit
<1>3. ExchangeTypeOK
  BY <1>1, <1>2 DEF ExchangeInit, ExchangeTypeOK
<1>4. InOrder /\ TargetChecked /\ ~Sent
  BY DEF ExchangeInit, InOrder, TargetChecked, Sent
<1>5. QED
  BY <1>3, <1>4 DEF ExchangeInit, ExchangeInv, DeliveryClean

\* buildHeaders and injectAuth, for a credential that was accepted.
LEMMA BuiltClean ==
  ASSUME NEW c \in Credentials, ShapeValid(c), NEW agent \in SUBSET AgentFields,
         NEW w \in Built(c, agent)
  PROVE  LET h == OnWire(Injected(c, w)) IN
         /\ h \in [DOMAIN h -> FieldValues \cup {"auth"}]
         /\ InjectName(c) \in DOMAIN h
         /\ \A n \in DOMAIN h :
              n \in Denylist \cup {InjectName(c)} => n = InjectName(c) /\ h[n] = "auth"
         /\ (\A f \in agent : f.value # "secret") => \A n \in DOMAIN h : h[n] # "secret"
<1> DEFINE names == {f.name : f \in Copied(c, agent)}
           h == OnWire(Injected(c, w))
<1>1. /\ w \in [names -> FieldValues]
      /\ \A n \in names : \E f \in Copied(c, agent) : f.name = n /\ f.value = w[n]
  BY DEF Built
<1>2. \A n \in names : n \notin Denylist \cup {InjectName(c)}
  BY DEF Copied
<1>3. InjectName(c) \notin {"Host", "Content-Length"}
  BY DEF InjectName, ShapeValid, Reserved
<1>4. DOMAIN h = (names \cup {InjectName(c)}) \ {"Host", "Content-Length"}
  BY <1>1 DEF OnWire, Injected
<1>5. \A n \in DOMAIN h : h[n] = IF n = InjectName(c) THEN "auth" ELSE w[n]
  BY <1>1, <1>4 DEF OnWire, Injected
<1>6. h = [n \in DOMAIN h |-> h[n]]
  BY <1>1 DEF OnWire, Injected
<1>7. \A n \in DOMAIN h : h[n] \in FieldValues \cup {"auth"}
  BY <1>1, <1>4, <1>5
<1>8. ASSUME \A f \in agent : f.value # "secret", NEW n \in DOMAIN h
      PROVE  h[n] # "secret"
  <2>1. CASE n = InjectName(c)
    BY <1>5, <2>1
  <2>2. CASE n # InjectName(c)
    <3>1. n \in names /\ h[n] = w[n]
      BY <1>4, <1>5, <2>2
    <3>2. PICK f \in Copied(c, agent) : f.value = w[n]
      BY <1>1, <3>1
    <3>3. QED
      BY <1>8, <3>1, <3>2 DEF Copied
  <2>3. QED
    BY <2>1, <2>2
<1> HIDE DEF h
<1>9. h \in [DOMAIN h -> FieldValues \cup {"auth"}]
  BY <1>6, <1>7
<1>10. InjectName(c) \in DOMAIN h
  BY <1>3, <1>4
<1>11. \A n \in DOMAIN h :
         n \in Denylist \cup {InjectName(c)} => n = InjectName(c) /\ h[n] = "auth"
  BY <1>2, <1>4, <1>5
<1>12. QED
  BY <1>8, <1>9, <1>10, <1>11 DEF h

\* What a long secret's guard lets through repeats nothing.
LEMMA GuardSees ==
  ASSUME NEW c \in Credentials, c.secret \in {"long", "broken"}, NEW echoes \in SUBSET Echoes,
         ~ContainsAny(c, echoes)
  PROVE  \A e \in echoes : e.form = "other"
<1> SUFFICES ASSUME NEW e \in echoes, e.form # "other"
             PROVE  FALSE
  OBVIOUS
<1>1. e \in Needles(c)
  BY DEF Needles, Echoes, Forms
<1>2. e \in Holds(c, e)
  BY DEF Holds
<1>3. QED
  BY <1>1, <1>2 DEF ContainsAny

LEMMA PinnedType ==
  ASSUME NEW h \in Hosts, NEW found \in Seq(Ranges), NEW private \in BOOLEAN
  PROVE  Pinned(h, found, private) \in Ranges \cup {NoIP}
<1> DEFINE all == IF h.ip # NoIP THEN <<h.ip>> ELSE found
<1>1. all \in Seq(Ranges)
  BY DEF Hosts
<1>2. all # << >> => all[1] \in Ranges
  BY <1>1
<1>3. QED
  BY <1>2 DEF Pinned

\* What the agent is given of an answer that repeats nothing repeats nothing.
LEMMA SanitizedEcholess ==
  ASSUME NEW r \in UpstreamResponses, cred \in Credentials, LongSecret,
         ~Opaque(r), ~ContainsAny(cred, Legible(r))
  PROVE  \A e \in Sanitized(r).body \cup UNION ToSet(Sanitized(r).values) : e.form = "other"
<1>1. r.body \in SUBSET Echoes /\ r.values \in Seq(SUBSET Echoes)
  BY DEF UpstreamResponses
<1>2. Read(r) \in SUBSET Echoes /\ ~ContainsAny(cred, Read(r))
  BY <1>1 DEF Read, Legible, Opaque
<1>3. \A e \in Read(r) : e.form = "other"
  BY <1>2, GuardSees DEF LongSecret
<1>4. ASSUME NEW v \in ToSet(Sanitized(r).values), NEW e \in v
      PROVE  e.form = "other"
  <2>1. CASE Guarded(cred, r.values)
    <3>1. PICK i \in DOMAIN r.values : v = r.values[i]
      BY <2>1 DEF ToSet, Sanitized
    <3>2. v \in SUBSET Echoes /\ ~ContainsAny(cred, v)
      BY <1>1, <2>1, <3>1 DEF Guarded
    <3>3. QED
      BY <3>2, GuardSees DEF LongSecret
  <2>2. CASE ~Guarded(cred, r.values)
    BY <2>2 DEF ToSet, Sanitized
  <2>3. QED
    BY <2>1, <2>2
<1>5. QED
  BY <1>3, <1>4 DEF Sanitized

LEMMA SanitizedType ==
  ASSUME NEW r \in UpstreamResponses
  PROVE  Sanitized(r) \in Deliveries
<1>1. /\ r.body \in SUBSET Echoes /\ r.values \in Seq(SUBSET Echoes)
      /\ r.location \in Hosts \cup {NoLocation}
  BY DEF UpstreamResponses
<1>2. << >> \in Seq(SUBSET Echoes)
  BY EmptySeq
<1>3. QED
  BY <1>1, <1>2 DEF Sanitized, Read, Deliveries

LEMMA ExchangeStepPreserves == ExchangeInv /\ [ExchangeNext]_exchangeVars => ExchangeInv'
<1> SUFFICES ASSUME ExchangeInv, [ExchangeNext]_exchangeVars
             PROVE  ExchangeInv'
  OBVIOUS
<1> USE ExchangeAssumption
<1>1. ExchangeTypeOK /\ InOrder /\ TargetChecked
  BY DEF ExchangeInv
<1>2. ASSUME NEW c \in Offers, Put(c) PROVE ExchangeInv'
  <2>1. c # Nothing
    OBVIOUS
  <2>2. ExchangeTypeOK' /\ InOrder'
    BY <1>1, <1>2, <2>1 DEF Put, Proceed, ExchangeTypeOK, InOrder, Unsent
  <2>3. TargetChecked' /\ ~Sent' /\ delivered' = Nothing
    BY <1>1, <1>2 DEF Put, Proceed, InOrder, TargetChecked, Unsent, Sent
  <2>4. QED
    BY <1>2, <2>2, <2>3 DEF ExchangeInv, DeliveryClean, Put, Proceed
<1>3. ASSUME NEW r \in Requests, Ask(r) PROVE ExchangeInv'
  <2>1. r # Nothing
    OBVIOUS
  <2>2. ExchangeTypeOK' /\ InOrder'
    BY <1>1, <1>3, <2>1 DEF Ask, Proceed, ExchangeTypeOK, InOrder, Unsent
  <2>3. TargetChecked' /\ ~Sent' /\ delivered' = Nothing
    BY <1>1, <1>3 DEF Ask, Proceed, InOrder, TargetChecked, Unsent, Sent
  <2>4. QED
    BY <1>3, <2>2, <2>3 DEF ExchangeInv, DeliveryClean, Ask, Proceed
<1>4. ASSUME Check PROVE ExchangeInv'
  <2>1. ExchangeTypeOK' /\ InOrder'
    BY <1>1, <1>4 DEF Check, Proceed, Fail, ExchangeTypeOK, InOrder, Unsent
  <2>2. TargetChecked' /\ ~Sent' /\ delivered' = Nothing /\ stage' \notin {"send", "receive"}
    BY <1>1, <1>4 DEF Check, Proceed, Fail, InOrder, TargetChecked, TargetAllowed, Unsent, Sent
  <2>3. QED
    BY <2>1, <2>2 DEF ExchangeInv, DeliveryClean
<1>5. ASSUME NEW found \in Answers, Resolve(found) PROVE ExchangeInv'
  <2> DEFINE ip == Pinned(Normalized(job.host), found, cred.private)
  <2>1. job \in AgentRequests /\ cred \in Credentials /\ found \in Seq(Ranges)
    BY <1>1, <1>5 DEF Resolve, ExchangeTypeOK, InOrder
  <2>2. ip \in Ranges \cup {NoIP}
    <3>1. job.host \in Hosts /\ cred.private \in BOOLEAN
      BY <2>1 DEF AgentRequests, Credentials
    <3>2. QED
      BY <2>1, <3>1, NormalizedType, PinnedType
  <2> HIDE DEF ip
  <2>3. ExchangeTypeOK' /\ InOrder'
    BY <1>1, <1>5, <2>1, <2>2 DEF Resolve, Proceed, Fail, ExchangeTypeOK, InOrder, Unsent, ip
  <2>4. TargetChecked' /\ ~Sent' /\ delivered' = Nothing /\ stage' \notin {"send", "receive"}
    BY <1>1, <1>5 DEF Resolve, Proceed, Fail, InOrder, TargetChecked, TargetAllowed, Unsent, Sent
  <2>5. QED
    BY <2>3, <2>4 DEF ExchangeInv, DeliveryClean
<1>6. ASSUME Build PROVE ExchangeInv'
  <2>1. /\ job \in AgentRequests /\ cred \in Credentials /\ ShapeValid(cred)
        /\ job.agent \in SUBSET AgentFields
    BY <1>1, <1>6 DEF Build, ExchangeTypeOK, InOrder, AgentRequests
  <2>2. TargetChecked' /\ ~Sent' /\ delivered' = Nothing
    BY <1>1, <1>6 DEF Build, Proceed, Fail, InOrder, TargetChecked, TargetAllowed, Unsent, Sent
  <2>3. CASE /\ UNCHANGED wire
             /\ \E code \in {"bad_header", "bad_url", "outbound_exfil_blocked"} : Fail(code)
    <3>1. ExchangeTypeOK' /\ InOrder' /\ stage' \notin {"send", "receive"}
      BY <1>1, <1>6, <2>3 DEF Build, Fail, ExchangeTypeOK, InOrder, Unsent
    <3>2. QED
      BY <2>2, <3>1 DEF ExchangeInv, DeliveryClean
  <2>4. CASE /\ ~Smuggles /\ Proceed("send")
             /\ \E w \in Built(cred, job.agent) : wire' = OnWire(Injected(cred, w))
    <3>1. PICK w \in Built(cred, job.agent) : wire' = OnWire(Injected(cred, w))
      BY <2>4
    <3>2. /\ wire' \in [DOMAIN wire' -> FieldValues \cup {"auth"}]
          /\ InjectName(cred) \in DOMAIN wire'
          /\ \A n \in DOMAIN wire' :
               n \in Denylist \cup {InjectName(cred)} => n = InjectName(cred) /\ wire'[n] = "auth"
          /\ (\A f \in job.agent : f.value # "secret") => \A n \in DOMAIN wire' : wire'[n] # "secret"
      BY <2>1, <3>1, BuiltClean
    <3>3. ExchangeTypeOK' /\ InOrder'
      BY <1>1, <1>6, <2>4, <3>2 DEF Build, Proceed, ExchangeTypeOK, InOrder, Unsent
    <3>4. WireClean'
      BY <1>6, <2>4, <3>2 DEF WireClean, Build, Smuggles, LongSecret, InjectName
    <3>5. QED
      BY <2>2, <3>3, <3>4 DEF ExchangeInv, DeliveryClean
  <2>5. QED
    BY <1>6, <2>3, <2>4 DEF Build
<1>7. ASSUME NEW later \in Answers, Send(later) PROVE ExchangeInv'
  <2>1. ExchangeTypeOK' /\ InOrder'
    BY <1>1, <1>7 DEF Send, Proceed, Fail, ExchangeTypeOK, InOrder, Unsent, DialTarget
  <2>2. TargetChecked' /\ delivered' = Nothing
    BY <1>1, <1>7 DEF Send, Proceed, Fail, InOrder, TargetChecked, TargetAllowed, Unsent, DialTarget
  <2>3. WireClean'
    BY <1>7 DEF ExchangeInv, Send, WireClean, InjectName, LongSecret
  <2>4. QED
    BY <2>1, <2>2, <2>3 DEF ExchangeInv, DeliveryClean
<1>8. ASSUME NEW r \in Responses, Receive(r) PROVE ExchangeInv'
  <2>1. r \in UpstreamResponses /\ cred \in Credentials
    BY <1>1, <1>8 DEF Receive, ExchangeTypeOK, InOrder
  <2>2. delivered' \in Deliveries \cup {Nothing}
    BY <1>1, <1>8, <2>1, SanitizedType DEF Receive, ExchangeTypeOK
  <2>3. ExchangeTypeOK' /\ InOrder'
    BY <1>1, <1>8, <2>2 DEF Receive, Fail, ExchangeTypeOK, InOrder, Unsent
  <2>4. TargetChecked'
    BY <1>1, <1>8 DEF Receive, Fail, InOrder, TargetChecked, TargetAllowed, Unsent
  <2>5. WireClean'
    BY <1>8 DEF ExchangeInv, Receive, WireClean, InjectName, LongSecret
  <2>6. DeliveryClean'
    <3>1. SUFFICES ASSUME delivered' # Nothing
                   PROVE  /\ LongSecret' => Echoless'
                          /\ delivered'.location # NoLocation => LocationKept(delivered.location)'
      BY DEF DeliveryClean
    <3>2. ~Opaque(r) /\ ~ContainsAny(cred, Legible(r)) /\ delivered' = Sanitized(r) /\ cred' = cred
      BY <1>1, <1>8, <3>1 DEF Receive, InOrder
    <3>3. LongSecret' => Echoless'
      BY <2>1, <3>2, SanitizedEcholess DEF LongSecret, Echoless
    <3>4. delivered'.location # NoLocation => LocationKept(delivered.location)'
      <4>1. Sanitized(r).location # NoLocation => LocationKept(Sanitized(r).location)
        BY DEF Sanitized
      <4>2. QED
        BY <3>2, <4>1 DEF LocationKept
    <3>5. QED
      BY <3>3, <3>4
  <2>7. QED
    BY <2>3, <2>4, <2>5, <2>6 DEF ExchangeInv
<1>9. ASSUME GiveUp PROVE ExchangeInv'
  <2>1. ExchangeTypeOK' /\ InOrder' /\ TargetChecked' /\ delivered' = Nothing
    BY <1>1, <1>9 DEF GiveUp, Fail, ExchangeTypeOK, InOrder, TargetChecked, TargetAllowed, Unsent
  <2>2. WireClean'
    BY <1>9 DEF ExchangeInv, GiveUp, WireClean, InjectName, LongSecret
  <2>3. QED
    BY <2>1, <2>2 DEF ExchangeInv, DeliveryClean
<1>10. ASSUME UNCHANGED exchangeVars PROVE ExchangeInv'
  <2>1. ExchangeTypeOK' /\ InOrder' /\ TargetChecked'
    BY <1>1, <1>10 DEF exchangeVars, ExchangeTypeOK, InOrder, TargetChecked, TargetAllowed
  <2>2. WireClean => WireClean'
    BY <1>10 DEF exchangeVars, WireClean, InjectName, LongSecret
  <2>3. (LongSecret => Echoless) => (LongSecret => Echoless)'
    BY <1>10 DEF exchangeVars, LongSecret, Echoless
  <2>4. LocationKept(delivered.location) => LocationKept(delivered.location)'
    BY <1>10 DEF exchangeVars, LocationKept
  <2>5. QED
    BY <1>10, <2>1, <2>2, <2>3, <2>4 DEF exchangeVars, ExchangeInv, DeliveryClean, Sent
<1>11. QED
  BY <1>2, <1>3, <1>4, <1>5, <1>6, <1>7, <1>8, <1>9, <1>10 DEF ExchangeNext

LEMMA ExchangeInvariant == ExchangeSpec => []ExchangeInv
  BY ExchangeInitEstablishes, ExchangeStepPreserves, PTL DEF ExchangeSpec

\* The credential, the request, the headers and the answer keep their types.
THEOREM ExchangeTypeCorrect == ExchangeSpec => []ExchangeTypeOK
<1>1. ExchangeInv => ExchangeTypeOK
  BY DEF ExchangeInv
<1>2. QED
  BY <1>1, ExchangeInvariant, PTL

\* For any host, patterns and answer, the comparison of characters lets through just
\* what a pattern names or covers label by label, and no Location else
\* (host.go:88-109, fetch.go:156-164, 294-311).
THEOREM AllowlistIsByLabels == ExchangeSpec => []AllowlistByLabels
<1>1. ExchangeInv => AllowlistByLabels
  <2> SUFFICES ASSUME ExchangeInv
               PROVE  AllowlistByLabels
    OBVIOUS
  <2> USE ExchangeAssumption
  <2>1. stage # "store" => cred \in Credentials /\ cred.patterns \in SUBSET AllowPatterns
    BY DEF ExchangeInv, ExchangeTypeOK, InOrder, Credentials
  <2>2. stage \notin {"store", "ask"} => job \in AgentRequests /\ Normalized(job.host) \in Hosts
    <3>1. stage \notin {"store", "ask"} => job \in AgentRequests
      BY DEF ExchangeInv, ExchangeTypeOK, InOrder
    <3>2. QED
      BY <3>1, NormalizedType DEF AgentRequests
  <2>3. stage \notin {"store", "ask"} => (TargetAllowed <=> Covered(Normalized(job.host)))
    BY <2>1, <2>2, AllowedIsCovered DEF TargetAllowed, Covered
  <2>4. pinned # NoIP \/ Sent => Covered(Normalized(job.host))
    BY <2>3 DEF ExchangeInv, InOrder, TargetChecked, Unsent, Sent
  <2>5. result = "host_not_allowed" => ~Covered(Normalized(job.host))
    BY <2>3 DEF ExchangeInv, InOrder, TargetChecked
  <2>6. ASSUME delivered # Nothing, delivered.location # NoLocation
        PROVE  Covered(Normalized(delivered.location))
    <3>1. LocationKept(delivered.location) /\ stage # "store"
      BY <2>6 DEF ExchangeInv, DeliveryClean, InOrder
    <3>2. Normalized(delivered.location) \in Hosts
      <4>1. delivered \in Deliveries
        BY <2>6 DEF ExchangeInv, ExchangeTypeOK
      <4>2. delivered.location \in Hosts
        BY <2>6, <4>1 DEF Deliveries
      <4>3. QED
        BY <4>2, NormalizedType
    <3>3. QED
      BY <2>1, <3>1, <3>2, AllowedIsCovered DEF LocationKept, Covered
  <2>7. QED
    BY <2>4, <2>5, <2>6 DEF AllowlistByLabels
<1>2. QED
  BY <1>1, ExchangeInvariant, PTL

\* For any resolver, the address connected to is one that was checked, and none of
\* those it came with was off limits (dial.go:47-71, 88-99).
THEOREM DialedIsChecked == ExchangeSpec => []DialedWasChecked
<1>1. ExchangeInv => DialedWasChecked
  <2> SUFFICES ASSUME ExchangeInv, Sent
               PROVE  /\ dialed \notin NeverRanges
                      /\ dialed \in PrivateRanges => cred.private
                      /\ job.host.ip = NoIP =>
                           /\ dialed \in ToSet(answers)
                           /\ ToSet(answers) \cap NeverRanges = {}
                           /\ ToSet(answers) \cap PrivateRanges # {} => cred.private
    BY DEF DialedWasChecked
  <2> DEFINE host == Normalized(job.host)
             found == IF host.ip # NoIP THEN <<host.ip>> ELSE answers
  <2>1. job \in AgentRequests /\ answers \in Seq(Ranges)
    BY ExchangeAssumption DEF ExchangeInv, ExchangeTypeOK, InOrder, Unsent, Sent
  <2>2. host \in Hosts /\ host.ip = job.host.ip
    BY <2>1, NormalizedType DEF AgentRequests
  <2>3. dialed = Pinned(host, answers, cred.private) /\ dialed # NoIP
    BY DEF ExchangeInv, TargetChecked, Sent
  <2>4. found # << >> /\ dialed = found[1] /\ \A i \in DOMAIN found : ~Denied(found[i], cred.private)
    BY <2>3 DEF Pinned
  <2>5. found \in Seq(Ranges)
    BY <2>1, <2>2 DEF Hosts
  <2> HIDE DEF found
  <2>6. 1 \in DOMAIN found
    BY <2>4, <2>5
  <2>7. ~Denied(dialed, cred.private)
    BY <2>4, <2>6
  <2>8. ASSUME job.host.ip = NoIP
        PROVE  dialed \in ToSet(answers) /\ \A a \in ToSet(answers) : ~Denied(a, cred.private)
    BY <2>2, <2>4, <2>6, <2>8 DEF ToSet, found
  <2>9. QED
    BY <2>7, <2>8 DEF Denied
<1>2. QED
  BY <1>1, ExchangeInvariant, PTL

\* For any agent's headers, in any order and spelling, what leaves carries the
\* credential in its own header and nothing of the agent's beside it (auth.go:9-76).
THEOREM AuthorityAlwaysWins == ExchangeSpec => []AuthorityWins
<1>1. ExchangeInv => AuthorityWins
  BY DEF ExchangeInv, WireClean, AuthorityWins
<1>2. QED
  BY <1>1, ExchangeInvariant, PTL

\* No request leaves with a secret of six bytes or more in the agent's own part
\* (fetch.go:197-204, 278-292).
THEOREM OutboundIsClean == ExchangeSpec => []OutboundClean
<1>1. ExchangeInv => OutboundClean
  BY DEF ExchangeInv, WireClean, OutboundClean
<1>2. QED
  BY <1>1, ExchangeInvariant, PTL

\* For any upstream, what the agent gets repeats neither such a secret nor the value
\* injected, in any of the forms looked for (fetch.go:221-241, reflect.go:10-64).
THEOREM NothingIsEchoed == ExchangeSpec => []NothingEchoed
<1>1. ExchangeInv => NothingEchoed
  BY DEF ExchangeInv, DeliveryClean, Echoless, NothingEchoed
<1>2. QED
  BY <1>1, ExchangeInvariant, PTL

===============================================================================
