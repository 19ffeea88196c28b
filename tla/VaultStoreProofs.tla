--------------------------- MODULE VaultStoreProofs ---------------------------
(* Proofs about VaultStore: its types, the integrity of the audit chain, the  *)
(* session flags, the durability of acknowledged changes, the stability of a  *)
(* locked vault's file and the history its log keeps, for any stores, names,  *)
(* values and rows.                                                           *)
EXTENDS VaultStore, FiniteSetTheorems, TLAPS

-------------------------------------------------------------------------------
(* The operators of AuditLog. *)

LEMMA BodyType == ASSUME NEW e \in AuditInput PROVE Body(e) \in Times \X Entries
  BY DEF AuditInput, Body

LEMMA ChainedType ==
  ASSUME NEW log \in Seq(Rows), NEW e \in AuditInput
  PROVE  Chained(log, e) \in Seq(Rows)
<1>1. LastHash(log) \in Hashes
  <2>1. CASE log = << >>
    BY <2>1 DEF LastHash, NoHash, Hashes
  <2>2. CASE log # << >>
    <3>1. log[Len(log)] \in Rows
      BY <2>2
    <3>2. log[Len(log)].hash \in Hashes
      BY <3>1 DEF Rows
    <3>3. QED
      BY <2>2, <3>2 DEF LastHash
  <2>3. QED
    BY <2>1, <2>2
<1>2. AuditHash(LastHash(log), e) \in Hashes
  BY <1>1, BodyType DEF AuditHash, Hashes
<1>3. QED
  BY <1>1, <1>2 DEF Chained, Hashes, Rows, AuditInput

\* Appending a row to a log that verifies gives a log that verifies.
LEMMA ChainedVerifies ==
  ASSUME NEW log \in Seq(Rows), NEW e \in AuditInput, VerifyAudit(log)
  PROVE  VerifyAudit(Chained(log, e))
<1> DEFINE row == [time |-> e.time, fields |-> e.fields, tier |-> e.tier,
                   prev |-> LastHash(log), hash |-> AuditHash(LastHash(log), e)]
           new == Append(log, row)
<1>1. new = Chained(log, e)
  BY DEF Chained
<1>2. Len(new) = Len(log) + 1 /\ new[Len(log) + 1] = row /\ DOMAIN new = 1..(Len(log) + 1)
  BY DEF Rows
<1>3. \A i \in 1..Len(log) : new[i] = log[i]
  OBVIOUS
<1>4. row.prev = IF Len(log) + 1 = 1 THEN NoHash ELSE new[Len(log)].hash
  BY <1>3 DEF LastHash
<1>5. row.hash = AuditHash(row.prev, row)
  BY DEF AuditHash, Body
<1> HIDE DEF row, new
<1>6. QED
  <2> SUFFICES ASSUME NEW i \in DOMAIN new
               PROVE  /\ new[i].prev = IF i = 1 THEN NoHash ELSE new[i - 1].hash
                      /\ new[i].hash = AuditHash(new[i].prev, new[i])
    BY <1>1 DEF VerifyAudit
  <2>1. CASE i = Len(log) + 1
    BY <2>1, <1>2, <1>4, <1>5
  <2>2. CASE i \in 1..Len(log)
    <3>1. i \in DOMAIN log
      BY <2>2
    <3>2. i # 1 => new[i - 1] = log[i - 1]
      BY <2>2, <1>3
    <3>3. QED
      BY <3>1, <3>2, <2>2, <1>3 DEF VerifyAudit
  <2>3. QED
    BY <2>1, <2>2, <1>2

LEMMA KeptRowsType ==
  ASSUME NEW log \in Seq(Rows), NEW cutoff, NEW kept \in KeptRows(log, cutoff)
  PROVE  kept \in Seq(Rows)
<1> DEFINE keep == {i \in DOMAIN log : log[i].time >= cutoff}
<1>1. IsFiniteSet(DOMAIN log)
  BY FS_Interval
<1>2. Cardinality(keep) \in Nat
  BY <1>1, FS_Subset, FS_CardinalityType
<1>3. PICK f \in [1..Cardinality(keep) -> keep] : kept = [j \in DOMAIN f |-> log[f[j]]]
  BY DEF KeptRows
<1>4. \A j \in 1..Cardinality(keep) : log[f[j]] \in Rows
  <2> HIDE DEF keep
  <2>1. \A i \in keep : log[i] \in Rows
    BY DEF keep
  <2>2. QED
    BY <2>1
<1>5. kept = [j \in 1..Cardinality(keep) |-> log[f[j]]]
  <2> HIDE DEF keep
  <2>1. QED
    BY <1>3
<1>6. QED
  <2> HIDE DEF keep
  <2>1. QED
    BY <1>2, <1>4, <1>5

LEMMA RechainedType ==
  ASSUME NEW log \in Seq(Rows)
  PROVE  Rechained(log) \in Seq(Rows)
<1> DEFINE covers(i) == [j \in 1..i |-> Body(log[j])]
           row(i) == [log[i] EXCEPT !.prev = covers(i - 1), !.hash = covers(i)]
<1>1. \A i \in 1..Len(log) : log[i] \in Rows
  OBVIOUS
<1>2. \A r \in Rows : Body(r) \in Times \X Entries
  BY DEF Rows, Body
<1>3. \A i \in 0..Len(log) : covers(i) \in Hashes
  BY <1>1, <1>2 DEF Hashes
<1> HIDE DEF covers
<1>4. \A i \in 1..Len(log) : row(i) \in Rows
  <2> SUFFICES ASSUME NEW i \in 1..Len(log)
               PROVE  row(i) \in Rows
    OBVIOUS
  <2>1. covers(i - 1) \in Hashes /\ covers(i) \in Hashes
    BY <1>3
  <2>2. QED
    BY <1>1, <2>1 DEF Rows
<1>5. Rechained(log) = [i \in 1..Len(log) |-> row(i)]
  BY DEF Rechained, covers
<1> HIDE DEF row
<1>6. QED
  BY <1>4, <1>5

\* Chaining any rows anew gives a log that verifies.
LEMMA RechainedVerifies ==
  ASSUME NEW log \in Seq(Rows)
  PROVE  VerifyAudit(Rechained(log))
<1> DEFINE covers(i) == [j \in 1..i |-> Body(log[j])]
           row(i) == [log[i] EXCEPT !.prev = covers(i - 1), !.hash = covers(i)]
<1>1. Rechained(log) = [i \in 1..Len(log) |-> row(i)]
  BY DEF Rechained
<1>2. \A i \in 1..Len(log) : covers(i) = Append(covers(i - 1), Body(log[i]))
  OBVIOUS
<1>3. covers(0) = << >>
  OBVIOUS
<1> HIDE DEF covers
<1>4. \A i \in 1..Len(log) :
        row(i).prev = covers(i - 1) /\ row(i).hash = covers(i) /\ Body(row(i)) = Body(log[i])
  BY DEF Rows, Body
<1> HIDE DEF row
<1>5. SUFFICES ASSUME NEW i \in 1..Len(log)
               PROVE  /\ row(i).prev = IF i = 1 THEN NoHash ELSE row(i - 1).hash
                      /\ row(i).hash = AuditHash(row(i).prev, row(i))
  BY <1>1 DEF VerifyAudit
<1>6. QED
  BY <1>2, <1>3, <1>4 DEF AuditHash, NoHash

-------------------------------------------------------------------------------
(* The invariant, in two parts: what holds of each document on its own, however *)
(* many stores are open, and what needs that only one is.                       *)

\* Nothing precedes the creation of the file.
FileFirst ==
  file = NoFile => /\ \A s \in Stores : key[s] = "absent"
                   /\ \A n \in Names : acked[n] = NoCred

SoundInv ==
  /\ StoreTypeOK
  /\ FileFirst
  /\ AuditIntact
  /\ EnabledHasCredential

\* The stores of a process are opened one at a time.
OneLive == \A s, t \in Stores : key[s] = "live" /\ key[t] = "live" => s = t

StoreInv ==
  /\ SoundInv
  /\ OneLive
  /\ AckedDurable

LEMMA EmptyDocType == EmptyDoc \in Docs /\ VerifyAudit(EmptyDoc.audit)
<1>1. << >> \in Seq(Rows)
  OBVIOUS
<1>2. QED
  BY <1>1 DEF EmptyDoc, Docs, VerifyAudit

LEMMA StoreInitEstablishes == StoreInit => StoreInv
  BY EmptyDocType
     DEF StoreInit, StoreInv, SoundInv, StoreTypeOK, OneLive, FileFirst, AuditIntact,
         EnabledHasCredential, AckedDurable

-------------------------------------------------------------------------------
(* Every operation keeps the documents sound, and its store the only one. *)

LEMMA CreateSound ==
  ASSUME SoundInv, NEW s \in Stores, Create(s)
  PROVE  SoundInv'
<1> USE DEF SoundInv, StoreTypeOK, Create
<1>1. StoreTypeOK' /\ AuditIntact'
  BY EmptyDocType DEF AuditIntact
<1>2. FileFirst' /\ EnabledHasCredential'
  BY EmptyDocType, NoFileAssumption DEF FileFirst, EnabledHasCredential
<1>3. QED
  BY <1>1, <1>2

LEMMA CreatePreserves ==
  ASSUME StoreInv, NEW s \in Stores, Exclusive, Create(s)
  PROVE  StoreInv'
<1>1. SoundInv'
  BY CreateSound DEF StoreInv
<1> USE DEF StoreInv, SoundInv, StoreTypeOK, Create, Exclusive
<1>2. OneLive'
  BY DEF OneLive
<1>3. AckedDurable'
  BY DEF AckedDurable, FileFirst, EmptyDoc
<1>4. QED
  BY <1>1, <1>2, <1>3

LEMMA OpenSound ==
  ASSUME SoundInv, NEW s \in Stores, Open(s)
  PROVE  SoundInv'
<1> USE DEF SoundInv, StoreTypeOK, Open
<1>1. StoreTypeOK' /\ AuditIntact'
  BY DEF AuditIntact
<1>2. FileFirst' /\ EnabledHasCredential'
  BY DEF FileFirst, EnabledHasCredential
<1>3. QED
  BY <1>1, <1>2

LEMMA OpenPreserves ==
  ASSUME StoreInv, NEW s \in Stores, Exclusive, Open(s)
  PROVE  StoreInv'
<1>1. SoundInv'
  BY OpenSound DEF StoreInv
<1> USE DEF StoreInv, SoundInv, StoreTypeOK, Open, Exclusive
<1>2. OneLive' /\ AckedDurable'
  BY DEF OneLive, AckedDurable
<1>3. QED
  BY <1>1, <1>2

LEMMA PutPreserves ==
  ASSUME SoundInv, NEW s \in Stores, NEW n \in Names, NEW v \in Creds,
         NEW ok \in BOOLEAN, Put(s, n, v, ok)
  PROVE  SoundInv' /\ (StoreInv => StoreInv')
<1> DEFINE d == [doc[s] EXCEPT !.creds[n] = v]
<1> USE DEF SoundInv, StoreTypeOK, Put, Save
<1>1. d \in Docs /\ d.audit = doc[s].audit /\ d.creds = [doc[s].creds EXCEPT ![n] = v]
  BY DEF Docs
<1>2. doc' = [doc EXCEPT ![s] = d] /\ file' = IF ok THEN d ELSE file
  OBVIOUS
<1> HIDE DEF d
<1>3. StoreTypeOK' /\ AuditIntact'
  BY <1>1, <1>2 DEF AuditIntact, Acknowledge
<1>4. FileFirst'
  BY <1>1, <1>2, NoFileAssumption DEF FileFirst
<1>5. EnabledHasCredential'
  BY <1>1, <1>2, StoreAssumption DEF EnabledHasCredential, Docs
<1>6. ASSUME StoreInv
      PROVE  OneLive' /\ AckedDurable'
  BY <1>1, <1>2, <1>6 DEF StoreInv, AckedDurable, Acknowledge, OneLive, FileFirst, Docs
<1>7. QED
  BY <1>3, <1>4, <1>5, <1>6 DEF StoreInv

LEMMA DeletePreserves ==
  ASSUME SoundInv, NEW s \in Stores, NEW n \in Names, NEW ok \in BOOLEAN,
         Delete(s, n, ok)
  PROVE  SoundInv' /\ (StoreInv => StoreInv')
<1> DEFINE d == [doc[s] EXCEPT !.creds[n] = NoCred]
<1> USE DEF SoundInv, StoreTypeOK, Delete, Save, FlagsWithout
<1>1. d \in Docs /\ d.audit = doc[s].audit /\ d.creds = [doc[s].creds EXCEPT ![n] = NoCred]
  BY DEF Docs
<1>2. doc' = [doc EXCEPT ![s] = d] /\ file' = IF ok THEN d ELSE file
  OBVIOUS
<1> HIDE DEF d
<1>3. StoreTypeOK' /\ AuditIntact'
  BY <1>1, <1>2 DEF AuditIntact, Acknowledge
<1>4. FileFirst'
  BY <1>1, <1>2, NoFileAssumption DEF FileFirst
<1>5. EnabledHasCredential'
  BY <1>1, <1>2 DEF EnabledHasCredential, Docs
<1>6. ASSUME StoreInv
      PROVE  OneLive' /\ AckedDurable'
  BY <1>1, <1>2, <1>6 DEF StoreInv, AckedDurable, Acknowledge, OneLive, FileFirst, Docs
<1>7. QED
  BY <1>3, <1>4, <1>5, <1>6 DEF StoreInv

LEMMA EnablePreserves ==
  ASSUME SoundInv, NEW s \in Stores, NEW n \in Names, NEW on \in BOOLEAN,
         Enable(s, n, on)
  PROVE  SoundInv' /\ (StoreInv => StoreInv')
<1> USE DEF SoundInv, StoreTypeOK, Enable, FlagsWithout
<1>1. StoreTypeOK' /\ AuditIntact' /\ FileFirst'
  BY DEF AuditIntact, FileFirst
<1>2. EnabledHasCredential'
  BY DEF EnabledHasCredential
<1>3. ASSUME StoreInv
      PROVE  OneLive' /\ AckedDurable'
  BY <1>3 DEF StoreInv, OneLive, AckedDurable
<1>4. QED
  BY <1>1, <1>2, <1>3 DEF StoreInv

\* An operation that only gives the document of s another log that verifies.
LEMMA NewLogPreserves ==
  ASSUME SoundInv, NEW s \in Stores, NEW ok \in BOOLEAN, NEW log \in Seq(Rows),
         VerifyAudit(log), key[s] # "absent", NEW d, d = [doc[s] EXCEPT !.audit = log],
         doc' = [doc EXCEPT ![s] = d], Save(s, d, ok),
         UNCHANGED <<enabled, key, acked>>
  PROVE  SoundInv' /\ (StoreInv => StoreInv')
<1> USE DEF SoundInv, StoreTypeOK, Save
<1>1. d \in Docs /\ d.audit = log /\ d.creds = doc[s].creds
  BY DEF Docs
<1>2. StoreTypeOK' /\ AuditIntact'
  BY <1>1 DEF AuditIntact
<1>3. FileFirst' /\ EnabledHasCredential'
  BY <1>1, NoFileAssumption DEF FileFirst, EnabledHasCredential
<1>4. ASSUME StoreInv
      PROVE  OneLive' /\ AckedDurable'
  BY <1>1, <1>4 DEF StoreInv, OneLive, AckedDurable, FileFirst
<1>5. QED
  BY <1>2, <1>3, <1>4 DEF StoreInv

LEMMA AppendAuditPreserves ==
  ASSUME SoundInv, NEW s \in Stores, NEW e \in AuditInput, NEW ok \in BOOLEAN,
         AppendAudit(s, e, ok)
  PROVE  SoundInv' /\ (StoreInv => StoreInv')
<1>1. doc[s].audit \in Seq(Rows) /\ VerifyAudit(doc[s].audit)
  BY DEF SoundInv, StoreTypeOK, AuditIntact, Docs
<1>2. Chained(doc[s].audit, e) \in Seq(Rows) /\ VerifyAudit(Chained(doc[s].audit, e))
  BY <1>1, ChainedType, ChainedVerifies
<1>3. QED
  BY <1>2, NewLogPreserves DEF AppendAudit

LEMMA ClearAuditPreserves ==
  ASSUME SoundInv, NEW s \in Stores, NEW cutoff \in Times, NEW ok \in BOOLEAN,
         ClearAuditBefore(s, cutoff, ok)
  PROVE  SoundInv' /\ (StoreInv => StoreInv')
<1>1. PICK kept \in KeptRows(doc[s].audit, cutoff) :
        LET d == [doc[s] EXCEPT !.audit = Rechained(kept)] IN
        doc' = [doc EXCEPT ![s] = d] /\ Save(s, d, ok)
  BY DEF ClearAuditBefore
<1>2. doc[s].audit \in Seq(Rows)
  BY DEF SoundInv, StoreTypeOK, Docs
<1>3. Rechained(kept) \in Seq(Rows) /\ VerifyAudit(Rechained(kept))
  BY <1>2, KeptRowsType, RechainedType, RechainedVerifies
<1>4. QED
  BY <1>1, <1>3, NewLogPreserves DEF ClearAuditBefore

LEMMA CallPreserves ==
  ASSUME SoundInv, NEW s \in Stores, StoreCall(s)
  PROVE  SoundInv' /\ (StoreInv => StoreInv')
  BY PutPreserves, DeletePreserves, EnablePreserves, AppendAuditPreserves,
     ClearAuditPreserves DEF StoreCall

LEMMA ClosePreserves ==
  ASSUME SoundInv, NEW s \in Stores, NEW ok \in BOOLEAN, Close(s, ok)
  PROVE  SoundInv' /\ (StoreInv => StoreInv')
<1> USE DEF SoundInv, StoreTypeOK, Close, Save, Wiped
<1>1. StoreTypeOK' /\ AuditIntact' /\ EnabledHasCredential'
  BY DEF AuditIntact, EnabledHasCredential
<1>2. FileFirst'
  BY NoFileAssumption DEF FileFirst
<1>3. ASSUME StoreInv
      PROVE  OneLive' /\ AckedDurable'
  BY <1>3, NoFileAssumption DEF StoreInv, OneLive, FileFirst, AckedDurable
<1>4. QED
  BY <1>1, <1>2, <1>3 DEF StoreInv

LEMMA CrashPreserves ==
  ASSUME SoundInv, Crash
  PROVE  SoundInv' /\ (StoreInv => StoreInv')
<1> USE EmptyDocType DEF SoundInv, StoreTypeOK, Crash
<1>1. StoreTypeOK' /\ AuditIntact' /\ EnabledHasCredential'
  BY DEF AuditIntact, EnabledHasCredential
<1>2. FileFirst'
  BY DEF FileFirst
<1>3. ASSUME StoreInv
      PROVE  OneLive' /\ AckedDurable'
  BY <1>3 DEF StoreInv, OneLive, FileFirst, AckedDurable
<1>4. QED
  BY <1>1, <1>2, <1>3 DEF StoreInv

LEMMA StutterPreserves ==
  ASSUME SoundInv, UNCHANGED storeVars
  PROVE  SoundInv' /\ (StoreInv => StoreInv')
  BY DEF storeVars, StoreInv, SoundInv, StoreTypeOK, OneLive, FileFirst, AuditIntact,
         EnabledHasCredential, AckedDurable

LEMMA StoreStepPreserves == StoreInv /\ [StoreNext]_storeVars => StoreInv'
<1> SUFFICES ASSUME StoreInv, [StoreNext]_storeVars
             PROVE  StoreInv'
  OBVIOUS
<1>1. SoundInv
  BY DEF StoreInv
<1>2. CASE UNCHANGED storeVars
  BY <1>1, <1>2, StutterPreserves
<1>3. CASE StoreNext
  BY <1>1, <1>3, CreatePreserves, OpenPreserves, CallPreserves, ClosePreserves,
     CrashPreserves DEF StoreNext
<1>4. QED
  BY <1>2, <1>3

-------------------------------------------------------------------------------
\* The inductive invariant holds in every state of every behaviour.
THEOREM StoreInvariant == StoreSpec => []StoreInv
  BY StoreInitEstablishes, StoreStepPreserves, PTL DEF StoreSpec

\* Type correctness of the stores, the file and the history.
THEOREM StoreTypeCorrect == StoreSpec => []StoreTypeOK
<1>1. StoreInv => StoreTypeOK
  BY DEF StoreInv, SoundInv
<1>2. QED
  BY <1>1, StoreInvariant, PTL

\* The chain verifies in RAM and in the file, for logs of any length, whatever
\* saves fail and however often the log is cleared (store.go:259-316).
THEOREM AuditAlwaysVerifies == StoreSpec => []AuditIntact
<1>1. StoreInv => AuditIntact
  BY DEF StoreInv, SoundInv
<1>2. QED
  BY <1>1, StoreInvariant, PTL

\* A session flag never outlives its credential (store.go:172-195).
THEOREM FlagsFollowCredentials == StoreSpec => []EnabledHasCredential
<1>1. StoreInv => EnabledHasCredential
  BY DEF StoreInv, SoundInv
<1>2. QED
  BY <1>1, StoreInvariant, PTL

\* An acknowledged change survives failed saves, locks, crashes and reopening
\* until its name is changed again (store.go:156-184).
THEOREM AcknowledgedIsDurable == StoreSpec => []AckedDurable
<1>1. StoreInv => AckedDurable
  BY DEF StoreInv
<1>2. QED
  BY <1>1, StoreInvariant, PTL

\* A vault with no open store leaves its file alone (store.go:329-332).
THEOREM LockedFileIsStable == StoreSpec => LockedFileStable
<1>1. [StoreNext]_storeVars => [Exclusive /\ file # NoFile => file' = file]_storeVars
  BY DEF StoreNext, StoreCall, Create, Open, Put, Delete, Enable, AppendAudit,
         ClearAuditBefore, Close, Crash, Save, Exclusive, storeVars
<1>2. QED
  BY <1>1, PTL DEF StoreSpec, LockedFileStable
-------------------------------------------------------------------------------
(* What a log keeps of another. *)

Retained(old, cutoff) == {i \in DOMAIN old : old[i].time >= cutoff}

\* What it takes for the rows of old to stand at the front of new, under places.
Placed(old, new, cutoff, places) ==
  /\ places \in [Retained(old, cutoff) -> DOMAIN new]
  /\ \A i \in Retained(old, cutoff) :
       /\ Body(new[places[i]]) = Body(old[i])
       /\ \A j \in Retained(old, cutoff) : i < j => places[i] < places[j]
       /\ \A p \in 1..places[i] : \E j \in Retained(old, cutoff) : places[j] = p

LEMMA KeepsPlaced ==
  ASSUME NEW old, NEW new, NEW cutoff
  PROVE  Keeps(old, new, cutoff) <=> \E places : Placed(old, new, cutoff, places)
<1>1. ASSUME NEW f, f \in [Retained(old, cutoff) -> DOMAIN new]
      PROVE  DOMAIN f = Retained(old, cutoff)
  BY <1>1
<1>2. ASSUME NEW f, Placed(old, new, cutoff, f)
      PROVE  Keeps(old, new, cutoff)
  BY <1>1, <1>2 DEF Placed, Keeps, Retained
<1>3. ASSUME Keeps(old, new, cutoff)
      PROVE  \E places : Placed(old, new, cutoff, places)
  <2>1. PICK f \in [Retained(old, cutoff) -> DOMAIN new] :
          \A i \in DOMAIN f :
            /\ Body(new[f[i]]) = Body(old[i])
            /\ \A j \in DOMAIN f : i < j => f[i] < f[j]
            /\ \A p \in 1..f[i] : \E j \in DOMAIN f : f[j] = p
    BY <1>3 DEF Keeps, Retained
  <2>2. Placed(old, new, cutoff, f)
    BY <1>1, <2>1 DEF Placed
  <2>3. QED
    BY <2>2
<1>4. QED
  BY <1>2, <1>3

\* Rows with one body have one time.
LEMMA BodyTime ==
  ASSUME NEW r, NEW e, Body(r) = Body(e)
  PROVE  r.time = e.time
  BY DEF Body

LEMMA RowTimes ==
  ASSUME NEW log \in Seq(Rows)
  PROVE  /\ DOMAIN log = 1..Len(log) /\ Len(log) \in Nat
         /\ \A i \in DOMAIN log : log[i] \in Rows /\ log[i].time \in Nat /\ log[i].time >= 0
<1>1. \A i \in DOMAIN log : log[i] \in Rows
  OBVIOUS
<1>2. \A r \in Rows : r.time \in Nat /\ r.time >= 0
  BY DEF Rows, Times
<1>3. QED
  BY <1>1, <1>2

\* A log keeps all of itself.
LEMMA ExtendsItself ==
  ASSUME NEW log \in Seq(Rows)
  PROVE  Extends(log, log)
<1> DEFINE f == [i \in DOMAIN log |-> i]
<1>1. DOMAIN log = 1..Len(log) /\ Len(log) \in Nat
  OBVIOUS
<1>2. Retained(log, 0) = DOMAIN log
  BY RowTimes DEF Retained
<1>3. Placed(log, log, 0, f)
  <2>1. f \in [Retained(log, 0) -> DOMAIN log]
    BY <1>2
  <2>2. \A i \in 1..Len(log) : f[i] = i
    BY <1>1
  <2>3. \A i \in 1..Len(log) : \A p \in 1..i : p \in 1..Len(log)
    BY <1>1
  <2> HIDE DEF f
  <2>4. QED
    BY <1>1, <1>2, <2>1, <2>2, <2>3 DEF Placed
<1>4. 0 \in 0..MaxTime
  BY TimeAssumption
<1>5. QED
  BY <1>3, <1>4, KeepsPlaced DEF Extends

\* What is kept of what was kept is kept.
LEMMA ExtendsTwice ==
  ASSUME NEW a \in Seq(Rows), NEW b \in Seq(Rows), NEW d \in Seq(Rows),
         Extends(a, b), Extends(b, d)
  PROVE  Extends(a, d)
<1>0. PICK c \in 0..MaxTime, e \in 0..MaxTime : Keeps(a, b, c) /\ Keeps(b, d, e)
  BY DEF Extends
<1>1. PICK f : Placed(a, b, c, f)
  BY <1>0, KeepsPlaced
<1>2. PICK g : Placed(b, d, e, g)
  BY <1>0, KeepsPlaced
<1> DEFINE m == IF c < e THEN e ELSE c
           M == Retained(a, m)
           h == [i \in M |-> g[f[i]]]
<1>3. /\ m \in 0..MaxTime /\ c \in Nat /\ e \in Nat
      /\ \A t \in Nat : t >= m <=> t >= c /\ t >= e
  BY TimeAssumption
<1>4. /\ DOMAIN a = 1..Len(a) /\ DOMAIN b = 1..Len(b) /\ DOMAIN d = 1..Len(d)
      /\ Len(a) \in Nat /\ Len(b) \in Nat /\ Len(d) \in Nat
      /\ \A i \in DOMAIN a : a[i].time \in Nat
      /\ \A i \in DOMAIN b : b[i].time \in Nat
  BY RowTimes
<1> HIDE DEF m
<1>5. \A i : i \in M <=> i \in Retained(a, c) /\ a[i].time >= e
  BY <1>3, <1>4 DEF Retained
<1>6. \A i \in Retained(a, c) :
        /\ f[i] \in DOMAIN b
        /\ b[f[i]].time = a[i].time
        /\ a[i].time >= e <=> f[i] \in Retained(b, e)
  <2> SUFFICES ASSUME NEW i \in Retained(a, c)
               PROVE  /\ f[i] \in DOMAIN b
                      /\ b[f[i]].time = a[i].time
                      /\ a[i].time >= e <=> f[i] \in Retained(b, e)
    OBVIOUS
  <2>1. f[i] \in DOMAIN b /\ Body(b[f[i]]) = Body(a[i])
    BY <1>1 DEF Placed
  <2>2. b[f[i]].time = a[i].time
    BY <2>1, BodyTime
  <2>3. QED
    BY <2>1, <2>2 DEF Retained
<1>7. \A i \in M : i \in Retained(a, c) /\ f[i] \in Retained(b, e) /\ h[i] = g[f[i]]
  BY <1>5, <1>6
<1>8. \A k \in Retained(b, e) : g[k] \in DOMAIN d /\ k \in DOMAIN b /\ g[k] \in Nat /\ k \in Nat
  BY <1>2, <1>4 DEF Placed, Retained
<1>9. h \in [M -> DOMAIN d]
  BY <1>7, <1>8
<1> HIDE DEF h, M
<1>10. ASSUME NEW i \in M
       PROVE  Body(d[h[i]]) = Body(a[i])
  <2>1. Body(b[f[i]]) = Body(a[i]) /\ Body(d[g[f[i]]]) = Body(b[f[i]]) /\ h[i] = g[f[i]]
    BY <1>1, <1>2, <1>7 DEF Placed
  <2>2. QED
    BY <2>1
<1>11. ASSUME NEW i \in M, NEW j \in M, i < j
       PROVE  h[i] < h[j]
  <2>1. f[i] < f[j]
    BY <1>1, <1>7, <1>11 DEF Placed
  <2>2. g[f[i]] < g[f[j]]
    BY <1>2, <1>7, <2>1 DEF Placed
  <2>3. QED
    BY <1>7, <2>2
<1>12. ASSUME NEW i \in M, NEW p \in 1..h[i]
       PROVE  \E j \in M : h[j] = p
  <2>1. f[i] \in Retained(b, e) /\ h[i] = g[f[i]] /\ i \in Retained(a, c)
    BY <1>7
  <2>2. PICK k \in Retained(b, e) : g[k] = p
    BY <1>2, <2>1 DEF Placed
  <2>3. f[i] \in Nat /\ g[f[i]] \in Nat /\ k \in 1..Len(b) /\ p \in Nat /\ p <= g[f[i]]
    BY <1>4, <1>8, <2>1, <2>2
  <2>4. ~(f[i] < k)
    <3>1. f[i] < k => g[f[i]] < g[k]
      BY <1>2, <2>1 DEF Placed
    <3>2. QED
      BY <2>2, <2>3, <3>1
  <2>5. k \in 1..f[i]
    BY <2>3, <2>4
  <2>6. PICK j \in Retained(a, c) : f[j] = k
    BY <1>1, <2>1, <2>5 DEF Placed
  <2>7. j \in M
    BY <1>5, <1>6, <2>6
  <2>8. QED
    BY <1>7, <2>2, <2>6, <2>7
<1>13. Placed(a, d, m, h)
  BY <1>9, <1>10, <1>11, <1>12 DEF Placed, M
<1>14. QED
  BY <1>3, <1>13, KeepsPlaced DEF Extends

\* AppendAudit keeps every row.
LEMMA AppendingExtends ==
  ASSUME NEW log \in Seq(Rows), NEW e \in AuditInput
  PROVE  Extends(log, Chained(log, e))
<1> DEFINE new == Chained(log, e)
<1>1. DOMAIN log = 1..Len(log) /\ Len(log) \in Nat
  OBVIOUS
<1>2. \A i \in 1..Len(log) : i \in DOMAIN new /\ new[i] = log[i]
  BY DEF Chained
<1>0. PICK c \in 0..MaxTime : Keeps(log, log, c)
  BY ExtendsItself DEF Extends
<1>3. PICK g : Placed(log, log, c, g)
  BY <1>0, KeepsPlaced
<1> HIDE DEF new
<1>4. g \in [Retained(log, c) -> DOMAIN new]
  <2>1. \A i \in Retained(log, c) : g[i] \in DOMAIN new
    BY <1>1, <1>2, <1>3 DEF Placed
  <2>2. QED
    BY <1>3, <2>1 DEF Placed
<1>5. \A i \in Retained(log, c) : new[g[i]] = log[g[i]]
  BY <1>1, <1>2, <1>3 DEF Placed
<1>6. Placed(log, new, c, g)
  BY <1>3, <1>4, <1>5 DEF Placed
<1>7. QED
  BY <1>6, KeepsPlaced DEF Extends, new

\* ClearAuditBefore keeps the rows at and after its cutoff.
LEMMA ClearingExtends ==
  ASSUME NEW log \in Seq(Rows), NEW cutoff \in Times, NEW kept \in KeptRows(log, cutoff)
  PROVE  Extends(log, Rechained(kept))
<1> DEFINE keep == Retained(log, cutoff)
           n == Cardinality(keep)
           new == Rechained(kept)
<1>1. DOMAIN log = 1..Len(log) /\ Len(log) \in Nat /\ keep \subseteq Nat
  BY DEF Retained
<1>2. IsFiniteSet(keep) /\ n \in Nat
  <2>1. IsFiniteSet(DOMAIN log)
    BY FS_Interval
  <2>2. QED
    BY <2>1, FS_Subset, FS_CardinalityType DEF Retained
<1>3. PICK f \in [1..n -> keep] :
        /\ \A i, j \in DOMAIN f : i < j => f[i] < f[j]
        /\ kept = [j \in DOMAIN f |-> log[f[j]]]
  BY DEF KeptRows, Retained
<1> HIDE DEF keep, n
<1>4. /\ DOMAIN f = 1..n /\ \A i \in 1..n : f[i] \in keep /\ f[i] \in Nat
      /\ \A i, j \in 1..n : i < j => f[i] < f[j]
  BY <1>1, <1>3
<1>5. \A i, j \in 1..n : (f[i] < f[j] => i < j) /\ (f[i] = f[j] => i = j)
  <2> SUFFICES ASSUME NEW i \in 1..n, NEW j \in 1..n
               PROVE  (f[i] < f[j] => i < j) /\ (f[i] = f[j] => i = j)
    OBVIOUS
  <2>1. i < j \/ i = j \/ j < i
    BY <1>2
  <2>2. (i < j => f[i] < f[j]) /\ (j < i => f[j] < f[i]) /\ f[i] \in Nat /\ f[j] \in Nat
    BY <1>4
  <2>3. QED
    BY <1>2, <2>1, <2>2
<1>6. \A i \in keep : \E j \in 1..n : f[j] = i
  <2>1. f \in Injection(1..n, keep)
    BY <1>4, <1>5 DEF Injection, IsInjective
  <2>2. Cardinality(1..n) = n
    BY <1>2, FS_Interval
  <2>3. f \in Surjection(1..n, keep)
    BY <1>2, <2>1, <2>2, FS_Injection DEF n
  <2>4. QED
    BY <2>3 DEF Surjection
<1> DEFINE g == [i \in keep |-> CHOOSE j \in 1..n : f[j] = i]
<1>7. \A i \in keep : g[i] \in 1..n /\ f[g[i]] = i
  BY <1>6
<1>8. DOMAIN g = keep
  OBVIOUS
<1>9. g \in [keep -> 1..n]
  BY <1>7
<1> HIDE DEF g
<1>10. DOMAIN new = 1..n /\ \A j \in 1..n : Body(new[j]) = Body(log[f[j]])
  <2>1. kept = [j \in 1..n |-> log[f[j]]]
    BY <1>3, <1>4
  <2>2. kept \in Seq(Rows)
    BY KeptRowsType
  <2>3. \A j \in 1..n : kept[j] = log[f[j]] /\ kept[j] \in Rows
    <3>1. DOMAIN kept = 1..n
      BY <2>1
    <3>2. QED
      BY <2>1, <2>2, <3>1, RowTimes
  <2> DEFINE covers(i) == [j \in 1..i |-> Body(kept[j])]
  <2>4. new = [j \in 1..n |-> [kept[j] EXCEPT !.prev = covers(j - 1), !.hash = covers(j)]]
    BY <2>1 DEF Rechained
  <2> HIDE DEF covers, new
  <2>5. \A j \in 1..n : Body(new[j]) = Body(kept[j])
    BY <2>3, <2>4 DEF Rows, Body
  <2>6. QED
    BY <2>3, <2>4, <2>5
<1> HIDE DEF new
<1>11. \A i \in keep : Body(new[g[i]]) = Body(log[i])
  BY <1>7, <1>10
<1>12. \A i, j \in keep : i < j => g[i] < g[j]
  BY <1>5, <1>7
<1>13. ASSUME NEW i \in keep, NEW p \in 1..g[i]
       PROVE  \E j \in keep : g[j] = p
  <2>1. p \in 1..n
    BY <1>2, <1>7
  <2>2. f[p] \in keep /\ g[f[p]] = p
    BY <1>4, <1>5, <1>7, <2>1
  <2>3. QED
    BY <2>2
<1>14. Placed(log, new, cutoff, g)
  BY <1>9, <1>10, <1>11, <1>12, <1>13 DEF Placed, keep
<1>15. cutoff \in 0..MaxTime
  BY TimeAssumption DEF Times
<1>16. QED
  BY <1>14, <1>15, KeepsPlaced DEF Extends, new

-------------------------------------------------------------------------------
(* The log of the open store always extends the one in the file, saved or not,  *)
(* so whatever is saved next does too.                                          *)

HistoryInv ==
  \A s \in Stores : key[s] = "live" => Extends(file.audit, doc[s].audit)

HistoryStep == file # NoFile => Extends(file.audit, file'.audit)

\* The store is left with the document d, saved or not, and no row of its log is lost
\* but to a cutoff.
Leaves(s, d) ==
  /\ d \in Docs
  /\ Extends(doc[s].audit, d.audit)
  /\ doc' = [doc EXCEPT ![s] = d]
  /\ key' = key
  /\ file' = file \/ (key[s] = "live" /\ file' = d)

LEMMA CallExtends ==
  ASSUME SoundInv, NEW s \in Stores, StoreCall(s)
  PROVE  \E d : Leaves(s, d)
<1>1. doc \in [Stores -> Docs] /\ doc[s] \in Docs /\ doc[s].audit \in Seq(Rows)
  BY DEF SoundInv, StoreTypeOK, Docs
<1>2. Extends(doc[s].audit, doc[s].audit)
  BY <1>1, ExtendsItself
<1>3. ASSUME NEW n \in Names, NEW v \in Creds, NEW ok \in BOOLEAN, Put(s, n, v, ok)
      PROVE  \E d : Leaves(s, d)
  <2> DEFINE d == [doc[s] EXCEPT !.creds[n] = v]
  <2>1. d \in Docs /\ d.audit = doc[s].audit
    BY <1>1 DEF Docs
  <2>2. /\ doc' = [doc EXCEPT ![s] = d] /\ key' = key
        /\ file' = file \/ (key[s] = "live" /\ file' = d)
    BY <1>3 DEF Put, Save
  <2> HIDE DEF d
  <2>3. QED
    BY <1>2, <2>1, <2>2 DEF Leaves
<1>4. ASSUME NEW n \in Names, NEW ok \in BOOLEAN, Delete(s, n, ok)
      PROVE  \E d : Leaves(s, d)
  <2> DEFINE d == [doc[s] EXCEPT !.creds[n] = NoCred]
  <2>1. d \in Docs /\ d.audit = doc[s].audit
    BY <1>1 DEF Docs
  <2>2. /\ doc' = [doc EXCEPT ![s] = d] /\ key' = key
        /\ file' = file \/ (key[s] = "live" /\ file' = d)
    BY <1>4 DEF Delete, Save
  <2> HIDE DEF d
  <2>3. QED
    BY <1>2, <2>1, <2>2 DEF Leaves
<1>5. ASSUME NEW n \in Names, NEW on \in BOOLEAN, Enable(s, n, on)
      PROVE  Leaves(s, doc[s])
  BY <1>1, <1>2, <1>5 DEF Enable, Leaves
<1>6. ASSUME NEW log \in Seq(Rows), Extends(doc[s].audit, log), NEW ok \in BOOLEAN,
             NEW d, d = [doc[s] EXCEPT !.audit = log], doc' = [doc EXCEPT ![s] = d],
             Save(s, d, ok)
      PROVE  /\ d \in Docs /\ Extends(doc[s].audit, d.audit)
             /\ file' = file \/ (key[s] = "live" /\ file' = d)
  <2>1. d \in Docs /\ d.audit = log
    BY <1>1, <1>6 DEF Docs
  <2>2. QED
    BY <1>6, <2>1 DEF Save
<1>7. ASSUME NEW e \in AuditInput, NEW ok \in BOOLEAN, AppendAudit(s, e, ok)
      PROVE  \E d : Leaves(s, d)
  <2>1. /\ Chained(doc[s].audit, e) \in Seq(Rows)
        /\ Extends(doc[s].audit, Chained(doc[s].audit, e))
    BY <1>1, ChainedType, AppendingExtends
  <2>2. QED
    BY <1>6, <1>7, <2>1 DEF AppendAudit, Leaves
<1>8. ASSUME NEW cutoff \in Times, NEW ok \in BOOLEAN, ClearAuditBefore(s, cutoff, ok)
      PROVE  \E d : Leaves(s, d)
  <2>1. PICK kept \in KeptRows(doc[s].audit, cutoff) :
          LET d == [doc[s] EXCEPT !.audit = Rechained(kept)] IN
          doc' = [doc EXCEPT ![s] = d] /\ Save(s, d, ok)
    BY <1>8 DEF ClearAuditBefore
  <2>2. Rechained(kept) \in Seq(Rows) /\ Extends(doc[s].audit, Rechained(kept))
    BY <1>1, KeptRowsType, RechainedType, ClearingExtends
  <2>3. QED
    BY <1>6, <1>8, <2>1, <2>2 DEF ClearAuditBefore, Leaves
<1>9. QED
  BY <1>3, <1>4, <1>5, <1>7, <1>8 DEF StoreCall

LEMMA HistoryStepPreserves ==
  ASSUME StoreInv, HistoryInv, [StoreNext]_storeVars
  PROVE  HistoryInv' /\ HistoryStep
<1>1. /\ SoundInv /\ OneLive /\ FileFirst
      /\ doc \in [Stores -> Docs] /\ key \in [Stores -> {"absent", "live", "nil"}]
      /\ \A d \in Docs : d.audit \in Seq(Rows)
      /\ file # NoFile => file \in Docs
      /\ EmptyDoc \in Docs
  BY EmptyDocType DEF StoreInv, SoundInv, StoreTypeOK, Docs
<1>2. /\ \A d \in Docs : Extends(d.audit, d.audit)
      /\ \A a, b, d \in Docs :
           Extends(a.audit, b.audit) /\ Extends(b.audit, d.audit) => Extends(a.audit, d.audit)
  BY <1>1, ExtendsItself, ExtendsTwice
<1>3. CASE UNCHANGED storeVars
  BY <1>1, <1>2, <1>3 DEF storeVars, HistoryInv, HistoryStep
<1>4. CASE Crash
  BY <1>1, <1>2, <1>4 DEF Crash, HistoryInv, HistoryStep
<1>5. ASSUME NEW s \in Stores, Exclusive, Create(s) \/ Open(s)
      PROVE  HistoryInv' /\ HistoryStep
  BY <1>1, <1>2, <1>5 DEF Create, Open, Exclusive, HistoryInv, HistoryStep
<1>6. ASSUME NEW s \in Stores, NEW ok \in BOOLEAN, Close(s, ok)
      PROVE  HistoryInv' /\ HistoryStep
  BY <1>1, <1>2, <1>6 DEF Close, Save, Wiped, OneLive, HistoryInv, HistoryStep
<1>7. ASSUME NEW s \in Stores, StoreCall(s)
      PROVE  HistoryInv' /\ HistoryStep
  <2>1. PICK d : Leaves(s, d)
    BY <1>1, <1>7, CallExtends
  <2> USE DEF Leaves
  <2>2. key[s] = "live" => /\ file \in Docs
                           /\ Extends(file.audit, doc[s].audit)
                           /\ Extends(file.audit, d.audit)
    <3>1. key[s] = "live" => file \in Docs /\ Extends(file.audit, doc[s].audit)
      BY <1>1 DEF FileFirst, HistoryInv
    <3>2. QED
      BY <1>1, <1>2, <2>1, <3>1
  <2>3. HistoryStep
    BY <1>1, <1>2, <2>1, <2>2 DEF HistoryStep
  <2>4. ASSUME NEW t \in Stores, key'[t] = "live"
        PROVE  Extends(file.audit, doc[t].audit)'
    <3>1. CASE t = s
      BY <1>1, <1>2, <2>1, <2>2, <2>4, <3>1
    <3>2. CASE t # s
      <4>1. key[s] # "live" /\ file' = file /\ doc'[t] = doc[t] /\ key[t] = "live"
        BY <1>1, <2>1, <2>4, <3>2 DEF OneLive
      <4>2. QED
        BY <4>1 DEF HistoryInv
    <3>3. QED
      BY <3>1, <3>2
  <2>5. QED
    BY <2>3, <2>4 DEF HistoryInv
<1>8. QED
  BY <1>3, <1>4, <1>5, <1>6, <1>7 DEF StoreNext

\* For logs of any length, whatever saves fail and clears come in between, a save
\* drops only rows from before some cutoff and adds behind the others
\* (store.go:259-316).
THEOREM HistoryIsKept == StoreSpec => HistoryKept
<1>1. StoreInit => HistoryInv
  BY DEF StoreInit, HistoryInv
<1>2. StoreInv /\ HistoryInv /\ [StoreNext]_storeVars => HistoryInv'
  BY HistoryStepPreserves
<1>3. StoreSpec => []HistoryInv
  BY <1>1, <1>2, StoreInvariant, PTL DEF StoreSpec
<1>4. StoreInv /\ HistoryInv /\ [StoreNext]_storeVars
        => [file # NoFile => Extends(file.audit, file'.audit)]_storeVars
  BY HistoryStepPreserves DEF HistoryStep
<1>5. QED
  BY <1>3, <1>4, StoreInvariant, PTL DEF StoreSpec, HistoryKept
===============================================================================
