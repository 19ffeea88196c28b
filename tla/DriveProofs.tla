------------------------------- MODULE DriveProofs ------------------------------
(* A save is atomic, a file opens again and one process at a time loses nothing, *)
(* for any number of processes, passwords, keys and documents.                   *)
EXTENDS Drive, TLAPS

\* The key of a keyring or a file is the one its header wraps, or the suite's.
KeyFits(x) == IF x.header = NoHeader THEN x.key \in Deks ELSE x.key = x.header.key
SameKeys(x, y) == x.header = y.header /\ x.key = y.key

OpenStages == {"open", "serving", "closing"}

\* Nothing is ever sealed under a key but the ring's, and the ring's fits.
Keyed ==
  /\ \A p \in Processes :
       /\ stage[p] = "opening" => entry # NoFile
       /\ stage[p] \in OpenStages \/ job[p] # NoJob => ring[p] # NoRing
       /\ ring[p] # NoRing => ring[p].slice = "own" /\ KeyFits(ring[p])
       /\ job[p] # NoJob => SameKeys(job[p].bytes, ring[p])
       /\ job[p] # NoJob /\ job[p].step = "synced" => job[p].state = "synced"
  /\ entry # NoFile => entry.state = "synced" /\ entry.bytes # Torn /\ KeyFits(entry.bytes)
  /\ kept # NoFile => kept.state = "synced" /\ kept.bytes # Torn /\ KeyFits(kept.bytes)

\* What a process has in RAM and on its way to the drive.
Held ==
  \A p \in Processes :
    /\ ~Running(p) => ring[p] = NoRing /\ job[p] = NoJob
    /\ stage[p] \in {"off", "opening", "creating"} => doc[p] = 0
    /\ job[p] # NoJob =>
         job[p].bytes.doc = doc[p] /\ stage[p] \in {"creating", "serving", "closing"}

\* One process at a time agrees with the drive, and the drive with its medium.
Alone ==
  /\ entry = NoFile => kept = NoFile
  /\ company = "alone" =>
       /\ \A p, q \in Processes : Running(p) /\ Running(q) => p = q
       /\ \A p \in Processes : ring[p] # NoRing /\ entry # NoFile => SameKeys(ring[p], entry.bytes)
       /\ kept # NoFile => SameKeys(kept.bytes, entry.bytes)
       /\ acked # Unsure =>
            /\ entry # NoFile
            /\ entry.bytes.doc = acked
            /\ \A p \in Processes : stage[p] \in OpenStages => doc[p] = acked

DriveInv == DriveTypeOK /\ Keyed /\ Held /\ Alone

LEMMA DriveInitEstablishes == DriveInit => DriveInv
  BY DriveAssumption, TornAssumption, FileAssumption
  DEF DriveInit, DriveInv, DriveTypeOK, Keyed, Held, Alone, Running, Docs, OpenStages

LEMMA DocsExtend == 0 \in Docs /\ \A d \in Docs : d < MaxDoc => d + 1 \in Docs
  BY DriveAssumption DEF Docs

\* A save that begins seals the document under the ring's own key and header.
LEMMA BegunJob ==
  ASSUME NEW p \in Processes, NEW x \in Rings, KeyFits(x), NEW d \in Docs,
         Begin(p, x.header, x.key, d)
  PROVE  \E j \in Jobs :
           /\ job' = [job EXCEPT ![p] = j]
           /\ j.step = "begun"
           /\ SameKeys(j.bytes, x)
           /\ j.bytes.doc = d
<1>1. PICK nonce \in Nonces :
        job' = [job EXCEPT ![p] = [step |-> "begun", state |-> "cached",
                                   bytes |-> SealedFile(x.header, x.key, nonce, d)]]
  BY DEF Begin
<1>2. SealedFile(x.header, x.key, nonce, d) \in SealedFiles
  BY SealingAssumption DEF Rings, Headers, Keys, KeyFits, SealedFile, SealedFiles
<1> DEFINE j == [step |-> "begun", state |-> "cached",
                 bytes |-> SealedFile(x.header, x.key, nonce, d)]
<1>3. j \in Jobs /\ j.step = "begun" /\ SameKeys(j.bytes, x) /\ j.bytes.doc = d
  BY <1>2 DEF Jobs, SameKeys, SealedFile
<1>4. job' = [job EXCEPT ![p] = j]
  BY <1>1
<1>5. QED
  BY <1>3, <1>4

LEMMA OpenedFits ==
  ASSUME NEW f \in SealedFiles, NEW s, Opens(s, f), KeyFits(f)
  PROVE  /\ OpenedRing(s, f) \in Rings
         /\ OpenedRing(s, f).slice = "own"
         /\ KeyFits(OpenedRing(s, f))
         /\ SameKeys(OpenedRing(s, f), f)
  BY SealingAssumption DEF Opens, OpensWithPassword, OpensWithDEK, HasMagic, OpenedRing, FromDEK,
       Rings, Headers, Keys, KeyFits, SameKeys, SealedFiles

LEMMA NewFits ==
  /\ \A w \in Passwords, k \in Randoms :
       NewRing(w, k) \in Rings /\ NewRing(w, k).slice = "own" /\ KeyFits(NewRing(w, k))
  /\ \A dek \in Deks :
       FromDEK(dek) \in Rings /\ FromDEK(dek).slice = "own" /\ KeyFits(FromDEK(dek))
  BY SealingAssumption DEF NewRing, FromDEK, Rings, Headers, Keys, KeyFits

\* Processes that end, for whatever reason, leave the rest as it was.
LEMMA OffPreserves ==
  ASSUME DriveInv, NEW ps \in SUBSET Processes, Off(ps),
         UNCHANGED <<entry, kept, newest, drawn, acked, company>>
  PROVE  DriveInv'
<1> USE DEF DriveInv, Off
<1>1. DriveTypeOK'
  BY DocsExtend DEF DriveTypeOK
<1>2. Keyed'
  BY DEF DriveTypeOK, Keyed, OpenStages
<1>3. Held'
  BY DEF DriveTypeOK, Held, Running
<1>4. Alone'
  BY DEF DriveTypeOK, Alone, Running, OpenStages
<1>5. QED
  BY <1>1, <1>2, <1>3, <1>4

\* A store that is open begins a save of what it has in RAM.
LEMMA SaveBegins ==
  ASSUME DriveInv, NEW p \in Processes, ring[p] # NoRing, NEW d \in Docs,
         Begin(p, ring[p].header, KeyOf(p), d)
  PROVE  \E j \in Jobs :
           /\ job' = [job EXCEPT ![p] = j]
           /\ j.step = "begun"
           /\ SameKeys(j.bytes, ring[p])
           /\ j.bytes.doc = d
<1>1. ring[p] \in Rings /\ KeyFits(ring[p]) /\ KeyOf(p) = ring[p].key
  BY DEF DriveInv, DriveTypeOK, Keyed, KeyOf
<1>2. QED
  BY <1>1, BegunJob

\* A file that is made anew is held by one process, which knows its key.
LEMMA CreatePreserves ==
  ASSUME DriveInv, NEW p \in Processes, NEW r \in Rings, r.slice = "own", KeyFits(r),
         CreateAnew(p, r), drawn' \subseteq Randoms
  PROVE  DriveInv'
<1> USE DriveAssumption, FileAssumption DEF DriveInv, Running, OpenStages, medium, SameKeys
<1>1. PICK j \in Jobs :
        /\ job' = [job EXCEPT ![p] = j]
        /\ j.step = "begun"
        /\ SameKeys(j.bytes, r)
        /\ j.bytes.doc = 0
  BY BegunJob, DocsExtend DEF CreateAnew
<1>2. DriveTypeOK'
  BY <1>1 DEF CreateAnew, DriveTypeOK
<1>3. Keyed'
  BY <1>1 DEF CreateAnew, DriveTypeOK, Keyed
<1>4. doc[p] = 0
  BY DEF CreateAnew, Held
<1>5. Held'
  BY <1>1, <1>4 DEF CreateAnew, DriveTypeOK, Held
<1>6. Alone'
  BY <1>1 DEF CreateAnew, DriveTypeOK, Alone
<1>7. QED
  BY <1>2, <1>3, <1>5, <1>6

LEMMA DriveStepPreserves == DriveInv /\ [DriveNext]_driveVars => DriveInv'
<1> SUFFICES ASSUME DriveInv, [DriveNext]_driveVars
             PROVE  DriveInv'
  OBVIOUS
<1> USE DriveAssumption, FileAssumption DEF DriveInv, Running, OpenStages, medium, SameKeys
<1>1. ASSUME NEW p \in Processes, NEW s \in Sources, Start(p, s)
      PROVE  DriveInv'
  <2>1. DriveTypeOK'
    BY <1>1 DEF Start, DriveTypeOK
  <2>2. Keyed'
    BY <1>1 DEF Start, DriveTypeOK, Keyed
  <2>3. Held'
    BY <1>1 DEF Start, DriveTypeOK, Held
  <2>4. Alone'
    BY <1>1 DEF Start, DriveTypeOK, Alone
  <2>5. QED
    BY <2>1, <2>2, <2>3, <2>4
<1>2. ASSUME NEW p \in Processes, OpenFile(p)
      PROVE  DriveInv'
  <2>1. CASE Off({p})
    BY <1>2, <2>1, OffPreserves DEF OpenFile
  <2>2. ASSUME ~Off({p})
        PROVE  DriveInv'
    <3>1. PICK x : x = OpenedRing(source[p], entry.bytes)
      OBVIOUS
    <3>2. /\ entry \in Files
          /\ Opens(source[p], entry.bytes)
          /\ entry.bytes \in SealedFiles
          /\ stage[p] = "opening"
          /\ stage' = [stage EXCEPT ![p] = "open"]
          /\ doc' = [doc EXCEPT ![p] = entry.bytes.doc]
          /\ ring' = [ring EXCEPT ![p] = x]
          /\ UNCHANGED <<entry, kept, source, wiped, job, newest, drawn, acked, company>>
      BY <1>2, <2>2, <3>1 DEF OpenFile, Keyed, DriveTypeOK, Files
    <3>3. x \in Rings /\ x.slice = "own" /\ KeyFits(x) /\ SameKeys(x, entry.bytes)
      BY <3>1, <3>2, OpenedFits DEF Keyed
    <3>4. entry.bytes.doc \in Docs
      BY <3>2 DEF SealedFiles
    <3>5. DriveTypeOK'
      BY <3>2, <3>3, <3>4 DEF DriveTypeOK
    <3>6. Keyed'
      BY <3>2, <3>3 DEF DriveTypeOK, Keyed, Held
    <3>7. Held'
      BY <3>2, <3>3 DEF DriveTypeOK, Held
    <3>8. Alone'
      BY <3>2, <3>3 DEF DriveTypeOK, Alone
    <3>9. QED
      BY <3>5, <3>6, <3>7, <3>8
  <2>3. QED
    BY <2>1, <2>2
<1>3. ASSUME NEW p \in Processes, CreateStandalone(p)
      PROVE  DriveInv'
  BY <1>3, CreatePreserves, NewFits DEF CreateStandalone, DriveTypeOK
<1>4. ASSUME NEW p \in Processes, CreateWithDEK(p)
      PROVE  DriveInv'
  BY <1>4, CreatePreserves, NewFits DEF CreateWithDEK, DriveTypeOK
<1>5. ASSUME NEW p \in Processes, AlreadyExists(p)
      PROVE  DriveInv'
  BY <1>5, OffPreserves DEF AlreadyExists
<1>6. ASSUME NEW p \in Processes, WipeSlice(p)
      PROVE  DriveInv'
  <2>1. DriveTypeOK'
    BY <1>6 DEF WipeSlice, DriveTypeOK
  <2>2. Keyed'
    BY <1>6 DEF WipeSlice, DriveTypeOK, Keyed
  <2>3. Held'
    BY <1>6 DEF WipeSlice, DriveTypeOK, Held
  <2>4. Alone'
    BY <1>6 DEF WipeSlice, DriveTypeOK, Alone
  <2>5. QED
    BY <2>1, <2>2, <2>3, <2>4
<1>7. ASSUME NEW p \in Processes, Listen(p), UNCHANGED job, stage' = [stage EXCEPT ![p] = "serving"]
      PROVE  DriveInv'
  <2>1. DriveTypeOK'
    BY <1>7 DEF Listen, DriveTypeOK
  <2>2. Keyed'
    BY <1>7 DEF Listen, DriveTypeOK, Keyed
  <2>3. Held'
    BY <1>7 DEF Listen, DriveTypeOK, Held
  <2>4. Alone'
    BY <1>7 DEF Listen, DriveTypeOK, Alone
  <2>5. QED
    BY <2>1, <2>2, <2>3, <2>4
<1>8. ASSUME NEW p \in Processes, Listen(p), BeginSave(p), stage' = [stage EXCEPT ![p] = "closing"]
      PROVE  DriveInv'
  <2>0. PICK j \in Jobs :
          /\ job' = [job EXCEPT ![p] = j]
          /\ j.step = "begun"
          /\ SameKeys(j.bytes, ring[p])
          /\ j.bytes.doc = doc[p]
    BY <1>8, SaveBegins DEF Listen, BeginSave, DriveTypeOK, Keyed
  <2>1. DriveTypeOK'
    BY <1>8, <2>0 DEF Listen, DriveTypeOK
  <2>2. Keyed'
    BY <1>8, <2>0 DEF Listen, DriveTypeOK, Keyed
  <2>3. Held'
    BY <1>8, <2>0 DEF Listen, DriveTypeOK, Held
  <2>4. Alone'
    BY <1>8, <2>0 DEF Listen, DriveTypeOK, Alone
  <2>5. QED
    BY <2>1, <2>2, <2>3, <2>4
<1>9. ASSUME NEW p \in Processes, Change(p)
      PROVE  DriveInv'
  <2>0. PICK j \in Jobs :
          /\ job' = [job EXCEPT ![p] = j]
          /\ j.step = "begun"
          /\ SameKeys(j.bytes, ring[p])
          /\ j.bytes.doc = newest + 1
    BY <1>9, SaveBegins, DocsExtend DEF Change, DriveTypeOK, Keyed
  <2>1. DriveTypeOK'
    BY <1>9, <2>0, DocsExtend DEF Change, DriveTypeOK
  <2>2. Keyed'
    BY <1>9, <2>0 DEF Change, DriveTypeOK, Keyed
  <2>3. Held'
    BY <1>9, <2>0 DEF Change, DriveTypeOK, Held
  <2>4. Alone'
    BY <1>9, <2>0 DEF Change, DriveTypeOK, Alone
  <2>5. QED
    BY <2>1, <2>2, <2>3, <2>4
<1>10. ASSUME NEW p \in Processes, Close(p)
      PROVE  DriveInv'
  <2>0. PICK j \in Jobs :
          /\ job' = [job EXCEPT ![p] = j]
          /\ j.step = "begun"
          /\ SameKeys(j.bytes, ring[p])
          /\ j.bytes.doc = doc[p]
    BY <1>10, SaveBegins DEF Close, BeginSave, DriveTypeOK, Keyed
  <2>1. DriveTypeOK'
    BY <1>10, <2>0 DEF Close, DriveTypeOK
  <2>2. Keyed'
    BY <1>10, <2>0 DEF Close, DriveTypeOK, Keyed
  <2>3. Held'
    BY <1>10, <2>0 DEF Close, DriveTypeOK, Held
  <2>4. Alone'
    BY <1>10, <2>0 DEF Close, DriveTypeOK, Alone
  <2>5. QED
    BY <2>1, <2>2, <2>3, <2>4
<1>11. ASSUME NEW p \in Processes, Write(p)
      PROVE  DriveInv'
  <2>1. DriveTypeOK'
    BY <1>11 DEF Write, DriveTypeOK, Jobs
  <2>2. Keyed'
    BY <1>11 DEF Write, DriveTypeOK, Keyed
  <2>3. Held'
    BY <1>11 DEF Write, DriveTypeOK, Held
  <2>4. Alone'
    BY <1>11 DEF Write, DriveTypeOK, Alone
  <2>5. QED
    BY <2>1, <2>2, <2>3, <2>4
<1>12. ASSUME NEW p \in Processes, Sync(p)
      PROVE  DriveInv'
  <2>1. DriveTypeOK'
    BY <1>12 DEF Sync, Flushed, DriveTypeOK, Jobs
  <2>2. Keyed'
    BY <1>12 DEF Sync, Flushed, DriveTypeOK, Keyed
  <2>3. Held'
    BY <1>12 DEF Sync, Flushed, DriveTypeOK, Held
  <2>4. Alone'
    BY <1>12 DEF Sync, Flushed, DriveTypeOK, Alone
  <2>5. QED
    BY <2>1, <2>2, <2>3, <2>4
<1>13. ASSUME NEW p \in Processes, Rename(p)
      PROVE  DriveInv'
  <2>1. /\ job[p] \in Jobs
        /\ entry' \in Files
        /\ entry' # NoFile
        /\ entry'.state = "synced"
        /\ entry'.bytes = job[p].bytes
        /\ entry'.bytes # Torn
        /\ UNCHANGED <<kept, newest, drawn, company>>
    BY <1>13, TornAssumption DEF Rename, DriveTypeOK, Keyed, Jobs, Files
  <2>2. ring[p] # NoRing /\ KeyFits(ring[p]) /\ KeyFits(entry'.bytes) /\ SameKeys(entry'.bytes, ring[p])
    BY <1>13, <2>1 DEF Rename, Keyed, KeyFits
  <2>3. stage[p] \in {"creating", "serving", "closing"} /\ entry'.bytes.doc = doc[p]
    BY <1>13, <2>1 DEF Rename, Held
  <2>4. CASE Off({p}) /\ stage[p] = "closing" /\ acked' = acked
    <3>1. DriveTypeOK'
      BY <2>1, <2>4, DocsExtend DEF DriveTypeOK, Off
    <3>2. Keyed'
      BY <2>1, <2>2, <2>4 DEF DriveTypeOK, Keyed, Off
    <3>3. Held'
      BY <2>4 DEF DriveTypeOK, Held, Off
    <3>4. Alone'
      BY <2>1, <2>2, <2>3, <2>4 DEF DriveTypeOK, Alone, Held, Off
    <3>5. QED
      BY <3>1, <3>2, <3>3, <3>4
  <2>5. CASE /\ stage' = [stage EXCEPT ![p] = IF @ = "creating" THEN "open" ELSE @]
             /\ job' = [job EXCEPT ![p] = NoJob]
             /\ UNCHANGED <<source, wiped, doc, ring>>
             /\ acked' = doc[p]
    <3>1. DriveTypeOK'
      BY <2>1, <2>5 DEF DriveTypeOK
    <3>2. Keyed'
      BY <2>1, <2>2, <2>5 DEF DriveTypeOK, Keyed
    <3>3. Held'
      BY <2>2, <2>3, <2>5 DEF DriveTypeOK, Held
    <3>4. Alone'
      BY <2>1, <2>2, <2>3, <2>5 DEF DriveTypeOK, Alone, Held
    <3>5. QED
      BY <3>1, <3>2, <3>3, <3>4
  <2>6. QED
    BY <1>13, <2>3, <2>4, <2>5 DEF Rename, Return, AckOf
<1>14. ASSUME NEW p \in Processes, Fail(p)
      PROVE  DriveInv'
  <2>1. CASE Off({p})
    BY <1>14, <2>1, OffPreserves DEF Fail, Return, AckOf
  <2>2. ASSUME ~Off({p})
        PROVE  DriveInv'
    <3>1. /\ stage[p] \in {"serving"}
          /\ job' = [job EXCEPT ![p] = NoJob]
          /\ UNCHANGED <<entry, kept, stage, source, wiped, doc, ring, newest, drawn, acked, company>>
      BY <1>14, <2>2 DEF Fail, Return, AckOf, Held, DriveTypeOK
    <3>2. QED
      BY <3>1 DEF DriveTypeOK, Keyed, Held, Alone
  <2>3. QED
    BY <2>1, <2>2
<1>15. ASSUME NEW p \in Processes, Crash(p)
      PROVE  DriveInv'
  BY <1>15, OffPreserves DEF Crash
<1>16. ASSUME Writeback
      PROVE  DriveInv'
  <2>1. DriveTypeOK'
    BY <1>16 DEF Writeback, DriveTypeOK
  <2>2. Keyed'
    BY <1>16 DEF Writeback, DriveTypeOK, Keyed
  <2>3. Held'
    BY <1>16 DEF Writeback, DriveTypeOK, Held
  <2>4. Alone'
    BY <1>16 DEF Writeback, DriveTypeOK, Alone
  <2>5. QED
    BY <2>1, <2>2, <2>3, <2>4
<1>17. ASSUME PowerLoss
      PROVE  DriveInv'
  <2>1. DriveTypeOK'
    BY <1>17, DocsExtend DEF PowerLoss, Off, DriveTypeOK, Keyed
  <2>2. Keyed'
    BY <1>17 DEF PowerLoss, Off, DriveTypeOK, Keyed
  <2>3. Held'
    BY <1>17 DEF PowerLoss, Off, DriveTypeOK, Held
  <2>4. Alone'
    BY <1>17 DEF PowerLoss, Off, DriveTypeOK, Alone, Keyed
  <2>5. QED
    BY <2>1, <2>2, <2>3, <2>4
<1>18. ASSUME UNCHANGED driveVars
      PROVE  DriveInv'
  <2>1. DriveTypeOK'
    BY <1>18 DEF driveVars, DriveTypeOK
  <2>2. Keyed'
    BY <1>18 DEF driveVars, DriveTypeOK, Keyed
  <2>3. Held'
    BY <1>18 DEF driveVars, DriveTypeOK, Held
  <2>4. Alone'
    BY <1>18 DEF driveVars, DriveTypeOK, Alone
  <2>5. QED
    BY <2>1, <2>2, <2>3, <2>4
<1>19. ASSUME NEW p \in Processes, Listen(p)
      PROVE  DriveInv'
  BY <1>7, <1>8, <1>19 DEF Listen
<1>20. QED
  BY <1>1, <1>2, <1>3, <1>4, <1>5, <1>6, <1>9, <1>10, <1>11, <1>12, <1>13, <1>14, <1>15, <1>16,
     <1>17, <1>18, <1>19 DEF DriveNext

LEMMA DriveInvariant == DriveSpec => []DriveInv
  BY DriveInitEstablishes, DriveStepPreserves, PTL DEF DriveSpec

\* Type correctness of the drive and the processes over it.
THEOREM DriveTypeCorrect == DriveSpec => []DriveTypeOK
<1>1. DriveInv => DriveTypeOK
  BY DEF DriveInv
<1>2. QED
  BY <1>1, DriveInvariant, PTL

\* A body that does not begin like a header is opened by whoever its key fits.
LEMMA FitsOpens ==
  ASSUME "magic" \notin Nonces, NEW f \in SealedFiles, KeyFits(f)
  PROVE  \E s \in Sources : Opens(s, f)
<1>1. CASE f.header = NoHeader
  <2>1. f.key \in Sources /\ f.key \notin Passwords /\ OpensWithDEK(f.key, f)
    BY <1>1, SealingAssumption DEF KeyFits, Sources, OpensWithDEK, HasMagic, SealedFiles
  <2>2. QED
    BY <2>1 DEF Opens
<1>2. CASE f.header # NoHeader
  <2>1. f.header.password \in Passwords /\ OpensWithPassword(f.header.password, f)
    BY <1>2 DEF KeyFits, OpensWithPassword, SealedFiles, Headers
  <2>2. QED
    BY <2>1 DEF Opens, Sources
<1>3. QED
  BY <1>1, <1>2

\* Whatever fails, crashes or loses power, and however many processes race, the file
\* opens, now and after a power loss, as long as no nonce begins like a header
\* (secret.go:124-128, 134-137, 152-167; store.go:141-152, 344-365).
THEOREM FileOpensAgain ==
  ASSUME "magic" \notin Nonces
  PROVE  DriveSpec => []OpensAgain
<1>1. DriveInv => OpensAgain
  <2>1. DriveInv => \A f \in {entry, kept} \ {NoFile} :
                      f.bytes # Torn /\ f.bytes \in SealedFiles /\ KeyFits(f.bytes)
    BY DEF DriveInv, DriveTypeOK, Keyed, Files
  <2>2. QED
    BY <2>1, FitsOpens DEF OpensAgain
<1>2. QED
  BY <1>1, DriveInvariant, PTL

\* One process after the other finds what was acknowledged, for any number of launches
\* and changes (store.go:157-184, 329-365).
THEOREM AcknowledgedIsFound == DriveSpec => []AckedFound
<1>1. DriveInv => AckedFound
  BY DEF DriveInv, Alone, AckedFound
<1>2. QED
  BY <1>1, DriveInvariant, PTL

\* Files with one header and one key open for the same passwords and keys.
LEMMA SameKeysOpen ==
  ASSUME "magic" \notin Nonces, NEW f \in SealedFiles, NEW g \in SealedFiles, SameKeys(f, g),
         NEW s, Opens(s, f)
  PROVE  Opens(s, g)
  BY DEF SameKeys, Opens, OpensWithPassword, OpensWithDEK, HasMagic, SealedFiles

\* No save locks out who could open the file before, while processes run one at a time
\* (secret.go:105, 152-167).
THEOREM KeyholderStays ==
  ASSUME "magic" \notin Nonces
  PROVE  DriveSpec => SameKeyholder
<1> DEFINE Keeps == entry # NoFile /\ entry' # NoFile /\ company = "alone" =>
                      \A s \in Sources : Opens(s, entry.bytes) => Opens(s, entry'.bytes)
<1>1. DriveInv /\ DriveInv' /\ [DriveNext]_driveVars => [Keeps]_driveVars
  <2> SUFFICES ASSUME DriveInv, DriveInv', [DriveNext]_driveVars,
                      entry # NoFile, entry' # NoFile, company = "alone"
               PROVE  \A s \in Sources : Opens(s, entry.bytes) => Opens(s, entry'.bytes)
    OBVIOUS
  <2>1. entry.bytes \in SealedFiles /\ entry'.bytes \in SealedFiles
    BY DEF DriveInv, DriveTypeOK, Keyed, Files
  <2>2. entry' = entry \/ SameKeys(entry.bytes, entry'.bytes)
    <3>1. ASSUME NEW p \in Processes, Rename(p)
          PROVE  SameKeys(entry.bytes, entry'.bytes)
      BY <3>1 DEF Rename, DriveInv, DriveTypeOK, Keyed, Held, Alone, SameKeys
    <3>2. CASE PowerLoss
      BY <3>2 DEF PowerLoss, DriveInv, Keyed, Alone, SameKeys
    <3>3. QED
      BY <3>1, <3>2
      DEF DriveNext, driveVars, medium, Start, OpenFile, CreateStandalone, CreateWithDEK, CreateAnew,
          AlreadyExists, WipeSlice, Listen, Change, Close, Write, Sync, Fail, Crash, Writeback
  <2>3. QED
    BY <2>1, <2>2, SameKeysOpen
<1>2. QED
  BY <1>1, DriveInvariant, DriveStepPreserves, PTL DEF DriveSpec, SameKeyholder

\* Every step of every process is a step of the abstract file or changes nothing of it.
LEMMA DriveStepImplements ==
  DriveInv /\ [DriveNext]_driveVars
    => [Atomic!AtomicNext]_<<Content(entry), Content(kept)>>
<1> SUFFICES ASSUME DriveInv, [DriveNext]_driveVars
             PROVE  [Atomic!AtomicNext]_<<Content(entry), Content(kept)>>
  OBVIOUS
<1>1. ASSUME NEW p \in Processes, Rename(p)
      PROVE  Atomic!Replace(job[p].bytes) /\ job[p].bytes \in SealedFiles
  BY <1>1, FileAssumption
  DEF Rename, DriveInv, DriveTypeOK, Keyed, Jobs, Files, Content, Atomic!Replace
<1>2. ASSUME Writeback
      PROVE  Atomic!Settle
  BY <1>2 DEF Writeback, Content, Atomic!Settle
<1>3. ASSUME PowerLoss
      PROVE  Atomic!LosePower
  BY <1>3 DEF PowerLoss, DriveInv, Keyed, Content, Atomic!LosePower
<1>4. (\E p \in Processes : Rename(p)) \/ Writeback \/ PowerLoss \/ UNCHANGED medium
  BY DEF DriveNext, driveVars, medium, Start, OpenFile, CreateStandalone, CreateWithDEK, CreateAnew,
         AlreadyExists, WipeSlice, Listen, Change, Close, Write, Sync, Fail, Crash
<1>5. QED
  BY <1>1, <1>2, <1>3, <1>4 DEF Atomic!AtomicNext, Content, medium

\* A save is all or nothing, for every reader, error, crash and power loss: the steps of
\* writeFile implement AtomicFile (store.go:341-365).
THEOREM SavesAreAtomic == DriveSpec => ImplementsAtomicFile
<1>1. DriveInit => Atomic!AtomicInit
  BY DEF DriveInit, Atomic!AtomicInit, Content
<1>2. QED
  BY <1>1, DriveStepImplements, DriveInvariant, PTL
  DEF DriveSpec, ImplementsAtomicFile, Atomic!AtomicSpec
===============================================================================
