-------------------------------- MODULE Drive ---------------------------------
(***************************************************************************)
(* Processes over one vault file: how a store is opened, saved and closed  *)
(* (src/internal/vault/store.go), in what order a process does that and    *)
(* listens (src/cmd/vault/main.go, src/component/component.go), and the    *)
(* drive below, where what was not synced may be lost with the power.      *)
(* VaultStore takes a save as one step; here it has all of its own.        *)
(***************************************************************************)
EXTENDS Naturals, Sealing

CONSTANTS
  Processes,
  MaxDoc,   \* bound: documents
  NoFile,   \* the path leads nowhere
  NoSource,
  NoJob,
  NoRing,
  Torn,     \* what is left of a file that was not synced
  Unsure    \* history: the last change has not been acknowledged

ASSUME DriveAssumption ==
  /\ MaxDoc \in Nat
  /\ NoSource \notin Sources
  /\ Unsure \notin Nat
  /\ NoRing \notin Rings

Docs == 0..MaxDoc
SealedFiles == [header : Headers, nonce : Nonces, key : Keys \ {Zeros}, doc : Docs]

ASSUME TornAssumption == Torn \notin SealedFiles

\* A file on the drive: what is read from it, and whether the medium has it.
Files == [bytes : SealedFiles \cup {Torn}, state : {"synced", "cached"}]
Jobs == [step : {"begun", "written", "synced"}, bytes : SealedFiles, state : {"synced", "cached"}]

ASSUME FileAssumption == NoFile \notin Files /\ NoJob \notin Jobs

VARIABLES
  entry,  \* the file the path leads to
  kept,   \* the file the directory on the medium leads to
  stage,  \* stage[p]: how far process p is
  source, \* source[p]: the password or the key p was given
  wiped,  \* the processes whose suite has wiped its own slice of that key
  doc,    \* doc[p]: the document in RAM
  ring,   \* ring[p]: the keyring
  job,    \* job[p]: the save in progress
  newest, \* the number of the newest document
  drawn,  \* the random keys in use
  acked,  \* history: the document of the last acknowledged change
  company \* history: whether two processes have been running at once

driveVars == <<entry, kept, stage, source, wiped, doc, ring, job, newest, drawn, acked, company>>
medium == <<entry, kept>>

DriveTypeOK ==
  /\ entry \in Files \cup {NoFile}
  /\ kept \in Files \cup {NoFile}
  /\ stage \in [Processes -> {"off", "opening", "creating", "open", "serving", "closing"}]
  /\ source \in [Processes -> Sources \cup {NoSource}]
  /\ wiped \subseteq Processes
  /\ doc \in [Processes -> Docs]
  /\ ring \in [Processes -> Rings \cup {NoRing}]
  /\ job \in [Processes -> Jobs \cup {NoJob}]
  /\ newest \in Docs
  /\ drawn \subseteq Randoms
  /\ acked \in Docs \cup {Unsure}
  /\ company \in {"alone", "together"}

DriveInit ==
  /\ entry = NoFile
  /\ kept = NoFile
  /\ stage = [p \in Processes |-> "off"]
  /\ source = [p \in Processes |-> NoSource]
  /\ wiped = {}
  /\ doc = [p \in Processes |-> 0]
  /\ ring = [p \in Processes |-> NoRing]
  /\ job = [p \in Processes |-> NoJob]
  /\ newest = 0
  /\ drawn = {}
  /\ acked = Unsure
  /\ company = "alone"

Running(p) == stage[p] # "off"
KeyOf(p) == IF ring[p].slice = "own" \/ p \notin wiped THEN ring[p].key ELSE Zeros

\* The processes ps have ended.
Off(ps) ==
  /\ stage' = [p \in Processes |-> IF p \in ps THEN "off" ELSE stage[p]]
  /\ source' = [p \in Processes |-> IF p \in ps THEN NoSource ELSE source[p]]
  /\ wiped' = wiped \ ps
  /\ doc' = [p \in Processes |-> IF p \in ps THEN 0 ELSE doc[p]]
  /\ ring' = [p \in Processes |-> IF p \in ps THEN NoRing ELSE ring[p]]
  /\ job' = [p \in Processes |-> IF p \in ps THEN NoJob ELSE job[p]]

-------------------------------------------------------------------------------
(* Opening. *)

\* runServe and Component.Unlock look whether there is a file ...
Start(p, s) ==
  /\ ~Running(p)
  /\ source' = [source EXCEPT ![p] = s]
  /\ stage' = [stage EXCEPT ![p] = IF entry = NoFile THEN "creating" ELSE "opening"]
  /\ company' = IF \E q \in Processes \ {p} : Running(q) THEN "together" ELSE company
  /\ UNCHANGED <<medium, wiped, doc, ring, job, newest, drawn, acked>>

\* ... and read it: a file that does not open ends the launch.
OpenFile(p) ==
  LET opens == entry.bytes # Torn /\ Opens(source[p], entry.bytes) IN
  /\ stage[p] = "opening"
  /\ \/ /\ ~opens
        /\ Off({p})
     \/ /\ opens
        /\ stage' = [stage EXCEPT ![p] = "open"]
        /\ doc' = [doc EXCEPT ![p] = entry.bytes.doc]
        /\ ring' = [ring EXCEPT ![p] = OpenedRing(source[p], entry.bytes)]
        /\ UNCHANGED <<source, wiped, job>>
  /\ UNCHANGED <<medium, newest, drawn, acked, company>>

\* A save of document d under key and header, up to the sealed bytes.
Begin(p, header, key, d) ==
  \E nonce \in Nonces :
    job' = [job EXCEPT ![p] = [step |-> "begun", bytes |-> SealedFile(header, key, nonce, d),
                               state |-> "cached"]]

\* The save of the document p has.
BeginSave(p) == Begin(p, ring[p].header, KeyOf(p), doc[p])

\* ... or, after looking again, make one: Create and CreateWithDEK.
CreateAnew(p, r) ==
  /\ stage[p] = "creating"
  /\ job[p] = NoJob
  /\ entry = NoFile
  /\ ring' = [ring EXCEPT ![p] = r]
  /\ Begin(p, r.header, r.key, 0)
  /\ acked' = Unsure
  /\ UNCHANGED <<medium, stage, source, wiped, doc, newest, company>>

CreateStandalone(p) ==
  /\ source[p] \in Passwords
  /\ \E k \in Randoms \ drawn : CreateAnew(p, NewRing(source[p], k)) /\ drawn' = drawn \cup {k}

CreateWithDEK(p) ==
  /\ source[p] \in Deks
  /\ CreateAnew(p, FromDEK(source[p]))
  /\ UNCHANGED drawn

AlreadyExists(p) ==
  /\ stage[p] = "creating"
  /\ job[p] = NoJob
  /\ entry # NoFile
  /\ Off({p})
  /\ UNCHANGED <<medium, newest, drawn, acked, company>>

\* The suite wipes its slice once Unlock has returned; the slice is its own.
WipeSlice(p) ==
  /\ source[p] \in Deks
  /\ stage[p] \in {"open", "serving"}
  /\ p \notin wiped
  /\ wiped' = wiped \cup {p}
  /\ UNCHANGED <<medium, stage, source, doc, ring, job, newest, drawn, acked, company>>

\* Only then a headless process listens.  With the port taken it closes the store,
\* which saves it, and ends.
Listen(p) ==
  LET taken == source[p] \in Passwords /\ \E q \in Processes \ {p} :
                 stage[q] = "serving" /\ source[q] \in Passwords
  IN
  /\ stage[p] = "open"
  /\ stage' = [stage EXCEPT ![p] = IF taken THEN "closing" ELSE "serving"]
  /\ IF taken THEN BeginSave(p) ELSE UNCHANGED job
  /\ UNCHANGED <<medium, source, wiped, doc, ring, newest, drawn, acked, company>>

\* A change, by Put, Delete, AppendAudit or ClearAuditBefore, up to the sealed bytes.
Change(p) ==
  /\ stage[p] = "serving"
  /\ job[p] = NoJob
  /\ newest < MaxDoc
  /\ newest' = newest + 1
  /\ doc' = [doc EXCEPT ![p] = newest + 1]
  /\ Begin(p, ring[p].header, KeyOf(p), newest + 1)
  /\ acked' = Unsure
  /\ UNCHANGED <<medium, stage, source, wiped, ring, drawn, company>>

\* Close: the save, then, whatever becomes of it, the key is wiped.
Close(p) ==
  /\ stage[p] = "serving"
  /\ job[p] = NoJob
  /\ stage' = [stage EXCEPT ![p] = "closing"]
  /\ BeginSave(p)
  /\ UNCHANGED <<medium, source, wiped, doc, ring, newest, drawn, acked, company>>

-------------------------------------------------------------------------------
(* writeFile, under the store's mutex. *)

\* The temporary file, created and written.
Write(p) ==
  /\ job[p] # NoJob
  /\ job[p].step = "begun"
  /\ job' = [job EXCEPT ![p].step = "written"]
  /\ UNCHANGED <<medium, stage, source, wiped, doc, ring, newest, drawn, acked, company>>

\* Faulty variant of Flushed: the file is closed without it.
FlushedNot == "cached"

Flushed == "synced"

\* Sync and Close.
Sync(p) ==
  /\ job[p] # NoJob
  /\ job[p].step = "written"
  /\ job' = [job EXCEPT ![p].step = "synced", ![p].state = Flushed]
  /\ UNCHANGED <<medium, stage, source, wiped, doc, ring, newest, drawn, acked, company>>

\* Faulty variant of AckOf: an error of the save is dropped.
AckOfAny(p, ok) == IF stage[p] = "serving" \/ ok THEN doc[p] ELSE acked

\* What the history learns when a save returns.  Close acknowledges nothing new.
AckOf(p, ok) == IF stage[p] \in {"creating", "serving"} /\ ok THEN doc[p] ELSE acked

\* The save has returned.
Return(p, ok) ==
  /\ acked' = AckOf(p, ok)
  /\ IF stage[p] = "closing" \/ (stage[p] = "creating" /\ ~ok) THEN Off({p})
     ELSE /\ stage' = [stage EXCEPT ![p] = IF @ = "creating" THEN "open" ELSE @]
          /\ job' = [job EXCEPT ![p] = NoJob]
          /\ UNCHANGED <<source, wiped, doc, ring>>

\* The rename; the directory itself is not synced.
Rename(p) ==
  /\ job[p] # NoJob
  /\ job[p].step = "synced"
  /\ entry' = [bytes |-> job[p].bytes, state |-> job[p].state]
  /\ Return(p, TRUE)
  /\ UNCHANGED <<kept, newest, drawn, company>>

\* An error at any step: the temporary file is removed.
Fail(p) ==
  /\ job[p] # NoJob
  /\ Return(p, FALSE)
  /\ UNCHANGED <<medium, newest, drawn, company>>

-------------------------------------------------------------------------------
(* The world. *)

Crash(p) ==
  /\ Running(p)
  /\ Off({p})
  /\ UNCHANGED <<medium, newest, drawn, acked, company>>

\* The file system writes its directory when it sees fit.
Writeback ==
  /\ kept # entry
  /\ kept' = entry
  /\ UNCHANGED <<entry, stage, source, wiped, doc, ring, job, newest, drawn, acked, company>>

\* The stick is pulled, or the power fails: what was not synced may be torn.
PowerLoss ==
  /\ entry' = IF kept = NoFile \/ kept.state = "synced" THEN kept ELSE [kept EXCEPT !.bytes = Torn]
  /\ kept' = entry'
  /\ Off(Processes)
  /\ acked' = IF kept = entry THEN acked ELSE Unsure
  /\ UNCHANGED <<newest, drawn, company>>

DriveNext ==
  \/ \E p \in Processes, s \in Sources : Start(p, s)
  \/ \E p \in Processes : OpenFile(p) \/ CreateStandalone(p) \/ CreateWithDEK(p) \/ AlreadyExists(p)
  \/ \E p \in Processes : WipeSlice(p) \/ Listen(p)
  \/ \E p \in Processes : Change(p) \/ Close(p)
  \/ \E p \in Processes : Write(p) \/ Sync(p) \/ Rename(p) \/ Fail(p) \/ Crash(p)
  \/ Writeback
  \/ PowerLoss

DriveSpec == DriveInit /\ [][DriveNext]_driveVars

-------------------------------------------------------------------------------
(* Properties. *)

Content(f) == IF f = NoFile THEN NoFile ELSE f.bytes

\* A save is all or nothing for every reader and over every crash and power loss:
\* the steps of writeFile implement AtomicFile (store.go:341-365).
Atomic == INSTANCE AtomicFile
  WITH Contents <- SealedFiles, Nothing <- NoFile,
       content <- Content(entry), durable <- Content(kept)
ImplementsAtomicFile == Atomic!AtomicSpec

\* The file can be opened again, now and after a power loss: it was sealed under the
\* key its header wraps, or the suite's, and never under a key that someone has wiped
\* meanwhile (secret.go:124-128, 152-167, 184-189; store.go:141-152).
OpensAgain ==
  \A f \in {entry, kept} \ {NoFile} : f.bytes # Torn /\ \E s \in Sources : Opens(s, f.bytes)

\* Who could open the file before a save can open it after: a save changes neither the
\* format nor the password, unless two first launches have raced (secret.go:105, 152-167).
SameKeyholder ==
  [][entry # NoFile /\ entry' # NoFile /\ company = "alone" =>
       \A s \in Sources : Opens(s, entry.bytes) => Opens(s, entry'.bytes)]_driveVars

\* As long as one process runs at a time, what was acknowledged is what the next
\* process finds, across errors and crashes at any point of a save and, once the
\* directory was written, power losses (store.go:157-184, 329-365).
AckedFound == company = "alone" /\ acked # Unsure => entry # NoFile /\ entry.bytes.doc = acked

-------------------------------------------------------------------------------
(* Statements of a document and comments that the code does not meet. *)

\* DESIGN.md:15, "the single-instance lock": a second launch does no harm.
SecondLaunchHarmless == acked # Unsure => entry # NoFile /\ entry.bytes.doc = acked

\* store.go:156-157, "persists immediately": a power loss undoes no acknowledged change.
PowerLossHarmless == [][company = "alone" /\ acked # Unsure => acked' # Unsure \/ newest' > newest]_driveVars
===============================================================================
