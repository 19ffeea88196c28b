------------------------------ MODULE VaultStore ------------------------------
(***************************************************************************)
(* src/internal/vault/store.go.  A Store is the decrypted vault in RAM:    *)
(* the document (credentials and audit log), the key, and the credentials  *)
(* enabled for the session.  Every method holds the store's mutex from its *)
(* first access to its last, so a method is one step.  All stores of a     *)
(* process share one vault file, the only thing that survives a crash.     *)
(*                                                                         *)
(* Closing a store wipes its key and nothing else: the object keeps its    *)
(* document, and a handler that still holds it can still call it.  Hence   *)
(* the methods here are not guarded by the key; save is.                   *)
(***************************************************************************)
EXTENDS AuditLog

CONSTANTS Stores,   \* store objects, re-used once closed
          Names,    \* credential names that pass nameRe
          Creds,    \* credentials that pass validateCredential
          NoCred,   \* no credential under this name
          Unsure,   \* history: the last operation on this name failed
          NoFile,   \* the vault file does not exist
          MaxAudit  \* bound: rows of a log

ASSUME StoreAssumption ==
  /\ NoCred \notin Creds
  /\ Unsure \notin Creds \cup {NoCred}
  /\ MaxAudit \in Nat

EmptyDoc == [creds |-> [n \in Names |-> NoCred], audit |-> << >>]

VARIABLES
  doc,     \* doc[s]: the document in RAM
  enabled, \* enabled[s]: the names whose session flag is set
  key,     \* key[s]: "absent" (no such object yet), "live", or "nil" once closed
  file,    \* the document sealed in the vault file, or NoFile
  acked    \* history: acked[n] is what the last operation on n left, if it
           \* returned no error

storeVars == <<doc, enabled, key, file, acked>>

Docs == [creds : [Names -> Creds \cup {NoCred}], audit : Seq(Rows)]
ASSUME NoFileAssumption == NoFile \notin Docs

StoreTypeOK ==
  /\ doc \in [Stores -> Docs]
  /\ enabled \in [Stores -> SUBSET Names]
  /\ key \in [Stores -> {"absent", "live", "nil"}]
  /\ file \in Docs \cup {NoFile}
  /\ acked \in [Names -> Creds \cup {NoCred, Unsure}]

StoreInit ==
  /\ doc = [s \in Stores |-> EmptyDoc]
  /\ enabled = [s \in Stores |-> {}]
  /\ key = [s \in Stores |-> "absent"]
  /\ file = NoFile
  /\ acked = [n \in Names |-> NoCred]

-------------------------------------------------------------------------------
\* Faulty variant of Save: the key is not looked at.
SaveUnlocked(s, d, ok) == file' = IF ok THEN d ELSE file

\* Faulty variant of Save: the change stays in RAM.
SaveSkipped(s, d, ok) == (ok => key[s] = "live") /\ UNCHANGED file

\* save, of the document d of store s: a closed store answers "vault: locked";
\* marshalling, sealing or the file system may fail; writeFile renames a
\* complete temporary file over the old one, so a failure leaves the old file.
Save(s, d, ok) ==
  /\ ok => key[s] = "live"
  /\ file' = IF ok THEN d ELSE file

\* What the history keeps of an operation on n that meant to leave v there.  A
\* closed store changes nothing that can be saved, so its errors leave no doubt.
Acknowledge(s, n, v, ok) ==
  acked' = IF ok THEN [acked EXCEPT ![n] = v]
           ELSE IF key[s] = "live" THEN [acked EXCEPT ![n] = Unsure]
           ELSE acked

\* Create and CreateWithDEK return no store when the first write fails.
Create(s) ==
  /\ key[s] # "live"
  /\ file = NoFile
  /\ doc' = [doc EXCEPT ![s] = EmptyDoc]
  /\ enabled' = [enabled EXCEPT ![s] = {}]
  /\ key' = [key EXCEPT ![s] = "live"]
  /\ file' = EmptyDoc
  /\ UNCHANGED acked

\* Open and OpenWithDEK.  A wrong password, a wrong key or a damaged file is an
\* error that changes nothing.
Open(s) ==
  /\ key[s] # "live"
  /\ file # NoFile
  /\ doc' = [doc EXCEPT ![s] = file]
  /\ enabled' = [enabled EXCEPT ![s] = {}]
  /\ key' = [key EXCEPT ![s] = "live"]
  /\ UNCHANGED <<file, acked>>

\* Put replaces the credential in RAM first; the session flag stays.
Put(s, n, v, ok) ==
  LET d == [doc[s] EXCEPT !.creds[n] = v] IN
  /\ key[s] # "absent"
  /\ doc' = [doc EXCEPT ![s] = d]
  /\ Save(s, d, ok)
  /\ Acknowledge(s, n, v, ok)
  /\ UNCHANGED <<enabled, key>>

\* Faulty variant of FlagsWithout: the session flag is left behind.
FlagsKept(s, n) == enabled[s]

FlagsWithout(s, n) == enabled[s] \ {n}

\* Delete of an unknown name is ErrNotFound and changes nothing.
Delete(s, n, ok) ==
  LET d == [doc[s] EXCEPT !.creds[n] = NoCred] IN
  /\ key[s] # "absent"
  /\ doc[s].creds[n] # NoCred
  /\ doc' = [doc EXCEPT ![s] = d]
  /\ enabled' = [enabled EXCEPT ![s] = FlagsWithout(s, n)]
  /\ Save(s, d, ok)
  /\ Acknowledge(s, n, NoCred, ok)
  /\ UNCHANGED key

\* Enable(name, on) sets the session flag and never touches the file.
Enable(s, n, on) ==
  /\ key[s] # "absent"
  /\ doc[s].creds[n] # NoCred
  /\ enabled' = [enabled EXCEPT ![s] = IF on THEN @ \cup {n} ELSE FlagsWithout(s, n)]
  /\ UNCHANGED <<doc, key, file, acked>>

\* AppendAudit keeps the row in RAM even when it cannot be saved.
AppendAudit(s, e, ok) ==
  LET d == [doc[s] EXCEPT !.audit = Chained(@, e)] IN
  /\ key[s] # "absent"
  /\ Len(doc[s].audit) < MaxAudit
  /\ doc' = [doc EXCEPT ![s] = d]
  /\ Save(s, d, ok)
  /\ UNCHANGED <<enabled, key, acked>>

ClearAuditBefore(s, cutoff, ok) ==
  /\ key[s] # "absent"
  /\ \E kept \in KeptRows(doc[s].audit, cutoff) :
       LET d == [doc[s] EXCEPT !.audit = Rechained(kept)] IN
       /\ doc' = [doc EXCEPT ![s] = d]
       /\ Save(s, d, ok)
  /\ UNCHANGED <<enabled, key, acked>>

\* The key after Zero and the assignment of nil.
Wiped == "nil"

\* Close saves once more, then wipes the key whether or not the save succeeded.
\* Closing a closed store does nothing.
Close(s, ok) ==
  /\ key[s] = "live"
  /\ Save(s, doc[s], ok)
  /\ key' = [key EXCEPT ![s] = Wiped]
  /\ UNCHANGED <<doc, enabled, acked>>

\* The process ends: nothing but the file is left.
Crash ==
  /\ \E s \in Stores : key[s] # "absent"
  /\ doc' = [s \in Stores |-> EmptyDoc]
  /\ enabled' = [s \in Stores |-> {}]
  /\ key' = [s \in Stores |-> "absent"]
  /\ UNCHANGED <<file, acked>>

-------------------------------------------------------------------------------
\* The callers of store.go mean to keep one store open at a time.
Exclusive == \A s \in Stores : key[s] # "live"

StoreCall(s) ==
  \/ \E n \in Names, v \in Creds, ok \in BOOLEAN : Put(s, n, v, ok)
  \/ \E n \in Names, ok \in BOOLEAN : Delete(s, n, ok)
  \/ \E n \in Names, on \in BOOLEAN : Enable(s, n, on)
  \/ \E e \in AuditInput, ok \in BOOLEAN : AppendAudit(s, e, ok)
  \/ \E cutoff \in Times, ok \in BOOLEAN : ClearAuditBefore(s, cutoff, ok)

StoreNext ==
  \/ \E s \in Stores : Exclusive /\ (Create(s) \/ Open(s))
  \/ \E s \in Stores : StoreCall(s)
  \/ \E s \in Stores, ok \in BOOLEAN : Close(s, ok)
  \/ Crash

StoreSpec == StoreInit /\ [][StoreNext]_storeVars

-------------------------------------------------------------------------------
(* Properties. *)

\* The audit chain verifies in every store and in the file, whatever saves
\* failed in between and however often the log was cleared (store.go:259-316).
AuditIntact ==
  /\ \A s \in Stores : VerifyAudit(doc[s].audit)
  /\ file # NoFile => VerifyAudit(file.audit)

\* A session flag never outlives its credential: a name deleted and put again is
\* disabled until the human enables it (store.go:172-195).
EnabledHasCredential ==
  \A s \in Stores : \A n \in enabled[s] : doc[s].creds[n] # NoCred

\* A change that was acknowledged is in the file, and stays there through failed
\* saves of other operations, closing, crashing and reopening, until the name is
\* changed again; and the open store serves the same (store.go:156-184).
AckedDurable ==
  \A n \in Names :
    acked[n] # Unsure =>
      /\ file # NoFile => file.creds[n] = acked[n]
      /\ \A s \in Stores : key[s] = "live" => doc[s].creds[n] = acked[n]

\* While no store is open the file does not change, whatever the handlers that
\* still hold a closed store call (store.go:329-332): nothing is sealed under a
\* wiped key.
LockedFileStable ==
  [][Exclusive /\ file # NoFile => file' = file]_storeVars

\* The rows of old at or after a cutoff stand in new, at its front and in their order.
Keeps(old, new, cutoff) ==
  \E f \in [{i \in DOMAIN old : old[i].time >= cutoff} -> DOMAIN new] :
    \A i \in DOMAIN f :
      /\ Body(new[f[i]]) = Body(old[i])
      /\ \A j \in DOMAIN f : i < j => f[i] < f[j]
      /\ \A p \in 1..f[i] : \E j \in DOMAIN f : f[j] = p

Extends(old, new) == \E cutoff \in 0..MaxTime : Keeps(old, new, cutoff)

\* The log in the file only grows, except that a clear may drop rows: those that
\* are kept are all the rows at or after some cutoff, in their order, and rows
\* are added behind them (store.go:259-316).
HistoryKept ==
  [][file # NoFile => Extends(file.audit, file'.audit)]_storeVars
===============================================================================
