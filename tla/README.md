# A TLA+ model of secretvault

secretvault keeps web credentials in one encrypted file on a stick. A human manages
them on a *control plane*; an agent asks on an *agent plane* for requests to be made
**with** a credential and never sees it. This directory holds TLA+ modules translated
from the Go source under `src/`, TLC configurations that check them on small
instances, and TLAPS proofs of what matters most for every instance.

Run, in this directory: `tlc -config X.cfg X` for a run, where X is an MC module or, when
a specification needs no definitions of its own to be checked, the specification
(`PROJECT.json` names the module and the configuration of each); `tlapm XProofs.tla` for
a proof.

## 1. Inventory of the system

| Part | Source | State | Operations | Module |
|---|---|---|---|---|
| Encrypted store | `internal/vault/store.go`, `model.go` | decrypted document (credentials, audit log), session flags, key, file | Create, Open, Put, Delete, Enable, AppendAudit, ClearAuditBefore, Close | VaultStore |
| Audit log | `store.go:256-327` | hash-chained rows | append, clear and re-chain, verify | AuditLog, AuditEvidence |
| Approval of writes | `internal/server/approver.go`, `server.go:269-290` | list of pending requests, a one-place channel and a timer each | Confirm, decide, list | Approval, PendingApprover |
| Fetch pipeline | `internal/vault/fetch.go` | one goroutine per fetch, nothing shared of its own | Fetch | Broker (control), Exchange (data) |
| GUI lifecycle | `internal/gui/gui.go` | current store, server and planes under `a.mu` | setup, unlock, lock, proxy, shutdown | StoreOwner, GuiLock |
| Idle lock of the GUI | `gui.go:99-129`, `web/index.html` | `lastSeen`, a 30 s ticker | tick, touch, poll | IdleTicker, GuiIdle |
| Rate limiter | `internal/vault/ratelimit.go` | a token bucket per name | allow | RateLimiter |
| Suite component | `component/component.go` | `c.store`, `c.srv`, routes on the suite's mux | Unlock, Mount, Lock, Fetch | StoreOwner, Component |
| Headless server | `cmd/vault/main.go`, `internal/vault/idlelock.go` | HTTP server, last activity, store | serve, stop, drain, close | IdleTicker, Serve |
| Egress policy | `internal/vault/dial.go`, `host.go` | none | isDeniedIP, resolveAndPin, normalizeHost, hostAllowed | Egress, in Exchange |
| Validation, header injection, reflect guard | `validate.go`, `auth.go`, `reflect.go` | none | validateCredential, buildHeaders, injectAuth, the two guards | Injection, in Exchange |
| HTTP planes and guards | `internal/server/server.go`, `internal/gui/gui.go` | tokens of a session, the browser's cookie | routes, guards, unlock, state, lock, proxy | Planes |
| Keyring, file format | `internal/secret/secret.go` | master key, header | Create, Open, FromDEK, OpenSealed, Seal | Sealing, in Drive |
| Saving to the drive | `store.go:329-366`, the order of opening and listening in `main.go`, `component.go` | the file, the directory, a temporary file | writeFile, launch, crash, power loss | AtomicFile, Drive |
| Guide and page | `guide.go`, `web/index.html` | none | text, layout | - |

How they interact. The planes call the store and the engine of *their* store; the
engine (`Engine.Fetch`) reads the store once, calls the approver (which blocks for a
human, at most two minutes), asks the limiter, sends, and appends to the store's log.
Each owner (GUI, suite component, headless server) opens a store, builds a server and
planes around it, and closes the store on lock. Nothing stops a handler, a fetch or a
mounted route from calling a store after its owner closed it: the store's mutex is the
only protection, and after Close its document is still in RAM while saves fail.

What is hard:

* **Interleaving.** Decisions, timers and cancellations race in a Go `select`; a lock
  is two critical sections (`gui.go:87-96`); handlers run on stores captured earlier.
* **Staleness.** A fetch holds a credential pointer for minutes (`fetch.go:121`).
* **Partial failure.** RAM changes before a save that may fail (`store.go:156-190`),
  the error of `AppendAudit` is dropped (`fetch.go:112`).
* **Crash.** Every save is a whole file, written beside and renamed; a crash may come
  between any two operations.
* **Time.** Two idle locks sampled by tickers, a bucket refilled by elapsed time, a
  shutdown that waits five seconds for handlers that may take two minutes.

`PROJECT.json` lists each hazard at its line with the properties that would catch it.

## 2. Modules

```
AuditLog ---- AuditEvidence                    Approval (abstract)
   |                                              ^ implemented by
VaultStore -- StoreOwner -- Component          PendingApprover
   |               \------- GuiLock               |
   \----------------------- Broker ---------------/
AtomicFile (abstract)          Egress -- Injection -- Exchange
   ^ implemented by            IdleTicker -- GuiIdle
Drive -- Sealing                    \------- Serve
                               Planes   RateLimiter
```

Mutants: a definition introduced by "Faulty variant of X" is a bug that could be made
in the code behind X. No specification uses it. Substituted for X it must make a named
property fail, which is how we know that the property says something.

**VaultStore** (with **AuditLog**). `doc`, `enabled`, `key` are the fields of each
`Store` object, `file` the vault file, `acked` a history variable: for each name the
last change a caller was told had succeeded, `Unsure` once a change of it failed. One
action is one method under `s.mu`; its `ok` is the outcome of the save. `Put` and
`Delete` change RAM even when the save fails, as the code does. `Close` saves, then
wipes the key whatever the save returned; the document stays. `Crash` loses every
store and keeps the file. Sealing and the write-fsync-rename of a save are one step; that
they may be taken so is what Drive shows. A digest is
the sequence of what it covers, which models SHA-256 as collision-free; the tier is
not part of it, as in `auditHash` (`store.go:318`).

**AuditEvidence** starts from a log the program wrote and lets someone change it behind
the program's back: lose, move, alter, re-tier a row, hashes untouched.

**Approval / PendingApprover**. The abstract module says what an approval promises:
one answer per request, and "approved" only if the human's first answer was to
approve. The detailed one has the steps of `Confirm` (register, the three cases of its
`select`, leave) and of `decide` (find under the mutex, then a non-blocking send after
the unlock). When several cases of the `select` are ready any of them may be taken, as
Go specifies. `first` is a history variable: the first decision whose human was told
"decided".

**Broker** composes VaultStore and PendingApprover with the fetch pipeline. A fetch
takes steps only where it touches shared state; parsing, matching and building are
local and folded into the nearest step; Exchange has what is decided in them. A
credential is a record of its policy fields; which address a host resolves to, whether the clock is past the expiry, and the
limiter's answer are inputs, constrained by the fields of the credential that make
them possible. The human acts at any moment between a fetch's steps.

**StoreOwner** is what the App and the Component have in common: an owner that opens a
store into its fields (`Acquire`) and starts again after a crash (`Relaunch`). `overlapped`
is a history variable: some store was opened while another was open.

**GuiLock** is the App as the owner. `Unlock` is one step, at its
read of the file: `open` holds `a.mu` from the test of `a.srv` to the assignment, key
derivation included, and an older store that still writes during the derivation is
covered by the same write before or after the read. `TakeOut` and `CloseTaken` are the
two halves of `lockNow`; `Capture` and `Serve` those of `proxy`. The idle ticker's
decision is in GuiIdle, the session's secrets are in Planes; here a locker may lock at
any time.

**IdleTicker** is the clock and the ticker of the two idle timeouts. **GuiIdle** is the
GUI's: `Pass` advances the clock up to the tick that is due, `MaybeIdleLock` is the ticker's decision under `a.mu` and `IdleLock` the later lock, `Touch`
the update of `lastSeen` (only while unlocked, only outside the agent's paths). A
dashboard tab polls. `lastControl` (last call outside the agent plane) and `lastHuman`
are history variables.

**RateLimiter** counts in sixtieths of a token, so a bucket of `p` per minute fills by
`p` each second and the model is exact where the code has floats. A fetch takes the
limit of the credential it looked up and calls `allow` later; in between the
credential may be replaced. `since`, `top`, `passed` are history variables about
everything since the last replacement.

**Component** has the owner's calls, the routes that stay on the mux for good, and
tools that call `Fetch` from goroutines of their own. The owner is one goroutine, as
the suite uses it. `Fetch` tests `c.srv` and reads it again without a lock: the second
read gives either value. A mounted route leads to the store it was registered for.

**Serve** is the headless process: requests, the ticker's check, signals, a listener
that fails, `Shutdown` that waits for handlers at most `Grace`, the close, the exit.
Here requests of the agent count as activity, unlike in the GUI: `main.go` touches the
lock on every request. A connection that is open may bring a request while `Shutdown`
waits, and after the close when `Shutdown` gave up or was never called (`Reachable`).

**Exchange** (with **Egress** and **Injection**) is the data path of one request, from the
credential a human tries to store to what the agent gets. Egress has the hosts and
addresses, Injection the credential's shape, the headers and the search of the answer,
as operators; Exchange applies them in the order of `Fetch`, with a resolver asked twice
(at the check and at the connection) and an upstream that answers anything. Data are
classes: a host is a sequence of the kinds of character `host.go` distinguishes, an
address its range, a body the set of repetitions of the secret that stand in it. The
label-by-label reading of an allowlist (`Labels`, `Covers`) is written independently of
the code's suffix test and compared with it.

**Planes** is who reaches what: callers with the secrets they know, from this machine or
the network, against the guards and the routes of a session. A session is one
`server.New`. In the GUI the App makes one at each unlock; `proxy` captures the planes of
the moment (`Capture`) and they serve later (`Serve`); `lock` is three steps, its check
(`AskLock`), `lockNow` (`LockNow`) and the answer that deletes the cookie (`Answer`).
`Hand` is the human giving the agent a session's use token. `handed`, `crossed` and
`event` are history variables. Requests a guard refuses change nothing and are left out.

**Drive** (with **Sealing**) takes a save apart: `Begin` seals, `Write`, `Sync`, `Rename`
are the steps of `writeFile`, `Fail` its error path at any of them. `entry` is what the
path leads to, `kept` what the directory on the medium leads to; `Writeback` makes them
equal, `PowerLoss` goes back to `kept` and tears a file that was not synced. Processes
are launched as `main.go` and the component do it: look for the file, open or create it,
and only then listen. **Sealing** has the two formats and symbolic keys: which source
opens which file, and whether a keyring owns its key. **AtomicFile** is what a save
promises; Drive implements it, which is what lets VaultStore save in one step.

## 3. Runs

Every run passes and is exhaustive within its bounds. Deadlock is checked in the store,
GUI and drive runs, where a human can always act; elsewhere the system really stops (every call
has returned, time is up, the process has exited, no further session is allowed for). Symmetry is used in the runs without
liveness only.

| Run | Bounds | What it shows |
|---|---|---|
| `approver` | 2 calls, 2 deciders | An acknowledged approval is lost only to the timer or to a caller that left. Every call returns without any human. The approver implements `Approval`, liveness included. |
| `store` | 2 stores, 1 name, 2 values, 3 rows, 2 times | Flags follow credentials, acknowledged changes are in the file, a locked vault's file stays as it is; the chain verifies in RAM and file, a step drops rows only before a cutoff. Two stores: one open, one closed and still called. Three rows at two times are out of order and let a clear drop the middle one. |
| `evidence` | 3 rows, 2 edits | A log that verifies is a prefix of what was written. Two edits can undo each other or make strangers neighbours. |
| `broker` | 1 fetch of 5 kinds, 2 credentials for one name, 2 stores | The secret sent obeys its own credential's policy, though the name is replaced while the fetch waits; a write has its approval; rows say what happened, one per fetch, in the file exactly if its save succeeded, also when the fetch outlives its session; and the fetch returns. |
| `gui_lock` | 2 stores, 2 lockers, 2 handlers, 2 rows, 2 times | Keys are always held by someone who will wipe them; without an overlap of sessions acknowledged changes are in the file; the chain survives even an overlap; while no store is open the file stays as it is, handlers of the last session or not. |
| `gui_idle` | timeout of 2 ticks, 14 units | Whatever the agent does, the vault is locked one tick after the timeout. |
| `limiter` | 1 name, 2 fetches, limits 0, 1, 3 | Since any replacement no more than the largest limit at once plus that many per minute pass; a caller that waited for a token's worth of time is served. |
| `component` | 3 stores, 1 tool | While every Unlock follows a Lock, only the current store is open and acknowledged changes are in the file, though closed stores are still being called; with every store closed the file stays as it is. |
| `serve` | 2 requests, timeout of 2 ticks, 12 units | An uncalled process stops in time, a request or its row is lost only when Shutdown's wait ran out or the listener failed, the process ends with its store closed. |
| `exchange` | 65 credentials offered (32 valid), 204 requests, 19 answers of a resolver, 58 of an upstream | The allowlist decides by labels; the address connected to is one that was checked; the credential's header wins whatever the agent sends in whatever order; what leaves does not hold the secret in the agent's part, what comes back does not repeat it; a Location leads nowhere new. |
| `planes` | 1 other caller, 2 requests in flight, 2 sessions, both deployments | Control is the human's, on this machine, with a secret of the session that serves; use is for those who were handed its token; only who has the password seals; the browser keeps its session. |
| `drive` | 2 processes, 2 passwords, 1 suite key, 2 random keys, 3 documents | A save is atomic over crashes and power losses at any step; the file opens again, whatever processes race; who could open it still can; one process after another loses nothing acknowledged. |

Type invariants are theorems and not among the runs, and so are `VerdictFaithful`,
`PendingIsLive` and `OnlyHandedKnown`, on which the properties of the runs rest. The types
of the constants are assumptions of the modules (`ExchangeAssumption`, for instance), which
TLC evaluates in the runs.

Why these bounds. Interference is between one fetch and the human, so one fetch with
every stage exposed is enough for Broker; two requests that wait at once are the
approver's matter, where two calls and two deciders are checked and any number is
proved. A third store, a third handler or a third decider would do what the second
does: the shared state they meet at is one file, one document or one channel. In
Exchange each of the four sets varies one feature of a plain element at a time (every
text of up to two characters of all kinds and the longer ones of the kinds that matter
for dots, wildcards and digits; every header name, spelling and value; every pair of
address ranges that a rule tells apart), and all their combinations are explored. A
second session is enough for Planes, where the question is what the first one's requests
and secrets are worth after it; three documents let a stale one cover a newer one in
Drive, where the third process of a launch race would be a copy of the second. What the
proofs cover holds beyond any of these bounds.

### Where documents and code part

These properties state what the repository's own documents or comments say. TLC finds
each violated; they are not among the runs of `PROJECT.json`. The configurations
`*Documents.cfg` list them, by module, and
`tlc -continue -config XDocuments.cfg X | grep -a 'is violated' | sort -u` names all
that fail (without `-continue` TLC stops at the first, with its trace).

| Property | Statement | What the code does |
|---|---|---|
| Broker `SentIsOnDrive` | `SECURITY.md:14-15`, every action is in the on-stick log | the error of `AppendAudit` is dropped: after a failed save, or a lock while the fetch was in flight, the row is not in the file. |
| GuiLock `AckedStaysInFile` | `store.go:156-157`, Put persists immediately | an unlock inside a lock lets the old store overwrite it. |
| GuiIdle `NotBeforeIdle` | `DESIGN.md:165`, locked after N idle minutes | the first tick after an unlock compares with an old `lastSeen`. |
| GuiIdle `LockedOnceHumanLeft` | `gui.go:111-112`, only human activity counts | a dashboard tab's polling counts too. |
| Broker `ReplyNamesRow` | `DESIGN.md:127`, the reply carries its audit id | `AppendAudit` takes the entry by value; the id is always empty. |
| Broker `NoSendAfterLock` | `SECURITY.md:93`, no act after auto-lock | a fetch in flight, or a mounted route, sends after the lock. |
| Broker `FailureIsNotDenial` | `model.go:66`, decisions "timeout" and "error" | a request that was sent and failed is logged "denied". |
| AuditEvidence `TruncationDetected` | `DESIGN.md:175-176`, truncation is detectable | the end of the chain is not anchored. |
| AuditEvidence `TierCovered` | `DESIGN.md:175-178`, the hash covers the fields | the tier is not hashed. |
| Component `LockWipesKey` | `component.go:152`, Lock zeroizes the key | a second Unlock forgets the first store. |
| Component `FetchAnswersLocked` | `component.go:139-140`, ErrLocked if not unlocked | the second read of `c.srv` may find nil. |
| Exchange `UlaAndCgnatDenied` | `dial.go:23-25`, ULA and CGNAT always denied | they are allowed to a credential with allow_private. |
| Planes `PasswordGivesSession` | `README.md:68`, the GUI authenticates by the unlock password | an unlock of an unlocked vault answers 200 without a cookie; the late answer of a lock deletes the new one. |
| Planes `SealsOwnSession` | `gui.go:247`, only the human's session may seal | a lock checked in one session seals the next. Both are the human's. |
| Drive `SecondLaunchHarmless` | `DESIGN.md:15`, the single-instance lock | a second headless launch opens before it listens, finds the port taken and saves what it read over what the first has saved since. (A second GUI listens first and ends.) |
| Drive `PowerLossHarmless` | `store.go:156-157`, persists immediately | the directory is not synced: a power loss may bring the former file back. |
| Drive `OpensAgain`, with `"magic"` among the `Nonces` of `MCDrive.cfg` | `secret.go:131-138`, a suite file is told by its first bytes | they are a random nonce: one save in 2^32 begins like a header and is refused ever after. |

### Fairness

Only what the scheduler and the code's own timers guarantee. A goroutine that can run
does (`WF` of each step of `Confirm`, of a fetch, of the shutdown); `time.NewTimer`
fires; the HTTP client has a timeout, the resolver gives up, the clock passes while
Shutdown waits. No fairness on the human, on callers that leave, on an upstream's
success, on a save's success. In `PendingApprover` the fairness is on the `select` as a
whole, so no case is promised. The other modules have no liveness properties and assume
no fairness.

## 4. Proofs

| Module | Proved for every value of the constants |
|---|---|
| VaultStoreProofs | `StoreTypeOK`, `AuditIntact` (logs of any length), `EnabledHasCredential`, `AckedDurable`, `LockedFileStable`, `HistoryKept` |
| OwnerProofs | of the GUI: `GuiTypeOK`, `DurableUnlessOverlapped`, `ChainSurvivesOverlap`, `NoOrphan`, `LockedFileStable`; of the Component: `ComponentTypeOK`, `DurableUnlessOverlapped`, `OnlyCurrentOpen`, `LockedFileStable`; each implements `StoreSpec` while sessions do not overlap |
| BrokerProofs | of the approver: `ApproverTypeOK`, `VerdictFaithful`, `ApprovalLostOnlyToTimeout`, `PendingIsLive`, and it implements `Approval!ApprovalSafety`; of the pipeline: `BrokerTypeOK`, `PolicyBindsSecret`, `WritesNeedHuman`, `RowTruthful`, `AccountedOnce`, and it implements `StoreSpec` and `Approval!ApprovalSafety` |
| DataProofs | of the log: `EvidenceTypeOK`, `VerifiedIsPrefix`; of a request: `ExchangeTypeOK`, `AllowlistByLabels`, `DialedWasChecked`, `AuthorityWins`, `OutboundClean`, `NothingEchoed` |
| IdleProofs | of the GUI: `IdleTypeOK`, `IdleEnforced`; of the headless server: `ServeTypeOK`, `IdleStops`, `LostOnlyUnderPressure` |
| RateLimiterProofs | `RateTypeOK`, `RateBounded`, `PatientServed` |
| DriveProofs | `DriveTypeOK`, `OpensAgain`, `AckedFound`, `SameKeyholder`; `DriveSpec` implements `AtomicFile!AtomicSpec` |
| PlanesProofs | `PlanesTypeOK`, `ControlIsHumans`, `UseIsHanded`, `SealedByHolder`, `OnlyHandedKnown`, `BrowserHoldsSession` |

For each specification there is an inductive invariant (`StoreInv`, `GuiInv`,
`ComponentInv`, `ApproverInv`, `BrokerInv`, `EvidenceInv`, `ExchangeInv`, `IdleInv`,
`ServeInv`, `RateInv`, `DriveInv`, `PlanesInv`). Its module shows that `Init` establishes it
and that every action preserves it, and derives the theorems. Assumptions are the named
`ASSUME`s of the modules only: sentinels differ from the values they stand beside, periods
are positive, credentials have a secret and known tiers (what `validateCredential` accepts),
requests, answers and hosts are of their types. Two of DriveProofs' theorems,
`FileOpensAgain` and `KeyholderStays`, assume besides that no nonce begins like a header
(the last row of the table above shows why). The two theorems that an owner implements
`StoreSpec` assume `[]~overlapped`; GuiLock and Component violate it in some behaviours, and
the table above says with what effect.

Where a proof would go by induction over positions it takes a least element instead
(`LeastElement`, from the well-foundedness of strict subsets of finite sets): the least
position that breaks a claim cannot be the first, and the one before it does not.

* `ApproverInv` adds what a decider in flight knows: the request it found was once
  registered, and a channel that is full holds the first decision. Without it "the
  verdict is the first decision" is lost at the step between `decide`'s unlock and its
  send. The refinement maps a step of the `select` to Approve or Refuse, an accepted
  send to Say, everything else to a stutter.
* `StoreInv` adds that at most one store is live and that nothing precedes the file.
  `AckedDurable` itself already speaks of the live store's document besides the file:
  any save, also one of another change, writes that whole document, so it has to hold
  the acknowledged changes too. The audit part rests on lemmas about AuditLog's
  operators: appending extends a chain that verifies, re-chaining what a clear keeps
  verifies. `SoundInv` is the part that holds of each document by itself, however many
  stores are open; `OneLive` and `AckedDurable` are the rest.
* `HistoryInv`, for `HistoryKept`: the log in RAM *extends* the one in the file also
  after saves failed, so that whichever save succeeds next keeps what it must. A failed
  clear followed by another makes the cutoffs add up; hence extending is shown to be
  reflexive and transitive, with the larger cutoff, and each method to be one extension.
* `OwnerInv` has `SoundInv` always and `StoreInv` as long as nothing overlapped, which is
  all that an operation on two open stores can keep. `GuiInv` adds that open stores and
  the hands that hold them are in one-to-one correspondence, `ComponentInv` that a fetch
  in progress has a store.
* `IdleInv` relates the distance to the last control call to where the ticker stands;
  the property alone says nothing about the time until the next tick.
* `RateInv` is an account: tokens passed plus tokens left never exceed the largest
  limit plus what has flowed in since the replacement, up to the last refill. The
  bucket of the old credential may be fuller than the new limit, but the first call
  caps it, hence "largest limit *among the calls since*".
* `ServeInv` adds that the key is live until the close, and that nobody is running
  once Shutdown has returned unpressed; so whoever is answered is answered over an open
  store. For the idle bound it relates the time since the last request to where the
  ticker stands.

* `BrokerInv` is composed: `StoreInv` and `ApproverInv` are kept because every step of
  the pipeline is a step of the store, or stutters there, and likewise of the approver
  (`StoreMoves`, `ApproverMoves`), so what was proved of the parts is not proved again.
  `FetchInv` says for each place of a fetch what has been established there: that the
  credential *held* grants the request, that a confirm tier was answered and any other
  never asked; `Settled` says what a decision may be once the fetch is leaving its row.
  `RowsInv` says that every row belongs to a returned fetch, whose decision is final, and
  that no log has two; it needs both the RAM logs and the file, because either is copied
  to the other by a save and by an open.
* `DriveInv`: whatever is sealed is sealed under the key its own header wraps, or the
  suite's (`Keyed`); what a process is writing is the document it has (`Held`); and while
  no two processes have met, process, path and medium agree on key and document (`Alone`).
  The refinement maps `Rename` to the abstract replacement and everything before it to a
  stutter, and needs from `Keyed` that only a synced file is ever renamed.
* `PlanesInv`: a request in flight was admitted with a secret its caller knows, of the
  session it was captured in (`RequestsSound`), which stays so because secrets are not
  forgotten and guards compare with values fixed at their making; between an unlock that
  nothing crossed and the next lock no deleting answer is on its way (`NothingCrosses`).

* `EvidenceInv`: every hash in the file is that of a beginning of what was written, since
  an edit moves and alters rows and computes none. A chain that verifies makes the last
  hash that of all the rows before it (`VerifiedHash`), so these rows are a beginning.
* `ExchangeInv` carries along what each stage checked, because none of what it was checked
  of is assigned again. Its substance is in lemmas about operators: `BuiltClean`, whatever
  order the agent's headers are ranged over; `GuardSees`, that what the needles do not find
  is not there; and `AllowedIsCovered`, that the code's comparison of characters decides
  by labels. That one counts: the cuts of a name behind a dot are those of what follows the
  dot, moved (`CutsAfterDot`), so the labels of a base that follows one are the name's last
  (`BaseEndsLabels`); and if the labels agree from some label on, so do the cuts, one
  after the other, and then the characters between them (`LabelsEndInBase`).

Only model-checked: liveness, `FetchFinishes`, `ConfirmReturns`, `StopsSealed` and the
liveness half of `ImplementsApproval`, because the prover handles no `ENABLED`. Every other
property of a run is a theorem.

## 5. What is not modelled

* Ciphers, argon2 and zeroizing are symbolic: a box opens under the key it was sealed
  with, a wiped slice is one value. The document's version check is left out.
* IDNA beyond refusing a name or leaving it as it is; the exact byte forms the reflect
  guard searches (a repetition is known by its encoding).
* A second GUI launch, which listens before it opens anything and so ends harmlessly.
* Origin and Host headers are not looked at by the code, so neither here.
* An idle timeout of zero or less, which turns the idle locks off; float rounding in
  the limiter; the suite around the component.
* Text: guide, page, logs, health.

## 6. What is left to do

1. `Broker` over `Drive` instead of an atomic save, and over `Planes` for who begins a
   fetch; today each assumes the other's property.
2. `HistoryKept` and `AckedDurable` under an overlap: a theorem of what the file then holds,
   namely the document of the store that saved last.
3. Two fetches in the `broker` run; their interference is in the limiter and the log,
   which RateLimiter and BrokerProofs have for any number.
