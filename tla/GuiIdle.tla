-------------------------------- MODULE GuiIdle --------------------------------
(***************************************************************************)
(* The idle auto-lock of src/internal/gui/gui.go: a ticker (30 s) compares  *)
(* the clock with lastSeen, which touch sets on requests outside /v1/ while *)
(* the vault is unlocked.  The check and the lock are two critical sections *)
(* (maybeIdleLock, lockNow).  The dashboard polls the approvals every few   *)
(* seconds as long as its tab is open (web/index.html:271).                 *)
(***************************************************************************)
EXTENDS IdleTicker

\* The zero time.Time is further back than any idle timeout; the clock starts here.
Epoch == Idle + 1

VARIABLES
  vault,       \* "unlocked" when a.srv # nil, else "locked"
  lastSeen,    \* a.lastSeen, zero until the first touch
  locker,      \* maybeIdleLock: "locking" once it has found the vault idle
  tab,         \* the dashboard is "open", and polls, or "closed"
  lastControl, \* history: the last unlock or control request
  lastHuman    \* history: the last thing the human did

idleVars == <<now, vault, lastSeen, left, locker, tab, lastControl, lastHuman>>

IdleTypeOK ==
  /\ now \in Epoch..(Epoch + MaxNow)
  /\ vault \in {"locked", "unlocked"}
  /\ lastSeen \in 0..(Epoch + MaxNow)
  /\ left \in 0..Tick
  /\ locker \in {"idle", "locking"}
  /\ tab \in {"open", "closed"}
  /\ lastControl \in 0..(Epoch + MaxNow)
  /\ lastHuman \in 0..(Epoch + MaxNow)

IdleInit ==
  /\ now = Epoch
  /\ vault = "locked"
  /\ lastSeen = 0
  /\ left = Tick
  /\ locker = "idle"
  /\ tab = "closed"
  /\ lastControl = 0
  /\ lastHuman = 0

Pass ==
  /\ now < Epoch + MaxNow
  /\ ~TickDue
  /\ now' = now + 1
  /\ left' = left - 1
  /\ UNCHANGED <<vault, lastSeen, locker, tab, lastControl, lastHuman>>

\* maybeIdleLock, under a.mu.
MaybeIdleLock ==
  /\ TickDue
  /\ locker = "idle"
  /\ IF vault = "unlocked" /\ now - lastSeen > Idle
       THEN locker' = "locking" /\ UNCHANGED left
       ELSE left' = Tick /\ UNCHANGED locker
  /\ UNCHANGED <<now, vault, lastSeen, tab, lastControl, lastHuman>>

\* The lockNow that follows a check.
IdleLock ==
  /\ locker = "locking"
  /\ vault' = "locked"
  /\ locker' = "idle"
  /\ left' = Tick
  /\ UNCHANGED <<now, lastSeen, tab, lastControl, lastHuman>>

\* Faulty variant of Touch: the agent's requests count as activity.
TouchAll(plane) == lastSeen' = IF vault = "unlocked" THEN now ELSE lastSeen

\* touch: requests of the use plane, and requests while locked, do not count.
Touch(plane) ==
  lastSeen' = IF plane # "use" /\ vault = "unlocked" THEN now ELSE lastSeen

\* POST /api/unlock or /api/setup: touch runs before the vault is unlocked, and
\* open sets no time.
Unlock ==
  /\ vault = "locked"
  /\ Touch("control")
  /\ vault' = "unlocked"
  /\ lastControl' = now
  /\ lastHuman' = now
  /\ UNCHANGED <<now, left, locker, tab>>

\* The human does something on the dashboard, opening or closing it included.
HumanActs(leaves) ==
  /\ Touch("control")
  /\ tab' = leaves
  /\ lastControl' = now
  /\ lastHuman' = now
  /\ UNCHANGED <<now, vault, left, locker>>

\* POST /api/lock.
LockButton ==
  /\ vault = "unlocked"
  /\ Touch("control")
  /\ vault' = "locked"
  /\ lastControl' = now
  /\ lastHuman' = now
  /\ UNCHANGED <<now, left, locker, tab>>

\* The dashboard polls GET /api/vault/approvals.
Poll ==
  /\ tab = "open"
  /\ vault = "unlocked"
  /\ Touch("control")
  /\ lastControl' = now
  /\ UNCHANGED <<now, vault, left, locker, tab, lastHuman>>

\* The agent calls /v1/vault/.
AgentCalls ==
  /\ Touch("use")
  /\ UNCHANGED <<now, vault, left, locker, tab, lastControl, lastHuman>>

IdleNext ==
  \/ Pass
  \/ MaybeIdleLock
  \/ IdleLock
  \/ Unlock
  \/ \E leaves \in {"open", "closed"} : HumanActs(leaves)
  \/ LockButton
  \/ Poll
  \/ AgentCalls

IdleSpec == IdleInit /\ [][IdleNext]_idleVars

-------------------------------------------------------------------------------
(* Properties. *)

\* Whatever the agent does, the vault is locked at the latest one period of the
\* ticker after the idle timeout (gui.go:98-124).
IdleEnforced == vault = "unlocked" => now - lastControl <= Idle + Tick

\* DESIGN.md:165: the vault locks after N idle minutes, not before.
NotBeforeIdle ==
  [][vault = "unlocked" /\ locker = "locking" /\ locker' = "idle"
       => now - lastHuman > Idle]_idleVars

\* DESIGN.md:165 and gui.go:111-112, "must not hold the vault open past the human
\* leaving": without a human for the idle timeout, the vault locks.
LockedOnceHumanLeft == vault = "unlocked" => now - lastHuman <= Idle + Tick
===============================================================================
