------------------------------ MODULE RateLimiter ------------------------------
(***************************************************************************)
(* src/internal/vault/ratelimit.go: one token bucket for each credential   *)
(* name.  A bucket holds up to rate_per_min tokens and gains that many in a *)
(* minute; a call takes one or is refused.  The limit is that of the       *)
(* credential the fetch looked up, possibly minutes ago, before a human    *)
(* approved it; the bucket belongs to the name.  Replacing the credential  *)
(* changes the limit of the fetches to come, leaves the bucket alone, and  *)
(* leaves the fetches under way with the old limit.                        *)
(*                                                                         *)
(* Time is in seconds and tokens in sixtieths, so that a second is worth   *)
(* rate_per_min of them.  The code counts in floating point: its rounding  *)
(* is left out.                                                            *)
(***************************************************************************)
EXTENDS Integers

CONSTANTS
  Names,   \* credential names
  Fetches, \* goroutines of a fetch
  Limits,  \* values of rate_per_min; 0 stands for "unlimited"
  Steps,   \* how far the clock moves between two events
  MaxNow,  \* bound: the clock stops there
  NoFetch  \* a goroutine with no fetch under way

ASSUME RateAssumption ==
  /\ Limits \subseteq Nat
  /\ Steps \subseteq Nat
  /\ MaxNow \in Nat
  /\ NoFetch \notin [name : Names, perMin : Limits]

Token == 60

VARIABLES
  now,    \* the clock
  limit,  \* limit[n]: rate_per_min of the credential under n
  held,   \* held[f]: the name a fetch asks for and the limit it looked up
  known,  \* the names that have a bucket
  tokens, \* tokens[n]: sixtieths of a token in n's bucket
  last,   \* last[n]: when the bucket was last brought up to date
  since,  \* history: since[n] is when the credential was last put
  top,    \* history: the largest limit of the calls since then
  passed  \* history: the number of calls let through since then

bucketVars == <<known, tokens, last>>
historyVars == <<since, top, passed>>
rateVars == <<now, limit, held, bucketVars, historyVars>>

RateTypeOK ==
  /\ now \in Nat
  /\ limit \in [Names -> Limits]
  /\ held \in [Fetches -> [name : Names, perMin : Limits] \cup {NoFetch}]
  /\ known \subseteq Names
  /\ tokens \in [Names -> Nat]
  /\ last \in [Names -> Nat]
  /\ since \in [Names -> Nat]
  /\ top \in [Names -> Nat]
  /\ passed \in [Names -> Nat]

RateInit ==
  /\ now = 0
  /\ limit \in [Names -> Limits]
  /\ held = [f \in Fetches |-> NoFetch]
  /\ known = {}
  /\ tokens = [n \in Names |-> 0]
  /\ last = [n \in Names |-> 0]
  /\ since = [n \in Names |-> 0]
  /\ top = [n \in Names |-> 0]
  /\ passed = [n \in Names |-> 0]

-------------------------------------------------------------------------------
Refilled(n, perMin) == tokens[n] + (now - last[n]) * perMin

\* Faulty variant of Level: a bucket may hold more than a minute's worth.
LevelUncapped(n, perMin) ==
  IF n \in known THEN Refilled(n, perMin) ELSE Token * perMin

\* Faulty variant of Level: time adds nothing.
LevelDry(n, perMin) == IF n \in known THEN tokens[n] ELSE Token * perMin

\* What is in the bucket when a call comes: a new one is full.
Level(n, perMin) ==
  IF n \in known /\ Refilled(n, perMin) <= Token * perMin
    THEN Refilled(n, perMin)
    ELSE Token * perMin

Pass(step) ==
  /\ now + step <= MaxNow
  /\ now' = now + step
  /\ UNCHANGED <<limit, held, bucketVars, historyVars>>

\* Put of a credential, under a name that may have a bucket already.
Replace(n, perMin) ==
  /\ limit' = [limit EXCEPT ![n] = perMin]
  /\ since' = [since EXCEPT ![n] = now]
  /\ top' = [top EXCEPT ![n] = 0]
  /\ passed' = [passed EXCEPT ![n] = 0]
  /\ UNCHANGED <<now, held, bucketVars>>

\* Step 1 of a fetch reads the credential, steps 2 to 5 take their time.
LookupLimit(f, n) ==
  /\ held[f] = NoFetch
  /\ held' = [held EXCEPT ![f] = [name |-> n, perMin |-> limit[n]]]
  /\ UNCHANGED <<now, limit, bucketVars, historyVars>>

\* Step 6: allow(name, perMin), under the limiter's mutex.
Called(f, level) ==
  LET n == held[f].name IN
  /\ held' = [held EXCEPT ![f] = NoFetch]
  /\ known' = known \cup {n}
  /\ tokens' = [tokens EXCEPT ![n] = level]
  /\ last' = [last EXCEPT ![n] = now]
  /\ top' = [top EXCEPT ![n] = IF held[f].perMin > @ THEN held[f].perMin ELSE @]
  /\ UNCHANGED <<now, limit, since>>

Enough(level) == level >= Token

\* allow returns true.
Allow(f) ==
  /\ held[f] # NoFetch
  /\ held[f].perMin > 0
  /\ Enough(Level(held[f].name, held[f].perMin))
  /\ Called(f, Level(held[f].name, held[f].perMin) - Token)
  /\ passed' = [passed EXCEPT ![held[f].name] = @ + 1]

\* allow returns false; the bucket is brought up to date all the same.
Refuse(f) ==
  /\ held[f] # NoFetch
  /\ held[f].perMin > 0
  /\ ~Enough(Level(held[f].name, held[f].perMin))
  /\ Called(f, Level(held[f].name, held[f].perMin))
  /\ UNCHANGED passed

\* The fetch is denied before step 6, or has no limit and touches no bucket.
Bypass(f) ==
  /\ held[f] # NoFetch
  /\ held' = [held EXCEPT ![f] = NoFetch]
  /\ UNCHANGED <<now, limit, bucketVars, historyVars>>

RateNext ==
  \/ \E step \in Steps : Pass(step)
  \/ \E n \in Names, perMin \in Limits : Replace(n, perMin)
  \/ \E f \in Fetches : \/ \E n \in Names : LookupLimit(f, n)
                        \/ Allow(f)
                        \/ Refuse(f)
                        \/ Bypass(f)

RateSpec == RateInit /\ [][RateNext]_rateVars

-------------------------------------------------------------------------------
(* Properties. *)

\* From the moment a credential is put, and so from any moment, no more calls pass
\* than the largest limit among them at once and that many per minute after that,
\* whatever bucket the name had before (ratelimit.go:31-47).
RateBounded ==
  \A n \in Names : Token * passed[n] <= Token * top[n] + top[n] * (now - since[n])

\* A caller that waits a token's worth of time after the last call is not refused,
\* although a refused call restarts the clock of the bucket (ratelimit.go:38-45).
PatientServed ==
  [][\A f \in Fetches :
       Refuse(f) => /\ held[f].name \in known
                    /\ (now - last[held[f].name]) * held[f].perMin < Token]_rateVars
===============================================================================
