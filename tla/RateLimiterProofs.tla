--------------------------- MODULE RateLimiterProofs ---------------------------
(* Proofs about RateLimiter, for any names, fetches, limits and clock.  A bucket *)
(* is worth what it may still let through: what has passed since the put and    *)
(* what is left in the bucket never exceed a full bucket and what has flowed in. *)
EXTENDS RateLimiter, TLAPS

\* The last two conjuncts are the strengthening of RateBounded: the bucket's content
\* counts as if it had passed, and a name nobody called since the put owes nothing.
RateInv ==
  /\ RateTypeOK
  /\ \A n \in Names :
       /\ last[n] <= now
       /\ since[n] <= now
       /\ top[n] = 0 => passed[n] = 0
       /\ top[n] > 0 =>
            /\ n \in known
            /\ since[n] <= last[n]
            /\ Token * passed[n] + tokens[n]
                 <= Token * top[n] + top[n] * (last[n] - since[n])

-------------------------------------------------------------------------------
LEMMA TimesMonotone ==
  ASSUME NEW a \in Nat, NEW b \in Nat, NEW c \in Nat, a <= b
  PROVE  a * c <= b * c /\ c * a <= c * b /\ a * c \in Nat
  BY Z3

LEMMA TimesSplit ==
  ASSUME NEW a \in Nat, NEW b \in Nat, NEW c \in Nat
  PROVE  a * (b + c) = a * b + a * c
  BY Z3

\* What a bucket holds is a natural number, at most a full bucket, and, for a bucket
\* in use, at most what was there and what flowed in since.
LEMMA LevelBound ==
  ASSUME RateInv, NEW n \in Names, NEW p \in Nat
  PROVE  /\ Level(n, p) \in Nat
         /\ Level(n, p) <= Token * p
         /\ n \in known => Level(n, p) <= tokens[n] + (now - last[n]) * p
<1> USE DEF RateInv, RateTypeOK
<1>1. now - last[n] \in Nat /\ tokens[n] \in Nat
  OBVIOUS
<1>2. (now - last[n]) * p \in Nat
  BY <1>1, TimesMonotone
<1>3. Token * p \in Nat
  BY DEF Token
<1>4. Refilled(n, p) \in Nat
  BY <1>1, <1>2 DEF Refilled
<1>5. QED
  BY <1>2, <1>3, <1>4 DEF Level, Refilled

LEMMA RateInitEstablishes == RateInit => RateInv
  BY RateAssumption DEF RateInit, RateInv, RateTypeOK, Token

\* One call with limit p that leaves `level' in the bucket and lets `more' through.
LEMMA CallPreserves ==
  ASSUME RateInv, NEW f \in Fetches, held[f] # NoFetch, held[f].perMin > 0,
         NEW level \in Nat, NEW more \in {0, 1},
         Token * more + level <= Level(held[f].name, held[f].perMin),
         Called(f, level),
         passed' = [passed EXCEPT ![held[f].name] = @ + more]
  PROVE  RateInv'
<1> DEFINE n == held[f].name
           p == held[f].perMin
<1>1. n \in Names /\ p \in Nat /\ p > 0
  BY RateAssumption DEF RateInv, RateTypeOK
<1>2. /\ held' = [held EXCEPT ![f] = NoFetch]
      /\ known' = known \cup {n}
      /\ tokens' = [tokens EXCEPT ![n] = level]
      /\ last' = [last EXCEPT ![n] = now]
      /\ top' = [top EXCEPT ![n] = IF p > @ THEN p ELSE @]
      /\ passed' = [passed EXCEPT ![n] = @ + more]
      /\ UNCHANGED <<now, limit, since>>
  BY DEF Called
<1>3. /\ Token * more + level <= Level(n, p)
      /\ Level(n, p) \in Nat
      /\ Level(n, p) <= Token * p
      /\ n \in known => Level(n, p) <= tokens[n] + (now - last[n]) * p
  BY <1>1, LevelBound
<1> HIDE DEF n, p
<1>4. RateTypeOK'
  BY <1>1, <1>2 DEF RateInv, RateTypeOK
<1>5. ASSUME NEW m \in Names
      PROVE  /\ last'[m] <= now'
             /\ since'[m] <= now'
             /\ top'[m] = 0 => passed'[m] = 0
             /\ top'[m] > 0 =>
                  /\ m \in known'
                  /\ since'[m] <= last'[m]
                  /\ Token * passed'[m] + tokens'[m]
                       <= Token * top'[m] + top'[m] * (last'[m] - since'[m])
  <2>1. CASE m # n
    BY <2>1, <1>2 DEF RateInv, RateTypeOK
  <2>2. CASE m = n
    <3> DEFINE t == IF p > top[n] THEN p ELSE top[n]
    <3>1. /\ last'[n] = now /\ since'[n] = since[n] /\ now' = now
          /\ top'[n] = t /\ passed'[n] = passed[n] + more /\ tokens'[n] = level
          /\ n \in known'
      BY <1>1, <1>2 DEF RateInv, RateTypeOK
    <3>2. /\ t \in Nat /\ t > 0 /\ p <= t /\ top[n] <= t
          /\ top[n] \in Nat /\ passed[n] \in Nat /\ tokens[n] \in Nat
          /\ since[n] \in Nat /\ last[n] \in Nat /\ now \in Nat
          /\ since[n] <= now /\ last[n] <= now
      BY <1>1 DEF RateInv, RateTypeOK
    <3> HIDE DEF t
    <3>3. Token * (passed[n] + more) + level <= Token * t + t * (now - since[n])
      <4>1. now - since[n] \in Nat /\ t * (now - since[n]) \in Nat
        BY <3>2, TimesMonotone
      <4>2. CASE top[n] = 0
        <5>1. passed[n] = 0
          BY <4>2, <1>1 DEF RateInv
        <5>2. Token * more + level <= Token * t
          BY <1>1, <1>3, <3>2 DEF Token
        <5>3. QED
          BY <5>1, <5>2, <4>1, <3>2 DEF Token
      <4>3. CASE top[n] > 0
        <5>1. /\ n \in known /\ since[n] <= last[n]
              /\ Token * passed[n] + tokens[n]
                   <= Token * top[n] + top[n] * (last[n] - since[n])
          BY <4>3, <1>1 DEF RateInv
        <5>2. Level(n, p) <= tokens[n] + (now - last[n]) * p
          BY <5>1, <1>3
        <5> DEFINE a == last[n] - since[n]
                   b == now - last[n]
        <5>3. a \in Nat /\ b \in Nat /\ now - since[n] = a + b
          BY <5>1, <3>2
        <5> HIDE DEF a, b
        <5>4. top[n] * a <= t * a /\ top[n] * a \in Nat
          BY <5>3, <3>2, TimesMonotone
        <5>5. b * p <= b * t /\ b * p \in Nat
          BY <5>3, <3>2, <1>1, TimesMonotone
        <5>6. t * (now - since[n]) = t * a + t * b /\ t * b = b * t
          BY <5>3, <3>2, TimesSplit
        <5>7. t * a \in Nat /\ t * b \in Nat
          BY <5>3, <3>2, TimesMonotone
        <5>8. Token * passed[n] + tokens[n] <= Token * top[n] + top[n] * a
          BY <5>1 DEF a
        <5>9. Token * more + level <= tokens[n] + b * p
          BY <5>2, <1>3, <1>1, <3>2, <5>5 DEF b, Token
        <5>10. QED
          BY <5>4, <5>5, <5>6, <5>7, <5>8, <5>9, <3>2, <1>1 DEF Token
      <4>4. QED
        BY <4>2, <4>3, <3>2
    <3>4. QED
      BY <2>2, <3>1, <3>2, <3>3
  <2>3. QED
    BY <2>1, <2>2
<1>6. QED
  BY <1>4, <1>5 DEF RateInv

LEMMA RateStepPreserves == RateInv /\ [RateNext]_rateVars => RateInv'
<1> SUFFICES ASSUME RateInv, [RateNext]_rateVars
             PROVE  RateInv'
  OBVIOUS
<1>1. ASSUME NEW step \in Steps, Pass(step)
      PROVE  RateInv'
  <2>1. /\ now' \in Nat /\ now <= now'
        /\ UNCHANGED <<limit, held, known, tokens, last, since, top, passed>>
    BY <1>1, RateAssumption DEF RateInv, RateTypeOK, Pass, bucketVars, historyVars
  <2>2. QED
    BY <2>1 DEF RateInv, RateTypeOK
<1>2. ASSUME NEW n \in Names, NEW perMin \in Limits, Replace(n, perMin)
      PROVE  RateInv'
  BY <1>2 DEF RateInv, RateTypeOK, Replace, bucketVars
<1>3. ASSUME NEW f \in Fetches, NEW n \in Names, LookupLimit(f, n)
      PROVE  RateInv'
  BY <1>3 DEF RateInv, RateTypeOK, LookupLimit, bucketVars, historyVars
<1>4. ASSUME NEW f \in Fetches, Allow(f)
      PROVE  RateInv'
  <2>1. held[f].name \in Names /\ held[f].perMin \in Nat
    BY <1>4, RateAssumption DEF Allow, RateInv, RateTypeOK
  <2> DEFINE l == Level(held[f].name, held[f].perMin)
  <2>2. l \in Nat
    BY <2>1, LevelBound
  <2>3. l >= Token
    BY <1>4 DEF Allow, Enough
  <2> HIDE DEF l
  <2>4. l - Token \in Nat /\ Token * 1 + (l - Token) <= l
    BY <2>2, <2>3 DEF Token
  <2>5. Called(f, l - Token) /\ passed' = [passed EXCEPT ![held[f].name] = @ + 1]
    BY <1>4 DEF Allow, l
  <2>6. QED
    BY <1>4, <2>4, <2>5, CallPreserves DEF Allow, l
<1>5. ASSUME NEW f \in Fetches, Refuse(f)
      PROVE  RateInv'
  <2>1. held[f].name \in Names /\ held[f].perMin \in Nat
    BY <1>5, RateAssumption DEF Refuse, RateInv, RateTypeOK
  <2> DEFINE l == Level(held[f].name, held[f].perMin)
  <2>2. l \in Nat
    BY <2>1, LevelBound
  <2>3. Called(f, l)
    BY <1>5 DEF Refuse
  <2>4. passed' = [passed EXCEPT ![held[f].name] = @ + 0]
    BY <1>5 DEF Refuse, RateInv, RateTypeOK
  <2> HIDE DEF l
  <2>5. Token * 0 + l <= l
    BY <2>2 DEF Token
  <2>6. QED
    BY <1>5, <2>2, <2>3, <2>4, <2>5, CallPreserves DEF Refuse, l
<1>6. ASSUME NEW f \in Fetches, Bypass(f)
      PROVE  RateInv'
  BY <1>6 DEF RateInv, RateTypeOK, Bypass, bucketVars, historyVars
<1>7. CASE UNCHANGED rateVars
  BY <1>7 DEF RateInv, RateTypeOK, rateVars, bucketVars, historyVars
<1>8. QED
  BY <1>1, <1>2, <1>3, <1>4, <1>5, <1>6, <1>7 DEF RateNext

-------------------------------------------------------------------------------
LEMMA RateInvariant == RateSpec => []RateInv
  BY RateInitEstablishes, RateStepPreserves, PTL DEF RateSpec

\* The types hold for any names, fetches, limits and clock.
THEOREM RateTypeCorrect == RateSpec => []RateTypeOK
<1>1. RateInv => RateTypeOK
  BY DEF RateInv
<1>2. QED
  BY <1>1, RateInvariant, PTL

\* From any put on, no more calls pass than the largest limit among them at once and
\* that many per minute: for any limits and any length of time.
THEOREM RateIsBounded == RateSpec => []RateBounded
<1>1. RateInv => RateBounded
  <2> SUFFICES ASSUME RateInv, NEW n \in Names
               PROVE  Token * passed[n] <= Token * top[n] + top[n] * (now - since[n])
    BY DEF RateBounded
  <2>1. /\ top[n] \in Nat /\ passed[n] \in Nat /\ tokens[n] \in Nat
        /\ since[n] \in Nat /\ last[n] \in Nat /\ now \in Nat
        /\ since[n] <= now /\ last[n] <= now
    BY DEF RateInv, RateTypeOK
  <2>2. CASE top[n] = 0
    <3>1. passed[n] = 0
      BY <2>2 DEF RateInv
    <3>2. QED
      BY <2>1, <2>2, <3>1 DEF Token
  <2>3. CASE top[n] > 0
    <3>1. /\ since[n] <= last[n]
          /\ Token * passed[n] + tokens[n]
               <= Token * top[n] + top[n] * (last[n] - since[n])
      BY <2>3 DEF RateInv
    <3>2. top[n] * (last[n] - since[n]) <= top[n] * (now - since[n])
      <4>1. /\ last[n] - since[n] \in Nat /\ now - since[n] \in Nat
            /\ last[n] - since[n] <= now - since[n]
        BY <2>1, <3>1
      <4>2. QED
        BY <4>1, <2>1, TimesMonotone
    <3>3. top[n] * (last[n] - since[n]) \in Nat /\ top[n] * (now - since[n]) \in Nat
      BY <2>1, <3>1, TimesMonotone
    <3>4. QED
      BY <2>1, <3>1, <3>2, <3>3 DEF Token
  <2>4. QED
    BY <2>1, <2>2, <2>3
<1>2. QED
  BY <1>1, RateInvariant, PTL

\* A caller that waits for a token is not refused.
THEOREM PatientIsServed == RateSpec => PatientServed
<1>1. RateInv /\ [RateNext]_rateVars =>
        [\A f \in Fetches :
           Refuse(f) => /\ held[f].name \in known
                        /\ (now - last[held[f].name]) * held[f].perMin < Token]_rateVars
  <2> SUFFICES ASSUME RateInv, NEW f \in Fetches, Refuse(f)
               PROVE  /\ held[f].name \in known
                      /\ (now - last[held[f].name]) * held[f].perMin < Token
    OBVIOUS
  <2> DEFINE n == held[f].name
             p == held[f].perMin
  <2>0. n \in Names /\ p \in Nat /\ p > 0
    BY RateAssumption DEF Refuse, RateInv, RateTypeOK
  <2>1. n \in Names /\ p \in Nat /\ p > 0 /\ Level(n, p) < Token
    BY <2>0, LevelBound DEF Refuse, Enough, Token
  <2> HIDE DEF n, p
  <2>2. now - last[n] \in Nat /\ tokens[n] \in Nat
    BY <2>1 DEF RateInv, RateTypeOK
  <2>3. (now - last[n]) * p \in Nat
    BY <2>1, <2>2, TimesMonotone
  <2>4. ~(Token * p < Token)
    BY <2>1 DEF Token
  <2>5. n \in known /\ Level(n, p) = tokens[n] + (now - last[n]) * p
    BY <2>1, <2>4 DEF Level, Refilled
  <2>6. (now - last[n]) * p < Token
    BY <2>1, <2>2, <2>3, <2>5 DEF Token
  <2>7. QED
    BY <2>5, <2>6 DEF n, p
<1>2. QED
  BY <1>1, RateInvariant, PTL DEF RateSpec, PatientServed
===============================================================================
