------------------------------ MODULE PlanesProofs -----------------------------
(* Who reaches what over HTTP, for any callers, goroutines and number of sessions. *)
EXTENDS Planes, TLAPS

\* What a request in flight or served was admitted with: its guards look only at the
\* session it was captured in, and nobody forgets a secret.
Allowed(r) ==
  /\ Admitted(r)
  /\ r.shown \in knows[r.caller] \cup {Empty}
  /\ MayCall(r.origin)

\* A request to lock was checked with the cookie of a session, which is the human's.
MayLock(r) == r.caller = Human /\ r.shown.session \in 1..minted

Sound(r) ==
  /\ r.plane # "app" => Allowed(r)
  /\ r.plane = "app" => MayLock(r) /\ r.op \in {"lock", "answer"}

RequestsSound == \A h \in Handlers : waiting[h] # NoRequest => Sound(waiting[h])
EventSound ==
  event # NoEvent => IF event.plane = "app" THEN event.op = "lock" ELSE Allowed(event)

\* Between an unlock that nothing crossed and the next lock no answer is on its way.
NothingCrosses ==
  deployment = "gui" /\ current # Locked /\ current \notin crossed =>
    /\ jar = current
    /\ \A h \in Handlers : waiting[h] # NoRequest => waiting[h].op # "answer"

PlanesInv ==
  /\ PlanesTypeOK
  /\ deployment = "gui" => exposed = {}
  /\ OnlyHandedKnown
  /\ RequestsSound
  /\ EventSound
  /\ SealedByHolder
  /\ NothingCrosses

LEMMA SessionsExtend ==
  /\ Locked \notin Sessions
  /\ \A m \in 0..MaxSessions : m = Locked \/ m \in Sessions
  /\ \A m \in 0..MaxSessions : m < MaxSessions => m + 1 \in Sessions /\ m + 1 \in 0..MaxSessions
  /\ \A m \in 0..MaxSessions : \A j \in 0..m : j \in 0..(m + 1)
  /\ \A m \in 0..MaxSessions : \A j \in 1..m : j \in 1..(m + 1)
  /\ \A m \in 0..MaxSessions : m + 1 \in 0..(m + 1) /\ Locked \in 0..m /\ m \in 0..m
  /\ \A m \in Sessions : m \in 1..m
  BY PlanesAssumption DEF Sessions, Locked

LEMMA SecretsTyped ==
  /\ Empty \in Secrets
  /\ LaunchToken \in Secrets
  /\ \A e \in Sessions : UseToken(e) \in Secrets /\ ShownAtStart(e) \subseteq Secrets
  BY DEF Secrets, Empty, LaunchToken, UseToken, ShownAtStart, ControlSession, ControlToken, Secret

\* Nobody but the human holds a cookie.
LEMMA HoldersAreHuman ==
  ASSUME OnlyHandedKnown, NEW c \in Callers, NEW t \in knows[c] \cup {Empty},
         Matches(t, ControlSession(current))
  PROVE  c = Human /\ t.session = current /\ current # Locked
  BY DEF OnlyHandedKnown, Callers, Matches, ControlSession, UseToken, Secret, Empty, Locked

LEMMA PlanesInitEstablishes == PlanesInit => PlanesInv
<1> SUFFICES ASSUME PlanesInit
             PROVE  PlanesInv
  OBVIOUS
<1>1. PlanesTypeOK
  BY PlanesAssumption, SecretsTyped, SessionsExtend
  DEF PlanesInit, PlanesTypeOK, Callers, Sessions, Locked
<1>2. QED
  BY <1>1, PlanesAssumption
  DEF PlanesInit, PlanesInv, OnlyHandedKnown, RequestsSound, EventSound, SealedByHolder,
      NothingCrosses, Callers, Locked, Sessions

\* What was allowed stays so: secrets and exposed sessions only grow.
LEMMA SoundStays ==
  ASSUME NEW r \in Calls, Sound(r), deployment' = deployment, exposed \subseteq exposed',
         \A c \in Callers : knows[c] \subseteq knows'[c],
         1..minted \subseteq 1..minted'
  PROVE  Sound(r)'
  BY DEF Sound, Allowed, MayLock, Admitted, Routed, UseGuard, ControlGuard, Loopback, MayCall,
         ControlSession, Calls

LEMMA PlanesStepPreserves == PlanesInv /\ [PlanesNext]_planesVars => PlanesInv'
<1> SUFFICES ASSUME PlanesInv, [PlanesNext]_planesVars
             PROVE  PlanesInv'
  OBVIOUS
<1> USE DEF PlanesInv
<1>1. ASSUME NEW c \in Others, NEW e \in Sessions, Hand(c, e)
      PROVE  PlanesInv'
  <2>0. /\ deployment' = deployment
        /\ exposed \subseteq exposed'
        /\ \A x \in Callers : knows[x] \subseteq knows'[x]
        /\ 1..minted \subseteq 1..minted'
    BY <1>1, SessionsExtend DEF Hand, PlanesTypeOK, Callers
  <2>1. PlanesTypeOK'
    BY <1>1, <2>0, SecretsTyped, SessionsExtend DEF Hand, PlanesTypeOK, Callers, Locked
  <2>2. (deployment = "gui" => exposed = {})'
    BY <1>1, <2>0, <2>1 DEF Hand, PlanesTypeOK
  <2>3. OnlyHandedKnown'
    BY <1>1, <2>0, <2>1, PlanesAssumption DEF Hand, PlanesTypeOK, OnlyHandedKnown, Callers
  <2>4. RequestsSound'
    BY <1>1, <2>0, <2>1, SoundStays DEF Hand, PlanesTypeOK, RequestsSound
  <2>5. EventSound'
    BY <1>1, <2>0, <2>1, SoundStays DEF Hand, PlanesTypeOK, EventSound, RequestsSound, Sound
  <2>6. SealedByHolder'
    BY <1>1, <2>0, <2>1 DEF Hand, PlanesTypeOK, SealedByHolder
  <2>7. NothingCrosses'
    BY <1>1, <2>0, <2>1 DEF Hand, PlanesTypeOK, NothingCrosses, Locked
  <2>8. QED
    BY <2>1, <2>2, <2>3, <2>4, <2>5, <2>6, <2>7
<1>2. ASSUME NEW h \in Handlers, NEW c \in Callers, NEW o \in Origins, NEW plane \in {"use", "control"},
             NEW op \in Operations, NEW t \in Secrets, Capture(h, c, o, plane, op, t)
      PROVE  PlanesInv'
  <2>0. /\ deployment' = deployment
        /\ exposed \subseteq exposed'
        /\ \A x \in Callers : knows[x] \subseteq knows'[x]
        /\ 1..minted \subseteq 1..minted'
    BY <1>2, SessionsExtend DEF Capture, PlanesTypeOK, Callers
  <2>00. PICK r : r = [op |-> op, plane |-> plane, caller |-> c, origin |-> o, shown |-> t, session |-> current]
    OBVIOUS
  <2>01. waiting' = [waiting EXCEPT ![h] = r] /\ current # Locked /\ Admitted(r)
    BY <1>2, <2>00 DEF Capture
  <2>02. r \in Calls
    BY <2>00, <2>01, SessionsExtend DEF PlanesTypeOK, Calls
  <2>03. Sound(r)
    BY <1>2, <2>00, <2>01 DEF Capture, Sound, Allowed
  <2>1. PlanesTypeOK'
    BY <2>02, <2>01, <1>2 DEF Capture, PlanesTypeOK
  <2>2. (deployment = "gui" => exposed = {})'
    BY <1>2, <2>0, <2>1 DEF Capture, PlanesTypeOK
  <2>3. OnlyHandedKnown'
    BY <1>2, <2>0, <2>1, PlanesAssumption DEF Capture, PlanesTypeOK, OnlyHandedKnown, Callers
  <2>4. RequestsSound'
    BY <1>2, <2>0, <2>01, <2>02, <2>03, SoundStays DEF PlanesTypeOK, RequestsSound
  <2>5. EventSound'
    BY <1>2, <2>0, <2>1, SoundStays DEF Capture, PlanesTypeOK, EventSound, RequestsSound, Sound
  <2>6. SealedByHolder'
    BY <1>2, <2>0, <2>1 DEF Capture, PlanesTypeOK, SealedByHolder
  <2>7. NothingCrosses'
    BY <1>2, <2>00, <2>01
    DEF Capture, PlanesTypeOK, NothingCrosses, Operations, UseOperations, ControlOperations
  <2>8. QED
    BY <2>1, <2>2, <2>3, <2>4, <2>5, <2>6, <2>7
<1>3. ASSUME NEW h \in Handlers, Serve(h)
      PROVE  PlanesInv'
  <2>0. /\ deployment' = deployment
        /\ exposed \subseteq exposed'
        /\ \A x \in Callers : knows[x] \subseteq knows'[x]
        /\ 1..minted \subseteq 1..minted'
    BY <1>3, SessionsExtend DEF Serve, PlanesTypeOK, Callers
  <2>1. PlanesTypeOK'
    BY <1>3, <2>0, SecretsTyped, SessionsExtend DEF Serve, PlanesTypeOK, Callers, Locked
  <2>2. (deployment = "gui" => exposed = {})'
    BY <1>3, <2>0, <2>1 DEF Serve, PlanesTypeOK
  <2>3. OnlyHandedKnown'
    BY <1>3, <2>0, <2>1, PlanesAssumption DEF Serve, PlanesTypeOK, OnlyHandedKnown, Callers
  <2>4. RequestsSound'
    BY <1>3, <2>0, <2>1, SoundStays DEF Serve, PlanesTypeOK, RequestsSound
  <2>5. EventSound'
    BY <1>3, <2>0, <2>1, SoundStays DEF Serve, PlanesTypeOK, EventSound, RequestsSound, Sound
  <2>6. SealedByHolder'
    BY <1>3
    DEF Serve, SealedByHolder, RequestsSound, Sound, Allowed, Admitted, Routed, UseOperations,
        ControlOperations, PlanesTypeOK
  <2>7. NothingCrosses'
    BY <1>3, <2>0, <2>1 DEF Serve, PlanesTypeOK, NothingCrosses, Locked
  <2>8. QED
    BY <2>1, <2>2, <2>3, <2>4, <2>5, <2>6, <2>7
<1>4. ASSUME NEW h \in Handlers, LockNow(h)
      PROVE  PlanesInv'
  <2>0. /\ deployment' = deployment
        /\ exposed \subseteq exposed'
        /\ \A x \in Callers : knows[x] \subseteq knows'[x]
        /\ 1..minted \subseteq 1..minted'
    BY <1>4, SessionsExtend DEF LockNow, PlanesTypeOK, Callers
  <2>00. PICK r : r = [waiting[h] EXCEPT !.op = "answer"]
    OBVIOUS
  <2>01. /\ waiting[h] \in Calls
         /\ waiting[h].plane = "app"
         /\ MayLock(waiting[h])
    BY <1>4
    DEF LockNow, PlanesTypeOK, RequestsSound, Sound, Allowed, Admitted, Routed, UseOperations,
        ControlOperations
  <2>02. r \in Calls /\ Sound(r) /\ waiting' = [waiting EXCEPT ![h] = r]
    BY <1>4, <2>00, <2>01 DEF LockNow, PlanesTypeOK, Calls, Sound, MayLock
  <2>03. PICK e : e = [waiting[h] EXCEPT !.session = current]
    OBVIOUS
  <2>04. /\ event' = IF current = Locked THEN event ELSE e
         /\ current # Locked => e \in Calls /\ current = minted
         /\ e.plane = "app" /\ e.op = "lock" /\ e.caller = Human
         /\ e.session = current /\ e.shown.session \in 1..minted
    BY <1>4, <2>01, <2>03, SessionsExtend DEF LockNow, PlanesTypeOK, Calls, MayLock
  <2>05. current' = Locked /\ Locked \in {Locked, minted'}
    BY <1>4 DEF LockNow
  <2>06. event' \in Calls \cup {NoEvent}
    BY <2>04 DEF PlanesTypeOK
  <2>1. PlanesTypeOK'
    BY <1>4, <2>02, <2>04, <2>05, <2>06, SessionsExtend DEF LockNow, PlanesTypeOK
  <2>2. (deployment = "gui" => exposed = {})'
    BY <1>4, <2>0, <2>1 DEF LockNow, PlanesTypeOK
  <2>3. OnlyHandedKnown'
    BY <1>4, <2>0, <2>1, PlanesAssumption DEF LockNow, PlanesTypeOK, OnlyHandedKnown, Callers
  <2>4. RequestsSound'
    BY <1>4, <2>0, <2>02, SoundStays DEF LockNow, PlanesTypeOK, RequestsSound
  <2>5. EventSound'
    BY <1>4, <2>04, SoundStays
    DEF LockNow, EventSound, Allowed, Admitted, UseGuard, ControlGuard, ControlSession, MayCall,
        Routed, Loopback
  <2>6. SealedByHolder'
    BY <1>4, <2>04 DEF LockNow, SealedByHolder
  <2>7. NothingCrosses'
    BY <1>4, <2>0, <2>1 DEF LockNow, PlanesTypeOK, NothingCrosses, Locked
  <2>8. QED
    BY <2>1, <2>2, <2>3, <2>4, <2>5, <2>6, <2>7
<1>5. ASSUME NEW h \in Handlers, Answer(h)
      PROVE  PlanesInv'
  <2>0. /\ deployment' = deployment
        /\ exposed \subseteq exposed'
        /\ \A x \in Callers : knows[x] \subseteq knows'[x]
        /\ 1..minted \subseteq 1..minted'
    BY <1>5, SessionsExtend DEF Answer, PlanesTypeOK, Callers
  <2>1. PlanesTypeOK'
    BY <1>5, <2>0, SecretsTyped, SessionsExtend DEF Answer, PlanesTypeOK, Callers, Locked
  <2>2. (deployment = "gui" => exposed = {})'
    BY <1>5, <2>0, <2>1 DEF Answer, PlanesTypeOK
  <2>3. OnlyHandedKnown'
    BY <1>5, <2>0, <2>1, PlanesAssumption DEF Answer, PlanesTypeOK, OnlyHandedKnown, Callers
  <2>4. RequestsSound'
    BY <1>5, <2>0, <2>1, SoundStays DEF Answer, PlanesTypeOK, RequestsSound
  <2>5. EventSound'
    BY <1>5, <2>0, <2>1, SoundStays DEF Answer, PlanesTypeOK, EventSound, RequestsSound, Sound
  <2>6. SealedByHolder'
    BY <1>5, <2>0, <2>1 DEF Answer, PlanesTypeOK, SealedByHolder
  <2>7. NothingCrosses'
    BY <1>5, <2>0, <2>1 DEF Answer, PlanesTypeOK, NothingCrosses, Locked
  <2>8. QED
    BY <2>1, <2>2, <2>3, <2>4, <2>5, <2>6, <2>7
<1>6. ASSUME Unlock
      PROVE  PlanesInv'
  <2>0. /\ deployment' = deployment
        /\ exposed \subseteq exposed'
        /\ \A x \in Callers : knows[x] \subseteq knows'[x]
        /\ 1..minted \subseteq 1..minted'
    BY <1>6, SessionsExtend DEF Unlock, PlanesTypeOK, Callers
  <2>00. minted + 1 \in Sessions /\ minted + 1 \in 0..MaxSessions /\ minted + 1 \in 0..(minted + 1)
    BY <1>6, SessionsExtend DEF Unlock, PlanesTypeOK
  <2>01. knows' \in [Callers -> SUBSET Secrets]
    BY <1>6, <2>00, SecretsTyped DEF Unlock, PlanesTypeOK
  <2>02. crossed' \subseteq Sessions
    BY <1>6, <2>00 DEF Unlock, PlanesTypeOK
  <2>1. PlanesTypeOK'
    BY <1>6, <2>00, <2>01, <2>02 DEF Unlock, CookieSet, PlanesTypeOK
  <2>2. (deployment = "gui" => exposed = {})'
    BY <1>6, <2>0, <2>1 DEF Unlock, PlanesTypeOK
  <2>3. OnlyHandedKnown'
    BY <1>6, <2>0, <2>1, PlanesAssumption DEF Unlock, PlanesTypeOK, OnlyHandedKnown, Callers
  <2>4. RequestsSound'
    BY <1>6, <2>0, <2>1, SoundStays DEF Unlock, PlanesTypeOK, RequestsSound
  <2>5. EventSound'
    BY <1>6, <2>0, <2>1, SoundStays DEF Unlock, PlanesTypeOK, EventSound, RequestsSound, Sound
  <2>6. SealedByHolder'
    BY <1>6, <2>0, <2>1 DEF Unlock, PlanesTypeOK, SealedByHolder
  <2>7. NothingCrosses'
    BY <1>6 DEF Unlock, CookieSet, NothingCrosses
  <2>8. QED
    BY <2>1, <2>2, <2>3, <2>4, <2>5, <2>6, <2>7
<1>7. ASSUME NEW c \in Callers, NEW t \in Secrets, State(c, t)
      PROVE  PlanesInv'
  <2>0. /\ deployment' = deployment
        /\ exposed \subseteq exposed'
        /\ \A x \in Callers : knows[x] \subseteq knows'[x]
        /\ 1..minted \subseteq 1..minted'
    BY <1>7, SessionsExtend DEF State, Discloses, PlanesTypeOK, Callers
  <2>00. c = Human
    BY <1>7, HoldersAreHuman DEF State, Discloses
  <2>1. PlanesTypeOK'
    BY <1>7, <2>0, SecretsTyped, SessionsExtend DEF State, Discloses, PlanesTypeOK, Callers, Locked
  <2>2. (deployment = "gui" => exposed = {})'
    BY <1>7, <2>0, <2>1 DEF State, Discloses, PlanesTypeOK
  <2>3. OnlyHandedKnown'
    BY <1>7, <2>00, PlanesAssumption DEF State, PlanesTypeOK, OnlyHandedKnown, Callers
  <2>4. RequestsSound'
    BY <1>7, <2>0, <2>1, SoundStays DEF State, Discloses, PlanesTypeOK, RequestsSound
  <2>5. EventSound'
    BY <1>7, <2>0, <2>1, SoundStays
    DEF State, Discloses, PlanesTypeOK, EventSound, RequestsSound, Sound
  <2>6. SealedByHolder'
    BY <1>7, <2>0, <2>1 DEF State, Discloses, PlanesTypeOK, SealedByHolder
  <2>7. NothingCrosses'
    BY <1>7, <2>0, <2>1 DEF State, Discloses, PlanesTypeOK, NothingCrosses, Locked
  <2>8. QED
    BY <2>1, <2>2, <2>3, <2>4, <2>5, <2>6, <2>7
<1>8. ASSUME NEW h \in Handlers, NEW c \in Callers, NEW t \in Secrets, AskLock(h, c, t)
      PROVE  PlanesInv'
  <2>0. /\ deployment' = deployment
        /\ exposed \subseteq exposed'
        /\ \A x \in Callers : knows[x] \subseteq knows'[x]
        /\ 1..minted \subseteq 1..minted'
    BY <1>8, SessionsExtend DEF AskLock, HasSession, PlanesTypeOK, Callers
  <2>00. PICK r : r = [op |-> "lock", plane |-> "app", caller |-> c, origin |-> "loopback",
                       shown |-> t, session |-> current]
    OBVIOUS
  <2>01. c = Human /\ t.session = current /\ current \in Sessions /\ current = minted
    BY <1>8, HoldersAreHuman, SessionsExtend DEF AskLock, HasSession, PlanesTypeOK
  <2>02. r \in Calls /\ waiting' = [waiting EXCEPT ![h] = r]
    BY <1>8, <2>00, <2>01 DEF AskLock, Calls, Origins
  <2>03. Sound(r)
    BY <2>00, <2>01, SessionsExtend DEF Sound, MayLock
  <2>1. PlanesTypeOK'
    BY <1>8, <2>02 DEF AskLock, PlanesTypeOK
  <2>2. (deployment = "gui" => exposed = {})'
    BY <1>8, <2>0, <2>1 DEF AskLock, HasSession, PlanesTypeOK
  <2>3. OnlyHandedKnown'
    BY <1>8, <2>0, <2>1, PlanesAssumption
    DEF AskLock, HasSession, PlanesTypeOK, OnlyHandedKnown, Callers
  <2>4. RequestsSound'
    BY <1>8, <2>0, <2>02, <2>03, SoundStays DEF PlanesTypeOK, RequestsSound
  <2>5. EventSound'
    BY <1>8, <2>0, <2>1, SoundStays
    DEF AskLock, HasSession, PlanesTypeOK, EventSound, RequestsSound, Sound
  <2>6. SealedByHolder'
    BY <1>8, <2>0, <2>1 DEF AskLock, HasSession, PlanesTypeOK, SealedByHolder
  <2>7. NothingCrosses'
    BY <1>8, <2>0, <2>1 DEF AskLock, HasSession, PlanesTypeOK, NothingCrosses, Locked
  <2>8. QED
    BY <2>1, <2>2, <2>3, <2>4, <2>5, <2>6, <2>7
<1>9. ASSUME IdleLock
      PROVE  PlanesInv'
  <2>0. /\ deployment' = deployment
        /\ exposed \subseteq exposed'
        /\ \A x \in Callers : knows[x] \subseteq knows'[x]
        /\ 1..minted \subseteq 1..minted'
    BY <1>9, SessionsExtend DEF IdleLock, PlanesTypeOK, Callers
  <2>1. PlanesTypeOK'
    BY <1>9, <2>0, SecretsTyped, SessionsExtend DEF IdleLock, PlanesTypeOK, Callers, Locked
  <2>2. (deployment = "gui" => exposed = {})'
    BY <1>9, <2>0, <2>1 DEF IdleLock, PlanesTypeOK
  <2>3. OnlyHandedKnown'
    BY <1>9, <2>0, <2>1, PlanesAssumption DEF IdleLock, PlanesTypeOK, OnlyHandedKnown, Callers
  <2>4. RequestsSound'
    BY <1>9, <2>0, <2>1, SoundStays DEF IdleLock, PlanesTypeOK, RequestsSound
  <2>5. EventSound'
    BY <1>9, <2>0, <2>1, SoundStays DEF IdleLock, PlanesTypeOK, EventSound, RequestsSound, Sound
  <2>6. SealedByHolder'
    BY <1>9, <2>0, <2>1 DEF IdleLock, PlanesTypeOK, SealedByHolder
  <2>7. NothingCrosses'
    BY <1>9, <2>0, <2>1 DEF IdleLock, PlanesTypeOK, NothingCrosses, Locked
  <2>8. QED
    BY <2>1, <2>2, <2>3, <2>4, <2>5, <2>6, <2>7
<1>10. ASSUME Restart
      PROVE  PlanesInv'
  <2>0. /\ deployment' = deployment
        /\ exposed \subseteq exposed'
        /\ \A x \in Callers : knows[x] \subseteq knows'[x]
        /\ 1..minted \subseteq 1..minted'
    BY <1>10, SessionsExtend DEF Restart, PlanesTypeOK, Callers
  <2>1. PlanesTypeOK'
    BY <1>10, <2>0, SecretsTyped, SessionsExtend DEF Restart, PlanesTypeOK, Callers, Locked
  <2>2. (deployment = "gui" => exposed = {})'
    BY <1>10, <2>0, <2>1 DEF Restart, PlanesTypeOK
  <2>3. OnlyHandedKnown'
    BY <1>10, <2>0, <2>1, PlanesAssumption DEF Restart, PlanesTypeOK, OnlyHandedKnown, Callers
  <2>4. RequestsSound'
    BY <1>10, <2>0, <2>1, SoundStays DEF Restart, PlanesTypeOK, RequestsSound
  <2>5. EventSound'
    BY <1>10, <2>0, <2>1, SoundStays DEF Restart, PlanesTypeOK, EventSound, RequestsSound, Sound
  <2>6. SealedByHolder'
    BY <1>10, <2>0, <2>1 DEF Restart, PlanesTypeOK, SealedByHolder
  <2>7. NothingCrosses'
    BY <1>10, <2>0, <2>1 DEF Restart, PlanesTypeOK, NothingCrosses, Locked
  <2>8. QED
    BY <2>1, <2>2, <2>3, <2>4, <2>5, <2>6, <2>7
<1>11. ASSUME Relaunch
      PROVE  PlanesInv'
  <2>0. /\ deployment' = deployment
        /\ exposed \subseteq exposed'
        /\ \A x \in Callers : knows[x] \subseteq knows'[x]
        /\ 1..minted \subseteq 1..minted'
    BY <1>11, SessionsExtend DEF Relaunch, PlanesTypeOK, Callers
  <2>1. PlanesTypeOK'
    BY <1>11, <2>0, SecretsTyped, SessionsExtend DEF Relaunch, PlanesTypeOK, Callers, Locked
  <2>2. (deployment = "gui" => exposed = {})'
    BY <1>11, <2>0, <2>1 DEF Relaunch, PlanesTypeOK
  <2>3. OnlyHandedKnown'
    BY <1>11, <2>0, <2>1, PlanesAssumption DEF Relaunch, PlanesTypeOK, OnlyHandedKnown, Callers
  <2>4. RequestsSound'
    BY <1>11, <2>0, <2>1, SoundStays DEF Relaunch, PlanesTypeOK, RequestsSound
  <2>5. EventSound'
    BY <1>11, <2>0, <2>1, SoundStays DEF Relaunch, PlanesTypeOK, EventSound, RequestsSound, Sound
  <2>6. SealedByHolder'
    BY <1>11, <2>0, <2>1 DEF Relaunch, PlanesTypeOK, SealedByHolder
  <2>7. NothingCrosses'
    BY <1>11, <2>0, <2>1 DEF Relaunch, PlanesTypeOK, NothingCrosses, Locked
  <2>8. QED
    BY <2>1, <2>2, <2>3, <2>4, <2>5, <2>6, <2>7
<1>12. ASSUME UNCHANGED planesVars
      PROVE  PlanesInv'
  <2>0. /\ deployment' = deployment
        /\ exposed \subseteq exposed'
        /\ \A x \in Callers : knows[x] \subseteq knows'[x]
        /\ 1..minted \subseteq 1..minted'
    BY <1>12, SessionsExtend DEF planesVars, PlanesTypeOK, Callers
  <2>1. PlanesTypeOK'
    BY <1>12, <2>0, SecretsTyped, SessionsExtend DEF planesVars, PlanesTypeOK, Callers, Locked
  <2>2. (deployment = "gui" => exposed = {})'
    BY <1>12, <2>0, <2>1 DEF planesVars, PlanesTypeOK
  <2>3. OnlyHandedKnown'
    BY <1>12, <2>0, <2>1, PlanesAssumption DEF planesVars, PlanesTypeOK, OnlyHandedKnown, Callers
  <2>4. RequestsSound'
    BY <1>12, <2>0, <2>1, SoundStays DEF planesVars, PlanesTypeOK, RequestsSound
  <2>5. EventSound'
    BY <1>12, <2>0, <2>1, SoundStays DEF planesVars, PlanesTypeOK, EventSound, RequestsSound, Sound
  <2>6. SealedByHolder'
    BY <1>12, <2>0, <2>1 DEF planesVars, PlanesTypeOK, SealedByHolder
  <2>7. NothingCrosses'
    BY <1>12, <2>0, <2>1 DEF planesVars, PlanesTypeOK, NothingCrosses, Locked
  <2>8. QED
    BY <2>1, <2>2, <2>3, <2>4, <2>5, <2>6, <2>7
<1>13. QED
  BY <1>1, <1>2, <1>3, <1>4, <1>5, <1>6, <1>7, <1>8, <1>9, <1>10, <1>11, <1>12 DEF PlanesNext

LEMMA PlanesInvariant == PlanesSpec => []PlanesInv
  BY PlanesInitEstablishes, PlanesStepPreserves, PTL DEF PlanesSpec

\* Type correctness of sessions, secrets and requests.
THEOREM PlanesTypeCorrect == PlanesSpec => []PlanesTypeOK
<1>1. PlanesInv => PlanesTypeOK
  BY DEF PlanesInv
<1>2. QED
  BY <1>1, PlanesInvariant, PTL

\* Only the human stores, deletes, enables, approves and reads the log, whatever anybody
\* else was handed and from wherever they call (server.go:96-119, 257-293).
THEOREM ControlIsTheHumans == PlanesSpec => []ControlIsHumans
<1>1. PlanesInv => ControlIsHumans
  <2> SUFFICES ASSUME PlanesInv, event # NoEvent, event.op \in ControlOperations \ UseOperations
               PROVE  event.caller = Human /\ event.origin = "loopback"
                      /\ event.shown.session = event.session
    BY DEF ControlIsHumans
  <2>1. event \in Calls
    BY DEF PlanesInv, PlanesTypeOK
  <2>2. CASE event.plane = "app"
    BY <2>2 DEF PlanesInv, EventSound, SealedByHolder, ControlOperations, UseOperations
  <2>3. CASE event.plane # "app"
    <3>1. Allowed(event) /\ event.plane = "control" /\ ControlGuard(event)
      BY <2>3 DEF PlanesInv, EventSound, Allowed, Admitted, Routed
    <3>2. /\ event.origin = "loopback"
          /\ event.shown \in knows[event.caller]
          /\ event.shown.kind \in {"control", "cookie"}
          /\ event.shown.session = event.session
      BY <3>1 DEF Allowed, ControlGuard, Loopback, Matches, ControlToken, ControlSession, Secret, Empty
    <3>3. event.caller \notin Others
      BY <3>2 DEF PlanesInv, OnlyHandedKnown, UseToken, Secret
    <3>4. QED
      BY <2>1, <3>2, <3>3 DEF Calls, Callers
  <2>4. QED
    BY <2>2, <2>3
<1>2. QED
  BY <1>1, PlanesInvariant, PTL

\* A fetch is served only to those who were handed the token of its own session, and to
\* the network only where the headless server was told to (server.go:102-104).
THEOREM UseIsForTheHanded == PlanesSpec => []UseIsHanded
<1>1. PlanesInv => UseIsHanded
  <2> SUFFICES ASSUME PlanesInv, event # NoEvent, event.plane = "use"
               PROVE  /\ event.caller # Human => event.session \in handed[event.caller]
                      /\ event.origin = "lan" => deployment = "serve" /\ event.session \in exposed
    BY DEF UseIsHanded
  <2>1. event \in Calls /\ Allowed(event) /\ UseGuard(event)
    BY DEF PlanesInv, PlanesTypeOK, EventSound, Allowed, Admitted
  <2>2. event.shown = UseToken(event.session) /\ event.shown \in knows[event.caller]
    BY <2>1 DEF UseGuard, Matches, Allowed
  <2>3. event.caller # Human => event.session \in handed[event.caller]
    BY <2>1, <2>2 DEF PlanesInv, OnlyHandedKnown, UseToken, Secret, Calls, Callers
  <2>4. event.origin = "lan" => deployment = "serve" /\ event.session \in exposed
    BY <2>1 DEF UseGuard, Loopback, Allowed, MayCall, PlanesInv, PlanesTypeOK
  <2>5. QED
    BY <2>3, <2>4
<1>2. QED
  BY <1>1, PlanesInvariant, PTL

\* A request seals the vault only for the holder of a session (gui.go:131-140, 246-251).
THEOREM HolderSeals == PlanesSpec => []SealedByHolder
<1>1. PlanesInv => SealedByHolder
  BY DEF PlanesInv
<1>2. QED
  BY <1>1, PlanesInvariant, PTL

\* No answer tells anybody but the human a secret (gui.go:162-176).
THEOREM OthersLearnNothing == PlanesSpec => []OnlyHandedKnown
<1>1. PlanesInv => OnlyHandedKnown
  BY DEF PlanesInv
<1>2. QED
  BY <1>1, PlanesInvariant, PTL

\* Without an unlock between a lock and its answer the human's browser can lock what it
\* unlocked, for any number of sessions and late answers (gui.go:238-242, 251-253).
THEOREM BrowserCanLock == PlanesSpec => []BrowserHoldsSession
<1>1. PlanesInv => BrowserHoldsSession
  BY DEF PlanesInv, NothingCrosses, BrowserHoldsSession
<1>2. QED
  BY <1>1, PlanesInvariant, PTL
===============================================================================
