-------------------------------- MODULE Planes --------------------------------
(***************************************************************************)
(* Who reaches what over HTTP: src/internal/server/server.go (the guards   *)
(* of the two planes) and src/internal/gui/gui.go (launch token, session   *)
(* cookie, proxy).  A session is one server.New: it mints the tokens.      *)
(* Under "gui" the App makes a session at each unlock and forgets it at    *)
(* each lock, and a handler may still serve a session it captured before.  *)
(* Under "serve" a process has one session, from its launch on.            *)
(*                                                                         *)
(* What an admitted request does to the store is in VaultStore and Broker. *)
(***************************************************************************)
EXTENDS Naturals

CONSTANTS
  Human,       \* the only one with the password, the screen and the terminal
  Others,      \* the agent, programs on this machine, devices on the network
  Handlers,    \* goroutines that handle a request
  MaxSessions, \* bound: sessions
  NoRequest,
  NoEvent

ASSUME PlanesAssumption ==
  /\ Human \notin Others
  /\ MaxSessions \in Nat \ {0}

Callers == {Human} \cup Others
Sessions == 1..MaxSessions
Locked == 0

Secret(kind, e) == [kind |-> kind, session |-> e]
Empty == Secret("empty", 0)    \* what a request shows that carries nothing
LaunchToken == Secret("launch", 0)
Secrets == {Empty, LaunchToken} \cup [kind : {"use", "control", "cookie"}, session : Sessions]

UseOperations == {"fetch", "list", "guide"}
ControlOperations == {"put", "list", "delete", "enable", "audit", "verify", "pending", "decide"}
Operations == UseOperations \cup ControlOperations

VARIABLES
  deployment, \* "gui" or "serve"
  exposed,    \* the sessions whose server has EnableLAN
  minted,     \* the number of sessions made so far
  current,    \* the session behind a.srv, a.planes and a.session, or Locked
  knows,      \* knows[c]: the secrets c has been shown
  handed,     \* history: handed[c]: sessions whose use token the human gave c
  jar,        \* the session whose cookie the human's browser holds
  waiting,    \* waiting[h]: the request a goroutine is handling
  crossed,    \* history: sessions whose unlock came before the answer of an earlier lock
  event       \* history: the last thing a request was admitted to do

planesVars ==
  <<deployment, exposed, minted, current, knows, handed, jar, waiting, crossed, event>>

Origins == {"loopback", "lan"}
Calls == [op : Operations \cup {"lock", "answer"}, plane : {"use", "control", "app"},
          caller : Callers, origin : Origins, shown : Secrets, session : Sessions]

PlanesTypeOK ==
  /\ deployment \in {"gui", "serve"}
  /\ exposed \subseteq Sessions
  /\ minted \in 0..MaxSessions
  /\ current \in {Locked, minted}
  /\ knows \in [Callers -> SUBSET Secrets]
  /\ handed \in [Others -> SUBSET Sessions]
  /\ jar \in 0..minted
  /\ waiting \in [Handlers -> Calls \cup {NoRequest}]
  /\ crossed \subseteq Sessions
  /\ event \in Calls \cup {NoEvent}

-------------------------------------------------------------------------------
(* The tokens of a session. *)

\* Faulty variant of UseToken: the first session's token is kept.
UseTokenKept(e) == Secret("use", 1)

UseToken(e) == Secret("use", e)
ControlToken(e) == Secret("control", e)

\* The headless server has no ControlSession.
ControlSession(e) ==
  IF deployment = "gui" /\ e # Locked THEN Secret("cookie", e) ELSE Empty

\* What the terminal (serve) or the answer to an unlock (gui) shows the human.  The
\* control token of a GUI session is minted too, and shown to nobody.
ShownAtStart(e) ==
  {UseToken(e)} \cup IF deployment = "gui" THEN {ControlSession(e)} ELSE {ControlToken(e)}

PlanesInit ==
  /\ deployment \in {"gui", "serve"}
  /\ exposed \in IF deployment = "serve" THEN {{}, {1}} ELSE {{}}
  /\ minted = IF deployment = "serve" THEN 1 ELSE 0
  /\ current = minted
  /\ knows = [c \in Callers |->
                IF c # Human THEN {}
                ELSE IF deployment = "gui" THEN {LaunchToken} ELSE ShownAtStart(1)]
  /\ handed = [c \in Others |-> {}]
  /\ jar = Locked
  /\ waiting = [h \in Handlers |-> NoRequest]
  /\ crossed = {}
  /\ event = NoEvent

\* Whoever is on this machine may also call by its network address.  The GUI turns
\* other origins away at once (loopbackGuard).
MayCall(o) == deployment = "gui" => o = "loopback"

\* The human tells someone a session's use token: the snippet, the terminal.
Hand(c, e) ==
  /\ UseToken(e) \in knows[Human]
  /\ handed' = [handed EXCEPT ![c] = @ \cup {e}]
  /\ knows' = [knows EXCEPT ![c] = @ \cup {UseToken(e)}]
  /\ UNCHANGED <<deployment, exposed, minted, current, jar, waiting, crossed, event>>

-------------------------------------------------------------------------------
(* The planes. *)

\* Faulty variant of Matches: nothing matches nothing.
MatchesEmpty(got, want) == got = want

\* tokenOK, and the comparisons of gui.go.
Matches(got, want) == want # Empty /\ got = want

Loopback(r) == r.origin = "loopback"

UseGuard(r) == Matches(r.shown, UseToken(r.session)) /\ (r.session \in exposed \/ Loopback(r))

\* Faulty variant of ControlGuard: the option opens both planes.
ControlGuardExposed(r) ==
  /\ r.session \in exposed \/ Loopback(r)
  /\ Matches(r.shown, ControlToken(r.session)) \/ Matches(r.shown, ControlSession(r.session))

ControlGuard(r) ==
  /\ Loopback(r)
  /\ Matches(r.shown, ControlToken(r.session)) \/ Matches(r.shown, ControlSession(r.session))

\* Faulty variant of Routed: one set of routes behind both guards.
RoutedBoth(r) == r.plane \in {"use", "control"}

\* mountPlanes.
Routed(r) ==
  \/ r.plane = "use" /\ r.op \in UseOperations
  \/ r.plane = "control" /\ r.op \in ControlOperations

Admitted(r) ==
  /\ Routed(r)
  /\ r.plane = "use" => UseGuard(r)
  /\ r.plane = "control" => ControlGuard(r)

\* proxy takes the planes of the moment (without any: 423); the headless server has
\* one session's all along.  What their guards compare with was fixed when they were
\* made, so a request that will be refused is left out: refusing changes nothing.
Capture(h, c, o, plane, op, t) ==
  LET r == [op |-> op, plane |-> plane, caller |-> c, origin |-> o, shown |-> t, session |-> current] IN
  /\ waiting[h] = NoRequest
  /\ current # Locked
  /\ MayCall(o)
  /\ t \in knows[c] \cup {Empty}
  /\ Admitted(r)
  /\ waiting' = [waiting EXCEPT ![h] = r]
  /\ UNCHANGED <<deployment, exposed, minted, current, knows, handed, jar, crossed, event>>

\* The captured planes handle the request.
Serve(h) ==
  /\ waiting[h] # NoRequest
  /\ waiting[h].plane # "app"
  /\ waiting' = [waiting EXCEPT ![h] = NoRequest]
  /\ event' = waiting[h]
  /\ UNCHANGED <<deployment, exposed, minted, current, knows, handed, jar, crossed>>

-------------------------------------------------------------------------------
(* The App. *)

\* Faulty variant of CookieSet: a.session is written to the answer before it is set.
CookieSetEarly(e) == Locked

\* The session whose value the answer to an unlock puts into the browser's cookie.
CookieSet(e) == e

\* setup and unlock, under a.mu: the caller has the launch token and the password,
\* so it is the human.  With a server in place they change nothing, the browser's
\* cookie included.
Unlock ==
  /\ deployment = "gui"
  /\ LaunchToken \in knows[Human]
  /\ current = Locked
  /\ minted < MaxSessions
  /\ minted' = minted + 1
  /\ current' = minted + 1
  /\ knows' = [knows EXCEPT ![Human] = @ \cup ShownAtStart(minted + 1)]
  /\ jar' = CookieSet(minted + 1)
  /\ crossed' = IF \E h \in Handlers : waiting[h] # NoRequest /\ waiting[h].op = "answer"
                THEN crossed \cup {minted + 1} ELSE crossed
  /\ UNCHANGED <<deployment, exposed, handed, waiting, event>>

\* state compares with the session it read together with the token.
Discloses(t) == current # Locked /\ Matches(t, ControlSession(current))

State(c, t) ==
  /\ deployment = "gui"
  /\ t \in knows[c] \cup {Empty}
  /\ Discloses(t)
  /\ knows' = [knows EXCEPT ![c] = @ \cup {UseToken(current)}]
  /\ UNCHANGED <<deployment, exposed, minted, current, handed, jar, waiting, crossed, event>>

\* Faulty variant of HasSession: the cookie is compared even while there is none.
HasSessionOrNone(t) == t = ControlSession(current)

HasSession(t) == Matches(t, ControlSession(current))

\* lock: its check, a critical section of its own ...
AskLock(h, c, t) ==
  /\ deployment = "gui"
  /\ waiting[h] = NoRequest
  /\ t \in knows[c] \cup {Empty}
  /\ HasSession(t)
  /\ waiting' = [waiting EXCEPT ![h] = [op |-> "lock", plane |-> "app", caller |-> c,
                                        origin |-> "loopback", shown |-> t, session |-> current]]
  /\ UNCHANGED <<deployment, exposed, minted, current, knows, handed, jar, crossed, event>>

\* ... lockNow, which takes out the session of now ...
LockNow(h) ==
  /\ waiting[h] # NoRequest
  /\ waiting[h].op = "lock"
  /\ event' = IF current = Locked THEN event ELSE [waiting[h] EXCEPT !.session = current]
  /\ current' = Locked
  /\ waiting' = [waiting EXCEPT ![h].op = "answer"]
  /\ UNCHANGED <<deployment, exposed, minted, knows, handed, jar, crossed>>

\* ... and, the store closed, an answer that deletes the browser's cookie.
Answer(h) ==
  /\ waiting[h] # NoRequest
  /\ waiting[h].op = "answer"
  /\ waiting' = [waiting EXCEPT ![h] = NoRequest]
  /\ jar' = IF waiting[h].caller = Human THEN Locked ELSE jar
  /\ UNCHANGED <<deployment, exposed, minted, current, knows, handed, crossed, event>>

\* maybeIdleLock.
IdleLock ==
  /\ deployment = "gui"
  /\ current # Locked
  /\ current' = Locked
  /\ UNCHANGED <<deployment, exposed, minted, knows, handed, jar, waiting, crossed, event>>

\* The GUI ends and is launched again; the browser keeps its cookie.
Restart ==
  /\ deployment = "gui"
  /\ current' = Locked
  /\ waiting' = [h \in Handlers |-> NoRequest]
  /\ UNCHANGED <<deployment, exposed, minted, knows, handed, jar, crossed, event>>

\* The headless process ends and is launched again, with tokens of its own.
Relaunch ==
  /\ deployment = "serve"
  /\ minted < MaxSessions
  /\ minted' = minted + 1
  /\ current' = minted + 1
  /\ exposed' \in {exposed, exposed \cup {minted + 1}}
  /\ knows' = [knows EXCEPT ![Human] = @ \cup ShownAtStart(minted + 1)]
  /\ waiting' = [h \in Handlers |-> NoRequest]
  /\ UNCHANGED <<deployment, handed, jar, crossed, event>>

PlanesNext ==
  \/ \E c \in Others, e \in Sessions : Hand(c, e)
  \/ \E h \in Handlers, c \in Callers, o \in Origins, plane \in {"use", "control"},
        op \in Operations, t \in Secrets : Capture(h, c, o, plane, op, t)
  \/ \E h \in Handlers : Serve(h) \/ LockNow(h) \/ Answer(h)
  \/ Unlock
  \/ \E c \in Callers, t \in Secrets : State(c, t)
  \/ \E h \in Handlers, c \in Callers, t \in Secrets : AskLock(h, c, t)
  \/ IdleLock
  \/ Restart
  \/ Relaunch

PlanesSpec == PlanesInit /\ [][PlanesNext]_planesVars

-------------------------------------------------------------------------------
(* Properties. *)

\* Whoever stores, deletes, enables or approves, or reads the log, is the human, on
\* this machine, with a secret of the very session that is served: another program
\* cannot, whatever it was handed, nor a device when the use plane is on the network
\* (server.go:8-9, 96-119, 257-293).
ControlIsHumans ==
  event # NoEvent /\ event.op \in ControlOperations \ UseOperations =>
    /\ event.caller = Human
    /\ event.origin = "loopback"
    /\ event.shown.session = event.session

\* A fetch is served to those the human handed this session's token: the one of an
\* earlier session is worth nothing after the next unlock; and to other devices only
\* where that was opted into (server.go:102-104, gui.go:236-237).
UseIsHanded ==
  event # NoEvent /\ event.plane = "use" =>
    /\ event.caller # Human => event.session \in handed[event.caller]
    /\ event.origin = "lan" => deployment = "serve" /\ event.session \in exposed

\* A lock request seals the vault only if its caller was given a session by the
\* password, although the check and the lock are apart (gui.go:131-140, 246-251).
SealedByHolder ==
  event # NoEvent /\ event.op = "lock" =>
    event.caller = Human /\ event.shown.session \in 1..event.session

\* Nobody but the human learns more than the use tokens that were handed over: state
\* tells the token to the session it belongs to, and no other answer holds one
\* (gui.go:162-176).
OnlyHandedKnown ==
  \A c \in Others : knows[c] \subseteq {UseToken(e) : e \in handed[c]}

\* As long as no unlock comes between a lock and its answer, the browser that
\* unlocked the vault holds the cookie that can lock it (gui.go:238-242, 251-253).
BrowserHoldsSession == deployment = "gui" /\ current # Locked /\ current \notin crossed => jar = current

-------------------------------------------------------------------------------
(* Statements of a document and a comment that the code does not meet. *)

\* README.md:68, the GUI "authenticates by the unlock password": who has it gets a
\* session.  (While unlocked, unlock answers 200 without a cookie: gui.go:217-220.)
PasswordGivesSession == deployment = "gui" /\ current # Locked => jar = current

\* gui.go:247, "only the human's session may seal the vault".  (A lock that was
\* checked in one session may seal the next: gui.go:131-140, 251.)
SealsOwnSession ==
  event # NoEvent /\ event.op = "lock" => event.shown.session = event.session
===============================================================================
