------------------------------- MODULE Exchange -------------------------------
(***************************************************************************)
(* src/internal/vault/fetch.go, the data path of one request: the          *)
(* credential as the human stores it, the request as the agent writes it,  *)
(* a resolver that may answer differently each time, and an upstream that  *)
(* may answer anything.  Broker has the interleavings and takes what is    *)
(* decided here from a choice; steps 1, 5, 6 and 10 are there.             *)
(***************************************************************************)
EXTENDS Injection

CONSTANTS
  Offers,     \* credentials a human may try to store
  Requests,   \* requests an agent may send
  Answers,    \* what the resolver may return: sequences of ranges, << >> for none
  Responses,  \* what an upstream may return
  NoLocation, \* no Location header
  Nothing     \* no value yet

(* A form of "scheme" is a scheme that is neither of the two; an "encoded" body *)
(* (body_b64) may not decode; exposes is where the agent put the secret itself, *)
(* besides its headers.                                                         *)
AgentRequests ==
  [form : {"https", "http", "scheme", "userinfo", "unparsable"}, port : {"standard", "odd"},
   host : Hosts, method : STRING, agent : SUBSET AgentFields,
   body : {"text", "encoded"}, decodes : BOOLEAN, exposes : SUBSET {"url", "body"}]

(* The body is a set of echoes, which stand across the size limit when cut is   *)
(* "across" and behind it when "behind"; values is a header with several        *)
(* values, each a set of echoes; a Location is a host, empty when relative.     *)
UpstreamResponses ==
  [encoding : STRING, cut : {"within", "across", "behind"}, body : SUBSET Echoes,
   values : Seq(SUBSET Echoes), location : Hosts \cup {NoLocation}]

ASSUME ExchangeAssumption ==
  /\ Offers \subseteq Credentials
  /\ Requests \subseteq AgentRequests
  /\ Answers \subseteq Seq(Ranges)
  /\ Responses \subseteq UpstreamResponses
  /\ NoLocation \notin Hosts
  /\ Nothing \notin Credentials \cup AgentRequests \cup UpstreamResponses

VARIABLES
  stage,     \* how far the request is
  cred,      \* the credential
  job,       \* the request
  answers,   \* what the resolver said
  pinned,    \* the address resolveAndPin returned
  wire,      \* the headers of the outgoing request
  dialed,    \* the address connected to
  gunzips,   \* the transport asked for gzip and will decompress it
  response,  \* what the upstream returned
  delivered, \* what the agent got of it
  result     \* the error code the agent got, "ok", or "" so far

exchangeVars ==
  <<stage, cred, job, answers, pinned, wire, dialed, gunzips, response, delivered, result>>

Deliveries ==
  [body : SUBSET Echoes, values : Seq(SUBSET Echoes), location : Hosts \cup {NoLocation}]

ExchangeTypeOK ==
  /\ stage \in {"store", "ask", "check", "resolve", "build", "send", "receive", "end"}
  /\ cred \in Offers \cup {Nothing}
  /\ job \in Requests \cup {Nothing}
  /\ answers \in Seq(Ranges)
  /\ {pinned, dialed} \subseteq Ranges \cup {NoIP}
  /\ wire \in [DOMAIN wire -> FieldValues \cup {"auth"}]
  /\ gunzips \in BOOLEAN
  /\ response \in Responses \cup {Nothing}
  /\ delivered \in Deliveries \cup {Nothing}
  /\ result \in {"", "https_required", "bad_url", "host_not_allowed", "egress_blocked", "bad_header",
                 "outbound_exfil_blocked", "upstream_unreachable", "reflect_blocked", "ok"}

ExchangeInit ==
  /\ stage = "store"
  /\ cred = Nothing
  /\ job = Nothing
  /\ answers = << >>
  /\ pinned = NoIP
  /\ wire = << >>
  /\ dialed = NoIP
  /\ gunzips = FALSE
  /\ response = Nothing
  /\ delivered = Nothing
  /\ result = ""

Fail(code) == stage' = "end" /\ result' = code
Proceed(next) == stage' = next /\ UNCHANGED result

-------------------------------------------------------------------------------
\* POST /api/vault/credentials.  One that is refused changes nothing.
Put(c) ==
  /\ stage = "store"
  /\ ShapeValid(c)
  /\ PatternsValid(c)
  /\ cred' = c
  /\ Proceed("ask")
  /\ UNCHANGED <<job, answers, pinned, wire, dialed, gunzips, response, delivered>>

\* POST /v1/vault/fetch.
Ask(r) ==
  /\ stage = "ask"
  /\ job' = r
  /\ Proceed("check")
  /\ UNCHANGED <<cred, answers, pinned, wire, dialed, gunzips, response, delivered>>

UrlBad ==
  \/ job.form \in {"unparsable", "userinfo", "scheme"}
  \/ job.port = "odd" /\ cred.private

\* Steps 2 and 3, up to the first thing that is wrong.
Check ==
  LET insecure == job.form = "http" /\ ~cred.insecure
      host == Normalized(job.host)
  IN
  /\ stage = "check"
  /\ \/ insecure /\ Fail("https_required")
     \/ ~insecure /\ (UrlBad \/ host = NoHost) /\ Fail("bad_url")
     \/ ~insecure /\ ~UrlBad /\ host # NoHost /\ ~HostAllowed(host, cred.patterns)
          /\ Fail("host_not_allowed")
     \/ ~insecure /\ ~UrlBad /\ host # NoHost /\ HostAllowed(host, cred.patterns)
          /\ Proceed("resolve")
  /\ UNCHANGED <<cred, job, answers, pinned, wire, dialed, gunzips, response, delivered>>

\* Step 4.  (The code of a resolver that fails is "dns_failed".)
Resolve(found) ==
  LET ip == Pinned(Normalized(job.host), found, cred.private) IN
  /\ stage = "resolve"
  /\ answers' = found
  /\ pinned' = ip
  /\ IF ip = NoIP THEN Fail("egress_blocked") ELSE Proceed("build")
  /\ UNCHANGED <<cred, job, wire, dialed, gunzips, response, delivered>>

\* Faulty variant of Smuggles: the body is searched before it is decoded.
SmugglesUndecoded ==
  /\ cred.secret \in {"long", "broken"}
  /\ \/ "url" \in job.exposes
     \/ "body" \in job.exposes /\ job.body = "text"
     \/ \E h \in job.agent : h.value = "secret"

\* outboundContainsSecret: a short secret is not looked for.
Smuggles ==
  /\ cred.secret \in {"long", "broken"}
  /\ job.exposes # {} \/ \E h \in job.agent : h.value = "secret"

\* Step 7.
Build ==
  LET headersBad == ~HeadersValid(cred, job.agent)
      requestBad == ~job.decodes
  IN
  /\ stage = "build"
  /\ \/ headersBad /\ Fail("bad_header") /\ UNCHANGED wire
     \/ ~headersBad /\ requestBad /\ Fail("bad_url") /\ UNCHANGED wire
     \/ ~headersBad /\ ~requestBad /\ Smuggles /\ Fail("outbound_exfil_blocked") /\ UNCHANGED wire
     \/ ~headersBad /\ ~requestBad /\ ~Smuggles
          /\ \E w \in Built(cred, job.agent) : wire' = OnWire(Injected(cred, w))
          /\ Proceed("send")
  /\ UNCHANGED <<cred, job, answers, pinned, dialed, gunzips, response, delivered>>

\* Step 8, while the name may resolve to something else by now.  The transport asks
\* for gzip itself unless the request says what it accepts or wants a range.
Send(later) ==
  /\ stage = "send"
  /\ \/ /\ Sendable(cred)
        /\ dialed' = DialTarget(pinned, later)
        /\ gunzips' = (DOMAIN wire \cap {"Accept-Encoding", "Range"} = {} /\ job.method # "HEAD")
        /\ Proceed("receive")
     \/ /\ Fail("upstream_unreachable")
        /\ UNCHANGED <<dialed, gunzips>>
  /\ UNCHANGED <<cred, job, answers, pinned, wire, response, delivered>>

-------------------------------------------------------------------------------
(* Step 9. *)

\* Faulty variant of Opaque: the encoding is not looked at.
OpaqueIgnored(r) == FALSE

\* The body cannot be read: it is encoded, and the transport does not decode it.
Opaque(r) == r.encoding \notin {"", "identity"} /\ ~(r.encoding = "gzip" /\ gunzips)

\* readCapped: the repetitions that are read whole.  HEAD has no body.
Read(r) == IF r.cut = "within" /\ job.method # "HEAD" THEN r.body ELSE {}

\* What the scan can see of it.
Legible(r) ==
  IF r.encoding \in {"", "identity"} \/ (r.encoding = "gzip" /\ gunzips) THEN Read(r) ELSE {}

\* sanitizeRespHeaders: a Location off the allowlist is dropped, a relative one too.
LocationKept(location) == HostAllowed(Normalized(location), cred.patterns)

Sanitized(r) ==
  [body |-> Read(r),
   values |-> IF Guarded(cred, r.values) THEN r.values ELSE << >>,
   location |-> IF r.location = NoLocation \/ ~LocationKept(r.location) THEN NoLocation
                ELSE r.location]

\* The answer comes, or the client gives up.
Receive(r) ==
  /\ stage = "receive"
  /\ response' = r
  /\ IF Opaque(r) \/ ContainsAny(cred, Legible(r))
       THEN Fail("reflect_blocked") /\ UNCHANGED delivered
       ELSE Fail("ok") /\ delivered' = Sanitized(r)
  /\ UNCHANGED <<cred, job, answers, pinned, wire, dialed, gunzips>>

GiveUp ==
  /\ stage = "receive"
  /\ Fail("upstream_unreachable")
  /\ UNCHANGED <<cred, job, answers, pinned, wire, dialed, gunzips, response, delivered>>

ExchangeNext ==
  \/ \E c \in Offers : Put(c)
  \/ \E r \in Requests : Ask(r)
  \/ Check
  \/ \E found \in Answers : Resolve(found)
  \/ Build
  \/ \E later \in Answers : Send(later)
  \/ \E r \in Responses : Receive(r)
  \/ GiveUp

ExchangeSpec == ExchangeInit /\ [][ExchangeNext]_exchangeVars

-------------------------------------------------------------------------------
(* Properties. *)

Covered(host) == \E p \in cred.patterns : Covers(p, host)
Sent == dialed # NoIP
LongSecret == cred.secret \in {"long", "broken"}

\* The allowlist decides by labels, of the request and of a Location the agent is
\* given: exactly what a pattern names, or what has its labels behind at least one
\* of its own, goes past it, so that following a Location by hand does not take the
\* secret elsewhere.  The code compares characters (host.go:88-109,
\* fetch.go:156-164, 294-311).
AllowlistByLabels ==
  /\ pinned # NoIP \/ Sent => Covered(Normalized(job.host))
  /\ result = "host_not_allowed" => ~Covered(Normalized(job.host))
  /\ delivered # Nothing /\ delivered.location # NoLocation =>
       Covered(Normalized(delivered.location))

\* The address that is connected to is one the resolver gave when the name was
\* checked, and nothing it gave then was off limits for this credential, whatever
\* it says when the connection is made (dial.go:47-71, 88-99).
DialedWasChecked ==
  Sent => /\ dialed \notin NeverRanges
          /\ dialed \in PrivateRanges => cred.private
          /\ job.host.ip = NoIP =>
               /\ dialed \in ToSet(answers)
               /\ ToSet(answers) \cap NeverRanges = {}
               /\ ToSet(answers) \cap PrivateRanges # {} => cred.private

\* A request that leaves carries the credential in its own header, and nothing of
\* the agent's in that one or in one the agent may not set, however it spells the
\* names and in whatever order the map is ranged over; a credential that was
\* accepted is never one the transport would leave out (auth.go:9-76,
\* validate.go:19-29).
AuthorityWins ==
  Sent => /\ InjectName(cred) \in DOMAIN wire
          /\ \A n \in DOMAIN wire :
               n \in Denylist \cup {InjectName(cred)} => n = InjectName(cred) /\ wire[n] = "auth"

\* The agent's own part of a request that leaves does not hold the secret, not in a
\* body that is decoded on the way either (fetch.go:197-204, 278-292).
OutboundClean ==
  Sent /\ LongSecret => /\ job.exposes = {}
                        /\ \A n \in DOMAIN wire : wire[n] # "secret"

\* What the agent gets repeats neither the secret nor the injected value whole, raw
\* or in base64, hex or percent encoding, in the body or in any value of a header,
\* compressed or not (fetch.go:221-241, reflect.go:10-64).
NothingEchoed ==
  delivered # Nothing /\ LongSecret =>
    \A e \in delivered.body \cup UNION ToSet(delivered.values) : e.form = "other"

-------------------------------------------------------------------------------
(* A statement of a comment that the code does not meet. *)

\* dial.go:23-25: "ULA, NAT64, and CGNAT are always denied".
UlaAndCgnatDenied == dialed \notin {"ula", "cgnat"}
===============================================================================
