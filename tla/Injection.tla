------------------------------- MODULE Injection -------------------------------
(***************************************************************************)
(* src/internal/vault/validate.go, auth.go and reflect.go as operators:    *)
(* which credentials are stored, how their secret gets onto a request, and *)
(* what of an answer is withheld because it repeats the secret.            *)
(*                                                                         *)
(* A secret is "none", "short" (under 6 bytes), "long", or "broken" (long, *)
(* with a line break).  A name is spelled "exact", in other capitals       *)
(* ("case") or with blanks around it ("padded").  template says that the   *)
(* placeholder is there, among other text.  The value of a header of the   *)
(* agent is "plain", "broken", or holds this credential's "secret".        *)
(***************************************************************************)
EXTENDS Egress

Spellings == {"exact", "case", "padded"}
FieldValues == {"plain", "secret", "broken"}

Credentials ==
  [type : STRING, secret : {"none", "short", "long", "broken"},
   header : [name : STRING, spelling : Spellings],
   username : BOOLEAN, template : BOOLEAN, patterns : SUBSET AllowPatterns,
   private : BOOLEAN, insecure : BOOLEAN]

AgentFields == [name : STRING, spelling : Spellings, value : FieldValues]

AuthTypes == {"bearer", "header", "basic", "custom"}

\* isReservedHeader and denylistHeaders, which compare trimmed names in lower case.
Reserved == {"Authorization", "Proxy-Authorization", "Cookie", "Host", "Content-Length"}
Denylist == Reserved \cup {"Accept-Encoding"}

\* Faulty variant of ShapeValid: a header credential may use any name.
ShapeValidAnyName(c) ==
  /\ c.type \in AuthTypes
  /\ c.secret # "none"
  /\ c.type = "header" => c.header.name # ""
  /\ c.type = "basic" => c.username
  /\ c.type = "custom" => c.template

\* validateCredential, the part about the secret and how it is injected.
ShapeValid(c) ==
  /\ c.type \in AuthTypes
  /\ c.secret # "none"
  /\ c.type = "header" => c.header.name # "" /\ c.header.name \notin Reserved
  /\ c.type = "basic" => c.username
  /\ c.type = "custom" => c.template

\* The part about the allowlist.  (That about the tiers is Broker's.)
PatternsValid(c) ==
  /\ c.patterns # {}
  /\ \A p \in c.patterns : Normalized(p.base) # NoHost

-------------------------------------------------------------------------------
(* The request. *)

InjectName(c) == IF c.type = "header" THEN c.header.name ELSE "Authorization"

\* Faulty variant of Copied: names are compared as the agent spells them.
CopiedExact(c, agent) ==
  {h \in agent : h.spelling # "exact" \/ h.name \notin Denylist \cup {InjectName(c)}}

\* The agent's headers buildHeaders looks at: what it controls itself is skipped.
Copied(c, agent) == {h \in agent : h.name \notin Denylist \cup {InjectName(c)}}

\* validHeaderField and validHeaderValue, for all of them.
HeadersValid(c, agent) ==
  \A h \in Copied(c, agent) : h.spelling # "padded" /\ h.value # "broken"

\* What buildHeaders may return: the map is ranged over in any order, and the last
\* of several spellings of a name wins.
Built(c, agent) ==
  LET names == {h.name : h \in Copied(c, agent)} IN
  {w \in [names -> FieldValues] :
     \A n \in names : \E h \in Copied(c, agent) : h.name = n /\ h.value = w[n]}

\* injectAuth writes last.
Injected(c, w) ==
  [n \in DOMAIN w \cup {InjectName(c)} |-> IF n = InjectName(c) THEN "auth" ELSE w[n]]

\* The transport refuses a field name with blanks and a value with a line break;
\* Basic encodes the secret first.
Sendable(c) ==
  /\ c.type = "header" => c.header.spelling # "padded"
  /\ c.type # "basic" => c.secret # "broken"

\* Of the headers of a request the transport writes these; the others it sets itself.
OnWire(w) == [n \in DOMAIN w \ {"Host", "Content-Length"} |-> w[n]]

-------------------------------------------------------------------------------
(* The answer.  A part of it that repeats the secret is [what, form]: "secret" or *)
(* "value", the whole value injected, in the form the upstream chose.             *)

\* Forms that turn a text into one that holds those of its parts.
Charwise == {"raw", "hex", "percent"}
Encodings == Charwise \cup {"base64"}
Forms == Encodings \cup {"other"}
Echoes == [what : {"secret", "value"}, form : Forms]

\* secretNeedles of what injectAuth returns.  A short secret is not looked for as it
\* is, but the longer forms of it are.
Needles(c) ==
  {e \in Echoes :
     /\ e.form \in Encodings
     /\ c.secret = "short" /\ (e.what = "secret" \/ c.type = "header")
          => e.form \in {"hex", "base64"}}

\* What a repetition holds besides itself: "Bearer s" and a filled template hold s.
Holds(c, e) ==
  {e} \cup IF e.what = "value" /\ e.form \in Charwise /\ c.type \in {"bearer", "header", "custom"}
             THEN {[what |-> "secret", form |-> e.form]}
             ELSE {}

\* containsAny, for a set of repetitions.
ContainsAny(c, echoes) == \E e \in echoes : Holds(c, e) \cap Needles(c) # {}

\* Faulty variant of Guarded: only the first value of a header is looked at.
GuardedFirst(c, values) == values = << >> \/ ~ContainsAny(c, values[1])

\* reflectGuardHeaders keeps a header when none of its values repeats the secret.
Guarded(c, values) == \A i \in DOMAIN values : ~ContainsAny(c, values[i])
===============================================================================
