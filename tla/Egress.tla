-------------------------------- MODULE Egress --------------------------------
(***************************************************************************)
(* src/internal/vault/host.go and dial.go: which hosts and addresses a     *)
(* request with a credential may go to, as operators.                      *)
(*                                                                         *)
(* A host as written in a URL or an allowlist is [ip, text]: an address    *)
(* literal (ip is its range), or a text with no colon that is no literal.  *)
(* A text is a sequence of characters, one for each class host.go tells    *)
(* apart: "0" a digit, "a" a letter up to f, "x", "g" any other letter,    *)
(* "G" a capital, "." and "!" for what IDNA refuses.  An address is known  *)
(* by its range; a mapped IPv4 address is in the range of its IPv4 form,   *)
(* as the methods of net.IP and To4 have it.                               *)
(***************************************************************************)
EXTENDS Naturals, Sequences, FiniteSets, SequencesExt

NoIP == "no address"
NoHost == [ip |-> NoIP, text |-> << >>]

HostText(t) == [ip |-> NoIP, text |-> t]
Literal(range) == [ip |-> range, text |-> << >>]

-------------------------------------------------------------------------------
(* Addresses. *)

NeverRanges == {"loopback", "linklocal", "multicast", "unspecified", "nat64"}
PrivateRanges == {"rfc1918", "ula", "cgnat"}
Ranges == NeverRanges \cup PrivateRanges \cup {"public"}

Characters == {"0", "a", "x", "g", "G", ".", "!"}
Hosts == [ip : Ranges \cup {NoIP}, text : Seq(Characters)]
AllowPatterns == [wild : BOOLEAN, base : Hosts]

\* isDeniedIP.
Denied(range, private) ==
  \/ range \in NeverRanges
  \/ ~private /\ range \in PrivateRanges

\* Faulty variant of Pinned: only the address that is dialled is checked.
PinnedFirst(host, answers, private) ==
  IF answers = << >> \/ Denied(answers[1], private) THEN NoIP ELSE answers[1]

\* resolveAndPin: a literal is not resolved, an error or no answer is refused, and
\* so is a name with a denied address among its answers.
Pinned(host, answers, private) ==
  LET found == IF host.ip # NoIP THEN <<host.ip>> ELSE answers IN
  IF found = << >> \/ \E i \in DOMAIN found : Denied(found[i], private)
    THEN NoIP
    ELSE found[1]

\* Faulty variant of DialTarget: the transport resolves the name again.
DialTargetAgain(pinned, later) == IF later = << >> THEN pinned ELSE later[1]

\* pinnedDialContext, whatever the name resolves to by then.
DialTarget(pinned, later) == pinned

-------------------------------------------------------------------------------
(* Host names. *)

Lower(t) == [i \in DOMAIN t |-> IF t[i] = "G" THEN "g" ELSE t[i]]

WithoutDot(t) == IF t # << >> /\ Last(t) = "." THEN Front(t) ELSE t

\* Spellings of numbers that a resolver might take for an address.
LooksNumeric(t) ==
  \/ IsPrefix(<<"0", "x">>, t)
  \/ ToSet(t) \subseteq {"0", "a", "x", "."} /\ "0" \in ToSet(t)

\* normalizeHost; NoHost is its error.
Normalized(h) ==
  LET t == Lower(WithoutDot(h.text)) IN
  IF h.ip # NoIP THEN h
  ELSE IF t = << >> \/ LooksNumeric(t) \/ "!" \in ToSet(t) THEN NoHost
  ELSE HostText(t)

\* Faulty variant of UnderWildcard: a suffix of the name will do.
UnderSuffix(text, base) == IsSuffix(base, text) /\ Len(text) > Len(base)

\* The test of hostAllowed for "*." and a base.
UnderWildcard(text, base) ==
  /\ IsSuffix(<<".">> \o base, text)
  /\ Len(text) > Len(base) + 1

\* hostAllowed, for a normalized host and patterns [wild, base] as they are stored:
\* one that cannot be normalized matches nothing.  (The base of a wildcard is a text.)
HostAllowed(host, patterns) ==
  \E p \in patterns :
    LET base == Normalized(p.base) IN
    /\ base # NoHost
    /\ IF p.wild
         THEN host.ip = NoIP /\ base.ip = NoIP /\ UnderWildcard(host.text, base.text)
         ELSE host = base

-------------------------------------------------------------------------------
(* What the documents promise, label by label. *)

\* Where labels begin and end: at the dots and around the whole.
Cuts(text) == {0, Len(text) + 1} \cup {i \in DOMAIN text : text[i] = "."}

\* The k-th smallest of a set of numbers.
Rank(set, i) == Cardinality({j \in set : j < i})
Nth(set, k) == CHOOSE i \in set : Rank(set, i) = k - 1

\* The labels of a name: what stands between its dots.
Labels(text) ==
  [k \in 1..(Cardinality(Cuts(text)) - 1) |->
     SubSeq(text, Nth(Cuts(text), k) + 1, Nth(Cuts(text), k + 1) - 1)]

\* A pattern covers a name when the name is it, or has its labels behind at least
\* one more, which is not a single empty one.
Covers(p, host) ==
  LET base == Normalized(p.base) IN
  IF p.wild
    THEN /\ base # NoHost /\ base.ip = NoIP /\ host.ip = NoIP
         /\ \E k \in 1..(Len(Labels(host.text)) - 1) :
              /\ SubSeq(Labels(host.text), k + 1, Len(Labels(host.text))) = Labels(base.text)
              /\ SubSeq(Labels(host.text), 1, k) # << << >> >>
    ELSE base # NoHost /\ host = base
===============================================================================
