------------------------------- MODULE Sealing --------------------------------
(***************************************************************************)
(* src/internal/secret/secret.go: two formats of the vault file.  A        *)
(* standalone file starts with a header, in which the password wraps a     *)
(* random key; a suite file has none, and its key comes from outside.      *)
(* Ciphers are symbolic: a box opens under the key it was sealed with.     *)
(***************************************************************************)
CONSTANTS
  Passwords,
  Deks,     \* keys the suite hands over
  Randoms,  \* keys that Create may draw, each of them once
  Zeros,    \* a wiped key
  Nonces,   \* how the nonce of a body may begin: "plain", or "magic" for "JVS1"
  NoHeader

ASSUME SealingAssumption ==
  /\ Passwords \cap Deks = {}
  /\ Deks \cap Randoms = {}
  /\ Zeros \notin Deks \cup Randoms
  /\ Nonces \subseteq {"plain", "magic"}
  /\ NoHeader \notin [password : Passwords, key : Randoms]

Sources == Passwords \cup Deks
Keys == Deks \cup Randoms \cup {Zeros}
Headers == [password : Passwords, key : Randoms] \cup {NoHeader}

\* A keyring: its header, and its key or, if it shares its caller's slice, none of its own.
Rings == [header : Headers, key : Keys, slice : {"own", "shared"}]

\* Create.
NewRing(password, key) ==
  [header |-> [password |-> password, key |-> key], key |-> key, slice |-> "own"]

\* Faulty variant of FromDEK: the caller's slice is kept, not copied.
FromDEKShared(dek) == [header |-> NoHeader, key |-> dek, slice |-> "shared"]

FromDEK(dek) == [header |-> NoHeader, key |-> dek, slice |-> "own"]

\* Seal, of the document d: the header as it is, a fresh nonce, the body.
SealedFile(header, key, nonce, d) ==
  [header |-> header, nonce |-> nonce, key |-> key, doc |-> d]

\* The first bytes of a file are "JVS1".
HasMagic(f) == f.header # NoHeader \/ f.nonce = "magic"

\* Open: a wrong password does not unwrap the key, and another key not the body.  (A
\* body that begins like a header has no wrapped key in it.)
OpensWithPassword(password, f) ==
  /\ f.header # NoHeader
  /\ f.header.password = password
  /\ f.header.key = f.key

\* OpenSealed: what begins like a header is refused.
OpensWithDEK(dek, f) == ~HasMagic(f) /\ f.key = dek

Opens(source, f) ==
  IF source \in Passwords THEN OpensWithPassword(source, f) ELSE OpensWithDEK(source, f)

\* Faulty variant of OpenedRing: the header is not carried over.
OpenedRingBare(source, f) == [header |-> NoHeader, key |-> f.key, slice |-> "own"]

\* The keyring of a file that source opens.
OpenedRing(source, f) ==
  IF source \in Passwords THEN [header |-> f.header, key |-> f.key, slice |-> "own"]
  ELSE FromDEK(source)
===============================================================================
