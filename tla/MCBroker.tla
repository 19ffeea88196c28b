------------------------------- MODULE MCBroker -------------------------------
(* Two credentials that compete for one name: A reads h1 freely and writes to  *)
(* it with approval; B reaches h2 only, with approval even for reads.  They    *)
(* share no host, so a fetch that mixed them would send one's secret to the    *)
(* other's host.                                                               *)
EXTENDS Broker, TLC

CONSTANTS n1, h1, h2

CredA == [secret |-> "A", hosts |-> {h1}, read |-> "auto", write |-> "confirm",
          insecure |-> FALSE, private |-> FALSE, perishable |-> FALSE, limited |-> FALSE]
CredB == [secret |-> "B", hosts |-> {h2}, read |-> "confirm", write |-> "deny",
          insecure |-> TRUE, private |-> TRUE, perishable |-> TRUE, limited |-> TRUE]

MCCreds == {CredA, CredB}
OneCred == {CredA}

Ask(method, host, form) == [name |-> n1, method |-> method, host |-> host, form |-> form]

\* A read and a write that A and B treat differently, and three that an URL rule, a
\* private address or the parser may refuse.
AskedRequests ==
  {Ask("read", h1, "https"), Ask("write", h1, "https"), Ask("read", h2, "http"),
   Ask("write", h2, "oddport"), Ask("read", h1, "malformed")}

ReadAndWrite == {Ask("read", h1, "https"), Ask("write", h1, "https")}

MCEntries == Calls \X Verdicts
MCTiers == {"", "auto", "confirm", "deny"}
===============================================================================
