------------------------------ MODULE AtomicFile ------------------------------
(***************************************************************************)
(* What a save promises: the file holds one whole document.  It is replaced *)
(* at once or not at all, and losing power goes back to a document that was *)
(* there before, whole as well.  VaultStore's Save rests on this.           *)
(***************************************************************************)
CONSTANTS Contents, Nothing

VARIABLES content, \* what a reader finds
          durable  \* what a reader finds after a power loss

AtomicInit == content = Nothing /\ durable = Nothing

Replace(d) == content' = d /\ UNCHANGED durable
Settle == durable' = content /\ UNCHANGED content
LosePower == content' = durable /\ UNCHANGED durable

AtomicNext == (\E d \in Contents : Replace(d)) \/ Settle \/ LosePower

AtomicSpec == AtomicInit /\ [][AtomicNext]_<<content, durable>>
===============================================================================
