------------------------------ MODULE MCOutbox ------------------------------
(* Instances of Outbox for TLC. *)
EXTENDS Outbox

CONSTANTS sale, void, adjust

\* A checkout and a void go before an inventory adjustment.
MCPriority == [t \in Txs |-> IF t \in {sale, void} THEN 1 ELSE 2]

=============================================================================
