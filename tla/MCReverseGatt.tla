----------------------------- MODULE MCReverseGatt -----------------------------
(* A phone that may change its address, and another phone. *)
EXTENDS ReverseGatt

CONSTANTS mine, other, a1, a2, b1

MCPhones == {mine, other}
MCAddresses == {a1, a2, b1}
MCOwner == [a \in MCAddresses |-> IF a = b1 THEN other ELSE mine]

=============================================================================
