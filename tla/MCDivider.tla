----------------------------- MODULE MCDivider -----------------------------
(* The divider at a width of three bits: every pair of operands.            *)
EXTENDS Divider

MCPow2 == [i \in 0..W |-> 2^i]
=============================================================================
