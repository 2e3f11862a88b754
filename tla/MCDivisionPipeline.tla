------------------------ MODULE MCDivisionPipeline ------------------------
EXTENDS DivisionPipeline

MCPow2 == [i \in 0..W |-> 2^i]
=============================================================================
