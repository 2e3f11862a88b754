----------------------------- MODULE MCSession -----------------------------
(* A program of three instructions with a store to the display in it; a    *)
(* socket for two messages; a RUN that looks at the queue once.            *)
EXTENDS Session

MCProgram == <<"alu", "print", "alu">>
=============================================================================
