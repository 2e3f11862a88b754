-------------------------- MODULE MCProcessSwitch --------------------------
(* The instance of ProcessSwitch that TLC checks: three registers, two     *)
(* values, a slice of five cycles of which the end of the handler takes two *)
EXTENDS ProcessSwitch

CONSTANTS x1, t0, t1, v0, v1, junk, c0, c1

MCRegs == {x1, t0, t1}
MCValues == {v0, v1}
MCCode == {c0, c1}
MCCycles ==
  [s \in Stages \cup {"boot"} |-> IF s \in {"save", "resume"} THEN 2 ELSE 1]
=============================================================================
