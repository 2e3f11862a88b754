------------------------------- MODULE MCPage -------------------------------
(* Two programs and a pc outside of both; windows of two words in a memory *)
(* of six, with a base that is no word's address and one that is no        *)
(* number; two keys, and a second simulation.                              *)
EXTENDS Page, TLC

(* Nothing tells one program from another.                                 *)
AnyProgram == Permutations(Programs)
=============================================================================
