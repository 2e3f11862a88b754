----------------------------- MODULE Division -----------------------------
(***************************************************************************)
(* What a sequential divider promises: every request it accepts is         *)
(* answered once, with the quotient and remainder of the operands it was   *)
(* given, before it accepts the next request.  Division by zero answers    *)
(* with the largest word and the dividend, as the RISC-V M extension asks. *)
(***************************************************************************)
EXTENDS Integers

CONSTANTS
  Word,       \* the words, 0..MaxWord
  MaxWord,    \* the largest word: all bits set
  NoResult

VARIABLES
  phase,      \* "idle", "working" or "answered"
  request,    \* [a, b]: the operands accepted last
  result      \* [q, r] while phase is "answered"

vars == <<phase, request, result>>

Request == [a : Word, b : Word]
Result == [q : Word, r : Word]

(* res is an answer to req.                                                *)
Answers(res, req) ==
  IF req.b = 0
  THEN res.q = MaxWord /\ res.r = req.a
  ELSE req.a = res.q * req.b + res.r /\ res.r < req.b

Init ==
  /\ phase = "idle"
  /\ request \in Request
  /\ result = NoResult

Accept ==
  /\ phase # "working"
  /\ request' \in Request
  /\ phase' = "working"
  /\ result' = NoResult

(* Operands that need no work are answered at once.                        *)
AcceptAndAnswer ==
  /\ phase # "working"
  /\ request' \in Request
  /\ phase' = "answered"
  /\ result' \in Result /\ Answers(result', request')

Answer ==
  /\ phase = "working"
  /\ phase' = "answered"
  /\ result' \in Result /\ Answers(result', request)
  /\ UNCHANGED request

Release ==
  /\ phase = "answered"
  /\ phase' = "idle"
  /\ result' = NoResult
  /\ UNCHANGED request

Next == Accept \/ AcceptAndAnswer \/ Answer \/ Release

Spec == Init /\ [][Next]_vars
=============================================================================
