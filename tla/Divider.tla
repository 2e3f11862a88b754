------------------------------ MODULE Divider ------------------------------
(***************************************************************************)
(* The shift-subtract divider of arithmetic/Divider.scala, one step per    *)
(* clock cycle.  Registers are numbers of W bits; the vector quotient is   *)
(* the number its bits form.  The inputs of a cycle are chosen in Next.    *)
(***************************************************************************)
EXTENDS Integers

CONSTANTS
  W,          \* bitWidth, the width of the operands
  Pow2,       \* Pow2[i]: the weight of bit i
  NoResult    \* no answer at the outputs

ASSUME WidthAssumption == W \in Nat \ {0}

ASSUME Pow2Assumption ==
  /\ Pow2 \in [0..W -> Nat \ {0}]
  /\ Pow2[0] = 1
  /\ \A i \in 1..W : Pow2[i] = 2 * Pow2[i - 1]

MaxWord == Pow2[W] - 1
Word == 0..MaxWord

VARIABLES
  remainder, quotient, divisor, count, busy, doneReg,
  request     \* [a, b]: the operands of the last start that was accepted

vars == <<remainder, quotient, divisor, count, busy, doneReg, request>>

-----------------------------------------------------------------------------
Bit(n, i) == (n \div Pow2[i]) % 2

(* Bit i of a vector set to 1.                                             *)
SetBit(n, i) == IF Bit(n, i) = 1 THEN n ELSE n + Pow2[i]

(* A value assigned to a register of W bits.                               *)
Truncated(n) == n % Pow2[W]

Init ==
  /\ remainder = 0 /\ quotient = 0 /\ divisor = 0 /\ count = 0
  /\ busy = FALSE /\ doneReg = FALSE
  /\ request = [a |-> 0, b |-> 0]

(* No start and no division in progress: done falls, nothing else changes. *)
Idle ==
  /\ ~busy
  /\ doneReg' = FALSE
  /\ UNCHANGED <<remainder, quotient, divisor, count, busy, request>>

(* Operands with an immediate answer, in the order the code tests them.    *)
FastQuotient(a, b) ==
  CASE b = 1           -> a
    [] b = 0           -> MaxWord
    [] b > 1 /\ a = b  -> 1
    [] OTHER           -> 0

FastRemainder(a, b) == IF b # 1 /\ a # b THEN a ELSE 0

IsFast(a, b) == b \in {0, 1} \/ a <= b

(* A start is accepted when no division is in progress.                    *)
Anytime == TRUE                        \* mutant: the test of busy is missing
Ready == ~busy

(* A start that is answered in the next cycle.                             *)
StartFast(a, b) ==
  /\ Ready
  /\ IsFast(a, b)
  /\ quotient' = FastQuotient(a, b)
  /\ remainder' = FastRemainder(a, b)
  /\ doneReg' = TRUE
  /\ request' = [a |-> a, b |-> b]
  /\ UNCHANGED <<divisor, count, busy>>

(* The quotient is cleared before its bits are set one by one, and the     *)
(* steps are counted from 0.                                               *)
NotCleared == quotient                 \* mutant: the last quotient stays
Cleared == 0
NotReset == count                      \* mutant: the last count stays
Reset == 0

(* A start that begins the bit-by-bit division.                            *)
StartSlow(a, b) ==
  /\ Ready
  /\ ~IsFast(a, b)
  /\ remainder' = 0 /\ quotient' = Cleared /\ count' = Reset
  /\ divisor' = b
  /\ busy' = TRUE
  /\ doneReg' = FALSE
  /\ request' = [a |-> a, b |-> b]

(* The remainder, shifted and extended by a bit, holds the divisor.        *)
FitsStrictly(temp) == temp > divisor   \* mutant: > in place of >=
Fits(temp) == temp >= divisor

(* The step that ends the division.                                        *)
LastStep == count + 1 = W

(* One step of the division, on the dividend that is at the input in this  *)
(* cycle: only the divisor was stored at the start.                        *)
Step(a) ==
  LET index == W - 1 - count
      temp  == 2 * remainder + Bit(a, index)
      fits  == Fits(temp)
  IN /\ busy
     /\ remainder' = Truncated(IF fits THEN temp - divisor ELSE temp)
     /\ quotient' = IF fits THEN SetBit(quotient, index) ELSE quotient
     /\ count' = count + 1
     /\ busy' = ~LastStep
     /\ doneReg' = LastStep
     /\ UNCHANGED <<divisor, request>>

(* The unit that owns the divider keeps the dividend at the input while    *)
(* the divider is busy: its instruction and source registers are held.     *)
Held(a) == busy => a = request.a

(* A clock cycle; start is ignored while a division is in progress.        *)
Clock(start, a, b) ==
  \/ ~start /\ Idle
  \/ start /\ StartFast(a, b)
  \/ start /\ StartSlow(a, b)
  \/ Step(a)

Next == \E start \in BOOLEAN, a, b \in Word : Held(a) /\ Clock(start, a, b)

Spec == Init /\ [][Next]_vars /\ WF_vars(Next)
-----------------------------------------------------------------------------
(* Properties.                                                             *)

(* The registers keep their widths, and the index of a step is a bit of    *)
(* the dividend.                                                           *)
TypeOK ==
  /\ remainder \in Word /\ quotient \in Word /\ divisor \in Word
  /\ count \in 0..W /\ (busy => count < W)
  /\ busy \in BOOLEAN /\ doneReg \in BOOLEAN
  /\ request \in [a : Word, b : Word]

(* After count steps, the leading count bits of the dividend have been     *)
(* divided: the quotient so far and the partial remainder account for them *)
(* exactly, and the remainder is smaller than the divisor.                 *)
PartialDivision ==
  busy => LET p == Pow2[W - count]
          IN /\ (request.a \div p) * p = quotient * request.b + remainder * p
             /\ remainder < request.b

Phase == IF busy THEN "working" ELSE IF doneReg THEN "answered" ELSE "idle"

D == INSTANCE Division WITH
       phase  <- Phase,
       result <- IF doneReg THEN [q |-> quotient, r |-> remainder] ELSE NoResult

(* Every accepted request gets one pulse of done, with its own quotient    *)
(* and remainder at the outputs, and division by zero is answered.         *)
ImplementsDivision == D!Spec

(* A division that was begun ends.                                         *)
AnswerComes == busy ~> doneReg

-----------------------------------------------------------------------------
(* The inductive invariant of the proofs: PartialDivision, that no quotient *)
(* bit below the current one is set, and a right answer when done is up.    *)
IInv ==
  /\ TypeOK
  /\ busy => /\ ~doneReg
             /\ divisor = request.b /\ divisor > 0
             /\ quotient % Pow2[W - count] = 0
  /\ PartialDivision
  /\ doneReg => D!Answers([q |-> quotient, r |-> remainder], request)
=============================================================================
