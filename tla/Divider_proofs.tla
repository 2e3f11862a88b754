--------------------------- MODULE Divider_proofs ---------------------------
(***************************************************************************)
(* The divider is right for every width and every pair of operands: proofs *)
(* of its invariant and of the refinement of Division.                     *)
(***************************************************************************)
EXTENDS Divider, TLAPS

-----------------------------------------------------------------------------
(* Arithmetic.                                                             *)

(* Quotient and remainder by a positive number.                            *)
LEMMA DivMod ==
  ASSUME NEW n \in Nat, NEW m \in Nat \ {0}
  PROVE  /\ n \div m \in Nat
         /\ n % m \in Nat /\ n % m < m
         /\ n = (n \div m) * m + (n % m)
  OBVIOUS

(* Half of the uniqueness of the quotient.                                 *)
LEMMA QuotientNotAbove ==
  ASSUME NEW k \in Nat, NEW q \in Nat, NEW m \in Nat, NEW r \in Nat, NEW s \in Nat,
         r < m, k * m + s = q * m + r
  PROVE  k <= q
<1> SUFFICES ASSUME k > q PROVE FALSE
  OBVIOUS
<1>1. (k - q - 1) * m >= 0
  OBVIOUS
<1>2. (k - q - 1) * m = k * m - q * m - m
  OBVIOUS
<1>3. k * m \in Nat /\ q * m \in Nat
  OBVIOUS
<1> QED
  BY <1>1, <1>2, <1>3

(* The quotient is the only number that leaves a small remainder.          *)
LEMMA DivUnique ==
  ASSUME NEW n \in Nat, NEW m \in Nat \ {0}, NEW q \in Nat, NEW r \in Nat,
         r < m, n = q * m + r
  PROVE  n \div m = q /\ n % m = r
<1>1. PICK k \in Nat, s \in Nat : k = n \div m /\ s = n % m /\ s < m /\ n = k * m + s
  BY DivMod
<1>2. k <= q /\ q <= k
  BY <1>1, QuotientNotAbove
<1>3. k = q
  BY <1>2
<1>4. s = r
  <2>1. q * m \in Nat /\ q * m + s = q * m + r
    BY <1>1, <1>3
  <2> QED
    BY <1>1, <2>1
<1> QED
  BY <1>1, <1>3, <1>4

(* Products of the weights.                                                *)
LEMMA Halves ==
  ASSUME NEW e \in Nat, NEW b \in Nat, NEW h \in Nat
  PROVE  (2 * e + b) * h = e * (2 * h) + b * h
OBVIOUS

LEMMA Regroup ==
  ASSUME NEW q \in Nat, NEW r \in Nat, NEW b \in Nat, NEW h \in Nat, NEW d \in Nat
  PROVE  /\ r * (2 * h) + b * h = (2 * r + b) * h
         /\ q * d + (2 * r + b) * h = (q + h) * d + (2 * r + b - d) * h
OBVIOUS

(* A quotient by h gives the one by 2h.                                    *)
LEMMA HalfQuotient ==
  ASSUME NEW n \in Nat, NEW h \in Nat \ {0}, NEW m \in Nat \ {0}, NEW r \in Nat,
         NEW e \in Nat, NEW b \in {0, 1},
         m = 2 * h, r < h, n = (2 * e + b) * h + r
  PROVE  n \div m = e
<1>1. PICK s \in Nat : s = b * h + r /\ s < m
  OBVIOUS
<1>2. n = e * m + s
  BY <1>1, Halves
<1> QED
  BY <1>1, <1>2, DivUnique

(* k and c are the quotients of n by h and by m, b is the last bit of k.   *)
Quotients(n, h, m, k, c, b) ==
  k = n \div h /\ c = n \div m /\ b = k % 2 /\ k = 2 * c + b

(* The quotient by h is the one by 2h followed by one more bit.            *)
LEMMA NextBit ==
  ASSUME NEW n \in Nat, NEW h \in Nat \ {0}, NEW m \in Nat \ {0}, m = 2 * h
  PROVE  \E k \in Nat, c \in Nat, b \in {0, 1} : Quotients(n, h, m, k, c, b)
<1>1. PICK k \in Nat, r \in Nat : k = n \div h /\ r < h /\ n = k * h + r
  BY DivMod
<1>2. PICK e \in Nat, b \in {0, 1} : k = 2 * e + b /\ b = k % 2
  <2>1. k % 2 \in {0, 1} /\ k \div 2 \in Nat /\ k = 2 * (k \div 2) + (k % 2)
    OBVIOUS
  <2> QED
    BY <2>1, Zenon
<1>3. n = (2 * e + b) * h + r
  BY <1>1, <1>2, Zenon
<1>4. n \div m = e
  BY <1>1, <1>2, <1>3, HalfQuotient
<1> QED
  BY <1>1, <1>2, <1>4, Zenon DEF Quotients

(* A multiple of 2h has no bit of weight h and stays a multiple of h.      *)
LEMMA NoLowBit ==
  ASSUME NEW n \in Nat, NEW h \in Nat \ {0}, n % (2 * h) = 0
  PROVE  (n \div h) % 2 = 0 /\ n % h = 0 /\ (n + h) % h = 0
<1>1. PICK m \in Nat \ {0} : m = 2 * h
  OBVIOUS
<1>2. PICK c \in Nat : n = c * m
  BY <1>1, DivMod
<1>3. PICK d \in Nat : d = 2 * c
  BY <1>2
<1>4. n = d * h + 0
  BY <1>1, <1>2, <1>3
<1>5. n \div h = d /\ n % h = 0
  BY <1>4, DivUnique
<1>6. PICK e \in Nat, t \in Nat : e = d + 1 /\ t = n + h /\ t = e * h + 0
  BY <1>4
<1>7. t % h = 0
  BY <1>6, DivUnique
<1> QED
  BY <1>3, <1>5, <1>6, <1>7

(* One step of long division: a partial quotient q and remainder r for the *)
(* leading part c of n give those for k, which is one bit b longer.        *)
LEMMA LongDivisionStep ==
  ASSUME NEW h \in Nat \ {0}, NEW d \in Nat, NEW q \in Nat, NEW r \in Nat,
         NEW k \in Nat, NEW c \in Nat, NEW b \in Nat,
         k = 2 * c + b,
         c * (2 * h) = q * d + r * (2 * h)
  PROVE  /\ k * h = q * d + (2 * r + b) * h
         /\ k * h = (q + h) * d + (2 * r + b - d) * h
<1>1. k * h = c * (2 * h) + b * h
  BY Halves
<1>2. r * (2 * h) + b * h = (2 * r + b) * h
  BY Regroup
<1>3. k * h = q * d + (2 * r + b) * h
  BY <1>1, <1>2
<1> QED
  BY <1>3, Regroup

(* A partial quotient is not above the dividend.                           *)
LEMMA QuotientBound ==
  ASSUME NEW n \in Nat, NEW h \in Nat \ {0}, NEW d \in Nat \ {0},
         NEW q \in Nat, NEW r \in Nat, NEW k \in Nat, NEW s \in Nat,
         k * h = q * d + r * h, n = k * h + s
  PROVE  q <= n
<1>1. q * (d - 1) >= 0 /\ q * (d - 1) = q * d - q
  OBVIOUS
<1>2. r * h \in Nat
  OBVIOUS
<1>3. q * d \in Nat
  OBVIOUS
<1> QED
  BY <1>1, <1>2, <1>3

(* A small number is its own remainder.                                    *)
LEMMA SmallMod ==
  ASSUME NEW n \in Nat, NEW m \in Nat \ {0}, n < m
  PROVE  n % m = n /\ n \div m = 0
<1>1. n = 0 * m + n
  OBVIOUS
<1> QED
  BY <1>1, DivUnique

(* The weights.                                                            *)
LEMMA Weights ==
  ASSUME NEW c \in 0..(W - 1)
  PROVE  /\ Pow2[W - c] \in Nat \ {0}
         /\ Pow2[W - 1 - c] \in Nat \ {0}
         /\ Pow2[W - c] = 2 * Pow2[W - 1 - c]
<1>1. W - c \in 1..W /\ W - 1 - c \in 0..W /\ (W - c) - 1 = W - 1 - c
  BY WidthAssumption
<1> QED
  BY <1>1, Pow2Assumption

(* The words are the numbers below the weight after the last bit.          *)
LEMMA Words ==
  /\ Pow2[W] \in Nat \ {0}
  /\ MaxWord \in Nat
  /\ \A n \in Nat : n \in Word <=> n < Pow2[W]
  /\ Word \subseteq Nat
<1>1. Pow2[W] \in Nat \ {0}
  BY WidthAssumption, Pow2Assumption
<1> QED
  BY <1>1 DEF Word, MaxWord

-----------------------------------------------------------------------------
(* The invariant.                                                          *)

LEMMA InitIInv == Init => IInv
<1> SUFFICES ASSUME Init PROVE IInv
  OBVIOUS
<1>1. 0 \in Word /\ 0 \in 0..W
  BY Words, WidthAssumption
<1> QED
  BY <1>1 DEF Init, IInv, TypeOK, PartialDivision

(* Operands that are answered at once are answered rightly.                *)
LEMMA FastAnswer ==
  ASSUME NEW a \in Word, NEW b \in Word, IsFast(a, b)
  PROVE  /\ FastQuotient(a, b) \in Word /\ FastRemainder(a, b) \in Word
         /\ D!Answers([q |-> FastQuotient(a, b), r |-> FastRemainder(a, b)], [a |-> a, b |-> b])
<1> a \in Nat /\ b \in Nat
  BY Words
<1>1. CASE b = 1
  <2>1. FastQuotient(a, b) = a /\ FastRemainder(a, b) = 0
    BY <1>1 DEF FastQuotient, FastRemainder
  <2> QED
    BY <1>1, <2>1, Words DEF D!Answers, Word
<1>2. CASE b = 0
  <2>1. FastQuotient(a, b) = MaxWord /\ FastRemainder(a, b) = a
    BY <1>2 DEF FastQuotient, FastRemainder
  <2> QED
    BY <1>2, <2>1, Words DEF D!Answers, Word
<1>3. CASE b > 1 /\ a = b
  <2>1. FastQuotient(a, b) = 1 /\ FastRemainder(a, b) = 0
    BY <1>3 DEF FastQuotient, FastRemainder
  <2>2. 0 \in Word /\ 1 \in Word
    BY <1>3, Words DEF Word
  <2> QED
    BY <1>3, <2>1, <2>2 DEF D!Answers
<1>4. CASE b > 1 /\ a < b
  <2>1. FastQuotient(a, b) = 0 /\ FastRemainder(a, b) = a
    BY <1>4 DEF FastQuotient, FastRemainder
  <2>2. 0 \in Word
    BY Words DEF Word
  <2> QED
    BY <1>4, <2>1, <2>2 DEF D!Answers
<1> QED
  BY <1>1, <1>2, <1>3, <1>4 DEF IsFast

LEMMA IdleIInv == IInv /\ Idle => IInv'
<1> SUFFICES ASSUME IInv, Idle PROVE IInv'
  OBVIOUS
<1>1. TypeOK'
  BY DEF IInv, Idle, TypeOK
<1> QED
  BY <1>1 DEF IInv, Idle, PartialDivision

LEMMA FastIInv ==
  ASSUME IInv, NEW a \in Word, NEW b \in Word, StartFast(a, b)
  PROVE  IInv'
<1>1. TypeOK'
  BY FastAnswer DEF IInv, StartFast, Ready, TypeOK
<1>2. ~busy' /\ doneReg'
  BY DEF StartFast, Ready
<1>3. D!Answers([q |-> quotient, r |-> remainder], request)'
  <2>1. quotient' = FastQuotient(a, b) /\ remainder' = FastRemainder(a, b) /\ request' = [a |-> a, b |-> b]
    BY DEF StartFast
  <2>2. D!Answers([q |-> quotient', r |-> remainder'], request')
    BY <2>1, FastAnswer DEF StartFast
  <2> QED
    BY <2>2 DEF D!Answers
<1> QED
  BY <1>1, <1>2, <1>3 DEF IInv, PartialDivision

LEMMA SlowIInv ==
  ASSUME IInv, NEW a \in Word, NEW b \in Word, StartSlow(a, b)
  PROVE  IInv'
<1> a \in Nat /\ b \in Nat
  BY Words
<1>1. TypeOK'
  <2>1. 0 \in Word /\ 0 \in 0..W /\ 0 < W
    BY Words, WidthAssumption
  <2> QED
    BY <2>1 DEF StartSlow, TypeOK, Cleared, Reset
<1>2. b > 0
  BY DEF StartSlow, IsFast
<1>3. W - count' = W /\ count' < W
  BY WidthAssumption DEF StartSlow, Reset
<1>4. a \div Pow2[W] = 0 /\ 0 % Pow2[W] = 0
  BY Words, SmallMod
<1>5. PartialDivision'
  <2>1. (request.a \div Pow2[W - count])' = 0
    BY <1>3, <1>4 DEF StartSlow
  <2>2. PICK m \in Nat : m = Pow2[W]
    BY Words
  <2>3. 0 * m = 0 * b + 0 * m
    OBVIOUS
  <2>4. quotient' = 0 /\ remainder' = 0 /\ request'.b = b /\ Pow2[W - count'] = m
    BY <1>3, <2>2 DEF StartSlow, Cleared, Reset
  <2> QED
    BY <1>2, <2>1, <2>3, <2>4 DEF PartialDivision
<1>6. ~doneReg' /\ divisor' = request'.b /\ divisor' > 0 /\ quotient' % Pow2[W - count'] = 0
  BY <1>2, <1>3, <1>4 DEF StartSlow, Cleared, Reset
<1> QED
  BY <1>1, <1>3, <1>5, <1>6 DEF IInv

(* The arithmetic of a step: h is the weight of the bit it divides, p the  *)
(* weight of the bit before, b the bit and t the extended remainder.       *)
LEMMA StepArithmetic ==
  ASSUME NEW h \in Nat \ {0}, NEW d \in Nat \ {0},
         NEW q \in Nat, NEW r \in Nat, NEW t, NEW q2, NEW r2,
         NEW k \in Nat, NEW c \in Nat, NEW b \in {0, 1},
         k = 2 * c + b, t = 2 * r + b,
         c * (2 * h) = q * d + r * (2 * h), r < d,
         q2 = IF t >= d THEN q + h ELSE q,
         r2 = IF t >= d THEN t - d ELSE t
  PROVE  /\ q2 \in Nat /\ r2 \in Nat /\ r2 < d
         /\ k * h = q2 * d + r2 * h
<1>1. q2 \in Nat /\ r2 \in Nat /\ r2 < d
  <2>1. t \in Nat /\ t < 2 * d
    OBVIOUS
  <2> QED
    BY <2>1
<1>2. /\ k * h = q * d + (2 * r + b) * h
      /\ k * h = (q + h) * d + (2 * r + b - d) * h
  BY LongDivisionStep
<1>3. k * h = q2 * d + r2 * h
  <2>1. CASE t >= d
    <3>1. q2 = q + h /\ r2 = 2 * r + b - d
      BY <2>1
    <3> QED
      BY <1>2, <3>1, Zenon
  <2>2. CASE ~(t >= d)
    <3>1. q2 = q /\ r2 = 2 * r + b
      BY <2>2
    <3> QED
      BY <1>2, <3>1, Zenon
  <2> QED
    BY <2>1, <2>2
<1> QED
  BY <1>1, <1>3

LEMMA StepIInv ==
  ASSUME IInv, NEW a \in Word, Held(a), Step(a)
  PROVE  IInv'
<1>1. /\ busy /\ a = request.a /\ a \in Nat
      /\ divisor = request.b /\ divisor \in Word /\ divisor \in Nat \ {0}
      /\ count \in 0..(W - 1) /\ quotient \in Nat /\ remainder \in Nat
  BY Words, WidthAssumption DEF IInv, TypeOK, Held, Step
<1>2. PICK h \in Nat \ {0}, p \in Nat \ {0} :
        h = Pow2[W - 1 - count] /\ p = Pow2[W - count] /\ p = 2 * h
  BY <1>1, Weights
<1>3. PICK k \in Nat, c \in Nat, b \in {0, 1} : Quotients(a, h, p, k, c, b)
  <2>1. a \in Nat /\ p = 2 * h
    BY <1>1, <1>2
  <2> QED
    BY <2>1, NextBit
<1>4. k = a \div h /\ c = a \div p /\ b = k % 2 /\ k = 2 * c + b
  BY <1>3 DEF Quotients
<1>5. PICK s \in Nat : a = k * h + s
  <2>1. a = (a \div h) * h + (a % h) /\ a % h \in Nat
    BY <1>1, DivMod
  <2> QED
    BY <1>4, <2>1, Zenon
<1>6. PICK t : t = 2 * remainder + b
  OBVIOUS
<1>7. PICK q2, r2 : /\ q2 = IF t >= divisor THEN quotient + h ELSE quotient
                    /\ r2 = IF t >= divisor THEN t - divisor ELSE t
  OBVIOUS
<1>8. /\ c * (2 * h) = quotient * divisor + remainder * (2 * h)
      /\ remainder < divisor /\ quotient % (2 * h) = 0
  BY <1>1, <1>2, <1>4, Zenon DEF IInv, PartialDivision
<1>9. /\ q2 \in Nat /\ r2 \in Nat /\ r2 < divisor /\ q2 <= a
      /\ k * h = q2 * divisor + r2 * h
  <2>0. divisor \in Nat \ {0} /\ quotient \in Nat /\ remainder \in Nat
    BY <1>1
  <2>1. /\ q2 \in Nat /\ r2 \in Nat /\ r2 < divisor
        /\ k * h = q2 * divisor + r2 * h
    <3>1. k = 2 * c + b
      BY <1>4
    <3> QED
      BY <2>0, <3>1, <1>6, <1>7, <1>8, StepArithmetic
  <2> QED
    BY <1>1, <1>5, <2>1, QuotientBound
<1>10. q2 \in Word /\ r2 \in Word /\ r2 < Pow2[W]
  BY <1>1, <1>9, Words DEF Word
<1>11. (quotient \div h) % 2 = 0 /\ quotient % h = 0 /\ (quotient + h) % h = 0
  BY <1>1, <1>8, NoLowBit
<1>12. Bit(a, W - 1 - count) = b /\ Bit(quotient, W - 1 - count) = 0
  <2>1. \A n : Bit(n, W - 1 - count) = (n \div h) % 2
    BY <1>2, Zenon DEF Bit
  <2> QED
    BY <1>4, <1>11, <2>1, Zenon
<1>13. quotient' = q2 /\ q2 % h = 0
  <2>1. SetBit(quotient, W - 1 - count) = quotient + h
    BY <1>2, <1>12 DEF SetBit
  <2>2. quotient' = IF t >= divisor THEN SetBit(quotient, W - 1 - count) ELSE quotient
    BY <1>6, <1>12 DEF Step, Fits
  <2> QED
    BY <1>7, <1>11, <2>1, <2>2
<1>14. remainder' = r2
  <2>1. remainder' = Truncated(r2)
    BY <1>6, <1>7, <1>12 DEF Step, Fits
  <2>2. Truncated(r2) = r2
    BY <1>9, <1>10, Words, SmallMod DEF Truncated
  <2> QED
    BY <2>1, <2>2
<1>15. /\ count' = count + 1 /\ busy' = (count + 1 # W) /\ doneReg' = (count + 1 = W)
       /\ divisor' = divisor /\ request' = request
  BY DEF Step, LastStep
<1>16. TypeOK'
  <2>1. count' \in 0..W /\ (count + 1 # W => count' < W)
    <3>1. count' = count + 1
      BY <1>15
    <3> QED
      BY <3>1, <1>1, WidthAssumption
  <2>2. busy' \in BOOLEAN /\ doneReg' \in BOOLEAN
    BY <1>15, Zenon
  <2>3. busy' => count + 1 # W
    BY <1>15, Zenon
  <2>4. busy' => count' < W
    BY <2>1, <2>3, Zenon
  <2> QED
    BY <1>10, <1>13, <1>14, <1>15, <2>1, <2>2, <2>4 DEF IInv, TypeOK
<1>17. CASE count + 1 # W
  <2>0. busy' /\ ~doneReg'
    BY <1>15, <1>17, Zenon
  <2>1. W - count' = W - 1 - count /\ count' < W /\ busy' /\ ~doneReg'
    BY <1>1, <1>15, <1>17, <2>0, WidthAssumption
  <2>2. Pow2[W - count'] = h
    BY <1>2, <2>1
  <2>3. PartialDivision'
    <3>1. request'.a \div Pow2[W - count'] = k /\ request'.b = divisor
      BY <1>1, <1>4, <1>15, <2>2, Zenon
    <3> QED
      BY <1>9, <1>13, <1>14, <2>2, <3>1, Zenon DEF PartialDivision
  <2>4. divisor' = request'.b /\ divisor' > 0 /\ quotient' % Pow2[W - count'] = 0
    BY <1>1, <1>13, <1>15, <2>2
  <2> QED
    BY <1>16, <2>1, <2>3, <2>4 DEF IInv
<1>18. CASE count + 1 = W
  <2>1. ~busy' /\ doneReg'
    BY <1>15, <1>18
  <2>2. h = 1
    <3>1. W - 1 - count = 0
      BY <1>1, <1>18, WidthAssumption
    <3> QED
      BY <1>2, <3>1, Pow2Assumption
  <2>3. k = a
    BY <1>1, <1>4, <2>2
  <2>4. a = q2 * divisor + r2
    <3>1. a * 1 = a /\ r2 * 1 = r2
      BY <1>1, <1>9
    <3> QED
      BY <1>9, <2>2, <2>3, <3>1
  <2>5. request'.a = a /\ request'.b = divisor
    BY <1>1, <1>15
  <2>6. D!Answers([q |-> q2, r |-> r2], request')
    BY <1>1, <1>9, <2>4, <2>5 DEF D!Answers
  <2>7. D!Answers([q |-> quotient, r |-> remainder], request)'
    BY <1>13, <1>14, <2>6 DEF D!Answers
  <2> QED
    BY <1>16, <2>1, <2>7 DEF IInv, PartialDivision
<1> QED
  BY <1>17, <1>18

LEMMA NextIInv == IInv /\ [Next]_vars => IInv'
<1> SUFFICES ASSUME IInv, [Next]_vars PROVE IInv'
  OBVIOUS
<1>1. CASE UNCHANGED vars
  BY <1>1 DEF vars, IInv, TypeOK, PartialDivision
<1>2. ASSUME NEW start \in BOOLEAN, NEW a \in Word, NEW b \in Word, Held(a), Clock(start, a, b)
      PROVE  IInv'
  BY <1>2, IdleIInv, FastIInv, SlowIInv, StepIInv DEF Clock
<1> QED
  BY <1>1, <1>2 DEF Next

-----------------------------------------------------------------------------
(* The invariant holds in every reachable state.                           *)
THEOREM Invariance == Spec => []IInv
  BY InitIInv, NextIInv, PTL DEF Spec

(* The registers keep their widths: no shift, subtraction or quotient bit  *)
(* of the division loses a bit, for every width.                           *)
THEOREM TypeCorrect == Spec => []TypeOK
<1>1. IInv => TypeOK
  BY DEF IInv
<1> QED
  BY <1>1, Invariance, PTL

(* While a division runs, quotient and remainder account exactly for the   *)
(* bits of the dividend that have been divided.                            *)
THEOREM PartialDivisionHolds == Spec => []PartialDivision
<1>1. IInv => PartialDivision
  BY DEF IInv
<1> QED
  BY <1>1, Invariance, PTL

-----------------------------------------------------------------------------
(* The divider implements Division.                                        *)

LEMMA InitDivision == Init => D!Init
<1> SUFFICES ASSUME Init PROVE D!Init
  OBVIOUS
<1>1. 0 \in Word
  BY Words
<1> QED
  BY <1>1 DEF Init, D!Init, D!Request, Phase

LEMMA IdleDivision == IInv /\ Idle => [D!Next]_(D!vars)
<1> SUFFICES ASSUME IInv, Idle PROVE [D!Next]_(D!vars)
  OBVIOUS
<1>1. Phase' = "idle" /\ request' = request /\ ~doneReg'
  BY DEF Idle, Phase
<1>2. CASE doneReg
  <2>1. Phase = "answered"
    BY <1>2 DEF Idle, Phase
  <2> QED
    BY <1>1, <2>1 DEF D!Next, D!Release
<1>3. CASE ~doneReg
  <2>1. Phase = "idle"
    BY <1>3 DEF Idle, Phase
  <2> QED
    BY <1>1, <1>3, <2>1 DEF D!vars
<1> QED
  BY <1>2, <1>3

LEMMA FastDivision ==
  ASSUME IInv, IInv', NEW a \in Word, NEW b \in Word, StartFast(a, b)
  PROVE  D!Next
<1>1. Phase # "working" /\ Phase' = "answered" /\ doneReg'
  BY DEF StartFast, Ready, Phase
<1>2. request' \in D!Request /\ [q |-> quotient', r |-> remainder'] \in D!Result
  BY DEF IInv, TypeOK, D!Request, D!Result
<1>3. D!Answers([q |-> quotient', r |-> remainder'], request')
  BY <1>1 DEF IInv, D!Answers
<1> QED
  BY <1>1, <1>2, <1>3 DEF D!Next, D!AcceptAndAnswer

LEMMA SlowDivision ==
  ASSUME IInv, IInv', NEW a \in Word, NEW b \in Word, StartSlow(a, b)
  PROVE  D!Next
<1>1. Phase # "working" /\ Phase' = "working" /\ ~doneReg'
  BY DEF StartSlow, Ready, Phase
<1>2. request' \in D!Request
  BY DEF IInv, TypeOK, D!Request
<1> QED
  BY <1>1, <1>2 DEF D!Next, D!Accept

LEMMA StepDivision ==
  ASSUME IInv, IInv', NEW a \in Word, Step(a)
  PROVE  [D!Next]_(D!vars)
<1>1. Phase = "working" /\ ~doneReg /\ request' = request
  BY DEF IInv, Step, Phase
<1>2. CASE LastStep
  <2>1. Phase' = "answered" /\ doneReg'
    BY <1>2 DEF Step, Phase
  <2>2. [q |-> quotient', r |-> remainder'] \in D!Result
    BY DEF IInv, TypeOK, D!Result
  <2>3. D!Answers([q |-> quotient', r |-> remainder'], request)
    BY <1>1, <2>1 DEF IInv, D!Answers
  <2> QED
    BY <1>1, <2>1, <2>2, <2>3 DEF D!Next, D!Answer
<1>3. CASE ~LastStep
  <2>1. Phase' = "working" /\ ~doneReg'
    BY <1>3 DEF Step, Phase
  <2> QED
    BY <1>1, <2>1 DEF D!vars
<1> QED
  BY <1>2, <1>3

LEMMA NextDivision == IInv /\ IInv' /\ [Next]_vars => [D!Next]_(D!vars)
<1> SUFFICES ASSUME IInv, IInv', [Next]_vars PROVE [D!Next]_(D!vars)
  OBVIOUS
<1>1. CASE UNCHANGED vars
  BY <1>1 DEF vars, D!vars, Phase
<1>2. ASSUME NEW start \in BOOLEAN, NEW a \in Word, NEW b \in Word, Held(a), Clock(start, a, b)
      PROVE  [D!Next]_(D!vars)
  BY <1>2, IdleDivision, FastDivision, SlowDivision, StepDivision DEF Clock
<1> QED
  BY <1>1, <1>2 DEF Next

(* Every accepted request is answered once, with its own quotient and      *)
(* remainder, for every width and every pair of operands.                  *)
THEOREM Refinement == Spec => ImplementsDivision
<1>1. Init /\ [][Next]_vars /\ []IInv => D!Init /\ [][D!Next]_(D!vars)
  BY InitDivision, NextDivision, PTL
<1> QED
  BY <1>1, Invariance, PTL DEF Spec, ImplementsDivision, D!Spec
=============================================================================
