---------------------------- MODULE ReportProofs ----------------------------
(***************************************************************************)
(* udivmod64 divides: for every word width W, dividend and divisor, the    *)
(* shift-subtract loop returns the Euclidean quotient and remainder, and   *)
(* no shift in it loses a bit.  On it rests that the numbers main prints   *)
(* are rounded correctly, for every frequency and pair of word widths that *)
(* RangeAssumption relates, and every cycle and run count: no product      *)
(* wraps, no cast cuts a quotient that fits.                               *)
(***************************************************************************)
EXTENDS Report, NumberFacts

-----------------------------------------------------------------------------
(* Part 1: udivmod64.                                                      *)

(* The powers of two the invariant multiplies are positive, Modulus is     *)
(* twice Half.                                                             *)
LEMMA Powers ==
  /\ Modulus \in Nat \ {0}
  /\ Half \in Nat \ {0}
  /\ Modulus = 2 * Half
  /\ \A k \in 0..W : Pow2[k] \in Nat \ {0}
<1>1. W \in 0..W /\ W - 1 \in 0..(W-1) /\ W - 1 \in 0..W
  BY WidthAssumption
<1>2. Pow2[(W-1)+1] = 2 * Pow2[W-1]
  BY <1>1, Pow2Assumption
<1>3. (W-1)+1 = W
  BY WidthAssumption
<1>4. QED
  BY <1>1, <1>2, <1>3, Pow2Assumption DEF Modulus, Half

(* Shifting a word left drops exactly its top bit (num <<= 1 together with *)
(* num >> 63 loses nothing); a word below Half is doubled.                 *)
LEMMA ShiftSplits ==
  ASSUME NEW x \in Word
  PROVE  /\ TopBit(x) \in {0, 1}
         /\ ShiftLeft(x) = 2 * x - TopBit(x) * Modulus
         /\ ShiftLeft(x) \in Word
         /\ 2 * x < Modulus => ShiftLeft(x) = 2 * x
<1>1. CASE x < Half
  <2>1. x \div Half = 0
    BY <1>1, Powers DEF Word
  <2>2. (2 * x) % Modulus = 2 * x
    BY <1>1, Powers DEF Word
  <2>3. QED
    BY <1>1, <2>1, <2>2, Powers DEF Word, TopBit, ShiftLeft
<1>2. CASE x >= Half
  <2>1. x \div Half = 1
    BY <1>2, Powers DEF Word
  <2>2. (2 * x) % Modulus = 2 * x - Modulus
    BY <1>2, Powers DEF Word
  <2>3. QED
    BY <1>2, <2>1, <2>2, Powers DEF Word, TopBit, ShiftLeft
<1>3. QED
  BY <1>1, <1>2, Powers DEF Word

(* Facts of a state inside the loop that both the type correctness and the *)
(* invariance of the next step rest on.                                    *)
LEMMA LoopBounds ==
  ASSUME DivInv, dpc = "loop", i < W
  PROVE  /\ Pow2[i] \in Nat \ {0} /\ Pow2[i+1] = 2 * Pow2[i]
         /\ Pow2[i+1] * Pow2[W-(i+1)] = Modulus
         /\ Pow2[i+1] <= Modulus
         /\ 2 * r < Modulus /\ 2 * q < Modulus
<1> DEFINE P == Pow2[i]  R == Pow2[W-(i+1)]
<1>1. /\ i \in 0..(W-1) /\ W-(i+1) \in 0..(W-1) /\ (W-(i+1))+1 = W-i
      /\ i + 1 \in 0..W /\ i \in 0..W /\ W-(i+1) \in 0..W
  BY WidthAssumption DEF DivInv, UdivTypeOK
<1>2. Pow2[i+1] = 2 * P /\ Pow2[W-i] = 2 * R
  BY <1>1, Pow2Assumption
<1>3. P \in Nat \ {0} /\ R \in Nat \ {0} /\ Pow2[i+1] \in Nat \ {0}
  BY <1>1, Powers
<1>4. P * (2 * R) = Modulus
  BY <1>2 DEF DivInv
<1>5. (2 * P) * R = P * (2 * R)
  BY <1>3
<1>6. Pow2[i+1] * R = Modulus
  BY <1>2, <1>4, <1>5
<1>7. Pow2[i+1] <= Modulus
  BY <1>3, <1>6, FactorBound
<1>8. 2 * P <= Modulus
  BY <1>2, <1>7
<1>9. 2 * q < Modulus
  BY <1>8, <1>3, Powers DEF DivInv, UdivTypeOK, Word
<1>10. 2 * r < Modulus
  BY <1>8, <1>3, Powers DEF DivInv, UdivTypeOK, Word
<1>11. QED
  BY <1>2, <1>3, <1>6, <1>7, <1>9, <1>10

(* The arithmetic of one iteration, on plain integers: b is the bit shifted*)
(* in, e the quotient bit.                                                 *)
LEMMA IterationArithmetic ==
  ASSUME NEW D \in Int, NEW P \in Int, NEW Q \in Int, NEW d \in Int, NEW R \in Int,
         NEW m \in Int, NEW n \in Int, NEW b \in Int, NEW e \in Int,
         D * P = (Q * d + R) * m + n
  PROVE  D * (2 * P) =
           ((2 * Q + e) * d + (2 * R + b - e * d)) * m + (2 * n - b * m)
<1>1. (2 * Q + e) * d = 2 * (Q * d) + e * d
  OBVIOUS
<1>2. (2 * Q + e) * d + (2 * R + b - e * d) = 2 * (Q * d + R) + b
  BY <1>1
<1>3. (2 * (Q * d + R) + b) * m = 2 * ((Q * d + R) * m) + b * m
  OBVIOUS
<1>4. D * (2 * P) = 2 * (D * P)
  OBVIOUS
<1>5. QED
  BY <1>2, <1>3, <1>4

LEMMA UdivInitInv == UdivInit => DivInv
  BY Powers, WidthAssumption DEF UdivInit, DivInv, UdivTypeOK, Word

(* A call starts with nothing consumed and the quotient 0 = 2^0 - 1.       *)
LEMMA UdivCallInv ==
  ASSUME DivInv, NEW a \in Word, NEW b \in Word, UdivCall(a, b)
  PROVE  DivInv'
<1>1. 0 \in 0..W /\ W \in 0..W /\ W - 0 = W
  BY WidthAssumption
<1>2. Pow2[0] = 1 /\ Pow2[W-0] = Modulus /\ Modulus \in Nat \ {0}
  BY <1>1, Pow2Assumption, Powers DEF Modulus
<1>3. UdivTypeOK'
  BY <1>1, <1>2 DEF UdivCall, CallWith, DivInv, UdivTypeOK, Word
<1>4. Consumed'
  <2>1. /\ dividend' = a /\ num' = a /\ i' = 0 /\ q' = 0 /\ r' = 0 /\ den' = b
        /\ a \in Int /\ b \in Int
    BY Powers DEF UdivCall, CallWith, Word
  <2>2. a * Pow2[0] = (0 * b + 0) * Modulus + a
    BY <1>2, <2>1
  <2>3. QED
    BY <2>1, <2>2 DEF Consumed, Modulus
<1>5. /\ Pow2[i'] * Pow2[W-i'] = Modulus /\ q' < Pow2[i'] /\ r' < Pow2[i']
      /\ IF den' = 0 THEN q' = Pow2[i'] - 1 ELSE r' < den'
  BY <1>2, Powers DEF UdivCall, CallWith, Word
<1>6. QED
  BY <1>3, <1>4, <1>5 DEF DivInv, UdivCall, CallWith, Modulus

LEMMA UdivIterateInv ==
  ASSUME DivInv, UdivIterate
  PROVE  DivInv'
<1> DEFINE b == TopBit(num)
           e == IF ShiftedIn >= den THEN 1 ELSE 0
<1>1. dpc = "loop" /\ i < W /\ i \in 0..W /\ dpc' = dpc
  BY DEF UdivIterate, Iterate, DivInv, UdivTypeOK
<1>2. /\ Pow2[i] \in Nat \ {0} /\ Pow2[i+1] = 2 * Pow2[i]
      /\ Pow2[i+1] * Pow2[W-(i+1)] = Modulus
      /\ Pow2[i+1] <= Modulus
      /\ 2 * r < Modulus /\ 2 * q < Modulus
  BY <1>1, LoopBounds
<1>3. /\ dividend \in Int /\ num \in Int /\ den \in Nat /\ den \in Int
      /\ q \in Nat /\ r \in Nat /\ Modulus \in Int /\ Half \in Int
  BY Powers DEF DivInv, UdivTypeOK, Word
<1>4. /\ b \in {0, 1} /\ num' = 2 * num - b * Modulus /\ num' \in Word
  BY ShiftSplits DEF DivInv, UdivTypeOK, UdivIterate, Iterate
<1>5. ShiftedIn = 2 * r + b
  BY <1>2, ShiftSplits DEF ShiftedIn, DivInv, UdivTypeOK
<1>6. q' = 2 * q + e /\ r' = 2 * r + b - e * den
  <2>1. ShiftLeft(q) = 2 * q
    BY <1>2, ShiftSplits DEF DivInv, UdivTypeOK
  <2>2. q' = 2 * q + e
    BY <2>1 DEF UdivIterate, Iterate
  <2>3. r' = 2 * r + b - e * den
    BY <1>3, <1>4, <1>5 DEF UdivIterate, Iterate
  <2>4. QED
    BY <2>2, <2>3
<1>7. Consumed'
  <2>1. dividend * Pow2[i] = (q * den + r) * Modulus + num
    BY <1>1 DEF DivInv, Consumed
  <2>2. dividend * (2 * Pow2[i]) =
          ((2 * q + e) * den + (2 * r + b - e * den)) * Modulus
            + (2 * num - b * Modulus)
    <3> HIDE DEF b, e
    <3>1. e \in Int /\ b \in Int /\ Pow2[i] \in Int
      BY <1>2, <1>4 DEF e
    <3>2. QED
      BY <2>1, <3>1, <1>3, IterationArithmetic
  <2>3. dividend' = dividend /\ den' = den /\ i' = i + 1
    BY DEF UdivIterate, Iterate
  <2>4. QED
    BY <2>2, <2>3, <1>2, <1>4, <1>6 DEF Consumed, Modulus
<1>8. /\ q' < Pow2[i'] /\ q' \in Nat /\ r' < Pow2[i'] /\ r' \in Nat
      /\ IF den' = 0 THEN q' = Pow2[i'] - 1 ELSE r' < den'
  <2>1. q < Pow2[i] /\ r < Pow2[i] /\ i' = i + 1 /\ den' = den
    BY <1>1 DEF DivInv, UdivIterate, Iterate
  <2>2. CASE den = 0
    <3>1. e = 1 /\ q = Pow2[i] - 1
      BY <2>2, <1>1, <1>3, <1>4, <1>5 DEF DivInv
    <3>2. q' = 2 * q + 1 /\ r' = 2 * r + b
      BY <3>1, <2>2, <1>3, <1>4, <1>6
    <3>3. QED
      BY <3>1, <3>2, <2>1, <2>2, <1>2, <1>3, <1>4
  <2>3. CASE den # 0
    <3>1. r < den
      BY <2>3, <1>1 DEF DivInv
    <3>2. CASE ShiftedIn >= den
      <4>1. q' = 2 * q + 1 /\ r' = 2 * r + b - den
        BY <3>2, <1>3, <1>4, <1>6
      <4>2. QED
        BY <4>1, <3>1, <3>2, <2>1, <2>3, <1>2, <1>3, <1>4, <1>5
    <3>3. CASE ~(ShiftedIn >= den)
      <4>1. q' = 2 * q /\ r' = 2 * r + b
        BY <3>3, <1>3, <1>4, <1>6
      <4>2. QED
        BY <4>1, <3>1, <3>3, <2>1, <2>3, <1>2, <1>3, <1>4, <1>5
    <3>4. QED
      BY <3>2, <3>3
  <2>4. QED
    BY <2>2, <2>3
<1>9. UdivTypeOK'
  <2>1. q' \in Word
    BY <1>2, <1>8, Powers DEF Word, UdivIterate, Iterate
  <2>2. r' \in Word
    BY <1>2, <1>8, Powers DEF Word, UdivIterate, Iterate
  <2>3. QED
    BY <2>1, <2>2, <1>1, <1>4, WidthAssumption
    DEF UdivTypeOK, UdivIterate, Iterate, DivInv, Word, Modulus, Half
<1>10. QED
  BY <1>1, <1>2, <1>7, <1>8, <1>9 DEF DivInv, UdivIterate, Iterate, Modulus

LEMMA UdivReturnInv ==
  ASSUME DivInv, UdivReturn
  PROVE  DivInv'
<1>1. UdivTypeOK'
  BY DEF UdivReturn, DivInv, UdivTypeOK, Word, Modulus, Half
<1>2. QED
  BY <1>1 DEF UdivReturn, DivInv, Consumed, Modulus

(* DivInv is an inductive invariant of the divider.                        *)
THEOREM UdivInvariant == UdivSpec => []DivInv
<1>1. UdivInit => DivInv
  BY UdivInitInv
<1>2. DivInv /\ [UdivNext]_udivVars => DivInv'
  <2> SUFFICES ASSUME DivInv, [UdivNext]_udivVars PROVE DivInv'
    OBVIOUS
  <2>1. CASE \E a \in Word, b \in Word : dpc # "loop" /\ UdivCall(a, b)
    BY <2>1, UdivCallInv
  <2>2. CASE UdivIterate
    BY <2>2, UdivIterateInv
  <2>3. CASE UdivReturn
    BY <2>3, UdivReturnInv
  <2>4. CASE UNCHANGED udivVars
    BY <2>4 DEF udivVars, DivInv, UdivTypeOK, Consumed, Word, Modulus, Half
  <2>5. QED
    BY <2>1, <2>2, <2>3, <2>4 DEF UdivNext
<1>3. QED
  BY <1>1, <1>2, PTL DEF UdivSpec

(* Every word of the divider stays a word, and its counter within the loop.*)
THEOREM UdivTypes == UdivSpec => []UdivTypeOK
<1>1. DivInv => UdivTypeOK
  BY DEF DivInv
<1>2. QED
  BY <1>1, UdivInvariant, PTL

(* The values returned follow from the invariant at i = W: the consumed    *)
(* number is then the whole dividend.                                      *)
LEMMA ReturnedValues == DivInv => DivideCorrect
<1> SUFFICES ASSUME DivInv, dpc = "ret"
             PROVE IF den = 0 THEN q = Modulus - 1 /\ rem = dividend
                   ELSE dividend = q * den + rem /\ rem \in 0..(den - 1)
  BY DEF DivideCorrect
<1>1. /\ i = W /\ rem = r /\ Pow2[i] = Modulus
      /\ IF den = 0 THEN q = Modulus - 1 ELSE r < den
  BY DEF DivInv, Modulus
<1>2. /\ dividend \in Int /\ num \in 0..(Modulus-1) /\ den \in Nat /\ q \in Nat
      /\ r \in Nat /\ Modulus \in Nat \ {0}
  BY Powers DEF DivInv, UdivTypeOK, Word
<1>3. q * den + r \in Int
  BY <1>2
<1>4. dividend * Modulus = (q * den + r) * Modulus + num
  BY <1>1 DEF DivInv, Consumed
<1>5. dividend = q * den + r
  BY <1>2, <1>3, <1>4, ScaledGap
<1>6. QED
  BY <1>1, <1>2, <1>5

(* udivmod64 returns the Euclidean quotient and remainder, for every width *)
(* and every pair of arguments.                                            *)
THEOREM UdivCorrect == UdivSpec => []DivideCorrect
  BY UdivInvariant, ReturnedValues, PTL

(* No shift in the loop overflows the word.                                *)
THEOREM UdivLosesNoBit == UdivSpec => []NoBitLost
<1>1. DivInv => NoBitLost
  BY LoopBounds DEF NoBitLost
<1>2. QED
  BY <1>1, UdivInvariant, PTL

-----------------------------------------------------------------------------
(* Part 2: the arithmetic of main.                                         *)
P32 == Pow2[Word32Bits]

(* The numbers of src/main.cpp satisfy RangeAssumption.                    *)
LEMMA CodeInRange ==
  LET modulus == 18446744073709551616  pow32 == 4294967296
      cpuFreq == 180000000             nano  == 1000000000
  IN  /\ modulus % pow32 = 0
      /\ cpuFreq > 1 /\ Milli < pow32
      /\ cpuFreq * (Milli + 1) <= modulus
      /\ pow32 * (nano + cpuFreq) <= modulus
BY DEF Milli

LEMMA Ranges ==
  /\ P32 \in Nat \ {0} /\ Modulus \in Nat \ {0} /\ Modulus % P32 = 0
  /\ CpuFreq \in Nat \ {0, 1} /\ Nano \in Nat \ {0} /\ Milli < P32
  /\ CpuFreq * (Milli + 1) <= Modulus
  /\ P32 * Nano + P32 * CpuFreq <= Modulus
  /\ P32 < Modulus /\ CpuFreq < Modulus
<1>1. Word32Bits \in 0..W
  BY ReportAssumption, WidthAssumption
<1>2. P32 \in Nat \ {0} /\ Modulus \in Nat \ {0}
  BY <1>1, Powers DEF P32
<1>3. /\ CpuFreq \in Nat \ {0, 1} /\ Nano \in Nat \ {0} /\ Milli < P32
      /\ Modulus % P32 = 0
  BY ReportAssumption, RangeAssumption DEF P32
<1>4. P32 * (Nano + CpuFreq) = P32 * Nano + P32 * CpuFreq
  BY <1>2, <1>3
<1>5. P32 * Nano + P32 * CpuFreq <= Modulus
  BY <1>4, RangeAssumption DEF P32
<1>6. P32 <= P32 * Nano /\ P32 <= P32 * CpuFreq
  BY <1>2, <1>3, FactorBound
<1>7. P32 < Modulus
  BY <1>2, <1>3, <1>5, <1>6
<1>8. CpuFreq < Modulus
  BY <1>2, <1>3, RangeAssumption DEF Milli
<1> QED
  BY <1>2, <1>3, <1>5, <1>7, <1>8, RangeAssumption

(* A quotient is below a bound if the dividend is below its multiple, ...  *)
LEMMA QuotientBelow ==
  ASSUME NEW b \in Nat \ {0}, NEW x \in Nat, NEW s \in 0..(b-1), NEW bound \in Nat,
         x * b + s < bound * b
  PROVE  x < bound
<1> SUFFICES ASSUME x >= bound PROVE FALSE
  OBVIOUS
<1>1. (x - bound) * b >= 0 /\ (x - bound) * b = x * b - bound * b
  OBVIOUS
<1> QED
  BY <1>1

(* ... and casts leave numbers alone that fit.                             *)
LEMMA CastsKeep ==
  ASSUME NEW x \in Nat
  PROVE  /\ To32(x) \in Word32
         /\ x < P32 => To32(x) = x
         /\ x < Modulus => To64(x) = x
BY Ranges DEF To32, To64, Word32, P32

(* frac * 1000U + kCpuFreq / 2U does not wrap, and its quotient is at most *)
(* 1000.                                                                   *)
LEMMA MillisFit ==
  ASSUME NEW frac \in 0..(CpuFreq - 1)
  PROVE  /\ MillisOf(frac) = frac * Milli + CpuFreq \div 2
         /\ MillisOf(frac) \in Word
         /\ MillisOf(frac) < (Milli + 1) * CpuFreq
<1>1. frac * Milli <= (CpuFreq - 1) * Milli /\ frac * Milli \in Nat
  BY Ranges DEF Milli
<1>2. CpuFreq \div 2 \in Nat /\ CpuFreq \div 2 < CpuFreq
  BY Ranges
<1>3. frac * Milli + CpuFreq \div 2 < (Milli + 1) * CpuFreq
  BY <1>1, <1>2, Ranges DEF Milli
<1>4. (Milli + 1) * CpuFreq <= Modulus
  BY Ranges DEF Milli
<1>5. frac * Milli + CpuFreq \div 2 \in Nat
  BY <1>1, <1>2
<1>6. frac * Milli + CpuFreq \div 2 < Modulus
  BY <1>3, <1>4, <1>5, Ranges DEF Milli
<1>7. MillisOf(frac) = frac * Milli + CpuFreq \div 2
  BY <1>5, <1>6, CastsKeep DEF MillisOf
<1> QED
  BY <1>3, <1>5, <1>6, <1>7, Ranges DEF Word

(* Neither (uint64_t)runs * kCpuFreq wraps nor total_cycles * 10^9 plus    *)
(* half of it.                                                             *)
LEMMA AverageFits ==
  ASSUME NEW total \in Word32, NEW n \in Word32
  PROVE  /\ Divisor(n) = n * CpuFreq /\ Divisor(n) \in Word
         /\ To64(total * Nano + Divisor(n) \div 2) = total * Nano + (n * CpuFreq) \div 2
         /\ To64(total * Nano + Divisor(n) \div 2) \in Word
<1>0. total \in 0..(P32 - 1) /\ n \in 0..(P32 - 1)
  BY DEF Word32, P32
<1>1. total * Nano \in Nat /\ total * Nano + Nano <= P32 * Nano
  <2>1. (P32 - 1 - total) * Nano >= 0
    BY <1>0, Ranges
  <2>2. (P32 - 1 - total) * Nano = P32 * Nano - Nano - total * Nano
    BY <1>0, Ranges
  <2> QED
    BY <1>0, <2>1, <2>2, Ranges
<1>2. n * CpuFreq \in Nat /\ n * CpuFreq + CpuFreq <= P32 * CpuFreq
  <2>1. (P32 - 1 - n) * CpuFreq >= 0
    BY <1>0, Ranges
  <2>2. (P32 - 1 - n) * CpuFreq = P32 * CpuFreq - CpuFreq - n * CpuFreq
    BY <1>0, Ranges
  <2> QED
    BY <1>0, <2>1, <2>2, Ranges
<1> DEFINE share == n * CpuFreq  product == total * Nano
<1>3. P32 * Nano \in Nat /\ P32 * CpuFreq \in Nat
  BY Ranges
<1> HIDE DEF share, product
<1>4. share \div 2 \in Nat /\ share \div 2 <= share /\ share \in Nat /\ product \in Nat
  BY <1>1, <1>2 DEF share, product
<1>5. share < Modulus
  BY <1>1, <1>2, <1>3, <1>4, Ranges DEF share, product
<1>6. product + share \div 2 < Modulus
  BY <1>1, <1>2, <1>3, <1>4, Ranges DEF share, product
<1>7. Divisor(n) = share
  BY <1>4, <1>5, CastsKeep DEF Divisor, share
<1>8. product + share \div 2 \in Nat
  BY <1>4
<1>9. To64(product + share \div 2) = product + share \div 2
  BY <1>6, <1>8, CastsKeep
<1> QED
  BY <1>4, <1>5, <1>6, <1>7, <1>8, <1>9, Ranges DEF Word, share, product

(* How a cycle count splits into seconds and the rest.                     *)
LEMMA CyclesSplit ==
  ASSUME NEW c \in 0..P32
  PROVE  /\ c = (c \div CpuFreq) * CpuFreq + (c % CpuFreq)
         /\ c \div CpuFreq \in Int /\ c % CpuFreq \in 0..(CpuFreq - 1)
<1>1. c \in Int /\ CpuFreq \in Nat \ {0}
  BY Ranges
<1> QED
  BY <1>1, DivisionExists

(* The quotients of the divisions for seconds and for milliseconds.        *)
LEMMA SecondsQuotient ==
  ASSUME DivInv, dpc = "ret", den = CpuFreq, dividend \in 0..P32
  PROVE  /\ To32(q) = dividend \div CpuFreq /\ rem = dividend % CpuFreq
         /\ rem \in 0..(CpuFreq - 1)
<1>1. dividend = q * CpuFreq + rem /\ rem \in 0..(CpuFreq - 1) /\ q \in Nat
  BY ReturnedValues, Ranges DEF DivideCorrect, DivInv, UdivTypeOK, Word
<1>2. dividend \div CpuFreq = q /\ dividend % CpuFreq = rem
  BY <1>1, DivisionIs, Ranges
<1>3. q < P32
  <2>1. q * CpuFreq + rem < P32 * CpuFreq
    <3>1. P32 * CpuFreq = P32 + P32 * (CpuFreq - 1) /\ P32 * (CpuFreq - 1) >= 1
      BY Ranges
    <3> QED
      BY <1>1, <3>1, Ranges
  <2> QED
    BY <1>1, <2>1, QuotientBelow, Ranges
<1> QED
  BY <1>1, <1>2, <1>3, CastsKeep

LEMMA MillisQuotient ==
  ASSUME DivInv, dpc = "ret", den = CpuFreq, dividend < (Milli + 1) * CpuFreq
  PROVE  To32(q) = q /\ q = dividend \div CpuFreq /\ q <= Milli
<1>1. dividend = q * CpuFreq + rem /\ rem \in 0..(CpuFreq - 1) /\ q \in Nat
  BY ReturnedValues, Ranges DEF DivideCorrect, DivInv, UdivTypeOK, Word
<1>2. q < Milli + 1
  BY <1>1, QuotientBelow, Ranges DEF Milli
<1>3. dividend \div CpuFreq = q
  <2>1. dividend \in Int /\ q \in Int /\ CpuFreq \in Nat \ {0}
    BY <1>1, Ranges
  <2>2. dividend = q * CpuFreq + rem /\ rem \in 0..(CpuFreq - 1)
    BY <1>1
  <2> QED
    BY <2>1, <2>2, DivisionIs
<1> QED
  BY <1>1, <1>2, <1>3, CastsKeep, Ranges DEF Milli

(* Part 3: ReportInv is inductive.                                         *)
LEMMA ReportInitInv == ReportInit => DivInv /\ ReportInv
<1> SUFFICES ASSUME ReportInit PROVE DivInv /\ ReportInv
  OBVIOUS
<1>1. DivInv
  BY UdivInitInv DEF ReportInit
<1> QED
  BY <1>1, Ranges DEF ReportInit, UdivInit, ReportInv, ReportTypeOK, DivInv, Word32, P32

(* A report begins with a division of ...                                  *)
LEMMA WriteSecondsInv ==
  ASSUME DivInv, ReportInv, NEW c \in CycleCounts, WriteSeconds(c)
  PROVE  DivInv' /\ ReportInv'
<1> USE DEF WriteSeconds, Begin
<1>1. c \in 0..P32
  BY ReportAssumption DEF P32
<1>2. c \in Word /\ CpuFreq \in Word
  BY <1>1, Ranges DEF Word
<1>3. DivInv'
  BY <1>2, UdivCallInv
<1>4. dpc' = "loop" /\ den' = CpuFreq /\ dividend' = c
  BY DEF UdivCall, CallWith
<1>5. ReportTypeOK'
  BY <1>1, <1>3, Ranges DEF ReportTypeOK, DivInv, Word32, P32
<1> QED
  BY <1>3, <1>4, <1>5 DEF ReportInv

LEMMA WriteAvgInv ==
  ASSUME DivInv, ReportInv, NEW total \in CycleCounts \cap Word32, NEW n \in RunCounts,
         WriteAvg(total, n)
  PROVE  DivInv' /\ ReportInv'
<1> USE DEF WriteAvg, Begin
<1>1. total \in Word32 /\ n \in Word32
  BY ReportAssumption
<1>2. /\ Divisor(n) = n * CpuFreq /\ Divisor(n) \in Word
      /\ To64(total * Nano + Divisor(n) \div 2) = total * Nano + (n * CpuFreq) \div 2
      /\ To64(total * Nano + Divisor(n) \div 2) \in Word
  BY <1>1, AverageFits
<1>3. DivInv'
  BY <1>2, UdivCallInv
<1>4. /\ dpc' = "loop" /\ den' = n * CpuFreq
      /\ dividend' = total * Nano + (n * CpuFreq) \div 2
  BY <1>2 DEF UdivCall, CallWith
<1>5. total \in 0..P32 /\ 0 \in Word32
  BY <1>1, Ranges DEF Word32, P32
<1>6. ReportTypeOK'
  BY <1>1, <1>3, <1>5 DEF ReportTypeOK, DivInv, P32
<1> QED
  BY <1>3, <1>4, <1>6 DEF ReportInv

(* ... and goes on with what the division returned.                        *)
LEMMA DivideMillisInv ==
  ASSUME DivInv, ReportInv, DivideMillis
  PROVE  DivInv' /\ ReportInv'
<1> USE DEF DivideMillis, Divided
<1>1. den = CpuFreq /\ dividend = cycles /\ cycles \in 0..P32 /\ runs \in Word32
  BY DEF ReportInv, ReportTypeOK, P32
<1>2. sec' = cycles \div CpuFreq /\ rem = cycles % CpuFreq /\ rem \in 0..(CpuFreq - 1)
  BY <1>1, SecondsQuotient
<1>3. /\ MillisOf(rem) = rem * Milli + CpuFreq \div 2
      /\ MillisOf(rem) \in Word
  BY <1>2, MillisFit
<1>4. DivInv'
  BY <1>3, UdivCallInv, Ranges DEF Word
<1>5. /\ dpc' = "loop" /\ den' = CpuFreq
      /\ dividend' = (cycles % CpuFreq) * Milli + CpuFreq \div 2
  BY <1>2, <1>3 DEF UdivCall, CallWith
<1>6. sec' \in Word32
  BY CastsKeep DEF DivInv, UdivTypeOK, Word
<1>7. ReportTypeOK'
  BY <1>4, <1>6 DEF ReportInv, ReportTypeOK, DivInv
<1> QED
  BY <1>2, <1>4, <1>5, <1>7 DEF ReportInv

LEMMA ShowSecondsInv ==
  ASSUME DivInv, ReportInv, ShowSeconds
  PROVE  DivInv' /\ ReportInv'
<1> USE DEF ShowSeconds, Divided
<1>1. DivInv'
  BY DEF udivVars, DivInv, UdivTypeOK, Consumed, Word, Modulus
<1>2. /\ den = CpuFreq /\ dividend = (cycles % CpuFreq) * Milli + CpuFreq \div 2
      /\ cycles \in 0..P32
  BY DEF ReportInv, ReportTypeOK, P32
<1>3. dividend < (Milli + 1) * CpuFreq
  <2>1. cycles % CpuFreq \in 0..(CpuFreq - 1)
    BY <1>2, CyclesSplit
  <2> QED
    BY <1>2, <2>1, MillisFit
<1>4. To32(q) = q /\ q \in Nat
  BY <1>2, <1>3, MillisQuotient DEF DivInv, UdivTypeOK, Word
<1>5. ReportTypeOK'
  <2>1. ms' \in Word32
    BY <1>4, CastsKeep
  <2>2. zeros' \in 0..2
    BY DEF Padding
  <2> QED
    BY <1>1, <2>1, <2>2 DEF ReportInv, ReportTypeOK, DivInv
<1> QED
  BY <1>1, <1>4, <1>5 DEF ReportInv, udivVars

LEMMA ShowAvgInv ==
  ASSUME DivInv, ReportInv, ShowAvg
  PROVE  DivInv' /\ ReportInv'
<1> USE DEF ShowAvg, Divided
<1>1. DivInv'
  BY DEF udivVars, DivInv, UdivTypeOK, Consumed, Word, Modulus
<1>2. ns' \in Word32
  BY CastsKeep DEF DivInv, UdivTypeOK, Word
<1>3. ReportTypeOK'
  BY <1>1, <1>2 DEF ReportInv, ReportTypeOK, DivInv
<1> QED
  BY <1>1, <1>3 DEF ReportInv, udivVars, To32

LEMMA DividingInv ==
  ASSUME DivInv, ReportInv, Dividing
  PROVE  DivInv' /\ ReportInv'
<1> USE DEF Dividing
<1>1. DivInv'
  BY UdivIterateInv, UdivReturnInv
<1>2. /\ dpc = "loop" /\ dpc' \in {"loop", "ret"}
      /\ den' = den /\ dividend' = dividend
  BY DEF UdivIterate, Iterate, UdivReturn
<1>3. ReportTypeOK'
  BY <1>1 DEF ReportInv, ReportTypeOK, DivInv
<1> QED
  BY <1>1, <1>2, <1>3 DEF ReportInv
-----------------------------------------------------------------------------
(* Reports of any counts, one after the other.                             *)
THEOREM ReportInvariant == ReportSpec => [](DivInv /\ ReportInv)
<1>1. DivInv /\ ReportInv /\ [ReportNext]_reportVars => DivInv' /\ ReportInv'
  <2> SUFFICES ASSUME DivInv, ReportInv, [ReportNext]_reportVars
               PROVE  DivInv' /\ ReportInv'
    OBVIOUS
  <2>1. CASE \E c \in CycleCounts : WriteSeconds(c)
    BY <2>1, WriteSecondsInv
  <2>2. CASE \E c \in CycleCounts \cap Word32, n \in RunCounts : WriteAvg(c, n)
    BY <2>2, WriteAvgInv
  <2>3. CASE DivideMillis
    BY <2>3, DivideMillisInv
  <2>4. CASE ShowSeconds
    BY <2>4, ShowSecondsInv
  <2>5. CASE ShowAvg
    BY <2>5, ShowAvgInv
  <2>6. CASE Dividing
    BY <2>6, DividingInv
  <2>7. CASE UNCHANGED reportVars
    BY <2>7
       DEF reportVars, udivVars, ReportInv, ReportTypeOK, DivInv, UdivTypeOK, Consumed,
           Word, Modulus, Word32, Padding, To32
  <2> QED
    BY <2>1, <2>2, <2>3, <2>4, <2>5, <2>6, <2>7 DEF ReportNext
<1> QED
  BY <1>1, ReportInitInv, PTL DEF ReportSpec

(* All values keep to the width of their C types.                          *)
THEOREM ReportTypes == ReportSpec => []ReportTypeOK
<1>1. ReportInv => ReportTypeOK
  BY DEF ReportInv
<1> QED
  BY <1>1, ReportInvariant, PTL

(* No argument of a division wraps, and sec and ms are not cut.            *)
THEOREM ReportArgumentsFit == ReportSpec => []ArgumentsFit
<1>1. ReportInv => ArgumentsFit
  BY DEF ReportInv, ArgumentsFit
<1> QED
  BY <1>1, ReportInvariant, PTL

(* The time printed is the nearest number of milliseconds.                 *)
THEOREM ReportSecondsRounded == ReportSpec => []SecondsRounded
<1>1. DivInv /\ ReportInv => SecondsRounded
  <2> SUFFICES ASSUME DivInv, ReportInv, rpc = "seconds"
               PROVE  /\ sec * Milli + ms = (cycles * Milli + CpuFreq \div 2) \div CpuFreq
                      /\ ms < Milli => zeros + Digits(ms) = 3
    BY DEF SecondsRounded
  <2> DEFINE f == cycles % CpuFreq  h == CpuFreq \div 2
  <2>1. /\ dpc = "ret" /\ den = CpuFreq /\ dividend = f * Milli + h
        /\ sec = cycles \div CpuFreq /\ ms = q /\ zeros = Padding(q)
        /\ cycles \in 0..P32
    BY DEF ReportInv, ReportTypeOK, P32
  <2>2. /\ cycles = sec * CpuFreq + f /\ sec \in Int /\ f \in 0..(CpuFreq - 1)
    BY <2>1, CyclesSplit
  <2>3. dividend < (Milli + 1) * CpuFreq
    BY <2>1, <2>2, MillisFit
  <2>4. ms = (f * Milli + h) \div CpuFreq /\ ms \in Nat
    <3>1. q = dividend \div CpuFreq
      BY <2>1, <2>3, MillisQuotient
    <3>2. q \in Nat
      BY Ranges DEF DivInv, UdivTypeOK, Word
    <3> QED
      BY <2>1, <3>1, <3>2
  <2>5. h \in Nat
    BY Ranges
  <2> HIDE DEF f, h
  <2>6. cycles * Milli + h = (sec * Milli) * CpuFreq + (f * Milli + h)
    BY <2>2, <2>5, Ranges DEF Milli
  <2>7. sec * Milli \in Int /\ f * Milli + h \in Int
    BY <2>2, <2>5 DEF Milli
  <2>8. (cycles * Milli + h) \div CpuFreq = sec * Milli + ((f * Milli + h) \div CpuFreq)
    BY <2>6, <2>7, DivisionShift, Ranges
  <2>9. ms < Milli => zeros + Digits(ms) = 3
    BY <2>1, <2>4 DEF Padding, Digits, Milli
  <2> QED
    BY <2>4, <2>8, <2>9 DEF h
<1> QED
  BY <1>1, ReportInvariant, PTL

(* Half the divisor, added to the dividend, makes the quotient the nearest.*)
LEMMA NearestQuotient ==
  ASSUME NEW t \in Nat, NEW d \in Nat \ {0}, NEW x \in Nat, NEW s \in 0..(d-1),
         t + d \div 2 = x * d + s
  PROVE  /\ x < t \div d + 2
         /\ 2 * Distance(x * d, t) <= d
<1> DEFINE a == t \div d  b == t % d  h == d \div 2  m == x * d
<1>1. t = a * d + b /\ a \in Nat /\ b \in 0..(d-1)
  <2>1. t = a * d + b /\ a \in Int /\ b \in 0..(d-1)
    BY DivisionExists
  <2>2. a \in Nat
    OBVIOUS
  <2> QED
    BY <2>1, <2>2
<1>2. h \in Nat /\ 2 * h <= d /\ d <= 2 * h + 1
  OBVIOUS
<1>3. m \in Nat /\ t + h = m + s
  OBVIOUS
<1> HIDE DEF a, b, h
<1>4. x < a + 2
  <2>1. x * d + s < a * d + 2 * d
    BY <1>1, <1>2, <1>3
  <2>2. a * d + 2 * d = (a + 2) * d /\ a + 2 \in Nat
    BY <1>1
  <2> QED
    BY <2>1, <2>2, QuotientBelow
<1> HIDE DEF m
<1>5. 2 * Distance(m, t) <= d
  <2>1. CASE m < t
    BY <1>2, <1>3, <2>1 DEF Distance
  <2>2. CASE m >= t
    BY <1>2, <1>3, <2>2 DEF Distance
  <2> QED
    BY <1>3, <2>1, <2>2
<1> QED
  BY <1>4, <1>5 DEF a, m

(* The average printed is the nearest number of nanoseconds whenever the   *)
(* whole nanoseconds are fewer than the largest 32-bit word; without runs  *)
(* it is a word of ones.                                                   *)
THEOREM ReportAverageRounded == ReportSpec => []AverageRounded
<1>1. DivInv /\ ReportInv => AverageRounded
  <2> SUFFICES ASSUME DivInv, ReportInv, rpc = "average"
               PROVE  IF runs = 0 THEN ns = P32 - 1
                      ELSE (cycles * Nano) \div Share < P32 - 1 => IsAverage
    BY DEF AverageRounded, P32
  <2>1. /\ dpc = "ret" /\ den = runs * CpuFreq /\ ns = To32(q)
        /\ dividend = cycles * Nano + den \div 2
        /\ cycles \in Nat /\ runs \in Nat /\ q \in Nat
    BY Ranges DEF ReportInv, ReportTypeOK, DivInv, UdivTypeOK, Word, Word32, P32
  <2>2. CASE runs = 0
    <3>1. q = Modulus - 1
      BY <2>1, <2>2, ReturnedValues, Ranges DEF DivideCorrect
    <3>2. Modulus = (Modulus \div P32) * P32 /\ Modulus \div P32 \in Int
      BY DivisionExists, Ranges
    <3>3. q = (Modulus \div P32 - 1) * P32 + (P32 - 1)
      BY <3>1, <3>2, Ranges
    <3>4. q % P32 = P32 - 1
      <4> DEFINE d == Modulus \div P32 - 1
      <4>1. d \in Int /\ P32 - 1 \in 0..(P32 - 1) /\ q \in Int /\ P32 \in Nat \ {0}
        BY <2>1, <3>2, Ranges
      <4>2. q = d * P32 + (P32 - 1)
        BY <3>3
      <4> HIDE DEF d
      <4> QED
        BY <4>1, <4>2, DivisionIs
    <3> QED
      BY <2>1, <2>2, <3>4 DEF To32, P32
  <2>3. CASE runs # 0
    <3> DEFINE t == cycles * Nano
    <3>1. Share \in Nat \ {0} /\ den = Share /\ t \in Nat
      BY <2>1, <2>3, Ranges DEF Share
    <3>2. dividend = q * Share + rem /\ rem \in 0..(Share - 1)
      BY <2>1, <3>1, ReturnedValues DEF DivideCorrect
    <3>3. t + Share \div 2 = q * Share + rem
      BY <2>1, <3>1, <3>2
    <3> HIDE DEF t
    <3>4. q < t \div Share + 2 /\ 2 * Distance(q * Share, t) <= Share
      BY <2>1, <3>1, <3>2, <3>3, NearestQuotient
    <3>5. ASSUME t \div Share < P32 - 1 PROVE ns = q
      <4>1. t \div Share \in Int
        BY <3>1
      <4>2. q < P32
        BY <2>1, <3>4, <3>5, <4>1, Ranges
      <4> QED
        BY <2>1, <4>2, CastsKeep
    <3> QED
      BY <2>3, <3>4, <3>5 DEF t, IsAverage
  <2> QED
    BY <2>2, <2>3
<1> QED
  BY <1>1, ReportInvariant, PTL
=============================================================================
