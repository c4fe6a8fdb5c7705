------------------------------ MODULE Udivmod ------------------------------
(***************************************************************************)
(* udivmod64() of src/main.cpp: shift-subtract long division on W-bit      *)
(* unsigned words (W = 64 in the code).  A word is a number below Modulus. *)
(* One iteration of the for loop is one step, so the intermediate values   *)
(* of the quotient and the partial remainder are states of the model.      *)
(***************************************************************************)
EXTENDS Integers

CONSTANTS
  W,      (* Width of a word in bits.                                      *)
  Pow2    (* Pow2[k] is 2^k.  A constant function, so that the provers see *)
          (* its recurrence as an assumption and TLC its values.           *)

ASSUME WidthAssumption == W \in Nat \ {0}
ASSUME Pow2Assumption ==
  /\ Pow2 \in [0..W -> Nat \ {0}]
  /\ Pow2[0] = 1
  /\ \A k \in 0..(W-1) : Pow2[k+1] = 2 * Pow2[k]

VARIABLES
  dpc,       (* "idle" before a call, "loop" in it, "ret" after it.        *)
  dividend,  (* History variable: the argument num as it was passed.       *)
  num, den,  (* The arguments; num is shifted out by the loop.             *)
  q, r, i,   (* Quotient, partial remainder, loop counter.                 *)
  rem        (* The out-parameter.                                         *)

udivVars == <<dpc, dividend, num, den, q, r, i, rem>>

Modulus == Pow2[W]
Half    == Pow2[W-1]
Word    == 0..(Modulus - 1)

(* A left shift by one of a W-bit word: the top bit is lost.               *)
ShiftLeft(x) == (2 * x) % Modulus
(* x >> (W-1), the top bit of a word.                                      *)
TopBit(x) == x \div Half
-----------------------------------------------------------------------------
UdivInit ==
  /\ dpc = "idle"
  /\ dividend = 0 /\ num = 0 /\ den = 0
  /\ q = 0 /\ r = 0 /\ i = 0 /\ rem = 0

(* Every caller passes a fresh out-parameter, initialised with zero.       *)
CallWith(a, b, remainder) ==
  /\ dpc' = "loop"
  /\ dividend' = a /\ num' = a /\ den' = b
  /\ q' = 0 /\ r' = remainder /\ i' = 0
  /\ rem' = 0

UdivCallStale(a, b) == CallWith(a, b, r)
UdivCall(a, b)      == CallWith(a, b, 0)

(* The partial remainder after the dividend's next bit is shifted in.      *)
ShiftedIn == ShiftLeft(r) + TopBit(num)

(* One turn of for (int i = 0; i < turns; i++), which subtracts the        *)
(* divisor if it fits.                                                     *)
Iterate(turns, fits) ==
  /\ dpc = "loop" /\ i < turns
  /\ num' = ShiftLeft(num)
  /\ r' = IF fits THEN ShiftedIn - den ELSE ShiftedIn
  /\ q' = ShiftLeft(q) + (IF fits THEN 1 ELSE 0)
  /\ i' = i + 1
  /\ UNCHANGED <<dpc, dividend, den, rem>>

UdivIterateMore   == Iterate(W + 1, ShiftedIn >= den)
UdivIterateStrict == Iterate(W, ShiftedIn > den)
UdivIterate       == Iterate(W, ShiftedIn >= den)

UdivReturn ==
  /\ dpc = "loop" /\ i = W
  /\ rem' = r
  /\ dpc' = "ret"
  /\ UNCHANGED <<dividend, num, den, q, r, i>>

UdivNext ==
  \/ \E a \in Word, b \in Word : dpc # "loop" /\ UdivCall(a, b)
  \/ UdivIterate
  \/ UdivReturn

UdivSpec == UdivInit /\ [][UdivNext]_udivVars
-----------------------------------------------------------------------------
UdivTypeOK ==
  /\ dpc \in {"idle", "loop", "ret"}
  /\ dividend \in Word /\ num \in Word /\ den \in Word
  /\ q \in Word /\ r \in Word /\ rem \in Word
  /\ i \in 0..W

(* What a call returns.  For a divisor other than zero, quotient and       *)
(* remainder of the Euclidean division; for zero (avg of a benchmark with  *)
(* kBenchRuns = 0) the loop subtracts zero 64 times and returns a word of  *)
(* ones and the dividend itself.                                           *)
DivideCorrect ==
  dpc = "ret" =>
    IF den = 0 THEN q = Modulus - 1 /\ rem = dividend
               ELSE dividend = q * den + rem /\ rem \in 0..(den - 1)

(* No shift of the loop loses a bit, whatever the arguments: r, started    *)
(* from zero, holds no more bits than the loop has made turns.             *)
NoBitLost ==
  dpc = "loop" /\ i < W => 2 * r < Modulus /\ 2 * q < Modulus

(* The inductive invariant: the bits of the dividend shifted out so far    *)
(* are the number q * den + r, and those still to come are num.            *)
Consumed == dividend * Pow2[i] = (q * den + r) * Modulus + num

DivInv ==
  /\ UdivTypeOK
  /\ dpc # "idle" =>
       /\ Consumed
       /\ Pow2[i] * Pow2[W-i] = Modulus
       /\ q < Pow2[i] /\ r < Pow2[i]
       /\ IF den = 0 THEN q = Pow2[i] - 1 ELSE r < den
  /\ dpc = "ret" => i = W /\ rem = r
=============================================================================
