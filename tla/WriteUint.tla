----------------------------- MODULE WriteUint -----------------------------
(***************************************************************************)
(* _semihost_write_uint() of src/main.cpp: decimal digits written from the *)
(* end of a buffer on the stack towards its start.  The buffer has no      *)
(* bounds check; it is long enough if every value has fewer digits than    *)
(* the buffer has bytes.  One turn of the do-while loop is one step.       *)
(***************************************************************************)
EXTENDS Integers

CONSTANTS
  BufLen,   (* sizeof(buf): 11 in the code.                                *)
  Pow10,    (* Pow10[k] is 10^k, as a constant for the provers' sake.      *)
  MaxValue  (* The largest argument: UINT32_MAX in the code.               *)

ASSUME BufferAssumption ==
  /\ BufLen \in Nat \ {0, 1}
  /\ Pow10 \in [0..BufLen -> Nat \ {0}]
  /\ Pow10[0] = 1
  /\ \A k \in 0..(BufLen-1) : Pow10[k+1] = 10 * Pow10[k]

(* Ten decimal digits hold 32 bits.                                        *)
ASSUME EnoughDigits == MaxValue \in Nat /\ MaxValue < Pow10[BufLen-1]

VARIABLES
  upc,    (* "idle", "loop", or "write" when the string is handed over.    *)
  arg,    (* History variable: the argument as it was passed.              *)
  val,    (* The argument; digits are divided off it.                      *)
  buf,    (* The buffer, one character code per index.                     *)
  ptr     (* Index p points to.                                            *)

uintVars == <<upc, arg, val, buf, ptr>>

Nul   == 0
Char0 == 48  (* '0' *)
Index == 0..(BufLen-1)

UintInit ==
  /\ upc = "idle" /\ arg = 0 /\ val = 0
  /\ buf = [k \in Index |-> Nul] /\ ptr = BufLen

(* char buf[11]{}; p = buf + 11; *--p = '\0'                               *)
UintCall(v) ==
  /\ upc # "loop"
  /\ upc' = "loop" /\ arg' = v /\ val' = v
  /\ buf' = [k \in Index |-> Nul]
  /\ ptr' = BufLen - 1

UintStore ==
  /\ upc = "loop"
  /\ ptr' = ptr - 1
  /\ buf' = [buf EXCEPT ![ptr - 1] = Char0 + (val % 10)]
  /\ val' = val \div 10
  /\ UNCHANGED arg

(* do { ... } while (val > 0U), as a plain while would be.                 *)
UintDigitWhile ==
  IF val > 0 THEN UintStore /\ upc' = "loop"
             ELSE upc = "loop" /\ upc' = "write" /\ UNCHANGED <<arg, val, buf, ptr>>

(* A loop that goes on for one digit too many.                             *)
UintDigitMore ==
  UintStore /\ upc' = IF val > 0 THEN "loop" ELSE "write"

UintDigit ==
  UintStore /\ upc' = IF val \div 10 > 0 THEN "loop" ELSE "write"

UintNext == UintDigit \/ \E v \in 0..MaxValue : UintCall(v)
UintSpec == UintInit /\ [][UintNext]_uintVars
-----------------------------------------------------------------------------
UintTypeOK ==
  /\ upc \in {"idle", "loop", "write"}
  /\ arg \in 0..MaxValue /\ val \in 0..MaxValue
  /\ buf \in [Index -> Nat]
  /\ ptr \in 0..BufLen

(* No digit is stored in front of the buffer: while the loop has a digit   *)
(* to store, p is above buf.                                               *)
StoreInBuffer == upc = "loop" => ptr > 0

(* Digit n of v in decimal, counted from its last digit.                   *)
Digit(v, n) == (v \div Pow10[n]) % 10

(* The digits stored so far are the last ones of the argument, in order.   *)
DigitsStored ==
  \A k \in ptr..(BufLen-2) : buf[k] = Char0 + Digit(arg, BufLen-2-k)

(* The string handed to the console is the decimal numeral of the argument:*)
(* terminated, all of its digits, no leading zero except in "0" itself.    *)
PrintsNumeral ==
  upc = "write" =>
    /\ buf[BufLen-1] = Nul
    /\ ptr <= BufLen - 2
    /\ DigitsStored
    /\ arg < Pow10[BufLen-1-ptr]
    /\ buf[ptr] = Char0 => arg = 0 /\ ptr = BufLen - 2

(* What the buffer's size rests on: k digits stored leave val below the    *)
(* power of ten that the remaining bytes can take.  What the numeral rests *)
(* on: val is what the digits stored have left of the argument.            *)
UintInv ==
  /\ UintTypeOK
  /\ upc # "idle" =>
       /\ buf[BufLen-1] = Nul /\ ptr \in 0..(BufLen-1)
       /\ val = arg \div Pow10[BufLen-1-ptr]
       /\ DigitsStored
  /\ upc = "loop" =>
       /\ ptr >= 1 /\ val < Pow10[ptr]
       /\ ptr = BufLen-1 \/ val > 0
  /\ upc = "write" =>
       /\ val = 0 /\ ptr <= BufLen-2
       /\ buf[ptr] = Char0 => arg = 0 /\ ptr = BufLen-2
=============================================================================
