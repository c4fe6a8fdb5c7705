--------------------------- MODULE WriteUintProofs ---------------------------
(***************************************************************************)
(* _semihost_write_uint never stores in front of its buffer and prints the *)
(* decimal numeral of its argument, for every size of buffer and range of  *)
(* values that EnoughDigits relates: each digit stored divides the bound   *)
(* on val and the room left by ten, and val is always the argument divided *)
(* by the power of ten of the digits stored.                               *)
(***************************************************************************)
EXTENDS WriteUint, NumberFacts

(* Dividing by ten divides a bound by ten.                                 *)
LEMMA TenthBelow ==
  ASSUME NEW v \in Nat, NEW p \in Nat, v < 10 * p
  PROVE  v \div 10 \in Nat /\ v \div 10 < p /\ v \div 10 <= v
OBVIOUS

(* What dividing off a digit leaves is a quotient by the next power.       *)
LEMMA QuotientOfQuotient ==
  ASSUME NEW x \in Nat, NEW p \in Nat \ {0}
  PROVE  (x \div p) \div 10 = x \div (10 * p)
<1> DEFINE d == x \div p
<1> DEFINE e == d \div 10
<1>1. x = d * p + (x % p) /\ d \in Int /\ x % p \in 0..(p-1)
  BY DivisionExists
<1> HIDE DEF d
<1>2. d = e * 10 + (d % 10) /\ e \in Int /\ d % 10 \in 0..9
  BY <1>1
<1> HIDE DEF e
<1> DEFINE s == (d % 10) * p + (x % p)
<1>3. PICK c \in 0..9 : c = d % 10
  BY <1>2
<1>4. c * p \in 0..(9 * p)
  BY <1>3
<1>5. s \in 0..(10 * p - 1)
  BY <1>1, <1>3, <1>4
<1>6. d * p = e * (10 * p) + c * p
  <2>1. d = e * 10 + c
    BY <1>2, <1>3
  <2> QED
    BY <2>1, <1>2, <1>3
<1>7. x = e * (10 * p) + s
  <2>1. s = c * p + (x % p) /\ x % p \in Int /\ c * p \in Int
    BY <1>1, <1>3, <1>4
  <2> HIDE DEF s
  <2>2. e * (10 * p) \in Int
    BY <1>2
  <2> QED
    BY <1>1, <1>6, <2>1, <2>2
<1> HIDE DEF s
<1>8. 10 * p \in Nat \ {0} /\ x \in Int
  OBVIOUS
<1>9. x \div (10 * p) = e
  BY <1>2, <1>5, <1>7, <1>8, DivisionIs
<1> QED
  BY <1>9 DEF d, e

(* The quotient is zero for smaller numbers only, ...                      *)
LEMMA ZeroQuotient ==
  ASSUME NEW x \in Nat, NEW p \in Nat \ {0}, x \div p = 0
  PROVE  x < p
<1>1. x = (x \div p) * p + (x % p) /\ x % p \in 0..(p-1)
  BY DivisionExists
<1>2. (x \div p) * p = 0
  OBVIOUS
<1> QED
  BY <1>1, <1>2

(* ... and the quotient by one is the number itself.                       *)
LEMMA QuotientByOne ==
  ASSUME NEW x \in Nat
  PROVE  x \div 1 = x
OBVIOUS

(* The powers are what their names say.                                    *)
LEMMA NextPower ==
  ASSUME NEW n \in 0..(BufLen-1)
  PROVE  Pow10[n+1] = 10 * Pow10[n] /\ Pow10[n] \in Nat \ {0}
<1>1. n \in 0..BufLen
  BY BufferAssumption
<1> QED
  BY <1>1, BufferAssumption

LEMMA UintInitEstablishes == UintInit => UintInv
BY BufferAssumption, EnoughDigits DEF UintInit, UintInv, UintTypeOK, Index, Nul

LEMMA UintCallPreserves ==
  ASSUME UintInv, NEW v \in 0..MaxValue, UintCall(v)
  PROVE  UintInv'
<1>1. BufLen - 1 \in Index /\ BufLen - 1 \in 0..BufLen /\ BufLen - 1 >= 1
  BY BufferAssumption DEF Index
<1>2. UintTypeOK'
  BY <1>1 DEF UintCall, UintTypeOK, Nul
<1>3. buf'[BufLen-1] = Nul /\ ptr' \in 0..(BufLen-1)
  BY <1>1, BufferAssumption DEF UintCall, Nul, Index
<1>4. ptr' = BufLen - 1 /\ ptr' >= 1 /\ val' < Pow10[ptr'] /\ upc' = "loop"
  BY <1>1, EnoughDigits, BufferAssumption DEF UintCall
<1>5. val' = arg' \div Pow10[BufLen-1-ptr']
  <2>1. v \div 1 = v
    BY EnoughDigits, QuotientByOne
  <2>2. BufLen - 1 - ptr' = 0
    BY <1>4, BufferAssumption
  <2>3. Pow10[BufLen-1-ptr'] = 1
    BY <2>2, BufferAssumption
  <2> QED
    BY <2>1, <2>3 DEF UintCall
<1>6. DigitsStored'
  BY <1>4, BufferAssumption DEF DigitsStored
<1>7. QED
  BY <1>2, <1>3, <1>4, <1>5, <1>6 DEF UintInv

LEMMA UintDigitPreserves ==
  ASSUME UintInv, UintDigit
  PROVE  UintInv'
<1> USE DEF UintDigit, UintStore
<1>1. /\ upc = "loop" /\ ptr \in 1..(BufLen-1) /\ val \in 0..MaxValue /\ val < Pow10[ptr]
      /\ buf \in [Index -> Nat] /\ buf[BufLen-1] = Nul /\ arg \in 0..MaxValue
      /\ val = arg \div Pow10[BufLen-1-ptr] /\ DigitsStored
      /\ ptr = BufLen-1 \/ val > 0
  BY DEF UintInv, UintTypeOK
<1>2. ptr - 1 \in 0..(BufLen-1) /\ ptr - 1 \in Index /\ ptr - 1 # BufLen - 1
      /\ ptr - 1 \in 0..BufLen /\ ptr - 1 <= BufLen - 2
  BY <1>1, BufferAssumption DEF Index
<1>3. Pow10[(ptr-1)+1] = 10 * Pow10[ptr-1] /\ Pow10[ptr-1] \in Nat
  BY <1>2, BufferAssumption
<1>4. val < 10 * Pow10[ptr-1]
  BY <1>1, <1>3
<1>5. /\ val \div 10 \in Nat /\ val \div 10 < Pow10[ptr-1] /\ val \div 10 <= val
  BY <1>1, <1>3, <1>4, TenthBelow, EnoughDigits
<1>6. UintTypeOK'
  <2>1. Char0 + (val % 10) \in Nat
    BY <1>1, EnoughDigits DEF Char0
  <2>2. buf' \in [Index -> Nat]
    BY <1>1, <2>1
  <2>3. val' \in 0..MaxValue
    BY <1>1, <1>5, EnoughDigits
  <2>4. upc' \in {"idle", "loop", "write"}
    OBVIOUS
  <2>5. QED
    BY <1>1, <1>2, <2>2, <2>3, <2>4 DEF UintTypeOK
<1>7. buf'[BufLen-1] = Nul /\ ptr' \in 0..(BufLen-1)
  BY <1>1, <1>2, BufferAssumption DEF Index
<1>8. val' = arg' \div Pow10[BufLen-1-ptr']
  <2> DEFINE n == BufLen - 1 - ptr
  <2>1. n \in 0..(BufLen-1) /\ BufLen - 1 - (ptr - 1) = n + 1
    BY <1>1, BufferAssumption
  <2> HIDE DEF n
  <2>2. Pow10[n+1] = 10 * Pow10[n] /\ Pow10[n] \in Nat \ {0}
    BY <2>1, NextPower
  <2>3. arg \in Nat
    BY <1>1, EnoughDigits
  <2>4. (arg \div Pow10[n]) \div 10 = arg \div (10 * Pow10[n])
    BY <2>2, <2>3, QuotientOfQuotient
  <2>5. val = arg \div Pow10[n]
    BY <1>1 DEF n
  <2> QED
    BY <2>1, <2>2, <2>4, <2>5
<1>9. DigitsStored'
  <2> SUFFICES ASSUME NEW k \in (ptr-1)..(BufLen-2)
               PROVE  buf'[k] = Char0 + Digit(arg, BufLen-2-k)
    BY DEF DigitsStored, Digit
  <2>1. CASE k = ptr - 1
    <3>1. BufLen - 2 - k = BufLen - 1 - ptr
      BY <1>1, <2>1, BufferAssumption
    <3>2. val % 10 = Digit(arg, BufLen-2-k)
      BY <1>1, <3>1 DEF Digit
    <3> QED
      BY <1>1, <1>2, <2>1, <3>2
  <2>2. CASE k # ptr - 1
    <3>1. k \in ptr..(BufLen-2) /\ k \in Index
      BY <1>1, <2>2, BufferAssumption DEF Index
    <3> QED
      BY <1>1, <2>2, <3>1 DEF DigitsStored
  <2> QED
    BY <2>1, <2>2
<1>10. CASE val \div 10 > 0
  <2>1. ptr - 1 # 0
    BY <1>5, <1>10, BufferAssumption
  <2>2. ptr' >= 1 /\ val' < Pow10[ptr'] /\ val' > 0 /\ upc' = "loop"
    BY <1>1, <1>5, <1>10, <2>1
  <2> QED
    BY <1>6, <1>7, <1>8, <1>9, <2>2 DEF UintInv
<1>11. CASE ~(val \div 10 > 0)
  <2>1. val' = 0 /\ upc' = "write" /\ ptr' <= BufLen - 2
    BY <1>2, <1>5, <1>11
  <2>2. val % 10 = val
    <3>1. val \div 10 = 0 /\ val \in Nat
      BY <1>1, <1>5, <1>11, EnoughDigits
    <3> QED
      BY <3>1
  <2>3. ASSUME buf'[ptr'] = Char0
        PROVE  arg' = 0 /\ ptr' = BufLen - 2
    <3>1. val = 0
      <4>1. buf'[ptr'] = Char0 + val
        BY <1>1, <1>2, <2>2
      <4> QED
        BY <1>1, <2>3, <4>1, EnoughDigits DEF Char0
    <3>2. ptr = BufLen - 1
      BY <1>1, <3>1
    <3>3. Pow10[BufLen-1-ptr] = 1
      BY <3>2, BufferAssumption
    <3>4. arg \div 1 = arg
      BY <1>1, EnoughDigits, QuotientByOne
    <3> QED
      BY <1>1, <3>1, <3>2, <3>3, <3>4, BufferAssumption
  <2> QED
    BY <1>6, <1>7, <1>8, <1>9, <2>1, <2>3 DEF UintInv
<1>12. QED
  BY <1>10, <1>11

(* Each byte is stored inside the buffer, the room left always holds the   *)
(* digits to come, and val is the argument without the digits stored       *)
(* (main.cpp:60-68).                                                       *)
THEOREM UintInvariant == UintSpec => []UintInv
<1>1. UintInv /\ [UintNext]_uintVars => UintInv'
  <2> SUFFICES ASSUME UintInv, [UintNext]_uintVars PROVE UintInv'
    OBVIOUS
  <2>1. CASE UintDigit
    BY <2>1, UintDigitPreserves
  <2>2. ASSUME NEW v \in 0..MaxValue, UintCall(v) PROVE UintInv'
    BY <2>2, UintCallPreserves
  <2>3. CASE UNCHANGED uintVars
    BY <2>3 DEF uintVars, UintInv, UintTypeOK, DigitsStored, Digit
  <2>4. QED
    BY <2>1, <2>2, <2>3 DEF UintNext
<1>2. QED
  BY UintInitEstablishes, <1>1, PTL DEF UintSpec

(* The variables of the printer keep their types.                          *)
THEOREM UintTypes == UintSpec => []UintTypeOK
<1>1. UintInv => UintTypeOK
  BY DEF UintInv
<1>2. QED
  BY <1>1, UintInvariant, PTL

(* *--p never steps in front of buf, whatever is printed.                  *)
THEOREM UintStoresInBuffer == UintSpec => []StoreInBuffer
<1>1. UintInv => StoreInBuffer
  BY BufferAssumption DEF UintInv, StoreInBuffer
<1>2. QED
  BY <1>1, UintInvariant, PTL

(* What is handed to SYS_WRITE0 is the decimal numeral of the argument:    *)
(* every digit, in order, terminated, with no zero in front (main.cpp:60). *)
THEOREM UintPrintsNumeral == UintSpec => []PrintsNumeral
<1>1. UintInv => PrintsNumeral
  <2> SUFFICES ASSUME UintInv, upc = "write"
               PROVE  arg < Pow10[BufLen-1-ptr]
    BY DEF UintInv, PrintsNumeral
  <2>1. arg \div Pow10[BufLen-1-ptr] = 0 /\ arg \in Nat
    BY EnoughDigits DEF UintInv, UintTypeOK
  <2>2. Pow10[BufLen-1-ptr] \in Nat \ {0}
    <3>1. ptr \in 0..(BufLen-1)
      BY DEF UintInv
    <3>2. BufLen-1-ptr \in 0..(BufLen-1)
      BY <3>1, BufferAssumption
    <3> QED
      BY <3>2, NextPower
  <2> QED
    BY <2>1, <2>2, ZeroQuotient
<1>2. QED
  BY <1>1, UintInvariant, PTL
=============================================================================
