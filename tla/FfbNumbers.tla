----------------------------- MODULE FfbNumbers -----------------------------
(***************************************************************************)
(* The number conversions of src/ffb/fixed_format_buffer.h as operators    *)
(* that return the characters put.  A finite float is a count of ticks; a  *)
(* tick is the smallest fraction there is, and a float type has a number   *)
(* of bits for the leading ones of a count.                                *)
(***************************************************************************)
EXTENDS Integers, SequencesExt

CONSTANTS
  Char,      (* The characters, NUL and all that the code itself puts.     *)
  Bits,      (* Bits of the C types: [char, short, int, long, llong, ...]; *)
             (* of ldouble, the leading ones of a value.                   *)
  TickBits,  (* 1 has 2^TickBits ticks.                                    *)
  Policies   (* [int, uint |-> bits, float |-> leading bits, decimals |->  *)
             (* BOOLEAN, default, max |-> precisions]                      *)

LowerDigits == <<"0","1","2","3","4","5","6","7","8","9","a","b","c","d","e","f">>
UpperDigits == <<"0","1","2","3","4","5","6","7","8","9","A","B","C","D","E","F">>

(* "Must be in the range [0, kMaxFloatPrecision]", and an IntType or a     *)
(* UIntType goes through 64 bits.                                          *)
IntTypes == {"char", "short", "int", "long", "llong", "intmax", "size", "ptrdiff"}
ASSUME NumbersAssumption ==
  /\ Range(LowerDigits) \cup Range(UpperDigits)
       \cup {"NUL", "%", "+", "-", " ", ".", "(", "n", "u", "l", ")", "i", "o", "v", "x", "X"} \subseteq Char
  /\ TickBits \in Nat \ {0} /\ \A t \in IntTypes : Bits[t] \in Nat \ {0}
  /\ \A p \in Policies :
       /\ p.max \in Nat /\ p.default \in 0..p.max /\ p.decimals \in BOOLEAN
       /\ p.int \in 1..Bits.llong /\ p.uint \in 1..Bits.llong /\ p.float \in Nat

Power(base, n) == LET power[k \in Nat] == IF k = 0 THEN 1 ELSE base * power[k - 1] IN power[n]

Ticks == Power(2, TickBits)

(* Pow10 is exact in FloatType as far as the maximum (the policies of the  *)
(* header have at most 6 places and at least 24 leading bits).             *)
ASSUME DecimalsAssumption ==
  \A p \in Policies : p.decimals => Power(10, p.max) < Power(2, p.float)

Unsigned(v, bits) == v % Power(2, bits)
Signed(v, bits)   == LET u == v % Power(2, bits)
                     IN  IF u < Power(2, bits - 1) THEN u ELSE u - Power(2, bits)

If(condition, char) == IF condition THEN <<char>> ELSE <<>>
-----------------------------------------------------------------------------
(* The digits of value, divided off from the right and put in reverse; and *)
(* the value of a numeral, read from the left.                             *)
Digits(value, base) ==
  LET digits[v \in Nat] == IF v < base THEN <<v>> ELSE Append(digits[v \div base], v % base)
  IN  digits[value]

DigitOf(char, digits, base) == CHOOSE d \in 0..(base - 1) : digits[d + 1] = char

Valued(s, digits, base) ==
  LET value[k \in 0..Len(s)] == IF k = 0 THEN 0
                                ELSE base * value[k - 1] + DigitOf(s[k], digits, base)
  IN  value[Len(s)]

(* A null pointer is a string of its own kind here.                        *)
Null           == <<"nullptr">>
WriteString(s) == IF s = Null THEN <<"(", "n", "u", "l", "l", ")">> ELSE s

Written(value, base, digits) ==
  [i \in DOMAIN Digits(value, base) |-> digits[Digits(value, base)[i] + 1]]

WriteUnsigned(value)       == Written(value, 10, LowerDigits)
WriteHex(value, uppercase) == Written(value, 16, IF uppercase THEN UpperDigits ELSE LowerDigits)

(* uint64_t(-(int64_t(value) + 1)) + 1, and the negation in IntType.       *)
AbsInType(value, p) == Unsigned(IF value < 0 THEN Signed(-value, p.int) ELSE value, Bits.llong)
AbsAsU64(value, p) ==
  IF value < 0 THEN Unsigned(-(value + 1), Bits.llong) + 1 ELSE Unsigned(value, Bits.llong)

Sign(negative, show_sign, space_flag) ==
  IF negative THEN <<"-">> ELSE IF show_sign THEN <<"+">> ELSE If(space_flag, " ")

WriteInt(value, p, show_sign, space_flag) ==
  Sign(value < 0, show_sign, space_flag) \o WriteUnsigned(AbsAsU64(value, p))
-----------------------------------------------------------------------------
(* The float next to a count of ticks, ties to even, and so every product  *)
(* and conversion that GetComponents makes.                                *)
FloatRound(ticks, p) ==
  LET above[n \in Nat] == IF n = 0 THEN 1 ELSE 2 * above[n \div 2]
      unit == above[ticks \div Power(2, p.float)]
      low  == ticks \div unit
      rest == 2 * (ticks % unit)
  IN  unit * (IF rest > unit \/ (rest = unit /\ low % 2 = 1) THEN low + 1 ELSE low)

Magnitude(ticks) == IF ticks < 0 THEN -ticks ELSE ticks

(* A finite value split at the point, with rounding and carry.             *)
RoundedUp(scaled, half) ==
  LET rest == scaled % Ticks IN
    scaled \div Ticks + (IF rest > half \/ (rest = half /\ (scaled \div Ticks) % 2 = 1) THEN 1 ELSE 0)

ComponentsWith(value, precision, p, top) ==
  LET abs_val  == Magnitude(value)
      whole    == abs_val \div Ticks
      rounded  == RoundedUp(FloatRound((abs_val % Ticks) * Power(10, precision), p), Ticks \div 2)
      carry    == FloatRound(rounded * Ticks, p) >= top * Ticks
      integral == IF carry THEN whole + 1 ELSE whole
      odd_half == precision = 0 /\ integral % 2 = 1 /\ 2 * (abs_val - integral * Ticks) = Ticks
  IN  [integral   |-> IF odd_half THEN integral + 1 ELSE integral,
       fractional |-> IF carry THEN 0 ELSE rounded,
       negative   |-> value < 0]

ComponentsNoCarry(value, precision, p) == ComponentsWith(value, precision, p, Power(10, precision) + 1)
GetComponents(value, precision, p)     == ComponentsWith(value, precision, p, Power(10, precision))

(* kMaxSafeIntegral: from here on a conversion to int64_t overflows.       *)
SafeTicks == Power(2, Bits.llong - 1) * Ticks

(* A float is [class |-> "nan", "inf" or "finite", ticks |-> its value, or *)
(* the sign of an infinity].                                               *)
IsNormal(v) == v.class = "finite" /\ Magnitude(v.ticks) < SafeTicks

(* The cast to the policy's FloatType.                                     *)
FloatOf(v, p) == IF v.class # "finite" THEN v
  ELSE [v EXCEPT !.ticks = (IF @ < 0 THEN -1 ELSE 1) * FloatRound(Magnitude(@), p)]

(* The sign is put by the caller if it pads with zeros (emit_sign).        *)
WriteFloat(v, precision, p, show_sign, emit_sign, alternate_form, space_flag) ==
  LET sign == IF emit_sign THEN Sign(v.ticks < 0, show_sign, space_flag) ELSE <<>>
      c    == GetComponents(v.ticks, Min({precision, p.max}), p)
      frac == [i \in 1..Min({precision, p.max}) |->
                 LowerDigits[((c.fractional \div Power(10, Min({precision, p.max}) - i)) % 10) + 1]]
  IN  IF v.class = "nan" THEN <<"n", "a", "n">>
      ELSE IF v.class = "inf"
           THEN (IF v.ticks < 0 THEN <<"-">> ELSE sign) \o <<"i", "n", "f">>
      ELSE IF ~IsNormal(v) THEN sign \o <<"o", "v", "f">>
      ELSE sign \o WriteUnsigned(c.integral) \o If(precision > 0 \/ alternate_form, ".") \o frac
=============================================================================
