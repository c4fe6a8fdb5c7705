----------------------------- MODULE FfbFormat -----------------------------
(***************************************************************************)
(* One call of Format or Append of ffb::FixedFormatBuffer: the parser of   *)
(* conversions, va_list, the layout of a field and the one bounds check    *)
(* that all output passes.  Each Parse* helper is a step, and each case of *)
(* DispatchSpecifier.  Characters are strings of length one, "NUL" the     *)
(* terminator.                                                             *)
(*                                                                         *)
(* A call is described by pieces: a literal [text |-> characters] or a     *)
(* conversion [flags |-> a sequence, width, precision |-> [how, n], mod |->*)
(* a sequence, letter, arg |-> its value].  A width or precision is there  *)
(* in digits, as "*" or not at all ("none"); a precision may be a bare "." *)
(***************************************************************************)
EXTENDS FfbNumbers

CONSTANTS
  N,            (* The capacity.                                           *)
  SizeModulus,  (* size_t and unsigned int wrap here: 2^32.                *)
  Calls         (* [policy, held |-> what the buffer holds, append |->     *)
                (* BOOLEAN, pieces].                                       *)

VARIABLES
  call,       (* The call that is made, one of Calls.                      *)
  fmt,        (* The format string in memory, to the end of the constant.  *)
  args,       (* va_list: a sequence of [type, val].                       *)
  at, next,   (* Index of *fmt; index of the next argument.                *)
  spec,       (* FormatSpec.                                               *)
  fpc,        (* "scan", the Parse* step to come, "dispatch" or "done".    *)
  buf, pos,   (* The gadget: buffer_ and pos.                              *)
  size,       (* size_, once DoFormat has returned.                        *)
  begun,      (* History: the piece whose conversion was begun last, or 0. *)
  field,      (* History: <<what the conversion just dispatched put>>.     *)
  all         (* History: everything in the text from position 0 on.       *)

parserVars == <<call, fmt, args>>
formatVars == <<parserVars, at, next, spec, fpc, buf, pos, size, begun, field, all>>

Flags      == {"-", "+", " ", "0", "#"}
Numerals   == Range(SubSeq(LowerDigits, 1, 10))
Number(s)  == Valued(s, LowerDigits, 10)
Upto(n, c) == [i \in 1..n |-> c]
-----------------------------------------------------------------------------
(* What the caller writes: pieces with an argument of the right type.      *)
IsLiteral(c) == "text" \in DOMAIN c
LengthMods   == {<<>>, <<"h">>, <<"h", "h">>, <<"l">>, <<"l", "l">>, <<"j">>, <<"z">>, <<"t">>, <<"L">>}

ProperArg(c) ==
  CASE c.letter \in {"d", "i", "u", "x", "X"} ->
         c.arg \in Int /\ (c.mod = <<"z">> => c.arg \in 0..(Power(2, Bits.size) - 1))
    [] c.letter = "f" -> c.arg \in [class : {"nan", "inf", "finite"}, ticks : Int]
    [] c.letter = "c" -> c.arg \in Char
    [] c.letter = "s" -> c.arg \in Seq(Char) \cup {Null}
    [] OTHER          -> TRUE

Proper(c) ==
  /\ DOMAIN c = {"flags", "width", "precision", "mod", "letter", "arg"}
  /\ c.flags \in Seq(Flags) /\ c.mod \in LengthMods
  /\ c.letter \in Char \ (Flags \cup Numerals \cup {"*", ".", "h", "l", "j", "z", "t", "L", "NUL"})
  /\ c.width \in [how : {"none", "digits", "star"}, n : Int] /\ Magnitude(c.width.n) < SizeModulus
  /\ c.precision \in [how : {"none", "bare", "digits", "star"}, n : Int]
  /\ (c.width.how = "digits" => c.width.n > 0) /\ (c.precision.how = "digits" => c.precision.n >= 0)
  /\ ProperArg(c)

(* A lone "%" may be the end of a format string.                           *)
ASSUME CallsAssumption ==
  /\ N \in Nat \ {0} /\ SizeModulus \in Nat /\ N < SizeModulus
  /\ \A c \in Calls :
       /\ c.policy \in Policies /\ c.append \in BOOLEAN
       /\ c.held \in Seq(Char) /\ Len(c.held) <= N
       /\ c.pieces \in Seq(Range(c.pieces))
       /\ \A k \in DOMAIN c.pieces :
            IF IsLiteral(c.pieces[k])
            THEN \/ c.pieces[k].text \in Seq(Char \ {"%", "NUL"}) \ {<<>>}
                 \/ c.pieces[k].text = <<"%">> /\ k = Len(c.pieces)
            ELSE Proper(c.pieces[k])

(* The format string of the pieces, and the arguments.                     *)
Decimals(w) ==
  CASE w.how = "none"   -> <<>>
    [] w.how = "star"   -> <<"*">>
    [] w.how = "bare"   -> <<>>
    [] w.how = "digits" -> WriteUnsigned(w.n)

Rendered(c) ==
  IF IsLiteral(c) THEN c.text
  ELSE <<"%">> \o c.flags \o Decimals(c.width) \o If(c.precision.how # "none", ".")
         \o Decimals(c.precision) \o c.mod \o <<c.letter>>

IntType(mod) ==
  CASE mod = <<"l">>      -> "long"   [] mod = <<"l", "l">> -> "llong"
    [] mod = <<"j">>      -> "intmax" [] mod = <<"z">>      -> "size"
    [] mod = <<"t">>      -> "ptrdiff" [] OTHER             -> "int"

(* The type va_arg reads.                                                  *)
ArgType(letter, mod) ==
  CASE letter \in {"d", "i", "u", "x", "X"} -> IntType(mod)
    [] letter = "f" -> IF mod = <<"L">> THEN "ldouble" ELSE "double"
    [] letter = "c" -> "int"
    [] letter = "s" -> "pointer"
    [] OTHER        -> "none"

StarArg(w) == If(w.how = "star", [type |-> "int", val |-> w.n])

Passed(c) ==
  IF IsLiteral(c) THEN <<>>
  ELSE StarArg(c.width) \o StarArg(c.precision)
         \o If(ArgType(c.letter, c.mod) # "none", [type |-> ArgType(c.letter, c.mod), val |-> c.arg])

SpelledBy(pieces) == FlattenSeq([i \in DOMAIN pieces |-> Rendered(pieces[i])])
PassedBy(pieces)  == FlattenSeq([i \in DOMAIN pieces |-> Passed(pieces[i])])

(* kIsValidFormatArg: no integer or floating type wider than the policy's. *)
(* A float is promoted to double, so with such a policy a double was one.  *)
ValidArg(arg, policy) ==
  CASE arg.type \in {"llong", "intmax"} -> Max({policy.int, policy.uint}) >= Bits[arg.type]
    [] arg.type = "ldouble" -> policy.float >= Bits.ldouble
    [] arg.type = "double"  -> policy.float < Bits.ldouble => arg.val = FloatOf(arg.val, policy)
    [] OTHER -> TRUE

NoSpec(policy) == [flags |-> {}, width |-> 0, precision |-> policy.default, mod |-> <<>>]

StartOn(memory) ==
  /\ fmt = memory
  /\ args = PassedBy(call.pieces)
  /\ \A k \in DOMAIN args : ValidArg(args[k], call.policy)
  /\ at = 1 /\ next = 1 /\ spec = NoSpec(call.policy) /\ fpc = "scan"
  /\ buf = [k \in 0..N |-> IF k < Len(call.held) THEN call.held[k + 1] ELSE "NUL"]
  /\ pos = (IF call.append THEN Len(call.held) ELSE 0)
  /\ size = Len(call.held)
  /\ begun = 0 /\ field = <<>> /\ all = SubSeq(call.held, 1, pos)

FormatInit == call \in Calls /\ StartOn(SpelledBy(call.pieces) \o <<"NUL">>)
-----------------------------------------------------------------------------
(* Gadget::Put of each character of s, which counts on beyond the buffer.  *)
Landing(s, k) == {i \in DOMAIN s : (pos + i - 1) % SizeModulus = k}

PutWithin(s, end) ==
  /\ buf' = [k \in 0..N |-> IF k < end /\ Landing(s, k) # {} THEN s[Max(Landing(s, k))] ELSE buf[k]]
  /\ pos' = (pos + Len(s)) % SizeModulus
  /\ all' = all \o s

PutAllLong(s) == PutWithin(s, N + 1)
PutAll(s)     == PutWithin(s, N)

PutLiteral ==
  /\ fpc = "scan" /\ fmt[at] \notin {"%", "NUL"}
  /\ PutAll(<<fmt[at]>>)
  /\ at' = at + 1
  /\ field' = <<>>
  /\ UNCHANGED <<parserVars, next, spec, fpc, size, begun>>

BeginConversion ==
  /\ fpc = "scan" /\ fmt[at] = "%" /\ fmt[at + 1] # "NUL"
  /\ at' = at + 1 /\ fpc' = "flags" /\ spec' = NoSpec(call.policy)
  /\ begun' = Min({k \in DOMAIN call.pieces : k > begun /\ ~IsLiteral(call.pieces[k])})
  /\ field' = <<>>
  /\ UNCHANGED <<parserVars, next, buf, pos, size, all>>

(* The characters from *fmt on that are in set.                            *)
RunOf(set, from) == SubSeq(fmt, from, Min({k \in from..Len(fmt) : fmt[k] \notin set}) - 1)

Parsed(step, newSpec, newAt, newNext) ==
  /\ fpc' = step /\ spec' = newSpec /\ at' = newAt /\ next' = newNext
  /\ UNCHANGED <<parserVars, buf, pos, size, begun, field, all>>

ParseFlags ==
  /\ fpc = "flags"
  /\ LET run == RunOf(Flags, at) IN
       Parsed("width", [spec EXCEPT !.flags = Range(run)], at + Len(run), next)

ParseWidthFrom(start) ==
  /\ fpc = "width"
  /\ LET run == RunOf(Numerals, at)
         w   == args[next].val
     IN  IF fmt[at] = "*"
         THEN Parsed("precision", [spec EXCEPT !.width = Magnitude(w) % SizeModulus,
                                               !.flags = IF w < 0 THEN @ \cup {"-"} ELSE @],
                     at + 1, next + 1)
         ELSE IF fmt[at] \in start
         THEN Parsed("precision", [spec EXCEPT !.width = Number(run) % SizeModulus], at + Len(run), next)
         ELSE Parsed("precision", spec, at, next)

ParseWidthShort == ParseWidthFrom(Numerals \ {"0", "9"})
ParseWidth      == ParseWidthFrom(Numerals \ {"0"})

ParsePrecision ==
  /\ fpc = "precision"
  /\ LET run == RunOf(Numerals, at + 1)
         p   == args[next].val
     IN  IF fmt[at] # "." THEN Parsed("length", [spec EXCEPT !.precision = call.policy.default], at, next)
         ELSE IF fmt[at + 1] = "*"
         THEN Parsed("length", [spec EXCEPT !.precision = IF p < 0 THEN call.policy.default
                                                          ELSE Min({p, call.policy.max})],
                     at + 2, next + 1)
         ELSE Parsed("length", [spec EXCEPT !.precision = Min({Number(run), call.policy.max})],
                     at + 1 + Len(run), next)

ParseLengthMod ==
  /\ fpc = "length"
  /\ LET mod == IF fmt[at] \in {"h", "l"} /\ fmt[at + 1] = fmt[at] THEN SubSeq(fmt, at, at + 1)
                ELSE If(fmt[at] \in {"h", "l", "j", "z", "t", "L"}, fmt[at])
     IN  Parsed("dispatch", [spec EXCEPT !.mod = mod], at + Len(mod), next)
-----------------------------------------------------------------------------
(* The layout of a field.  The counting gadget finds the content's length. *)
Fill(content, c) == Upto(spec.width - Len(content), c)
Zeroed           == spec.width > 0 /\ "0" \in spec.flags /\ "-" \notin spec.flags
Flagged(c)       == c \in spec.flags

SpacePadded(content) ==
  IF Flagged("-") THEN content \o Fill(content, " ") ELSE Fill(content, " ") \o content

ZeroPadded(prefix, magnitude) == prefix \o Fill(prefix \o magnitude, "0") \o magnitude

Numeric(prefix, magnitude) ==
  IF Zeroed THEN ZeroPadded(prefix, magnitude) ELSE SpacePadded(prefix \o magnitude)

FormatSignedInt(v) ==
  IF Zeroed
  THEN ZeroPadded(Sign(v < 0, Flagged("+"), Flagged(" ")), WriteUnsigned(AbsAsU64(v, call.policy)))
  ELSE SpacePadded(WriteInt(v, call.policy, Flagged("+"), Flagged(" ")))

FormatHex(v, uppercase) ==
  Numeric(IF Flagged("#") /\ v # 0 THEN <<"0", IF uppercase THEN "X" ELSE "x">> ELSE <<>>,
          WriteHex(v, uppercase))

FormatFloatValue(v) ==
  LET written(emit_sign) == WriteFloat(v, spec.precision, call.policy, Flagged("+"), emit_sign,
                                       Flagged("#"), Flagged(" "))
  IN  IF Zeroed /\ IsNormal(v)
      THEN ZeroPadded(Sign(v.ticks < 0, Flagged("+"), Flagged(" ")), written(FALSE))
      ELSE IF Zeroed THEN Fill(written(TRUE), " ") \o written(TRUE)
      ELSE SpacePadded(written(TRUE))

(* ReadSignedArg, ReadUnsignedArg and ReadFloatArg: va_arg at the width of *)
(* the modifier, then the cast to the policy's type.                       *)
Narrowed(type) == IF spec.mod = <<"h", "h">> THEN "char" ELSE IF spec.mod = <<"h">> THEN "short" ELSE type

SignedArg   == LET type == Narrowed(IntType(spec.mod)) IN
  Signed(IF type = "size" THEN Unsigned(args[next].val, Bits.size)
                          ELSE Signed(args[next].val, Bits[type]), call.policy.int)
UnsignedArg == Unsigned(IF spec.mod = <<"t">> THEN args[next].val
                        ELSE Unsigned(args[next].val, Bits[Narrowed(IntType(spec.mod))]), call.policy.uint)
FloatArg    == FloatOf(args[next].val, call.policy)

Dispatched(text, reads) ==
  /\ PutAll(text) /\ field' = <<text>>
  /\ at' = at + 1 /\ next' = next + reads /\ fpc' = "scan"
  /\ UNCHANGED <<parserVars, spec, size, begun>>

Letter(set) == fpc = "dispatch" /\ fmt[at] \in set

PutCharacter == Letter({"c"}) /\ Dispatched(SpacePadded(<<args[next].val>>), 1)
PutString    == Letter({"s"}) /\ Dispatched(SpacePadded(WriteString(args[next].val)), 1)
PutSigned    == Letter({"d", "i"}) /\ Dispatched(FormatSignedInt(SignedArg), 1)
PutUnsigned  == Letter({"u"}) /\ Dispatched(Numeric(<<>>, WriteUnsigned(UnsignedArg)), 1)
PutHex       == Letter({"x", "X"}) /\ Dispatched(FormatHex(UnsignedArg, fmt[at] = "X"), 1)

(* Without kSupportFloatingPointDecimals the argument is read all the same.*)
PutFloatReading(reads) ==
  Letter({"f"}) /\ IF call.policy.decimals THEN Dispatched(FormatFloatValue(FloatArg), 1)
                                           ELSE Dispatched(<<>>, reads)
PutFloatSkip == PutFloatReading(0)
PutFloat     == PutFloatReading(1)

PutPercent   == Letter({"%"}) /\ Dispatched(<<"%">>, 0)
PutUnknown   == fpc = "dispatch" /\ fmt[at] \notin {"c", "s", "d", "i", "u", "x", "X", "f", "%"}
                  /\ Dispatched(<<"%", fmt[at]>>, 0)

(* The end of the loop: at the terminator, or at a lone % in front of it.  *)
FinishAt(end) ==
  /\ fpc = "scan" /\ (fmt[at] = "NUL" \/ (fmt[at] = "%" /\ fmt[at + 1] = "NUL"))
  /\ fpc' = "done"
  /\ buf' = [buf EXCEPT ![end] = "NUL"]
  /\ size' = end /\ field' = <<>>
  /\ UNCHANGED <<parserVars, at, next, spec, pos, begun, all>>

FinishLong == FinishAt(IF pos <= N THEN pos ELSE N + 1)
Finish     == FinishAt(IF pos < N THEN pos ELSE N)

FormatNext ==
  \/ PutLiteral \/ BeginConversion \/ ParseFlags \/ ParseWidth \/ ParsePrecision \/ ParseLengthMod
  \/ PutCharacter \/ PutString \/ PutSigned \/ PutUnsigned \/ PutHex \/ PutFloat
  \/ PutPercent \/ PutUnknown \/ Finish

FormatSpec == FormatInit /\ [][FormatNext]_formatVars
-----------------------------------------------------------------------------
FormatTypeOK ==
  /\ fpc \in {"scan", "flags", "width", "precision", "length", "dispatch", "done"}
  /\ at \in DOMAIN fmt /\ next \in 1..(Len(args) + 1)
  /\ spec.flags \subseteq Flags /\ spec.width \in 0..(SizeModulus - 1)
  /\ spec.precision \in 0..call.policy.max
  /\ DOMAIN buf = 0..N /\ pos \in 0..(SizeModulus - 1) /\ size \in 0..N

Begun == call.pieces[begun]

(* What a conversion means by "%[flags][width][.precision][length]         *)
(* specifier", with a precision of MaxFloatPrecision at most.              *)
Meant(c) ==
  [flags     |-> Range(c.flags) \cup (IF c.width.how = "star" /\ c.width.n < 0 THEN {"-"} ELSE {}),
   width     |-> IF c.width.how = "none" THEN 0 ELSE Magnitude(c.width.n),
   precision |-> CASE c.precision.how = "none" -> call.policy.default
                   [] c.precision.how = "bare" -> 0
                   [] OTHER -> IF c.precision.n < 0 THEN call.policy.default
                               ELSE Min({c.precision.n, call.policy.max}),
   mod       |-> c.mod]

(* The five Parse* helpers together undo the writing of a conversion: each *)
(* part ends up in its own field, and *fmt is the letter.                  *)
ParsedAsWritten == fpc = "dispatch" => spec = Meant(Begun) /\ fmt[at] = Begun.letter

(* A conversion reads the argument that was passed for it, stars and float *)
(* conversions that put nothing included, and none is left over.           *)
ArgumentsAligned ==
  /\ fpc = "dispatch" =>
       next = 1 + Len(PassedBy(SubSeq(call.pieces, 1, begun - 1)))
                + Len(StarArg(Begun.width)) + Len(StarArg(Begun.precision))
  /\ fpc = "done" => next = Len(args) + 1

(* text is body with its prefix, padded to the width on one side only.     *)
Laid(text, m, prefix, body, zeroable) ==
  LET pad   == Max({0, m.width - Len(prefix) - Len(body)})
      tail  == IF "-" \in m.flags THEN pad ELSE 0
      zeros == IF zeroable /\ "0" \in m.flags /\ tail = 0 THEN pad ELSE 0
  IN  text = Upto(pad - zeros - tail, " ") \o prefix \o Upto(zeros, "0") \o body \o Upto(tail, " ")

Denotes(s, digits, base, value) ==
  /\ Range(s) \subseteq Range(SubSeq(digits, 1, base))
  /\ Valued(s, digits, base) = value

(* The shortest numeral of value.                                          *)
IsNumeral(s, digits, base, value) ==
  /\ s # <<>> /\ (Len(s) > 1 => s[1] # "0")
  /\ Denotes(s, digits, base, value)

SomePart(text, IsBody(_)) ==
  \E i \in DOMAIN text : \E j \in i..Len(text) : IsBody(SubSeq(text, i, j))

SignOf(negative, m) ==
  IF negative THEN <<"-">> ELSE IF "+" \in m.flags THEN <<"+">>
  ELSE IF " " \in m.flags THEN <<" ">> ELSE <<>>

ArgBits(c) == CASE c.mod = <<"h", "h">> -> Bits.char [] c.mod = <<"h">> -> Bits.short
                [] OTHER -> Bits[IntType(c.mod)]

SignedAsSpecified(c, m, text) ==
  LET v == Signed(IF c.mod = <<"z">> THEN c.arg ELSE Signed(c.arg, ArgBits(c)), call.policy.int)
  IN  SomePart(text, LAMBDA s : /\ IsNumeral(s, LowerDigits, 10, Magnitude(v))
                                /\ Laid(text, m, SignOf(v < 0, m), s, TRUE))

UnsignedAsSpecified(c, m, text) ==
  LET v      == Unsigned(IF c.mod = <<"t">> THEN c.arg ELSE Unsigned(c.arg, ArgBits(c)), call.policy.uint)
      base   == IF c.letter = "u" THEN 10 ELSE 16
      digits == IF c.letter = "X" THEN UpperDigits ELSE LowerDigits
      prefix == IF base = 16 /\ "#" \in m.flags /\ v # 0 THEN <<"0", c.letter>> ELSE <<>>
  IN  SomePart(text, LAMBDA s : IsNumeral(s, digits, base, v) /\ Laid(text, m, prefix, s, TRUE))

(* What DispatchSpecifier is to put, but for a float.                      *)
Specified(text) ==
  LET c == Begun m == Meant(c) IN
    CASE c.letter \in {"d", "i"}      -> SignedAsSpecified(c, m, text)
      [] c.letter \in {"u", "x", "X"} -> UnsignedAsSpecified(c, m, text)
      [] c.letter = "s" -> Laid(text, m, <<>>, WriteString(c.arg), FALSE)
      [] c.letter = "c" -> Laid(text, m, <<>>, <<c.arg>>, FALSE)
      [] c.letter = "%" -> text = <<"%">>
      [] c.letter = "f" -> ~call.policy.decimals => text = <<>>
      [] OTHER          -> text = <<"%", c.letter>>

(* Every field but a float's: the shortest numeral of the value, its sign  *)
(* or 0x in front of the zeros, the padding on the side the flags say, and *)
(* exactly the width if the content is shorter.                            *)
FieldAsSpecified == field # <<>> => Specified(field[1])

(* The number of units of 10^-precision that s spells, point and all.      *)
IsDecimal(s, m, units) ==
  LET places == m.precision
      point  == places > 0 \/ "#" \in m.flags
      whole  == SubSeq(s, 1, Len(s) - places - (IF point THEN 1 ELSE 0))
  IN  /\ whole # <<>> /\ (Len(whole) > 1 => whole[1] # "0")
      /\ point => s[Len(whole) + 1] = "."
      /\ Denotes(whole \o SubSeq(s, Len(s) - places + 1, Len(s)), LowerDigits, 10, units)

(* n / d, to the nearest, a half to even.                                  *)
HalfEven(n, d) ==
  LET q == n \div d  r == 2 * (n % d) IN IF r > d \/ (r = d /\ q % 2 = 1) THEN q + 1 ELSE q

(* The nearest decimal, but for one rounding of the fraction's product; if *)
(* that product is a float, with ties to even.                             *)
Near(units, ticks, places, p) ==
  LET exact    == Magnitude(ticks) * Power(10, places)
      fraction == (Magnitude(ticks) % Ticks) * Power(10, places)
  IN  /\ 2 * Magnitude(units * Ticks - exact) * Power(2, p.float) <= Ticks * Power(2, p.float) + 2 * fraction
      /\ FloatRound(fraction, p) = fraction => units = HalfEven(exact, Ticks)

FloatText(m, v, text, Accepted(_)) ==
  LET nearest == HalfEven(Magnitude(v.ticks) * Power(10, m.precision), Ticks) IN
  SomePart(text, LAMBDA s :
    /\ Laid(text, m, SignOf(v.ticks < 0, m), s, TRUE)
    /\ \E units \in {nearest - 1, nearest, nearest + 1} \cap Nat :
         IsDecimal(s, m, units) /\ Accepted(units))

DecimalShown == field # <<>> /\ Begun.letter = "f" /\ call.policy.decimals

(* A float's field: the sign, no superfluous zero, as many places as asked *)
(* for, the nearest decimal (Near), and a word without padding zeros if    *)
(* there is no such decimal.                                               *)
FloatLaid(text, m, v, p) ==
  LET sign == SignOf(v.ticks < 0, m) IN
    CASE IsNormal(v) -> FloatText(m, v, text, LAMBDA u : Near(u, v.ticks, m.precision, p))
      [] v.class = "nan" -> Laid(text, m, <<>>, <<"n", "a", "n">>, FALSE)
      [] v.class = "inf" -> Laid(text, m, sign, <<"i", "n", "f">>, FALSE)
      [] OTHER           -> Laid(text, m, sign, <<"o", "v", "f">>, FALSE)

(* WriteFloat and FormatFloatValue lay out what GetComponents rounded.     *)
FloatAsSpecified ==
  DecimalShown => FloatLaid(field[1], Meant(Begun), FloatOf(Begun.arg, call.policy), call.policy)

(* The buffer holds what fits of the whole text and a terminator right     *)
(* behind it; the slot behind the last character is never anything else.   *)
TruncatedPrefix ==
  /\ buf[N] = "NUL"
  /\ Len(all) < SizeModulus =>
       /\ pos = Len(all)
       /\ \A k \in 0..(Min({pos, N}) - 1) : buf[k] = all[k + 1]
       /\ fpc = "done" => size = Min({pos, N}) /\ buf[size] = "NUL"

(* "Applies banker's rounding (round-half-to-even)".                       *)
RoundsHalfToEven ==
  DecimalShown =>
    LET m == Meant(Begun)  v == FloatOf(Begun.arg, call.policy) IN
      IsNormal(v) =>
        FloatText(m, v, field[1],
                  LAMBDA u : u = HalfEven(Magnitude(v.ticks) * Power(10, m.precision), Ticks))

(* "Number of characters written (excluding null terminator)": the length  *)
(* that a call returns ends where the text ends.                           *)
CountsCharactersOnly == fpc = "done" => \A k \in 0..(size - 1) : buf[k] # "NUL"
=============================================================================
