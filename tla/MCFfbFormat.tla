---- MODULE MCFfbFormat ----
EXTENDS FfbFormat

(* int has 5 bits, and size_t the modulus of int.                          *)
MCBits == [char |-> 3, short |-> 4, int |-> 5, long |-> 5, llong |-> 7,
           intmax |-> 7, size |-> 5, ptrdiff |-> 5, ldouble |-> 12]
MCChar == Range(LowerDigits) \cup Range(UpperDigits)
  \cup {"NUL", "%", "+", "-", " ", ".", "(", "n", "u", "l", ")", "i", "o", "v", "x", "X"}
  \cup {"#", "*", ":", "p", "q", "r", "s", "t", "h", "j", "z", "L", "nl"}
Standard == [int |-> 5, uint |-> 5, float |-> 8, decimals |-> TRUE, default |-> 2, max |-> 2]
High     == [Standard EXCEPT !.int = 7, !.uint = 7, !.float = 12]
NoFloat  == [Standard EXCEPT !.decimals = FALSE]
MCPolicies == {Standard, High, NoFloat}

Without      == [how |-> "none", n |-> 0]
Digitally(n) == [how |-> "digits", n |-> n]
Star(n)      == [how |-> "star", n |-> n]
Bare         == [how |-> "bare", n |-> 0]

Conversion(letter, arg) ==
  [flags |-> <<>>, width |-> Without, precision |-> Without, mod |-> <<>>, letter |-> letter, arg |-> arg]
Literal(chars) == [text |-> chars]
Into(policy, pieces) ==
  [policy |-> policy, held |-> <<>>, append |-> FALSE, pieces |-> pieces]

Real(ticks) == [class |-> "finite", ticks |-> ticks]
NaN         == [class |-> "nan", ticks |-> 0]
Inf(sign)   == [class |-> "inf", ticks |-> sign]

FlagRuns == {SetToSeq(set) : set \in SUBSET Flags}
Widths   == {Without, Digitally(3), Digitally(10), Star(4), Star(-9), Star(-16)}

Laidout(conversions) ==
  {Into(Standard, <<[c EXCEPT !.flags = f, !.width = w]>>) :
     c \in conversions, f \in FlagRuns, w \in Widths}

IntegerCalls ==
  Laidout({Conversion("d", v) : v \in {-16, -1, 0, 9, 15}}
            \cup {Conversion(l, v) : l \in {"u", "x", "X"}, v \in {0, 9, 15, 31}})
FlaggedFloats ==
  Laidout({[Conversion("f", v) EXCEPT !.precision = Digitally(1)] :
             v \in {NaN, Inf(1), Inf(-1), Real(0), Real(-384), Real(2^14), Real(-(2^14))}})
OtherCalls ==
  Laidout({Conversion("s", s) : s \in {<<>>, <<"a", "b">>, Null}} \cup {Conversion("%", 0)})
  \cup Laidout({Conversion("c", "a"), Conversion("q", 0)})

Typical == {-64, -16, -5, -1, 0, 3, 7, 15, 16, 31, 63, 127}
Mods == {<<>>, <<"h">>, <<"h", "h">>, <<"l">>, <<"l", "l">>, <<"j">>, <<"z">>, <<"t">>}

(* A value of the type that the modifier names.                            *)
OfType(l, m, v) ==
  LET bits == Bits[IntType(m)] IN
    v \in (IF m = <<"t">> \/ (l = "i" /\ m # <<"z">>) THEN -(2^(bits - 1))..(2^(bits - 1) - 1)
                                                     ELSE 0..(2^bits - 1))
ModifiedCalls ==
  UNION {{Into(p, <<[Conversion(l, v) EXCEPT !.mod = m]>>) :
            p \in MCPolicies, v \in {u \in Typical : OfType(l, m, u)}} :
           l \in {"i", "u", "x"}, m \in Mods}

(* Every Standard value up to 4, and some of a longer mantissa.            *)
Ticked == (0..260) \cup {2 * n : n \in 130..256} \cup {4 * n : n \in 128..256} \cup {2047, 2049}
FloatCalls ==
  {Into(p, <<[Conversion("f", Real(t)) EXCEPT !.precision = Digitally(n)]>>) :
     p \in {Standard}, t \in Ticked, n \in 0..2}
  \cup {Into(High, <<[Conversion("f", Real(t)) EXCEPT !.precision = Digitally(2)]>>) :
          t \in {n \in Ticked : n % 3 = 1}}

Precisions == {Without, Bare, Digitally(1), Digitally(9), Digitally(10), Star(-1), Star(0), Star(9)}
PrecisionCalls ==
  {Into(p, <<[Conversion("f", Real(-332)) EXCEPT !.precision = n, !.width = w, !.mod = m, !.flags = f]>>) :
     p \in MCPolicies, n \in Precisions, w \in {Without, Star(-9), Digitally(10)}, m \in {<<>>, <<"L">>},
     f \in {<<>>, <<"#">>, <<"0", "0", "+">>}}

(* The call of algo_ffb, and one that a skipped float would misalign.      *)
AlgoFfb ==
  <<[Conversion("f", Real(316)) EXCEPT !.flags = <<"0">>, !.precision = Digitally(6)], Literal(<<":">>),
    [Conversion("d", 10) EXCEPT !.flags = <<"0">>, !.width = Digitally(4)], Literal(<<":">>),
    [Conversion("f", Real(804)) EXCEPT !.flags = <<"+">>], Literal(<<":">>),
    Conversion("s", <<"s", "t", "r">>), Literal(<<":">>),
    [Conversion("x", 15) EXCEPT !.flags = <<"#">>], Literal(<<":">>),
    Conversion("c", "X"), Literal(<<":">>), Conversion("%", 0), Literal(<<"nl">>)>>
Aligned ==
  <<Conversion("f", Real(1)), [Conversion("d", 7) EXCEPT !.width = Star(3)], Conversion("f", Real(2)),
    [Conversion("f", Real(3)) EXCEPT !.width = Star(2), !.precision = Star(1)], Conversion("u", 9)>>

MultiCalls ==
  {[Into(p, pieces) EXCEPT !.held = h, !.append = a] :
     p \in MCPolicies, pieces \in {AlgoFfb, Aligned, <<>>, <<Literal(<<"a", "b">>)>>,
       <<Literal(<<"a">>), Conversion("%", 0), Literal(<<"%">>)>>,
       <<[Conversion("d", 7) EXCEPT !.width = Digitally(9)], Literal(<<"b">>)>>},
     h \in {<<>>, <<"p">>, <<"p", "q", "r", "s", "t">>, <<"p", "q", "r", "s", "t", "u">>}, a \in BOOLEAN}

MCCalls == IntegerCalls \cup FlaggedFloats \cup OtherCalls \cup ModifiedCalls
             \cup FloatCalls \cup PrecisionCalls \cup MultiCalls

(* A format string that ends anywhere, with another constant behind it.    *)
MCShortCalls ==
  {Into(p, <<Literal(<<"a">>), [Conversion("d", 7) EXCEPT !.flags = <<"-">>, !.width = Digitally(5),
                                  !.precision = Digitally(1), !.mod = <<"l">>]>>) : p \in MCPolicies}

IncompleteInit ==
  /\ call \in Calls
  /\ \E k \in 1..Len(SpelledBy(call.pieces)) :
       StartOn(SubSeq(SpelledBy(call.pieces), 1, k) \o <<"NUL", "z", "NUL">>)

IncompleteSpec == IncompleteInit /\ [][FormatNext]_formatVars
====
