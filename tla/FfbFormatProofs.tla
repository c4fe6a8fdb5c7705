--------------------------- MODULE FfbFormatProofs ---------------------------
(***************************************************************************)
(* One call of Format or Append puts what its format string says, for any  *)
(* format string, arguments, policy and capacity: theorems at the end.     *)
(* FormatInv says where in the format string and in va_list a call is at   *)
(* each step, and what is in the buffer.  It rests on lemmas about         *)
(* numerals, about the parts of a conversion, none of which begins as the  *)
(* one behind it does, about the layout of a field, and about the rounding *)
(* of a float.                                                             *)
(***************************************************************************)
EXTENDS FfbFormat, NumberFacts, SequenceTheorems

-----------------------------------------------------------------------------
Firsts(ss, k) == [i \in 1..k |-> ss[i]]

(* c[k] is the first k of the sequences ss, one behind the other, and what *)
(* FlattenSeq makes of them.                                               *)
Joins(c, ss, n) ==
  /\ c[0] = <<>> /\ \A v \in 1..n : c[v] = c[v - 1] \o ss[v]
  /\ \A k \in 0..n : FlattenSeq(Firsts(ss, k)) = c[k]

(* FlattenSeq appends one sequence after the other.                        *)
LEMMA FlattenFront ==
  ASSUME NEW S, NEW n \in Nat, NEW ss \in [1..n -> Seq(S)]
  PROVE  \E c \in [Nat -> Seq(S)] : Joins(c, ss, n)
<1> DEFINE base == {0}
           leaf == [v \in Nat |-> <<>>]
           prev == [v \in Nat |-> v - 1]
           node == [sv \in Seq(S) \X Nat |-> IF sv[2] \in 1..n THEN sv[1] \o ss[sv[2]] ELSE sv[1]]
<1>1. \E f \in [Nat -> Seq(S)] : Recurs(f, Nat, base, leaf, prev, node)
  <2>1. \A v \in Nat \ base : prev[v] \in 0..(v - 1)
    OBVIOUS
  <2>2. \A v \in Nat : v \in base => leaf[v] \in Seq(S)
    OBVIOUS
  <2>3. ASSUME NEW s \in Seq(S), NEW v \in Nat PROVE node[<<s, v>>] \in Seq(S)
    <3>1. v \in 1..n => ss[v] \in Seq(S)
      OBVIOUS
    <3> QED
      BY <3>1, ConcatProperties
  <2> HIDE DEF base, leaf, prev, node
  <2> QED
    BY <2>1, <2>2, <2>3, RecursionExists
<1>2. PICK c \in [Nat -> Seq(S)] : Recurs(c, Nat, base, leaf, prev, node)
  BY <1>1
<1>3. c[0] = <<>>
  BY <1>2 DEF Recurs
<1>4. ASSUME NEW v \in 1..n PROVE c[v] = c[v - 1] \o ss[v]
  <2>1. v \in Nat /\ v - 1 \in Nat /\ v \notin base /\ prev[v] = v - 1
    OBVIOUS
  <2>2. c[v] = node[<<c[v - 1], v>>]
    <3>1. c[v] = IF v \in base THEN leaf[v] ELSE node[<<c[prev[v]], v>>]
      <4> HIDE DEF base, leaf, prev, node
      <4> QED
        BY <2>1, <1>2 DEF Recurs
    <3> HIDE DEF base, leaf, prev, node
    <3> QED
      BY <3>1, <2>1, Zenon
  <2>3. c[v - 1] \in Seq(S)
    BY <2>1
  <2>4. node[<<c[v - 1], v>>] = c[v - 1] \o ss[v]
    BY <2>3, <2>1
  <2> QED
    BY <2>2, <2>4
<1> HIDE DEF base, leaf, prev, node
<1>5. ASSUME NEW k \in 0..n PROVE FlattenSeq([i \in 1..k |-> ss[i]]) = c[k]
  <2> DEFINE tt == [i \in 1..k |-> ss[i]]
  <2>1. tt \in Seq(Seq(S)) /\ Len(tt) = k /\ \A i \in 1..k : tt[i] = ss[i]
    OBVIOUS
  <2>2. CASE k = 0
    <3>1. tt = <<>>
      BY <2>1, <2>2
    <3> HIDE DEF tt
    <3>2. FlattenSeq(tt) = <<>>
      BY <3>1, <2>1, <2>2 DEF FlattenSeq
    <3> QED
      BY <3>2, <1>3, <2>2 DEF tt
  <2>3. CASE k # 0
    <3> DEFINE g == [i \in 1..k |-> c[i]]
    <3> DEFINE Is(f) == f = [i \in 1..Len(tt) |-> IF i = 1 THEN tt[i] ELSE f[i - 1] \o tt[i]]
    <3> HIDE DEF tt
    <3>1. c[1] = ss[1]
      <4>0. 1 \in 1..n /\ 1 - 1 = 0
        BY <2>3
      <4>1. 1 \in 1..n /\ c[1] = c[0] \o ss[1]
        <5>1. c[1] = c[1 - 1] \o ss[1]
          BY <4>0, <1>4
        <5> QED
          BY <5>1, <4>0
      <4>2. ss[1] \in Seq(S)
        BY <4>1
      <4> QED
        BY <4>1, <4>2, <1>3, ConcatEmptySeq
    <3>2. ASSUME NEW i \in 1..k PROVE g[i] = IF i = 1 THEN tt[i] ELSE g[i - 1] \o tt[i]
      <4>1. i \in 1..n /\ tt[i] = ss[i] /\ g[i] = c[i]
        BY <2>1
      <4>2. i # 1 => i - 1 \in 1..k /\ g[i - 1] = c[i - 1]
        OBVIOUS
      <4>3. c[i] = c[i - 1] \o ss[i]
        BY <4>1, <1>4
      <4> HIDE DEF g
      <4> QED
        BY <4>1, <4>2, <4>3, <3>1
    <3>3. Is(g)
      <4>1. g = [i \in 1..k |-> IF i = 1 THEN tt[i] ELSE g[i - 1] \o tt[i]]
        BY <3>2
      <4> QED
        BY <4>1, <2>1
    <3>4. Is(CHOOSE f : Is(f))
      <4> HIDE DEF Is
      <4> QED
        BY <3>3, Zenon
    <3>5. PICK f : f = CHOOSE h : Is(h)
      OBVIOUS
    <3>6. \A i \in 1..k : f[i] = IF i = 1 THEN tt[i] ELSE f[i - 1] \o tt[i]
      <4>1. Is(f)
        BY <3>4, <3>5
      <4> QED
        BY <4>1, <2>1
    <3>7. FlattenSeq(tt) = f[k]
      BY <3>5, <2>1, <2>3 DEF FlattenSeq
    <3> DEFINE T == {i \in 1..k : f[i] # c[i]}
    <3>8. T = {}
      <4> SUFFICES ASSUME T # {} PROVE FALSE
        OBVIOUS
      <4>0. T \subseteq Nat
        OBVIOUS
      <4>1. PICK i \in T : \A j \in T : i <= j
        <5> HIDE DEF T
        <5> QED
          BY <4>0, LeastElement
      <4>2. i \in 1..k /\ f[i] # c[i]
        OBVIOUS
      <4>3. i # 1
        BY <4>2, <3>6, <3>1, <2>1
      <4>4. i - 1 \in 1..k /\ ~(i <= i - 1)
        BY <4>2, <4>3
      <4>5. f[i - 1] = c[i - 1]
        BY <4>4, <4>1
      <4>6. c[i] = c[i - 1] \o ss[i] /\ tt[i] = ss[i]
        <5>1. i \in 1..n
          BY <4>2
        <5> HIDE DEF T
        <5> QED
          BY <5>1, <4>2, <1>4, <2>1
      <4>7. f[i] = f[i - 1] \o tt[i]
        BY <4>2, <4>3, <3>6
      <4> HIDE DEF T
      <4> QED
        BY <4>2, <4>5, <4>6, <4>7, Zenon
    <3>9. FlattenSeq(tt) = c[k]
      <4>1. k \in 1..k
        BY <2>3
      <4> QED
        BY <4>1, <3>7, <3>8
    <3> QED
      BY <3>9 DEF tt
  <2> QED
    BY <2>2, <2>3 DEF tt
<1>6. \A k \in 0..n : FlattenSeq(Firsts(ss, k)) = c[k]
  BY <1>5 DEF Firsts
<1>7. Joins(c, ss, n)
  BY <1>3, <1>4, <1>6 DEF Joins
<1> QED
  BY <1>7

(* A product of positive numbers is positive.                              *)
LEMMA PositiveProduct ==
  ASSUME NEW a \in Nat \ {0}, NEW b \in Nat \ {0}
  PROVE  a * b \in Nat \ {0}
BY FactorBound

(* A power by its recursion.                                               *)
LEMMA PowerSteps ==
  ASSUME NEW base \in Nat \ {0}
  PROVE  /\ Power(base, 0) = 1
         /\ \A n \in Nat : Power(base, n) \in Nat \ {0} /\ Power(base, n + 1) = base * Power(base, n)
<1> DEFINE zero == {0}
           leaf == [v \in Nat |-> 1]
           prev == [v \in Nat |-> v - 1]
           node == [xv \in (Nat \ {0}) \X Nat |-> base * xv[1]]
           Is(f) == f = [k \in Nat |-> IF k = 0 THEN 1 ELSE base * f[k - 1]]
<1>1. PICK g \in [Nat -> Nat \ {0}] : Recurs(g, Nat, zero, leaf, prev, node)
  <2>1. \A v \in Nat \ zero : prev[v] \in 0..(v - 1)
    OBVIOUS
  <2>2. \A v \in Nat : v \in zero => leaf[v] \in Nat \ {0}
    OBVIOUS
  <2>3. ASSUME NEW s \in Nat \ {0}, NEW v \in Nat PROVE node[<<s, v>>] \in Nat \ {0}
    <3>1. node[<<s, v>>] = base * s
      OBVIOUS
    <3> HIDE DEF node
    <3> QED
      BY <3>1, PositiveProduct
  <2> HIDE DEF zero, leaf, prev, node
  <2> QED
    BY <2>1, <2>2, <2>3, RecursionExists
<1>2. Is(g)
  <2>1. ASSUME NEW k \in Nat PROVE g[k] = IF k = 0 THEN 1 ELSE base * g[k - 1]
    <3>1. g[k] = IF k \in zero THEN leaf[k] ELSE node[<<g[prev[k]], k>>]
      <4> HIDE DEF zero, leaf, prev, node
      <4> QED
        BY <1>1 DEF Recurs
    <3>2. CASE k = 0
      BY <3>1, <3>2
    <3>3. CASE k # 0
      <4>1. k - 1 \in Nat /\ prev[k] = k - 1 /\ k \notin zero
        BY <3>3
      <4>2. node[<<g[k - 1], k>>] = base * g[k - 1]
        BY <4>1
      <4> HIDE DEF zero, leaf, prev, node
      <4> QED
        BY <3>1, <4>1, <4>2, <3>3, Zenon
    <3> QED
      BY <3>2, <3>3
  <2> QED
    BY <2>1
<1>3. Is(CHOOSE f : Is(f))
  <2> HIDE DEF Is
  <2> QED
    BY <1>2, Zenon
<1>4. PICK p : p = CHOOSE f : Is(f)
  OBVIOUS
<1>5. Is(p) /\ \A n : Power(base, n) = p[n]
  BY <1>3, <1>4 DEF Power
<1>6. \A k \in Nat : p[k] = IF k = 0 THEN 1 ELSE base * p[k - 1]
  BY <1>5
<1> HIDE DEF Is
<1>7. p[0] = 1
  BY <1>6
<1>8. ASSUME NEW n \in Nat PROVE p[n + 1] = base * p[n]
  <2>1. n + 1 \in Nat /\ n + 1 # 0 /\ (n + 1) - 1 = n
    OBVIOUS
  <2> QED
    BY <2>1, <1>6
<1> DEFINE T == {n \in Nat : p[n] \notin Nat \ {0}}
<1>9. T = {}
  <2> SUFFICES ASSUME T # {} PROVE FALSE
    OBVIOUS
  <2>1. T \subseteq Nat
    OBVIOUS
  <2>2. PICK n \in T : \A m \in T : n <= m
    <3> HIDE DEF T
    <3> QED
      BY <2>1, LeastElement
  <2>3. n # 0
    BY <1>7
  <2>4. n - 1 \in Nat /\ ~(n <= n - 1) /\ (n - 1) + 1 = n
    BY <2>3
  <2>5. p[n - 1] \in Nat \ {0}
    BY <2>4, <2>2
  <2>6. p[n] = base * p[n - 1]
    BY <2>4, <1>8
  <2>7. p[n] \in Nat \ {0}
    BY <2>5, <2>6, PositiveProduct
  <2> QED
    BY <2>7
<1> QED
  BY <1>5, <1>7, <1>8, <1>9

(* A power is positive and multiplies up; with base 2 or more it grows.    *)
LEMMA Powers ==
  ASSUME NEW base \in Nat \ {0}, NEW n \in Nat
  PROVE  Power(base, n) \in Nat \ {0}
BY PowerSteps
-----------------------------------------------------------------------------
(* The digits of a number.                                                 *)
LEMMA QuotientSmaller ==
  ASSUME NEW v \in Nat, NEW base \in Nat, base >= 2, v >= base
  PROVE  v \div base \in 1..(v - 1) /\ v % base \in 0..(base - 1)
<1>1. PICK q \in Int : q = v \div base /\ v = q * base + (v % base) /\ v % base \in 0..(base - 1)
  <2>1. base \in Nat \ {0} /\ v \in Int
    OBVIOUS
  <2>2. v \div base \in Int /\ v = (v \div base) * base + (v % base) /\ v % base \in 0..(base - 1)
    BY <2>1, DivisionExists
  <2> QED
    BY <2>2
<1>2. q >= 1
  <2> SUFFICES ASSUME q <= 0 PROVE FALSE
    BY <1>1
  <2>1. PICK k \in Nat : q = -k
    <3>1. -q \in Nat /\ q = -(-q)
      OBVIOUS
    <3> QED
      BY <3>1
  <2>2. q * base = -(k * base) /\ k * base \in Nat
    BY <2>1
  <2> QED
    BY <1>1, <2>2
<1>3. q * base >= q + q
  <2>1. PICK b \in Nat : base = b + 2
    <3>1. base - 2 \in Nat /\ base = (base - 2) + 2
      OBVIOUS
    <3> QED
      BY <3>1
  <2>2. q * base = q * b + (q + q) /\ q * b \in Nat
    BY <2>1, <1>2
  <2> QED
    BY <2>2
<1> QED
  BY <1>1, <1>2, <1>3

(* Digits of a number, by its recursion: the quotient's, then the          *)
(* remainder.                                                              *)
LEMMA DigitSteps ==
  ASSUME NEW base \in Nat, base >= 2, NEW v \in Nat
  PROVE  /\ Digits(v, base) \in Seq(0..(base - 1))
         /\ v < base => Digits(v, base) = <<v>>
         /\ v >= base => Digits(v, base) = Append(Digits(v \div base, base), v % base)
<1> DEFINE S == Seq(0..(base - 1))
           small == 0..(base - 1)
           leaf == [x \in Nat |-> <<x>>]
           prev == [x \in Nat |-> x \div base]
           node == [sx \in S \X Nat |-> Append(sx[1], sx[2] % base)]
           Is(f) == f = [x \in Nat |-> IF x < base THEN <<x>> ELSE Append(f[x \div base], x % base)]
<1>1. PICK g \in [Nat -> S] : Recurs(g, Nat, small, leaf, prev, node)
  <2>1. ASSUME NEW x \in Nat \ small PROVE prev[x] \in 0..(x - 1)
    <3>1. x \in Nat /\ x >= base
      OBVIOUS
    <3>2. x \div base \in 1..(x - 1)
      BY <3>1, QuotientSmaller
    <3> QED
      BY <3>2
  <2>2. \A x \in Nat : x \in small => leaf[x] \in S
    OBVIOUS
  <2>3. ASSUME NEW s \in S, NEW x \in Nat PROVE node[<<s, x>>] \in S
    <3>1. node[<<s, x>>] = Append(s, x % base)
      OBVIOUS
    <3>2. x % base \in 0..(base - 1)
      BY DivisionExists
    <3> HIDE DEF node
    <3> QED
      BY <3>1, <3>2, AppendProperties
  <2> HIDE DEF S, small, leaf, prev, node
  <2> QED
    BY <2>1, <2>2, <2>3, RecursionExists
<1>2. Is(g)
  <2>1. ASSUME NEW x \in Nat PROVE g[x] = IF x < base THEN <<x>> ELSE Append(g[x \div base], x % base)
    <3>1. g[x] = IF x \in small THEN leaf[x] ELSE node[<<g[prev[x]], x>>]
      <4> HIDE DEF S, small, leaf, prev, node
      <4> QED
        BY <1>1 DEF Recurs
    <3>2. CASE x < base
      <4>1. x \in small /\ leaf[x] = <<x>>
        BY <3>2
      <4> HIDE DEF S, small, leaf, prev, node
      <4> QED
        BY <3>1, <3>2, <4>1, Zenon
    <3>3. CASE ~(x < base)
      <4>1. x \div base \in Nat /\ prev[x] = x \div base /\ x \notin small
        BY <3>3, QuotientSmaller
      <4>2. g[x \div base] \in S
        BY <4>1
      <4>3. node[<<g[x \div base], x>>] = Append(g[x \div base], x % base)
        BY <4>2
      <4> HIDE DEF S, small, leaf, prev, node
      <4> QED
        BY <3>1, <4>1, <4>3, <3>3, Zenon
    <3> QED
      BY <3>2, <3>3
  <2> QED
    BY <2>1
<1>3. Is(CHOOSE f : Is(f))
  <2> HIDE DEF Is
  <2> QED
    BY <1>2, Zenon
<1>4. PICK p : p = CHOOSE f : Is(f)
  OBVIOUS
<1>5. Is(p) /\ \A x : Digits(x, base) = p[x]
  BY <1>3, <1>4 DEF Digits
<1>6. \A x \in Nat : p[x] = IF x < base THEN <<x>> ELSE Append(p[x \div base], x % base)
  BY <1>5
<1> HIDE DEF Is
<1> DEFINE T == {x \in Nat : p[x] \notin S}
<1>7. T = {}
  <2> SUFFICES ASSUME T # {} PROVE FALSE
    OBVIOUS
  <2>1. T \subseteq Nat
    OBVIOUS
  <2>2. PICK x \in T : \A y \in T : x <= y
    <3> HIDE DEF T
    <3> QED
      BY <2>1, LeastElement
  <2>3. CASE x < base
    <3>1. x \in 0..(base - 1)
      BY <2>3
    <3>2. <<x>> \in S
      BY <3>1
    <3>3. p[x] = <<x>>
      BY <1>6, <2>3, Zenon
    <3>4. p[x] \in S
      BY <3>2, <3>3, Zenon
    <3> QED
      BY <3>4
  <2>4. CASE ~(x < base)
    <3>0. x \in Nat /\ x >= base
      BY <2>4
    <3>1. x \div base \in 1..(x - 1) /\ x % base \in 0..(base - 1)
      BY <3>0, QuotientSmaller
    <3>2. x \div base \in Nat /\ ~(x <= x \div base)
      BY <3>1
    <3>3. p[x \div base] \in S
      BY <3>2, <2>2
    <3>4. Append(p[x \div base], x % base) \in S
      BY <3>1, <3>3, AppendProperties
    <3>5. p[x] = Append(p[x \div base], x % base)
      BY <1>6, <2>4
    <3> QED
      BY <3>4, <3>5
  <2> QED
    BY <2>3, <2>4
<1>8. p[v] \in S
  BY <1>7
<1>9. Digits(v, base) \in Seq(0..(base - 1))
  BY <1>5, <1>8
<1>10. v < base => Digits(v, base) = <<v>>
  BY <1>5, <1>6, Zenon
<1>11. v >= base => Digits(v, base) = Append(Digits(v \div base, base), v % base)
  <2>1. v >= base => ~(v < base)
    OBVIOUS
  <2> QED
    BY <2>1, <1>5, <1>6, Zenon
<1> QED
  BY <1>9, <1>10, <1>11

(* All of s are digits.                                                    *)
InDigits(s, digits, base) == \A k \in 1..Len(s) : \E d \in 0..(base - 1) : digits[d + 1] = s[k]

(* f gives the values of the prefixes of s.                                *)
Values(f, s, digits, base) ==
  f[0] = 0 /\ \A k \in 1..Len(s) : f[k] = base * f[k - 1] + DigitOf(s[k], digits, base)

(* Whatever gives the values of all prefixes gives the value of s.         *)
LEMMA ValuedIs ==
  ASSUME NEW base \in Nat, NEW digits, NEW S, NEW s \in Seq(S), NEW f, Values(f, s, digits, base)
  PROVE  Valued(s, digits, base) = f[Len(s)]
<1> DEFINE n == Len(s)
           Is(h) == h = [k \in 0..n |-> IF k = 0 THEN 0 ELSE base * h[k - 1] + DigitOf(s[k], digits, base)]
           g == [k \in 0..n |-> f[k]]
<1>0. n \in Nat /\ f[0] = 0 /\ \A k \in 1..n : f[k] = base * f[k - 1] + DigitOf(s[k], digits, base)
  BY DEF Values
<1>1. Is(g)
  <2>1. ASSUME NEW k \in 0..n
        PROVE  g[k] = IF k = 0 THEN 0 ELSE base * g[k - 1] + DigitOf(s[k], digits, base)
    <3>1. g[k] = f[k] /\ (k # 0 => k \in 1..n /\ k - 1 \in 0..n /\ g[k - 1] = f[k - 1])
      BY <1>0
    <3> HIDE DEF g
    <3> QED
      BY <3>1, <1>0
  <2> QED
    BY <2>1
<1>2. Is(CHOOSE h : Is(h))
  <2> HIDE DEF Is
  <2> QED
    BY <1>1, Zenon
<1>3. PICK p : p = CHOOSE h : Is(h)
  OBVIOUS
<1>4. Is(p) /\ Valued(s, digits, base) = p[n]
  BY <1>2, <1>3 DEF Valued
<1>5. \A k \in 0..n : p[k] = IF k = 0 THEN 0 ELSE base * p[k - 1] + DigitOf(s[k], digits, base)
  BY <1>4
<1> HIDE DEF Is, g
<1> DEFINE T == {k \in 0..n : p[k] # f[k]}
<1>6. T = {}
  <2> SUFFICES ASSUME T # {} PROVE FALSE
    OBVIOUS
  <2>1. T \subseteq Nat
    BY <1>0
  <2>2. PICK k \in T : \A j \in T : k <= j
    <3> HIDE DEF T
    <3> QED
      BY <2>1, LeastElement
  <2>3. k \in 0..n /\ p[k] # f[k]
    BY <2>2
  <2>4. k # 0
    BY <2>3, <1>5, <1>0
  <2>5. k - 1 \in 0..n /\ ~(k <= k - 1) /\ k \in 1..n
    BY <2>3, <2>4, <1>0
  <2>6. p[k - 1] = f[k - 1]
    BY <2>5, <2>2
  <2>7. p[k] = base * p[k - 1] + DigitOf(s[k], digits, base)
    BY <2>3, <2>4, <1>5
  <2>8. f[k] = base * f[k - 1] + DigitOf(s[k], digits, base)
    BY <2>5, <1>0
  <2> HIDE DEF T
  <2> QED
    BY <2>3, <2>6, <2>7, <2>8, Zenon
<1>7. p[n] = f[n]
  BY <1>0, <1>6
<1> QED
  BY <1>4, <1>7

(* There is a function with the values of all prefixes.                    *)
LEMMA ValueFunction ==
  ASSUME NEW base \in Nat, NEW digits, NEW S, NEW s \in Seq(S), InDigits(s, digits, base)
  PROVE  \E f \in [Nat -> Nat] : Values(f, s, digits, base)
<1> DEFINE n == Len(s)
           zero == {0}
           leaf == [v \in Nat |-> 0]
           prev == [v \in Nat |-> v - 1]
           node == [xv \in Nat \X Nat |->
                      IF xv[2] \in 1..n THEN base * xv[1] + DigitOf(s[xv[2]], digits, base) ELSE 0]
<1>1. PICK f \in [Nat -> Nat] : Recurs(f, Nat, zero, leaf, prev, node)
  <2>1. \A v \in Nat \ zero : prev[v] \in 0..(v - 1)
    OBVIOUS
  <2>2. \A v \in Nat : v \in zero => leaf[v] \in Nat
    OBVIOUS
  <2>3. ASSUME NEW x \in Nat, NEW v \in Nat PROVE node[<<x, v>>] \in Nat
    <3>1. node[<<x, v>>] = IF v \in 1..n THEN base * x + DigitOf(s[v], digits, base) ELSE 0
      OBVIOUS
    <3>2. v \in 1..n => DigitOf(s[v], digits, base) \in 0..(base - 1)
      BY DEF InDigits, DigitOf
    <3>3. base * x \in Nat
      OBVIOUS
    <3> HIDE DEF node, n
    <3> QED
      BY <3>1, <3>2, <3>3
  <2> HIDE DEF zero, leaf, prev, node
  <2> QED
    BY <2>1, <2>2, <2>3, RecursionExists
<1>2. f[0] = 0
  <2>1. f[0] = IF 0 \in zero THEN leaf[0] ELSE node[<<f[prev[0]], 0>>]
    <3> HIDE DEF zero, leaf, prev, node
    <3> QED
      BY <1>1 DEF Recurs
  <2> QED
    BY <2>1
<1>3. ASSUME NEW k \in 1..n PROVE f[k] = base * f[k - 1] + DigitOf(s[k], digits, base)
  <2>1. k \in Nat /\ k - 1 \in Nat /\ k \notin zero /\ prev[k] = k - 1
    OBVIOUS
  <2>2. f[k] = IF k \in zero THEN leaf[k] ELSE node[<<f[prev[k]], k>>]
    <3> HIDE DEF zero, leaf, prev, node
    <3> QED
      BY <2>1, <1>1 DEF Recurs
  <2>3. f[k - 1] \in Nat
    BY <2>1
  <2>4. node[<<f[k - 1], k>>] = base * f[k - 1] + DigitOf(s[k], digits, base)
    BY <2>3, <2>1
  <2> HIDE DEF zero, leaf, prev, node, n
  <2> QED
    BY <2>1, <2>2, <2>4, Zenon
<1>4. Values(f, s, digits, base)
  BY <1>2, <1>3 DEF Values
<1> QED
  BY <1>4

(* A numeral's value is a natural number.                                  *)
LEMMA ValuedNat ==
  ASSUME NEW base \in Nat, NEW digits, NEW S, NEW s \in Seq(S), InDigits(s, digits, base)
  PROVE  Valued(s, digits, base) \in Nat
<1>1. PICK f \in [Nat -> Nat] : Values(f, s, digits, base)
  BY ValueFunction
<1>2. Valued(s, digits, base) = f[Len(s)]
  BY <1>1, ValuedIs
<1> QED
  BY <1>2

(* No digits are worth zero.                                               *)
LEMMA ValuedEmpty ==
  ASSUME NEW base \in Nat, NEW digits
  PROVE  Valued(<<>>, digits, base) = 0
<1> DEFINE f == [k \in Nat |-> 0]
<1>1. f[0] = 0 /\ <<>> \in Seq(Nat) /\ Len(<<>>) = 0
  OBVIOUS
<1>2. Values(f, <<>>, digits, base)
  BY DEF Values
<1> HIDE DEF f
<1>3. Valued(<<>>, digits, base) = f[Len(<<>>)]
  BY <1>1, <1>2, ValuedIs
<1> QED
  BY <1>1, <1>3

(* One more digit multiplies the value by the base and adds the digit.     *)
LEMMA ValuedAppend ==
  ASSUME NEW base \in Nat, NEW digits, NEW S, NEW s \in Seq(S), NEW x \in S,
         InDigits(Append(s, x), digits, base)
  PROVE  /\ Valued(Append(s, x), digits, base) = base * Valued(s, digits, base) + DigitOf(x, digits, base)
         /\ Valued(s, digits, base) \in Nat
<1> DEFINE n == Len(s)
           t == Append(s, x)
<1>1. /\ n \in Nat /\ t \in Seq(S) /\ Len(t) = n + 1
      /\ t[n + 1] = x /\ \A k \in 1..n : t[k] = s[k]
  BY AppendProperties
<1>2. InDigits(s, digits, base)
  <2> SUFFICES ASSUME NEW k \in 1..n PROVE \E d \in 0..(base - 1) : digits[d + 1] = s[k]
    BY DEF InDigits
  <2>1. k \in 1..(n + 1) /\ t[k] = s[k]
    <3> HIDE DEF t, n
    <3> QED
      BY <1>1
  <2> HIDE DEF t, n
  <2> QED
    BY <1>1, <2>1 DEF InDigits, t
<1> HIDE DEF t, n
<1>3. PICK f \in [Nat -> Nat] : Values(f, t, digits, base)
  <2>1. InDigits(t, digits, base)
    BY DEF t
  <2> QED
    BY <2>1, <1>1, ValueFunction
<1>4. Valued(t, digits, base) = f[n + 1]
  BY <1>1, <1>3, ValuedIs
<1>5. Valued(s, digits, base) = f[n]
  <2>1. ASSUME NEW k \in 1..Len(s) PROVE f[k] = base * f[k - 1] + DigitOf(s[k], digits, base)
    <3>1. k \in 1..Len(t) /\ t[k] = s[k]
      <4>1. k \in 1..n
        BY DEF n
      <4>2. t[k] = s[k]
        BY <4>1, <1>1
      <4>3. k \in 1..(n + 1)
        BY <4>1, <1>1
      <4> QED
        BY <4>2, <4>3, <1>1, Zenon
    <3> QED
      BY <3>1, <1>3 DEF Values
  <2>2. Values(f, s, digits, base)
    BY <2>1, <1>3 DEF Values
  <2>3. Valued(s, digits, base) = f[Len(s)]
    BY <2>2, ValuedIs
  <2> QED
    BY <2>3 DEF n
<1>6. f[n + 1] = base * f[n] + DigitOf(x, digits, base)
  <2>1. n + 1 \in 1..Len(t) /\ (n + 1) - 1 = n
    BY <1>1
  <2>2. f[n + 1] = base * f[(n + 1) - 1] + DigitOf(t[n + 1], digits, base)
    BY <2>1, <1>3 DEF Values
  <2> QED
    BY <2>1, <2>2, <1>1
<1> QED
  BY <1>1, <1>4, <1>5, <1>6 DEF t

(* The digits of a base, each different from the others.                   *)
Alphabet(digits, base) ==
  /\ base \in Nat /\ base >= 2
  /\ \A d, e \in 0..(base - 1) : digits[d + 1] = digits[e + 1] => d = e
  /\ \A d \in 0..(base - 1) : digits[d + 1] \in Char
  /\ digits[1] = "0"

DigitsOf(digits, base) == {digits[d + 1] : d \in 0..(base - 1)}

(* The two tables of digits are alphabets.                                 *)
LEMMA Alphabets ==
  /\ Alphabet(LowerDigits, 10) /\ Alphabet(LowerDigits, 16) /\ Alphabet(UpperDigits, 16)
<1>0. \A d \in 0..15 : LowerDigits[d + 1] \in Char /\ UpperDigits[d + 1] \in Char
  <2>1. \A d \in 0..15 : d + 1 \in DOMAIN LowerDigits /\ d + 1 \in DOMAIN UpperDigits
    BY DEF LowerDigits, UpperDigits
  <2>2. \A d \in 0..15 : LowerDigits[d + 1] \in Range(LowerDigits) /\ UpperDigits[d + 1] \in Range(UpperDigits)
    BY <2>1 DEF Range
  <2> QED
    BY <2>2, NumbersAssumption
<1>1. \A d \in 0..15 : \A e \in 0..15 : LowerDigits[d + 1] = LowerDigits[e + 1] => d = e
  BY DEF LowerDigits
<1>2. \A d \in 0..15 : \A e \in 0..15 : UpperDigits[d + 1] = UpperDigits[e + 1] => d = e
  BY DEF UpperDigits
<1>3. LowerDigits[1] = "0" /\ UpperDigits[1] = "0"
  BY DEF LowerDigits, UpperDigits
<1>4. \A d \in 0..9 : d \in 0..15
  OBVIOUS
<1>5. Alphabet(LowerDigits, 10)
  BY <1>0, <1>1, <1>3, <1>4 DEF Alphabet
<1>6. Alphabet(LowerDigits, 16)
  BY <1>0, <1>1, <1>3 DEF Alphabet
<1>7. Alphabet(UpperDigits, 16)
  BY <1>0, <1>2, <1>3 DEF Alphabet
<1> QED
  BY <1>5, <1>6, <1>7

(* DigitOf finds a digit's value in its alphabet.                          *)
LEMMA DigitOfDigit ==
  ASSUME NEW base, NEW digits, Alphabet(digits, base), NEW d \in 0..(base - 1)
  PROVE  DigitOf(digits[d + 1], digits, base) = d
<1>1. \A e \in 0..(base - 1) : digits[e + 1] = digits[d + 1] => e = d
  BY DEF Alphabet
<1> QED
  BY <1>1 DEF DigitOf

(* Written, by the recursion of Digits.                                    *)
LEMMA WrittenSteps ==
  ASSUME NEW base, NEW digits, Alphabet(digits, base), NEW v \in Nat
  PROVE  /\ Written(v, base, digits) \in Seq(DigitsOf(digits, base))
         /\ v < base => Written(v, base, digits) = <<digits[v + 1]>>
         /\ v >= base => Written(v, base, digits)
                           = Append(Written(v \div base, base, digits), digits[(v % base) + 1])
<1> DEFINE D == DigitsOf(digits, base)
           s == Digits(v, base)
           w == Written(v, base, digits)
<1>1. base \in Nat /\ base >= 2
  BY DEF Alphabet
<1>2. s \in Seq(0..(base - 1))
  BY <1>1, DigitSteps
<1>3. \A x \in Nat : Digits(x, base) \in Seq(0..(base - 1))
  BY <1>1, DigitSteps
<1>4. \A d \in 0..(base - 1) : digits[d + 1] \in D
  BY DEF DigitsOf
<1>5. ASSUME NEW x \in Nat
      PROVE  /\ Written(x, base, digits) \in Seq(D)
             /\ Len(Written(x, base, digits)) = Len(Digits(x, base))
             /\ \A i \in 1..Len(Digits(x, base)) :
                  Written(x, base, digits)[i] = digits[Digits(x, base)[i] + 1]
  <2> DEFINE t == Digits(x, base)
  <2>1. t \in Seq(0..(base - 1))
    BY <1>3
  <2> HIDE DEF t
  <2>2. \A i \in 1..Len(t) : t[i] \in 0..(base - 1)
    BY <2>1, ElementOfSeq
  <2>3. \A i \in 1..Len(t) : digits[t[i] + 1] \in D
    BY <2>2, <1>4
  <2>4. DOMAIN t = 1..Len(t) /\ Len(t) \in Nat
    BY <2>1
  <2> HIDE DEF D
  <2>5. [i \in DOMAIN t |-> digits[t[i] + 1]] \in Seq(D) /\ Len([i \in DOMAIN t |-> digits[t[i] + 1]]) = Len(t)
    BY <2>3, <2>4
  <2>6. Written(x, base, digits) = [i \in DOMAIN t |-> digits[t[i] + 1]]
    BY DEF Written, t
  <2>7. \A i \in 1..Len(t) : Written(x, base, digits)[i] = digits[t[i] + 1]
    BY <2>4, <2>6
  <2> QED
    BY <2>5, <2>6, <2>7 DEF t
<1>6. w \in Seq(D)
  BY <1>5
<1>7. ASSUME v < base PROVE w = <<digits[v + 1]>>
  <2>1. s = <<v>>
    BY <1>7, <1>1, DigitSteps
  <2>2. Len(s) = 1 /\ s[1] = v
    BY <2>1
  <2>3. Len(w) = 1 /\ w[1] = digits[v + 1]
    <3>1. Len(w) = Len(s) /\ \A i \in 1..Len(s) : w[i] = digits[s[i] + 1]
      BY <1>5
    <3> HIDE DEF w, s
    <3>2. 1 \in 1..Len(s)
      BY <2>2
    <3> QED
      BY <2>2, <3>1, <3>2, Zenon
  <2> HIDE DEF w, s, D
  <2> QED
    BY <2>3, <1>6
<1>8. ASSUME v >= base PROVE w = Append(Written(v \div base, base, digits), digits[(v % base) + 1])
  <2> DEFINE q == v \div base
             r == v % base
             t == Digits(q, base)
             u == Written(q, base, digits)
  <2>1. q \in Nat /\ r \in 0..(base - 1)
    <3>1. v \div base \in 1..(v - 1) /\ v % base \in 0..(base - 1)
      BY <1>1, <1>8, QuotientSmaller
    <3> QED
      BY <3>1
  <2>2. s = Append(t, r)
    BY <1>1, <1>8, DigitSteps
  <2>3. t \in Seq(0..(base - 1)) /\ u \in Seq(D) /\ Len(u) = Len(t)
        /\ \A i \in 1..Len(t) : u[i] = digits[t[i] + 1]
    BY <2>1, <1>3, <1>5
  <2>4. Len(w) = Len(s) /\ \A i \in 1..Len(s) : w[i] = digits[s[i] + 1]
    BY <1>5
  <2>5. digits[r + 1] \in D
    BY <2>1, <1>4
  <2> HIDE DEF q, r, t, u, s, w, D
  <2>6. Len(s) = Len(t) + 1 /\ s[Len(t) + 1] = r /\ \A i \in 1..Len(t) : s[i] = t[i]
    BY <2>1, <2>2, <2>3, AppendProperties
  <2>7. /\ Append(u, digits[r + 1]) \in Seq(D) /\ Len(Append(u, digits[r + 1])) = Len(u) + 1
        /\ Append(u, digits[r + 1])[Len(u) + 1] = digits[r + 1]
        /\ \A i \in 1..Len(u) : Append(u, digits[r + 1])[i] = u[i]
    BY <2>3, <2>5, AppendProperties
  <2>8. Len(t) \in Nat
    BY <2>3
  <2>9. \A i \in 1..(Len(t) + 1) : w[i] = Append(u, digits[r + 1])[i]
    <3> SUFFICES ASSUME NEW i \in 1..(Len(t) + 1) PROVE w[i] = Append(u, digits[r + 1])[i]
      OBVIOUS
    <3>0. i = Len(t) + 1 \/ i \in 1..Len(t)
      BY <2>8
    <3>1. CASE i = Len(t) + 1
      <4>1. w[i] = digits[s[i] + 1] /\ s[i] = r
        BY <2>4, <2>6, <2>8, <3>1
      <4> QED
        BY <4>1, <2>7, <2>3, <3>1
    <3>2. CASE i \in 1..Len(t)
      <4>1. w[i] = digits[s[i] + 1]
        BY <2>4, <2>6, <2>8, <3>2
      <4> QED
        BY <4>1, <2>7, <2>3, <2>6, <3>2
    <3> QED
      BY <3>0, <3>1, <3>2
  <2>10. w = Append(u, digits[r + 1])
    <3>1. Len(w) = Len(Append(u, digits[r + 1])) /\ Len(w) = Len(t) + 1
      BY <2>3, <2>4, <2>6, <2>7
    <3> QED
      BY <3>1, <2>7, <2>9, <1>6, SeqEqual
  <2> QED
    BY <2>10 DEF w, q, r, u
<1> QED
  BY <1>6, <1>7, <1>8

(* A sequence of digits is made of characters that have a value.           *)
LEMMA NumeralsInDigits ==
  ASSUME NEW base, NEW digits, Alphabet(digits, base), NEW s \in Seq(DigitsOf(digits, base))
  PROVE  InDigits(s, digits, base) /\ s \in Seq(Char)
<1>1. \A i \in 1..Len(s) : s[i] \in DigitsOf(digits, base)
  BY ElementOfSeq
<1>2. DigitsOf(digits, base) \subseteq Char
  BY DEF DigitsOf, Alphabet
<1> QED
  BY <1>1, <1>2, SeqMonotonic DEF InDigits, DigitsOf

(* What is written is the shortest numeral of the value.                   *)
LEMMA WrittenFacts ==
  ASSUME NEW base, NEW digits, Alphabet(digits, base), NEW v \in Nat
  PROVE  LET w == Written(v, base, digits) IN
         /\ w \in Seq(DigitsOf(digits, base)) /\ w \in Seq(Char) /\ w # <<>>
         /\ Valued(w, digits, base) = v
         /\ v > 0 => w[1] # "0"
         /\ Len(w) > 1 => v > 0
<1> DEFINE D == DigitsOf(digits, base)
           W(x) == Written(x, base, digits)
           V(s) == Valued(s, digits, base)
           Good(x) == W(x) # <<>> /\ V(W(x)) = x /\ (x > 0 => W(x)[1] # "0")
           T == {x \in Nat : ~Good(x)}
<1>0. base \in Nat /\ base >= 2
  BY DEF Alphabet
<1>1. \A x \in Nat : W(x) \in Seq(D) /\ InDigits(W(x), digits, base) /\ W(x) \in Seq(Char)
  BY WrittenSteps, NumeralsInDigits
<1>2. ASSUME NEW x \in Nat, x < base PROVE Good(x) /\ Len(W(x)) = 1
  <2> DEFINE d == digits[x + 1]
             w == W(x)
  <2>1. w = <<d>> /\ x \in 0..(base - 1) /\ d \in D
    <3>1. w = <<d>>
      BY <1>2, WrittenSteps
    <3>2. x \in 0..(base - 1)
      BY <1>2, <1>0
    <3>3. d \in D
      BY <3>2 DEF DigitsOf
    <3> QED
      BY <3>1, <3>2, <3>3
  <2>2. x > 0 => d # "0"
    <3>1. 0 \in 0..(base - 1) /\ x \in 0..(base - 1) /\ digits[0 + 1] = "0"
      BY <1>0, <2>1 DEF Alphabet
    <3>2. digits[x + 1] = digits[0 + 1] => x = 0
      BY <3>1 DEF Alphabet
    <3> QED
      BY <3>1, <3>2
  <2>3. DigitOf(d, digits, base) = x
    BY <2>1, DigitOfDigit
  <2> HIDE DEF d, D, w
  <2>4. <<>> \in Seq(D) /\ Append(<<>>, d) = <<d>>
    BY <2>1
  <2>5. w = Append(<<>>, d) /\ InDigits(w, digits, base)
    BY <2>1, <2>4, <1>1, Zenon DEF w
  <2>6. InDigits(Append(<<>>, d), digits, base)
    BY <2>5, Zenon
  <2>7. V(Append(<<>>, d)) = base * V(<<>>) + DigitOf(d, digits, base)
    BY <2>4, <2>6, <2>1, <1>0, ValuedAppend
  <2>8. V(<<>>) = 0
    BY <1>0, ValuedEmpty
  <2>9. V(w) = x
    <3>1. V(Append(<<>>, d)) = x
      BY <2>3, <2>7, <2>8, <1>0
    <3> QED
      BY <3>1, <2>5, Zenon
  <2>10. Len(w) = 1 /\ w[1] = d
    BY <2>1
  <2>11. w # <<>>
    BY <2>10
  <2> QED
    BY <2>2, <2>9, <2>10, <2>11 DEF w
<1>3. T = {}
  <2> SUFFICES ASSUME T # {} PROVE FALSE
    OBVIOUS
  <2>1. T \subseteq Nat
    OBVIOUS
  <2>2. PICK x \in T : \A y \in T : x <= y
    <3> HIDE DEF T
    <3> QED
      BY <2>1, LeastElement
  <2>3. x \in Nat /\ ~Good(x)
    BY <2>2
  <2>4. x >= base
    <3> HIDE DEF Good
    <3> QED
      BY <2>3, <1>2, <1>0
  <2> DEFINE q == x \div base
             r == x % base
             d == digits[r + 1]
             u == W(q)
             w == W(x)
  <2>5. q \in 1..(x - 1) /\ r \in 0..(base - 1)
    BY <2>4, <2>3, <1>0, QuotientSmaller
  <2>6. d \in D
    BY <2>5 DEF DigitsOf
  <2>7. w = Append(u, d)
    BY <2>3, <2>4, WrittenSteps
  <2>8. x = q * base + r
    <3>1. base \in Nat \ {0} /\ x \in Int
      BY <1>0, <2>3
    <3> QED
      BY <3>1, DivisionExists
  <2>9. u # <<>> /\ V(u) = q /\ u[1] # "0"
    <3>1. q \in Nat /\ ~(x <= q) /\ q > 0
      BY <2>5, <2>3
    <3>2. Good(q)
      <4> HIDE DEF q, Good
      <4> QED
        BY <3>1, <2>2
    <3> QED
      BY <3>1, <3>2
  <2>10. DigitOf(d, digits, base) = r
    BY <2>5, DigitOfDigit
  <2>11. u \in Seq(D) /\ InDigits(w, digits, base)
    <3>1. q \in Nat
      BY <2>5
    <3> HIDE DEF q, D
    <3> QED
      BY <3>1, <1>1, <2>3
  <2> HIDE DEF q, r, d, u, w, D
  <2>12. InDigits(Append(u, d), digits, base)
    BY <2>7, <2>11, Zenon
  <2>13. V(Append(u, d)) = base * V(u) + DigitOf(d, digits, base)
    BY <2>6, <2>11, <2>12, <1>0, ValuedAppend
  <2>14. V(w) = x
    BY <2>7, <2>8, <2>9, <2>10, <2>13, <2>5, <1>0
  <2>15. w # <<>> /\ w[1] = u[1]
    <3>1. Len(u) \in Nat /\ Len(u) # 0
      BY <2>9, <2>11
    <3>2. Len(Append(u, d)) = Len(u) + 1 /\ Append(u, d)[1] = u[1]
      BY <2>11, <2>6, <3>1, AppendProperties
    <3>3. Append(u, d) # <<>>
      BY <3>1, <3>2
    <3> QED
      BY <3>2, <3>3, <2>7
  <2>16. Good(x)
    BY <2>14, <2>15, <2>9, Zenon DEF w
  <2> QED
    BY <2>16, <2>3
<1>4. Good(v)
  <2> HIDE DEF Good
  <2> QED
    BY <1>3
<1>5. Len(W(v)) > 1 => v > 0
  <2>1. v = 0 => Len(W(v)) = 1
    <3>1. 0 \in Nat /\ 0 < base
      BY <1>0
    <3> HIDE DEF W, Good
    <3> QED
      BY <3>1, <1>2
  <2>2. PICK n : n = Len(W(v))
    OBVIOUS
  <2>3. v = 0 => n = 1
    BY <2>1, <2>2, Zenon
  <2>4. n > 1 => v > 0
    BY <2>3
  <2> QED
    BY <2>2, <2>4, Zenon
<1> QED
  BY <1>1, <1>4, <1>5

(* The quotient and the remainder of naturals.                             *)
LEMMA QuotientNat ==
  ASSUME NEW a \in Nat, NEW b \in Nat \ {0}
  PROVE  a \div b \in Nat /\ a % b \in 0..(b - 1)
<1>1. PICK q \in Int : q = a \div b /\ a = q * b + (a % b) /\ a % b \in 0..(b - 1)
  <2>1. a \in Int
    OBVIOUS
  <2>2. a \div b \in Int /\ a = (a \div b) * b + (a % b) /\ a % b \in 0..(b - 1)
    BY <2>1, DivisionExists
  <2> QED
    BY <2>2
<1>2. q >= 0
  <2> SUFFICES ASSUME q < 0 PROVE FALSE
    BY <1>1
  <2>1. PICK k \in Nat : q = -k - 1
    <3>1. -q - 1 \in Nat /\ q = -(-q - 1) - 1
      OBVIOUS
    <3> QED
      BY <3>1
  <2>2. q * b = -(k * b) - b /\ k * b \in Nat
    BY <2>1
  <2> QED
    BY <1>1, <2>2
<1> QED
  BY <1>1, <1>2

(* The ranges of the C integers.                                           *)
LEMMA WrappedRanges ==
  ASSUME NEW v \in Int, NEW bits \in Nat \ {0}
  PROVE  /\ Unsigned(v, bits) \in 0..(Power(2, bits) - 1)
         /\ Signed(v, bits) \in (-Power(2, bits - 1))..(Power(2, bits - 1) - 1)
<1> DEFINE half == Power(2, bits - 1)
           full == Power(2, bits)
           u == v % full
<1>1. half \in Nat \ {0} /\ full = 2 * half
  <2>1. bits - 1 \in Nat /\ (bits - 1) + 1 = bits /\ 2 \in Nat \ {0}
    OBVIOUS
  <2> QED
    BY <2>1, PowerSteps
<1>2. full \in Nat \ {0}
  BY <1>1
<1>3. u \in 0..(full - 1)
  BY <1>2, DivisionExists
<1>4. Unsigned(v, bits) = u /\ Signed(v, bits) = IF u < half THEN u ELSE u - full
  BY DEF Unsigned, Signed
<1> HIDE DEF half, full, u
<1>5. Unsigned(v, bits) \in 0..(full - 1)
  BY <1>3, <1>4
<1>6. Signed(v, bits) \in (-half)..(half - 1)
  BY <1>1, <1>3, <1>4
<1> QED
  BY <1>5, <1>6 DEF half, full

(* A power grows with its exponent.                                        *)
LEMMA PowerMonotone ==
  ASSUME NEW base \in Nat \ {0}, NEW m \in Nat, NEW n \in Nat, m <= n
  PROVE  Power(base, m) <= Power(base, n)
<1> DEFINE T == {k \in Nat : m <= k /\ ~(Power(base, m) <= Power(base, k))}
<1> SUFFICES ASSUME T # {} PROVE FALSE
  OBVIOUS
<1>1. T \subseteq Nat
  OBVIOUS
<1>2. PICK k \in T : \A j \in T : k <= j
  <2> HIDE DEF T
  <2> QED
    BY <1>1, LeastElement
<1>3. k \in Nat /\ m <= k /\ ~(Power(base, m) <= Power(base, k))
  BY <1>2
<1>4. Power(base, m) \in Nat \ {0} /\ Power(base, k) \in Nat \ {0}
  BY <1>3, Powers
<1>5. k # m
  BY <1>3, <1>4
<1>6. k - 1 \in Nat /\ m <= k - 1 /\ ~(k <= k - 1) /\ (k - 1) + 1 = k
  BY <1>3, <1>5
<1>7. Power(base, m) <= Power(base, k - 1)
  BY <1>2, <1>6
<1>8. Power(base, k - 1) \in Nat \ {0} /\ Power(base, k) = base * Power(base, k - 1)
  BY <1>6, PowerSteps
<1>9. Power(base, k - 1) <= Power(base, k)
  <2>1. Power(base, k - 1) <= Power(base, k - 1) * base
    BY <1>8, FactorBound
  <2>2. Power(base, k - 1) * base = base * Power(base, k - 1)
    BY <1>8
  <2> QED
    BY <2>1, <2>2, <1>8
<1> HIDE DEF T
<1> QED
  BY <1>3, <1>4, <1>7, <1>8, <1>9

(* A policy's constants.                                                   *)
LEMMA PolicyFacts ==
  ASSUME NEW p \in Policies
  PROVE  /\ p.max \in Nat /\ p.default \in 0..p.max /\ p.decimals \in BOOLEAN /\ p.float \in Nat
         /\ p.int \in Nat \ {0} /\ p.uint \in Nat \ {0} /\ p.int <= Bits.llong /\ p.uint <= Bits.llong
         /\ \A t \in IntTypes : Bits[t] \in Nat \ {0}
         /\ Bits.llong \in Nat \ {0}
<1>1. \A t \in IntTypes : Bits[t] \in Nat \ {0}
  BY NumbersAssumption
<1>2. Bits.llong \in Nat \ {0}
  BY <1>1 DEF IntTypes
<1>3. /\ p.max \in Nat /\ p.default \in 0..p.max /\ p.decimals \in BOOLEAN
      /\ p.int \in 1..Bits.llong /\ p.uint \in 1..Bits.llong /\ p.float \in Nat
  BY NumbersAssumption
<1> QED
  BY <1>1, <1>2, <1>3

(* Through uint64_t(-(int64_t(value) + 1)) + 1 every value of the policy's *)
(* IntType gets its magnitude, the most negative one included.             *)
LEMMA AbsIsMagnitude ==
  ASSUME NEW p \in Policies, NEW x \in Int
  PROVE  AbsAsU64(Signed(x, p.int), p) = Magnitude(Signed(x, p.int)) /\ Magnitude(Signed(x, p.int)) \in Nat
<1> DEFINE v == Signed(x, p.int)
           full == Power(2, Bits.llong)
           half == Power(2, p.int - 1)
<1>1. p.int \in Nat \ {0} /\ Bits.llong \in Nat \ {0} /\ p.int <= Bits.llong
  BY PolicyFacts
<1>2. v \in (-half)..(half - 1)
  BY <1>1, WrappedRanges
<1>3. half \in Nat \ {0} /\ full \in Nat \ {0} /\ half <= full
  <2>1. p.int - 1 \in Nat /\ Bits.llong \in Nat /\ p.int - 1 <= Bits.llong /\ 2 \in Nat \ {0}
    BY <1>1
  <2> QED
    BY <2>1, Powers, PowerMonotone
<1>4. AbsAsU64(v, p) = IF v < 0 THEN ((-(v + 1)) % full) + 1 ELSE v % full
  BY DEF AbsAsU64, Unsigned
<1> HIDE DEF v, full, half
<1>5. ASSUME NEW y \in 0..(full - 1) PROVE y % full = y
  BY <1>3, <1>5, DivisionIs
<1>6. CASE v < 0
  <2>1. -(v + 1) \in 0..(full - 1)
    BY <1>2, <1>3, <1>6
  <2>2. (-(v + 1)) % full = -(v + 1)
    BY <2>1, <1>5
  <2> QED
    BY <2>2, <1>2, <1>3, <1>4, <1>6 DEF Magnitude, v
<1>7. CASE ~(v < 0)
  <2>1. v \in 0..(full - 1)
    BY <1>2, <1>3, <1>7
  <2>2. v % full = v
    BY <2>1, <1>5
  <2> QED
    BY <2>1, <2>2, <1>4, <1>7 DEF Magnitude, v
<1> QED
  BY <1>6, <1>7
-----------------------------------------------------------------------------
(* The floating-point conversions give naturals.                           *)
LEMMA TicksNat == Ticks \in Nat \ {0}
<1>1. TickBits \in Nat /\ 2 \in Nat \ {0}
  <2>1. TickBits \in Nat \ {0}
    BY NumbersAssumption, Zenon
  <2> QED
    BY <2>1
<1> QED
  BY <1>1, Powers DEF Ticks

(* The unit that FloatRound rounds to leaves the leading bits of ticks.    *)
UnitOf(u, ticks, p) ==
  /\ ticks < u * Power(2, p.float)
  /\ u # 1 => u * Power(2, p.float) <= 2 * ticks

(* The unit that FloatRound rounds to.                                     *)
LEMMA RoundUnit ==
  ASSUME NEW p \in Policies, NEW ticks \in Nat
  PROVE  \E j \in Nat : \E u \in Nat \ {0} :
           /\ u = Power(2, j) /\ UnitOf(u, ticks, p)
           /\ FloatRound(ticks, p) =
                u * (IF 2 * (ticks % u) > u \/ (2 * (ticks % u) = u /\ (ticks \div u) % 2 = 1)
                     THEN ticks \div u + 1 ELSE ticks \div u)
<1> DEFINE zero == {0}
           leaf == [v \in Nat |-> 1]
           prev == [v \in Nat |-> v \div 2]
           node == [xv \in (Nat \ {0}) \X Nat |-> 2 * xv[1]]
           Is(f) == f = [n \in Nat |-> IF n = 0 THEN 1 ELSE 2 * f[n \div 2]]
<1>1. PICK g \in [Nat -> Nat \ {0}] : Recurs(g, Nat, zero, leaf, prev, node)
  <2>1. \A v \in Nat \ zero : prev[v] \in 0..(v - 1)
    OBVIOUS
  <2>2. \A v \in Nat : v \in zero => leaf[v] \in Nat \ {0}
    OBVIOUS
  <2>3. \A s \in Nat \ {0}, v \in Nat : node[<<s, v>>] \in Nat \ {0}
    OBVIOUS
  <2> HIDE DEF zero, leaf, prev, node
  <2> QED
    BY <2>1, <2>2, <2>3, RecursionExists
<1>2. Is(g)
  <2>1. ASSUME NEW k \in Nat PROVE g[k] = IF k = 0 THEN 1 ELSE 2 * g[k \div 2]
    <3>1. g[k] = IF k \in zero THEN leaf[k] ELSE node[<<g[prev[k]], k>>]
      <4> HIDE DEF zero, leaf, prev, node
      <4> QED
        BY <1>1 DEF Recurs
    <3>2. CASE k = 0
      BY <3>1, <3>2
    <3>3. CASE k # 0
      <4>1. k \div 2 \in Nat /\ prev[k] = k \div 2 /\ k \notin zero
        BY <3>3
      <4>2. node[<<g[k \div 2], k>>] = 2 * g[k \div 2]
        BY <4>1
      <4> HIDE DEF zero, leaf, prev, node
      <4> QED
        BY <3>1, <4>1, <4>2, <3>3, Zenon
    <3> QED
      BY <3>2, <3>3
  <2> QED
    BY <2>1
<1>3. Is(CHOOSE f : Is(f))
  <2> HIDE DEF Is
  <2> QED
    BY <1>2, Zenon
<1>4. PICK a : a = CHOOSE f : Is(f)
  OBVIOUS
<1>5. Is(a)
  BY <1>3, <1>4
<1>6. \A n \in Nat : a[n] = IF n = 0 THEN 1 ELSE 2 * a[n \div 2]
  BY <1>5
<1> DEFINE Fits(n) == \E j \in Nat : a[n] = Power(2, j) /\ n < a[n] /\ (a[n] # 1 => a[n] <= 2 * n)
           T == {n \in Nat : ~Fits(n)}
<1>7. T = {}
  <2> HIDE DEF Is
  <2> SUFFICES ASSUME T # {} PROVE FALSE
    OBVIOUS
  <2>1. T \subseteq Nat
    OBVIOUS
  <2>2. PICK n \in T : \A m \in T : n <= m
    <3> HIDE DEF T
    <3> QED
      BY <2>1, LeastElement
  <2>3. n # 0
    <3> SUFFICES ASSUME n = 0 PROVE FALSE
      OBVIOUS
    <3>1. a[n] = 1
      BY <1>6
    <3>2. Power(2, 0) = 1
      <4>1. 2 \in Nat \ {0}
        OBVIOUS
      <4> QED
        BY <4>1, PowerSteps
    <3> QED
      BY <3>1, <3>2, <2>2
  <2>4. PICK h \in Nat : h = n \div 2 /\ ~(n <= h) /\ 2 * h <= n /\ n <= 2 * h + 1
    BY <2>3
  <2>5. Fits(h)
    BY <2>4, <2>2
  <2>6. PICK j \in Nat : a[h] = Power(2, j) /\ h < a[h] /\ (a[h] # 1 => a[h] <= 2 * h)
    BY <2>5
  <2>7. PICK b \in Nat \ {0} : b = a[h] /\ Power(2, j + 1) = 2 * b
    <3>1. 2 \in Nat \ {0}
      OBVIOUS
    <3> QED
      BY <3>1, <2>6, PowerSteps
  <2>8. a[n] = 2 * b
    BY <2>3, <2>4, <2>7, <1>6
  <2>9. n < 2 * b /\ 2 * b <= 2 * n
    <3>1. h < b /\ (b # 1 => b <= 2 * h)
      BY <2>6, <2>7
    <3> QED
      BY <3>1, <2>3, <2>4, <2>7
  <2>10. j + 1 \in Nat
    OBVIOUS
  <2>11. Fits(n)
    BY <2>7, <2>8, <2>9, <2>10
  <2> QED
    BY <2>2, <2>11
<1> HIDE DEF Is
<1>8. PICK q \in Nat \ {0} : q = Power(2, p.float)
  <2>1. p.float \in Nat /\ 2 \in Nat \ {0}
    BY PolicyFacts
  <2> QED
    BY <2>1, Powers
<1>9. PICK n \in Nat : n = ticks \div q
  BY <1>8, QuotientNat
<1>10. PICK r \in 0..(q - 1) : ticks = n * q + r
  <2>1. ticks \in Int
    OBVIOUS
  <2>2. ticks = (ticks \div q) * q + (ticks % q) /\ ticks % q \in 0..(q - 1)
    BY <2>1, <1>8, DivisionExists
  <2> QED
    BY <2>2, <1>9
<1>11. PICK j \in Nat : a[n] = Power(2, j) /\ n < a[n] /\ (a[n] # 1 => a[n] <= 2 * n)
  BY <1>7
<1>12. PICK u \in Nat \ {0} : u = a[n]
  <2>1. 2 \in Nat \ {0}
    OBVIOUS
  <2> QED
    BY <2>1, <1>11, Powers
<1>13. ticks < u * q
  <2>1. PICK d \in Nat : u = n + 1 + d
    <3>1. u - n - 1 \in Nat /\ u = n + 1 + (u - n - 1)
      BY <1>11, <1>12
    <3> QED
      BY <3>1
  <2>2. u * q = n * q + q + d * q /\ d * q \in Nat /\ n * q \in Nat
    BY <2>1
  <2> QED
    BY <2>2, <1>10
<1>14. ASSUME u # 1 PROVE u * q <= 2 * ticks
  <2>1. PICK d \in Nat : 2 * n = u + d
    <3>1. 2 * n - u \in Nat /\ 2 * n = u + (2 * n - u)
      BY <1>11, <1>12, <1>14
    <3> QED
      BY <3>1
  <2>2. (2 * n) * q = u * q + d * q /\ d * q \in Nat /\ u * q \in Nat /\ n * q \in Nat
    BY <2>1
  <2>3. (2 * n) * q = 2 * (n * q)
    OBVIOUS
  <2> QED
    BY <2>2, <2>3, <1>10
<1>15. UnitOf(u, ticks, p)
  BY <1>8, <1>13, <1>14 DEF UnitOf
<1>16. FloatRound(ticks, p) = u * (IF 2 * (ticks % u) > u \/ (2 * (ticks % u) = u /\ (ticks \div u) % 2 = 1)
                                  THEN ticks \div u + 1 ELSE ticks \div u)
  <2>1. FloatRound(ticks, p) =
          LET unit == a[ticks \div Power(2, p.float)]
              low  == ticks \div unit
              rest == 2 * (ticks % unit)
          IN  unit * (IF rest > unit \/ (rest = unit /\ low % 2 = 1) THEN low + 1 ELSE low)
    BY <1>4 DEF FloatRound, Is
  <2>2. a[ticks \div Power(2, p.float)] = u
    BY <1>8, <1>9, <1>12
  <2> HIDE DEF Fits, T
  <2> QED
    BY <2>1, <2>2, Zenon
<1> QED
  BY <1>11, <1>12, <1>15, <1>16

(* FloatRound returns a natural number.                                    *)
LEMMA RoundedNat ==
  ASSUME NEW p \in Policies, NEW ticks \in Nat
  PROVE  FloatRound(ticks, p) \in Nat
<1>1. PICK u \in Nat \ {0} :
        FloatRound(ticks, p) =
                u * (IF 2 * (ticks % u) > u \/ (2 * (ticks % u) = u /\ (ticks \div u) % 2 = 1)
                     THEN ticks \div u + 1 ELSE ticks \div u)
  BY RoundUnit
<1>2. PICK low \in Nat : low = ticks \div u
  BY QuotientNat
<1>3. FloatRound(ticks, p) = u * low \/ FloatRound(ticks, p) = u * (low + 1)
  BY <1>1, <1>2, Zenon
<1>4. u * low \in Nat /\ u * (low + 1) \in Nat
  OBVIOUS
<1> QED
  BY <1>3, <1>4

(* A magnitude is a natural number.                                        *)
LEMMA MagnitudeNat == \A x \in Int : Magnitude(x) \in Nat
BY DEF Magnitude

(* What GetComponents returns are natural numbers.                         *)
LEMMA ComponentsNat ==
  ASSUME NEW p \in Policies, NEW value \in Int, NEW precision \in Nat
  PROVE  GetComponents(value, precision, p).integral \in Nat /\ GetComponents(value, precision, p).fractional \in Nat
<1> DEFINE abs_val == Magnitude(value)
           whole == abs_val \div Ticks
           scaled == FloatRound((abs_val % Ticks) * Power(10, precision), p)
           rounded == RoundedUp(scaled, Ticks \div 2)
<1>1. abs_val \in Nat /\ Ticks \in Nat \ {0}
  BY MagnitudeNat, TicksNat
<1>2. whole \in Nat /\ abs_val % Ticks \in 0..(Ticks - 1)
  BY <1>1, QuotientNat
<1>3. scaled \in Nat
  <2>1. PICK r \in Nat : r = abs_val % Ticks
    BY <1>2, <1>1
  <2>2. PICK q \in Nat \ {0} : q = Power(10, precision)
    <3>1. 10 \in Nat \ {0}
      OBVIOUS
    <3> QED
      BY <3>1, Powers
  <2>3. r * q \in Nat
    OBVIOUS
  <2> QED
    BY <2>1, <2>2, <2>3, RoundedNat
<1>4. rounded \in Nat
  <2>1. PICK q \in Nat : q = scaled \div Ticks
    <3> HIDE DEF scaled
    <3> QED
      BY <1>1, <1>3, QuotientNat
  <2> HIDE DEF scaled
  <2> QED
    BY <2>1 DEF RoundedUp
<1> HIDE DEF abs_val, scaled
<1>5. GetComponents(value, precision, p).integral \in {whole, whole + 1, whole + 2, (whole + 1) + 1}
  BY DEF GetComponents, ComponentsWith, abs_val
<1>6. GetComponents(value, precision, p).fractional \in {0, rounded}
  BY DEF GetComponents, ComponentsWith, abs_val, scaled
<1> HIDE DEF whole, rounded
<1> QED
  BY <1>2, <1>4, <1>5, <1>6
-----------------------------------------------------------------------------
(* What the conversions put are characters.                                *)
LEMMA CodeChars ==
  {"NUL", "%", "+", "-", " ", ".", "(", "n", "u", "l", ")", "i", "o", "v", "f", "a", "x", "X", "0"} \subseteq Char
<1>1. {"NUL", "%", "+", "-", " ", ".", "(", "n", "u", "l", ")", "i", "o", "v", "x", "X"} \subseteq Char
  BY NumbersAssumption
<1>2. LowerDigits[1] \in Char /\ LowerDigits[11] \in Char /\ LowerDigits[16] \in Char
  <2>1. 0 \in 0..(16 - 1) /\ 10 \in 0..(16 - 1) /\ 15 \in 0..(16 - 1)
    OBVIOUS
  <2>2. LowerDigits[0 + 1] \in Char /\ LowerDigits[10 + 1] \in Char /\ LowerDigits[15 + 1] \in Char
    BY <2>1, Alphabets DEF Alphabet
  <2> QED
    BY <2>2
<1>3. LowerDigits[1] = "0" /\ LowerDigits[11] = "a" /\ LowerDigits[16] = "f"
  BY DEF LowerDigits
<1> QED
  BY <1>1, <1>2, <1>3

(* The empty text.                                                         *)
LEMMA EmptyText == <<>> \in Seq(Char)
OBVIOUS

(* A text of one character.                                                *)
LEMMA OneChar ==
  ASSUME NEW c \in Char
  PROVE  <<c>> \in Seq(Char)
OBVIOUS

(* Texts one behind the other are a text.                                  *)
LEMMA Joined ==
  ASSUME NEW s \in Seq(Char), NEW t \in Seq(Char)
  PROVE  s \o t \in Seq(Char)
BY ConcatProperties

(* What a sign puts.                                                       *)
LEMMA SignText ==
  ASSUME NEW negative, NEW plus, NEW space
  PROVE  Sign(negative, plus, space) \in Seq(Char)
<1>1. <<"-">> \in Seq(Char) /\ <<"+">> \in Seq(Char) /\ <<" ">> \in Seq(Char) /\ <<>> \in Seq(Char)
  BY CodeChars, OneChar, EmptyText
<1>2. Sign(negative, plus, space) \in {<<"-">>, <<"+">>, <<" ">>, <<>>}
  BY Zenon DEF Sign, If
<1> QED
  BY <1>1, <1>2, Zenon

(* What a decimal numeral puts.                                            *)
LEMMA UnsignedText ==
  ASSUME NEW v \in Nat
  PROVE  WriteUnsigned(v) \in Seq(Char)
<1>1. Alphabet(LowerDigits, 10)
  BY Alphabets
<1>2. Written(v, 10, LowerDigits) \in Seq(Char)
  BY <1>1, WrittenFacts
<1> QED
  BY <1>2 DEF WriteUnsigned

(* What a hexadecimal numeral puts.                                        *)
LEMMA HexText ==
  ASSUME NEW v \in Nat, NEW uppercase \in BOOLEAN
  PROVE  WriteHex(v, uppercase) \in Seq(Char)
<1>1. Alphabet(LowerDigits, 16) /\ Alphabet(UpperDigits, 16)
  BY Alphabets
<1>2. Written(v, 16, LowerDigits) \in Seq(Char) /\ Written(v, 16, UpperDigits) \in Seq(Char)
  BY <1>1, WrittenFacts
<1> QED
  BY <1>2 DEF WriteHex

(* What a string puts, a null pointer's included.                          *)
LEMMA StringText ==
  ASSUME NEW s \in Seq(Char) \cup {Null}
  PROVE  WriteString(s) \in Seq(Char)
<1>1. <<"(", "n", "u", "l", "l", ")">> \in Seq(Char)
  <2>1. "(" \in Char /\ "n" \in Char /\ "u" \in Char /\ "l" \in Char /\ ")" \in Char
    BY CodeChars
  <2> QED
    BY <2>1
<1> QED
  BY <1>1 DEF WriteString

Floats == [class : {"nan", "inf", "finite"}, ticks : Int]

(* The cast to the policy's FloatType gives a float.                       *)
LEMMA FloatOfFloat ==
  ASSUME NEW p \in Policies, NEW v \in Floats
  PROVE  FloatOf(v, p) \in Floats
<1>1. PICK r : r = FloatRound(Magnitude(v.ticks), p)
  OBVIOUS
<1>2. r \in Nat
  BY <1>1, RoundedNat, MagnitudeNat DEF Floats
<1>3. FloatOf(v, p) = IF v.class # "finite" THEN v
                      ELSE [v EXCEPT !.ticks = (IF v.ticks < 0 THEN -1 ELSE 1) * r]
  BY <1>1 DEF FloatOf
<1>4. (IF v.ticks < 0 THEN -1 ELSE 1) * r \in Int
  BY <1>2
<1>5. PICK t \in Int : t = (IF v.ticks < 0 THEN -1 ELSE 1) * r
  BY <1>4
<1>6. [v EXCEPT !.ticks = t] \in Floats
  BY DEF Floats
<1> QED
  BY <1>3, <1>5, <1>6

(* What WriteFloat puts, whatever the value.                               *)
LEMMA FloatChars ==
  ASSUME NEW p \in Policies, NEW v \in Floats, NEW precision \in Nat, NEW plus, NEW emit, NEW point, NEW space
  PROVE  WriteFloat(v, precision, p, plus, emit, point, space) \in Seq(Char)
<1> DEFINE sign == IF emit THEN Sign(v.ticks < 0, plus, space) ELSE <<>>
           places == Min({precision, p.max})
           c == GetComponents(v.ticks, places, p)
           frac == [i \in 1..places |-> LowerDigits[((c.fractional \div Power(10, places - i)) % 10) + 1]]
           dot == If(precision > 0 \/ point, ".")
<1>1. sign \in Seq(Char)
  BY SignText, EmptyText
<1>2. places \in Nat
  <2>1. p.max \in Nat
    BY PolicyFacts
  <2> QED
    BY <2>1, MinOfTwo
<1> HIDE DEF places
<1>3. c.integral \in Nat /\ c.fractional \in Nat
  BY <1>2, ComponentsNat DEF Floats
<1> HIDE DEF c
<1>4. frac \in Seq(Char)
  <2>1. ASSUME NEW i \in 1..places
        PROVE  LowerDigits[((c.fractional \div Power(10, places - i)) % 10) + 1] \in Char
    <3>1. places - i \in Nat /\ 10 \in Nat \ {0}
      BY <1>2
    <3>2. Power(10, places - i) \in Nat \ {0}
      BY <3>1, Powers
    <3>3. c.fractional \div Power(10, places - i) \in Nat
      BY <1>3, <3>2, QuotientNat
    <3>4. (c.fractional \div Power(10, places - i)) % 10 \in 0..(10 - 1)
      BY <3>1, <3>3, QuotientNat
    <3> QED
      BY <3>4, Alphabets DEF Alphabet
  <2> QED
    BY <1>2, <2>1, IsASeq
<1>5. dot \in Seq(Char)
  <2>1. <<".">> \in Seq(Char)
    BY CodeChars, OneChar
  <2> QED
    BY <2>1, EmptyText DEF If
<1>6. WriteUnsigned(c.integral) \in Seq(Char)
  BY <1>3, UnsignedText
<1>7. /\ <<"n", "a", "n">> \in Seq(Char) /\ <<"i", "n", "f">> \in Seq(Char) /\ <<"o", "v", "f">> \in Seq(Char)
      /\ <<"-">> \in Seq(Char)
  <2>1. "n" \in Char /\ "a" \in Char /\ "i" \in Char /\ "f" \in Char /\ "o" \in Char /\ "v" \in Char /\ "-" \in Char
    BY CodeChars
  <2> QED
    BY <2>1
<1>8. WriteFloat(v, precision, p, plus, emit, point, space)
      = IF v.class = "nan" THEN <<"n", "a", "n">>
        ELSE IF v.class = "inf" THEN (IF v.ticks < 0 THEN <<"-">> ELSE sign) \o <<"i", "n", "f">>
        ELSE IF ~IsNormal(v) THEN sign \o <<"o", "v", "f">>
        ELSE sign \o WriteUnsigned(c.integral) \o dot \o frac
  BY DEF WriteFloat, c, places
<1> HIDE DEF sign, frac, dot
<1>9. (IF v.ticks < 0 THEN <<"-">> ELSE sign) \o <<"i", "n", "f">> \in Seq(Char)
  <2>1. (IF v.ticks < 0 THEN <<"-">> ELSE sign) \in Seq(Char)
    BY <1>1, <1>7
  <2> QED
    BY <2>1, <1>7, Joined
<1>10. sign \o <<"o", "v", "f">> \in Seq(Char)
  BY <1>1, <1>7, Joined
<1>11. sign \o WriteUnsigned(c.integral) \o dot \o frac \in Seq(Char)
  <2>1. sign \o WriteUnsigned(c.integral) \in Seq(Char)
    BY <1>1, <1>6, Joined
  <2>2. sign \o WriteUnsigned(c.integral) \o dot \in Seq(Char)
    BY <2>1, <1>5, Joined
  <2> QED
    BY <2>2, <1>4, Joined
<1> QED
  BY <1>7, <1>8, <1>9, <1>10, <1>11
-----------------------------------------------------------------------------
(* Text in memory: the characters of s stand behind the first o of mem.    *)
Stands(mem, s, o) == \A i \in 1..Len(s) : o + i \in DOMAIN mem /\ mem[o + i] = s[i]

(* If two texts stand in memory one behind the other, each does.           *)
LEMMA StandsSplit ==
  ASSUME NEW mem, NEW A, NEW s \in Seq(A), NEW t \in Seq(A), NEW o \in Nat, Stands(mem, s \o t, o)
  PROVE  Stands(mem, s, o) /\ Stands(mem, t, o + Len(s))
<1>1. /\ Len(s \o t) = Len(s) + Len(t) /\ Len(s) \in Nat /\ Len(t) \in Nat
      /\ \A i \in 1..(Len(s) + Len(t)) : (s \o t)[i] = IF i <= Len(s) THEN s[i] ELSE t[i - Len(s)]
  BY ConcatProperties
<1>2. ASSUME NEW i \in 1..Len(s) PROVE o + i \in DOMAIN mem /\ mem[o + i] = s[i]
  <2>1. i \in 1..Len(s \o t) /\ (s \o t)[i] = s[i]
    BY <1>1
  <2> QED
    BY <2>1 DEF Stands
<1>3. ASSUME NEW i \in 1..Len(t) PROVE (o + Len(s)) + i \in DOMAIN mem /\ mem[(o + Len(s)) + i] = t[i]
  <2>1. /\ Len(s) + i \in 1..Len(s \o t) /\ (s \o t)[Len(s) + i] = t[i]
        /\ o + (Len(s) + i) = (o + Len(s)) + i
    <3>1. Len(s) + i \in 1..(Len(s) + Len(t)) /\ ~(Len(s) + i <= Len(s)) /\ (Len(s) + i) - Len(s) = i
      BY <1>1
    <3> QED
      BY <3>1, <1>1
  <2>2. o + (Len(s) + i) \in DOMAIN mem /\ mem[o + (Len(s) + i)] = (s \o t)[Len(s) + i]
    BY <2>1 DEF Stands
  <2> QED
    BY <2>1, <2>2
<1> QED
  BY <1>2, <1>3 DEF Stands

(* The sequences that FlattenSeq joined stand one behind the other.        *)
LEMMA FlattenStands ==
  ASSUME NEW A, NEW n \in Nat, NEW ss \in [1..n -> Seq(A)], NEW c \in [Nat -> Seq(A)],
         Joins(c, ss, n)
  PROVE  \A k \in 1..n : Stands(c[n], ss[k], Len(c[k - 1])) /\ Len(c[k]) = Len(c[k - 1]) + Len(ss[k])
<1>0. c[0] = <<>> /\ \A v \in 1..n : c[v] = c[v - 1] \o ss[v]
  BY DEF Joins
<1> DEFINE T == {d \in 0..n : ~Stands(c[n], c[n - d], 0)}
<1>1. T = {}
  <2> SUFFICES ASSUME T # {} PROVE FALSE
    OBVIOUS
  <2>1. T \subseteq Nat
    OBVIOUS
  <2>2. PICK d \in T : \A e \in T : d <= e
    <3> HIDE DEF T
    <3> QED
      BY <2>1, LeastElement
  <2>3. d \in 0..n /\ ~Stands(c[n], c[n - d], 0)
    BY <2>2
  <2>4. CASE d = 0
    <3>1. c[n] \in Seq(A) /\ n - d = n
      BY <2>4
    <3>2. Stands(c[n], c[n], 0)
      BY <3>1 DEF Stands
    <3> QED
      BY <2>3, <3>1, <3>2
  <2>5. CASE d # 0
    <3> DEFINE k == (n - d) + 1
    <3>1. d - 1 \in 0..n /\ ~(d <= d - 1) /\ k \in 1..n /\ n - (d - 1) = k /\ k - 1 = n - d /\ n - d \in Nat
      BY <2>3, <2>5
    <3>2. Stands(c[n], c[k], 0)
      BY <3>1, <2>2
    <3>3. c[k] = c[k - 1] \o ss[k] /\ c[k - 1] \in Seq(A) /\ ss[k] \in Seq(A)
      BY <3>1, <1>0
    <3> HIDE DEF k
    <3>4. Stands(c[n], c[k - 1] \o ss[k], 0)
      BY <3>2, <3>3
    <3>5. Stands(c[n], c[k - 1], 0)
      BY <3>3, <3>4, StandsSplit
    <3> QED
      BY <3>1, <3>5, <2>3
  <2> QED
    BY <2>4, <2>5
<1>2. SUFFICES ASSUME NEW k \in 1..n
               PROVE  Stands(c[n], ss[k], Len(c[k - 1])) /\ Len(c[k]) = Len(c[k - 1]) + Len(ss[k])
  OBVIOUS
<1>3. n - k \in 0..n /\ n - (n - k) = k /\ k - 1 \in Nat
  OBVIOUS
<1>4. Stands(c[n], c[k], 0)
  BY <1>1, <1>3
<1>5. c[k] = c[k - 1] \o ss[k] /\ c[k - 1] \in Seq(A) /\ ss[k] \in Seq(A)
  BY <1>0, <1>3
<1>6. Stands(c[n], c[k - 1] \o ss[k], 0)
  BY <1>4, <1>5
<1>7. Stands(c[n], ss[k], 0 + Len(c[k - 1]))
  BY <1>5, <1>6, StandsSplit
<1>8. Len(c[k]) = Len(c[k - 1]) + Len(ss[k]) /\ 0 + Len(c[k - 1]) = Len(c[k - 1])
  BY <1>5, ConcatProperties
<1> QED
  BY <1>7, <1>8

(* FlattenSeq leaves every sequence standing behind those in front of it.  *)
LEMMA FlattenFacts ==
  ASSUME NEW A, NEW n \in Nat, NEW ss \in [1..n -> Seq(A)]
  PROVE  LET J(k) == FlattenSeq(Firsts(ss, k)) IN
         /\ J(0) = <<>>
         /\ \A k \in 0..n : J(k) \in Seq(A)
         /\ \A k \in 1..n : Stands(J(n), ss[k], Len(J(k - 1))) /\ Len(J(k)) = Len(J(k - 1)) + Len(ss[k])
<1> DEFINE J(k) == FlattenSeq(Firsts(ss, k))
<1>1. PICK c \in [Nat -> Seq(A)] : Joins(c, ss, n)
  BY FlattenFront
<1>0. \A k \in 0..n : J(k) = c[k]
  BY <1>1 DEF Joins
<1>2. \A k \in 1..n : Stands(c[n], ss[k], Len(c[k - 1])) /\ Len(c[k]) = Len(c[k - 1]) + Len(ss[k])
  BY <1>1, FlattenStands
<1>3. n \in 0..n /\ 0 \in 0..n /\ \A k \in 1..n : k \in 0..n /\ k - 1 \in 0..n
  OBVIOUS
<1> HIDE DEF J
<1>4. J(0) = <<>>
  BY <1>0, <1>1, <1>3 DEF Joins
<1>5. \A k \in 0..n : J(k) \in Seq(A)
  BY <1>0
<1>6. ASSUME NEW k \in 1..n
      PROVE  Stands(J(n), ss[k], Len(J(k - 1))) /\ Len(J(k)) = Len(J(k - 1)) + Len(ss[k])
  <2>1. J(n) = c[n] /\ J(k) = c[k] /\ J(k - 1) = c[k - 1]
    BY <1>0, <1>3
  <2> QED
    BY <2>1, <1>2
<1> QED
  BY <1>4, <1>5, <1>6 DEF J

(* Memory may go on behind a text.                                         *)
LEMMA StandsLonger ==
  ASSUME NEW A, NEW B, NEW mem \in Seq(A), NEW t \in Seq(B), NEW s, NEW o \in Nat, Stands(mem, s, o)
  PROVE  Stands(mem \o t, s, o)
<1>1. mem \in Seq(A \cup B) /\ t \in Seq(A \cup B)
  BY SeqMonotonic
<1>2. DOMAIN mem = 1..Len(mem) /\ Len(mem) \in Nat /\ Len(t) \in Nat
  OBVIOUS
<1>3. /\ DOMAIN (mem \o t) = 1..(Len(mem) + Len(t))
      /\ \A i \in 1..Len(mem) : (mem \o t)[i] = mem[i]
  <2>1. mem \o t \in Seq(A \cup B) /\ Len(mem \o t) = Len(mem) + Len(t)
    BY <1>1, ConcatProperties
  <2>2. \A i \in 1..(Len(mem) + Len(t)) : (mem \o t)[i] = IF i <= Len(mem) THEN mem[i] ELSE t[i - Len(mem)]
    BY <1>1, ConcatProperties
  <2> QED
    BY <2>1, <2>2, <1>2
<1> SUFFICES ASSUME NEW i \in 1..Len(s) PROVE o + i \in DOMAIN (mem \o t) /\ (mem \o t)[o + i] = s[i]
  BY DEF Stands
<1>4. o + i \in DOMAIN mem /\ mem[o + i] = s[i]
  BY DEF Stands
<1>5. PICK j : j = o + i
  OBVIOUS
<1>6. j \in 1..Len(mem) /\ mem[j] = s[i]
  BY <1>2, <1>4, <1>5
<1>7. j \in DOMAIN (mem \o t) /\ (mem \o t)[j] = s[i]
  BY <1>2, <1>3, <1>6
<1> QED
  BY <1>5, <1>7
-----------------------------------------------------------------------------
(* The format string that is written from the pieces.                      *)
FormatChar == (Char \cup Flags \cup {"*", ".", "h", "l", "j", "z", "t", "L"}) \ {"NUL"}

(* The ten numerals.                                                       *)
LEMMA NumeralSet ==
  /\ Numerals = {"0", "1", "2", "3", "4", "5", "6", "7", "8", "9"}
  /\ DigitsOf(LowerDigits, 10) = Numerals
<1>1. /\ LowerDigits[1] = "0" /\ LowerDigits[2] = "1" /\ LowerDigits[3] = "2" /\ LowerDigits[4] = "3"
      /\ LowerDigits[5] = "4" /\ LowerDigits[6] = "5" /\ LowerDigits[7] = "6" /\ LowerDigits[8] = "7"
      /\ LowerDigits[9] = "8" /\ LowerDigits[10] = "9"
  BY DEF LowerDigits
<1>2. Numerals = {LowerDigits[i] : i \in 1..10}
  <2>1. LowerDigits \in Seq({"0", "1", "2", "3", "4", "5", "6", "7", "8", "9", "a", "b", "c", "d", "e", "f"})
        /\ Len(LowerDigits) = 16
    BY DEF LowerDigits
  <2>2. PICK l : l = LowerDigits
    OBVIOUS
  <2>3. DOMAIN SubSeq(l, 1, 10) = 1..10 /\ \A i \in 1..10 : SubSeq(l, 1, 10)[i] = l[i]
    BY <2>1, <2>2
  <2>4. Numerals = Range(SubSeq(l, 1, 10))
    BY <2>2 DEF Numerals
  <2>5. Range(SubSeq(l, 1, 10)) = {l[i] : i \in 1..10}
    BY <2>3 DEF Range
  <2> QED
    BY <2>2, <2>4, <2>5
<1>3. {LowerDigits[i] : i \in 1..10} = {LowerDigits[d + 1] : d \in 0..(10 - 1)}
  <2>1. \A i \in 1..10 : i - 1 \in 0..(10 - 1) /\ (i - 1) + 1 = i
    OBVIOUS
  <2>2. \A d \in 0..(10 - 1) : d + 1 \in 1..10
    OBVIOUS
  <2> QED
    BY <2>1, <2>2
<1>4. {LowerDigits[i] : i \in 1..10} = {"0", "1", "2", "3", "4", "5", "6", "7", "8", "9"}
  <2>1. \A i \in 1..10 : i \in {1, 2, 3, 4, 5, 6, 7, 8, 9, 10}
    OBVIOUS
  <2>2. PICK l : l = LowerDigits
    OBVIOUS
  <2>3. {l[i] : i \in 1..10} = {l[1], l[2], l[3], l[4], l[5], l[6], l[7], l[8], l[9], l[10]}
    BY <2>1
  <2> QED
    BY <1>1, <2>2, <2>3
<1> QED
  BY <1>2, <1>3, <1>4 DEF DigitsOf

(* A number that is written for a width or a precision reads back as       *)
(* itself.                                                                 *)
LEMMA NumeralWritten ==
  ASSUME NEW n \in Nat
  PROVE  LET w == WriteUnsigned(n) IN
         w \in Seq(Numerals) /\ w # <<>> /\ Number(w) = n /\ (n > 0 => w[1] # "0")
<1>1. Alphabet(LowerDigits, 10)
  BY Alphabets
<1> QED
  BY <1>1, WrittenFacts, NumeralSet DEF WriteUnsigned, Number

(* A run of numerals is a natural number.                                  *)
LEMMA NumberNat ==
  ASSUME NEW s \in Seq(Numerals)
  PROVE  Number(s) \in Nat
<1>1. Alphabet(LowerDigits, 10) /\ s \in Seq(DigitsOf(LowerDigits, 10)) /\ 10 \in Nat
  BY Alphabets, NumeralSet
<1>2. InDigits(s, LowerDigits, 10)
  BY <1>1, NumeralsInDigits
<1> QED
  BY <1>1, <1>2, ValuedNat DEF Number

Mods == {"h", "l", "j", "z", "t", "L"}

(* What CallsAssumption says of one call.                                  *)
LEMMA CallFacts ==
  ASSUME NEW c \in Calls
  PROVE  /\ c.policy \in Policies /\ c.append \in BOOLEAN /\ c.held \in Seq(Char) /\ Len(c.held) <= N
         /\ Len(c.pieces) \in Nat /\ DOMAIN c.pieces = 1..Len(c.pieces)
         /\ c.pieces \in Seq(Range(c.pieces))
         /\ \A k \in 1..Len(c.pieces) :
              /\ IsLiteral(c.pieces[k]) =>
                   \/ c.pieces[k].text \in Seq(Char \ {"%", "NUL"}) /\ c.pieces[k].text # <<>>
                   \/ c.pieces[k].text = <<"%">> /\ k = Len(c.pieces)
              /\ ~IsLiteral(c.pieces[k]) => Proper(c.pieces[k])
<1>1. c.pieces \in Seq(Range(c.pieces))
  BY CallsAssumption
<1>2. PICK p : p = c.pieces
  OBVIOUS
<1>3. Len(p) \in Nat /\ DOMAIN p = 1..Len(p)
  BY <1>1, <1>2
<1>4. /\ c.policy \in Policies /\ c.append \in BOOLEAN /\ c.held \in Seq(Char) /\ Len(c.held) <= N
      /\ \A k \in DOMAIN p :
            IF IsLiteral(p[k])
            THEN \/ p[k].text \in Seq(Char \ {"%", "NUL"}) \ {<<>>}
                 \/ p[k].text = <<"%">> /\ k = Len(p)
            ELSE Proper(p[k])
  BY <1>2, CallsAssumption
<1> QED
  BY <1>1, <1>2, <1>3, <1>4

(* The parts of a conversion.                                              *)
LEMMA LengthModText ==
  ASSUME NEW m \in LengthMods
  PROVE  m \in Seq(Mods) /\ Len(m) \in 0..2
<1>1. /\ <<>> \in Seq(Mods) /\ <<"h">> \in Seq(Mods) /\ <<"h", "h">> \in Seq(Mods) /\ <<"l">> \in Seq(Mods)
      /\ <<"l", "l">> \in Seq(Mods) /\ <<"j">> \in Seq(Mods) /\ <<"z">> \in Seq(Mods) /\ <<"t">> \in Seq(Mods)
      /\ <<"L">> \in Seq(Mods)
  <2>1. "h" \in Mods /\ "l" \in Mods /\ "j" \in Mods /\ "z" \in Mods /\ "t" \in Mods /\ "L" \in Mods
    BY DEF Mods
  <2> QED
    BY <2>1
<1>2. /\ Len(<<>>) = 0 /\ Len(<<"h">>) = 1 /\ Len(<<"h", "h">>) = 2 /\ Len(<<"l">>) = 1 /\ Len(<<"l", "l">>) = 2
      /\ Len(<<"j">>) = 1 /\ Len(<<"z">>) = 1 /\ Len(<<"t">>) = 1 /\ Len(<<"L">>) = 1
  OBVIOUS
<1>3. m \in Seq(Mods)
  BY <1>1, Zenon DEF LengthMods
<1>4. Len(m) = 0 \/ Len(m) = 1 \/ Len(m) = 2
  BY <1>2, Zenon DEF LengthMods
<1> QED
  BY <1>3, <1>4

(* What is written for a width or a precision.                             *)
LEMMA DecimalsText ==
  ASSUME NEW w, w.how \in {"none", "bare", "digits", "star"}, w.how = "digits" => w.n \in Nat
  PROVE  /\ Decimals(w) \in Seq(Numerals \cup {"*"})
         /\ w.how \in {"none", "bare"} => Decimals(w) = <<>>
         /\ w.how = "star" => Decimals(w) = <<"*">>
         /\ w.how = "digits" =>
              /\ Decimals(w) \in Seq(Numerals) /\ Decimals(w) # <<>>
              /\ Number(Decimals(w)) = w.n /\ (w.n > 0 => Decimals(w)[1] # "0")
<1>1. w.how \in {"none", "bare"} => Decimals(w) = <<>>
  BY DEF Decimals
<1>2. w.how = "star" => Decimals(w) = <<"*">>
  BY DEF Decimals
<1>3. ASSUME w.how = "digits"
      PROVE  /\ Decimals(w) \in Seq(Numerals) /\ Decimals(w) # <<>>
             /\ Number(Decimals(w)) = w.n /\ (w.n > 0 => Decimals(w)[1] # "0")
  <2>1. Decimals(w) = WriteUnsigned(w.n)
    BY <1>3 DEF Decimals
  <2>2. PICK n \in Nat : n = w.n
    BY <1>3
  <2>3. /\ WriteUnsigned(n) \in Seq(Numerals) /\ WriteUnsigned(n) # <<>> /\ Number(WriteUnsigned(n)) = n
        /\ (n > 0 => WriteUnsigned(n)[1] # "0")
    BY NumeralWritten
  <2> QED
    BY <2>1, <2>2, <2>3
<1>4. <<>> \in Seq(Numerals \cup {"*"}) /\ <<"*">> \in Seq(Numerals \cup {"*"})
  OBVIOUS
<1>5. w.how = "digits" => Decimals(w) \in Seq(Numerals \cup {"*"})
  BY <1>3, SeqMonotonic
<1> QED
  BY <1>1, <1>2, <1>3, <1>4, <1>5, Zenon

(* A character that is there or not.                                       *)
LEMMA IfText ==
  ASSUME NEW A, NEW c \in A, NEW condition \in BOOLEAN
  PROVE  /\ If(condition, c) \in Seq(A)
         /\ condition => If(condition, c) = <<c>>
         /\ ~condition => If(condition, c) = <<>>
<1>1. <<c>> \in Seq(A) /\ <<>> \in Seq(A)
  OBVIOUS
<1> QED
  BY <1>1, Zenon DEF If

(* The parts of a conversion are texts in their own sets of characters.    *)
LEMMA ProperParts ==
  ASSUME NEW x, Proper(x)
  PROVE  /\ ~IsLiteral(x)
         /\ x.flags \in Seq(Flags) /\ x.mod \in LengthMods /\ x.mod \in Seq(Mods)
         /\ Decimals(x.width) \in Seq(Numerals \cup {"*"}) /\ Decimals(x.precision) \in Seq(Numerals \cup {"*"})
         /\ If(x.precision.how # "none", ".") \in Seq({"."})
         /\ x.width.how \in {"none", "digits", "star"} /\ x.precision.how \in {"none", "bare", "digits", "star"}
         /\ x.width.n \in Int /\ x.precision.n \in Int
         /\ x.width.how = "digits" => x.width.n \in Nat /\ x.width.n > 0
         /\ x.precision.how = "digits" => x.precision.n \in Nat
<1>1. /\ DOMAIN x = {"flags", "width", "precision", "mod", "letter", "arg"}
      /\ x.flags \in Seq(Flags) /\ x.mod \in LengthMods
      /\ x.width \in [how : {"none", "digits", "star"}, n : Int]
      /\ x.precision \in [how : {"none", "bare", "digits", "star"}, n : Int]
      /\ (x.width.how = "digits" => x.width.n > 0) /\ (x.precision.how = "digits" => x.precision.n >= 0)
  BY DEF Proper
<1>2. ~IsLiteral(x)
  BY <1>1 DEF IsLiteral
<1>3. /\ x.width.how \in {"none", "digits", "star"} /\ x.width.n \in Int
      /\ x.precision.how \in {"none", "bare", "digits", "star"} /\ x.precision.n \in Int
  BY <1>1
<1>4. Decimals(x.width) \in Seq(Numerals \cup {"*"}) /\ Decimals(x.precision) \in Seq(Numerals \cup {"*"})
  BY <1>1, <1>3, DecimalsText
<1>5. If(x.precision.how # "none", ".") \in Seq({"."})
  BY IfText
<1> QED
  BY <1>1, <1>2, <1>3, <1>4, <1>5, LengthModText

(* The digits of a conversion's width and precision.                       *)
LEMMA ProperDecimals ==
  ASSUME NEW x, Proper(x)
  PROVE  /\ x.width.how = "none" => Decimals(x.width) = <<>>
         /\ x.width.how = "star" => Decimals(x.width) = <<"*">>
         /\ x.width.how = "digits" =>
              /\ Decimals(x.width) \in Seq(Numerals) /\ Decimals(x.width) # <<>>
              /\ Number(Decimals(x.width)) = x.width.n /\ Decimals(x.width)[1] # "0"
         /\ x.precision.how \in {"none", "bare"} => Decimals(x.precision) = <<>>
         /\ x.precision.how = "star" => Decimals(x.precision) = <<"*">>
         /\ x.precision.how = "digits" =>
              /\ Decimals(x.precision) \in Seq(Numerals) /\ Decimals(x.precision) # <<>>
              /\ Number(Decimals(x.precision)) = x.precision.n
<1>1. PICK w : w = x.width
  OBVIOUS
<1>2. PICK p : p = x.precision
  OBVIOUS
<1>3. /\ w.how \in {"none", "bare", "digits", "star"} /\ (w.how = "digits" => w.n \in Nat /\ w.n > 0)
      /\ p.how \in {"none", "bare", "digits", "star"} /\ (p.how = "digits" => p.n \in Nat)
  BY <1>1, <1>2, ProperParts
<1>4. /\ w.how = "none" => Decimals(w) = <<>>
      /\ w.how = "star" => Decimals(w) = <<"*">>
      /\ w.how = "digits" => /\ Decimals(w) \in Seq(Numerals) /\ Decimals(w) # <<>>
                             /\ Number(Decimals(w)) = w.n /\ Decimals(w)[1] # "0"
  BY <1>3, DecimalsText
<1>5. /\ p.how \in {"none", "bare"} => Decimals(p) = <<>>
      /\ p.how = "star" => Decimals(p) = <<"*">>
      /\ p.how = "digits" => /\ Decimals(p) \in Seq(Numerals) /\ Decimals(p) # <<>>
                             /\ Number(Decimals(p)) = p.n
  BY <1>3, DecimalsText
<1> QED
  BY <1>1, <1>2, <1>4, <1>5

(* All that a conversion is written with may stand in a format string.     *)
LEMMA FormatCharSets ==
  /\ Flags \subseteq FormatChar /\ Numerals \cup {"*"} \subseteq FormatChar /\ Mods \subseteq FormatChar
  /\ {"."} \subseteq FormatChar /\ "%" \in FormatChar /\ "NUL" \notin FormatChar
<1>1. \A d \in 0..(10 - 1) : LowerDigits[d + 1] \in Char
  BY Alphabets DEF Alphabet
<1>2. Numerals \subseteq Char
  BY <1>1, NumeralSet DEF DigitsOf
<1>3. "NUL" \notin Flags /\ "NUL" \notin Numerals /\ "NUL" \notin Mods
  BY NumeralSet DEF Flags, Mods
<1>4. "%" \in Char
  BY CodeChars
<1>5. Mods = {"h", "l", "j", "z", "t", "L"}
  BY DEF Mods
<1> QED
  BY <1>2, <1>3, <1>4, <1>5 DEF FormatChar

(* Where its parts stand, behind the character in front of it.             *)
PointOf(x)  == If(x.precision.how # "none", ".")
AtWidth(x)  == 1 + Len(x.flags)
AtPoint(x)  == AtWidth(x) + Len(Decimals(x.width))
AtPlaces(x) == AtPoint(x) + Len(PointOf(x))
AtMod(x)    == AtPlaces(x) + Len(Decimals(x.precision))
AtLetter(x) == AtMod(x) + Len(x.mod)

LaidOut(mem, x, o) ==
  /\ o + 1 \in DOMAIN mem /\ mem[o + 1] = "%"
  /\ Stands(mem, x.flags, o + 1)
  /\ Stands(mem, Decimals(x.width), o + AtWidth(x))
  /\ Stands(mem, PointOf(x), o + AtPoint(x))
  /\ Stands(mem, Decimals(x.precision), o + AtPlaces(x))
  /\ Stands(mem, x.mod, o + AtMod(x))
  /\ o + AtLetter(x) + 1 \in DOMAIN mem /\ mem[o + AtLetter(x) + 1] = x.letter

(* A conversion's text, and that each part stands at its place in it.      *)
LEMMA RenderedText ==
  ASSUME NEW x, Proper(x)
  PROVE  /\ Rendered(x) \in Seq(FormatChar)
         /\ AtWidth(x) \in Nat /\ AtPoint(x) \in Nat /\ AtPlaces(x) \in Nat
         /\ AtMod(x) \in Nat /\ AtLetter(x) \in Nat
         /\ 1 <= AtWidth(x) /\ AtWidth(x) <= AtPoint(x) /\ AtPoint(x) <= AtMod(x) /\ AtMod(x) <= AtLetter(x)
         /\ Len(Rendered(x)) = AtLetter(x) + 1
         /\ \A mem : \A o \in Nat : Stands(mem, Rendered(x), o) => LaidOut(mem, x, o)
<1>1. PICK s : s = <<"%">>
  OBVIOUS
<1>2. PICK f : f = x.flags
  OBVIOUS
<1>3. PICK w : w = Decimals(x.width)
  OBVIOUS
<1>4. PICK d : d = PointOf(x)
  OBVIOUS
<1>5. PICK q : q = Decimals(x.precision)
  OBVIOUS
<1>6. PICK m : m = x.mod
  OBVIOUS
<1>7. PICK l : l = <<x.letter>>
  OBVIOUS
<1>8. x.letter \in FormatChar
  BY DEF Proper, FormatChar
<1>9. s \in Seq(FormatChar) /\ Len(s) = 1
  BY <1>1, FormatCharSets
<1>10. l \in Seq(FormatChar) /\ Len(l) = 1
  BY <1>7, <1>8
<1>11. f \in Seq(FormatChar) /\ w \in Seq(FormatChar) /\ d \in Seq(FormatChar) /\ q \in Seq(FormatChar) /\ m \in Seq(FormatChar)
  BY <1>2, <1>3, <1>4, <1>5, <1>6, ProperParts, FormatCharSets, SeqMonotonic DEF PointOf
<1>12. Len(f) \in Nat /\ Len(w) \in Nat /\ Len(d) \in Nat /\ Len(q) \in Nat /\ Len(m) \in Nat
  BY <1>11, LenProperties
<1>13. s \o f \in Seq(FormatChar) /\ Len(s \o f) = 1 + Len(f)
  BY <1>9, <1>11, ConcatProperties
<1>14. s \o f \o w \in Seq(FormatChar) /\ Len(s \o f \o w) = 1 + Len(f) + Len(w)
  BY <1>13, <1>11, ConcatProperties
<1>15. s \o f \o w \o d \in Seq(FormatChar) /\ Len(s \o f \o w \o d) = 1 + Len(f) + Len(w) + Len(d)
  BY <1>14, <1>11, ConcatProperties
<1>16. s \o f \o w \o d \o q \in Seq(FormatChar) /\ Len(s \o f \o w \o d \o q) = 1 + Len(f) + Len(w) + Len(d) + Len(q)
  BY <1>15, <1>11, ConcatProperties
<1>17. /\ s \o f \o w \o d \o q \o m \in Seq(FormatChar)
       /\ Len(s \o f \o w \o d \o q \o m) = 1 + Len(f) + Len(w) + Len(d) + Len(q) + Len(m)
  BY <1>16, <1>11, ConcatProperties
<1>18. /\ s \o f \o w \o d \o q \o m \o l \in Seq(FormatChar)
       /\ Len(s \o f \o w \o d \o q \o m \o l) = 1 + Len(f) + Len(w) + Len(d) + Len(q) + Len(m) + 1
  <2>1. PICK r : r = s \o f \o w \o d \o q \o m
    OBVIOUS
  <2>2. r \in Seq(FormatChar) /\ Len(r) = 1 + Len(f) + Len(w) + Len(d) + Len(q) + Len(m)
    BY <2>1, <1>17
  <2>3. r \o l \in Seq(FormatChar) /\ Len(r \o l) = Len(r) + Len(l)
    BY <2>2, <1>10, ConcatProperties
  <2> QED
    BY <2>1, <2>2, <2>3, <1>10
<1>19. Rendered(x) = s \o f \o w \o d \o q \o m \o l
  BY <1>1, <1>2, <1>3, <1>4, <1>5, <1>6, <1>7, ProperParts, Zenon DEF Rendered, PointOf
<1>20. /\ AtWidth(x) = 1 + Len(f) /\ AtPoint(x) = 1 + Len(f) + Len(w)
       /\ AtPlaces(x) = 1 + Len(f) + Len(w) + Len(d) /\ AtMod(x) = 1 + Len(f) + Len(w) + Len(d) + Len(q)
       /\ AtLetter(x) = 1 + Len(f) + Len(w) + Len(d) + Len(q) + Len(m)
  BY <1>2, <1>3, <1>4, <1>5, <1>6 DEF AtWidth, AtPoint, AtPlaces, AtMod, AtLetter
<1>21. ASSUME NEW mem, NEW o \in Nat, Stands(mem, Rendered(x), o) PROVE LaidOut(mem, x, o)
  <2>1. /\ Stands(mem, s \o f \o w \o d \o q \o m, o)
        /\ Stands(mem, l, o + Len(s \o f \o w \o d \o q \o m))
    BY <1>21, <1>19, <1>17, <1>10, StandsSplit
  <2>2. Stands(mem, s \o f \o w \o d \o q, o) /\ Stands(mem, m, o + Len(s \o f \o w \o d \o q))
    BY <2>1, <1>16, <1>11, StandsSplit
  <2>3. Stands(mem, s \o f \o w \o d, o) /\ Stands(mem, q, o + Len(s \o f \o w \o d))
    BY <2>2, <1>15, <1>11, StandsSplit
  <2>4. Stands(mem, s \o f \o w, o) /\ Stands(mem, d, o + Len(s \o f \o w))
    BY <2>3, <1>14, <1>11, StandsSplit
  <2>5. Stands(mem, s \o f, o) /\ Stands(mem, w, o + Len(s \o f))
    BY <2>4, <1>13, <1>11, StandsSplit
  <2>6. Stands(mem, s, o) /\ Stands(mem, f, o + Len(s))
    BY <2>5, <1>9, <1>11, StandsSplit
  <2>7. o + 1 \in DOMAIN mem /\ mem[o + 1] = "%"
    BY <2>6, <1>1 DEF Stands
  <2>8. PICK a : a = o + AtLetter(x)
    OBVIOUS
  <2>9. Stands(mem, l, a)
    BY <2>1, <2>8, <1>17, <1>20
  <2>10. a + 1 \in DOMAIN mem /\ mem[a + 1] = x.letter
    BY <2>9, <1>7 DEF Stands
  <2>11. /\ Stands(mem, f, o + 1) /\ Stands(mem, w, o + AtWidth(x)) /\ Stands(mem, d, o + AtPoint(x))
         /\ Stands(mem, q, o + AtPlaces(x)) /\ Stands(mem, m, o + AtMod(x))
    BY <2>2, <2>3, <2>4, <2>5, <2>6, <1>9, <1>13, <1>14, <1>15, <1>16, <1>20
  <2> QED
    BY <2>7, <2>8, <2>10, <2>11, <1>2, <1>3, <1>4, <1>5, <1>6 DEF LaidOut
<1>22. Len(Rendered(x)) = AtLetter(x) + 1
  BY <1>18, <1>19, <1>20
<1>23. /\ AtWidth(x) \in Nat /\ AtPoint(x) \in Nat /\ AtPlaces(x) \in Nat /\ AtMod(x) \in Nat /\ AtLetter(x) \in Nat
       /\ 1 <= AtWidth(x) /\ AtWidth(x) <= AtPoint(x) /\ AtPoint(x) <= AtMod(x) /\ AtMod(x) <= AtLetter(x)
  BY <1>12, <1>20
<1>24. Rendered(x) \in Seq(FormatChar)
  BY <1>18, <1>19
<1> QED
  BY <1>21, <1>22, <1>23, <1>24

(* What the first k pieces of a call spell, and pass.                      *)
Spelled(c, k)  == SpelledBy(SubSeq(c.pieces, 1, k))
Supplied(c, k) == PassedBy(SubSeq(c.pieces, 1, k))
Memory(c)      == SpelledBy(c.pieces) \o <<"NUL">>

Arguments(c) ==
  {[type |-> "int", val |-> n] : n \in Int}
    \cup {[type |-> ArgType(x.letter, x.mod), val |-> x.arg] : x \in Range(c.pieces)}

(* A piece is some text without a terminator in it.                        *)
LEMMA PieceText ==
  ASSUME NEW c \in Calls, NEW k \in 1..Len(c.pieces)
  PROVE  Rendered(c.pieces[k]) \in Seq(FormatChar) /\ Rendered(c.pieces[k]) # <<>>
<1> DEFINE x == c.pieces[k]
<1>1. CASE IsLiteral(x)
  <2>1. Rendered(x) = x.text
    BY <1>1 DEF Rendered
  <2>2. \/ x.text \in Seq(Char \ {"%", "NUL"}) /\ x.text # <<>>
        \/ x.text = <<"%">>
    BY <1>1, CallFacts
  <2>3. Char \ {"%", "NUL"} \subseteq FormatChar
    BY DEF FormatChar
  <2>4. <<"%">> \in Seq(FormatChar) /\ <<"%">> # <<>>
    BY FormatCharSets
  <2>5. PICK t : t = x.text
    OBVIOUS
  <2>6. t \in Seq(FormatChar) /\ t # <<>>
    <3>1. t \in Seq(Char \ {"%", "NUL"}) => t \in Seq(FormatChar)
      BY <2>3, SeqMonotonic
    <3> QED
      BY <3>1, <2>2, <2>4, <2>5, Zenon
  <2> QED
    BY <2>1, <2>5, <2>6, Zenon
<1>2. CASE ~IsLiteral(x)
  <2>1. Proper(x)
    BY <1>2, CallFacts
  <2> HIDE DEF x
  <2>2. Rendered(x) \in Seq(FormatChar) /\ Len(Rendered(x)) # 0
    BY <2>1, RenderedText
  <2> QED
    BY <2>2 DEF x
<1> QED
  BY <1>1, <1>2

(* The first k pieces, as FlattenSeq joins them.                           *)
LEMMA PiecesJoined ==
  ASSUME NEW c \in Calls, NEW k \in 0..Len(c.pieces)
  PROVE  /\ Spelled(c, k) = FlattenSeq(Firsts([i \in 1..Len(c.pieces) |-> Rendered(c.pieces[i])], k))
         /\ Supplied(c, k) = FlattenSeq(Firsts([i \in 1..Len(c.pieces) |-> Passed(c.pieces[i])], k))
<1>1. PICK p : p = c.pieces
  OBVIOUS
<1>2. Len(p) \in Nat /\ p \in Seq(Range(p)) /\ k \in 0..Len(p)
  BY <1>1, CallFacts
<1>3. PICK s : s = SubSeq(p, 1, k)
  OBVIOUS
<1>4. DOMAIN s = 1..k /\ \A i \in 1..k : s[i] = p[i] /\ i \in 1..Len(p)
  <2>1. 1 \in Int /\ k \in Int
    BY <1>2
  <2> QED
    BY <1>2, <1>3, <2>1, SubSeqProperties
<1>5. [i \in DOMAIN s |-> Rendered(s[i])] = Firsts([i \in 1..Len(p) |-> Rendered(p[i])], k)
  BY <1>4 DEF Firsts
<1>6. [i \in DOMAIN s |-> Passed(s[i])] = Firsts([i \in 1..Len(p) |-> Passed(p[i])], k)
  BY <1>4 DEF Firsts
<1> QED
  BY <1>1, <1>3, <1>5, <1>6 DEF Spelled, Supplied, SpelledBy, PassedBy

(* Each piece stands in the format string behind those in front of it.     *)
LEMMA SpelledFacts ==
  ASSUME NEW c \in Calls
  PROVE  /\ Len(c.pieces) \in Nat
         /\ Len(Spelled(c, 0)) = 0
         /\ \A k \in 0..Len(c.pieces) : Spelled(c, k) \in Seq(FormatChar) /\ Len(Spelled(c, k)) \in Nat
         /\ \A k \in 1..Len(c.pieces) :
              /\ Stands(SpelledBy(c.pieces), Rendered(c.pieces[k]), Len(Spelled(c, k - 1)))
              /\ Len(Spelled(c, k)) = Len(Spelled(c, k - 1)) + Len(Rendered(c.pieces[k]))
         /\ SpelledBy(c.pieces) = Spelled(c, Len(c.pieces))
<1>1. PICK n \in Nat : n = Len(c.pieces)
  BY CallFacts
<1> DEFINE ss == [i \in 1..n |-> Rendered(c.pieces[i])]
           J(k) == FlattenSeq(Firsts(ss, k))
<1>2. ss \in [1..n -> Seq(FormatChar)]
  BY <1>1, PieceText
<1>3. /\ J(0) = <<>>
      /\ \A k \in 0..n : J(k) \in Seq(FormatChar)
      /\ \A k \in 1..n : Stands(J(n), ss[k], Len(J(k - 1))) /\ Len(J(k)) = Len(J(k - 1)) + Len(ss[k])
  <2> HIDE DEF ss
  <2> QED
    BY <1>2, FlattenFacts
<1>4. \A k \in 0..n : Spelled(c, k) = J(k)
  BY <1>1, PiecesJoined
<1>5. \A k \in 1..n : ss[k] = Rendered(c.pieces[k])
  OBVIOUS
<1>6. SpelledBy(c.pieces) = Spelled(c, n)
  <2>1. SubSeq(c.pieces, 1, n) = c.pieces
    BY <1>1, CallFacts, SubSeqFull
  <2> QED
    BY <2>1 DEF Spelled
<1>7. n \in 0..n /\ 0 \in 0..n /\ \A k \in 1..n : k \in 0..n /\ k - 1 \in 0..n
  OBVIOUS
<1> HIDE DEF ss, J
<1>8. Len(Spelled(c, 0)) = 0
  BY <1>3, <1>4, <1>7
<1>9. \A k \in 0..n : Spelled(c, k) \in Seq(FormatChar) /\ Len(Spelled(c, k)) \in Nat
  BY <1>3, <1>4
<1>10. ASSUME NEW k \in 1..n
       PROVE  /\ Stands(SpelledBy(c.pieces), Rendered(c.pieces[k]), Len(Spelled(c, k - 1)))
              /\ Len(Spelled(c, k)) = Len(Spelled(c, k - 1)) + Len(Rendered(c.pieces[k]))
  <2>1. J(n) = SpelledBy(c.pieces) /\ J(k - 1) = Spelled(c, k - 1) /\ J(k) = Spelled(c, k)
    BY <1>4, <1>6, <1>7
  <2> QED
    BY <2>1, <1>3, <1>5
<1> QED
  BY <1>1, <1>6, <1>8, <1>9, <1>10

(* The format string in memory, up to its terminator.                      *)
LEMMA MemoryFacts ==
  ASSUME NEW c \in Calls
  PROVE  /\ Memory(c) \in Seq(FormatChar \cup {"NUL"}) /\ DOMAIN Memory(c) = 1..Len(Memory(c))
         /\ Len(Memory(c)) = Len(Spelled(c, Len(c.pieces))) + 1
         /\ Memory(c)[Len(Spelled(c, Len(c.pieces))) + 1] = "NUL"
         /\ \A i \in 1..Len(Spelled(c, Len(c.pieces))) : Memory(c)[i] \in FormatChar
         /\ \A k \in 1..Len(c.pieces) : Stands(Memory(c), Rendered(c.pieces[k]), Len(Spelled(c, k - 1)))
<1>1. PICK s : s = SpelledBy(c.pieces)
  OBVIOUS
<1>2. s \in Seq(FormatChar) /\ s = Spelled(c, Len(c.pieces)) /\ Len(s) \in Nat
  <2>1. Len(c.pieces) \in 0..Len(c.pieces)
    BY SpelledFacts
  <2> QED
    BY <1>1, <2>1, SpelledFacts
<1>3. PICK t : t = <<"NUL">>
  OBVIOUS
<1>4. t \in Seq({"NUL"}) /\ Len(t) = 1 /\ t[1] = "NUL"
  BY <1>3
<1>5. s \in Seq(FormatChar \cup {"NUL"}) /\ t \in Seq(FormatChar \cup {"NUL"})
  BY <1>2, <1>4, SeqMonotonic
<1>6. /\ s \o t \in Seq(FormatChar \cup {"NUL"}) /\ Len(s \o t) = Len(s) + 1
      /\ \A i \in 1..(Len(s) + 1) : (s \o t)[i] = IF i <= Len(s) THEN s[i] ELSE t[i - Len(s)]
  BY <1>4, <1>5, ConcatProperties
<1>7. Memory(c) = s \o t
  BY <1>1, <1>3 DEF Memory
<1>8. (s \o t)[Len(s) + 1] = "NUL"
  <2>1. Len(s) + 1 \in 1..(Len(s) + 1) /\ ~(Len(s) + 1 <= Len(s)) /\ (Len(s) + 1) - Len(s) = 1
    BY <1>2
  <2> QED
    BY <2>1, <1>4, <1>6
<1>9. \A i \in 1..Len(s) : (s \o t)[i] \in FormatChar
  <2> SUFFICES ASSUME NEW i \in 1..Len(s) PROVE (s \o t)[i] \in FormatChar
    OBVIOUS
  <2>1. i \in 1..(Len(s) + 1) /\ i <= Len(s) /\ s[i] \in FormatChar
    BY <1>2, ElementOfSeq
  <2> QED
    BY <2>1, <1>6
<1>10. \A k \in 1..Len(c.pieces) : Stands(s \o t, Rendered(c.pieces[k]), Len(Spelled(c, k - 1)))
  <2> SUFFICES ASSUME NEW k \in 1..Len(c.pieces)
               PROVE  Stands(s \o t, Rendered(c.pieces[k]), Len(Spelled(c, k - 1)))
    OBVIOUS
  <2>1. k - 1 \in 0..Len(c.pieces)
    BY SpelledFacts
  <2>2. Stands(s, Rendered(c.pieces[k]), Len(Spelled(c, k - 1))) /\ Len(Spelled(c, k - 1)) \in Nat
    BY <1>1, <2>1, SpelledFacts
  <2> QED
    BY <2>2, <1>2, <1>4, StandsLonger
<1>11. DOMAIN (s \o t) = 1..Len(s \o t)
  BY <1>6
<1> QED
  BY <1>2, <1>6, <1>7, <1>8, <1>9, <1>10, <1>11

(* What a conversion reads, behind the o arguments in front of it.         *)
Reads(x)   == IF ArgType(x.letter, x.mod) # "none" THEN 1 ELSE 0
AtArg(x)   == Len(StarArg(x.width)) + Len(StarArg(x.precision))
LinedUp(mem, x, o) ==
  /\ x.width.how = "star" => mem[o + 1].val = x.width.n
  /\ x.precision.how = "star" => mem[o + Len(StarArg(x.width)) + 1].val = x.precision.n
  /\ Reads(x) = 1 => mem[o + AtArg(x) + 1] = [type |-> ArgType(x.letter, x.mod), val |-> x.arg]

(* A star's argument, if there is a star.                                  *)
LEMMA StarFacts ==
  ASSUME NEW A, NEW w, [type |-> "int", val |-> w.n] \in A
  PROVE  /\ StarArg(w) \in Seq(A)
         /\ w.how = "star" => StarArg(w) = <<[type |-> "int", val |-> w.n]>> /\ Len(StarArg(w)) = 1
         /\ w.how # "star" => StarArg(w) = <<>> /\ Len(StarArg(w)) = 0
<1>1. PICK a \in A : a = [type |-> "int", val |-> w.n]
  OBVIOUS
<1>2. StarArg(w) = If(w.how = "star", a)
  BY <1>1 DEF StarArg
<1>3. /\ If(w.how = "star", a) \in Seq(A)
      /\ w.how = "star" => If(w.how = "star", a) = <<a>>
      /\ w.how # "star" => If(w.how = "star", a) = <<>>
  BY IfText
<1>4. Len(<<a>>) = 1 /\ Len(<<>>) = 0
  OBVIOUS
<1> QED
  BY <1>1, <1>2, <1>3, <1>4, Zenon

(* The arguments that are passed for a piece, and where each of them       *)
(* stands.                                                                 *)
LEMMA PassedText ==
  ASSUME NEW c \in Calls, NEW k \in 1..Len(c.pieces)
  PROVE  LET x == c.pieces[k] IN
         /\ Passed(x) \in Seq(Arguments(c))
         /\ IsLiteral(x) => Len(Passed(x)) = 0
         /\ ~IsLiteral(x) => /\ Len(StarArg(x.width)) \in 0..1 /\ Len(StarArg(x.precision)) \in 0..1
                             /\ Len(Passed(x)) = AtArg(x) + Reads(x)
                             /\ \A mem : \A o \in Nat : Stands(mem, Passed(x), o) => LinedUp(mem, x, o)
<1> DEFINE x == c.pieces[k]
           A == Arguments(c)
<1>1. CASE IsLiteral(x)
  <2>1. Passed(x) = <<>>
    BY <1>1 DEF Passed
  <2> QED
    BY <1>1, <2>1
<1>2. CASE ~IsLiteral(x)
  <2>0. Proper(x)
    BY <1>2, CallFacts
  <2>1. x \in Range(c.pieces)
    BY CallFacts DEF Range
  <2>2. x.width.n \in Int /\ x.precision.n \in Int
    BY <2>0, ProperParts
  <2>3. /\ [type |-> "int", val |-> x.width.n] \in A /\ [type |-> "int", val |-> x.precision.n] \in A
        /\ [type |-> ArgType(x.letter, x.mod), val |-> x.arg] \in A
    BY <2>1, <2>2 DEF Arguments
  <2>4. PICK a \in A : a = [type |-> ArgType(x.letter, x.mod), val |-> x.arg]
    BY <2>3
  <2>5. PICK s : s = StarArg(x.width)
    OBVIOUS
  <2>6. PICK t : t = StarArg(x.precision)
    OBVIOUS
  <2>7. PICK r : r = If(ArgType(x.letter, x.mod) # "none", a)
    OBVIOUS
  <2> HIDE DEF A
  <2>8. /\ s \in Seq(A) /\ t \in Seq(A)
        /\ x.width.how = "star" => s = <<[type |-> "int", val |-> x.width.n]>> /\ Len(s) = 1
        /\ x.width.how # "star" => Len(s) = 0
        /\ x.precision.how = "star" => t = <<[type |-> "int", val |-> x.precision.n]>> /\ Len(t) = 1
        /\ x.precision.how # "star" => Len(t) = 0
    BY <2>3, <2>5, <2>6, StarFacts
  <2>9. /\ r \in Seq(A)
        /\ Reads(x) = 1 => r = <<a>> /\ Len(r) = 1
        /\ Reads(x) # 1 => Len(r) = 0 /\ Reads(x) = 0
    <3>1. /\ If(ArgType(x.letter, x.mod) # "none", a) \in Seq(A)
          /\ ArgType(x.letter, x.mod) # "none" => If(ArgType(x.letter, x.mod) # "none", a) = <<a>>
          /\ ArgType(x.letter, x.mod) = "none" => If(ArgType(x.letter, x.mod) # "none", a) = <<>>
      BY IfText
    <3>2. Len(<<a>>) = 1 /\ Len(<<>>) = 0
      OBVIOUS
    <3>3. (Reads(x) = 1 <=> ArgType(x.letter, x.mod) # "none") /\ (Reads(x) # 1 => Reads(x) = 0)
      BY DEF Reads
    <3> QED
      BY <3>1, <3>2, <3>3, <2>7, Zenon
  <2>10. Passed(x) = s \o t \o r
    BY <1>2, <2>4, <2>5, <2>6, <2>7, Zenon DEF Passed
  <2>11. s \o t \in Seq(A) /\ Len(s \o t) = Len(s) + Len(t)
    BY <2>8, ConcatProperties
  <2>12. s \o t \o r \in Seq(A) /\ Len(s \o t \o r) = Len(s) + Len(t) + Len(r)
    BY <2>9, <2>11, ConcatProperties
  <2>13. Len(s) \in 0..1 /\ Len(t) \in 0..1 /\ Len(r) = Reads(x)
    <3>1. Len(s) = 0 \/ Len(s) = 1
      BY <2>8, Zenon
    <3>2. Len(t) = 0 \/ Len(t) = 1
      BY <2>8, Zenon
    <3>3. Len(r) = Reads(x)
      BY <2>9, Zenon
    <3> QED
      BY <3>1, <3>2, <3>3
  <2>14. AtArg(x) = Len(s) + Len(t)
    BY <2>5, <2>6 DEF AtArg
  <2>15. ASSUME NEW mem, NEW o \in Nat, Stands(mem, Passed(x), o) PROVE LinedUp(mem, x, o)
    <3>1. Stands(mem, s \o t, o) /\ Stands(mem, r, o + Len(s \o t))
      BY <2>15, <2>9, <2>10, <2>11, StandsSplit
    <3>2. Stands(mem, s, o) /\ Stands(mem, t, o + Len(s))
      BY <3>1, <2>8, StandsSplit
    <3>3. ASSUME x.width.how = "star" PROVE mem[o + 1].val = x.width.n
      <4>1. mem[o + 1] = [type |-> "int", val |-> x.width.n]
        BY <3>2, <3>3, <2>8 DEF Stands
      <4> QED
        BY <4>1
    <3>4. ASSUME x.precision.how = "star" PROVE mem[o + Len(s) + 1].val = x.precision.n
      <4>1. mem[(o + Len(s)) + 1] = [type |-> "int", val |-> x.precision.n]
        BY <3>2, <3>4, <2>8 DEF Stands
      <4> QED
        BY <4>1
    <3>5. ASSUME Reads(x) = 1 PROVE mem[o + AtArg(x) + 1] = a
      <4>1. PICK u : u = o + Len(s \o t)
        OBVIOUS
      <4>2. Stands(mem, r, u) /\ r = <<a>> /\ Len(r) = 1
        BY <3>1, <4>1, <3>5, <2>9
      <4>3. mem[u + 1] = a
        BY <4>2 DEF Stands
      <4>4. u = o + AtArg(x)
        BY <4>1, <2>11, <2>14
      <4> QED
        BY <4>3, <4>4
    <3> QED
      BY <3>3, <3>4, <3>5, <2>4, <2>5 DEF LinedUp
  <2>16. Passed(x) \in Seq(A) /\ Len(Passed(x)) = AtArg(x) + Reads(x)
    BY <2>10, <2>12, <2>13, <2>14
  <2>17. Len(StarArg(x.width)) \in 0..1 /\ Len(StarArg(x.precision)) \in 0..1
    BY <2>13, <2>5, <2>6
  <2>18. \A mem : \A o \in Nat : Stands(mem, Passed(x), o) => LinedUp(mem, x, o)
    BY <2>15
  <2> QED
    BY <1>2, <2>16, <2>17, <2>18, Zenon DEF A
<1> QED
  BY <1>1, <1>2

(* The arguments of a piece stand behind those of the pieces before it.    *)
LEMMA SuppliedFacts ==
  ASSUME NEW c \in Calls
  PROVE  /\ Len(Supplied(c, 0)) = 0
         /\ \A k \in 0..Len(c.pieces) : Len(Supplied(c, k)) \in Nat
         /\ \A k \in 1..Len(c.pieces) :
              /\ Stands(PassedBy(c.pieces), Passed(c.pieces[k]), Len(Supplied(c, k - 1)))
              /\ Len(Supplied(c, k)) = Len(Supplied(c, k - 1)) + Len(Passed(c.pieces[k]))
         /\ PassedBy(c.pieces) = Supplied(c, Len(c.pieces))
         /\ PassedBy(c.pieces) \in Seq(Arguments(c))
<1>1. PICK n \in Nat : n = Len(c.pieces)
  BY CallFacts
<1>0. PICK A : A = Arguments(c)
  OBVIOUS
<1> DEFINE ss == [i \in 1..n |-> Passed(c.pieces[i])]
           J(k) == FlattenSeq(Firsts(ss, k))
<1>2. ss \in [1..n -> Seq(A)]
  BY <1>0, <1>1, PassedText
<1>3. /\ J(0) = <<>>
      /\ \A k \in 0..n : J(k) \in Seq(A)
      /\ \A k \in 1..n : Stands(J(n), ss[k], Len(J(k - 1))) /\ Len(J(k)) = Len(J(k - 1)) + Len(ss[k])
  <2> HIDE DEF ss
  <2> QED
    BY <1>2, FlattenFacts
<1>4. \A k \in 0..n : Supplied(c, k) = J(k)
  BY <1>1, PiecesJoined
<1>5. \A k \in 1..n : ss[k] = Passed(c.pieces[k])
  OBVIOUS
<1>6. PassedBy(c.pieces) = Supplied(c, n)
  <2>1. SubSeq(c.pieces, 1, n) = c.pieces
    BY <1>1, CallFacts, SubSeqFull
  <2> QED
    BY <2>1 DEF Supplied
<1>7. n \in 0..n /\ 0 \in 0..n /\ \A k \in 1..n : k \in 0..n /\ k - 1 \in 0..n
  OBVIOUS
<1> HIDE DEF ss, J
<1>8. Len(Supplied(c, 0)) = 0
  BY <1>3, <1>4, <1>7
<1>9. \A k \in 0..n : Len(Supplied(c, k)) \in Nat
  BY <1>3, <1>4
<1>10. ASSUME NEW k \in 1..n
       PROVE  /\ Stands(PassedBy(c.pieces), Passed(c.pieces[k]), Len(Supplied(c, k - 1)))
              /\ Len(Supplied(c, k)) = Len(Supplied(c, k - 1)) + Len(Passed(c.pieces[k]))
  <2>1. J(n) = PassedBy(c.pieces) /\ J(k - 1) = Supplied(c, k - 1) /\ J(k) = Supplied(c, k)
    BY <1>4, <1>6, <1>7
  <2> QED
    BY <2>1, <1>3, <1>5
<1>11. PassedBy(c.pieces) \in Seq(A)
  BY <1>3, <1>4, <1>6, <1>7
<1> QED
  BY <1>0, <1>1, <1>6, <1>8, <1>9, <1>10, <1>11

(* A run of characters of a set, up to one that is not in it.              *)
LEMMA RunIs ==
  ASSUME NEW A, fmt \in Seq(A), NEW set, NEW s \in Seq(set), NEW o \in Nat, Stands(fmt, s, o),
         o + Len(s) + 1 \in DOMAIN fmt, fmt[o + Len(s) + 1] \notin set
  PROVE  RunOf(set, o + 1) = s
<1> DEFINE K == {k \in (o + 1)..Len(fmt) : fmt[k] \notin set}
<1>1. PICK e : e = o + Len(s) + 1
  OBVIOUS
<1>2. Len(s) \in Nat /\ Len(fmt) \in Nat /\ DOMAIN fmt = 1..Len(fmt)
  OBVIOUS
<1>3. e \in K
  BY <1>1, <1>2
<1>4. K \subseteq Nat
  BY <1>2
<1>5. Min(K) \in K /\ Min(K) <= e
  <2> HIDE DEF K
  <2> QED
    BY <1>3, <1>4, LeastElement
<1>6. PICK m : m = Min(K)
  OBVIOUS
<1>7. m = e
  <2> SUFFICES ASSUME m # e PROVE FALSE
    OBVIOUS
  <2>1. m \in (o + 1)..Len(fmt) /\ fmt[m] \notin set /\ m <= e
    BY <1>5, <1>6
  <2>2. m - o \in 1..Len(s) /\ o + (m - o) = m
    BY <2>1, <1>1, <1>2
  <2>3. fmt[m] = s[m - o] /\ s[m - o] \in set
    BY <2>2 DEF Stands
  <2> QED
    BY <2>1, <2>3
<1>8. RunOf(set, o + 1) = SubSeq(fmt, o + 1, e - 1)
  BY <1>6, <1>7 DEF RunOf
<1>9. /\ o + 1 \in 1..(Len(fmt) + 1) /\ e - 1 \in (o + 1 - 1)..Len(fmt)
      /\ e \in 1..Len(fmt)
  BY <1>1, <1>2
<1>10. PICK r : r = SubSeq(fmt, o + 1, e - 1)
  OBVIOUS
<1>11. /\ Len(r) = Len(s)
       /\ DOMAIN r = 1..Len(r)
       /\ \A i \in 1..Len(s) : r[i] = fmt[(o + 1) + i - 1]
  BY <1>1, <1>2, <1>9, <1>10
<1>12. ASSUME NEW i \in 1..Len(s) PROVE r[i] = s[i]
  <2>1. (o + 1) + i - 1 = o + i
    OBVIOUS
  <2>2. r[i] = fmt[o + i]
    BY <1>11, <2>1
  <2> QED
    BY <2>2 DEF Stands
<1>13. r \in Seq(A)
  BY <1>9, <1>10
<1>14. r = s
  <2>1. s \in Seq(A \cup set) /\ r \in Seq(A \cup set)
    BY <1>13, SeqMonotonic
  <2> QED
    BY <2>1, <1>11, <1>12, SeqEqual
<1> QED
  BY <1>8, <1>10, <1>14
-----------------------------------------------------------------------------
(* The first character of each part tells it from the parts that may be    *)
(* missing in front of it.                                                 *)
Plain == Flags \cup Numerals \cup {"*", ".", "NUL"}

(* Which characters tell a part from the parts that come before it.        *)
LEMMA PlainFacts ==
  /\ \A x \in Mods : x \notin Plain
  /\ "." \notin Flags /\ "." \notin Numerals /\ "*" \notin Flags /\ "*" \notin Numerals /\ "." # "*"
  /\ Numerals \cap Flags = {"0"}
BY NumeralSet DEF Mods, Plain, Flags

(* What stands where the length modifier begins, if there is none too.     *)
LEMMA ModHead ==
  ASSUME NEW x, Proper(x), NEW mem, NEW o \in Nat, LaidOut(mem, x, o)
  PROVE  LET e == o + AtMod(x) + 1 IN
         /\ e \in DOMAIN mem /\ mem[e] \notin Plain
         /\ mem[e] = IF x.mod = <<>> THEN x.letter ELSE x.mod[1]
<1>1. AtMod(x) \in Nat /\ x.mod \in Seq(Mods) /\ x.letter \notin Plain
  BY ProperParts, RenderedText DEF Proper, Plain
<1>2. PICK m : m = x.mod
  OBVIOUS
<1>3. CASE m = <<>>
  <2>1. AtLetter(x) = AtMod(x)
    BY <1>1, <1>2, <1>3 DEF AtLetter
  <2> QED
    BY <2>1, <1>1, <1>2, <1>3 DEF LaidOut
<1>4. CASE m # <<>>
  <2>1. m \in Seq(Mods) /\ 1 \in 1..Len(m)
    BY <1>1, <1>2, <1>4
  <2>2. m[1] \in Mods
    BY <2>1
  <2>3. Stands(mem, m, o + AtMod(x))
    BY <1>2 DEF LaidOut
  <2>4. o + AtMod(x) + 1 \in DOMAIN mem /\ mem[o + AtMod(x) + 1] = m[1]
    BY <2>1, <2>3 DEF Stands
  <2> QED
    BY <2>2, <2>4, <1>2, <1>4, PlainFacts
<1> QED
  BY <1>3, <1>4

(* What stands behind the point.                                           *)
LEMMA PlacesHead ==
  ASSUME NEW x, Proper(x), NEW mem, NEW o \in Nat, LaidOut(mem, x, o)
  PROVE  LET e == o + AtPlaces(x) + 1 IN
         /\ e \in DOMAIN mem
         /\ x.precision.how \in {"none", "bare"} => AtMod(x) = AtPlaces(x) /\ mem[e] \notin Plain
         /\ x.precision.how = "star" => AtMod(x) = AtPlaces(x) + 1 /\ mem[e] = "*"
         /\ x.precision.how = "digits" => mem[e] \in Numerals
<1>0. AtPlaces(x) \in Nat
  BY RenderedText
<1>1. PICK q : q = Decimals(x.precision)
  OBVIOUS
<1>2. /\ AtMod(x) = AtPlaces(x) + Len(q) /\ Stands(mem, q, o + AtPlaces(x))
      /\ x.precision.how \in {"none", "bare", "digits", "star"}
  BY <1>1, ProperParts DEF AtMod, LaidOut
<1>3. /\ x.precision.how \in {"none", "bare"} => q = <<>>
      /\ x.precision.how = "star" => q = <<"*">>
      /\ x.precision.how = "digits" => q \in Seq(Numerals) /\ q # <<>>
  BY <1>1, ProperDecimals
<1>4. CASE x.precision.how \in {"none", "bare"}
  <2>1. AtMod(x) = AtPlaces(x)
    BY <1>0, <1>2, <1>3, <1>4
  <2> QED
    BY <2>1, <1>4, ModHead
<1>5. CASE x.precision.how = "star"
  <2>1. Len(q) = 1 /\ q[1] = "*"
    BY <1>3, <1>5
  <2> QED
    BY <2>1, <1>2, <1>5 DEF Stands
<1>6. CASE x.precision.how = "digits"
  <2>1. 1 \in 1..Len(q) /\ q[1] \in Numerals
    BY <1>3, <1>6
  <2> QED
    BY <2>1, <1>2, <1>6 DEF Stands
<1> QED
  BY <1>2, <1>4, <1>5, <1>6

(* What stands behind the width.                                           *)
LEMMA PointHead ==
  ASSUME NEW x, Proper(x), NEW mem, NEW o \in Nat, LaidOut(mem, x, o)
  PROVE  LET e == o + AtPoint(x) + 1 IN
         /\ e \in DOMAIN mem
         /\ x.precision.how = "none" => AtMod(x) = AtPoint(x) /\ mem[e] \notin Plain
         /\ x.precision.how # "none" => AtPlaces(x) = AtPoint(x) + 1 /\ mem[e] = "."
<1>0. AtPoint(x) \in Nat
  BY RenderedText
<1>1. PICK d : d = PointOf(x)
  OBVIOUS
<1>2. AtPlaces(x) = AtPoint(x) + Len(d) /\ Stands(mem, d, o + AtPoint(x))
  BY <1>1 DEF AtPlaces, LaidOut
<1>3. /\ x.precision.how = "none" => d = <<>>
      /\ x.precision.how # "none" => d = <<".">>
  BY <1>1, Zenon DEF PointOf, If
<1>4. CASE x.precision.how = "none"
  <2>1. AtPlaces(x) = AtPoint(x)
    BY <1>0, <1>2, <1>3, <1>4
  <2> QED
    BY <2>1, <1>4, PlacesHead
<1>5. CASE x.precision.how # "none"
  <2>1. Len(d) = 1 /\ d[1] = "."
    BY <1>3, <1>5
  <2> QED
    BY <2>1, <1>2, <1>5 DEF Stands
<1> QED
  BY <1>4, <1>5

(* What stands behind the flags.                                           *)
LEMMA WidthHead ==
  ASSUME NEW x, Proper(x), NEW mem, NEW o \in Nat, LaidOut(mem, x, o)
  PROVE  LET e == o + AtWidth(x) + 1 IN
         /\ e \in DOMAIN mem /\ mem[e] \notin Flags
         /\ x.width.how = "none" => AtPoint(x) = AtWidth(x) /\ mem[e] \notin Numerals \cup {"*"}
         /\ x.width.how = "star" => AtPoint(x) = AtWidth(x) + 1 /\ mem[e] = "*"
         /\ x.width.how = "digits" => mem[e] \in Numerals \ {"0"}
<1>0. AtWidth(x) \in Nat
  BY RenderedText
<1>1. PICK w : w = Decimals(x.width)
  OBVIOUS
<1>2. /\ AtPoint(x) = AtWidth(x) + Len(w) /\ Stands(mem, w, o + AtWidth(x))
      /\ x.width.how \in {"none", "digits", "star"}
  BY <1>1, ProperParts DEF AtPoint, LaidOut
<1>3. /\ x.width.how = "none" => w = <<>>
      /\ x.width.how = "star" => w = <<"*">>
      /\ x.width.how = "digits" => w \in Seq(Numerals) /\ w # <<>> /\ w[1] # "0"
  BY <1>1, ProperDecimals
<1>4. CASE x.width.how = "none"
  <2>1. AtPoint(x) = AtWidth(x)
    BY <1>0, <1>2, <1>3, <1>4
  <2>2. Flags \subseteq Plain /\ Numerals \cup {"*"} \subseteq Plain
    BY DEF Plain
  <2> QED
    BY <2>1, <2>2, <1>4, PointHead, PlainFacts
<1>5. CASE x.width.how = "star"
  <2>1. Len(w) = 1 /\ w[1] = "*"
    BY <1>3, <1>5
  <2> QED
    BY <2>1, <1>2, <1>5, PlainFacts DEF Stands
<1>6. CASE x.width.how = "digits"
  <2>1. 1 \in 1..Len(w) /\ w[1] \in Numerals /\ w[1] # "0"
    BY <1>3, <1>6
  <2> QED
    BY <2>1, <1>2, <1>6, PlainFacts DEF Stands
<1> QED
  BY <1>2, <1>4, <1>5, <1>6
-----------------------------------------------------------------------------
(* The invariant.                                                          *)
Parsing == {"flags", "width", "precision", "length", "dispatch"}

StaticInv == call \in Calls /\ fmt = Memory(call) /\ args = PassedBy(call.pieces)

SpecInv ==
  spec \in [flags : SUBSET Flags, width : 0..(SizeModulus - 1), precision : 0..call.policy.max, mod : LengthMods]

(* Between the pieces, or in the middle of a literal, k pieces are done.   *)
ScanAt(k, o) ==
  /\ k \in 0..Len(call.pieces) /\ o \in Nat
  /\ at = Len(Spelled(call, k)) + 1 + o /\ next = Len(Supplied(call, k)) + 1
  /\ begun \in 0..k /\ \A j \in (begun + 1)..k : IsLiteral(call.pieces[j])
  /\ o > 0 => /\ k < Len(call.pieces) /\ IsLiteral(call.pieces[k + 1])
              /\ o < Len(call.pieces[k + 1].text)

ScanInv == fpc = "scan" => \E k, o : ScanAt(k, o)

(* In a conversion, what is parsed of it is in spec.                       *)
Base  == Len(Spelled(call, begun - 1))
Given == Len(Supplied(call, begun - 1))

ParsedTo(offset, read, flags, width, precision, mod) ==
  /\ at = Base + offset + 1 /\ next = Given + read + 1
  /\ spec = [flags |-> flags, width |-> width, precision |-> precision, mod |-> mod]

ParseInv ==
  fpc \in Parsing =>
    /\ begun \in 1..Len(call.pieces) /\ ~IsLiteral(Begun)
    /\ fpc = "flags" => ParsedTo(1, 0, {}, 0, call.policy.default, <<>>)
    /\ fpc = "width" => ParsedTo(AtWidth(Begun), 0, Range(Begun.flags), 0, call.policy.default, <<>>)
    /\ fpc = "precision" =>
         ParsedTo(AtPoint(Begun), Len(StarArg(Begun.width)),
                  Meant(Begun).flags, Meant(Begun).width, call.policy.default, <<>>)
    /\ fpc = "length" =>
         ParsedTo(AtMod(Begun), AtArg(Begun),
                  Meant(Begun).flags, Meant(Begun).width, Meant(Begun).precision, <<>>)
    /\ fpc = "dispatch" =>
         ParsedTo(AtLetter(Begun), AtArg(Begun),
                  Meant(Begun).flags, Meant(Begun).width, Meant(Begun).precision, Begun.mod)

DoneInv ==
  fpc = "done" => /\ next = Len(args) + 1 /\ at \in DOMAIN fmt

OutInv ==
  /\ buf \in [0..N -> Char] /\ all \in Seq(Char) /\ pos = Len(all) % SizeModulus /\ size \in 0..N
  /\ TruncatedPrefix

FormatInv ==
  /\ fpc \in Parsing \cup {"scan", "done"}
  /\ StaticInv /\ SpecInv /\ ScanInv /\ ParseInv /\ DoneInv /\ OutInv /\ FieldAsSpecified
-----------------------------------------------------------------------------
(* The gadget.                                                             *)
LEMMA GreatestElement ==
  ASSUME NEW n \in Nat, NEW T, T \subseteq 1..n, T # {}
  PROVE  Max(T) \in T
<1> DEFINE U == {n - i : i \in T}
<1>1. U \subseteq Nat /\ U # {}
  <2>1. \A i \in T : n - i \in Nat
    OBVIOUS
  <2>2. PICK i \in T : TRUE
    OBVIOUS
  <2>3. n - i \in U
    BY <2>2
  <2> QED
    BY <2>1, <2>3
<1>2. Min(U) \in U /\ \A y \in U : Min(U) <= y
  <2> HIDE DEF U
  <2> QED
    BY <1>1, LeastElement
<1>3. PICK i \in T : Min(U) = n - i
  BY <1>2
<1>4. \A j \in T : i >= j
  <2> SUFFICES ASSUME NEW j \in T PROVE i >= j
    OBVIOUS
  <2>1. n - j \in U
    OBVIOUS
  <2>2. Min(U) <= n - j
    BY <2>1, <1>2
  <2> HIDE DEF U
  <2> QED
    BY <2>2, <1>3
<1> QED
  BY <1>4 DEF Max

(* Gadget::Put keeps the buffer a prefix of the text, whatever is put.     *)
LEMMA PutLands ==
  ASSUME OutInv, NEW s \in Seq(Char), PutAll(s)
  PROVE  /\ buf' \in [0..N -> Char] /\ all' \in Seq(Char) /\ pos' = Len(all') % SizeModulus
         /\ buf'[N] = "NUL"
         /\ Len(all') < SizeModulus =>
              /\ pos' = Len(all')
              /\ \A k \in 0..(Min({pos', N}) - 1) : buf'[k] = all'[k + 1]
<1>1. N \in Nat \ {0} /\ SizeModulus \in Nat \ {0} /\ N < SizeModulus
  BY CallsAssumption
<1>2. /\ buf \in [0..N -> Char] /\ all \in Seq(Char) /\ pos = Len(all) % SizeModulus /\ buf[N] = "NUL"
      /\ Len(all) < SizeModulus => pos = Len(all) /\ \A k \in 0..(Min({pos, N}) - 1) : buf[k] = all[k + 1]
  BY DEF OutInv, TruncatedPrefix
<1>3. /\ buf' = [k \in 0..N |-> IF k < N /\ Landing(s, k) # {} THEN s[Max(Landing(s, k))] ELSE buf[k]]
      /\ pos' = (pos + Len(s)) % SizeModulus
      /\ all' = all \o s
  BY DEF PutAll, PutWithin
<1>4. /\ all' \in Seq(Char) /\ Len(all') = Len(all) + Len(s) /\ Len(all) \in Nat /\ Len(s) \in Nat
      /\ \A i \in 1..(Len(all) + Len(s)) : all'[i] = IF i <= Len(all) THEN all[i] ELSE s[i - Len(all)]
  BY <1>2, <1>3, ConcatProperties
<1>5. pos' = Len(all') % SizeModulus
  <2>1. PICK a \in Nat : a = Len(all)
    BY <1>4
  <2>2. PICK c \in Nat : c = Len(s)
    BY <1>4
  <2>3. a \in Int /\ c \in Int
    OBVIOUS
  <2>4. ((a % SizeModulus) + c) % SizeModulus = (a + c) % SizeModulus
    BY <2>3, <1>1, ModPlus
  <2> QED
    BY <2>1, <2>2, <2>4, <1>2, <1>3, <1>4
<1>6. \A k : Landing(s, k) \subseteq 1..Len(s)
  BY DEF Landing
<1>7. \A k : Landing(s, k) # {} => Max(Landing(s, k)) \in 1..Len(s)
  <2> SUFFICES ASSUME NEW k, Landing(s, k) # {} PROVE Max(Landing(s, k)) \in Landing(s, k)
    BY <1>6
  <2> QED
    BY <1>4, <1>6, GreatestElement
<1>8. buf' \in [0..N -> Char]
  <2>1. ASSUME NEW k \in 0..N
        PROVE  (IF k < N /\ Landing(s, k) # {} THEN s[Max(Landing(s, k))] ELSE buf[k]) \in Char
    BY <1>2, <1>7, ElementOfSeq
  <2> QED
    BY <1>3, <2>1
<1>9. buf'[N] = "NUL"
  BY <1>1, <1>2, <1>3
<1>10. ASSUME Len(all') < SizeModulus
       PROVE  pos' = Len(all') /\ \A k \in 0..(Min({pos', N}) - 1) : buf'[k] = all'[k + 1]
  <2>1. Len(all) < SizeModulus /\ Len(all) + Len(s) < SizeModulus
    BY <1>10, <1>1, <1>4
  <2>2. pos = Len(all)
    BY <1>2, <2>1
  <2>3. pos' = Len(all')
    <3>1. Len(all') = 0 * SizeModulus + Len(all') /\ Len(all') \in 0..(SizeModulus - 1) /\ Len(all') \in Int
      BY <1>1, <1>4, <1>10
    <3>2. Len(all') % SizeModulus = Len(all')
      BY <3>1, <1>1, DivisionIs
    <3> QED
      BY <3>2, <1>5
  <2>4. ASSUME NEW k \in 0..N PROVE Landing(s, k) = {i \in 1..Len(s) : Len(all) + i - 1 = k}
    <3>1. ASSUME NEW i \in 1..Len(s) PROVE (pos + i - 1) % SizeModulus = Len(all) + i - 1
      <4>1. PICK j : j = Len(all) + i - 1
        OBVIOUS
      <4>2. j \in 0..(SizeModulus - 1) /\ j = 0 * SizeModulus + j /\ j \in Int
        BY <4>1, <2>1, <1>4, <1>1
      <4>3. j % SizeModulus = j
        BY <4>2, <1>1, DivisionIs
      <4> QED
        BY <4>1, <4>3, <2>2
    <3>2. DOMAIN s = 1..Len(s)
      OBVIOUS
    <3> QED
      BY <3>1, <3>2 DEF Landing
  <2>5. ASSUME NEW k \in 0..(Min({pos', N}) - 1) PROVE buf'[k] = all'[k + 1]
    <3>1. Min({pos', N}) = IF pos' <= N THEN pos' ELSE N
      BY <2>3, <1>1, <1>4, MinOfTwo
    <3>2. k \in 0..N /\ k < N /\ k < pos' /\ k + 1 \in 1..(Len(all) + Len(s))
      BY <3>1, <2>3, <1>1, <1>4
    <3>3. CASE k < Len(all)
      <4>1. Landing(s, k) = {}
        BY <2>4, <3>2, <3>3, <1>4
      <4>2. buf'[k] = buf[k]
        BY <4>1, <1>3, <3>2
      <4>3. Min({pos, N}) = IF pos <= N THEN pos ELSE N
        BY <2>2, <1>1, <1>4, MinOfTwo
      <4>4. k \in 0..(Min({pos, N}) - 1)
        BY <4>3, <3>2, <3>3, <2>2, <1>1, <1>4
      <4>5. buf[k] = all[k + 1]
        BY <4>4, <1>2, <2>1
      <4>6. all'[k + 1] = all[k + 1]
        BY <1>4, <3>2, <3>3
      <4> QED
        BY <4>2, <4>5, <4>6
    <3>4. CASE ~(k < Len(all))
      <4>1. PICK i : i = k - Len(all) + 1
        OBVIOUS
      <4>2. i \in 1..Len(s) /\ Len(all) + i - 1 = k /\ (k + 1) - Len(all) = i /\ ~(k + 1 <= Len(all))
        BY <4>1, <3>2, <3>4, <1>4
      <4>3. Landing(s, k) = {i}
        BY <4>2, <2>4, <3>2, <1>4
      <4>4. Max({i}) = i
        BY <4>2 DEF Max
      <4>5. buf'[k] = s[i]
        BY <4>3, <4>4, <1>3, <3>2
      <4>6. all'[k + 1] = s[i]
        BY <4>2, <1>4, <3>2
      <4> QED
        BY <4>5, <4>6
    <3> QED
      BY <3>3, <3>4
  <2> QED
    BY <2>3, <2>5
<1> QED
  BY <1>4, <1>5, <1>8, <1>9, <1>10

(* While a conversion is parsed its text stands at Base and its arguments  *)
(* at Given.                                                               *)
LEMMA InConversion ==
  ASSUME StaticInv, ParseInv, fpc \in Parsing
  PROVE  /\ call \in Calls /\ begun \in 1..Len(call.pieces)
         /\ Proper(Begun) /\ Base \in Nat /\ Given \in Nat
         /\ LaidOut(fmt, Begun, Base) /\ LinedUp(args, Begun, Given)
         /\ fmt \in Seq(FormatChar \cup {"NUL"})
         /\ Len(StarArg(Begun.width)) \in 0..1 /\ Len(StarArg(Begun.precision)) \in 0..1
         /\ Len(Passed(Begun)) = AtArg(Begun) + Reads(Begun)
<1>1. PICK c \in Calls : c = call
  BY DEF StaticInv
<1>2. PICK k : k = begun
  OBVIOUS
<1>3. k \in 1..Len(c.pieces) /\ ~IsLiteral(c.pieces[k])
  BY <1>1, <1>2 DEF ParseInv, Begun
<1>4. PICK x : x = c.pieces[k]
  OBVIOUS
<1>5. Proper(x)
  BY <1>3, <1>4, CallFacts
<1>6. k - 1 \in 0..Len(c.pieces)
  BY <1>3, CallFacts
<1>7. PICK o \in Nat : o = Len(Spelled(c, k - 1))
  BY <1>6, SpelledFacts
<1>8. PICK g \in Nat : g = Len(Supplied(c, k - 1))
  BY <1>6, SuppliedFacts
<1>9. PICK mem : mem = Memory(c)
  OBVIOUS
<1>10. mem \in Seq(FormatChar \cup {"NUL"}) /\ Stands(mem, Rendered(x), o)
  BY <1>3, <1>4, <1>7, <1>9, MemoryFacts
<1>11. LaidOut(mem, x, o)
  BY <1>5, <1>10, RenderedText
<1>12. PICK passed : passed = PassedBy(c.pieces)
  OBVIOUS
<1>13. Stands(passed, Passed(x), g)
  BY <1>3, <1>4, <1>8, <1>12, SuppliedFacts
<1>14. /\ LinedUp(passed, x, g)
       /\ Len(StarArg(x.width)) \in 0..1 /\ Len(StarArg(x.precision)) \in 0..1
       /\ Len(Passed(x)) = AtArg(x) + Reads(x)
  BY <1>3, <1>4, <1>13, PassedText
<1>15. Begun = x /\ Base = o /\ Given = g /\ fmt = mem /\ args = passed
  BY <1>1, <1>2, <1>4, <1>7, <1>8, <1>9, <1>12 DEF StaticInv, Begun, Base, Given
<1> QED
  BY <1>1, <1>2, <1>3, <1>5, <1>10, <1>11, <1>14, <1>15

(* A Parse* helper leaves the conversion, its text and its arguments alone.*)
LEMMA SameConversion ==
  ASSUME StaticInv, ParseInv, fpc \in Parsing, NEW step, NEW s, NEW a, NEW n, Parsed(step, s, a, n)
  PROVE  /\ StaticInv' /\ Base' = Base /\ Given' = Given /\ Begun' = Begun /\ call' = call
         /\ begun' \in 1..Len(call'.pieces) /\ ~IsLiteral(Begun')
         /\ fpc' = step /\ spec' = s /\ at' = a /\ next' = n
<1>1. /\ call' = call /\ fmt' = fmt /\ args' = args /\ begun' = begun
      /\ fpc' = step /\ spec' = s /\ at' = a /\ next' = n
  BY DEF Parsed, parserVars
<1>2. Begun' = Begun /\ Base' = Base /\ Given' = Given
  BY <1>1 DEF Begun, Base, Given
<1>3. begun \in 1..Len(call.pieces) /\ ~IsLiteral(Begun)
  BY DEF ParseInv
<1>4. StaticInv'
  BY <1>1 DEF StaticInv
<1> QED
  BY <1>1, <1>2, <1>3, <1>4

(* ParseFlags takes all the flags and nothing else.                        *)
LEMMA FlagsParsed ==
  ASSUME StaticInv, ParseInv, ParseFlags
  PROVE  ParseInv' /\ StaticInv' /\ fpc' = "width"
<1>0. fpc = "flags" /\ fpc \in Parsing
  BY DEF ParseFlags, Parsing
<1>1. PICK x : x = Begun
  OBVIOUS
<1>2. PICK o \in Nat : o = Base
  BY <1>0, InConversion
<1>3. PICK g \in Nat : g = Given
  BY <1>0, InConversion
<1>4. /\ Proper(x) /\ LaidOut(fmt, x, o) /\ fmt \in Seq(FormatChar \cup {"NUL"})
  BY <1>0, <1>1, <1>2, InConversion
<1>5. /\ at = o + 1 + 1 /\ next = g + 1
      /\ spec = [flags |-> {}, width |-> 0, precision |-> call.policy.default, mod |-> <<>>]
  BY <1>0, <1>2, <1>3 DEF ParseInv, ParsedTo
<1>6. PICK s : s = x.flags
  OBVIOUS
<1>7. s \in Seq(Flags) /\ Len(s) \in Nat /\ AtWidth(x) = 1 + Len(s)
  BY <1>4, <1>6, ProperParts DEF AtWidth
<1>8. o + AtWidth(x) + 1 \in DOMAIN fmt /\ fmt[o + AtWidth(x) + 1] \notin Flags
  BY <1>4, WidthHead
<1>9. Stands(fmt, s, o + 1) /\ (o + 1) + Len(s) + 1 = o + AtWidth(x) + 1
  BY <1>4, <1>6, <1>7 DEF LaidOut
<1>10. RunOf(Flags, (o + 1) + 1) = s
  <2>1. PICK e \in Nat : e = o + 1
    OBVIOUS
  <2>2. Stands(fmt, s, e) /\ e + Len(s) + 1 \in DOMAIN fmt /\ fmt[e + Len(s) + 1] \notin Flags
    BY <2>1, <1>8, <1>9
  <2>3. RunOf(Flags, e + 1) = s
    BY <2>2, <1>4, <1>7, RunIs
  <2> QED
    BY <2>1, <2>3
<1>11. Parsed("width", [spec EXCEPT !.flags = Range(s)], at + Len(s), next)
  BY <1>5, <1>10 DEF ParseFlags
<1>12. /\ fpc' = "width" /\ at' = at + Len(s) /\ next' = next /\ spec' = [spec EXCEPT !.flags = Range(s)]
       /\ StaticInv' /\ Base' = Base /\ Given' = Given /\ Begun' = Begun /\ call' = call
       /\ begun' \in 1..Len(call'.pieces) /\ ~IsLiteral(Begun')
  BY <1>0, <1>11, SameConversion
<1>13. spec' = [flags |-> Range(s), width |-> 0, precision |-> call.policy.default, mod |-> <<>>]
  BY <1>5, <1>12
<1>14. at' = o + AtWidth(x) + 1
  BY <1>5, <1>7, <1>12
<1> QED
  BY <1>1, <1>2, <1>3, <1>5, <1>6, <1>12, <1>13, <1>14 DEF ParseInv, ParsedTo
-----------------------------------------------------------------------------
(* A number below 2^32 does not wrap.                                      *)
LEMMA SmallMod ==
  ASSUME NEW n \in Nat, n < SizeModulus
  PROVE  n % SizeModulus = n
<1>1. SizeModulus \in Nat \ {0} /\ n \in 0..(SizeModulus - 1) /\ n = 0 * SizeModulus + n
  BY CallsAssumption
<1> QED
  BY <1>1, DivisionIs

(* A width does not wrap.                                                  *)
LEMMA WidthSmall ==
  ASSUME NEW x, Proper(x)
  PROVE  x.width.n \in Int /\ Magnitude(x.width.n) % SizeModulus = Magnitude(x.width.n)
<1>1. PICK n \in Int : n = x.width.n
  BY ProperParts
<1>2. Magnitude(n) \in Nat /\ Magnitude(n) < SizeModulus
  BY <1>1, MagnitudeNat DEF Proper
<1> QED
  BY <1>1, <1>2, SmallMod

(* A star reads one argument.                                              *)
LEMMA StarLength ==
  ASSUME NEW w
  PROVE  Len(StarArg(w)) = IF w.how = "star" THEN 1 ELSE 0
<1>1. PICK a : a = [type |-> "int", val |-> w.n]
  OBVIOUS
<1>2. PICK A : A = {a}
  OBVIOUS
<1>3. [type |-> "int", val |-> w.n] \in A
  BY <1>1, <1>2
<1>4. (w.how = "star" => Len(StarArg(w)) = 1) /\ (w.how # "star" => Len(StarArg(w)) = 0)
  BY <1>3, StarFacts
<1> QED
  BY <1>4

(* ParseWidth takes the width, from the digits or from its argument.       *)
LEMMA WidthParsed ==
  ASSUME StaticInv, ParseInv, ParseWidth
  PROVE  ParseInv' /\ StaticInv' /\ fpc' = "precision"
<1>0. fpc = "width" /\ fpc \in Parsing
  BY DEF ParseWidth, ParseWidthFrom, Parsing
<1>1. PICK x : x = Begun
  OBVIOUS
<1>2. PICK o \in Nat : o = Base
  BY <1>0, InConversion
<1>3. PICK g \in Nat : g = Given
  BY <1>0, InConversion
<1>4. /\ Proper(x) /\ LaidOut(fmt, x, o) /\ fmt \in Seq(FormatChar \cup {"NUL"}) /\ LinedUp(args, x, g)
  BY <1>0, <1>1, <1>2, <1>3, InConversion
<1>5. /\ at = o + AtWidth(x) + 1 /\ next = g + 1
      /\ spec = [flags |-> Range(x.flags), width |-> 0, precision |-> call.policy.default, mod |-> <<>>]
  BY <1>0, <1>1, <1>2, <1>3 DEF ParseInv, ParsedTo
<1>6. AtWidth(x) \in Nat /\ AtPoint(x) \in Nat
  BY <1>4, RenderedText
<1>7. PICK w : w = x.width
  OBVIOUS
<1>8. /\ w.how \in {"none", "star", "digits"} /\ w.n \in Int
      /\ Magnitude(w.n) % SizeModulus = Magnitude(w.n)
      /\ w.how = "digits" => w.n > 0
  BY <1>4, <1>7, ProperParts, WidthSmall
<1>9. /\ Meant(x).flags = Range(x.flags) \cup (IF w.how = "star" /\ w.n < 0 THEN {"-"} ELSE {})
      /\ Meant(x).width = IF w.how = "none" THEN 0 ELSE Magnitude(w.n)
  BY <1>7 DEF Meant
<1>10. PICK taken : taken = Len(StarArg(w))
  OBVIOUS
<1>11. /\ w.how = "star" => taken = 1
       /\ w.how # "star" => taken = 0
  BY <1>10, StarLength
<1>12. /\ w.how = "none" => AtPoint(x) = AtWidth(x) /\ fmt[at] \notin Numerals \cup {"*"}
       /\ w.how = "star" => AtPoint(x) = AtWidth(x) + 1 /\ fmt[at] = "*"
       /\ w.how = "digits" => fmt[at] \in Numerals \ {"0"}
  BY <1>4, <1>5, <1>7, WidthHead
<1> DEFINE Goal == Parsed("precision",
                     [flags |-> Meant(x).flags, width |-> Meant(x).width, precision |-> call.policy.default, mod |-> <<>>],
                     o + AtPoint(x) + 1, g + taken + 1)
<1>13. ASSUME w.how = "none" PROVE Goal
  <2>1. fmt[at] # "*" /\ fmt[at] \notin Numerals \ {"0"}
    BY <1>12, <1>13
  <2>2. Parsed("precision", spec, at, next)
    BY <2>1 DEF ParseWidth, ParseWidthFrom
  <2>3. Meant(x).flags = Range(x.flags) /\ Meant(x).width = 0
    BY <1>9, <1>13
  <2>4. at = o + AtPoint(x) + 1 /\ next = g + taken + 1
    BY <1>5, <1>11, <1>12, <1>13
  <2>5. spec = [flags |-> Meant(x).flags, width |-> Meant(x).width, precision |-> call.policy.default, mod |-> <<>>]
    BY <1>5, <2>3
  <2> QED
    BY <2>2, <2>4, <2>5
<1>14. ASSUME w.how = "star" PROVE Goal
  <2>1. fmt[at] = "*"
    BY <1>12, <1>14
  <2>2. args[next].val = w.n
    BY <1>4, <1>5, <1>7, <1>14 DEF LinedUp
  <2>3. Parsed("precision", [spec EXCEPT !.width = Magnitude(w.n) % SizeModulus,
                                         !.flags = IF w.n < 0 THEN @ \cup {"-"} ELSE @], at + 1, next + 1)
    BY <2>1, <2>2 DEF ParseWidth, ParseWidthFrom
  <2>4. Meant(x).flags = (IF w.n < 0 THEN Range(x.flags) \cup {"-"} ELSE Range(x.flags)) /\ Meant(x).width = Magnitude(w.n)
    BY <1>9, <1>14
  <2>5. at + 1 = o + AtPoint(x) + 1 /\ next + 1 = g + taken + 1
    BY <1>5, <1>6, <1>11, <1>12, <1>14
  <2>6. [spec EXCEPT !.width = Magnitude(w.n) % SizeModulus, !.flags = IF w.n < 0 THEN @ \cup {"-"} ELSE @]
          = [flags |-> Meant(x).flags, width |-> Meant(x).width, precision |-> call.policy.default, mod |-> <<>>]
    <3>1. PICK f : f = IF w.n < 0 THEN Range(x.flags) \cup {"-"} ELSE Range(x.flags)
      OBVIOUS
    <3>2. PICK m : m = Magnitude(w.n)
      OBVIOUS
    <3>3. Meant(x).flags = f /\ Meant(x).width = m
      BY <3>1, <3>2, <2>4
    <3>4. spec.flags = Range(x.flags)
      BY <1>5
    <3>5. (IF w.n < 0 THEN spec.flags \cup {"-"} ELSE spec.flags) = f
      BY <3>1, <3>4
    <3>6. [spec EXCEPT !.width = m, !.flags = f]
            = [flags |-> f, width |-> m, precision |-> call.policy.default, mod |-> <<>>]
      <4>1. PICK r : r = Range(x.flags)
        OBVIOUS
      <4>2. spec = [flags |-> r, width |-> 0, precision |-> call.policy.default, mod |-> <<>>]
        BY <4>1, <1>5
      <4>3. [spec EXCEPT !.width = m] = [flags |-> r, width |-> m, precision |-> call.policy.default, mod |-> <<>>]
        BY <4>2
      <4>4. [spec EXCEPT !.width = m, !.flags = f] = [[spec EXCEPT !.width = m] EXCEPT !.flags = f]
        BY <4>2
      <4>5. PICK e : e = [spec EXCEPT !.width = m]
        OBVIOUS
      <4>6. [e EXCEPT !.flags = f] = [flags |-> f, width |-> m, precision |-> call.policy.default, mod |-> <<>>]
        <5>1. e = [flags |-> r, width |-> m, precision |-> call.policy.default, mod |-> <<>>]
          BY <4>3, <4>5
        <5> HIDE DEF Goal
        <5> QED
          BY <5>1
      <4> QED
        BY <4>4, <4>5, <4>6
    <3> QED
      BY <3>2, <3>3, <3>5, <3>6, <1>8
  <2> QED
    BY <2>3, <2>5, <2>6
<1>15. ASSUME w.how = "digits" PROVE Goal
  <2>1. fmt[at] \in Numerals \ {"0"} /\ fmt[at] # "*"
    BY <1>12, <1>15, PlainFacts
  <2>2. PICK s : s = Decimals(w)
    OBVIOUS
  <2>3. s \in Seq(Numerals) /\ Number(s) = w.n /\ AtPoint(x) = AtWidth(x) + Len(s)
    BY <2>2, <1>4, <1>7, <1>15, ProperDecimals DEF AtPoint
  <2>4. o + AtPoint(x) + 1 \in DOMAIN fmt /\ fmt[o + AtPoint(x) + 1] \notin Numerals
    <3>1. Numerals \subseteq Plain
      BY DEF Plain
    <3> QED
      BY <3>1, <1>4, PointHead, PlainFacts, ProperParts
  <2>5. RunOf(Numerals, at) = s
    <3>1. PICK e \in Nat : e = o + AtWidth(x)
      BY <1>6
    <3>2. Stands(fmt, s, e)
      BY <3>1, <2>2, <1>4, <1>7 DEF LaidOut
    <3>3. e + Len(s) + 1 = o + AtPoint(x) + 1
      BY <3>1, <2>3, <1>6
    <3>4. RunOf(Numerals, e + 1) = s
      BY <3>2, <3>3, <2>3, <2>4, <1>4, RunIs
    <3> QED
      BY <3>1, <3>4, <1>5
  <2>6. Magnitude(w.n) = w.n
    BY <1>8, <1>15 DEF Magnitude
  <2>7. Parsed("precision", [spec EXCEPT !.width = Number(s) % SizeModulus], at + Len(s), next)
    BY <2>1, <2>5 DEF ParseWidth, ParseWidthFrom
  <2>8. at + Len(s) = o + AtPoint(x) + 1 /\ next = g + taken + 1
    BY <1>5, <1>6, <2>3, <1>11, <1>15
  <2>9. Meant(x).flags = Range(x.flags) /\ Meant(x).width = Number(s) % SizeModulus
    BY <1>8, <1>9, <1>15, <2>3, <2>6
  <2>10. [spec EXCEPT !.width = Number(s) % SizeModulus]
          = [flags |-> Meant(x).flags, width |-> Meant(x).width, precision |-> call.policy.default, mod |-> <<>>]
    BY <1>5, <2>9
  <2> QED
    BY <2>7, <2>8, <2>10
<1>16. Goal
  BY <1>8, <1>13, <1>14, <1>15
<1>17. /\ fpc' = "precision" /\ at' = o + AtPoint(x) + 1 /\ next' = g + taken + 1
       /\ spec' = [flags |-> Meant(x).flags, width |-> Meant(x).width, precision |-> call.policy.default, mod |-> <<>>]
       /\ StaticInv' /\ Base' = Base /\ Given' = Given /\ Begun' = Begun /\ call' = call
       /\ begun' \in 1..Len(call'.pieces) /\ ~IsLiteral(Begun')
  BY <1>0, <1>16, SameConversion
<1> QED
  <2>1. fpc' # "flags" /\ fpc' # "width" /\ fpc' # "length" /\ fpc' # "dispatch"
    BY <1>17
  <2>2. /\ at' = Base' + AtPoint(Begun') + 1 /\ next' = Given' + Len(StarArg(Begun'.width)) + 1
        /\ spec' = [flags |-> Meant(Begun)'.flags, width |-> Meant(Begun)'.width, precision |-> call'.policy.default, mod |-> <<>>]
    <3>1. Meant(Begun)' = Meant(x)
      BY <1>1, <1>17 DEF Meant
    <3> QED
      BY <3>1, <1>1, <1>2, <1>3, <1>7, <1>10, <1>17
  <2> QED
    <3>1. ParsedTo(AtPoint(Begun), Len(StarArg(Begun.width)),
                   Meant(Begun).flags, Meant(Begun).width, call.policy.default, <<>>)'
      BY <2>2 DEF ParsedTo
    <3>2. ParseInv'
      BY <1>17, <2>1, <3>1 DEF ParseInv
    <3> QED
      BY <3>2, <1>17

(* ParsePrecision takes the precision, from the digits or from its         *)
(* argument.                                                               *)
LEMMA PrecisionParsed ==
  ASSUME StaticInv, ParseInv, ParsePrecision
  PROVE  ParseInv' /\ StaticInv' /\ fpc' = "length"
<1>0. fpc = "precision" /\ fpc \in Parsing
  BY DEF ParsePrecision, Parsing
<1>1. PICK x : x = Begun
  OBVIOUS
<1>2. PICK o \in Nat : o = Base
  BY <1>0, InConversion
<1>3. PICK g \in Nat : g = Given
  BY <1>0, InConversion
<1>4. /\ Proper(x) /\ LaidOut(fmt, x, o) /\ fmt \in Seq(FormatChar \cup {"NUL"}) /\ LinedUp(args, x, g)
      /\ Len(StarArg(x.width)) \in Nat /\ call \in Calls
  BY <1>0, <1>1, <1>2, <1>3, InConversion
<1>5. /\ at = o + AtPoint(x) + 1 /\ next = g + Len(StarArg(x.width)) + 1
      /\ spec = [flags |-> Meant(x).flags, width |-> Meant(x).width, precision |-> call.policy.default, mod |-> <<>>]
  BY <1>0, <1>1, <1>2, <1>3 DEF ParseInv, ParsedTo
<1>6. AtPoint(x) \in Nat /\ AtPlaces(x) \in Nat /\ AtMod(x) \in Nat
  BY <1>4, RenderedText
<1>7. PICK w : w = x.precision
  OBVIOUS
<1>8. /\ w.how \in {"none", "bare", "star", "digits"} /\ w.n \in Int
      /\ w.how = "digits" => w.n \in Nat
  BY <1>4, <1>7, ProperParts
<1>9. Meant(x).precision =
        CASE w.how = "none" -> call.policy.default
          [] w.how = "bare" -> 0
          [] OTHER -> IF w.n < 0 THEN call.policy.default ELSE Min({w.n, call.policy.max})
  BY <1>7 DEF Meant
<1>10. PICK taken : taken = Len(StarArg(w))
  OBVIOUS
<1>11. /\ w.how = "star" => taken = 1
       /\ w.how # "star" => taken = 0
  BY <1>10, StarLength
<1>12. AtArg(x) = Len(StarArg(x.width)) + taken
  BY <1>7, <1>10 DEF AtArg
<1>13. /\ w.how = "none" => AtMod(x) = AtPoint(x) /\ fmt[at] # "."
       /\ w.how # "none" => AtPlaces(x) = AtPoint(x) + 1 /\ fmt[at] = "."
  BY <1>4, <1>5, <1>7, PointHead DEF Plain
<1>14. /\ w.how = "bare" => AtMod(x) = AtPlaces(x) /\ fmt[o + AtPlaces(x) + 1] \notin Plain
       /\ w.how = "star" => AtMod(x) = AtPlaces(x) + 1 /\ fmt[o + AtPlaces(x) + 1] = "*"
       /\ w.how = "digits" => fmt[o + AtPlaces(x) + 1] \in Numerals
       /\ o + AtPlaces(x) + 1 \in DOMAIN fmt
  BY <1>4, <1>7, PlacesHead
<1>15. o + AtMod(x) + 1 \in DOMAIN fmt /\ fmt[o + AtMod(x) + 1] \notin Numerals
  BY <1>4, ModHead DEF Plain
<1>16. PICK s : s = Decimals(w)
  OBVIOUS
<1>17. /\ w.how \in {"bare", "digits"} => s \in Seq(Numerals) /\ Number(s) = (IF w.how = "bare" THEN 0 ELSE w.n)
       /\ AtMod(x) = AtPlaces(x) + Len(s) /\ Stands(fmt, s, o + AtPlaces(x))
  <2>1. AtMod(x) = AtPlaces(x) + Len(s) /\ Stands(fmt, s, o + AtPlaces(x))
    BY <1>4, <1>7, <1>16 DEF AtMod, LaidOut
  <2>2. w.how = "bare" => s = <<>>
    BY <1>4, <1>7, <1>16, ProperDecimals
  <2>3. <<>> \in Seq(Numerals) /\ Number(<<>>) = 0
    <3>1. Valued(<<>>, LowerDigits, 10) = 0
      BY ValuedEmpty
    <3> QED
      BY <3>1 DEF Number
  <2>4. w.how = "digits" => s \in Seq(Numerals) /\ Number(s) = w.n
    BY <1>4, <1>7, <1>16, ProperDecimals
  <2> QED
    BY <2>1, <2>2, <2>3, <2>4
<1>18. ASSUME w.how \in {"bare", "digits"}
       PROVE  RunOf(Numerals, at + 1) = s
  <2>1. PICK e \in Nat : e = o + AtPlaces(x)
    BY <1>6
  <2>2. at + 1 = e + 1
    BY <2>1, <1>5, <1>6, <1>13, <1>18
  <2>3. e + Len(s) + 1 = o + AtMod(x) + 1 /\ Stands(fmt, s, e)
    BY <2>1, <1>6, <1>17
  <2>4. RunOf(Numerals, e + 1) = s
    BY <2>3, <1>4, <1>15, <1>17, <1>18, RunIs
  <2> QED
    BY <2>2, <2>4
<1>19. PICK d : d = Meant(x).precision
  OBVIOUS
<1> DEFINE Goal == Parsed("length", [spec EXCEPT !.precision = d], o + AtMod(x) + 1, g + AtArg(x) + 1)
<1>20. ASSUME w.how = "none" PROVE Goal
  <2>1. Parsed("length", [spec EXCEPT !.precision = call.policy.default], at, next)
    BY <1>13, <1>20 DEF ParsePrecision
  <2>2. at = o + AtMod(x) + 1 /\ next = g + AtArg(x) + 1
    BY <1>4, <1>5, <1>11, <1>12, <1>13, <1>20
  <2>3. d = call.policy.default
    BY <1>9, <1>19, <1>20
  <2> QED
    BY <2>1, <2>2, <2>3
<1>21. ASSUME w.how = "star" PROVE Goal
  <2>1. fmt[at] = "." /\ at + 1 = o + AtPlaces(x) + 1 /\ fmt[at + 1] = "*"
    BY <1>5, <1>6, <1>13, <1>14, <1>21
  <2>2. args[next].val = w.n
    BY <1>4, <1>5, <1>7, <1>21 DEF LinedUp
  <2>3. Parsed("length", [spec EXCEPT !.precision = IF w.n < 0 THEN call.policy.default
                                                    ELSE Min({w.n, call.policy.max})], at + 2, next + 1)
    BY <2>1, <2>2 DEF ParsePrecision
  <2>4. d = IF w.n < 0 THEN call.policy.default ELSE Min({w.n, call.policy.max})
    BY <1>9, <1>19, <1>21
  <2>5. at + 2 = o + AtMod(x) + 1 /\ next + 1 = g + AtArg(x) + 1
    BY <2>1, <1>4, <1>5, <1>6, <1>11, <1>12, <1>14, <1>21
  <2> QED
    BY <2>3, <2>4, <2>5
<1>22. ASSUME w.how \in {"bare", "digits"} PROVE Goal
  <2>1. fmt[at] = "." /\ at + 1 = o + AtPlaces(x) + 1 /\ fmt[at + 1] # "*"
    BY <1>5, <1>6, <1>13, <1>14, <1>22, PlainFacts DEF Plain
  <2>2. Parsed("length", [spec EXCEPT !.precision = Min({Number(s), call.policy.max})], at + 1 + Len(s), next)
    BY <2>1, <1>18, <1>22 DEF ParsePrecision
  <2>3. d = Min({Number(s), call.policy.max})
    <3>1. CASE w.how = "bare"
      <4>1. call.policy.max \in Nat
        BY <1>4, CallFacts, PolicyFacts
      <4>2. Min({0, call.policy.max}) = 0
        BY <4>1, MinOfTwo
      <4> QED
        BY <4>2, <3>1, <1>9, <1>17, <1>19
    <3>2. CASE w.how = "digits"
      <4>1. Number(s) = w.n
        BY <3>2, <1>17
      <4>2. ~(w.n < 0)
        BY <3>2, <1>8
      <4>3. d = IF w.n < 0 THEN call.policy.default ELSE Min({w.n, call.policy.max})
        BY <3>2, <1>9, <1>19
      <4> QED
        BY <4>1, <4>2, <4>3
    <3> QED
      BY <3>1, <3>2, <1>22
  <2>4. at + 1 + Len(s) = o + AtMod(x) + 1 /\ next = g + AtArg(x) + 1
    <3>1. taken = 0 /\ Len(s) \in Nat
      BY <1>11, <1>17, <1>22
    <3>2. at + 1 + Len(s) = o + AtMod(x) + 1
      BY <3>1, <2>1, <1>6, <1>17
    <3>3. next = g + AtArg(x) + 1
      BY <3>1, <1>4, <1>5, <1>12
    <3> QED
      BY <3>2, <3>3
  <2> QED
    BY <2>2, <2>3, <2>4
<1>23. Goal
  BY <1>8, <1>20, <1>21, <1>22
<1>24. /\ fpc' = "length" /\ at' = o + AtMod(x) + 1 /\ next' = g + AtArg(x) + 1
       /\ spec' = [spec EXCEPT !.precision = d]
       /\ StaticInv' /\ Base' = Base /\ Given' = Given /\ Begun' = Begun /\ call' = call
       /\ begun' \in 1..Len(call'.pieces) /\ ~IsLiteral(Begun')
  BY <1>0, <1>23, SameConversion
<1>25. spec' = [flags |-> Meant(x).flags, width |-> Meant(x).width, precision |-> d, mod |-> <<>>]
  BY <1>5, <1>24
<1>26. Meant(Begun)' = Meant(x) /\ AtMod(Begun') = AtMod(x) /\ AtArg(Begun') = AtArg(x)
  BY <1>1, <1>24 DEF Meant
<1>27. ParsedTo(AtMod(Begun), AtArg(Begun), Meant(Begun).flags, Meant(Begun).width, Meant(Begun).precision, <<>>)'
  BY <1>2, <1>3, <1>19, <1>24, <1>25, <1>26 DEF ParsedTo
<1>28. fpc' # "flags" /\ fpc' # "width" /\ fpc' # "precision" /\ fpc' # "dispatch"
  BY <1>24
<1> QED
  BY <1>24, <1>27, <1>28 DEF ParseInv

(* ParseLengthMod takes the length modifier and leaves *fmt at the letter. *)
LEMMA LengthParsed ==
  ASSUME StaticInv, ParseInv, ParseLengthMod
  PROVE  ParseInv' /\ StaticInv' /\ fpc' = "dispatch"
<1>0. fpc = "length" /\ fpc \in Parsing
  BY DEF ParseLengthMod, Parsing
<1>1. PICK x : x = Begun
  OBVIOUS
<1>2. PICK o \in Nat : o = Base
  BY <1>0, InConversion
<1>3. PICK g \in Nat : g = Given
  BY <1>0, InConversion
<1>4. Proper(x) /\ LaidOut(fmt, x, o) /\ fmt \in Seq(FormatChar \cup {"NUL"})
  BY <1>0, <1>1, <1>2, InConversion
<1>5. /\ at = o + AtMod(x) + 1 /\ next = g + AtArg(x) + 1
      /\ spec = [flags |-> Meant(x).flags, width |-> Meant(x).width, precision |-> Meant(x).precision, mod |-> <<>>]
  BY <1>0, <1>1, <1>2, <1>3 DEF ParseInv, ParsedTo
<1>6. AtMod(x) \in Nat /\ AtLetter(x) \in Nat
  BY <1>4, RenderedText
<1>7. PICK m : m = x.mod
  OBVIOUS
<1>8. /\ m \in LengthMods /\ m \in Seq(Mods) /\ Len(m) \in 0..2
      /\ AtLetter(x) = AtMod(x) + Len(m) /\ Stands(fmt, m, o + AtMod(x))
      /\ x.letter \notin Mods
  <2>1. x.letter \notin Mods
    BY <1>4 DEF Proper, Mods
  <2> QED
    BY <2>1, <1>4, <1>7, ProperParts, LengthModText DEF AtLetter, LaidOut
<1>9. /\ fmt[at] = (IF m = <<>> THEN x.letter ELSE m[1]) /\ at \in DOMAIN fmt
      /\ o + AtLetter(x) + 1 \in DOMAIN fmt /\ fmt[o + AtLetter(x) + 1] = x.letter
  BY <1>4, <1>5, <1>7, ModHead DEF LaidOut
<1> DEFINE read == IF fmt[at] \in {"h", "l"} /\ fmt[at + 1] = fmt[at] THEN SubSeq(fmt, at, at + 1)
                   ELSE If(fmt[at] \in {"h", "l", "j", "z", "t", "L"}, fmt[at])
<1>10. read = m
  <2>1. CASE m = <<>>
    <3>1. fmt[at] \notin Mods
      BY <2>1, <1>8, <1>9
    <3> QED
      BY <3>1, <2>1, Zenon DEF Mods, If
  <2>2. CASE Len(m) = 1
    <3>1. m # <<>> /\ m[1] \in Mods /\ m = <<m[1]>>
      <4>1. 1 \in 1..Len(m)
        BY <2>2
      <4>2. m[1] \in Mods
        BY <4>1, <1>8, ElementOfSeq
      <4>3. m # <<>>
        BY <2>2
      <4>4. PICK c : c = m[1]
        OBVIOUS
      <4>5. <<c>> \in Seq(Mods) /\ Len(<<c>>) = 1 /\ <<c>>[1] = c
        BY <4>2, <4>4
      <4>6. m = <<c>>
        <5>1. \A i \in 1..Len(m) : m[i] = <<c>>[i]
          BY <2>2, <4>4, <4>5
        <5> QED
          BY <5>1, <4>5, <2>2, <1>8, SeqEqual
      <4> QED
        BY <4>2, <4>3, <4>4, <4>6
    <3>2. at + 1 = o + AtLetter(x) + 1
      BY <2>2, <1>5, <1>6, <1>8
    <3>3. fmt[at] = m[1] /\ fmt[at + 1] # fmt[at]
      BY <3>1, <3>2, <1>8, <1>9
    <3>4. read = <<fmt[at]>>
      BY <3>1, <3>3, Zenon DEF Mods, If
    <3> QED
      BY <3>1, <3>3, <3>4
  <2>3. CASE Len(m) = 2
    <3>1. m = <<"h", "h">> \/ m = <<"l", "l">>
      <4>1. /\ Len(<<>>) = 0 /\ Len(<<"h">>) = 1 /\ Len(<<"l">>) = 1
            /\ Len(<<"j">>) = 1 /\ Len(<<"z">>) = 1 /\ Len(<<"t">>) = 1 /\ Len(<<"L">>) = 1
        OBVIOUS
      <4>2. 0 # 2 /\ 1 # 2
        OBVIOUS
      <4> QED
        BY <4>1, <4>2, <2>3, <1>8, Zenon DEF LengthMods
    <3>2. m # <<>> /\ 1 \in 1..Len(m) /\ 2 \in 1..Len(m) /\ m[2] = m[1] /\ m[1] \in {"h", "l"}
      BY <3>1
    <3>3. fmt[at] = m[1] /\ fmt[at + 1] = m[2] /\ at + 1 \in DOMAIN fmt
      <4>1. PICK e \in Nat : e = o + AtMod(x)
        BY <1>6
      <4>2. /\ e + 1 \in DOMAIN fmt /\ fmt[e + 1] = m[1]
            /\ e + 2 \in DOMAIN fmt /\ fmt[e + 2] = m[2]
        BY <4>1, <3>2, <1>8 DEF Stands
      <4>3. e + 1 = at /\ e + 2 = at + 1
        BY <4>1, <1>5
      <4> QED
        BY <4>2, <4>3
    <3>4. SubSeq(fmt, at, at + 1) = <<fmt[at], fmt[at + 1]>>
      <4>1. PICK e \in Nat \ {0} : e = at
        BY <1>5, <1>6
      <4>2. e \in 1..Len(fmt) /\ e + 1 \in 1..Len(fmt)
        BY <4>1, <3>3, <1>4, <1>9
      <4>3. PICK r : r = SubSeq(fmt, e, e + 1)
        OBVIOUS
      <4>4. r \in Seq(FormatChar \cup {"NUL"}) /\ Len(r) = 2 /\ r[1] = fmt[e] /\ r[2] = fmt[e + 1]
        BY <4>2, <4>3, <1>4
      <4>5. r = <<r[1], r[2]>>
        BY <4>4
      <4> QED
        BY <4>1, <4>3, <4>4, <4>5
    <3>5. m = <<m[1], m[2]>>
      BY <3>1
    <3>6. read = SubSeq(fmt, at, at + 1)
      BY <3>2, <3>3
    <3> QED
      BY <3>3, <3>4, <3>5, <3>6
  <2>4. Len(m) = 0 => m = <<>>
    BY <1>8
  <2> QED
    BY <2>1, <2>2, <2>3, <2>4, <1>8
<1> HIDE DEF read
<1>11. Parsed("dispatch", [spec EXCEPT !.mod = m], at + Len(m), next)
  <2>1. Parsed("dispatch", [spec EXCEPT !.mod = read], at + Len(read), next)
    BY DEF ParseLengthMod, read
  <2> QED
    BY <2>1, <1>10
<1>12. /\ fpc' = "dispatch" /\ at' = at + Len(m) /\ next' = next /\ spec' = [spec EXCEPT !.mod = m]
       /\ StaticInv' /\ Base' = Base /\ Given' = Given /\ Begun' = Begun /\ call' = call
       /\ begun' \in 1..Len(call'.pieces) /\ ~IsLiteral(Begun')
  BY <1>0, <1>11, SameConversion
<1>13. spec' = [flags |-> Meant(x).flags, width |-> Meant(x).width, precision |-> Meant(x).precision, mod |-> m]
  BY <1>5, <1>12
<1>14. at' = o + AtLetter(x) + 1 /\ next' = g + AtArg(x) + 1
  BY <1>5, <1>6, <1>8, <1>12
<1>15. Meant(Begun)' = Meant(x) /\ AtLetter(Begun') = AtLetter(x) /\ AtArg(Begun') = AtArg(x) /\ Begun'.mod = m
  BY <1>1, <1>7, <1>12 DEF Meant
<1>16. ParsedTo(AtLetter(Begun), AtArg(Begun), Meant(Begun).flags, Meant(Begun).width, Meant(Begun).precision, Begun.mod)'
  BY <1>2, <1>3, <1>12, <1>13, <1>14, <1>15 DEF ParsedTo
<1>17. fpc' # "flags" /\ fpc' # "width" /\ fpc' # "precision" /\ fpc' # "length"
  BY <1>12
<1> QED
  BY <1>12, <1>16, <1>17 DEF ParseInv

(* What stands at the position of a scan.                                  *)
LEMMA ScanSpot ==
  ASSUME StaticInv, NEW k, NEW o, ScanAt(k, o)
  PROVE  /\ call \in Calls /\ k \in 0..Len(call.pieces) /\ Len(call.pieces) \in Nat /\ o \in Nat
         /\ fmt \in Seq(FormatChar \cup {"NUL"}) /\ DOMAIN fmt = 1..Len(fmt)
         /\ Len(Spelled(call, k)) \in Nat /\ Len(Supplied(call, k)) \in Nat
         /\ k = Len(call.pieces) => o = 0 /\ at = Len(fmt) /\ at \in DOMAIN fmt /\ fmt[at] = "NUL"
         /\ k < Len(call.pieces) =>
              /\ k + 1 \in 1..Len(call.pieces)
              /\ at \in DOMAIN fmt /\ o + 1 \in 1..Len(Rendered(call.pieces[k + 1]))
              /\ fmt[at] = Rendered(call.pieces[k + 1])[o + 1] /\ fmt[at] \in FormatChar
              /\ Stands(fmt, Rendered(call.pieces[k + 1]), Len(Spelled(call, k)))
<1>1. PICK c \in Calls : c = call
  BY DEF StaticInv
<1>2. PICK mem : mem = fmt
  OBVIOUS
<1>3. PICK a : a = at
  OBVIOUS
<1>4. /\ mem = Memory(c)
      /\ k \in 0..Len(c.pieces) /\ o \in Nat
      /\ a = Len(Spelled(c, k)) + 1 + o
      /\ o > 0 => k < Len(c.pieces) /\ IsLiteral(c.pieces[k + 1]) /\ o < Len(c.pieces[k + 1].text)
  BY <1>1, <1>2, <1>3 DEF StaticInv, ScanAt
<1>5. /\ mem \in Seq(FormatChar \cup {"NUL"}) /\ DOMAIN mem = 1..Len(mem)
      /\ Len(mem) = Len(Spelled(c, Len(c.pieces))) + 1
      /\ mem[Len(Spelled(c, Len(c.pieces))) + 1] = "NUL"
  BY <1>4, MemoryFacts
<1>6. PICK e \in Nat : e = Len(Spelled(c, k))
  BY <1>4, SpelledFacts
<1>7. Len(Supplied(c, k)) \in Nat /\ Len(c.pieces) \in Nat
  BY <1>4, SuppliedFacts, CallFacts
<1>8. ASSUME k = Len(c.pieces) PROVE o = 0 /\ a = Len(mem) /\ a \in DOMAIN mem /\ mem[a] = "NUL"
  <2>1. o = 0
    BY <1>4, <1>7, <1>8
  <2>2. a = e + 1 /\ Len(mem) = e + 1 /\ mem[e + 1] = "NUL"
    BY <2>1, <1>4, <1>5, <1>6, <1>8
  <2> QED
    BY <2>1, <2>2, <1>5
<1>9. ASSUME k < Len(c.pieces)
      PROVE  /\ k + 1 \in 1..Len(c.pieces)
             /\ a \in DOMAIN mem /\ o + 1 \in 1..Len(Rendered(c.pieces[k + 1]))
             /\ mem[a] = Rendered(c.pieces[k + 1])[o + 1] /\ mem[a] \in FormatChar
             /\ Stands(mem, Rendered(c.pieces[k + 1]), e)
  <2>1. PICK j \in 1..Len(c.pieces) : j = k + 1
    BY <1>4, <1>7, <1>9
  <2>2. PICK r : r = Rendered(c.pieces[j])
    OBVIOUS
  <2>3. r \in Seq(FormatChar) /\ r # <<>> /\ Stands(mem, r, Len(Spelled(c, j - 1)))
    BY <1>4, <2>2, PieceText, MemoryFacts
  <2>4. Stands(mem, r, e)
    <3>1. j - 1 = k
      BY <2>1, <1>4
    <3> QED
      BY <3>1, <2>3, <1>6
  <2>5. o + 1 \in 1..Len(r)
    <3>1. CASE o = 0
      BY <3>1, <2>3
    <3>2. CASE o > 0
      <4>1. r = c.pieces[j].text /\ o < Len(r)
        BY <3>2, <1>4, <2>1, <2>2 DEF Rendered
      <4> QED
        BY <4>1, <2>3, <1>4
    <3> QED
      BY <3>1, <3>2, <1>4
  <2>6. e + (o + 1) \in DOMAIN mem /\ mem[e + (o + 1)] = r[o + 1]
    BY <2>4, <2>5 DEF Stands
  <2>7. e + (o + 1) = a
    BY <1>4, <1>6
  <2>8. r[o + 1] \in FormatChar
    BY <2>3, <2>5
  <2> QED
    BY <2>1, <2>2, <2>4, <2>5, <2>6, <2>7, <2>8
<1> QED
  BY <1>1, <1>2, <1>3, <1>4, <1>5, <1>6, <1>7, <1>8, <1>9

(* A percent sign there: a conversion, or a lone one at the end.           *)
LEMMA PercentSpot ==
  ASSUME StaticInv, NEW k, NEW o, ScanAt(k, o), k < Len(call.pieces)
  PROVE  LET x == call.pieces[k + 1] IN
         /\ ~IsLiteral(x) => o = 0 /\ fmt[at] = "%" /\ fmt[at + 1] # "NUL"
         /\ IsLiteral(x) =>
              \/ fmt[at] \notin {"%", "NUL"} /\ fmt[at] \in Char /\ x.text \in Seq(Char) /\ o + 1 \in 1..Len(x.text)
                   /\ Len(Rendered(x)) = Len(x.text)
              \/ fmt[at] = "%" /\ fmt[at + 1] = "NUL" /\ k + 1 = Len(call.pieces)
<1>1. PICK c \in Calls : c = call
  BY ScanSpot
<1>2. PICK j : j = k + 1
  OBVIOUS
<1>3. PICK r : r = Rendered(c.pieces[j])
  OBVIOUS
<1>4. /\ k \in 0..Len(c.pieces) /\ Len(c.pieces) \in Nat /\ o \in Nat /\ j \in 1..Len(c.pieces)
      /\ at \in DOMAIN fmt /\ o + 1 \in 1..Len(r) /\ fmt[at] = r[o + 1]
  BY <1>1, <1>2, <1>3, ScanSpot
<1>5. PICK e \in Nat : e = Len(Spelled(c, k))
  BY <1>1, ScanSpot
<1>6. Stands(fmt, r, e) /\ at = e + 1 + o
  BY <1>1, <1>2, <1>3, <1>5, ScanSpot DEF ScanAt
<1>7. PICK x : x = c.pieces[j]
  OBVIOUS
<1>8. ASSUME ~IsLiteral(x) PROVE o = 0 /\ fmt[at] = "%" /\ fmt[at + 1] # "NUL"
  <2>1. o = 0
    BY <1>1, <1>2, <1>4, <1>7, <1>8 DEF ScanAt
  <2>2. Proper(x)
    BY <1>4, <1>7, <1>8, CallFacts
  <2>3. r \in Seq(FormatChar) /\ Len(r) >= 2 /\ Len(r) \in Nat /\ LaidOut(fmt, x, e)
    BY <2>2, <1>3, <1>6, <1>7, RenderedText
  <2>4. fmt[e + 1] = "%"
    BY <2>3 DEF LaidOut
  <2>5. 2 \in 1..Len(r) /\ r[2] \in FormatChar
    BY <2>3
  <2>6. fmt[e + 2] # "NUL"
    BY <2>5, <1>6, FormatCharSets DEF Stands
  <2>7. at = e + 1 /\ at + 1 = e + 2
    BY <2>1, <1>6
  <2> QED
    BY <2>1, <2>4, <2>6, <2>7
<1>9. ASSUME IsLiteral(x), x.text \in Seq(Char \ {"%", "NUL"})
      PROVE  /\ fmt[at] \notin {"%", "NUL"} /\ fmt[at] \in Char /\ x.text \in Seq(Char) /\ o + 1 \in 1..Len(x.text)
             /\ Len(Rendered(x)) = Len(x.text)
  <2>1. PICK t : t = x.text
    OBVIOUS
  <2>2. r = t
    BY <2>1, <1>3, <1>7, <1>9 DEF Rendered
  <2>3. t[o + 1] \in Char \ {"%", "NUL"}
    BY <2>1, <2>2, <1>4, <1>9, ElementOfSeq
  <2>4. t \in Seq(Char)
    BY <2>1, <1>9, SeqMonotonic
  <2> QED
    BY <2>1, <2>2, <2>3, <2>4, <1>3, <1>4, <1>7
<1>10. ASSUME IsLiteral(x), x.text = <<"%">>, j = Len(c.pieces)
       PROVE  fmt[at] = "%" /\ fmt[at + 1] = "NUL"
  <2>1. r = <<"%">>
    BY <1>3, <1>7, <1>10 DEF Rendered
  <2>2. o = 0 /\ Len(r) = 1 /\ r[1] = "%"
    BY <2>1, <1>4
  <2>3. PICK f : f = Len(Spelled(c, j))
    OBVIOUS
  <2>4. f = e + 1
    <3>1. f = Len(Spelled(c, j - 1)) + Len(Rendered(c.pieces[j]))
      BY <2>3, <1>4, SpelledFacts
    <3>2. j - 1 = k
      BY <1>2, <1>4
    <3> QED
      BY <3>1, <3>2, <2>2, <1>3, <1>5
  <2>5. fmt[f + 1] = "NUL"
    <3>1. fmt = Memory(c)
      BY <1>1 DEF StaticInv
    <3> QED
      BY <3>1, <2>3, <1>10, MemoryFacts
  <2>6. at + 1 = f + 1
    BY <2>2, <2>4, <1>6
  <2>7. fmt[at] = r[o + 1] /\ o + 1 = 1
    BY <2>2, <1>4
  <2> QED
    BY <2>2, <2>5, <2>6, <2>7
<1>11. IsLiteral(x) => x.text \in Seq(Char \ {"%", "NUL"}) \/ (x.text = <<"%">> /\ j = Len(c.pieces))
  BY <1>4, <1>7, CallFacts
<1> QED
  BY <1>1, <1>2, <1>7, <1>8, <1>9, <1>10, <1>11

(* A literal's character is put and passed over.                           *)
LEMMA LiteralPut ==
  ASSUME StaticInv, ScanInv, PutLiteral
  PROVE  ScanInv' /\ StaticInv' /\ fpc' = "scan" /\ fmt[at] \in Char
<1>1. /\ fpc = "scan" /\ fmt[at] \notin {"%", "NUL"} /\ fpc' = "scan" /\ at' = at + 1
      /\ call' = call /\ fmt' = fmt /\ args' = args /\ next' = next /\ begun' = begun
  BY DEF PutLiteral, parserVars
<1>2. PICK k, o : ScanAt(k, o)
  BY <1>1 DEF ScanInv
<1>3. /\ k < Len(call.pieces) /\ k \in Nat /\ Len(call.pieces) \in Nat /\ o \in Nat
      /\ k + 1 \in 1..Len(call.pieces) /\ fmt[at] \in FormatChar /\ call \in Calls
  <2>1. k # Len(call.pieces)
    BY <1>1, <1>2, ScanSpot
  <2>2. k < Len(call.pieces)
    BY <2>1, <1>2, ScanSpot
  <2> QED
    BY <2>2, <1>2, ScanSpot
<1>4. PICK x : x = call.pieces[k + 1]
  OBVIOUS
<1>5. IsLiteral(x) /\ o + 1 \in 1..Len(x.text) /\ x.text \in Seq(Char) /\ Len(Rendered(x)) = Len(x.text) /\ fmt[at] \in Char
  BY <1>1, <1>2, <1>3, <1>4, PercentSpot
<1>6. /\ at = Len(Spelled(call, k)) + 1 + o /\ next = Len(Supplied(call, k)) + 1
      /\ begun \in 0..k /\ \A j \in (begun + 1)..k : IsLiteral(call.pieces[j])
  BY <1>2 DEF ScanAt
<1>7. PICK e \in Nat : e = Len(Spelled(call, k))
  BY <1>2, ScanSpot
<1>10. StaticInv'
  BY <1>1 DEF StaticInv
<1>11. fmt[at] \in Char
  BY <1>5
<1>8. CASE o + 1 < Len(x.text)
  <2>1. ScanAt(k, o + 1)'
    <3>1. o + 1 \in Nat /\ at + 1 = Len(Spelled(call, k)) + 1 + (o + 1) /\ k \in 0..Len(call.pieces)
      BY <1>3, <1>6, <1>7
    <3> QED
      BY <3>1, <1>1, <1>3, <1>4, <1>5, <1>6, <1>8 DEF ScanAt
  <2> QED
    BY <2>1, <1>1, <1>10, <1>11 DEF ScanInv
<1>9. CASE o + 1 = Len(x.text)
  <2>1. PICK j \in 1..Len(call.pieces) : j = k + 1
    BY <1>3
  <2>2. PICK c \in Calls : c = call
    BY <1>3
  <2>3. j - 1 = k
    BY <2>1, <1>3
  <2>4. Len(Spelled(c, j)) = e + Len(x.text)
    <3>1. Len(Spelled(c, j)) = Len(Spelled(c, j - 1)) + Len(Rendered(c.pieces[j]))
      BY <2>1, <2>2, SpelledFacts
    <3> QED
      BY <3>1, <2>1, <2>2, <2>3, <1>4, <1>5, <1>7
  <2>5. Len(Supplied(c, j)) = Len(Supplied(c, k))
    <3>1. Len(Supplied(c, j)) = Len(Supplied(c, j - 1)) + Len(Passed(c.pieces[j]))
      BY <2>1, <2>2, SuppliedFacts
    <3>2. Len(Passed(c.pieces[j])) = 0
      BY <2>1, <2>2, <1>4, <1>5, PassedText
    <3>3. Len(Supplied(c, k)) \in Nat
      BY <2>2, <1>2, ScanSpot
    <3> QED
      BY <3>1, <3>2, <3>3, <2>3
  <2>6. /\ at + 1 = Len(Spelled(call, j)) + 1 + 0 /\ next = Len(Supplied(call, j)) + 1
        /\ begun \in 0..j /\ j \in 0..Len(call.pieces)
    <3>1. at + 1 = Len(Spelled(call, j)) + 1 + 0
      <4>1. PICK n \in Nat : n = Len(x.text)
        BY <1>5
      <4>2. Len(Spelled(call, j)) = e + n /\ at = e + 1 + o /\ o + 1 = n
        BY <4>1, <2>2, <2>4, <1>6, <1>7, <1>9
      <4> QED
        BY <4>1, <4>2, <1>3
    <3>2. next = Len(Supplied(call, j)) + 1
      BY <2>2, <2>5, <1>6
    <3> QED
      BY <3>1, <3>2, <2>1, <1>3, <1>6
  <2>7. \A i \in (begun + 1)..j : IsLiteral(call.pieces[i])
    <3> SUFFICES ASSUME NEW i \in (begun + 1)..j PROVE IsLiteral(call.pieces[i])
      OBVIOUS
    <3>1. i \in (begun + 1)..k \/ i = k + 1
      BY <2>1, <1>3, <1>6
    <3> QED
      BY <3>1, <1>4, <1>5, <1>6
  <2>8. ScanAt(j, 0)'
    BY <2>6, <2>7, <1>1 DEF ScanAt
  <2> QED
    BY <2>8, <1>1, <1>10, <1>11 DEF ScanInv
<1> QED
  BY <1>3, <1>5, <1>8, <1>9

(* A percent sign begins the next piece that is a conversion.              *)
LEMMA ConversionBegun ==
  ASSUME StaticInv, ScanInv, BeginConversion
  PROVE  ParseInv' /\ StaticInv' /\ fpc' = "flags"
<1>1. /\ fpc = "scan" /\ fmt[at] = "%" /\ fmt[at + 1] # "NUL"
      /\ fpc' = "flags" /\ at' = at + 1 /\ spec' = NoSpec(call.policy)
      /\ begun' = Min({k \in DOMAIN call.pieces : k > begun /\ ~IsLiteral(call.pieces[k])})
      /\ call' = call /\ fmt' = fmt /\ args' = args /\ next' = next
  BY DEF BeginConversion, parserVars
<1>2. PICK k, o : ScanAt(k, o)
  BY <1>1 DEF ScanInv
<1>3. /\ k < Len(call.pieces) /\ k \in Nat /\ Len(call.pieces) \in Nat /\ o \in Nat
      /\ k + 1 \in 1..Len(call.pieces) /\ call \in Calls
  <2>1. k # Len(call.pieces)
    BY <1>1, <1>2, ScanSpot
  <2>2. k < Len(call.pieces)
    BY <2>1, <1>2, ScanSpot
  <2> QED
    BY <2>2, <1>2, ScanSpot
<1>4. ~IsLiteral(call.pieces[k + 1]) /\ o = 0
  BY <1>1, <1>2, <1>3, PercentSpot
<1>5. /\ at = Len(Spelled(call, k)) + 1 + o /\ next = Len(Supplied(call, k)) + 1
      /\ begun \in 0..k /\ \A j \in (begun + 1)..k : IsLiteral(call.pieces[j])
  BY <1>2 DEF ScanAt
<1> DEFINE K == {j \in DOMAIN call.pieces : j > begun /\ ~IsLiteral(call.pieces[j])}
<1>6. K \subseteq Nat /\ k + 1 \in K /\ \A j \in K : k + 1 <= j
  <2>1. DOMAIN call.pieces = 1..Len(call.pieces)
    BY <1>3, CallFacts
  <2>2. ASSUME NEW j \in K PROVE k + 1 <= j
    <3>1. j \in Nat /\ j > begun /\ ~IsLiteral(call.pieces[j])
      BY <2>1, <1>3
    <3>2. ~(j \in (begun + 1)..k)
      BY <3>1, <1>5
    <3> QED
      BY <3>1, <3>2, <1>3, <1>5
  <2> QED
    BY <2>1, <2>2, <1>3, <1>4, <1>5
<1>7. begun' = k + 1
  <2>1. begun' = Min(K)
    BY <1>1
  <2> HIDE DEF K
  <2>2. PICK m : m = Min(K)
    OBVIOUS
  <2>3. m \in K /\ m <= k + 1 /\ k + 1 <= m
    BY <2>2, <1>6, LeastElement
  <2>4. m \in Nat /\ k + 1 \in Nat
    BY <2>3, <1>3, <1>6
  <2>5. m = k + 1
    BY <2>3, <2>4
  <2> QED
    BY <2>1, <2>2, <2>5
<1>8. begun' - 1 = k
  BY <1>7, <1>3
<1>9. PICK e \in Nat : e = Len(Spelled(call, k))
  BY <1>2, ScanSpot
<1>10. Base' = e /\ Given' = Len(Supplied(call, k))
  BY <1>1, <1>8, <1>9 DEF Base, Given
<1>11. at' = e + 1 + 1
  BY <1>1, <1>4, <1>5, <1>9
<1>12. next' = Len(Supplied(call, k)) + 0 + 1
  <2>1. Len(Supplied(call, k)) \in Nat
    BY <1>2, ScanSpot
  <2> QED
    BY <2>1, <1>1, <1>5
<1>13. spec' = [flags |-> {}, width |-> 0, precision |-> call.policy.default, mod |-> <<>>]
  BY <1>1 DEF NoSpec
<1>14. ParsedTo(1, 0, {}, 0, call.policy.default, <<>>)'
  BY <1>1, <1>10, <1>11, <1>12, <1>13 DEF ParsedTo
<1>15. begun' \in 1..Len(call'.pieces) /\ ~IsLiteral(Begun')
  BY <1>1, <1>3, <1>4, <1>7 DEF Begun
<1>16. fpc' # "width" /\ fpc' # "length" /\ fpc' # "precision" /\ fpc' # "dispatch"
  BY <1>1
<1>17. StaticInv'
  BY <1>1 DEF StaticInv
<1> QED
  BY <1>1, <1>14, <1>15, <1>16, <1>17 DEF ParseInv

(* What DispatchSpecifier finds.                                           *)
LEMMA AtDispatch ==
  ASSUME StaticInv, ParseInv, fpc = "dispatch"
  PROVE  /\ call \in Calls /\ call.policy \in Policies /\ Proper(Begun) /\ begun \in 1..Len(call.pieces)
         /\ spec = Meant(Begun) /\ fmt[at] = Begun.letter /\ at \in DOMAIN fmt
         /\ at = Len(Spelled(call, begun)) /\ at \in Nat
         /\ next + Reads(Begun) = Len(Supplied(call, begun)) + 1 /\ next = Given + AtArg(Begun) + 1
         /\ Reads(Begun) = 1 => args[next] = [type |-> ArgType(Begun.letter, Begun.mod), val |-> Begun.arg]
<1>0. fpc \in Parsing
  BY DEF Parsing
<1>1. PICK x : x = Begun
  OBVIOUS
<1>2. PICK o \in Nat : o = Base
  BY <1>0, InConversion
<1>3. PICK g \in Nat : g = Given
  BY <1>0, InConversion
<1>4. /\ Proper(x) /\ LaidOut(fmt, x, o) /\ LinedUp(args, x, g) /\ call \in Calls /\ begun \in 1..Len(call.pieces)
      /\ Len(StarArg(x.width)) \in 0..1 /\ Len(StarArg(x.precision)) \in 0..1
      /\ Len(Passed(x)) = AtArg(x) + Reads(x)
  BY <1>0, <1>1, <1>2, <1>3, InConversion
<1>5. /\ at = o + AtLetter(x) + 1 /\ next = g + AtArg(x) + 1
      /\ spec = [flags |-> Meant(x).flags, width |-> Meant(x).width, precision |-> Meant(x).precision, mod |-> x.mod]
  BY <1>0, <1>1, <1>2, <1>3 DEF ParseInv, ParsedTo
<1>6. spec = Meant(x)
  BY <1>5 DEF Meant
<1>7. fmt[at] = x.letter /\ at \in DOMAIN fmt /\ AtLetter(x) \in Nat /\ Len(Rendered(x)) = AtLetter(x) + 1
  BY <1>4, <1>5, RenderedText DEF LaidOut
<1>8. PICK c \in Calls : c = call
  BY <1>4
<1>9. PICK k \in 1..Len(c.pieces) : k = begun
  BY <1>4, <1>8
<1>10. x = c.pieces[k] /\ o = Len(Spelled(c, k - 1)) /\ g = Len(Supplied(c, k - 1))
  BY <1>1, <1>2, <1>3, <1>8, <1>9 DEF Begun, Base, Given
<1>11. Len(Spelled(c, k)) = o + Len(Rendered(x))
  BY <1>10, SpelledFacts
<1>12. Len(Supplied(c, k)) = g + Len(Passed(x))
  BY <1>10, SuppliedFacts
<1>13. at = Len(Spelled(c, k)) /\ at \in Nat
  BY <1>5, <1>7, <1>11
<1>14. AtArg(x) \in Nat /\ Reads(x) \in Nat
  BY <1>4 DEF AtArg, Reads
<1>15. next + Reads(x) = Len(Supplied(c, k)) + 1
  BY <1>4, <1>5, <1>12, <1>14
<1>16. Reads(x) = 1 => args[next] = [type |-> ArgType(x.letter, x.mod), val |-> x.arg]
  BY <1>4, <1>5 DEF LinedUp
<1>17. call.policy \in Policies
  BY <1>4, CallFacts
<1> QED
  BY <1>1, <1>3, <1>4, <1>5, <1>6, <1>7, <1>8, <1>9, <1>13, <1>15, <1>16, <1>17

(* After a conversion the scan goes on behind it, with its arguments read. *)
LEMMA ConversionDone ==
  ASSUME StaticInv, ParseInv, fpc = "dispatch", NEW text, NEW reads, Dispatched(text, reads), reads = Reads(Begun)
  PROVE  ScanInv' /\ StaticInv' /\ fpc' = "scan" /\ spec' = spec /\ call' = call /\ size' = size
<1>1. /\ fpc' = "scan" /\ at' = at + 1 /\ next' = next + reads /\ begun' = begun
      /\ call' = call /\ fmt' = fmt /\ args' = args /\ spec' = spec /\ size' = size
  BY DEF Dispatched, parserVars
<1>2. PICK k : k = begun
  OBVIOUS
<1>3. /\ call \in Calls /\ k \in 1..Len(call.pieces)
      /\ at = Len(Spelled(call, k)) /\ at \in Nat
      /\ next + reads = Len(Supplied(call, k)) + 1
  BY <1>2, AtDispatch
<1>4. Len(call.pieces) \in Nat
  BY <1>3, CallFacts
<1>5. at + 1 = Len(Spelled(call, k)) + 1 + 0 /\ k \in 0..Len(call.pieces) /\ k \in 0..k /\ (k + 1)..k = {}
  BY <1>3, <1>4
<1>6. ScanAt(k, 0)'
  BY <1>1, <1>2, <1>3, <1>5 DEF ScanAt
<1> QED
  BY <1>1, <1>6 DEF ScanInv, StaticInv

(* The scan stops with every piece done.                                   *)
LEMMA Finished ==
  ASSUME StaticInv, ScanInv, Finish
  PROVE  DoneInv' /\ StaticInv' /\ fpc' = "done"
<1>1. /\ fpc = "scan" /\ (fmt[at] = "NUL" \/ (fmt[at] = "%" /\ fmt[at + 1] = "NUL")) /\ fpc' = "done"
      /\ call' = call /\ fmt' = fmt /\ args' = args /\ at' = at /\ next' = next
  BY DEF Finish, FinishAt, parserVars
<1>2. PICK k, o : ScanAt(k, o)
  BY <1>1 DEF ScanInv
<1>3. PICK c \in Calls : c = call
  BY <1>2, ScanSpot
<1>4. /\ k \in 0..Len(c.pieces) /\ Len(c.pieces) \in Nat /\ o \in Nat
      /\ next = Len(Supplied(c, k)) + 1 /\ at \in DOMAIN fmt
  <2>1. k \in 0..Len(c.pieces) /\ Len(c.pieces) \in Nat /\ o \in Nat
    BY <1>2, <1>3, ScanSpot
  <2>2. at \in DOMAIN fmt
    BY <2>1, <1>2, <1>3, ScanSpot
  <2> QED
    BY <2>1, <2>2, <1>2, <1>3 DEF ScanAt
<1>5. args = PassedBy(c.pieces)
  BY <1>3 DEF StaticInv
<1>6. PassedBy(c.pieces) = Supplied(c, Len(c.pieces))
  BY SuppliedFacts
<1>7. CASE k = Len(c.pieces)
  BY <1>1, <1>4, <1>5, <1>6, <1>7 DEF DoneInv, StaticInv
<1>8. CASE k < Len(c.pieces)
  <2>1. PICK j \in 1..Len(c.pieces) : j = k + 1
    BY <1>4, <1>8
  <2>2. fmt[at] # "NUL"
    BY <1>2, <1>3, <1>8, ScanSpot, FormatCharSets
  <2>3. fmt[at] = "%" /\ fmt[at + 1] = "NUL"
    BY <2>2, <1>1
  <2>4. IsLiteral(c.pieces[j]) /\ j = Len(c.pieces)
    BY <2>1, <2>3, <1>2, <1>3, <1>8, PercentSpot
  <2>5. Len(Supplied(c, j)) = Len(Supplied(c, k))
    <3>1. Len(Supplied(c, j)) = Len(Supplied(c, j - 1)) + Len(Passed(c.pieces[j]))
      BY <2>1, SuppliedFacts
    <3>2. Len(Passed(c.pieces[j])) = 0
      BY <2>1, <2>4, PassedText
    <3>3. Len(Supplied(c, k)) \in Nat
      BY <1>4, SuppliedFacts
    <3>4. j - 1 = k
      BY <2>1, <1>4
    <3> QED
      BY <3>1, <3>2, <3>3, <3>4
  <2>6. next = Len(args) + 1
    BY <2>4, <2>5, <1>4, <1>5, <1>6
  <2> QED
    BY <2>6, <1>1, <1>4 DEF DoneInv, StaticInv
<1> QED
  BY <1>4, <1>7, <1>8

(* Each field of a conversion's meaning fits in FormatSpec.                *)
LEMMA MeantTyped ==
  ASSUME call \in Calls, NEW x, Proper(x)
  PROVE  /\ Range(x.flags) \subseteq Flags /\ Meant(x).flags \subseteq Flags
         /\ Meant(x).width \in 0..(SizeModulus - 1) /\ 0 \in 0..(SizeModulus - 1)
         /\ Meant(x).precision \in 0..call.policy.max /\ call.policy.default \in 0..call.policy.max
         /\ x.mod \in LengthMods /\ <<>> \in LengthMods /\ Meant(x).mod = x.mod
<1>1. SizeModulus \in Nat \ {0} /\ 0 \in 0..(SizeModulus - 1)
  BY CallsAssumption
<1>2. /\ x.flags \in Seq(Flags) /\ x.mod \in LengthMods
      /\ x.precision.how \in {"none", "bare", "digits", "star"} /\ x.precision.n \in Int
  BY ProperParts
<1>3. Range(x.flags) \subseteq Flags
  BY <1>2, ElementOfSeq DEF Range
<1>4. Meant(x).flags \subseteq Flags
  <2>1. "-" \in Flags
    BY DEF Flags
  <2> QED
    BY <2>1, <1>3 DEF Meant
<1>5. Meant(x).width \in 0..(SizeModulus - 1)
  <2>1. Magnitude(x.width.n) \in 0..(SizeModulus - 1)
    <3>1. x.width.n \in Int /\ Magnitude(x.width.n) < SizeModulus
      BY ProperParts DEF Proper
    <3> QED
      BY <3>1, <1>1, MagnitudeNat
  <2> QED
    BY <2>1, <1>1 DEF Meant
<1>6. PICK top \in Nat : top = call.policy.max /\ call.policy.default \in 0..top
  BY CallFacts, PolicyFacts
<1>7. PICK n \in Int : n = x.precision.n
  BY <1>2
<1>8. ~(n < 0) => Min({n, top}) \in 0..top
  BY MinOfTwo
<1>9. Meant(x).precision \in 0..top
  <2>1. Meant(x).precision = CASE x.precision.how = "none" -> call.policy.default
                               [] x.precision.how = "bare" -> 0
                               [] OTHER -> IF n < 0 THEN call.policy.default ELSE Min({n, top})
    BY <1>6, <1>7 DEF Meant
  <2>2. 0 \in 0..top
    OBVIOUS
  <2> QED
    BY <2>1, <2>2, <1>6, <1>8
<1>10. <<>> \in LengthMods /\ Meant(x).mod = x.mod
  BY DEF LengthMods, Meant
<1> QED
  BY <1>1, <1>2, <1>3, <1>4, <1>5, <1>6, <1>9, <1>10

(* What a Parse* helper leaves in FormatSpec is in range.                  *)
LEMMA SpecParsed ==
  ASSUME StaticInv, ParseInv, fpc \in Parsing, ParseInv', call' = call, begun' = begun,
         fpc' \in {"width", "precision", "length", "dispatch"}
  PROVE  SpecInv'
<1>1. PICK x : x = Begun
  OBVIOUS
<1>2. Begun' = x /\ Meant(Begun)' = Meant(x)
  BY <1>1 DEF Begun, Meant
<1>3. Proper(x) /\ call \in Calls
  BY <1>1, InConversion
<1>4. fpc' \in Parsing
  BY DEF Parsing
<1> DEFINE Typed == [flags : SUBSET Flags, width : 0..(SizeModulus - 1), precision : 0..call.policy.max, mod : LengthMods]
<1>5. /\ fpc' = "width" => spec' = [flags |-> Range(x.flags), width |-> 0, precision |-> call.policy.default, mod |-> <<>>]
      /\ fpc' = "precision" => spec' = [flags |-> Meant(x).flags, width |-> Meant(x).width, precision |-> call.policy.default, mod |-> <<>>]
      /\ fpc' = "length" => spec' = [flags |-> Meant(x).flags, width |-> Meant(x).width, precision |-> Meant(x).precision, mod |-> <<>>]
      /\ fpc' = "dispatch" => spec' = [flags |-> Meant(x).flags, width |-> Meant(x).width, precision |-> Meant(x).precision, mod |-> x.mod]
  BY <1>2, <1>4 DEF ParseInv, ParsedTo
<1>6. /\ [flags |-> Range(x.flags), width |-> 0, precision |-> call.policy.default, mod |-> <<>>] \in Typed
      /\ [flags |-> Meant(x).flags, width |-> Meant(x).width, precision |-> call.policy.default, mod |-> <<>>] \in Typed
      /\ [flags |-> Meant(x).flags, width |-> Meant(x).width, precision |-> Meant(x).precision, mod |-> <<>>] \in Typed
      /\ [flags |-> Meant(x).flags, width |-> Meant(x).width, precision |-> Meant(x).precision, mod |-> x.mod] \in Typed
  BY <1>3, MeantTyped
<1>7. spec' \in Typed
  <2> HIDE DEF Typed
  <2> QED
    BY <1>5, <1>6
<1> QED
  BY <1>7 DEF SpecInv
-----------------------------------------------------------------------------
(* Texts.                                                                  *)
LEMMA UptoText ==
  ASSUME NEW n \in Int, NEW c \in Char
  PROVE  /\ Upto(n, c) \in Seq(Char)
         /\ n <= 0 => Upto(n, c) = <<>> /\ Upto(0, c) = <<>>
<1>1. CASE n <= 0
  <2>1. 1..n = {} /\ 1..0 = {}
    BY <1>1
  <2>2. Upto(n, c) = <<>> /\ Upto(0, c) = <<>>
    <3>1. <<>> = [i \in {} |-> c]
      OBVIOUS
    <3> QED
      BY <2>1, <3>1 DEF Upto
  <2> QED
    BY <2>2, EmptyText
<1>2. CASE n > 0
  <2>1. n \in Nat /\ ~(n <= 0)
    BY <1>2
  <2>2. [i \in 1..n |-> c] \in [1..n -> Char]
    OBVIOUS
  <2>3. [i \in 1..n |-> c] \in Seq(Char)
    BY <2>1, <2>2
  <2> QED
    BY <2>1, <2>3 DEF Upto
<1> QED
  BY <1>1, <1>2

(* Padding is text.                                                        *)
LEMMA FillText ==
  ASSUME NEW s \in Seq(Char), spec.width \in Nat, NEW c \in Char
  PROVE  Fill(s, c) \in Seq(Char)
<1>1. PICK n \in Int : n = spec.width - Len(s)
  OBVIOUS
<1> QED
  BY <1>1, UptoText DEF Fill

(* The characters of the padding, and the percent sign.                    *)
LEMMA PadChars == " " \in Char /\ "0" \in Char /\ "%" \in Char
BY CodeChars

(* A field padded with spaces is text.                                     *)
LEMMA PaddedText ==
  ASSUME NEW s \in Seq(Char), spec.width \in Nat
  PROVE  SpacePadded(s) \in Seq(Char)
<1>1. Fill(s, " ") \in Seq(Char)
  BY FillText, PadChars
<1> QED
  BY <1>1, Joined DEF SpacePadded

(* A field padded with zeros is text.                                      *)
LEMMA ZeroPaddedText ==
  ASSUME NEW s \in Seq(Char), NEW t \in Seq(Char), spec.width \in Nat
  PROVE  ZeroPadded(s, t) \in Seq(Char)
<1>1. PICK r \in Seq(Char) : r = s \o t
  BY Joined
<1>2. Fill(r, "0") \in Seq(Char)
  BY FillText, PadChars
<1>3. s \o Fill(r, "0") \in Seq(Char)
  BY <1>2, Joined
<1>4. s \o Fill(r, "0") \o t \in Seq(Char)
  BY <1>3, Joined
<1> QED
  BY <1>1, <1>4 DEF ZeroPadded

(* A number's field is text.                                               *)
LEMMA NumericText ==
  ASSUME NEW s \in Seq(Char), NEW t \in Seq(Char), spec.width \in Nat
  PROVE  Numeric(s, t) \in Seq(Char)
<1>1. s \o t \in Seq(Char)
  BY Joined
<1> QED
  BY <1>1, PaddedText, ZeroPaddedText DEF Numeric

(* A float's field is text.                                                *)
LEMMA FloatField ==
  ASSUME NEW p \in Policies, p = call.policy, NEW v \in Floats, spec.width \in Nat, spec.precision \in Nat
  PROVE  FormatFloatValue(v) \in Seq(Char)
<1> DEFINE W(emit) == WriteFloat(v, spec.precision, call.policy, Flagged("+"), emit, Flagged("#"), Flagged(" "))
<1>1. PICK a \in Seq(Char) : a = W(FALSE)
  BY FloatChars
<1>2. PICK b \in Seq(Char) : b = W(TRUE)
  BY FloatChars
<1>3. PICK s \in Seq(Char) : s = Sign(v.ticks < 0, Flagged("+"), Flagged(" "))
  BY SignText
<1>4. FormatFloatValue(v) =
        IF Zeroed /\ IsNormal(v) THEN ZeroPadded(s, a)
        ELSE IF Zeroed THEN Fill(b, " ") \o b ELSE SpacePadded(b)
  BY <1>1, <1>2, <1>3 DEF FormatFloatValue
<1>5. ZeroPadded(s, a) \in Seq(Char)
  BY ZeroPaddedText
<1>6. Fill(b, " ") \o b \in Seq(Char)
  BY FillText, PadChars, Joined
<1>7. SpacePadded(b) \in Seq(Char)
  BY PaddedText
<1> QED
  BY <1>4, <1>5, <1>6, <1>7

(* The larger of a number and zero.                                        *)
LEMMA MaxWithZero ==
  ASSUME NEW n \in Int
  PROVE  Max({0, n}) = IF n <= 0 THEN 0 ELSE n
BY DEF Max

(* Padding by a negative number of characters is none.                     *)
LEMMA Pads ==
  /\ \A n \in Nat : Upto(n, " ") \in Seq(Char) /\ Upto(n, "0") \in Seq(Char)
  /\ \A n \in Int : Upto(n, " ") \in Seq(Char) /\ Upto(n, "0") \in Seq(Char)
  /\ \A n \in Int : n <= 0 => Upto(n, " ") = Upto(0, " ") /\ Upto(n, "0") = Upto(0, "0")
  /\ Upto(0, " ") = <<>> /\ Upto(0, "0") = <<>>
<1>1. " " \in Char /\ "0" \in Char
  BY PadChars
<1>2. ASSUME NEW n \in Int, NEW c \in Char
      PROVE  Upto(n, c) \in Seq(Char) /\ (n <= 0 => Upto(n, c) = <<>> /\ Upto(0, c) = <<>>)
  BY UptoText
<1>3. 0 \in Int /\ 0 <= 0 /\ \A n \in Nat : n \in Int
  OBVIOUS
<1>4. Upto(0, " ") = <<>> /\ Upto(0, "0") = <<>>
  BY <1>1, <1>2, <1>3
<1>5. \A n \in Int : Upto(n, " ") \in Seq(Char) /\ Upto(n, "0") \in Seq(Char)
  BY <1>1, <1>2
<1>6. \A n \in Int : n <= 0 => Upto(n, " ") = Upto(0, " ") /\ Upto(n, "0") = Upto(0, "0")
  BY <1>1, <1>2
<1> QED
  BY <1>3, <1>4, <1>5, <1>6

(* A layout has five parts, of which some are empty.                       *)
LEMMA FiveParts ==
  ASSUME NEW e, e = <<>>, NEW p \in Seq(Char), NEW b \in Seq(Char), NEW s \in Seq(Char)
  PROVE  /\ e \o p \o e \o b \o s = (p \o b) \o s
         /\ s \o p \o e \o b \o e = s \o (p \o b)
         /\ e \o p \o s \o b \o e = p \o s \o b
<1>1. e \o p = p /\ p \o e = p /\ s \o e = s
  BY ConcatEmptySeq
<1>2. s \o p \in Seq(Char) /\ p \o b \in Seq(Char) /\ p \o s \in Seq(Char)
  BY Joined
<1>3. s \o p \o b = s \o (p \o b)
  BY ConcatAssociative
<1>4. s \o p \o e = s \o p
  BY <1>2, ConcatEmptySeq
<1>5. s \o p \o b \in Seq(Char) /\ p \o s \o b \in Seq(Char)
  BY <1>2, Joined
<1>6. s \o p \o b \o e = s \o p \o b /\ p \o s \o b \o e = p \o s \o b
  BY <1>5, ConcatEmptySeq
<1> QED
  BY <1>1, <1>3, <1>4, <1>6

(* The parts of a layout with its padding in front.                        *)
LEMMA RightParts ==
  ASSUME NEW e, e = <<>>, NEW p \in Seq(Char), NEW b \in Seq(Char), NEW s \in Seq(Char)
  PROVE  s \o p \o e \o b \o e = s \o (p \o b)
BY FiveParts

(* A field with the minus flag is laid out at the left.                    *)
LEMMA LaidLeft ==
  ASSUME NEW p \in Seq(Char), NEW b \in Seq(Char), spec.width \in Nat, NEW zeroable \in BOOLEAN,
         "-" \in spec.flags
  PROVE  Laid(SpacePadded(p \o b), spec, p, b, zeroable)
<1>1. PICK n \in Int : n = spec.width - Len(p) - Len(b)
  OBVIOUS
<1>2. PICK pad \in Nat : pad = Max({0, n}) /\ pad = IF n <= 0 THEN 0 ELSE n
  BY MaxWithZero
<1>3. Len(p \o b) = Len(p) + Len(b) /\ p \o b \in Seq(Char)
  BY ConcatProperties
<1>4. spec.width - Len(p \o b) = n
  BY <1>1, <1>3
<1>5. PICK s \in Seq(Char) : s = Upto(pad, " ")
  BY Pads
<1>6. SpacePadded(p \o b) = (p \o b) \o s
  <2>1. Upto(n, " ") = Upto(pad, " ")
    BY <1>2, Pads
  <2> QED
    BY <2>1, <1>4, <1>5 DEF SpacePadded, Fill, Flagged
<1>7. PICK e : e = <<>>
  OBVIOUS
<1>8. Upto(0, " ") = e /\ Upto(0, "0") = e
  BY <1>7, Pads
<1>9. e \o p \o e \o b \o s = (p \o b) \o s
  BY <1>7, FiveParts
<1>10. pad - 0 - pad = 0 /\ (pad = 0 => pad - pad - pad = 0)
  BY <1>2
<1>11. PICK zeros : zeros = IF zeroable /\ "0" \in spec.flags /\ pad = 0 THEN pad ELSE 0
  OBVIOUS
<1>12. zeros = 0 /\ pad - zeros - pad = 0
  BY <1>10, <1>11
<1>13. SpacePadded(p \o b) = Upto(pad - zeros - pad, " ") \o p \o Upto(zeros, "0") \o b \o Upto(pad, " ")
  BY <1>5, <1>6, <1>8, <1>9, <1>12
<1> QED
  BY <1>1, <1>2, <1>11, <1>13 DEF Laid

(* A field without it, and without zeros, is laid out at the right.        *)
LEMMA LaidRight ==
  ASSUME NEW p \in Seq(Char), NEW b \in Seq(Char), spec.width \in Nat, NEW zeroable \in BOOLEAN,
         "-" \notin spec.flags, ~zeroable \/ "0" \notin spec.flags \/ spec.width = 0
  PROVE  Laid(SpacePadded(p \o b), spec, p, b, zeroable)
<1>1. PICK n \in Int : n = spec.width - Len(p) - Len(b)
  OBVIOUS
<1>2. PICK pad \in Nat : pad = Max({0, n}) /\ pad = IF n <= 0 THEN 0 ELSE n
  BY MaxWithZero
<1>3. Len(p \o b) = Len(p) + Len(b) /\ p \o b \in Seq(Char) /\ Len(p) \in Nat /\ Len(b) \in Nat
  BY ConcatProperties, LenProperties
<1>4. spec.width - Len(p \o b) = n
  BY <1>1, <1>3
<1>5. PICK s \in Seq(Char) : s = Upto(pad, " ")
  BY Pads
<1>6. SpacePadded(p \o b) = s \o (p \o b)
  <2>1. Upto(n, " ") = Upto(pad, " ")
    BY <1>2, Pads
  <2> QED
    BY <2>1, <1>4, <1>5 DEF SpacePadded, Fill, Flagged
<1>7. PICK e : e = <<>>
  OBVIOUS
<1>8. Upto(0, " ") = e /\ Upto(0, "0") = e
  BY <1>7, Pads
<1>9. s \o p \o e \o b \o e = s \o (p \o b)
  BY <1>7, RightParts
<1>11. PICK zeros : zeros = IF zeroable /\ "0" \in spec.flags /\ 0 = 0 THEN pad ELSE 0
  OBVIOUS
<1>12. zeros = 0 /\ pad - zeros - 0 = pad
  <2>1. spec.width = 0 => pad = 0
    BY <1>1, <1>2, <1>3
  <2> QED
    BY <2>1, <1>2, <1>11
<1>13. SpacePadded(p \o b) = Upto(pad - zeros - 0, " ") \o p \o Upto(zeros, "0") \o b \o Upto(0, " ")
  BY <1>5, <1>6, <1>8, <1>9, <1>12
<1> QED
  BY <1>1, <1>2, <1>11, <1>13 DEF Laid

(* A number's field is laid out by its flags.                              *)
LEMMA NumericLaid ==
  ASSUME NEW p \in Seq(Char), NEW b \in Seq(Char), spec.width \in Nat
  PROVE  Laid(Numeric(p, b), spec, p, b, TRUE)
<1>1. CASE ~Zeroed
  <2>1. Numeric(p, b) = SpacePadded(p \o b)
    BY <1>1 DEF Numeric
  <2>2. "-" \in spec.flags \/ "0" \notin spec.flags \/ spec.width = 0
    BY <1>1 DEF Zeroed
  <2> QED
    BY <2>1, <2>2, LaidLeft, LaidRight
<1>2. CASE Zeroed
  <2>1. PICK n \in Int : n = spec.width - Len(p) - Len(b)
    OBVIOUS
  <2>2. PICK pad \in Nat : pad = Max({0, n}) /\ pad = IF n <= 0 THEN 0 ELSE n
    BY MaxWithZero
  <2>3. Len(p \o b) = Len(p) + Len(b)
    BY ConcatProperties
  <2>4. spec.width - Len(p \o b) = n
    BY <2>1, <2>3
  <2>5. PICK s \in Seq(Char) : s = Upto(pad, "0")
    BY Pads
  <2>6. Numeric(p, b) = p \o s \o b
    <3>1. Upto(n, "0") = Upto(pad, "0")
      BY <2>2, Pads
    <3> QED
      BY <3>1, <2>4, <2>5, <1>2 DEF Numeric, ZeroPadded, Fill
  <2>7. PICK e : e = <<>>
    OBVIOUS
  <2>8. Upto(0, " ") = e
    BY <2>7, Pads
  <2>9. e \o p \o s \o b \o e = p \o s \o b
    BY <2>7, FiveParts
  <2>10. "0" \in spec.flags /\ "-" \notin spec.flags
    BY <1>2 DEF Zeroed
  <2>11. PICK zeros : zeros = IF TRUE /\ "0" \in spec.flags /\ 0 = 0 THEN pad ELSE 0
    OBVIOUS
  <2>12. zeros = pad /\ pad - zeros - 0 = 0
    BY <2>2, <2>10, <2>11
  <2>13. Numeric(p, b) = Upto(pad - zeros - 0, " ") \o p \o Upto(zeros, "0") \o b \o Upto(0, " ")
    BY <2>5, <2>6, <2>8, <2>9, <2>12
  <2> QED
    BY <2>1, <2>2, <2>10, <2>11, <2>13 DEF Laid
<1> QED
  BY <1>1, <1>2

(* So is a field that is padded with spaces only.                          *)
LEMMA PaddedLaid ==
  ASSUME NEW b \in Seq(Char), spec.width \in Nat
  PROVE  Laid(SpacePadded(b), spec, <<>>, b, FALSE)
<1>1. PICK e \in Seq(Char) : e = <<>>
  BY EmptyText
<1>2. e \o b = b
  BY <1>1, ConcatEmptySeq
<1>3. Laid(SpacePadded(e \o b), spec, e, b, FALSE)
  BY LaidLeft, LaidRight
<1> QED
  BY <1>1, <1>2, <1>3
-----------------------------------------------------------------------------
(* The body can be found in the layout.                                    *)
HasPart(text, b) == \E i \in DOMAIN text : \E j \in i..Len(text) : SubSeq(text, i, j) = b

(* What is in the middle of a text is a part of it.                        *)
LEMMA MiddlePart ==
  ASSUME NEW a \in Seq(Char), NEW b \in Seq(Char), NEW c \in Seq(Char), b # <<>>
  PROVE  HasPart(a \o b \o c, b)
<1>1. PICK ab \in Seq(Char) : ab = a \o b
  BY Joined
<1>2. PICK t \in Seq(Char) : t = ab \o c
  BY Joined
<1>3. Len(a) \in Nat /\ Len(b) \in Nat /\ Len(c) \in Nat /\ Len(b) > 0
  OBVIOUS
<1>4. /\ Len(ab) = Len(a) + Len(b)
      /\ \A i \in 1..(Len(a) + Len(b)) : ab[i] = IF i <= Len(a) THEN a[i] ELSE b[i - Len(a)]
  BY <1>1, ConcatProperties
<1>5. /\ Len(t) = Len(ab) + Len(c)
      /\ \A i \in 1..(Len(ab) + Len(c)) : t[i] = IF i <= Len(ab) THEN ab[i] ELSE c[i - Len(ab)]
  BY <1>2, ConcatProperties
<1>6. PICK from \in Nat : from = Len(a) + 1
  BY <1>3
<1>7. PICK to \in Nat : to = Len(a) + Len(b)
  BY <1>3
<1>8. from \in DOMAIN t /\ to \in from..Len(t) /\ to \in 1..Len(t) /\ DOMAIN t = 1..Len(t)
  BY <1>3, <1>4, <1>5, <1>6, <1>7
<1>9. PICK s : s = SubSeq(t, from, to)
  OBVIOUS
<1>10. s \in Seq(Char) /\ Len(s) = Len(b) /\ \A i \in 1..Len(b) : s[i] = t[from + i - 1]
  BY <1>3, <1>6, <1>7, <1>8, <1>9
<1>11. ASSUME NEW i \in 1..Len(b) PROVE s[i] = b[i]
  <2>1. PICK k : k = Len(a) + i
    OBVIOUS
  <2>2. /\ from + i - 1 = k /\ k \in 1..(Len(ab) + Len(c)) /\ k <= Len(ab)
        /\ k \in 1..(Len(a) + Len(b)) /\ ~(k <= Len(a)) /\ k - Len(a) = i
    BY <2>1, <1>3, <1>4, <1>6
  <2> QED
    BY <2>2, <1>4, <1>5, <1>10
<1>12. s = b
  BY <1>10, <1>11, SeqEqual
<1> QED
  BY <1>1, <1>2, <1>8, <1>9, <1>12 DEF HasPart

(* A body is a part of its layout.                                         *)
LEMMA LaidFacts ==
  ASSUME NEW text, NEW m, NEW p \in Seq(Char), NEW b \in Seq(Char), NEW zeroable \in BOOLEAN,
         m.width \in Nat, Laid(text, m, p, b, zeroable)
  PROVE  /\ text \in Seq(Char)
         /\ b # <<>> => HasPart(text, b)
<1>1. PICK n \in Int : n = m.width - Len(p) - Len(b)
  OBVIOUS
<1>2. PICK pad \in Nat : pad = Max({0, n})
  BY MaxWithZero
<1>3. PICK tail \in Nat : tail = IF "-" \in m.flags THEN pad ELSE 0
  BY <1>2
<1>4. PICK zeros \in Nat : zeros = IF zeroable /\ "0" \in m.flags /\ tail = 0 THEN pad ELSE 0
  BY <1>2
<1>5. text = Upto(pad - zeros - tail, " ") \o p \o Upto(zeros, "0") \o b \o Upto(tail, " ")
  BY <1>1, <1>2, <1>3, <1>4 DEF Laid
<1>6. PICK lead \in Int : lead = pad - zeros - tail
  OBVIOUS
<1>7. PICK u \in Seq(Char) : u = Upto(lead, " ")
  BY Pads
<1>8. PICK z \in Seq(Char) : z = Upto(zeros, "0")
  BY Pads
<1>9. PICK t \in Seq(Char) : t = Upto(tail, " ")
  BY Pads
<1>10. PICK up \in Seq(Char) : up = u \o p
  BY Joined
<1>11. PICK a \in Seq(Char) : a = up \o z
  BY Joined
<1>12. text = a \o b \o t
  BY <1>5, <1>6, <1>7, <1>8, <1>9, <1>10, <1>11
<1>13. a \o b \in Seq(Char)
  BY Joined
<1>14. a \o b \o t \in Seq(Char)
  BY <1>13, Joined
<1> QED
  BY <1>12, <1>14, MiddlePart

(* The digits of a base, as a range.                                       *)
LEMMA AlphabetRange ==
  /\ Range(SubSeq(LowerDigits, 1, 10)) = DigitsOf(LowerDigits, 10)
  /\ Range(SubSeq(LowerDigits, 1, 16)) = DigitsOf(LowerDigits, 16)
  /\ Range(SubSeq(UpperDigits, 1, 16)) = DigitsOf(UpperDigits, 16)
<1>1. /\ LowerDigits \in Seq(Char) /\ Len(LowerDigits) = 16
      /\ UpperDigits \in Seq(Char) /\ Len(UpperDigits) = 16
  <2>1. /\ Len(LowerDigits) = 16 /\ DOMAIN LowerDigits = 1..16
        /\ Len(UpperDigits) = 16 /\ DOMAIN UpperDigits = 1..16
    BY DEF LowerDigits, UpperDigits
  <2>2. \A i \in 1..16 : LowerDigits[i] \in Char /\ UpperDigits[i] \in Char
    BY <2>1, NumbersAssumption DEF Range
  <2>3. LowerDigits \in Seq(Range(LowerDigits)) /\ UpperDigits \in Seq(Range(UpperDigits))
    <3> DEFINE All == {"0", "1", "2", "3", "4", "5", "6", "7", "8", "9", "a", "b", "c", "d", "e", "f",
                       "A", "B", "C", "D", "E", "F"}
    <3>1. LowerDigits \in Seq(All) /\ UpperDigits \in Seq(All)
      BY DEF LowerDigits, UpperDigits
    <3> HIDE DEF All
    <3>2. \A i \in 1..16 : LowerDigits[i] \in Range(LowerDigits) /\ UpperDigits[i] \in Range(UpperDigits)
      BY <2>1 DEF Range
    <3>3. LowerDigits = [i \in 1..16 |-> LowerDigits[i]] /\ UpperDigits = [i \in 1..16 |-> UpperDigits[i]]
      BY <2>1, <3>1
    <3> QED
      BY <3>2, <3>3, IsASeq
  <2>4. Range(LowerDigits) \subseteq Char /\ Range(UpperDigits) \subseteq Char
    BY NumbersAssumption
  <2> QED
    BY <2>1, <2>3, <2>4, SeqMonotonic
<1>2. ASSUME NEW digits \in Seq(Char), Len(digits) = 16, NEW base \in 1..16
      PROVE  Range(SubSeq(digits, 1, base)) = DigitsOf(digits, base)
  <2>1. PICK s : s = SubSeq(digits, 1, base)
    OBVIOUS
  <2>2. s \in Seq(Char) /\ Len(s) = base /\ \A i \in 1..base : s[i] = digits[i]
    <3>1. \A i \in 1..base : digits[i] \in Char /\ 1 + i - 1 = i
      <4> SUFFICES ASSUME NEW i \in 1..base PROVE digits[i] \in Char /\ 1 + i - 1 = i
        OBVIOUS
      <4>1. i \in 1..Len(digits)
        BY <1>2
      <4> QED
        BY <4>1, ElementOfSeq
    <3>2. 1 \in Int /\ base \in Int /\ base - 1 + 1 = base /\ 1 <= base
      OBVIOUS
    <3>3. /\ SubSeq(digits, 1, base) \in Seq(Char)
          /\ Len(SubSeq(digits, 1, base)) = IF 1 <= base THEN base - 1 + 1 ELSE 0
          /\ \A i \in 1..(base - 1 + 1) : SubSeq(digits, 1, base)[i] = digits[1 + i - 1]
      BY <3>1, <3>2, SubSeqProperties
    <3> QED
      BY <3>1, <3>2, <3>3, <2>1
  <2>3. DOMAIN s = 1..base
    BY <2>2
  <2>4. \A d \in 0..(base - 1) : d + 1 \in 1..base
    OBVIOUS
  <2>5. \A i \in 1..base : i - 1 \in 0..(base - 1) /\ (i - 1) + 1 = i
    OBVIOUS
  <2>6. Range(s) \subseteq DigitsOf(digits, base)
    <3> SUFFICES ASSUME NEW i \in 1..base PROVE s[i] \in DigitsOf(digits, base)
      BY <2>3 DEF Range
    <3>1. s[i] = digits[(i - 1) + 1]
      BY <2>2, <2>5
    <3> QED
      BY <3>1, <2>5 DEF DigitsOf
  <2>7. DigitsOf(digits, base) \subseteq Range(s)
    <3> SUFFICES ASSUME NEW d \in 0..(base - 1) PROVE digits[d + 1] \in Range(s)
      BY DEF DigitsOf
    <3>1. digits[d + 1] = s[d + 1] /\ d + 1 \in DOMAIN s
      BY <2>2, <2>3, <2>4
    <3> QED
      BY <3>1 DEF Range
  <2> QED
    BY <2>1, <2>6, <2>7
<1> QED
  BY <1>1, <1>2

(* Written gives the shortest numeral of a value.                          *)
LEMMA WrittenIsNumeral ==
  ASSUME NEW base, NEW digits, Alphabet(digits, base), Range(SubSeq(digits, 1, base)) = DigitsOf(digits, base),
         NEW v \in Nat
  PROVE  /\ IsNumeral(Written(v, base, digits), digits, base, v)
         /\ Written(v, base, digits) \in Seq(Char) /\ Written(v, base, digits) # <<>>
<1>1. PICK w : w = Written(v, base, digits)
  OBVIOUS
<1>2. /\ w \in Seq(DigitsOf(digits, base)) /\ w \in Seq(Char) /\ w # <<>>
      /\ Valued(w, digits, base) = v
      /\ v > 0 => w[1] # "0"
      /\ Len(w) > 1 => v > 0
  BY <1>1, WrittenFacts
<1>3. Range(w) \subseteq DigitsOf(digits, base)
  BY <1>2, ElementOfSeq DEF Range
<1> QED
  BY <1>1, <1>2, <1>3 DEF IsNumeral, Denotes

(* The type that a length modifier gives an integer.                       *)
TypeOf(m) == IF m = <<"h", "h">> THEN "char" ELSE IF m = <<"h">> THEN "short" ELSE IntType(m)

(* The types of the length modifiers are integer types.                    *)
LEMMA ModTypes ==
  ASSUME NEW m \in LengthMods
  PROVE  /\ TypeOf(m) \in IntTypes /\ (TypeOf(m) = "size" <=> m = <<"z">>)
         /\ IntType(m) # "none" /\ "size" \in IntTypes
<1>1. /\ m = <<>> => TypeOf(m) = "int" /\ IntType(m) = "int" /\ m # <<"z">>
      /\ m = <<"h">> => TypeOf(m) = "short" /\ IntType(m) = "int" /\ m # <<"z">>
      /\ m = <<"h", "h">> => TypeOf(m) = "char" /\ IntType(m) = "int" /\ m # <<"z">>
      /\ m = <<"l">> => TypeOf(m) = "long" /\ IntType(m) = "long" /\ m # <<"z">>
      /\ m = <<"l", "l">> => TypeOf(m) = "llong" /\ IntType(m) = "llong" /\ m # <<"z">>
      /\ m = <<"j">> => TypeOf(m) = "intmax" /\ IntType(m) = "intmax" /\ m # <<"z">>
      /\ m = <<"z">> => TypeOf(m) = "size" /\ IntType(m) = "size"
      /\ m = <<"t">> => TypeOf(m) = "ptrdiff" /\ IntType(m) = "ptrdiff" /\ m # <<"z">>
      /\ m = <<"L">> => TypeOf(m) = "int" /\ IntType(m) = "int" /\ m # <<"z">>
  BY DEF TypeOf, IntType
<1> QED
  BY <1>1 DEF LengthMods, IntTypes

(* An integer conversion reads one argument, an integer.                   *)
LEMMA IntReads ==
  ASSUME NEW x, Proper(x), x.letter \in {"d", "i", "u", "x", "X"}
  PROVE  Reads(x) = 1 /\ x.arg \in Int /\ (x.mod = <<"z">> => x.arg \in 0..(Power(2, Bits.size) - 1))
<1>1. ProperArg(x) /\ x.mod \in LengthMods
  BY DEF Proper
<1>2. ArgType(x.letter, x.mod) = IntType(x.mod)
  BY DEF ArgType
<1>3. Reads(x) = 1
  BY <1>1, <1>2, ModTypes DEF Reads
<1> QED
  BY <1>1, <1>3 DEF ProperArg

(* What the value is cast to.                                              *)
LEMMA ArgBitsOf ==
  ASSUME NEW x
  PROVE  ArgBits(x) = Bits[TypeOf(x.mod)]
BY DEF ArgBits, TypeOf

(* ReadSignedArg reads the conversion's argument at the width of its       *)
(* modifier.                                                               *)
LEMMA SignedRead ==
  ASSUME StaticInv, ParseInv, fpc = "dispatch", Begun.letter \in {"d", "i", "u", "x", "X"}
  PROVE  \E y \in Int : /\ SignedArg = Signed(y, call.policy.int)
                        /\ y = IF Begun.mod = <<"z">> THEN Begun.arg ELSE Signed(Begun.arg, ArgBits(Begun))
<1>1. PICK x : x = Begun
  OBVIOUS
<1>2. /\ Proper(x) /\ spec = Meant(x) /\ call.policy \in Policies
      /\ Reads(x) = 1 => args[next] = [type |-> ArgType(x.letter, x.mod), val |-> x.arg]
  BY <1>1, AtDispatch
<1>3. Reads(x) = 1 /\ x.arg \in Int /\ (x.mod = <<"z">> => x.arg \in 0..(Power(2, Bits.size) - 1))
  BY <1>1, <1>2, IntReads
<1>4. args[next].val = x.arg
  BY <1>2, <1>3
<1>5. PICK t : t = TypeOf(x.mod)
  OBVIOUS
<1>6. x.mod \in LengthMods /\ spec.mod = x.mod
  BY <1>2 DEF Proper, Meant
<1>7. t \in IntTypes /\ (t = "size" <=> x.mod = <<"z">>) /\ "size" \in IntTypes
  BY <1>5, <1>6, ModTypes
<1>8. Narrowed(IntType(spec.mod)) = t
  BY <1>5, <1>6 DEF Narrowed, TypeOf
<1>9. SignedArg = Signed(IF t = "size" THEN Unsigned(x.arg, Bits.size) ELSE Signed(x.arg, Bits[t]), call.policy.int)
  BY <1>4, <1>8 DEF SignedArg
<1>10. \A b \in IntTypes : Bits[b] \in Nat \ {0}
  BY <1>2, PolicyFacts
<1>11. ArgBits(x) = Bits[t]
  BY <1>5, ArgBitsOf
<1>12. ASSUME x.mod = <<"z">> PROVE Unsigned(x.arg, Bits.size) = x.arg
  <2>1. Bits.size = Bits["size"]
    OBVIOUS
  <2>2. Power(2, Bits.size) \in Nat \ {0}
    BY <2>1, <1>7, <1>10, Powers
  <2>3. PICK full \in Nat \ {0} : full = Power(2, Bits.size)
    BY <2>2
  <2>4. PICK a : a = x.arg
    OBVIOUS
  <2>5. a \in Int /\ a \in 0..(full - 1) /\ a = 0 * full + a
    BY <2>3, <2>4, <1>3, <1>12
  <2>6. a % full = a
    BY <2>5, DivisionIs
  <2> QED
    BY <2>3, <2>4, <2>6 DEF Unsigned
<1>13. PICK y : y = IF x.mod = <<"z">> THEN x.arg ELSE Signed(x.arg, Bits[t])
  OBVIOUS
<1>14. y \in Int
  <2>1. Bits[t] \in Nat \ {0}
    BY <1>7, <1>10
  <2>2. Signed(x.arg, Bits[t]) \in Int
    <3>1. PICK b \in Nat \ {0} : b = Bits[t]
      BY <2>1
    <3>2. Power(2, b) \in Nat /\ Power(2, b - 1) \in Nat
      BY Powers
    <3>3. Signed(x.arg, b) \in (-Power(2, b - 1))..(Power(2, b - 1) - 1)
      BY <1>3, WrappedRanges
    <3> QED
      BY <3>1, <3>2, <3>3
  <2> QED
    BY <2>2, <1>3, <1>13
<1>15. SignedArg = Signed(y, call.policy.int)
  BY <1>7, <1>9, <1>12, <1>13
<1> QED
  BY <1>1, <1>11, <1>13, <1>14, <1>15

(* The code's sign is the specified one.                                   *)
LEMMA SignEqual ==
  ASSUME NEW negative
  PROVE  Sign(negative, Flagged("+"), Flagged(" ")) = SignOf(negative, spec)
BY Zenon DEF Sign, SignOf, If, Flagged

(* The field of d and i is as specified.                                   *)
LEMMA SignedField ==
  ASSUME StaticInv, ParseInv, fpc = "dispatch", Begun.letter \in {"d", "i"}
  PROVE  FormatSignedInt(SignedArg) \in Seq(Char) /\ SignedAsSpecified(Begun, Meant(Begun), FormatSignedInt(SignedArg))
<1>1. PICK y \in Int : /\ SignedArg = Signed(y, call.policy.int)
                       /\ y = IF Begun.mod = <<"z">> THEN Begun.arg ELSE Signed(Begun.arg, ArgBits(Begun))
  BY SignedRead
<1>2. PICK p \in Policies : p = call.policy
  BY AtDispatch
<1>3. spec = Meant(Begun) /\ spec.width \in Nat
  <2>1. spec = Meant(Begun) /\ Proper(Begun) /\ call \in Calls
    BY AtDispatch
  <2>2. Meant(Begun).width \in 0..(SizeModulus - 1)
    BY <2>1, MeantTyped
  <2> QED
    BY <2>1, <2>2, CallsAssumption
<1>4. PICK v : v = Signed(y, p.int)
  OBVIOUS
<1>5. AbsAsU64(v, p) = Magnitude(v) /\ Magnitude(v) \in Nat
  BY <1>4, AbsIsMagnitude
<1>6. PICK n \in Nat : n = Magnitude(v)
  BY <1>5
<1>7. PICK b : b = WriteUnsigned(n)
  OBVIOUS
<1>8. IsNumeral(b, LowerDigits, 10, n) /\ b \in Seq(Char) /\ b # <<>>
  BY <1>7, WrittenIsNumeral, Alphabets, AlphabetRange DEF WriteUnsigned
<1>9. PICK s : s = SignOf(v < 0, spec)
  OBVIOUS
<1>10. s = Sign(v < 0, Flagged("+"), Flagged(" ")) /\ s \in Seq(Char)
  <2>1. PICK negative : negative = (v < 0)
    OBVIOUS
  <2> QED
    BY <2>1, <1>9, SignEqual, SignText
<1>11. PICK text : text = Numeric(s, b)
  OBVIOUS
<1>12. FormatSignedInt(v) = text
  BY <1>2, <1>5, <1>6, <1>7, <1>10, <1>11, Zenon DEF FormatSignedInt, Numeric, WriteInt
<1>13. Laid(text, spec, s, b, TRUE)
  BY <1>3, <1>8, <1>10, <1>11, NumericLaid
<1>14. text \in Seq(Char) /\ HasPart(text, b)
  BY <1>3, <1>8, <1>10, <1>13, LaidFacts
<1>15. PICK i \in DOMAIN text : \E j \in i..Len(text) : SubSeq(text, i, j) = b
  BY <1>14 DEF HasPart
<1>16. SignedAsSpecified(Begun, spec, text)
  <2>1. v = Signed(IF Begun.mod = <<"z">> THEN Begun.arg ELSE Signed(Begun.arg, ArgBits(Begun)), call.policy.int)
    BY <1>1, <1>2, <1>4
  <2>2. SignedAsSpecified(Begun, spec, text) <=>
          \E k \in DOMAIN text : \E j \in k..Len(text) :
             /\ IsNumeral(SubSeq(text, k, j), LowerDigits, 10, Magnitude(v))
             /\ Laid(text, spec, SignOf(v < 0, spec), SubSeq(text, k, j), TRUE)
    BY <2>1, Zenon DEF SignedAsSpecified, SomePart
  <2> QED
    BY <2>2, <1>6, <1>8, <1>9, <1>13, <1>15, Zenon
<1> QED
  BY <1>1, <1>2, <1>3, <1>4, <1>12, <1>14, <1>16

(* ReadUnsignedArg reads the conversion's argument at the width of its     *)
(* modifier.                                                               *)
LEMMA UnsignedRead ==
  ASSUME StaticInv, ParseInv, fpc = "dispatch", Begun.letter \in {"d", "i", "u", "x", "X"}
  PROVE  /\ UnsignedArg \in Nat
         /\ UnsignedArg = Unsigned(IF Begun.mod = <<"t">> THEN Begun.arg ELSE Unsigned(Begun.arg, ArgBits(Begun)),
                                   call.policy.uint)
<1>1. PICK x : x = Begun
  OBVIOUS
<1>2. /\ Proper(x) /\ spec = Meant(x) /\ call.policy \in Policies
      /\ Reads(x) = 1 => args[next] = [type |-> ArgType(x.letter, x.mod), val |-> x.arg]
  BY <1>1, AtDispatch
<1>3. Reads(x) = 1 /\ x.arg \in Int
  BY <1>1, <1>2, IntReads
<1>4. args[next].val = x.arg
  BY <1>2, <1>3
<1>5. PICK t : t = TypeOf(x.mod)
  OBVIOUS
<1>6. x.mod \in LengthMods /\ spec.mod = x.mod
  BY <1>2 DEF Proper, Meant
<1>7. t \in IntTypes
  BY <1>5, <1>6, ModTypes
<1>8. Narrowed(IntType(spec.mod)) = t /\ ArgBits(x) = Bits[t]
  BY <1>5, <1>6, ArgBitsOf DEF Narrowed, TypeOf
<1>9. PICK b \in Nat \ {0} : b = Bits[t]
  BY <1>2, <1>7, PolicyFacts
<1>10. PICK u \in Nat \ {0} : u = call.policy.uint
  BY <1>2, PolicyFacts
<1>11. PICK y : y = IF x.mod = <<"t">> THEN x.arg ELSE Unsigned(x.arg, b)
  OBVIOUS
<1>12. UnsignedArg = Unsigned(y, u)
  BY <1>4, <1>6, <1>8, <1>9, <1>10, <1>11 DEF UnsignedArg
<1>13. y \in Int
  <2>1. Power(2, b) \in Nat /\ Unsigned(x.arg, b) \in 0..(Power(2, b) - 1)
    <3>1. PICK a \in Int : a = x.arg
      BY <1>3
    <3>2. Unsigned(a, b) \in 0..(Power(2, b) - 1)
      BY WrappedRanges
    <3>3. Power(2, b) \in Nat
      BY Powers
    <3> QED
      BY <3>1, <3>2, <3>3
  <2> QED
    BY <2>1, <1>3, <1>11
<1>14. Unsigned(y, u) \in Nat
  <2>1. Power(2, u) \in Nat /\ Unsigned(y, u) \in 0..(Power(2, u) - 1)
    BY <1>13, WrappedRanges, Powers
  <2> QED
    BY <2>1
<1> QED
  BY <1>1, <1>8, <1>9, <1>10, <1>11, <1>12, <1>14

(* What FormatSpec holds when DispatchSpecifier is called.                 *)
LEMMA WidthHere ==
  ASSUME StaticInv, ParseInv, fpc = "dispatch"
  PROVE  spec = Meant(Begun) /\ spec.width \in Nat /\ spec.precision \in Nat /\ spec.flags \subseteq Flags
<1>1. spec = Meant(Begun) /\ Proper(Begun) /\ call \in Calls
  BY AtDispatch
<1>2. Meant(Begun).width \in 0..(SizeModulus - 1) /\ Meant(Begun).precision \in 0..call.policy.max /\ Meant(Begun).flags \subseteq Flags
  BY <1>1, MeantTyped
<1>3. call.policy.max \in Nat
  BY <1>1, CallFacts, PolicyFacts
<1> QED
  BY <1>1, <1>2, <1>3, CallsAssumption

(* A prefix and a numeral in their layout, in whatever base.               *)
LEMMA NumeralLaid ==
  ASSUME spec.width \in Nat, NEW s \in Seq(Char), NEW base, NEW digits, Alphabet(digits, base),
         Range(SubSeq(digits, 1, base)) = DigitsOf(digits, base), NEW v \in Nat
  PROVE  LET b == Written(v, base, digits)  text == Numeric(s, b) IN
         /\ text \in Seq(Char)
         /\ \E i \in DOMAIN text : \E j \in i..Len(text) :
              IsNumeral(SubSeq(text, i, j), digits, base, v) /\ Laid(text, spec, s, SubSeq(text, i, j), TRUE)
<1>1. PICK b : b = Written(v, base, digits)
  OBVIOUS
<1>2. IsNumeral(b, digits, base, v) /\ b \in Seq(Char) /\ b # <<>>
  BY <1>1, WrittenIsNumeral
<1>3. PICK text : text = Numeric(s, b)
  OBVIOUS
<1>4. Laid(text, spec, s, b, TRUE)
  BY <1>2, <1>3, NumericLaid
<1>5. text \in Seq(Char) /\ HasPart(text, b)
  BY <1>2, <1>4, LaidFacts
<1>6. PICK i \in DOMAIN text : \E j \in i..Len(text) : SubSeq(text, i, j) = b
  BY <1>5 DEF HasPart
<1>7. \E k \in DOMAIN text : \E j \in k..Len(text) :
        IsNumeral(SubSeq(text, k, j), digits, base, v) /\ Laid(text, spec, s, SubSeq(text, k, j), TRUE)
  BY <1>2, <1>4, <1>6, Zenon
<1> QED
  BY <1>1, <1>3, <1>5, <1>7, Zenon

(* The field of u is as specified.                                         *)
LEMMA UnsignedField ==
  ASSUME StaticInv, ParseInv, fpc = "dispatch", Begun.letter = "u"
  PROVE  LET text == Numeric(<<>>, WriteUnsigned(UnsignedArg)) IN
         text \in Seq(Char) /\ UnsignedAsSpecified(Begun, Meant(Begun), text)
<1>1. PICK v \in Nat : v = UnsignedArg
  BY UnsignedRead
<1>2. PICK text : text = Numeric(<<>>, Written(v, 10, LowerDigits))
  OBVIOUS
<1>3. spec = Meant(Begun) /\ spec.width \in Nat
  BY WidthHere
<1>4. /\ text \in Seq(Char)
      /\ \E i \in DOMAIN text : \E j \in i..Len(text) :
           IsNumeral(SubSeq(text, i, j), LowerDigits, 10, v) /\ Laid(text, spec, <<>>, SubSeq(text, i, j), TRUE)
  <2>1. Alphabet(LowerDigits, 10) /\ Range(SubSeq(LowerDigits, 1, 10)) = DigitsOf(LowerDigits, 10) /\ <<>> \in Seq(Char)
    BY Alphabets, AlphabetRange, EmptyText
  <2> QED
    BY <2>1, <1>2, <1>3, NumeralLaid
<1>5. v = Unsigned(IF Begun.mod = <<"t">> THEN Begun.arg ELSE Unsigned(Begun.arg, ArgBits(Begun)), call.policy.uint)
  BY <1>1, UnsignedRead
<1>6. 10 # 16 /\ "u" # "X"
  OBVIOUS
<1>7. UnsignedAsSpecified(Begun, spec, text) <=>
        \E i \in DOMAIN text : \E j \in i..Len(text) :
           IsNumeral(SubSeq(text, i, j), LowerDigits, 10, v) /\ Laid(text, spec, <<>>, SubSeq(text, i, j), TRUE)
  BY <1>5, <1>6, Zenon DEF UnsignedAsSpecified, SomePart
<1> QED
  BY <1>1, <1>2, <1>3, <1>4, <1>7, Zenon DEF WriteUnsigned

(* The field of x and X is as specified.                                   *)
LEMMA HexField ==
  ASSUME StaticInv, ParseInv, fpc = "dispatch", Begun.letter \in {"x", "X"}
  PROVE  LET text == FormatHex(UnsignedArg, fmt[at] = "X") IN
         text \in Seq(Char) /\ UnsignedAsSpecified(Begun, Meant(Begun), text)
<1>0. PICK l : l = Begun.letter
  OBVIOUS
<1>1. PICK v \in Nat : v = UnsignedArg
  BY UnsignedRead
<1>2. fmt[at] = l /\ l \in {"x", "X"}
  BY <1>0, AtDispatch
<1>3. spec = Meant(Begun) /\ spec.width \in Nat
  BY WidthHere
<1>4. PICK digits : digits = IF l = "X" THEN UpperDigits ELSE LowerDigits
  OBVIOUS
<1>5. PICK s : s = IF "#" \in spec.flags /\ v # 0 THEN <<"0", l>> ELSE <<>>
  OBVIOUS
<1>6. s \in Seq(Char)
  <2>1. "0" \in Char /\ l \in Char
    BY <1>2, CodeChars
  <2>2. <<"0", l>> \in Seq(Char)
    BY <2>1
  <2> QED
    BY <2>2, <1>5, EmptyText
<1>7. PICK text : text = Numeric(s, Written(v, 16, digits))
  OBVIOUS
<1>8. /\ text \in Seq(Char)
      /\ \E i \in DOMAIN text : \E j \in i..Len(text) :
           IsNumeral(SubSeq(text, i, j), digits, 16, v) /\ Laid(text, spec, s, SubSeq(text, i, j), TRUE)
  <2>1. Alphabet(digits, 16) /\ Range(SubSeq(digits, 1, 16)) = DigitsOf(digits, 16)
    BY <1>4, Alphabets, AlphabetRange
  <2> QED
    BY <2>1, <1>3, <1>6, <1>7, NumeralLaid
<1>9. v = Unsigned(IF Begun.mod = <<"t">> THEN Begun.arg ELSE Unsigned(Begun.arg, ArgBits(Begun)), call.policy.uint)
  BY <1>1, UnsignedRead
<1>10. FormatHex(v, fmt[at] = "X") = text
  <2>1. (IF l = "X" THEN "X" ELSE "x") = l
    BY <1>2
  <2> QED
    BY <2>1, <1>2, <1>4, <1>5, <1>7, Zenon DEF FormatHex, WriteHex, Flagged
<1>11. l # "u" /\ 16 # 10
  BY <1>2
<1>12. UnsignedAsSpecified(Begun, spec, text) <=>
        \E i \in DOMAIN text : \E j \in i..Len(text) :
           IsNumeral(SubSeq(text, i, j), digits, 16, v) /\ Laid(text, spec, s, SubSeq(text, i, j), TRUE)
  BY <1>0, <1>4, <1>5, <1>9, <1>11, Zenon DEF UnsignedAsSpecified, SomePart
<1> QED
  BY <1>1, <1>3, <1>8, <1>10, <1>12, Zenon
-----------------------------------------------------------------------------
(* What a case of DispatchSpecifier does.                                  *)
Conversion(text) == text \in Seq(Char) /\ Dispatched(text, Reads(Begun)) /\ Specified(text)

PutOne ==
  \/ PutCharacter \/ PutString \/ PutSigned \/ PutUnsigned \/ PutHex \/ PutFloat \/ PutPercent \/ PutUnknown

(* The integer conversions put what is specified.                          *)
LEMMA NumberPut ==
  ASSUME StaticInv, ParseInv, PutSigned \/ PutUnsigned \/ PutHex
  PROVE  fpc = "dispatch" /\ \E text : Conversion(text)
<1>1. fpc = "dispatch"
  BY DEF PutSigned, PutUnsigned, PutHex, Letter
<1>2. fmt[at] = Begun.letter /\ Proper(Begun)
  BY <1>1, AtDispatch
<1>3. CASE PutSigned
  <2>1. Begun.letter \in {"d", "i"} /\ Dispatched(FormatSignedInt(SignedArg), 1)
    BY <1>2, <1>3 DEF PutSigned, Letter
  <2>2. Reads(Begun) = 1
    BY <1>2, <2>1, IntReads
  <2>3. PICK text : text = FormatSignedInt(SignedArg)
    OBVIOUS
  <2>4. text \in Seq(Char) /\ SignedAsSpecified(Begun, Meant(Begun), text)
    BY <1>1, <2>1, <2>3, SignedField
  <2>5. Specified(text)
    BY <2>1, <2>4 DEF Specified
  <2> QED
    BY <1>1, <2>1, <2>2, <2>3, <2>4, <2>5 DEF Conversion
<1>4. CASE PutUnsigned
  <2>1. Begun.letter = "u" /\ Dispatched(Numeric(<<>>, WriteUnsigned(UnsignedArg)), 1)
    BY <1>2, <1>4 DEF PutUnsigned, Letter
  <2>2. Reads(Begun) = 1
    BY <1>2, <2>1, IntReads
  <2>3. PICK text : text = Numeric(<<>>, WriteUnsigned(UnsignedArg))
    OBVIOUS
  <2>4. text \in Seq(Char) /\ UnsignedAsSpecified(Begun, Meant(Begun), text)
    BY <1>1, <2>1, <2>3, UnsignedField
  <2>5. Specified(text)
    BY <2>1, <2>4 DEF Specified
  <2> QED
    BY <1>1, <2>1, <2>2, <2>3, <2>4, <2>5 DEF Conversion
<1>5. CASE PutHex
  <2>1. Begun.letter \in {"x", "X"} /\ Dispatched(FormatHex(UnsignedArg, fmt[at] = "X"), 1)
    BY <1>2, <1>5 DEF PutHex, Letter
  <2>2. Reads(Begun) = 1
    BY <1>2, <2>1, IntReads
  <2>3. PICK text : text = FormatHex(UnsignedArg, fmt[at] = "X")
    OBVIOUS
  <2>4. text \in Seq(Char) /\ UnsignedAsSpecified(Begun, Meant(Begun), text)
    BY <1>1, <2>1, <2>3, HexField
  <2>5. Specified(text)
    BY <2>1, <2>4 DEF Specified
  <2> QED
    BY <1>1, <2>1, <2>2, <2>3, <2>4, <2>5 DEF Conversion
<1> QED
  BY <1>3, <1>4, <1>5

(* So do the others.                                                       *)
LEMMA TextPut ==
  ASSUME StaticInv, ParseInv, PutCharacter \/ PutString \/ PutFloat \/ PutPercent \/ PutUnknown
  PROVE  fpc = "dispatch" /\ \E text : Conversion(text)
<1>1. fpc = "dispatch"
  BY DEF PutCharacter, PutString, PutFloat, PutFloatReading, PutPercent, PutUnknown, Letter
<1>2. PICK x : x = Begun
  OBVIOUS
<1>3. /\ fmt[at] = x.letter /\ Proper(x) /\ ProperArg(x) /\ x.letter \in Char
      /\ Reads(x) = 1 => args[next] = [type |-> ArgType(x.letter, x.mod), val |-> x.arg]
  BY <1>1, <1>2, AtDispatch DEF Proper
<1>4. PICK m : m = Meant(x)
  OBVIOUS
<1>5. m = spec /\ spec.width \in Nat /\ spec.precision \in Nat
  BY <1>1, <1>2, <1>4, WidthHere
<1>6. CASE PutCharacter
  <2>1. x.letter = "c" /\ Dispatched(SpacePadded(<<args[next].val>>), 1)
    BY <1>3, <1>6 DEF PutCharacter, Letter
  <2>2. Reads(x) = 1 /\ x.arg \in Char
    BY <2>1, <1>3 DEF Reads, ArgType, ProperArg
  <2>3. PICK s : s = <<x.arg>>
    OBVIOUS
  <2>4. s \in Seq(Char) /\ <<args[next].val>> = s
    BY <2>2, <2>3, <1>3, OneChar
  <2>5. PICK text \in Seq(Char) : text = SpacePadded(s)
    BY <2>4, <1>5, PaddedText
  <2>6. Laid(text, m, <<>>, s, FALSE)
    BY <2>4, <2>5, <1>5, PaddedLaid
  <2>7. Specified(text)
    BY <2>1, <2>3, <2>6, <1>2, <1>4 DEF Specified
  <2> QED
    BY <1>1, <1>2, <2>1, <2>2, <2>4, <2>5, <2>7 DEF Conversion
<1>7. CASE PutString
  <2>1. x.letter = "s" /\ Dispatched(SpacePadded(WriteString(args[next].val)), 1)
    BY <1>3, <1>7 DEF PutString, Letter
  <2>2. Reads(x) = 1 /\ x.arg \in Seq(Char) \cup {Null}
    BY <2>1, <1>3 DEF Reads, ArgType, ProperArg
  <2>3. PICK s : s = WriteString(x.arg)
    OBVIOUS
  <2>4. s \in Seq(Char) /\ WriteString(args[next].val) = s
    BY <2>2, <2>3, <1>3, StringText
  <2>5. PICK text \in Seq(Char) : text = SpacePadded(s)
    BY <2>4, <1>5, PaddedText
  <2>6. Laid(text, m, <<>>, s, FALSE)
    BY <2>4, <2>5, <1>5, PaddedLaid
  <2>7. Specified(text)
    BY <2>1, <2>3, <2>6, <1>2, <1>4 DEF Specified
  <2> QED
    BY <1>1, <1>2, <2>1, <2>2, <2>4, <2>5, <2>7 DEF Conversion
<1>8. CASE PutFloat
  <2>1. /\ x.letter = "f"
        /\ IF call.policy.decimals THEN Dispatched(FormatFloatValue(FloatArg), 1) ELSE Dispatched(<<>>, 1)
    BY <1>3, <1>8 DEF PutFloat, PutFloatReading, Letter
  <2>2. Reads(x) = 1 /\ x.arg \in Floats
    BY <2>1, <1>3 DEF Reads, ArgType, ProperArg, Floats
  <2>3. PICK p \in Policies : p = call.policy
    BY <1>1, AtDispatch
  <2>4. FloatArg \in Floats
    BY <2>2, <2>3, <1>3, FloatOfFloat DEF FloatArg
  <2>5. FormatFloatValue(FloatArg) \in Seq(Char) /\ <<>> \in Seq(Char)
    BY <2>3, <2>4, <1>5, FloatField, EmptyText
  <2>6. PICK text \in Seq(Char) : /\ text = IF call.policy.decimals THEN FormatFloatValue(FloatArg) ELSE <<>>
    BY <2>5
  <2>7. Dispatched(text, 1)
    BY <2>1, <2>6
  <2>8. Specified(text)
    BY <2>1, <2>6, <1>2 DEF Specified
  <2> QED
    BY <1>1, <1>2, <2>2, <2>7, <2>8 DEF Conversion
<1>9. CASE PutPercent
  <2>1. x.letter = "%" /\ Dispatched(<<"%">>, 0)
    BY <1>3, <1>9 DEF PutPercent, Letter
  <2>2. Reads(x) = 0
    BY <2>1 DEF Reads, ArgType
  <2>3. PICK text \in Seq(Char) : text = <<"%">>
    BY PadChars, OneChar
  <2>4. Specified(text)
    BY <2>1, <2>3, <1>2 DEF Specified
  <2> QED
    BY <1>1, <1>2, <2>1, <2>2, <2>3, <2>4 DEF Conversion
<1>10. CASE PutUnknown
  <2>1. x.letter \notin {"c", "s", "d", "i", "u", "x", "X", "f", "%"} /\ Dispatched(<<"%", x.letter>>, 0)
    BY <1>3, <1>10 DEF PutUnknown
  <2>2. Reads(x) = 0
    BY <2>1 DEF Reads, ArgType
  <2>3. PICK text \in Seq(Char) : text = <<"%", x.letter>>
    <3>1. PICK l \in Char : l = x.letter
      BY <1>3
    <3>2. PICK c \in Char : c = "%"
      BY PadChars
    <3>3. <<c, l>> \in Seq(Char)
      OBVIOUS
    <3> QED
      BY <3>1, <3>2, <3>3
  <2>4. Specified(text)
    BY <2>1, <2>3, <1>2 DEF Specified
  <2> QED
    BY <1>1, <1>2, <2>1, <2>2, <2>3, <2>4 DEF Conversion
<1> QED
  BY <1>6, <1>7, <1>8, <1>9, <1>10
-----------------------------------------------------------------------------
(* The buffer.                                                             *)
LEMMA OutPut ==
  ASSUME OutInv, NEW s \in Seq(Char), PutAll(s), size' = size, fpc' # "done"
  PROVE  OutInv'
<1>1. /\ buf' \in [0..N -> Char] /\ all' \in Seq(Char) /\ pos' = Len(all') % SizeModulus
      /\ buf'[N] = "NUL"
      /\ Len(all') < SizeModulus =>
           /\ pos' = Len(all')
           /\ \A k \in 0..(Min({pos', N}) - 1) : buf'[k] = all'[k + 1]
  BY PutLands
<1>2. TruncatedPrefix'
  BY <1>1 DEF TruncatedPrefix
<1>3. size' \in 0..N
  BY DEF OutInv
<1> QED
  BY <1>1, <1>2, <1>3 DEF OutInv

(* A step that puts nothing keeps the buffer.                              *)
LEMMA OutSame ==
  ASSUME OutInv, buf' = buf, pos' = pos, all' = all, size' = size, fpc' # "done" \/ fpc' = fpc
  PROVE  OutInv'
<1>1. TruncatedPrefix'
  BY DEF OutInv, TruncatedPrefix
<1> QED
  BY <1>1 DEF OutInv

(* The terminator lands right behind the text.                             *)
LEMMA OutFinish ==
  ASSUME OutInv, Finish
  PROVE  OutInv'
<1>1. N \in Nat \ {0} /\ SizeModulus \in Nat \ {0} /\ N < SizeModulus
  BY CallsAssumption
<1>2. /\ buf \in [0..N -> Char] /\ all \in Seq(Char) /\ pos = Len(all) % SizeModulus /\ buf[N] = "NUL"
      /\ Len(all) < SizeModulus => pos = Len(all) /\ \A k \in 0..(Min({pos, N}) - 1) : buf[k] = all[k + 1]
  BY DEF OutInv, TruncatedPrefix
<1>3. pos \in Nat
  BY <1>1, <1>2, LenProperties
<1>4. PICK end : end = IF pos < N THEN pos ELSE N
  OBVIOUS
<1>5. end \in 0..N /\ end = Min({pos, N})
  BY <1>1, <1>3, <1>4, MinOfTwo
<1>6. buf' = [buf EXCEPT ![end] = "NUL"] /\ size' = end /\ pos' = pos /\ all' = all
  BY <1>4 DEF Finish, FinishAt
<1>7. "NUL" \in Char
  BY CodeChars
<1>8. buf' \in [0..N -> Char] /\ buf'[end] = "NUL" /\ buf'[N] = "NUL" /\ \A k \in 0..(end - 1) : buf'[k] = buf[k]
  BY <1>1, <1>2, <1>5, <1>6, <1>7
<1>9. TruncatedPrefix'
  BY <1>2, <1>5, <1>6, <1>8 DEF TruncatedPrefix
<1> QED
  BY <1>2, <1>5, <1>6, <1>8, <1>9 DEF OutInv

(* What the buffer holds before a call is a prefix of itself.              *)
LEMMA OutInit ==
  ASSUME call \in Calls,
         buf = [k \in 0..N |-> IF k < Len(call.held) THEN call.held[k + 1] ELSE "NUL"],
         pos = (IF call.append THEN Len(call.held) ELSE 0),
         size = Len(call.held), all = SubSeq(call.held, 1, pos), fpc = "scan"
  PROVE  OutInv
<1>1. N \in Nat \ {0} /\ SizeModulus \in Nat \ {0} /\ N < SizeModulus
  BY CallsAssumption
<1>2. PICK h \in Seq(Char) : h = call.held /\ Len(h) <= N
  BY CallFacts
<1>3. Len(h) \in Nat /\ pos \in 0..Len(h) /\ size \in 0..N
  BY <1>1, <1>2
<1>4. "NUL" \in Char
  BY CodeChars
<1>5. buf \in [0..N -> Char]
  <2>1. ASSUME NEW k \in 0..N PROVE (IF k < Len(h) THEN h[k + 1] ELSE "NUL") \in Char
    BY <1>2, <1>3, <1>4, ElementOfSeq
  <2> QED
    BY <2>1, <1>2
<1>6. buf[N] = "NUL"
  BY <1>1, <1>2, <1>3
<1>7. all \in Seq(Char) /\ Len(all) = pos /\ \A i \in 1..pos : all[i] = h[i]
  BY <1>2, <1>3
<1>8. pos < SizeModulus /\ pos \in Nat /\ pos <= N
  BY <1>1, <1>2, <1>3
<1>9. pos = Len(all) % SizeModulus
  BY <1>7, <1>8, SmallMod
<1>10. ASSUME NEW k \in 0..(Min({pos, N}) - 1) PROVE buf[k] = all[k + 1]
  <2>1. Min({pos, N}) = pos
    <3>1. PICK q \in Nat : q = pos
      BY <1>8
    <3>2. q \in Int /\ N \in Int /\ q <= N
      BY <3>1, <1>1, <1>8
    <3>3. Min({q, N}) = q
      BY <3>2, MinOfTwo
    <3> QED
      BY <3>1, <3>3
  <2>2. k \in 0..N /\ k < Len(h) /\ k + 1 \in 1..pos
    BY <2>1, <1>1, <1>2, <1>3, <1>8
  <2> QED
    BY <2>2, <1>2, <1>7
<1>11. TruncatedPrefix
  BY <1>6, <1>7, <1>10 DEF TruncatedPrefix
<1> QED
  BY <1>3, <1>5, <1>7, <1>9, <1>11 DEF OutInv
-----------------------------------------------------------------------------
(* What is specified of a field depends on the call and its piece only.    *)
LEMMA SpecifiedStays ==
  ASSUME NEW text, Specified(text), call' = call, begun' = begun
  PROVE  Specified(text)'
<1>1. PICK c : c = Begun
  OBVIOUS
<1>2. PICK m : m = Meant(Begun)
  OBVIOUS
<1>3. PICK p : p = call.policy
  OBVIOUS
<1>4. call'.policy = p
  BY <1>3
<1>5. Begun' = c
  BY <1>1 DEF Begun
<1>6. Meant(Begun)' = m
  BY <1>1, <1>2, <1>5 DEF Meant
<1>7. SignedAsSpecified(c, m, text) => SignedAsSpecified(c, m, text)'
  <2>1. PICK v : v = Signed(IF c.mod = <<"z">> THEN c.arg ELSE Signed(c.arg, ArgBits(c)), call.policy.int)
    OBVIOUS
  <2>2. v = Signed(IF c.mod = <<"z">> THEN c.arg ELSE Signed(c.arg, ArgBits(c)), call'.policy.int)
    BY <2>1
  <2>3. SignedAsSpecified(c, m, text) <=>
          SomePart(text, LAMBDA s : /\ IsNumeral(s, LowerDigits, 10, Magnitude(v))
                                    /\ Laid(text, m, SignOf(v < 0, m), s, TRUE))
    BY <2>1, Zenon DEF SignedAsSpecified, SomePart
  <2>4. SignedAsSpecified(c, m, text)' <=>
          SomePart(text, LAMBDA s : /\ IsNumeral(s, LowerDigits, 10, Magnitude(v))
                                    /\ Laid(text, m, SignOf(v < 0, m), s, TRUE))
    BY <2>2, Zenon DEF SignedAsSpecified, SomePart
  <2> QED
    BY <2>3, <2>4, Zenon DEF SomePart
<1>8. UnsignedAsSpecified(c, m, text) => UnsignedAsSpecified(c, m, text)'
  <2> DEFINE Shown(v) ==
        LET base   == IF c.letter = "u" THEN 10 ELSE 16
            digits == IF c.letter = "X" THEN UpperDigits ELSE LowerDigits
            prefix == IF base = 16 /\ "#" \in m.flags /\ v # 0 THEN <<"0", c.letter>> ELSE <<>>
        IN  \E i \in DOMAIN text : \E j \in i..Len(text) :
              IsNumeral(SubSeq(text, i, j), digits, base, v) /\ Laid(text, m, prefix, SubSeq(text, i, j), TRUE)
  <2>1. PICK v : v = Unsigned(IF c.mod = <<"t">> THEN c.arg ELSE Unsigned(c.arg, ArgBits(c)), call.policy.uint)
    OBVIOUS
  <2>2. v = Unsigned(IF c.mod = <<"t">> THEN c.arg ELSE Unsigned(c.arg, ArgBits(c)), call'.policy.uint)
    BY <2>1
  <2>3. UnsignedAsSpecified(c, m, text) <=> Shown(v)
    BY <2>1, Zenon DEF UnsignedAsSpecified, SomePart
  <2>4. UnsignedAsSpecified(c, m, text)' <=> Shown(v)
    BY <2>2, Zenon DEF UnsignedAsSpecified, SomePart
  <2> HIDE DEF Shown
  <2> QED
    BY <2>3, <2>4
<1>9. CASE c.letter \in {"d", "i"}
  BY <1>1, <1>2, <1>5, <1>6, <1>7, <1>9 DEF Specified
<1>10. CASE c.letter \in {"u", "x", "X"}
  BY <1>1, <1>2, <1>5, <1>6, <1>8, <1>10 DEF Specified
<1>11. CASE c.letter \notin {"d", "i", "u", "x", "X"}
  BY <1>1, <1>2, <1>3, <1>4, <1>5, <1>6, <1>11 DEF Specified
<1> QED
  BY <1>9, <1>10, <1>11

(* A field that is put as specified is as specified.                       *)
LEMMA FieldPut ==
  ASSUME NEW text, Specified(text), call' = call, begun' = begun, field' = <<text>>
  PROVE  FieldAsSpecified'
<1>1. Specified(text)'
  BY SpecifiedStays
<1>2. field'[1] = text /\ field' # <<>>
  OBVIOUS
<1> QED
  BY <1>1, <1>2 DEF FieldAsSpecified, Specified

(* A field that is left alone stays as specified.                          *)
LEMMA FieldKept ==
  ASSUME FieldAsSpecified, call' = call, begun' = begun, field' = field
  PROVE  FieldAsSpecified'
<1>1. CASE field = <<>>
  BY <1>1 DEF FieldAsSpecified
<1>2. CASE field # <<>>
  <2>1. Specified(field[1])
    BY <1>2 DEF FieldAsSpecified, Specified
  <2>2. PICK text : text = field[1]
    OBVIOUS
  <2>3. Specified(text)'
    BY <2>1, <2>2, SpecifiedStays
  <2>4. field'[1] = text /\ field' # <<>>
    BY <1>2, <2>2
  <2> QED
    BY <2>3, <2>4 DEF FieldAsSpecified, Specified
<1> QED
  BY <1>1, <1>2

(* Without a field there is nothing to say.                                *)
LEMMA FieldGone ==
  ASSUME field' = <<>>
  PROVE  FieldAsSpecified'
BY DEF FieldAsSpecified

(* A call begins in the invariant.                                         *)
LEMMA FormatInitial == FormatInit => FormatInv
<1> SUFFICES ASSUME FormatInit PROVE FormatInv
  OBVIOUS
<1>1. /\ call \in Calls /\ fmt = Memory(call) /\ args = PassedBy(call.pieces)
      /\ at = 1 /\ next = 1 /\ spec = NoSpec(call.policy) /\ fpc = "scan"
      /\ buf = [k \in 0..N |-> IF k < Len(call.held) THEN call.held[k + 1] ELSE "NUL"]
      /\ pos = (IF call.append THEN Len(call.held) ELSE 0)
      /\ size = Len(call.held)
      /\ begun = 0 /\ field = <<>> /\ all = SubSeq(call.held, 1, pos)
  BY DEF FormatInit, StartOn, Memory
<1>2. StaticInv
  BY <1>1 DEF StaticInv
<1>3. OutInv
  BY <1>1, OutInit
<1>4. ScanAt(0, 0)
  <2>1. Len(call.pieces) \in Nat /\ Len(Spelled(call, 0)) = 0 /\ Len(Supplied(call, 0)) = 0
    BY <1>1, SpelledFacts, SuppliedFacts
  <2> QED
    BY <2>1, <1>1 DEF ScanAt
<1>5. ScanInv
  BY <1>4 DEF ScanInv
<1>6. SpecInv
  <2>1. SizeModulus \in Nat \ {0}
    BY CallsAssumption
  <2>2. call.policy.default \in 0..call.policy.max
    BY <1>1, CallFacts, PolicyFacts
  <2>3. <<>> \in LengthMods
    BY DEF LengthMods
  <2> QED
    BY <2>1, <2>2, <2>3, <1>1 DEF SpecInv, NoSpec
<1>7. ParseInv /\ DoneInv
  BY <1>1 DEF ParseInv, DoneInv, Parsing
<1>8. FieldAsSpecified
  BY <1>1 DEF FieldAsSpecified
<1> QED
  BY <1>1, <1>2, <1>3, <1>5, <1>6, <1>7, <1>8 DEF FormatInv

(* The Parse* helpers preserve the invariant.                              *)
LEMMA ParseStep ==
  ASSUME FormatInv, ParseFlags \/ ParseWidth \/ ParsePrecision \/ ParseLengthMod
  PROVE  FormatInv'
<1>1. StaticInv /\ ParseInv /\ OutInv /\ FieldAsSpecified
  BY DEF FormatInv
<1>2. /\ ParseInv' /\ StaticInv' /\ fpc' \in {"width", "precision", "length", "dispatch"}
      /\ fpc \in Parsing
  <2>1. ParseFlags => fpc \in Parsing
    BY DEF ParseFlags, Parsing
  <2>2. ParseWidth => fpc \in Parsing
    BY DEF ParseWidth, ParseWidthFrom, Parsing
  <2>3. ParsePrecision => fpc \in Parsing
    BY DEF ParsePrecision, Parsing
  <2>4. ParseLengthMod => fpc \in Parsing
    BY DEF ParseLengthMod, Parsing
  <2>5. ParseFlags => ParseInv' /\ StaticInv' /\ fpc' = "width"
    BY <1>1, FlagsParsed
  <2>6. ParseWidth => ParseInv' /\ StaticInv' /\ fpc' = "precision"
    BY <1>1, WidthParsed
  <2>7. ParsePrecision => ParseInv' /\ StaticInv' /\ fpc' = "length"
    BY <1>1, PrecisionParsed
  <2>8. ParseLengthMod => ParseInv' /\ StaticInv' /\ fpc' = "dispatch"
    BY <1>1, LengthParsed
  <2> QED
    BY <2>1, <2>2, <2>3, <2>4, <2>5, <2>6, <2>7, <2>8
<1>3. UNCHANGED <<parserVars, buf, pos, size, begun, field, all>>
  BY DEF ParseFlags, ParseWidth, ParseWidthFrom, ParsePrecision, ParseLengthMod, Parsed
<1>4. call' = call /\ buf' = buf /\ pos' = pos /\ size' = size /\ begun' = begun /\ field' = field /\ all' = all
  BY <1>3 DEF parserVars
<1>5. SpecInv'
  BY <1>1, <1>2, <1>4, SpecParsed
<1>6. OutInv'
  BY <1>1, <1>2, <1>4, OutSame
<1>7. FieldAsSpecified'
  BY <1>1, <1>4, FieldKept
<1>8. ScanInv' /\ DoneInv' /\ fpc' \in Parsing \cup {"scan", "done"}
  BY <1>2 DEF ScanInv, DoneInv, Parsing
<1> QED
  BY <1>2, <1>5, <1>6, <1>7, <1>8 DEF FormatInv

(* So does every case of DispatchSpecifier.                                *)
LEMMA ConversionStep ==
  ASSUME FormatInv, PutOne
  PROVE  FormatInv'
<1>1. StaticInv /\ ParseInv /\ OutInv /\ SpecInv
  BY DEF FormatInv
<1>2. fpc = "dispatch" /\ \E text : Conversion(text)
  <2>1. CASE PutSigned \/ PutUnsigned \/ PutHex
    BY <1>1, <2>1, NumberPut
  <2>2. CASE PutCharacter \/ PutString \/ PutFloat \/ PutPercent \/ PutUnknown
    BY <1>1, <2>2, TextPut
  <2> QED
    BY <2>1, <2>2 DEF PutOne
<1>3. PICK text : Conversion(text)
  BY <1>2
<1>4. text \in Seq(Char) /\ Dispatched(text, Reads(Begun)) /\ Specified(text)
  BY <1>3 DEF Conversion
<1>5. ScanInv' /\ StaticInv' /\ fpc' = "scan" /\ spec' = spec /\ call' = call /\ size' = size
  BY <1>1, <1>2, <1>4, ConversionDone
<1>6. PutAll(text) /\ field' = <<text>> /\ begun' = begun
  BY <1>4 DEF Dispatched
<1>7. OutInv'
  BY <1>1, <1>4, <1>5, <1>6, OutPut
<1>8. FieldAsSpecified'
  BY <1>4, <1>5, <1>6, FieldPut
<1>9. SpecInv'
  BY <1>1, <1>5 DEF SpecInv
<1>10. ParseInv' /\ DoneInv' /\ fpc' \in Parsing \cup {"scan", "done"}
  BY <1>5 DEF ParseInv, DoneInv, Parsing
<1> QED
  BY <1>5, <1>7, <1>8, <1>9, <1>10 DEF FormatInv

(* So does a literal's character.                                          *)
LEMMA LiteralStep ==
  ASSUME FormatInv, PutLiteral
  PROVE  FormatInv'
<1>1. StaticInv /\ ScanInv /\ OutInv /\ SpecInv
  BY DEF FormatInv
<1>2. ScanInv' /\ StaticInv' /\ fpc' = "scan" /\ fmt[at] \in Char
  BY <1>1, LiteralPut
<1>3. /\ PutAll(<<fmt[at]>>) /\ field' = <<>> /\ call' = call /\ spec' = spec /\ size' = size
  BY DEF PutLiteral, parserVars
<1>4. PICK s \in Seq(Char) : s = <<fmt[at]>>
  BY <1>2, OneChar
<1>5. OutInv'
  BY <1>1, <1>2, <1>3, <1>4, OutPut
<1>6. SpecInv'
  BY <1>1, <1>3 DEF SpecInv
<1>7. ParseInv' /\ DoneInv' /\ fpc' \in Parsing \cup {"scan", "done"}
  BY <1>2 DEF ParseInv, DoneInv, Parsing
<1> QED
  BY <1>2, <1>3, <1>5, <1>6, <1>7, FieldGone DEF FormatInv

(* So does a percent sign.                                                 *)
LEMMA BeginStep ==
  ASSUME FormatInv, BeginConversion
  PROVE  FormatInv'
<1>1. StaticInv /\ ScanInv /\ OutInv
  BY DEF FormatInv
<1>2. ParseInv' /\ StaticInv' /\ fpc' = "flags"
  BY <1>1, ConversionBegun
<1>3. /\ field' = <<>> /\ call' = call /\ spec' = NoSpec(call.policy)
      /\ buf' = buf /\ pos' = pos /\ all' = all /\ size' = size
  BY DEF BeginConversion, parserVars
<1>4. OutInv'
  BY <1>1, <1>2, <1>3, OutSame
<1>5. SpecInv'
  <2>1. SizeModulus \in Nat \ {0}
    BY CallsAssumption
  <2>2. call.policy.default \in 0..call.policy.max
    BY <1>1, CallFacts, PolicyFacts DEF StaticInv
  <2>3. <<>> \in LengthMods
    BY DEF LengthMods
  <2> QED
    BY <2>1, <2>2, <2>3, <1>3 DEF SpecInv, NoSpec
<1>6. ScanInv' /\ DoneInv' /\ fpc' \in Parsing \cup {"scan", "done"}
  BY <1>2 DEF ScanInv, DoneInv, Parsing
<1> QED
  BY <1>2, <1>3, <1>4, <1>5, <1>6, FieldGone DEF FormatInv

(* So does the end of DoFormat.                                            *)
LEMMA FinishStep ==
  ASSUME FormatInv, Finish
  PROVE  FormatInv'
<1>1. StaticInv /\ ScanInv /\ OutInv /\ SpecInv
  BY DEF FormatInv
<1>2. DoneInv' /\ StaticInv' /\ fpc' = "done"
  BY <1>1, Finished
<1>3. field' = <<>> /\ call' = call /\ spec' = spec
  BY DEF Finish, FinishAt, parserVars
<1>4. OutInv'
  BY <1>1, OutFinish
<1>5. SpecInv'
  BY <1>1, <1>3 DEF SpecInv
<1>6. ScanInv' /\ ParseInv' /\ fpc' \in Parsing \cup {"scan", "done"}
  BY <1>2 DEF ScanInv, ParseInv, Parsing
<1> QED
  BY <1>2, <1>3, <1>4, <1>5, <1>6, FieldGone DEF FormatInv

(* So does a step that changes nothing.                                    *)
LEMMA FormatStutter ==
  ASSUME FormatInv, UNCHANGED formatVars
  PROVE  FormatInv'
<1>1. /\ call' = call /\ fmt' = fmt /\ args' = args /\ at' = at /\ next' = next /\ spec' = spec /\ fpc' = fpc
      /\ buf' = buf /\ pos' = pos /\ size' = size /\ begun' = begun /\ field' = field /\ all' = all
  BY DEF formatVars, parserVars
<1>2. StaticInv' /\ SpecInv' /\ DoneInv' /\ fpc' \in Parsing \cup {"scan", "done"}
  BY <1>1 DEF FormatInv, StaticInv, SpecInv, DoneInv
<1>3. ScanInv'
  <2> SUFFICES ASSUME fpc' = "scan" PROVE \E k, o : ScanAt(k, o)'
    BY DEF ScanInv
  <2>1. PICK k, o : ScanAt(k, o)
    BY <1>1 DEF FormatInv, ScanInv
  <2>2. ScanAt(k, o)'
    BY <2>1, <1>1 DEF ScanAt
  <2> QED
    BY <2>2
<1>4. ParseInv'
  <2>1. Begun' = Begun /\ Base' = Base /\ Given' = Given
    BY <1>1 DEF Begun, Base, Given
  <2>2. Meant(Begun)' = Meant(Begun)
    BY <1>1, <2>1 DEF Meant
  <2> QED
    BY <2>1, <2>2, <1>1 DEF FormatInv, ParseInv, ParsedTo
<1>5. OutInv'
  BY <1>1, OutSame DEF FormatInv
<1>6. FieldAsSpecified'
  BY <1>1, FieldKept DEF FormatInv
<1> QED
  BY <1>2, <1>3, <1>4, <1>5, <1>6 DEF FormatInv
-----------------------------------------------------------------------------
(* What the invariant says of a state.                                     *)
LEMMA SuppliedAtMost ==
  ASSUME NEW c \in Calls, NEW k \in 0..Len(c.pieces)
  PROVE  Len(Supplied(c, k)) \in Nat /\ Len(PassedBy(c.pieces)) \in Nat
         /\ Len(Supplied(c, k)) <= Len(PassedBy(c.pieces))
<1>1. PICK n \in Nat : n = Len(c.pieces)
  BY CallFacts
<1> DEFINE L(i) == Len(Supplied(c, i))
           U    == {j \in 0..n : L(n - j) > L(n)}
<1>2. \A i \in 0..n : L(i) \in Nat
  BY <1>1, SuppliedFacts
<1>3. \A i \in 1..n : L(i) >= L(i - 1)
  <2> SUFFICES ASSUME NEW i \in 1..n PROVE L(i) >= L(i - 1)
    OBVIOUS
  <2>1. L(i) = L(i - 1) + Len(Passed(c.pieces[i]))
    BY <1>1, SuppliedFacts
  <2>2. Passed(c.pieces[i]) \in Seq(Arguments(c))
    BY <1>1, PassedText
  <2>3. i - 1 \in 0..n
    BY <1>1
  <2>4. L(i - 1) \in Nat
    BY <2>3, <1>2
  <2>5. Len(Passed(c.pieces[i])) \in Nat
    BY <2>2
  <2> HIDE DEF L
  <2> QED
    BY <2>1, <2>4, <2>5
<1>4. L(n) = Len(PassedBy(c.pieces))
  BY <1>1, SuppliedFacts
<1>5. k \in 0..n
  BY <1>1
<1> HIDE DEF L
<1>6. U = {}
  <2> SUFFICES ASSUME U # {} PROVE FALSE
    OBVIOUS
  <2>1. U \subseteq Nat
    OBVIOUS
  <2> HIDE DEF U
  <2>2. Min(U) \in U /\ \A y \in U : Min(U) <= y
    BY <2>1, LeastElement
  <2>3. PICK j \in U : \A y \in U : j <= y
    BY <2>2
  <2>4. j \in 0..n /\ L(n - j) > L(n)
    BY <2>3 DEF U
  <2>5. n - j \in 0..n /\ L(n) \in Nat
    BY <1>2, <2>4
  <2>6. j # 0
    <3> SUFFICES ASSUME j = 0 PROVE FALSE
      OBVIOUS
    <3>1. n - j = n
      BY <1>1
    <3> QED
      BY <3>1, <2>4, <2>5
  <2>7. PICK i \in 1..n : i = n - j + 1
    BY <2>4, <2>6
  <2>8. j - 1 \notin U
    BY <2>3, <2>4, <2>6
  <2>9. L(n - (j - 1)) <= L(n)
    <3>1. j - 1 \in 0..n /\ n - (j - 1) \in 0..n
      BY <2>4, <2>6
    <3>2. ~(L(n - (j - 1)) > L(n))
      BY <2>8, <3>1 DEF U
    <3>3. L(n - (j - 1)) \in Nat
      BY <3>1, <1>2
    <3> QED
      BY <3>2, <3>3, <2>5
  <2>10. n - (j - 1) = i /\ n - j = i - 1
    BY <2>4, <2>7
  <2>11. L(i) >= L(i - 1) /\ L(i) \in Nat /\ L(i - 1) \in Nat
    BY <1>2, <1>3, <2>5, <2>7, <2>10
  <2>12. L(i) <= L(n) /\ L(i - 1) > L(n)
    BY <2>4, <2>9, <2>10
  <2> QED
    BY <2>11, <2>12, <2>5
<1>7. n - k \notin U
  BY <1>6
<1>8. n - k \in 0..n /\ n - (n - k) = k
  BY <1>5
<1>9. ~(L(k) > L(n))
  BY <1>7, <1>8
<1>10. L(k) \in Nat /\ L(n) \in Nat
  BY <1>2, <1>5
<1>11. L(k) <= L(n)
  BY <1>9, <1>10
<1> QED
  BY <1>4, <1>10, <1>11 DEF L

(* *fmt and va_arg stay within what there is to read.                      *)
LEMMA PlacesKept ==
  ASSUME FormatInv
  PROVE  at \in DOMAIN fmt /\ next \in 1..(Len(args) + 1)
<1>1. StaticInv /\ ScanInv /\ ParseInv /\ DoneInv
  BY DEF FormatInv
<1>2. PICK c \in Calls : c = call /\ args = PassedBy(c.pieces)
  BY <1>1 DEF StaticInv
<1>3. Len(args) \in Nat
  <2>1. 0 \in 0..Len(c.pieces)
    BY CallFacts
  <2> QED
    BY <2>1, <1>2, SuppliedAtMost
<1>4. CASE fpc = "done"
  BY <1>1, <1>3, <1>4 DEF DoneInv
<1>5. CASE fpc = "scan"
  <2>1. PICK k, o : ScanAt(k, o)
    BY <1>1, <1>5 DEF ScanInv
  <2>2. k \in 0..Len(c.pieces) /\ Len(c.pieces) \in Nat /\ at \in DOMAIN fmt
    <3>1. k \in 0..Len(c.pieces) /\ Len(c.pieces) \in Nat
      BY <1>1, <1>2, <2>1, ScanSpot
    <3>2. k = Len(c.pieces) \/ k < Len(c.pieces)
      BY <3>1
    <3> QED
      BY <3>1, <3>2, <1>1, <1>2, <2>1, ScanSpot
  <2>3. Len(Supplied(c, k)) \in Nat /\ Len(Supplied(c, k)) <= Len(args)
    BY <1>2, <2>2, SuppliedAtMost
  <2>4. next = Len(Supplied(c, k)) + 1
    BY <1>2, <2>1 DEF ScanAt
  <2> QED
    BY <1>3, <2>2, <2>3, <2>4
<1>6. CASE fpc \in Parsing
  <2>1. PICK x : x = Begun
    OBVIOUS
  <2>2. /\ Proper(x) /\ Base \in Nat /\ Given \in Nat /\ begun \in 1..Len(c.pieces)
        /\ LaidOut(fmt, x, Base) /\ fmt \in Seq(FormatChar \cup {"NUL"})
        /\ Len(StarArg(x.width)) \in 0..1 /\ Len(StarArg(x.precision)) \in 0..1
        /\ Len(Passed(x)) = AtArg(x) + Reads(x)
    BY <1>1, <1>2, <1>6, <2>1, InConversion
  <2>3. /\ AtWidth(x) \in Nat /\ AtPoint(x) \in Nat /\ AtMod(x) \in Nat /\ AtLetter(x) \in Nat
        /\ 1 <= AtWidth(x) /\ AtWidth(x) <= AtPoint(x) /\ AtPoint(x) <= AtMod(x) /\ AtMod(x) <= AtLetter(x)
    BY <2>2, RenderedText
  <2>4. AtArg(x) \in Nat /\ Len(StarArg(x.width)) <= AtArg(x) /\ Reads(x) \in Nat
    BY <2>2 DEF AtArg, Reads
  <2>5. \E offset \in 0..AtLetter(x) : \E read \in 0..AtArg(x) :
          at = Base + offset + 1 /\ next = Given + read + 1
    <3>1. CASE fpc = "flags"
      <4>1. at = Base + 1 + 1 /\ next = Given + 0 + 1
        BY <1>1, <3>1, <1>6 DEF ParseInv, ParsedTo
      <4>2. 1 \in 0..AtLetter(x) /\ 0 \in 0..AtArg(x)
        BY <2>3, <2>4
      <4> QED
        BY <4>1, <4>2
    <3>2. CASE fpc = "width"
      <4>1. at = Base + AtWidth(x) + 1 /\ next = Given + 0 + 1
        BY <1>1, <3>2, <1>6, <2>1 DEF ParseInv, ParsedTo
      <4>2. AtWidth(x) \in 0..AtLetter(x) /\ 0 \in 0..AtArg(x)
        BY <2>3, <2>4
      <4> QED
        BY <4>1, <4>2
    <3>3. CASE fpc = "precision"
      <4>1. at = Base + AtPoint(x) + 1 /\ next = Given + Len(StarArg(x.width)) + 1
        BY <1>1, <3>3, <1>6, <2>1 DEF ParseInv, ParsedTo
      <4>2. AtPoint(x) \in 0..AtLetter(x) /\ Len(StarArg(x.width)) \in 0..AtArg(x)
        BY <2>2, <2>3, <2>4
      <4> QED
        BY <4>1, <4>2
    <3>4. CASE fpc = "length"
      <4>1. at = Base + AtMod(x) + 1 /\ next = Given + AtArg(x) + 1
        BY <1>1, <3>4, <1>6, <2>1 DEF ParseInv, ParsedTo
      <4>2. AtMod(x) \in 0..AtLetter(x) /\ AtArg(x) \in 0..AtArg(x)
        BY <2>3, <2>4
      <4> QED
        BY <4>1, <4>2
    <3>5. CASE fpc = "dispatch"
      <4>1. at = Base + AtLetter(x) + 1 /\ next = Given + AtArg(x) + 1
        BY <1>1, <3>5, <1>6, <2>1 DEF ParseInv, ParsedTo
      <4>2. AtLetter(x) \in 0..AtLetter(x) /\ AtArg(x) \in 0..AtArg(x)
        BY <2>3, <2>4
      <4> QED
        BY <4>1, <4>2
    <3> QED
      BY <1>6, <3>1, <3>2, <3>3, <3>4, <3>5 DEF Parsing
  <2>6. PICK offset \in 0..AtLetter(x), read \in 0..AtArg(x) :
          at = Base + offset + 1 /\ next = Given + read + 1
    BY <2>5
  <2>7. at \in DOMAIN fmt
    <3>1. Base + AtLetter(x) + 1 \in DOMAIN fmt
      BY <2>2 DEF LaidOut
    <3>2. DOMAIN fmt = 1..Len(fmt) /\ Len(fmt) \in Nat
      BY <2>2
    <3> QED
      BY <3>1, <3>2, <2>2, <2>3, <2>6
  <2>8. PICK k \in 1..Len(c.pieces) : k = begun
    BY <2>2
  <2>9. Given = Len(Supplied(c, k - 1)) /\ x = c.pieces[k]
    BY <1>2, <2>1, <2>8 DEF Given, Begun
  <2>10. Len(Supplied(c, k)) = Given + AtArg(x) + Reads(x)
    <3>1. Len(Supplied(c, k)) = Given + Len(Passed(x))
      BY <2>9, SuppliedFacts
    <3> QED
      BY <3>1, <2>2, <2>4
  <2>11. k \in 0..Len(c.pieces)
    BY <2>8, CallFacts
  <2>12. Len(Supplied(c, k)) <= Len(args)
    BY <2>11, <1>2, SuppliedAtMost
  <2>13. next \in 1..(Len(args) + 1)
    BY <1>3, <2>2, <2>4, <2>6, <2>10, <2>12
  <2> QED
    BY <2>7, <2>13
<1> QED
  BY <1>4, <1>5, <1>6 DEF FormatInv

(* The invariant implies the type invariant.                               *)
LEMMA InvTypes == FormatInv => FormatTypeOK
<1> SUFFICES ASSUME FormatInv PROVE FormatTypeOK
  OBVIOUS
<1>1. at \in DOMAIN fmt /\ next \in 1..(Len(args) + 1)
  BY PlacesKept
<1>2. pos \in 0..(SizeModulus - 1)
  <2>1. PICK n \in Nat : n = Len(all) /\ pos = n % SizeModulus
    BY DEF FormatInv, OutInv
  <2>2. SizeModulus \in Nat \ {0} /\ n \in Int
    BY CallsAssumption
  <2>3. n % SizeModulus \in 0..(SizeModulus - 1)
    BY <2>2, DivisionExists
  <2> QED
    BY <2>1, <2>3
<1>3. fpc \in {"scan", "flags", "width", "precision", "length", "dispatch", "done"}
  BY DEF FormatInv, Parsing
<1>4. DOMAIN buf = 0..N /\ size \in 0..N
  BY DEF FormatInv, OutInv
<1>5. spec.flags \subseteq Flags /\ spec.width \in 0..(SizeModulus - 1) /\ spec.precision \in 0..call.policy.max
  BY DEF FormatInv, SpecInv
<1> QED
  BY <1>1, <1>2, <1>3, <1>4, <1>5 DEF FormatTypeOK

(* A conversion is parsed as it was written.                               *)
LEMMA InvParsed == FormatInv => ParsedAsWritten
BY AtDispatch DEF FormatInv, ParsedAsWritten

(* The arguments that are left belong to the pieces that are left.         *)
LEMMA InvAligned == FormatInv => ArgumentsAligned
<1> SUFFICES ASSUME FormatInv PROVE ArgumentsAligned
  OBVIOUS
<1>1. ASSUME fpc = "dispatch"
      PROVE  next = 1 + Len(PassedBy(SubSeq(call.pieces, 1, begun - 1)))
                      + Len(StarArg(Begun.width)) + Len(StarArg(Begun.precision))
  <2>1. fpc \in Parsing
    BY <1>1 DEF Parsing
  <2>2. PICK g \in Nat : g = Given
    BY <2>1, InConversion DEF FormatInv
  <2>0. Len(StarArg(Begun.width)) \in 0..1 /\ Len(StarArg(Begun.precision)) \in 0..1
    BY <2>1, InConversion DEF FormatInv
  <2>3. PICK w \in 0..1 : w = Len(StarArg(Begun.width))
    BY <2>0, Zenon
  <2>4. PICK p \in 0..1 : p = Len(StarArg(Begun.precision))
    BY <2>0, Zenon
  <2>5. next = Given + AtArg(Begun) + 1
    BY <1>1, AtDispatch DEF FormatInv
  <2>6. next = g + (w + p) + 1
    BY <2>2, <2>3, <2>4, <2>5 DEF AtArg
  <2>7. next = 1 + g + w + p
    BY <2>6
  <2>8. g = Len(PassedBy(SubSeq(call.pieces, 1, begun - 1)))
    BY <2>2 DEF Given, Supplied
  <2> QED
    BY <2>3, <2>4, <2>7, <2>8
<1>2. fpc = "done" => next = Len(args) + 1
  BY DEF FormatInv, DoneInv
<1> QED
  BY <1>1, <1>2 DEF ArgumentsAligned

(* The output's part of the invariant.                                     *)
LEMMA InvOutput == FormatInv => TruncatedPrefix /\ FieldAsSpecified
BY DEF FormatInv, OutInv

(* A power of two divides every higher one.                                *)
LEMMA PowerDivides ==
  ASSUME NEW j \in Nat, NEW k \in Nat, j <= k
  PROVE  \E m \in Nat \ {0} : Power(2, k) = Power(2, j) * m
<1> DEFINE Divided(n) == \E m \in Nat \ {0} : Power(2, n) = Power(2, j) * m
           T == {n \in Nat : j <= n /\ ~Divided(n)}
<1> SUFFICES ASSUME T # {} PROVE FALSE
  OBVIOUS
<1>1. T \subseteq Nat
  OBVIOUS
<1>2. PICK n \in T : \A i \in T : n <= i
  <2> HIDE DEF T
  <2> QED
    BY <1>1, LeastElement
<1>3. n \in Nat /\ j <= n /\ ~Divided(n)
  BY <1>2
<1>0. 2 \in Nat \ {0}
  OBVIOUS
<1>4. PICK a \in Nat \ {0} : a = Power(2, j)
  BY <1>0, Powers
<1>5. n # j
  <2> SUFFICES ASSUME n = j PROVE FALSE
    OBVIOUS
  <2>1. Power(2, n) = Power(2, j) * 1
    BY <1>4
  <2> QED
    BY <2>1, <1>3
<1>6. n - 1 \in Nat /\ j <= n - 1 /\ ~(n <= n - 1) /\ (n - 1) + 1 = n
  BY <1>3, <1>5
<1>7. Divided(n - 1)
  BY <1>2, <1>6
<1>8. PICK m \in Nat \ {0} : Power(2, n - 1) = a * m
  BY <1>4, <1>7
<1>9. Power(2, n) = 2 * Power(2, n - 1)
  BY <1>0, <1>6, PowerSteps
<1>10. Power(2, n) = a * (2 * m) /\ 2 * m \in Nat \ {0}
  BY <1>8, <1>9
<1>11. Divided(n)
  BY <1>4, <1>10
<1> QED
  BY <1>3, <1>11

(* Below 2^float whole numbers FloatRound's unit is no more than one.      *)
LEMMA UnitDividesTicks ==
  ASSUME NEW p \in Policies, NEW x \in Nat, NEW c \in Nat, c < Power(2, p.float), x <= c * Ticks,
         NEW j \in Nat, NEW u \in Nat \ {0}, u = Power(2, j), UnitOf(u, x, p)
  PROVE  \E m \in Nat \ {0} : Ticks = u * m
<1>0. 2 \in Nat \ {0} /\ TickBits \in Nat
  <2>1. TickBits \in Nat \ {0}
    BY NumbersAssumption, Zenon
  <2> QED
    BY <2>1
<1>1. PICK q \in Nat \ {0} : q = Power(2, p.float)
  BY <1>0, PolicyFacts, Powers
<1>2. PICK t \in Nat \ {0} : t = Ticks
  BY TicksNat
<1>3. CASE j <= TickBits
  BY <1>0, <1>3, PowerDivides DEF Ticks
<1>4. CASE j > TickBits
  <2>1. TickBits + 1 \in Nat /\ TickBits + 1 <= j
    BY <1>0, <1>4
  <2>2. Power(2, TickBits + 1) = 2 * t
    BY <1>0, <1>2, PowerSteps DEF Ticks
  <2>3. 2 * t <= u
    BY <2>1, <2>2, <1>0, PowerMonotone
  <2>4. u * q <= 2 * x
    BY <2>3, <1>1 DEF UnitOf
  <2>5. 2 * x <= 2 * (c * t) /\ c * t \in Nat
    BY <1>2
  <2>6. PICK d \in Nat : q = c + 1 + d
    <3>1. q - c - 1 \in Nat /\ q = c + 1 + (q - c - 1)
      BY <1>1
    <3> QED
      BY <3>1
  <2>7. PICK e \in Nat : u = 2 * t + e
    <3>1. u - 2 * t \in Nat /\ u = 2 * t + (u - 2 * t)
      BY <2>3
    <3> QED
      BY <3>1
  <2>8. u * q = u * c + u + u * d /\ u * d \in Nat /\ u * c \in Nat
    BY <2>6
  <2>9. u * c = 2 * (c * t) + e * c /\ e * c \in Nat
    <3>1. u * c = (2 * t + e) * c
      BY <2>7
    <3>2. (2 * t + e) * c = 2 * (c * t) + e * c
      OBVIOUS
    <3> QED
      BY <3>1, <3>2
  <2> QED
    BY <2>4, <2>5, <2>8, <2>9
<1> QED
  BY <1>0, <1>3, <1>4

(* FloatRound goes to one of the multiples of unit next to x, the nearer   *)
(* one.                                                                    *)
Between(y, x, u) ==
  \E low \in Nat : \E r \in 0..(u - 1) :
    /\ x = u * low + r
    /\ \/ y = u * low /\ 2 * r <= u
       \/ y = u * (low + 1) /\ 2 * r >= u /\ r > 0

(* FloatRound goes to one of the two multiples.                            *)
LEMMA RoundBetween ==
  ASSUME NEW p \in Policies, NEW x \in Nat
  PROVE  \E j \in Nat : \E u \in Nat \ {0} :
           u = Power(2, j) /\ UnitOf(u, x, p) /\ Between(FloatRound(x, p), x, u)
<1>1. PICK j \in Nat : \E u \in Nat \ {0} :
        /\ u = Power(2, j) /\ UnitOf(u, x, p)
        /\ FloatRound(x, p) =
             u * (IF 2 * (x % u) > u \/ (2 * (x % u) = u /\ (x \div u) % 2 = 1) THEN x \div u + 1 ELSE x \div u)
  BY RoundUnit
<1>2. PICK u \in Nat \ {0} :
        /\ u = Power(2, j) /\ UnitOf(u, x, p)
        /\ FloatRound(x, p) =
             u * (IF 2 * (x % u) > u \/ (2 * (x % u) = u /\ (x \div u) % 2 = 1) THEN x \div u + 1 ELSE x \div u)
  BY <1>1
<1>3. PICK low \in Nat : low = x \div u
  BY QuotientNat
<1>4. PICK r \in 0..(u - 1) : r = x % u
  BY QuotientNat
<1>5. x = u * low + r
  <2>1. x \in Int
    OBVIOUS
  <2>2. x = (x \div u) * u + (x % u)
    BY <2>1, DivisionExists
  <2>3. low * u = u * low
    OBVIOUS
  <2> QED
    BY <2>2, <2>3, <1>3, <1>4
<1>6. PICK y : y = FloatRound(x, p)
  OBVIOUS
<1>7. y = u * (IF 2 * r > u \/ (2 * r = u /\ low % 2 = 1) THEN low + 1 ELSE low)
  BY <1>2, <1>3, <1>4, <1>6, Zenon
<1>8. \/ y = u * low /\ 2 * r <= u
      \/ y = u * (low + 1) /\ 2 * r >= u /\ r > 0
  BY <1>7
<1>9. Between(y, x, u)
  BY <1>5, <1>8 DEF Between
<1> QED
  BY <1>2, <1>6, <1>9

(* A whole number below 2^float is a float.                                *)
LEMMA WholeIsFloat ==
  ASSUME NEW p \in Policies, NEW c \in Nat, c < Power(2, p.float)
  PROVE  FloatRound(c * Ticks, p) = c * Ticks
<1>1. PICK t \in Nat \ {0} : t = Ticks
  BY TicksNat
<1>2. PICK x \in Nat : x = c * t
  <2>1. c * t \in Nat
    OBVIOUS
  <2> QED
    BY <2>1
<1>3. PICK j \in Nat : \E u \in Nat \ {0} :
        u = Power(2, j) /\ UnitOf(u, x, p) /\ Between(FloatRound(x, p), x, u)
  BY RoundBetween
<1>4. PICK u \in Nat \ {0} : u = Power(2, j) /\ UnitOf(u, x, p) /\ Between(FloatRound(x, p), x, u)
  BY <1>3
<1>5. x <= c * Ticks
  BY <1>1, <1>2
<1>6. PICK m \in Nat \ {0} : t = u * m
  BY <1>1, <1>4, <1>5, UnitDividesTicks
<1>7. PICK y : y = FloatRound(x, p)
  OBVIOUS
<1>8. PICK low \in Nat, r \in 0..(u - 1) :
        /\ x = u * low + r
        /\ \/ y = u * low /\ 2 * r <= u
           \/ y = u * (low + 1) /\ 2 * r >= u /\ r > 0
  BY <1>4, <1>7 DEF Between
<1>9. low = c * m /\ r = 0
  <2>1. PICK n \in Nat : n = c * m
    <3>1. c * m \in Nat
      OBVIOUS
    <3> QED
      BY <3>1
  <2>2. n * u + 0 = low * u + r
    <3>1. c * t = (c * m) * u
      <4>1. c * (u * m) = (c * m) * u
        OBVIOUS
      <4> QED
        BY <4>1, <1>6
    <3>2. u * low = low * u
      OBVIOUS
    <3> QED
      BY <3>1, <3>2, <1>2, <1>8, <2>1
  <2>3. n \in Int /\ low \in Int /\ 0 \in 0..(u - 1)
    OBVIOUS
  <2>4. n = low /\ 0 = r
    BY <2>2, <2>3, DivisionUnique
  <2> QED
    BY <2>1, <2>4
<1>10. y = x
  BY <1>8, <1>9
<1> QED
  BY <1>1, <1>2, <1>7, <1>10

(* So nothing below such a number is rounded to more.                      *)
LEMMA RoundedBelow ==
  ASSUME NEW p \in Policies, NEW c \in Nat, c < Power(2, p.float), NEW x \in Nat, x <= c * Ticks
  PROVE  FloatRound(x, p) <= c * Ticks
<1>1. PICK t \in Nat \ {0} : t = Ticks
  BY TicksNat
<1>3. PICK j \in Nat : \E u \in Nat \ {0} :
        u = Power(2, j) /\ UnitOf(u, x, p) /\ Between(FloatRound(x, p), x, u)
  BY RoundBetween
<1>4. PICK u \in Nat \ {0} : u = Power(2, j) /\ UnitOf(u, x, p) /\ Between(FloatRound(x, p), x, u)
  BY <1>3
<1>6. PICK m \in Nat \ {0} : t = u * m
  BY <1>1, <1>4, UnitDividesTicks
<1>7. PICK y : y = FloatRound(x, p)
  OBVIOUS
<1>8. PICK low \in Nat, r \in 0..(u - 1) :
        /\ x = u * low + r
        /\ \/ y = u * low /\ 2 * r <= u
           \/ y = u * (low + 1) /\ 2 * r >= u /\ r > 0
  BY <1>4, <1>7 DEF Between
<1>9. PICK n \in Nat : n = c * m
  <2>1. c * m \in Nat
    OBVIOUS
  <2> QED
    BY <2>1
<1>10. c * t = u * n
  <2>1. c * (u * m) = u * (c * m)
    OBVIOUS
  <2> QED
    BY <2>1, <1>6, <1>9
<1>11. u * low + r <= u * n
  BY <1>1, <1>8, <1>10
<1>12. low <= n /\ (r > 0 => low + 1 <= n)
  <2>1. ASSUME NEW a \in Nat, n < a PROVE u * n + u <= u * a
    <3>1. PICK d \in Nat : a = n + 1 + d
      <4>1. a - n - 1 \in Nat /\ a = n + 1 + (a - n - 1)
        BY <2>1
      <4> QED
        BY <4>1
    <3>2. u * a = u * n + u + u * d /\ u * d \in Nat /\ u * n \in Nat
      BY <3>1
    <3> QED
      BY <3>2
  <2>2. low <= n
    <3> SUFFICES ASSUME n < low PROVE FALSE
      OBVIOUS
    <3>1. u * n + u <= u * low /\ u * n \in Nat /\ u * low \in Nat
      BY <2>1
    <3> QED
      BY <3>1, <1>11
  <2>3. ASSUME r > 0 PROVE low + 1 <= n
    <3> SUFFICES ASSUME n < low + 1 PROVE FALSE
      OBVIOUS
    <3>1. n = low
      BY <2>2
    <3> QED
      BY <3>1, <2>3, <1>11
  <2> QED
    BY <2>2, <2>3
<1>13. \A a \in Nat : a <= n => u * a <= u * n
  <2> SUFFICES ASSUME NEW a \in Nat, a <= n PROVE u * a <= u * n
    OBVIOUS
  <2>1. PICK d \in Nat : n = a + d
    <3>1. n - a \in Nat /\ n = a + (n - a)
      OBVIOUS
    <3> QED
      BY <3>1
  <2>2. u * n = u * a + u * d /\ u * d \in Nat /\ u * a \in Nat
    BY <2>1
  <2> QED
    BY <2>2
<1>14. y <= u * n
  BY <1>8, <1>12, <1>13
<1> QED
  BY <1>1, <1>7, <1>10, <1>14

(* The error of one rounding.                                              *)
LEMMA RoundError ==
  ASSUME NEW p \in Policies, NEW x \in Nat
  PROVE  Magnitude(FloatRound(x, p) - x) * Power(2, p.float) <= x
<1>1. PICK q \in Nat \ {0} : q = Power(2, p.float)
  <2>1. p.float \in Nat /\ 2 \in Nat \ {0}
    BY PolicyFacts
  <2> QED
    BY <2>1, Powers
<1>3. PICK j \in Nat : \E u \in Nat \ {0} :
        u = Power(2, j) /\ UnitOf(u, x, p) /\ Between(FloatRound(x, p), x, u)
  BY RoundBetween
<1>4. PICK u \in Nat \ {0} : u = Power(2, j) /\ UnitOf(u, x, p) /\ Between(FloatRound(x, p), x, u)
  BY <1>3
<1>5. PICK y \in Nat : y = FloatRound(x, p)
  BY RoundedNat
<1>8. PICK low \in Nat, r \in 0..(u - 1) :
        /\ x = u * low + r
        /\ \/ y = u * low /\ 2 * r <= u
           \/ y = u * (low + 1) /\ 2 * r >= u /\ r > 0
  BY <1>4, <1>5 DEF Between
<1>9. PICK e \in Nat : e = Magnitude(y - x) /\ 2 * e <= u /\ (u = 1 => e = 0)
  <2>1. u * low \in Nat /\ u * (low + 1) = u * low + u
    OBVIOUS
  <2>2. CASE y = u * low /\ 2 * r <= u
    <3>1. y - x = -r
      BY <2>1, <2>2, <1>8
    <3>2. Magnitude(y - x) = r /\ r \in Nat
      BY <3>1 DEF Magnitude
    <3> QED
      BY <2>2, <3>2
  <2>3. CASE y = u * (low + 1) /\ 2 * r >= u /\ r > 0
    <3>1. y - x = u - r
      BY <2>1, <2>3, <1>8
    <3>2. Magnitude(y - x) = u - r /\ u - r \in Nat
      BY <3>1 DEF Magnitude
    <3> QED
      BY <2>3, <3>2
  <2> QED
    BY <1>8, <2>2, <2>3
<1>10. e * q <= x
  <2>1. CASE u = 1
    BY <2>1, <1>9
  <2>2. CASE u # 1
    <3>1. u * q <= 2 * x
      BY <2>2, <1>1, <1>4 DEF UnitOf
    <3>2. PICK d \in Nat : u = 2 * e + d
      <4>1. u - 2 * e \in Nat /\ u = 2 * e + (u - 2 * e)
        BY <1>9
      <4> QED
        BY <4>1
    <3>3. u * q = 2 * (e * q) + d * q /\ d * q \in Nat /\ e * q \in Nat
      <4>1. (2 * e + d) * q = 2 * (e * q) + d * q
        OBVIOUS
      <4> QED
        BY <4>1, <3>2
    <3> QED
      BY <3>1, <3>3
  <2> QED
    BY <2>1, <2>2
<1> QED
  BY <1>1, <1>5, <1>9, <1>10

(* A quotient to the nearest, a half to even.                              *)
LEMMA HalfEvenParts ==
  ASSUME NEW d \in Nat \ {0}, NEW q \in Nat, NEW r \in 0..(d - 1), NEW n \in Nat, n = q * d + r
  PROVE  /\ HalfEven(n, d) = IF 2 * r > d \/ (2 * r = d /\ q % 2 = 1) THEN q + 1 ELSE q
         /\ HalfEven(n, d) \in Nat /\ 2 * Magnitude(HalfEven(n, d) * d - n) <= d
<1>1. q = n \div d /\ r = n % d
  <2>1. n \in Int /\ q \in Int
    OBVIOUS
  <2> QED
    BY <2>1, DivisionIs
<1>2. PICK h : h = HalfEven(n, d)
  OBVIOUS
<1>3. h = IF 2 * r > d \/ (2 * r = d /\ q % 2 = 1) THEN q + 1 ELSE q
  BY <1>1, <1>2, Zenon DEF HalfEven
<1>4. h \in Nat
  BY <1>3
<1>5. 2 * Magnitude(h * d - n) <= d
  <2>1. CASE h = q /\ 2 * r <= d
    <3>1. h * d - n = -r
      <4>1. h * d = q * d /\ q * d \in Nat
        BY <2>1
      <4> QED
        BY <4>1
    <3>2. Magnitude(h * d - n) = r
      BY <3>1 DEF Magnitude
    <3> QED
      BY <2>1, <3>2
  <2>2. CASE h = q + 1 /\ 2 * r >= d
    <3>1. h * d - n = d - r
      <4>1. h * d = q * d + d /\ q * d \in Nat
        <5>1. (q + 1) * d = q * d + d
          OBVIOUS
        <5> QED
          BY <5>1, <2>2
      <4> QED
        BY <4>1
    <3>2. Magnitude(h * d - n) = d - r
      BY <3>1 DEF Magnitude
    <3> QED
      BY <2>2, <3>2
  <2> QED
    BY <1>3, <2>1, <2>2
<1> QED
  BY <1>2, <1>3, <1>4, <1>5

(* q times d and r more.                                                   *)
DividedInto(n, d, q, r) == n = q * d + r /\ r \in 0..(d - 1)

(* HalfEven by cases of the remainder.                                     *)
LEMMA HalfEvenIs ==
  ASSUME NEW d \in Nat \ {0}, NEW q \in Nat, NEW r \in Nat, NEW n \in Nat, DividedInto(n, d, q, r)
  PROVE  HalfEven(n, d) = IF 2 * r > d \/ (2 * r = d /\ q % 2 = 1) THEN q + 1 ELSE q
BY HalfEvenParts DEF DividedInto

(* HalfEven goes to the quotient or to the number behind it.               *)
LEMMA HalfEvenFacts ==
  ASSUME NEW d \in Nat \ {0}, NEW n \in Nat
  PROVE  HalfEven(n, d) \in Nat /\ 2 * Magnitude(HalfEven(n, d) * d - n) <= d
<1>1. PICK q \in Nat, r \in 0..(d - 1) : n = q * d + r
  <2>1. n \in Int
    OBVIOUS
  <2>2. n = (n \div d) * d + (n % d) /\ n \div d \in Nat /\ n % d \in 0..(d - 1)
    BY <2>1, DivisionExists, QuotientNat
  <2> QED
    BY <2>2
<1> QED
  BY <1>1, HalfEvenParts

(* What is at most a whole number is rounded to at most that.              *)
LEMMA HalfEvenAtMost ==
  ASSUME NEW d \in Nat \ {0}, NEW n \in Nat, NEW c \in Nat, n <= c * d
  PROVE  HalfEven(n, d) <= c
<1>1. PICK q \in Nat, r \in 0..(d - 1) : n = q * d + r
  <2>1. n \in Int
    OBVIOUS
  <2>2. n = (n \div d) * d + (n % d) /\ n \div d \in Nat /\ n % d \in 0..(d - 1)
    BY <2>1, DivisionExists, QuotientNat
  <2> QED
    BY <2>2
<1>2. PICK h : h = HalfEven(n, d)
  OBVIOUS
<1>3. h = IF 2 * r > d \/ (2 * r = d /\ q % 2 = 1) THEN q + 1 ELSE q
  BY <1>1, <1>2, HalfEvenParts
<1>4. q <= c /\ (r > 0 => q + 1 <= c)
  <2>1. ASSUME NEW a \in Nat, c < a PROVE c * d + d <= a * d
    <3>1. PICK e \in Nat : a = c + 1 + e
      <4>1. a - c - 1 \in Nat /\ a = c + 1 + (a - c - 1)
        BY <2>1
      <4> QED
        BY <4>1
    <3>2. a * d = c * d + d + e * d /\ e * d \in Nat /\ c * d \in Nat
      BY <3>1
    <3> QED
      BY <3>2
  <2>2. c * d \in Nat /\ q * d \in Nat
    OBVIOUS
  <2>3. q <= c
    <3> SUFFICES ASSUME c < q PROVE FALSE
      OBVIOUS
    <3>1. c * d + d <= q * d
      BY <2>1
    <3> QED
      BY <3>1, <2>2, <1>1
  <2>4. ASSUME r > 0 PROVE q + 1 <= c
    <3> SUFFICES ASSUME c < q + 1 PROVE FALSE
      OBVIOUS
    <3>1. q = c
      BY <2>3
    <3> QED
      BY <3>1, <2>4, <2>2, <1>1
  <2> QED
    BY <2>3, <2>4
<1>5. 2 * r >= d => r > 0
  OBVIOUS
<1>6. h <= c
  BY <1>3, <1>4, <1>5
<1> QED
  BY <1>2, <1>6

(* An even number of whole units does not take part in the rounding.       *)
LEMMA HalfEvenShift ==
  ASSUME NEW d \in Nat \ {0}, NEW n \in Nat, NEW e \in Nat
  PROVE  HalfEven((2 * e) * d + n, d) = 2 * e + HalfEven(n, d)
<1>1. PICK q \in Nat, r \in 0..(d - 1) : n = q * d + r
  <2>1. n \in Int
    OBVIOUS
  <2>2. n = (n \div d) * d + (n % d) /\ n \div d \in Nat /\ n % d \in 0..(d - 1)
    BY <2>1, DivisionExists, QuotientNat
  <2> QED
    BY <2>2
<1>2. PICK b \in Nat : b = 2 * e + q
  <2>1. 2 * e + q \in Nat
    OBVIOUS
  <2> QED
    BY <2>1
<1>3. PICK m \in Nat : m = (2 * e) * d + n /\ m = b * d + r
  <2>1. (2 * e) * d + n \in Nat /\ (2 * e + q) * d = (2 * e) * d + q * d
    OBVIOUS
  <2>2. (2 * e) * d \in Nat /\ q * d \in Nat
    OBVIOUS
  <2> QED
    BY <1>1, <1>2, <2>1, <2>2
<1>4. b % 2 = q % 2
  <2>1. e \in Int /\ q \in Int /\ 2 \in Nat \ {0}
    OBVIOUS
  <2>2. (e * 2 + q) % 2 = q % 2
    BY <2>1, DivisionShift
  <2>3. e * 2 = 2 * e
    OBVIOUS
  <2> QED
    BY <2>2, <2>3, <1>2
<1>5. PICK h, g : h = HalfEven(m, d) /\ g = HalfEven(n, d)
  OBVIOUS
<1>6. h = IF 2 * r > d \/ (2 * r = d /\ b % 2 = 1) THEN b + 1 ELSE b
  <2>1. m = b * d + r
    BY <1>3
  <2>2. HalfEven(m, d) = IF 2 * r > d \/ (2 * r = d /\ b % 2 = 1) THEN b + 1 ELSE b
    BY <2>1, HalfEvenParts
  <2> QED
    BY <2>2, <1>5, Zenon
<1>7. g = IF 2 * r > d \/ (2 * r = d /\ q % 2 = 1) THEN q + 1 ELSE q
  <2>1. DividedInto(n, d, q, r)
    BY <1>1 DEF DividedInto
  <2>2. HalfEven(n, d) = IF 2 * r > d \/ (2 * r = d /\ q % 2 = 1) THEN q + 1 ELSE q
    BY <2>1, HalfEvenIs
  <2> QED
    BY <2>2, <1>5, Zenon
<1>8. h = 2 * e + g
  BY <1>2, <1>4, <1>6, <1>7
<1> QED
  BY <1>3, <1>5, <1>8

(* There is a half.                                                        *)
LEMMA TicksEven == \E h \in Nat \ {0} : Ticks = 2 * h
<1>1. TickBits - 1 \in Nat /\ (TickBits - 1) + 1 = TickBits /\ 2 \in Nat \ {0}
  <2>1. TickBits \in Nat \ {0}
    BY NumbersAssumption, Zenon
  <2> QED
    BY <2>1
<1> QED
  BY <1>1, PowerSteps DEF Ticks

(* The comparison with "half" rounds to the nearest, a half to even.       *)
LEMMA RoundedUpIs ==
  ASSUME NEW y \in Nat
  PROVE  RoundedUp(y, Ticks \div 2) = HalfEven(y, Ticks)
<1>1. PICK h \in Nat \ {0} : Ticks = 2 * h
  BY TicksEven
<1>2. Ticks \div 2 = h
  <2>1. 2 * h \in Int /\ h \in Int /\ 2 * h = h * 2 + 0 /\ 0 \in 0..(2 - 1) /\ 2 \in Nat \ {0}
    OBVIOUS
  <2>2. (2 * h) \div 2 = h
    BY <2>1, DivisionIs
  <2> QED
    BY <1>1, <2>2
<1>3. PICK q \in Nat, r \in Nat : q = y \div Ticks /\ r = y % Ticks
  <2>1. PICK t \in Nat \ {0} : t = Ticks
    BY TicksNat
  <2>2. y \div t \in Nat /\ y % t \in Nat
    BY QuotientNat
  <2> QED
    BY <2>1, <2>2
<1>4. PICK u, v : u = RoundedUp(y, Ticks \div 2) /\ v = HalfEven(y, Ticks)
  OBVIOUS
<1>5. u = q + (IF r > h \/ (r = h /\ q % 2 = 1) THEN 1 ELSE 0)
  BY <1>2, <1>3, <1>4, Zenon DEF RoundedUp
<1>6. v = IF 2 * r > 2 * h \/ (2 * r = 2 * h /\ q % 2 = 1) THEN q + 1 ELSE q
  BY <1>1, <1>3, <1>4, Zenon DEF HalfEven
<1>7. u = v
  BY <1>5, <1>6
<1> QED
  BY <1>4, <1>7

(* What GetComponents makes of W whole ticks and f more: R is the product  *)
(* of the fraction, rounded to a whole number.                             *)
Tied(n, W, f, R) == n = 0 /\ W % 2 = 1 /\ 2 * f = Ticks /\ R = 0

Split(value, n, p, W, f, R, i, g) ==
  /\ Magnitude(value) = W * Ticks + f /\ f < Ticks
  /\ R = HalfEven(FloatRound(f * Power(10, n), p), Ticks) /\ R <= Power(10, n)
  /\ g < Power(10, n)
  /\ IF Tied(n, W, f, R) THEN i = W + 1 /\ g = 0 ELSE i * Power(10, n) + g = W * Power(10, n) + R

(* GetComponents splits a value, with rounding and carry.                  *)
LEMMA SplitFacts ==
  ASSUME NEW p \in Policies, NEW value \in Int, NEW n \in Nat, Power(10, n) < Power(2, p.float)
  PROVE  \E i \in Nat, g \in Nat :
           /\ i = GetComponents(value, n, p).integral /\ g = GetComponents(value, n, p).fractional
           /\ \E W \in Nat, f \in Nat, R \in Nat : Split(value, n, p, W, f, R, i, g)
<1>1. PICK t \in Nat \ {0} : t = Ticks
  BY TicksNat
<1>2. PICK P \in Nat \ {0} : P = Power(10, n)
  <2>1. 10 \in Nat \ {0}
    OBVIOUS
  <2> QED
    BY <2>1, Powers
<1>3. PICK A \in Nat : A = Magnitude(value)
  BY MagnitudeNat
<1>4. PICK W \in Nat, f \in 0..(t - 1) : W = A \div t /\ f = A % t /\ A = W * t + f
  <2>1. A \in Int
    OBVIOUS
  <2> QED
    BY <2>1, QuotientNat, DivisionExists
<1>5. PICK x \in Nat : x = f * P /\ x <= P * t
  <2>1. PICK d \in Nat : t = f + d
    <3>1. t - f \in Nat /\ t = f + (t - f)
      OBVIOUS
    <3> QED
      BY <3>1
  <2>2. P * t = f * P + d * P /\ d * P \in Nat /\ f * P \in Nat
    <3>1. P * (f + d) = f * P + d * P
      OBVIOUS
    <3> QED
      BY <3>1, <2>1
  <2> QED
    BY <2>2
<1>6. PICK y \in Nat : y = FloatRound(x, p) /\ y <= P * t
  <2>1. FloatRound(x, p) \in Nat
    BY RoundedNat
  <2>2. P \in Nat /\ P < Power(2, p.float) /\ x <= P * Ticks
    BY <1>1, <1>2, <1>5
  <2>3. FloatRound(x, p) <= P * Ticks
    BY <2>2, RoundedBelow
  <2> QED
    BY <2>1, <2>3, <1>1
<1>7. PICK R \in Nat : R = HalfEven(y, t) /\ R <= P
  <2>1. P \in Nat
    OBVIOUS
  <2> QED
    BY <2>1, <1>6, HalfEvenFacts, HalfEvenAtMost
<1>8. R = RoundedUp(y, Ticks \div 2)
  BY <1>1, <1>7, RoundedUpIs
<1> DEFINE carry == R = P
<1>10. (FloatRound(R * Ticks, p) >= P * Ticks) <=> carry
  <2>1. R < Power(2, p.float)
    <3>1. PICK b : b = Power(2, p.float) /\ b \in Nat
      <4>1. p.float \in Nat /\ 2 \in Nat \ {0}
        BY PolicyFacts
      <4> QED
        BY <4>1, Powers
    <3> QED
      BY <3>1, <1>2, <1>7
  <2>2. FloatRound(R * Ticks, p) = R * t
    BY <2>1, <1>1, WholeIsFloat
  <2>3. (R * t >= P * t) <=> (R = P)
    <3>1. CASE R = P
      BY <3>1
    <3>2. CASE R # P
      <4>1. PICK d \in Nat : P = R + 1 + d
        <5>1. P - R - 1 \in Nat /\ P = R + 1 + (P - R - 1)
          BY <3>2, <1>7
        <5> QED
          BY <5>1
      <4>2. P * t = R * t + t + d * t /\ d * t \in Nat /\ R * t \in Nat
        BY <4>1
      <4> QED
        BY <4>2, <3>2
    <3> QED
      BY <3>1, <3>2
  <2> QED
    BY <2>2, <2>3, <1>1
<1>11. PICK I \in Nat : I = IF carry THEN W + 1 ELSE W
  <2>1. W \in Nat /\ W + 1 \in Nat
    OBVIOUS
  <2> QED
    BY <2>1
<1> DEFINE odd == n = 0 /\ I % 2 = 1 /\ 2 * (A - I * t) = t
<1>13. PICK i \in Nat : i = IF odd THEN I + 1 ELSE I
  <2>1. I \in Nat /\ I + 1 \in Nat
    OBVIOUS
  <2> QED
    BY <2>1
<1>14. PICK g \in Nat : g = IF carry THEN 0 ELSE R
  <2>1. R \in Nat /\ 0 \in Nat
    OBVIOUS
  <2> QED
    BY <2>1
<1>15. i = GetComponents(value, n, p).integral /\ g = GetComponents(value, n, p).fractional
  <2> DEFINE whole == Magnitude(value) \div Ticks
             rounded == RoundedUp(FloatRound((Magnitude(value) % Ticks) * Power(10, n), p), Ticks \div 2)
             carries == FloatRound(rounded * Ticks, p) >= Power(10, n) * Ticks
             integral == IF carries THEN whole + 1 ELSE whole
             odd_half == n = 0 /\ integral % 2 = 1 /\ 2 * (Magnitude(value) - integral * Ticks) = Ticks
  <2>1. GetComponents(value, n, p) =
          [integral |-> IF odd_half THEN integral + 1 ELSE integral,
           fractional |-> IF carries THEN 0 ELSE rounded, negative |-> value < 0]
    BY DEF GetComponents, ComponentsWith
  <2>2. whole = W
    BY <1>1, <1>3, <1>4
  <2>3. rounded = R
    <3>1. (Magnitude(value) % Ticks) * Power(10, n) = x
      BY <1>1, <1>2, <1>3, <1>4, <1>5
    <3> QED
      BY <3>1, <1>6, <1>8, Zenon
  <2> HIDE DEF rounded, whole
  <2>4. carries <=> carry
    BY <2>3, <1>2, <1>10, Zenon
  <2> HIDE DEF carries
  <2>5. integral = I
    BY <2>2, <2>4, <1>11, Zenon
  <2> HIDE DEF integral
  <2>6. odd_half <=> odd
    BY <2>5, <1>1, <1>3, Zenon
  <2> HIDE DEF odd_half
  <2>7. (IF odd_half THEN integral + 1 ELSE integral) = i /\ (IF carries THEN 0 ELSE rounded) = g
    BY <2>3, <2>4, <2>5, <2>6, <1>13, <1>14, Zenon
  <2>8. GetComponents(value, n, p) = [integral |-> i, fractional |-> g, negative |-> value < 0]
    BY <2>1, <2>7, Zenon
  <2> QED
    BY <2>8
<1>16. g < P
  BY <1>7, <1>14
<1>17. n = 0 => P = 1
  <2>1. 10 \in Nat \ {0}
    OBVIOUS
  <2> QED
    BY <2>1, <1>2, PowerSteps
<1>18. odd <=> Tied(n, W, f, R)
  <2>1. CASE carry
    <3>1. (W + 1) * t = W * t + t /\ W * t \in Nat
      OBVIOUS
    <3>2. A - I * t = f - t
      BY <3>1, <2>1, <1>4, <1>11
    <3>3. ~odd
      BY <3>2
    <3>4. R # 0
      BY <2>1
    <3> QED
      BY <3>3, <3>4 DEF Tied
  <2>2. CASE ~carry
    <3>1. I = W /\ A - I * t = f
      <4>1. W * t \in Nat
        OBVIOUS
      <4> QED
        BY <4>1, <2>2, <1>4, <1>11
    <3>2. n = 0 => R = 0
      BY <2>2, <1>7, <1>17
    <3> QED
      BY <3>1, <3>2, <1>1 DEF Tied
  <2> QED
    BY <2>1, <2>2
<1>21. /\ Magnitude(value) = W * Ticks + f /\ f < Ticks
       /\ R = HalfEven(FloatRound(f * Power(10, n), p), Ticks) /\ R <= Power(10, n)
       /\ g < Power(10, n)
  <2>1. Magnitude(value) = W * Ticks + f /\ f < Ticks
    BY <1>1, <1>3, <1>4
  <2>2. R = HalfEven(FloatRound(f * Power(10, n), p), Ticks)
    BY <1>1, <1>2, <1>5, <1>6, <1>7, Zenon
  <2>3. R <= Power(10, n) /\ g < Power(10, n)
    BY <1>2, <1>7, <1>16
  <2> QED
    BY <2>1, <2>2, <2>3
<1>19. CASE Tied(n, W, f, R)
  <2>1. ~carry /\ odd
    BY <1>18, <1>19 DEF Tied
  <2>2. i = W + 1 /\ g = 0
    BY <2>1, <1>11, <1>13, <1>14, <1>19 DEF Tied
  <2>3. Split(value, n, p, W, f, R, i, g)
    BY <2>2, <1>21, <1>19, Zenon DEF Split
  <2> QED
    BY <2>3, <1>15
<1>20. CASE ~Tied(n, W, f, R)
  <2>1. i * P + g = W * P + R
    <3>1. CASE carry
      <4>1. i = W + 1 /\ g = 0 /\ R = P
        BY <3>1, <1>11, <1>13, <1>14, <1>18, <1>20
      <4>2. (W + 1) * P = W * P + P
        OBVIOUS
      <4> QED
        BY <4>1, <4>2
    <3>2. CASE ~carry
      <4>1. i = W /\ g = R
        BY <3>2, <1>11, <1>13, <1>14, <1>18, <1>20
      <4> QED
        BY <4>1
    <3> QED
      BY <3>1, <3>2
  <2>3. Split(value, n, p, W, f, R, i, g)
    BY <2>1, <1>2, <1>21, <1>20, Zenon DEF Split
  <2> QED
    BY <2>3, <1>15
<1> QED
  BY <1>19, <1>20

(* Distances between whole numbers.                                        *)
LEMMA Distances ==
  ASSUME NEW a \in Int, NEW b \in Int, NEW c \in Int
  PROVE  /\ Magnitude(a - b) \in Nat /\ Magnitude(a - c) <= Magnitude(a - b) + Magnitude(b - c)
         /\ Magnitude(a - b) = Magnitude(b - a)
BY DEF Magnitude

(* Two numbers whose multiples are less than two steps apart.              *)
LEMMA Neighbours ==
  ASSUME NEW t \in Nat \ {0}, NEW a \in Nat, NEW b \in Nat, Magnitude(a * t - b * t) < 2 * t
  PROVE  a \in {b - 1, b, b + 1}
<1>1. ASSUME NEW x \in Nat, NEW y \in Nat, Magnitude(x * t - y * t) < 2 * t PROVE x <= y + 1
  <2> SUFFICES ASSUME x > y + 1 PROVE FALSE
    OBVIOUS
  <2>1. PICK d \in Nat : x = y + 2 + d
    <3>1. x - y - 2 \in Nat /\ x = y + 2 + (x - y - 2)
      OBVIOUS
    <3> QED
      BY <3>1
  <2>2. x * t = y * t + 2 * t + d * t /\ d * t \in Nat /\ y * t \in Nat
    BY <2>1
  <2> QED
    BY <2>2, <1>1 DEF Magnitude
<1>2. a <= b + 1
  BY <1>1
<1>3. b <= a + 1
  <2>1. PICK u \in Int, v \in Int : u = a * t /\ v = b * t
    <3>1. a * t \in Int /\ b * t \in Int
      OBVIOUS
    <3> QED
      BY <3>1
  <2>2. Magnitude(v - u) < 2 * t
    BY <2>1 DEF Magnitude
  <2>3. Magnitude(b * t - a * t) < 2 * t
    BY <2>1, <2>2
  <2> QED
    BY <2>3, <1>1
<1> QED
  BY <1>2, <1>3

(* The decimal of i and g is what a float is to be shown as.               *)
Nearest(value, n, p, i, g) ==
  \E units \in Nat, nearest \in Nat :
    /\ units = i * Power(10, n) + g
    /\ nearest = HalfEven(Magnitude(value) * Power(10, n), Ticks)
    /\ Near(units, value, n, p) /\ units \in {nearest - 1, nearest, nearest + 1}

(* The decimal that GetComponents finds is nearest, but for the rounding   *)
(* of the fraction's product.                                              *)
LEMMA SplitNear ==
  ASSUME NEW p \in Policies, NEW value \in Int, NEW n \in Nat, Power(10, n) < Power(2, p.float),
         NEW W \in Nat, NEW f \in Nat, NEW R \in Nat, NEW i \in Nat, NEW g \in Nat,
         Split(value, n, p, W, f, R, i, g)
  PROVE  Nearest(value, n, p, i, g)
<1>1. PICK t \in Nat \ {0} : t = Ticks
  BY TicksNat
<1>2. PICK P \in Nat \ {0} : P = Power(10, n)
  <2>1. 10 \in Nat \ {0}
    OBVIOUS
  <2> QED
    BY <2>1, Powers
<1>3. PICK A \in Nat : A = Magnitude(value)
  BY MagnitudeNat
<1>4. PICK q \in Nat \ {0} : q = Power(2, p.float)
  <2>1. p.float \in Nat /\ 2 \in Nat \ {0}
    BY PolicyFacts
  <2> QED
    BY <2>1, Powers
<1>5. A = W * t + f /\ f < t
  BY <1>1, <1>3 DEF Split
<1>6. PICK x \in Nat : x = f * P
  <2>1. f * P \in Nat
    OBVIOUS
  <2> QED
    BY <2>1
<1>7. PICK y \in Nat : y = FloatRound(x, p)
  BY RoundedNat
<1>8. R = HalfEven(y, t) /\ R <= P /\ g < P
  BY <1>1, <1>2, <1>6, <1>7 DEF Split
<1>9. IF Tied(n, W, f, R) THEN i = W + 1 /\ g = 0 ELSE i * P + g = W * P + R
  BY <1>2 DEF Split
<1>10. PICK E \in Nat, k \in Nat : k = W * P /\ E = A * P /\ E = k * t + x
  <2>1. W * P \in Nat /\ A * P \in Nat
    OBVIOUS
  <2>2. (W * t + f) * P = (W * P) * t + f * P
    OBVIOUS
  <2> QED
    BY <2>1, <2>2, <1>5, <1>6
<1>11. PICK u \in Nat : u = i * P + g
  <2>1. i * P + g \in Nat
    OBVIOUS
  <2> QED
    BY <2>1
<1>12. n = 0 => P = 1
  <2>1. 10 \in Nat \ {0}
    OBVIOUS
  <2> QED
    BY <2>1, <1>2, PowerSteps
<1>13. PICK e \in Nat : e = Magnitude(u * t - E)
  <2>1. u * t - E \in Int
    OBVIOUS
  <2> QED
    BY <2>1, MagnitudeNat
<1>14. (2 * e) * q <= t * q + 2 * x
  <2>0. t * q \in Nat
    OBVIOUS
  <2>1. CASE Tied(n, W, f, R)
    <3>1. P = 1 /\ u = W + 1 /\ x = f /\ 2 * f = t /\ E = A
      BY <2>1, <1>1, <1>6, <1>9, <1>10, <1>11, <1>12 DEF Tied
    <3>2. u * t = W * t + t /\ W * t \in Nat
      BY <3>1
    <3>3. u * t - E = f
      BY <3>1, <3>2, <1>5
    <3>4. 2 * e = t
      BY <3>1, <3>3, <1>13 DEF Magnitude
    <3> QED
      BY <3>4, <2>0
  <2>2. CASE ~Tied(n, W, f, R)
    <3>1. u = k + R
      BY <2>2, <1>9, <1>10, <1>11
    <3>2. PICK z \in Nat : z = R * t /\ u * t - E = z - x
      <4>1. R * t \in Nat /\ k * t \in Nat /\ (k + R) * t = k * t + R * t
        OBVIOUS
      <4> QED
        BY <4>1, <3>1, <1>10
    <3>3. PICK a \in Nat : a = Magnitude(z - y) /\ 2 * a <= t
      <4>1. 2 * Magnitude(R * t - y) <= t
        BY <1>8, HalfEvenFacts
      <4>2. Magnitude(z - y) \in Nat
        <5>1. z - y \in Int
          OBVIOUS
        <5> QED
          BY <5>1, MagnitudeNat
      <4> QED
        BY <4>1, <4>2, <3>2
    <3>4. PICK b \in Nat : b = Magnitude(y - x) /\ b * q <= x
      <4>1. Magnitude(y - x) * q <= x
        BY <1>4, <1>7, RoundError
      <4>2. Magnitude(y - x) \in Nat
        <5>1. y - x \in Int
          OBVIOUS
        <5> QED
          BY <5>1, MagnitudeNat
      <4> QED
        BY <4>1, <4>2
    <3>5. e <= a + b
      <4>1. z \in Int /\ y \in Int /\ x \in Int
        OBVIOUS
      <4>2. Magnitude(z - x) <= Magnitude(z - y) + Magnitude(y - x)
        BY <4>1, Distances
      <4> QED
        BY <4>2, <3>2, <3>3, <3>4, <1>13
    <3>6. (2 * e) * q <= (2 * a) * q + 2 * (b * q)
      <4>1. PICK d \in Nat : a + b = e + d
        <5>1. a + b - e \in Nat /\ a + b = e + (a + b - e)
          BY <3>5
        <5> QED
          BY <5>1
      <4>2. (2 * a) * q + 2 * (b * q) = (2 * e) * q + (2 * d) * q
        <5>1. (2 * a) * q + 2 * (b * q) = (2 * (a + b)) * q /\ (2 * (e + d)) * q = (2 * e) * q + (2 * d) * q
          OBVIOUS
        <5> QED
          BY <5>1, <4>1
      <4>3. (2 * d) * q \in Nat /\ (2 * e) * q \in Nat
        OBVIOUS
      <4> QED
        BY <4>2, <4>3
    <3>7. (2 * a) * q <= t * q
      <4>1. PICK d \in Nat : t = 2 * a + d
        <5>1. t - 2 * a \in Nat /\ t = 2 * a + (t - 2 * a)
          BY <3>3
        <5> QED
          BY <5>1
      <4>2. t * q = (2 * a) * q + d * q /\ d * q \in Nat /\ (2 * a) * q \in Nat
        BY <4>1
      <4> QED
        BY <4>2
    <3>8. (2 * e) * q \in Nat /\ (2 * a) * q \in Nat /\ b * q \in Nat
      OBVIOUS
    <3> QED
      BY <3>6, <3>7, <3>8, <3>4, <2>0
  <2> QED
    BY <2>1, <2>2
<1>15. ASSUME y = x PROVE u = HalfEven(E, t)
  <2>1. CASE n # 0
    <3>1. PICK h \in Nat : k = 2 * h
      <4>1. n - 1 \in Nat /\ (n - 1) + 1 = n /\ 10 \in Nat \ {0}
        BY <2>1
      <4>2. PICK b \in Nat : b = Power(10, n - 1) /\ P = 10 * b
        <5>1. Power(10, n - 1) \in Nat /\ Power(10, (n - 1) + 1) = 10 * Power(10, n - 1)
          BY <4>1, PowerSteps
        <5>2. Power(10, (n - 1) + 1) = P
          BY <4>1, <1>2, Zenon
        <5> QED
          BY <5>1, <5>2
      <4>3. W * (10 * b) = 2 * (W * (5 * b)) /\ W * (5 * b) \in Nat
        OBVIOUS
      <4> QED
        BY <4>2, <4>3, <1>10
    <3>2. HalfEven((2 * h) * t + x, t) = 2 * h + HalfEven(x, t)
      BY HalfEvenShift
    <3>3. u = k + R
      BY <2>1, <1>9, <1>10, <1>11 DEF Tied
    <3> QED
      BY <3>1, <3>2, <3>3, <1>8, <1>10, <1>15
  <2>2. CASE n = 0
    <3>1. P = 1 /\ x = f /\ k = W
      BY <2>2, <1>6, <1>10, <1>12
    <3>2. PICK v : v = HalfEven(E, t)
      OBVIOUS
    <3>3. v = IF 2 * f > t \/ (2 * f = t /\ W % 2 = 1) THEN W + 1 ELSE W
      <4>1. f \in 0..(t - 1) /\ E = W * t + f
        BY <3>1, <1>5, <1>10
      <4>2. HalfEven(E, t) = IF 2 * f > t \/ (2 * f = t /\ W % 2 = 1) THEN W + 1 ELSE W
        <5>1. f \in 0..(t - 1)
          BY <4>1
        <5>2. E = W * t + f
          BY <4>1
        <5> QED
          <6>1. DividedInto(E, t, W, f)
            BY <5>1, <5>2 DEF DividedInto
          <6> QED
            BY <6>1, HalfEvenIs
      <4> QED
        BY <3>2, <4>2, Zenon
    <3>4. R = IF 2 * f > t THEN 1 ELSE 0
      <4>1. f \in 0..(t - 1) /\ f = 0 * t + f /\ 0 \in Nat
        BY <1>5
      <4>2. HalfEven(f, t) = IF 2 * f > t \/ (2 * f = t /\ 0 % 2 = 1) THEN 0 + 1 ELSE 0
        <5>1. PICK z \in Nat : z = 0
          OBVIOUS
        <5>2. f \in 0..(t - 1)
          BY <4>1
        <5>3. f = z * t + f
          BY <5>1
        <5>4. HalfEven(f, t) = IF 2 * f > t \/ (2 * f = t /\ z % 2 = 1) THEN z + 1 ELSE z
          <6>1. DividedInto(f, t, z, f)
            BY <5>2, <5>3 DEF DividedInto
          <6> QED
            BY <6>1, HalfEvenIs
        <5> QED
          BY <5>1, <5>4, Zenon
      <4>3. 0 % 2 = 0
        OBVIOUS
      <4>4. HalfEven(f, t) = IF 2 * f > t THEN 1 ELSE 0
        BY <4>2, <4>3
      <4> QED
        BY <4>4, <3>1, <1>8, <1>15
    <3>5. CASE Tied(n, W, f, R)
      <4>1. u = W + 1
        BY <3>1, <3>5, <1>9, <1>11
      <4> QED
        BY <4>1, <3>2, <3>3, <3>5, <1>1 DEF Tied
    <3>6. CASE ~Tied(n, W, f, R)
      <4>1. u = W + R
        BY <3>1, <3>6, <1>9, <1>11
      <4>2. 2 * f = t => W % 2 # 1
        BY <3>4, <3>6, <2>2, <1>1 DEF Tied
      <4> QED
        BY <4>1, <4>2, <3>2, <3>3, <3>4
    <3> QED
      BY <3>5, <3>6
  <2> QED
    BY <2>1, <2>2
<1>16. Near(u, value, n, p)
  <2>1. Magnitude(value) * Power(10, n) = E
    BY <1>2, <1>3, <1>10
  <2>2. (Magnitude(value) % Ticks) * Power(10, n) = x
    <3>1. A % t = f
      <4>1. A \in Int /\ W \in Int /\ f \in 0..(t - 1)
        BY <1>5
      <4> QED
        BY <4>1, <1>5, DivisionIs
    <3> QED
      BY <3>1, <1>1, <1>2, <1>3, <1>6
  <2>3. 2 * Magnitude(u * Ticks - E) * Power(2, p.float) <= Ticks * Power(2, p.float) + 2 * x
    BY <1>1, <1>4, <1>13, <1>14
  <2>4. FloatRound(x, p) = x => u = HalfEven(E, Ticks)
    BY <1>1, <1>7, <1>15
  <2> QED
    BY <2>1, <2>2, <2>3, <2>4, Zenon DEF Near
<1>17. PICK v \in Nat : v = HalfEven(E, t) /\ 2 * Magnitude(v * t - E) <= t
  BY HalfEvenFacts
<1>18. u \in {v - 1, v, v + 1}
  <2>1. 2 * e < 3 * t
    <3> SUFFICES ASSUME 2 * e >= 3 * t PROVE FALSE
      OBVIOUS
    <3>1. PICK d \in Nat : 2 * e = 3 * t + d
      <4>1. 2 * e - 3 * t \in Nat /\ 2 * e = 3 * t + (2 * e - 3 * t)
        OBVIOUS
      <4> QED
        BY <4>1
    <3>2. (2 * e) * q = 3 * (t * q) + d * q /\ d * q \in Nat /\ t * q \in Nat
      <4>1. (3 * t + d) * q = 3 * (t * q) + d * q
        OBVIOUS
      <4> QED
        BY <4>1, <3>1
    <3>3. PICK b \in Nat : q = P + 1 + b
      <4>1. q - P - 1 \in Nat /\ q = P + 1 + (q - P - 1)
        BY <1>2, <1>4
      <4> QED
        BY <4>1
    <3>4. t * q = t * P + t + t * b /\ t * b \in Nat /\ t * P \in Nat
      BY <3>3
    <3>5. x <= t * P
      <4>1. PICK c \in Nat : t = f + c
        <5>1. t - f \in Nat /\ t = f + (t - f)
          BY <1>5
        <5> QED
          BY <5>1
      <4>2. t * P = f * P + c * P /\ c * P \in Nat
        BY <4>1
      <4> QED
        BY <4>2, <1>6
    <3> QED
      BY <3>2, <3>4, <3>5, <1>14
  <2>2. PICK a \in Int, b \in Int : a = u * t /\ b = v * t
    <3>1. u * t \in Int /\ v * t \in Int
      OBVIOUS
    <3> QED
      BY <3>1
  <2>3. Magnitude(a - b) <= Magnitude(a - E) + Magnitude(E - b) /\ Magnitude(E - b) = Magnitude(b - E)
    <3>1. E \in Int
      OBVIOUS
    <3> QED
      BY <3>1, Distances
  <2>4. Magnitude(a - E) = e /\ Magnitude(a - b) \in Nat /\ Magnitude(b - E) \in Nat
    <3>1. a - b \in Int /\ b - E \in Int
      OBVIOUS
    <3> QED
      BY <3>1, <2>2, <1>13, MagnitudeNat
  <2>5. 2 * Magnitude(b - E) <= t
    BY <2>2, <1>17
  <2>6. Magnitude(a - b) < 2 * t
    BY <2>1, <2>3, <2>4, <2>5
  <2>7. Magnitude(u * t - v * t) < 2 * t
    BY <2>2, <2>6
  <2> QED
    BY <2>7, Neighbours
<1> QED
  <2>1. u = i * Power(10, n) + g
    BY <1>2, <1>11
  <2>2. v = HalfEven(Magnitude(value) * Power(10, n), Ticks)
    BY <1>1, <1>2, <1>3, <1>10, <1>17
  <2> QED
    BY <2>1, <2>2, <1>16, <1>18 DEF Nearest

(* One digit more of g.                                                    *)
LEMMA DigitPart ==
  ASSUME NEW g \in Nat, NEW P \in Nat \ {0}
  PROVE  g \div P = 10 * (g \div (10 * P)) + ((g \div P) % 10)
<1>1. PICK c \in Nat, r \in 0..(P - 1) : c = g \div P /\ g = c * P + r
  <2>1. g \in Int
    OBVIOUS
  <2>2. g = (g \div P) * P + (g % P) /\ g \div P \in Nat /\ g % P \in 0..(P - 1)
    BY <2>1, DivisionExists, QuotientNat
  <2> QED
    BY <2>2
<1>2. PICK b \in Nat, d \in 0..9 : c = b * 10 + d /\ d = c % 10
  <2>1. c \in Int /\ 10 \in Nat \ {0}
    OBVIOUS
  <2>2. c = (c \div 10) * 10 + (c % 10) /\ c \div 10 \in Nat /\ c % 10 \in 0..(10 - 1)
    BY <2>1, DivisionExists, QuotientNat
  <2> QED
    BY <2>2
<1>3. PICK T \in Nat \ {0} : T = 10 * P
  OBVIOUS
<1>4. PICK s \in Nat : s = d * P + r
  <2>1. d * P + r \in Nat
    OBVIOUS
  <2> QED
    BY <2>1
<1>5. s < T
  <2>1. PICK e \in Nat : 9 = d + e
    <3>1. 9 - d \in Nat /\ 9 = d + (9 - d)
      OBVIOUS
    <3> QED
      BY <3>1
  <2>2. 9 * P = d * P + e * P /\ e * P \in Nat /\ d * P \in Nat
    <3>1. (d + e) * P = d * P + e * P
      OBVIOUS
    <3> QED
      BY <2>1, <3>1
  <2> QED
    BY <2>2, <1>3, <1>4
<1>6. g = b * T + s
  <2>1. (b * 10 + d) * P = b * (10 * P) + d * P
    OBVIOUS
  <2>2. c * P = b * T + d * P
    BY <2>1, <1>2, <1>3
  <2>3. b * T \in Nat /\ d * P \in Nat
    OBVIOUS
  <2> QED
    BY <2>2, <2>3, <1>1, <1>4
<1>7. g \div T = b
  <2>1. g \in Int /\ b \in Int /\ s \in 0..(T - 1)
    BY <1>5
  <2> QED
    BY <2>1, <1>6, DivisionIs
<1> QED
  BY <1>1, <1>2, <1>3, <1>7

(* The digits behind the point, from the left.                             *)
FracOf(g, n) == [i \in 1..n |-> LowerDigits[((g \div Power(10, n - i)) % 10) + 1]]

(* The digits behind the point, one for each place.                        *)
LEMMA FracDigits ==
  ASSUME NEW n \in Nat, NEW g \in Nat
  PROVE  /\ FracOf(g, n) \in Seq(DigitsOf(LowerDigits, 10)) /\ FracOf(g, n) \in Seq(Char) /\ Len(FracOf(g, n)) = n
         /\ \A i \in 1..n : DigitOf(FracOf(g, n)[i], LowerDigits, 10) = (g \div Power(10, n - i)) % 10
<1>1. ASSUME NEW i \in 1..n PROVE (g \div Power(10, n - i)) % 10 \in 0..(10 - 1)
  <2>1. n - i \in Nat /\ 10 \in Nat \ {0}
    OBVIOUS
  <2>2. Power(10, n - i) \in Nat \ {0}
    BY <2>1, Powers
  <2>3. g \div Power(10, n - i) \in Nat
    BY <2>2, QuotientNat
  <2> QED
    BY <2>1, <2>3, QuotientNat
<1>2. ASSUME NEW i \in 1..n
      PROVE  /\ LowerDigits[((g \div Power(10, n - i)) % 10) + 1] \in DigitsOf(LowerDigits, 10)
             /\ DigitOf(LowerDigits[((g \div Power(10, n - i)) % 10) + 1], LowerDigits, 10) = (g \div Power(10, n - i)) % 10
  <2>1. PICK d \in 0..(10 - 1) : d = (g \div Power(10, n - i)) % 10
    BY <1>1
  <2>2. LowerDigits[d + 1] \in DigitsOf(LowerDigits, 10)
    BY DEF DigitsOf
  <2>3. DigitOf(LowerDigits[d + 1], LowerDigits, 10) = d
    BY Alphabets, DigitOfDigit
  <2> QED
    BY <2>1, <2>2, <2>3
<1>3. PICK s : s = FracOf(g, n)
  OBVIOUS
<1>4. s \in Seq(DigitsOf(LowerDigits, 10))
  BY <1>2, <1>3, IsASeq DEF FracOf
<1>5. Len(s) = n /\ \A i \in 1..n : s[i] = LowerDigits[((g \div Power(10, n - i)) % 10) + 1]
  BY <1>3 DEF FracOf
<1>6. s \in Seq(Char)
  BY <1>4, Alphabets, NumeralsInDigits
<1> QED
  BY <1>2, <1>3, <1>4, <1>5, <1>6

(* A whole number and n digits more, read as one numeral.                  *)
LEMMA DecimalValue ==
  ASSUME NEW n \in Nat, NEW g \in Nat, g < Power(10, n), NEW w \in Seq(DigitsOf(LowerDigits, 10))
  PROVE  /\ w \o FracOf(g, n) \in Seq(DigitsOf(LowerDigits, 10))
         /\ Valued(w \o FracOf(g, n), LowerDigits, 10) = Valued(w, LowerDigits, 10) * Power(10, n) + g
<1> DEFINE D == DigitsOf(LowerDigits, 10)
           V(s) == Valued(s, LowerDigits, 10)
<1>0. 10 \in Nat \ {0} /\ 10 \in Nat
  OBVIOUS
<1>1. PICK t : t = FracOf(g, n)
  OBVIOUS
<1>2. /\ t \in Seq(D) /\ Len(t) = n
      /\ \A i \in 1..n : DigitOf(t[i], LowerDigits, 10) = (g \div Power(10, n - i)) % 10
  BY <1>1, FracDigits
<1>3. PICK s : s = w \o t
  OBVIOUS
<1>4. PICK L \in Nat : L = Len(w)
  OBVIOUS
<1>5. /\ s \in Seq(D) /\ Len(s) = L + n
      /\ \A i \in 1..L : s[i] = w[i]
      /\ \A i \in 1..n : s[L + i] = t[i]
  <2>1. /\ w \o t \in Seq(D) /\ Len(w \o t) = Len(w) + Len(t)
        /\ \A i \in 1..(Len(w) + Len(t)) : (w \o t)[i] = IF i <= Len(w) THEN w[i] ELSE t[i - Len(w)]
    BY <1>2, ConcatProperties
  <2>2. \A i \in 1..L : i \in 1..(L + n) /\ i <= L
    OBVIOUS
  <2>3. \A i \in 1..n : L + i \in 1..(L + n) /\ ~(L + i <= L) /\ L + i - L = i
    OBVIOUS
  <2> HIDE DEF D
  <2> QED
    BY <2>1, <2>2, <2>3, <1>2, <1>3, <1>4
<1>6. InDigits(s, LowerDigits, 10)
  BY <1>5, Alphabets, NumeralsInDigits
<1>7. PICK f \in [Nat -> Nat] : Values(f, s, LowerDigits, 10)
  BY <1>0, <1>5, <1>6, ValueFunction
<1>8. V(s) = f[L + n]
  <2>0. s \in Seq(D)
    BY <1>5
  <2>1. V(s) = f[Len(s)]
    BY <1>0, <2>0, <1>7, ValuedIs
  <2> QED
    BY <2>1, <1>5
<1>9. f[0] = 0 /\ \A k \in 1..(L + n) : f[k] = 10 * f[k - 1] + DigitOf(s[k], LowerDigits, 10)
  BY <1>5, <1>7 DEF Values
<1>10. V(w) = f[L]
  <2>1. Values(f, w, LowerDigits, 10)
    <3>1. ASSUME NEW k \in 1..L PROVE f[k] = 10 * f[k - 1] + DigitOf(w[k], LowerDigits, 10)
      <4>1. k \in 1..(L + n) /\ s[k] = w[k]
        BY <1>5
      <4> QED
        BY <4>1, <1>9
    <3> QED
      BY <3>1, <1>4, <1>9 DEF Values
  <2>2. V(w) = f[Len(w)]
    BY <2>1, <1>0, ValuedIs
  <2> QED
    BY <2>2, <1>4
<1>11. PICK v \in Nat : v = f[L]
  OBVIOUS
<1> DEFINE Good(k) == f[L + k] = v * Power(10, k) + (g \div Power(10, n - k))
           T == {k \in 0..n : ~Good(k)}
<1>12. Good(0)
  <2>1. Power(10, 0) = 1 /\ n - 0 = n /\ L + 0 = L
    BY <1>0, PowerSteps
  <2>2. PICK P \in Nat \ {0} : P = Power(10, n)
    BY <1>0, Powers
  <2>3. g \div P = 0
    <3>1. g \in 0..(P - 1)
      BY <2>2
    <3>2. g \in Int /\ 0 \in Int /\ g = 0 * P + g
      OBVIOUS
    <3> QED
      BY <3>1, <3>2, DivisionIs
  <2> QED
    BY <2>1, <2>2, <2>3, <1>11
<1>13. T = {}
  <2> SUFFICES ASSUME T # {} PROVE FALSE
    OBVIOUS
  <2>1. T \subseteq Nat
    OBVIOUS
  <2>2. PICK k \in T : \A j \in T : k <= j
    <3> HIDE DEF T
    <3> QED
      BY <2>1, LeastElement
  <2>3. k \in 0..n /\ ~Good(k)
    BY <2>2
  <2>4. k # 0
    <3> HIDE DEF Good
    <3> QED
      BY <2>3, <1>12
  <2>5. k - 1 \in 0..n /\ ~(k <= k - 1) /\ k \in 1..n /\ (k - 1) + 1 = k
    BY <2>3, <2>4
  <2>6. Good(k - 1)
    <3> HIDE DEF Good
    <3> QED
      BY <2>5, <2>2
  <2>7. PICK P \in Nat \ {0} : P = Power(10, k - 1) /\ Power(10, k) = 10 * P
    <3>1. k - 1 \in Nat
      BY <2>5
    <3>2. Power(10, k - 1) \in Nat \ {0} /\ Power(10, (k - 1) + 1) = 10 * Power(10, k - 1)
      BY <3>1, <1>0, PowerSteps
    <3> QED
      BY <3>2, <2>5
  <2>8. PICK Q \in Nat \ {0} : Q = Power(10, n - k) /\ Power(10, n - (k - 1)) = 10 * Q
    <3>1. n - k \in Nat /\ (n - k) + 1 = n - (k - 1)
      BY <2>5
    <3>2. Power(10, n - k) \in Nat \ {0} /\ Power(10, (n - k) + 1) = 10 * Power(10, n - k)
      BY <3>1, <1>0, PowerSteps
    <3> QED
      BY <3>1, <3>2
  <2>9. g \div Q = 10 * (g \div (10 * Q)) + ((g \div Q) % 10)
    BY DigitPart
  <2>10. PICK c \in Nat, b \in Nat : c = g \div Q /\ b = g \div (10 * Q)
    <3>1. 10 * Q \in Nat \ {0}
      OBVIOUS
    <3> QED
      BY <3>1, QuotientNat
  <2>11. PICK d \in Int : d = c % 10 /\ c = 10 * b + d
    <3>1. c = 10 * b + (c % 10)
      BY <2>9, <2>10
    <3> QED
      BY <3>1
  <2>12. f[L + k] = 10 * f[L + (k - 1)] + d
    <3>1. L + k \in 1..(L + n) /\ (L + k) - 1 = L + (k - 1)
      BY <2>5
    <3>2. f[L + k] = 10 * f[L + (k - 1)] + DigitOf(s[L + k], LowerDigits, 10)
      BY <3>1, <1>9
    <3>3. DigitOf(s[L + k], LowerDigits, 10) = d
      BY <2>5, <2>8, <2>10, <2>11, <1>2, <1>5
    <3> QED
      BY <3>2, <3>3
  <2>13. f[L + (k - 1)] = v * P + b
    BY <2>6, <2>7, <2>8, <2>10
  <2>14. v * (10 * P) = 10 * (v * P) /\ v * P \in Nat
    OBVIOUS
  <2>15. f[L + k] = v * (10 * P) + c
    BY <2>11, <2>12, <2>13, <2>14
  <2>16. Good(k)
    BY <2>15, <2>7, <2>8, <2>10
  <2> QED
    BY <2>3, <2>16
<1>14. Good(n)
  <2>1. n \in 0..n
    OBVIOUS
  <2> HIDE DEF Good
  <2> QED
    BY <2>1, <1>13
<1>15. g \div Power(10, n - n) = g
  <2>1. n - n = 0 /\ Power(10, 0) = 1
    BY <1>0, PowerSteps
  <2>2. g \div 1 = g
    <3>1. g \in Int /\ 0 \in 0..(1 - 1) /\ g = g * 1 + 0 /\ 1 \in Nat \ {0}
      OBVIOUS
    <3> QED
      BY <3>1, DivisionIs
  <2> QED
    BY <2>1, <2>2
<1>16. f[L + n] = v * Power(10, n) + g
  BY <1>14, <1>15
<1> QED
  BY <1>1, <1>3, <1>5, <1>8, <1>10, <1>11, <1>16

(* The parts of a text in three parts.                                     *)
LEMMA ThreeParts ==
  ASSUME NEW a \in Seq(Char), NEW b \in Seq(Char), NEW c \in Seq(Char), NEW whole, whole = a \o b \o c
  PROVE  /\ whole \in Seq(Char) /\ Len(whole) = Len(a) + Len(b) + Len(c)
         /\ SubSeq(whole, 1, Len(a)) = a
         /\ SubSeq(whole, Len(whole) - Len(c) + 1, Len(whole)) = c
         /\ Len(b) > 0 => whole[Len(a) + 1] = b[1]
<1>1. PICK ab \in Seq(Char) : ab = a \o b
  BY Joined
<1>2. PICK t \in Seq(Char) : t = whole /\ t = ab \o c
  <2>1. whole = ab \o c /\ ab \o c \in Seq(Char)
    BY <1>1, Joined
  <2> QED
    BY <2>1
<1>3. PICK k \in Nat, l \in Nat, m \in Nat : k = Len(a) /\ l = Len(b) /\ m = Len(c)
  OBVIOUS
<1>4. Len(ab) = k + l /\ \A i \in 1..(k + l) : ab[i] = IF i <= k THEN a[i] ELSE b[i - k]
  BY <1>1, <1>3, ConcatProperties
<1>5. Len(t) = k + l + m /\ \A i \in 1..(k + l + m) : t[i] = IF i <= k + l THEN ab[i] ELSE c[i - (k + l)]
  <2>1. /\ Len(ab \o c) = Len(ab) + Len(c)
        /\ \A i \in 1..(Len(ab) + Len(c)) : (ab \o c)[i] = IF i <= Len(ab) THEN ab[i] ELSE c[i - Len(ab)]
    BY ConcatProperties
  <2>2. Len(ab) = k + l /\ Len(c) = m
    BY <1>3, <1>4
  <2> QED
    BY <2>1, <2>2, <1>2, Zenon
<1>6. SubSeq(t, 1, k) = a
  <2>1. PICK s : s = SubSeq(t, 1, k)
    OBVIOUS
  <2>2. \A i \in 1..k : i \in 1..(k + l) /\ i \in 1..(k + l + m) /\ i \in 1..Len(t) /\ i <= k + l /\ i <= k
    BY <1>5
  <2>3. s \in Seq(Char) /\ Len(s) = k /\ \A i \in 1..k : s[i] = t[i]
    <3>1. \A i \in 1..k : t[i] \in Char /\ 1 + i - 1 = i
      BY <2>2, ElementOfSeq
    <3>2. 1 \in Int /\ k \in Int /\ k - 1 + 1 = k /\ (IF 1 <= k THEN k - 1 + 1 ELSE 0) = k
      OBVIOUS
    <3>3. /\ SubSeq(t, 1, k) \in Seq(Char)
          /\ Len(SubSeq(t, 1, k)) = IF 1 <= k THEN k - 1 + 1 ELSE 0
          /\ \A i \in 1..(k - 1 + 1) : SubSeq(t, 1, k)[i] = t[1 + i - 1]
      BY <3>1, <3>2, SubSeqProperties
    <3> QED
      BY <3>1, <3>2, <3>3, <2>1
  <2>4. \A i \in 1..k : s[i] = a[i]
    BY <2>2, <2>3, <1>4, <1>5
  <2> QED
    BY <2>1, <2>3, <2>4, <1>3, SeqEqual
<1>7. SubSeq(t, k + l + 1, k + l + m) = c
  <2>1. PICK s : s = SubSeq(t, k + l + 1, k + l + m)
    OBVIOUS
  <2>2. PICK from \in Int, to \in Int : from = k + l + 1 /\ to = k + l + m
    OBVIOUS
  <2>0. \A i \in from..to : i \in 1..Len(t)
    <3>1. \A i \in from..to : i \in 1..(k + l + m)
      BY <2>2
    <3> QED
      BY <3>1, <1>5
  <2>3. /\ to - from + 1 = m /\ (IF from <= to THEN to - from + 1 ELSE 0) = m
        /\ \A i \in 1..m : /\ from + i - 1 \in 1..(k + l + m) /\ ~(from + i - 1 <= k + l)
                           /\ from + i - 1 - (k + l) = i
    BY <2>2
  <2>4. \A i \in from..to : t[i] \in Char
    BY <2>0, ElementOfSeq
  <2>5. /\ SubSeq(t, from, to) \in Seq(Char)
        /\ Len(SubSeq(t, from, to)) = IF from <= to THEN to - from + 1 ELSE 0
        /\ \A i \in 1..(to - from + 1) : SubSeq(t, from, to)[i] = t[from + i - 1]
    BY <2>4, SubSeqProperties
  <2>6. s \in Seq(Char) /\ Len(s) = m /\ \A i \in 1..m : s[i] = c[i]
    <3>1. s \in Seq(Char) /\ Len(s) = m /\ \A i \in 1..m : s[i] = t[from + i - 1]
      BY <2>1, <2>2, <2>3, <2>5
    <3>2. ASSUME NEW i \in 1..m PROVE t[from + i - 1] = c[i]
      <4>0. PICK j : j = from + i - 1
        OBVIOUS
      <4>1. j \in 1..(k + l + m) /\ ~(j <= k + l) /\ j - (k + l) = i
        BY <4>0, <2>2
      <4>2. t[j] = c[j - (k + l)]
        BY <4>1, <1>5
      <4> QED
        BY <4>0, <4>1, <4>2
    <3> QED
      BY <3>1, <3>2
  <2> QED
    BY <2>1, <2>6, <1>3, SeqEqual
<1>8. l > 0 => t[k + 1] = b[1]
  <2> SUFFICES ASSUME l > 0 PROVE t[k + 1] = b[1]
    OBVIOUS
  <2>1. k + 1 \in 1..(k + l) /\ k + 1 \in 1..(k + l + m) /\ k + 1 <= k + l /\ ~(k + 1 <= k) /\ k + 1 - k = 1
    OBVIOUS
  <2> QED
    BY <2>1, <1>4, <1>5
<1>9. Len(t) - m + 1 = k + l + 1
  BY <1>5
<1> QED
  BY <1>1, <1>2, <1>3, <1>5, <1>6, <1>7, <1>8, <1>9

(* What WriteFloat puts behind the sign is the decimal of its components.  *)
DecimalOf(i, g, n, m) == WriteUnsigned(i) \o If(n > 0 \/ "#" \in m.flags, ".") \o FracOf(g, n)

(* The decimal of i and g spells i, a point and g with all its places.     *)
LEMMA DecimalText ==
  ASSUME NEW m, NEW n \in Nat, m.precision = n, NEW i \in Nat, NEW g \in Nat, g < Power(10, n)
  PROVE  /\ DecimalOf(i, g, n, m) \in Seq(Char) /\ DecimalOf(i, g, n, m) # <<>>
         /\ IsDecimal(DecimalOf(i, g, n, m), m, i * Power(10, n) + g)
<1>1. PICK w : w = WriteUnsigned(i)
  OBVIOUS
<1>2. /\ w \in Seq(DigitsOf(LowerDigits, 10)) /\ w \in Seq(Char) /\ w # <<>>
      /\ Valued(w, LowerDigits, 10) = i
      /\ i > 0 => w[1] # "0"
      /\ Len(w) > 1 => i > 0
  BY <1>1, Alphabets, WrittenFacts DEF WriteUnsigned
<1>3. PICK frac : frac = FracOf(g, n)
  OBVIOUS
<1>4. frac \in Seq(Char) /\ Len(frac) = n
  BY <1>3, FracDigits
<1>5. PICK point \in BOOLEAN : point <=> (n > 0 \/ "#" \in m.flags)
  <2>1. CASE n > 0 \/ "#" \in m.flags
    <3>1. TRUE \in BOOLEAN /\ (TRUE <=> (n > 0 \/ "#" \in m.flags))
      BY <2>1
    <3> QED
      BY <3>1, Zenon
  <2>2. CASE ~(n > 0 \/ "#" \in m.flags)
    <3>1. FALSE \in BOOLEAN /\ (FALSE <=> (n > 0 \/ "#" \in m.flags))
      BY <2>2
    <3> QED
      BY <3>1, Zenon
  <2> QED
    BY <2>1, <2>2
<1>6. PICK dot : dot = If(n > 0 \/ "#" \in m.flags, ".")
  OBVIOUS
<1>7. dot \in Seq(Char) /\ Len(dot) = (IF point THEN 1 ELSE 0) /\ (point => dot[1] = ".")
  <2>1. dot = IF point THEN <<".">> ELSE <<>>
    BY <1>5, <1>6, Zenon DEF If
  <2>2. <<".">> \in Seq(Char) /\ <<>> \in Seq(Char)
    BY CodeChars, OneChar, EmptyText
  <2>3. Len(<<".">>) = 1 /\ <<".">>[1] = "." /\ Len(<<>>) = 0
    OBVIOUS
  <2>4. CASE point
    BY <2>1, <2>2, <2>3, <2>4
  <2>5. CASE ~point
    BY <2>1, <2>2, <2>3, <2>5
  <2> QED
    BY <2>4, <2>5
<1>8. PICK s : s = w \o dot \o frac
  OBVIOUS
<1>9. /\ s \in Seq(Char) /\ Len(s) = Len(w) + Len(dot) + n
      /\ SubSeq(s, 1, Len(w)) = w
      /\ SubSeq(s, Len(s) - n + 1, Len(s)) = frac
      /\ Len(dot) > 0 => s[Len(w) + 1] = dot[1]
  <2>1. PICK t : t = w \o dot \o frac
    OBVIOUS
  <2>2. /\ t \in Seq(Char) /\ Len(t) = Len(w) + Len(dot) + Len(frac)
        /\ SubSeq(t, 1, Len(w)) = w
        /\ SubSeq(t, Len(t) - Len(frac) + 1, Len(t)) = frac
        /\ Len(dot) > 0 => t[Len(w) + 1] = dot[1]
    <3>1. w \in Seq(Char) /\ dot \in Seq(Char) /\ frac \in Seq(Char)
      BY <1>2, <1>4, <1>7
    <3> QED
      BY <3>1, <2>1, ThreeParts
  <2>3. s = t /\ Len(frac) = n
    BY <2>1, <1>4, <1>8
  <2> QED
    BY <2>2, <2>3, Zenon
<1>10. Len(w) \in Nat /\ Len(w) # 0
  BY <1>2
<1>11. s # <<>>
  BY <1>7, <1>9, <1>10
<1>12. Len(s) - n - (IF point THEN 1 ELSE 0) = Len(w)
  BY <1>7, <1>9, <1>10
<1>13. PICK units \in Nat : units = i * Power(10, n) + g
  <2>1. 10 \in Nat \ {0}
    OBVIOUS
  <2>2. Power(10, n) \in Nat
    BY <2>1, Powers
  <2>3. \A P \in Nat : i * P + g \in Nat
    OBVIOUS
  <2> QED
    BY <2>2, <2>3
<1>14. Denotes(w \o frac, LowerDigits, 10, units)
  <2>1. PICK t : t = w \o frac
    OBVIOUS
  <2>2. t \in Seq(DigitsOf(LowerDigits, 10)) /\ Valued(t, LowerDigits, 10) = units
    BY <2>1, <1>2, <1>3, <1>13, DecimalValue
  <2>3. Range(t) \subseteq DigitsOf(LowerDigits, 10)
    BY <2>2, ElementOfSeq DEF Range
  <2> QED
    BY <2>1, <2>2, <2>3, AlphabetRange DEF Denotes
<1>15. IsDecimal(s, m, units)
  <2>1. PICK whole : whole = SubSeq(s, 1, Len(s) - n - (IF point THEN 1 ELSE 0))
    OBVIOUS
  <2>2. whole = w
    BY <2>1, <1>9, <1>12
  <2>3. point => s[Len(whole) + 1] = "."
    BY <2>2, <1>7, <1>9
  <2>4. whole # <<>> /\ (Len(whole) > 1 => whole[1] # "0")
    BY <2>2, <1>2
  <2>5. Denotes(whole \o SubSeq(s, Len(s) - n + 1, Len(s)), LowerDigits, 10, units)
    BY <2>2, <1>9, <1>14
  <2>6. IsDecimal(s, m, units) <=>
          LET body == SubSeq(s, 1, Len(s) - n - (IF point THEN 1 ELSE 0)) IN
          /\ body # <<>> /\ (Len(body) > 1 => body[1] # "0")
          /\ point => s[Len(body) + 1] = "."
          /\ Denotes(body \o SubSeq(s, Len(s) - n + 1, Len(s)), LowerDigits, 10, units)
    BY <1>5, Zenon DEF IsDecimal
  <2> QED
    BY <2>1, <2>3, <2>4, <2>5, <2>6, Zenon
<1> QED
  BY <1>1, <1>3, <1>6, <1>8, <1>9, <1>11, <1>13, <1>15 DEF DecimalOf

(* What WriteFloat puts, with and without the sign.                        *)
Shown(v, p, emit) == WriteFloat(v, spec.precision, p, Flagged("+"), emit, Flagged("#"), Flagged(" "))
ShownSign(v)      == Sign(v.ticks < 0, Flagged("+"), Flagged(" "))

Glued(a, b, c)      == (a \o b) \o c = a \o (b \o c)
InFront(s, a, b, c) == s \o a \o b \o c = s \o (a \o b \o c)

(* Texts one behind the other, in whatever order they are joined.          *)
LEMMA GluedTexts == \A a, b, c \in Seq(Char) : Glued(a, b, c)
BY ConcatAssociative DEF Glued

(* The sign in front of three parts.                                       *)
LEMMA SignInFront ==
  ASSUME NEW s \in Seq(Char), NEW a \in Seq(Char), NEW b \in Seq(Char), NEW c \in Seq(Char)
  PROVE  InFront(s, a, b, c)
<1>1. PICK d \in Seq(Char) : d = a \o b
  BY Joined
<1>2. Glued(s, a, b) /\ Glued(s, d, c)
  BY GluedTexts
<1>3. s \o a \o b = s \o d
  BY <1>1, <1>2, Zenon DEF Glued
<1>4. (s \o d) \o c = s \o (d \o c)
  BY <1>2, Zenon DEF Glued
<1> QED
  BY <1>1, <1>3, <1>4, Zenon DEF InFront

Shows(v, p, n, i, g) ==
  /\ v.class = "nan" => Shown(v, p, TRUE) = <<"n", "a", "n">>
  /\ v.class = "inf" => Shown(v, p, TRUE) = ShownSign(v) \o <<"i", "n", "f">>
  /\ v.class = "finite" /\ ~IsNormal(v) => Shown(v, p, TRUE) = ShownSign(v) \o <<"o", "v", "f">>
  /\ IsNormal(v) => /\ Shown(v, p, TRUE) = ShownSign(v) \o DecimalOf(i, g, n, spec)
                    /\ Shown(v, p, FALSE) = DecimalOf(i, g, n, spec)

(* WriteFloat puts a word, or the decimal of the components.               *)
LEMMA FloatWritten ==
  ASSUME NEW p \in Policies, NEW v \in Floats, NEW n \in Nat, n = spec.precision, n <= p.max,
         NEW i \in Nat, NEW g \in Nat,
         i = GetComponents(v.ticks, n, p).integral, g = GetComponents(v.ticks, n, p).fractional
  PROVE  Shows(v, p, n, i, g)
<1>1. PICK s \in Seq(Char) : s = ShownSign(v)
  BY SignText DEF ShownSign
<1>2. Min({spec.precision, p.max}) = n
  <2>1. PICK m \in Nat : m = p.max
    BY PolicyFacts
  <2>2. n \in Int /\ m \in Int /\ n <= m
    BY <2>1
  <2>3. Min({n, m}) = n
    BY <2>2, MinOfTwo
  <2> QED
    BY <2>1, <2>3
<1>3. PICK w \in Seq(Char) : w = WriteUnsigned(i)
  BY UnsignedText
<1>4. PICK frac \in Seq(Char) : frac = FracOf(g, n)
  BY FracDigits
<1>5. PICK dot \in Seq(Char) : dot = If(n > 0 \/ "#" \in spec.flags, ".")
  <2>1. <<".">> \in Seq(Char) /\ <<>> \in Seq(Char)
    BY CodeChars, OneChar, EmptyText
  <2>2. If(n > 0 \/ "#" \in spec.flags, ".") \in Seq(Char)
    BY <2>1 DEF If
  <2> QED
    BY <2>2
<1>6. ASSUME NEW emit \in BOOLEAN
      PROVE  Shown(v, p, emit) =
               LET sign == IF emit THEN s ELSE <<>> IN
               IF v.class = "nan" THEN <<"n", "a", "n">>
               ELSE IF v.class = "inf" THEN (IF v.ticks < 0 THEN <<"-">> ELSE sign) \o <<"i", "n", "f">>
               ELSE IF ~IsNormal(v) THEN sign \o <<"o", "v", "f">>
               ELSE sign \o w \o dot \o frac
  <2> DEFINE c == GetComponents(v.ticks, Min({spec.precision, p.max}), p)
             places == Min({spec.precision, p.max})
  <2>1. Shown(v, p, emit) =
               LET sign == IF emit THEN s ELSE <<>> IN
               IF v.class = "nan" THEN <<"n", "a", "n">>
               ELSE IF v.class = "inf" THEN (IF v.ticks < 0 THEN <<"-">> ELSE sign) \o <<"i", "n", "f">>
               ELSE IF ~IsNormal(v) THEN sign \o <<"o", "v", "f">>
               ELSE sign \o WriteUnsigned(c.integral) \o If(spec.precision > 0 \/ "#" \in spec.flags, ".")
                      \o [k \in 1..places |-> LowerDigits[((c.fractional \div Power(10, places - k)) % 10) + 1]]
    BY <1>1, Zenon DEF Shown, WriteFloat, ShownSign, Flagged
  <2>2. places = n
    BY <1>2
  <2>3. c.integral = i /\ c.fractional = g
    BY <1>2
  <2> HIDE DEF places, c
  <2>4. WriteUnsigned(c.integral) = w /\ If(spec.precision > 0 \/ "#" \in spec.flags, ".") = dot
    BY <2>3, <1>3, <1>5
  <2>5. [k \in 1..places |-> LowerDigits[((c.fractional \div Power(10, places - k)) % 10) + 1]] = frac
    BY <2>2, <2>3, <1>4, Zenon DEF FracOf
  <2> QED
    BY <2>1, <2>4, <2>5, Zenon
<1>7. IsNormal(v) => v.class = "finite"
  BY DEF IsNormal
<1>8. "finite" # "nan" /\ "finite" # "inf" /\ "nan" # "inf"
  OBVIOUS
<1>9. DecimalOf(i, g, n, spec) = w \o dot \o frac
  BY <1>3, <1>4, <1>5, Zenon DEF DecimalOf
<1>10. s \o w \o dot \o frac = s \o (w \o dot \o frac)
  <2>1. InFront(s, w, dot, frac)
    BY SignInFront
  <2> QED
    BY <2>1, Zenon DEF InFront
<1>11. <<>> \o w \o dot \o frac = w \o dot \o frac
  <2>1. <<>> \o w = w
    BY ConcatEmptySeq
  <2> QED
    BY <2>1
<1>12. v.ticks < 0 => s = <<"-">>
  BY <1>1, Zenon DEF ShownSign, Sign
<1>13. TRUE \in BOOLEAN /\ FALSE \in BOOLEAN
  OBVIOUS
<1>14. v.class = "nan" => Shown(v, p, TRUE) = <<"n", "a", "n">>
  BY <1>6, <1>13, Zenon
<1>15. v.class = "inf" => Shown(v, p, TRUE) = s \o <<"i", "n", "f">>
  BY <1>6, <1>8, <1>12, <1>13, Zenon
<1>16. v.class = "finite" /\ ~IsNormal(v) => Shown(v, p, TRUE) = s \o <<"o", "v", "f">>
  BY <1>6, <1>8, <1>13, Zenon
<1>17. IsNormal(v) => Shown(v, p, TRUE) = s \o (w \o dot \o frac)
  BY <1>6, <1>7, <1>8, <1>10, <1>13, Zenon
<1>18. IsNormal(v) => Shown(v, p, FALSE) = w \o dot \o frac
  BY <1>6, <1>7, <1>8, <1>11, <1>13, Zenon
<1> QED
  BY <1>1, <1>9, <1>14, <1>15, <1>16, <1>17, <1>18, Zenon DEF Shows

(* A word in its place: no zeros in front of it.                           *)
LEMMA WordLaid ==
  ASSUME spec.width \in Nat, NEW s \in Seq(Char), NEW b \in Seq(Char)
  PROVE  Laid(SpacePadded(s \o b), spec, s, b, FALSE)
BY LaidLeft, LaidRight

(* FormatFloatValue pads with zeros between the sign and the digits, or    *)
(* with spaces.                                                            *)
LEMMA FormatFloatIs ==
  ASSUME NEW p \in Policies, p = call.policy, NEW v \in Floats
  PROVE  FormatFloatValue(v) = IF Zeroed /\ IsNormal(v) THEN ZeroPadded(ShownSign(v), Shown(v, p, FALSE))
                               ELSE SpacePadded(Shown(v, p, TRUE))
<1>1. FormatFloatValue(v) =
        IF Zeroed /\ IsNormal(v) THEN ZeroPadded(ShownSign(v), Shown(v, p, FALSE))
        ELSE IF Zeroed THEN Fill(Shown(v, p, TRUE), " ") \o Shown(v, p, TRUE)
        ELSE SpacePadded(Shown(v, p, TRUE))
  BY Zenon DEF FormatFloatValue, Shown, ShownSign
<1>2. Zeroed => SpacePadded(Shown(v, p, TRUE)) = Fill(Shown(v, p, TRUE), " ") \o Shown(v, p, TRUE)
  BY Zenon DEF Zeroed, SpacePadded, Flagged
<1> QED
  BY <1>1, <1>2, Zenon

(* A decimal near a value is laid out as specified.                        *)
LEMMA DecimalLaid ==
  ASSUME NEW p, NEW v, NEW n \in Nat, n = spec.precision, spec.width \in Nat, IsNormal(v),
         NEW s \in Seq(Char), s = SignOf(v.ticks < 0, spec), NEW b \in Seq(Char), b # <<>>,
         NEW units \in Nat, IsDecimal(b, spec, units), Near(units, v.ticks, n, p),
         units \in {HalfEven(Magnitude(v.ticks) * Power(10, n), Ticks) - 1,
                    HalfEven(Magnitude(v.ticks) * Power(10, n), Ticks),
                    HalfEven(Magnitude(v.ticks) * Power(10, n), Ticks) + 1}
  PROVE  Numeric(s, b) \in Seq(Char) /\ FloatLaid(Numeric(s, b), spec, v, p)
<1>1. PICK text : text = Numeric(s, b)
  OBVIOUS
<1>2. Laid(text, spec, s, b, TRUE)
  BY <1>1, NumericLaid
<1>3. text \in Seq(Char) /\ HasPart(text, b)
  BY <1>2, LaidFacts
<1>4. PICK i \in DOMAIN text : \E j \in i..Len(text) : SubSeq(text, i, j) = b
  BY <1>3 DEF HasPart
<1>5. PICK j \in i..Len(text) : SubSeq(text, i, j) = b
  BY <1>4
<1>6. PICK nearest : nearest = HalfEven(Magnitude(v.ticks) * Power(10, spec.precision), Ticks)
  OBVIOUS
<1>7. units \in {nearest - 1, nearest, nearest + 1} \cap Nat
  BY <1>6
<1>8. Near(units, v.ticks, spec.precision, p)
  OBVIOUS
<1>9. \E i2 \in DOMAIN text : \E j2 \in i2..Len(text) :
        /\ Laid(text, spec, SignOf(v.ticks < 0, spec), SubSeq(text, i2, j2), TRUE)
        /\ \E u \in {nearest - 1, nearest, nearest + 1} \cap Nat :
             IsDecimal(SubSeq(text, i2, j2), spec, u) /\ Near(u, v.ticks, spec.precision, p)
  BY <1>2, <1>5, <1>7, <1>8, Zenon
<1>10. v.class # "nan" /\ v.class # "inf"
  BY DEF IsNormal
<1>11. FloatText(spec, v, text, LAMBDA u : Near(u, v.ticks, spec.precision, p))
  BY <1>6, <1>9, Zenon DEF FloatText, SomePart
<1>12. FloatLaid(text, spec, v, p)
  BY <1>10, <1>11, Zenon DEF FloatLaid, FloatText, SomePart
<1> QED
  BY <1>1, <1>3, <1>12

(* FormatFloatValue lays out a float as specified.                         *)
LEMMA FloatLayout ==
  ASSUME NEW p \in Policies, p = call.policy, p.decimals, NEW v \in Floats, spec.width \in Nat,
         NEW n \in Nat, n = spec.precision, n <= p.max
  PROVE  FloatLaid(FormatFloatValue(v), spec, v, p)
<1>1. Power(10, n) < Power(2, p.float)
  <2>1. PICK m \in Nat, b \in Nat : m = p.max /\ b = p.float
    BY PolicyFacts
  <2>2. Power(10, m) < Power(2, b)
    BY <2>1, DecimalsAssumption
  <2>3. 10 \in Nat \ {0} /\ 2 \in Nat \ {0}
    OBVIOUS
  <2>4. Power(10, n) <= Power(10, m)
    BY <2>1, <2>3, PowerMonotone
  <2>5. PICK x \in Nat, y \in Nat, z \in Nat : x = Power(10, n) /\ y = Power(10, m) /\ z = Power(2, b)
    BY <2>3, Powers
  <2>6. x <= y /\ y < z
    BY <2>2, <2>4, <2>5
  <2>7. x < z
    BY <2>6
  <2> QED
    BY <2>1, <2>5, <2>7
<1>2. PICK value \in Int : value = v.ticks
  BY DEF Floats
<1>3. PICK i \in Nat, g \in Nat :
        /\ i = GetComponents(value, n, p).integral /\ g = GetComponents(value, n, p).fractional
        /\ \E W \in Nat, f \in Nat, R \in Nat : Split(value, n, p, W, f, R, i, g)
  BY <1>1, SplitFacts
<1>4. PICK W \in Nat, f \in Nat, R \in Nat : Split(value, n, p, W, f, R, i, g)
  BY <1>3
<1>5. PICK units \in Nat, nearest \in Nat :
        /\ units = i * Power(10, n) + g
        /\ nearest = HalfEven(Magnitude(value) * Power(10, n), Ticks)
        /\ Near(units, value, n, p) /\ units \in {nearest - 1, nearest, nearest + 1}
  <2>1. Nearest(value, n, p, i, g)
    BY <1>1, <1>4, SplitNear
  <2> QED
    BY <2>1 DEF Nearest
<1>6. g < Power(10, n)
  BY <1>4 DEF Split
<1>7. PICK b \in Seq(Char) : b = DecimalOf(i, g, n, spec) /\ b # <<>> /\ IsDecimal(b, spec, units)
  <2>1. spec.precision = n
    OBVIOUS
  <2>2. PICK m : m = spec
    OBVIOUS
  <2>3. /\ DecimalOf(i, g, n, m) \in Seq(Char) /\ DecimalOf(i, g, n, m) # <<>>
        /\ IsDecimal(DecimalOf(i, g, n, m), m, i * Power(10, n) + g)
    BY <2>1, <2>2, <1>6, DecimalText
  <2> QED
    BY <2>2, <2>3, <1>5
<1>8. PICK s \in Seq(Char) : s = ShownSign(v)
  BY SignText DEF ShownSign
<1>9. s = SignOf(v.ticks < 0, spec)
  BY <1>8, SignEqual DEF ShownSign
<1>10. /\ v.class = "nan" => Shown(v, p, TRUE) = <<"n", "a", "n">>
       /\ v.class = "inf" => Shown(v, p, TRUE) = s \o <<"i", "n", "f">>
       /\ v.class = "finite" /\ ~IsNormal(v) => Shown(v, p, TRUE) = s \o <<"o", "v", "f">>
       /\ IsNormal(v) => Shown(v, p, TRUE) = s \o b /\ Shown(v, p, FALSE) = b
  <2>1. i = GetComponents(v.ticks, n, p).integral /\ g = GetComponents(v.ticks, n, p).fractional
    BY <1>2, <1>3
  <2>2. Shows(v, p, n, i, g)
    BY <2>1, FloatWritten
  <2> QED
    BY <2>2, <1>7, <1>8, Zenon DEF Shows
<1>11. FormatFloatValue(v) = IF Zeroed /\ IsNormal(v) THEN ZeroPadded(s, Shown(v, p, FALSE))
                             ELSE SpacePadded(Shown(v, p, TRUE))
  BY <1>8, FormatFloatIs
<1>12. CASE IsNormal(v)
  <2>1. FormatFloatValue(v) = Numeric(s, b)
    BY <1>10, <1>11, <1>12, Zenon DEF Numeric
  <2>2. /\ Near(units, v.ticks, n, p)
        /\ units \in {HalfEven(Magnitude(v.ticks) * Power(10, n), Ticks) - 1,
                      HalfEven(Magnitude(v.ticks) * Power(10, n), Ticks),
                      HalfEven(Magnitude(v.ticks) * Power(10, n), Ticks) + 1}
    BY <1>2, <1>5
  <2>3. FloatLaid(Numeric(s, b), spec, v, p)
    BY <1>7, <1>9, <1>12, <2>2, DecimalLaid
  <2> QED
    BY <2>1, <2>3
<1>13. CASE ~IsNormal(v)
  <2>1. FormatFloatValue(v) = SpacePadded(Shown(v, p, TRUE))
    BY <1>11, <1>13
  <2>2. <<"n", "a", "n">> \in Seq(Char) /\ <<"i", "n", "f">> \in Seq(Char) /\ <<"o", "v", "f">> \in Seq(Char)
    <3>1. {"n", "a", "i", "f", "o", "v"} \subseteq Char
      BY CodeChars
    <3> QED
      BY <3>1
  <2>3. v.class = "nan" => Laid(FormatFloatValue(v), spec, <<>>, <<"n", "a", "n">>, FALSE)
    BY <2>1, <2>2, <1>10, PaddedLaid
  <2>4. v.class = "inf" => Laid(FormatFloatValue(v), spec, s, <<"i", "n", "f">>, FALSE)
    BY <2>1, <2>2, <1>10, WordLaid
  <2>5. v.class = "finite" => Laid(FormatFloatValue(v), spec, s, <<"o", "v", "f">>, FALSE)
    BY <2>1, <2>2, <1>10, <1>13, WordLaid
  <2>6. v.class \in {"nan", "inf", "finite"}
    BY DEF Floats
  <2>7. PICK text : text = FormatFloatValue(v)
    OBVIOUS
  <2>8. CASE v.class = "nan"
    BY <2>3, <2>7, <2>8, <1>13, Zenon DEF FloatLaid
  <2>9. CASE v.class = "inf"
    <3>1. v.class # "nan"
      BY <2>9
    <3> QED
      BY <3>1, <2>4, <2>7, <2>9, <1>9, <1>13, Zenon DEF FloatLaid
  <2>10. CASE v.class = "finite"
    <3>1. v.class # "nan" /\ v.class # "inf"
      BY <2>10
    <3> QED
      BY <3>1, <2>5, <2>7, <2>10, <1>9, <1>13, Zenon DEF FloatLaid
  <2> QED
    BY <2>6, <2>8, <2>9, <2>10
<1> QED
  BY <1>12, <1>13
-----------------------------------------------------------------------------
(* A float's field.                                                        *)
LEMMA FloatRead ==
  ASSUME StaticInv, ParseInv, fpc = "dispatch", Begun.letter = "f", call.policy.decimals
  PROVE  FloatLaid(FormatFloatValue(FloatArg), Meant(Begun), FloatOf(Begun.arg, call.policy), call.policy)
<1>1. PICK x : x = Begun
  OBVIOUS
<1>2. PICK p \in Policies : p = call.policy
  BY AtDispatch
<1>3. /\ x.letter = "f" /\ Proper(x) /\ ProperArg(x) /\ call \in Calls
      /\ Reads(x) = 1 => args[next] = [type |-> ArgType(x.letter, x.mod), val |-> x.arg]
  BY <1>1, AtDispatch DEF Proper
<1>4. Reads(x) = 1 /\ x.arg \in Floats
  BY <1>3 DEF Reads, ArgType, ProperArg, Floats
<1>5. args[next].val = x.arg
  BY <1>3, <1>4
<1>6. PICK v \in Floats : v = FloatOf(x.arg, p)
  BY <1>4, FloatOfFloat
<1>7. FloatArg = v
  BY <1>2, <1>5, <1>6 DEF FloatArg
<1>8. spec = Meant(x) /\ spec.width \in Nat
  BY <1>1, WidthHere
<1>9. Meant(x).precision \in 0..call.policy.max
  BY <1>3, MeantTyped
<1>10. PICK n \in Nat : n = spec.precision /\ n <= p.max
  <2>1. p.max \in Nat /\ spec.precision \in 0..p.max
    BY <1>2, <1>8, <1>9, PolicyFacts
  <2> QED
    BY <2>1
<1>11. FloatLaid(FormatFloatValue(v), spec, v, p)
  BY <1>2, <1>8, <1>10, FloatLayout
<1> QED
  BY <1>1, <1>2, <1>6, <1>7, <1>8, <1>11

(* A float's field that is left alone stays as specified.                  *)
LEMMA FloatFieldKept ==
  ASSUME FloatAsSpecified, call' = call, begun' = begun, field' = field
  PROVE  FloatAsSpecified'
<1>1. PICK c, p, f : c = Begun /\ p = call.policy /\ f = field
  OBVIOUS
<1>2. PICK m, v : m = Meant(Begun) /\ v = FloatOf(Begun.arg, call.policy)
  OBVIOUS
<1>3. Begun' = c /\ call'.policy = p /\ field' = f
  BY <1>1 DEF Begun
<1>4. Meant(Begun)' = m
  BY <1>1, <1>2, <1>3 DEF Meant
<1>5. FloatOf(Begun.arg, call.policy)' = v
  BY <1>1, <1>2, <1>3
<1>6. DecimalShown <=> f # <<>> /\ c.letter = "f" /\ p.decimals
  BY <1>1 DEF DecimalShown
<1>7. DecimalShown' <=> f # <<>> /\ c.letter = "f" /\ p.decimals
  BY <1>3 DEF DecimalShown
<1>8. DecimalShown => FloatLaid(f[1], m, v, p)
  BY <1>1, <1>2 DEF FloatAsSpecified
<1> QED
  BY <1>3, <1>4, <1>5, <1>6, <1>7, <1>8 DEF FloatAsSpecified

(* One that is put as specified is as specified.                           *)
LEMMA FloatFieldPut ==
  ASSUME NEW text, FloatLaid(text, Meant(Begun), FloatOf(Begun.arg, call.policy), call.policy),
         call' = call, begun' = begun, field' = <<text>>
  PROVE  FloatAsSpecified'
<1>1. PICK c, p : c = Begun /\ p = call.policy
  OBVIOUS
<1>2. PICK m, v : m = Meant(Begun) /\ v = FloatOf(Begun.arg, call.policy)
  OBVIOUS
<1>3. Begun' = c /\ call'.policy = p /\ field'[1] = text
  BY <1>1 DEF Begun
<1>4. Meant(Begun)' = m
  BY <1>1, <1>2, <1>3 DEF Meant
<1>5. FloatOf(Begun.arg, call.policy)' = v
  BY <1>1, <1>2, <1>3
<1>6. FloatLaid(text, m, v, p)
  BY <1>1, <1>2
<1> QED
  BY <1>3, <1>4, <1>5, <1>6 DEF FloatAsSpecified

(* Of any other field there is nothing to say.                             *)
LEMMA NoFloatField ==
  ASSUME field' = <<>> \/ Begun'.letter # "f" \/ ~call'.policy.decimals
  PROVE  FloatAsSpecified'
BY DEF FloatAsSpecified, DecimalShown

(* Every step preserves what is said of a float's field.                   *)
LEMMA FloatStep ==
  ASSUME FormatInv, FloatAsSpecified, [FormatNext]_formatVars
  PROVE  FloatAsSpecified'
<1>1. CASE ParseFlags \/ ParseWidth \/ ParsePrecision \/ ParseLengthMod \/ UNCHANGED formatVars
  <2>1. call' = call /\ begun' = begun /\ field' = field
    BY <1>1 DEF ParseFlags, ParseWidth, ParseWidthFrom, ParsePrecision, ParseLengthMod, Parsed,
                parserVars, formatVars
  <2> QED
    BY <2>1, FloatFieldKept
<1>2. CASE PutLiteral \/ BeginConversion \/ Finish
  <2>1. field' = <<>>
    BY <1>2 DEF PutLiteral, BeginConversion, Finish, FinishAt
  <2> QED
    BY <2>1, NoFloatField
<1>3. CASE PutCharacter \/ PutString \/ PutSigned \/ PutUnsigned \/ PutHex \/ PutPercent \/ PutUnknown
  <2>1. fpc = "dispatch" /\ fmt[at] # "f" /\ call' = call /\ begun' = begun
    BY <1>3 DEF PutCharacter, PutString, PutSigned, PutUnsigned, PutHex, PutPercent, PutUnknown, Letter,
                Dispatched, parserVars
  <2>2. Begun.letter # "f"
    BY <2>1, AtDispatch DEF FormatInv
  <2>3. Begun' = Begun
    BY <2>1 DEF Begun
  <2> QED
    BY <2>2, <2>3, NoFloatField
<1>4. CASE PutFloat
  <2>1. /\ fpc = "dispatch" /\ fmt[at] = "f"
        /\ IF call.policy.decimals THEN Dispatched(FormatFloatValue(FloatArg), 1) ELSE Dispatched(<<>>, 1)
    BY <1>4 DEF PutFloat, PutFloatReading, Letter
  <2>2. StaticInv /\ ParseInv /\ Begun.letter = "f"
    BY <2>1, AtDispatch DEF FormatInv
  <2>3. CASE call.policy.decimals
    <3>1. PICK text : text = FormatFloatValue(FloatArg)
      OBVIOUS
    <3>2. FloatLaid(text, Meant(Begun), FloatOf(Begun.arg, call.policy), call.policy)
      BY <3>1, <2>1, <2>2, <2>3, FloatRead
    <3>3. call' = call /\ begun' = begun /\ field' = <<text>>
      BY <3>1, <2>1, <2>3 DEF Dispatched, parserVars
    <3> QED
      BY <3>2, <3>3, FloatFieldPut
  <2>4. CASE ~call.policy.decimals
    <3>1. call' = call
      BY <2>1, <2>4 DEF Dispatched, parserVars
    <3> QED
      BY <3>1, <2>4, NoFloatField
  <2> QED
    BY <2>3, <2>4
<1> QED
  BY <1>1, <1>2, <1>3, <1>4 DEF FormatNext
-----------------------------------------------------------------------------
(* Every reachable state satisfies the invariant.                          *)
THEOREM FormatInvariant == FormatSpec => []FormatInv
<1>1. FormatInit => FormatInv
  BY FormatInitial
<1>2. FormatInv /\ [FormatNext]_formatVars => FormatInv'
  <2> SUFFICES ASSUME FormatInv, [FormatNext]_formatVars PROVE FormatInv'
    OBVIOUS
  <2>1. CASE ParseFlags \/ ParseWidth \/ ParsePrecision \/ ParseLengthMod
    BY <2>1, ParseStep
  <2>2. CASE PutOne
    BY <2>2, ConversionStep
  <2>3. CASE PutLiteral
    BY <2>3, LiteralStep
  <2>4. CASE BeginConversion
    BY <2>4, BeginStep
  <2>5. CASE Finish
    BY <2>5, FinishStep
  <2>6. CASE UNCHANGED formatVars
    BY <2>6, FormatStutter
  <2> QED
    BY <2>1, <2>2, <2>3, <2>4, <2>5, <2>6 DEF FormatNext, PutOne
<1> QED
  BY <1>1, <1>2, PTL DEF FormatSpec

(* Type correctness: *fmt never leaves the format string and its           *)
(* terminator, va_arg never goes past the last argument, and no precision  *)
(* exceeds the policy's maximum.                                           *)
THEOREM FormatTypes == FormatSpec => []FormatTypeOK
BY FormatInvariant, InvTypes, PTL

(* The Parse* helpers of ParseSpec undo the writing of a conversion, so    *)
(* that DispatchSpecifier is called with what its caller wrote and with    *)
(* *fmt at the letter.                                                     *)
THEOREM FormatParses == FormatSpec => []ParsedAsWritten
BY FormatInvariant, InvParsed, PTL

(* Every va_arg of a call reads the argument that was passed for its       *)
(* conversion, and a finished call has read all of them.                   *)
THEOREM FormatAligns == FormatSpec => []ArgumentsAligned
BY FormatInvariant, InvAligned, PTL

(* Gadget::Put and the terminator that DoFormat writes: the buffer holds   *)
(* the longest prefix of the text that fits, for every capacity.           *)
THEOREM FormatTruncates == FormatSpec => []TruncatedPrefix
BY FormatInvariant, InvOutput, PTL

(* Every field that DispatchSpecifier puts, but a float's, is laid out as  *)
(* its conversion says, whatever width, flags, value and policy.           *)
THEOREM FormatFields == FormatSpec => []FieldAsSpecified
BY FormatInvariant, InvOutput, PTL

(* Every field that FormatFloatValue lays out is the nearest decimal of its*)
(* argument but for the one rounding of FloatType, with its sign, padding  *)
(* and places as the conversion says, whatever value, precision and policy.*)
THEOREM FormatDecimals == FormatSpec => []FloatAsSpecified
<1>1. FormatInit => FloatAsSpecified
  BY DEF FormatInit, StartOn, FloatAsSpecified, DecimalShown
<1>2. FormatInv /\ FloatAsSpecified /\ [FormatNext]_formatVars => FloatAsSpecified'
  BY FloatStep
<1> QED
  BY <1>1, <1>2, FormatInvariant, PTL DEF FormatSpec
=============================================================================
