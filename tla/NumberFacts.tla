----------------------------- MODULE NumberFacts -----------------------------
(***************************************************************************)
(* Facts about the integers that several proofs need.  The provers know of *)
(* \div and % that they exist; what follows from it is stated here, and    *)
(* what Min of the community modules returns, and that a recursion on the  *)
(* naturals defines one function.                                          *)
(***************************************************************************)
EXTENDS Integers, FiniteSetsExt, WellFoundedInduction, TLAPS

(* Min picks a least element of any nonempty set of naturals, ...          *)
LEMMA LeastElement ==
  ASSUME NEW T, T \subseteq Nat, T # {}
  PROVE  Min(T) \in T /\ \A y \in T : Min(T) <= y
<1>1. PICK x \in T : \A y \in T : ~(<<y, x>> \in OpToRel(<, Nat))
  BY NatLessThanWellFounded, WFMin
<1>2. \A y \in T : ~(y < x)
  BY <1>1, Zenon DEF OpToRel
<1>3. \A y \in T : x <= y
  BY <1>2
<1>4. QED
  BY <1>3 DEF Min

(* ... and the smaller of two integers.                                    *)
LEMMA MinOfTwo ==
  ASSUME NEW a \in Int, NEW b \in Int
  PROVE  Min({a, b}) = IF a <= b THEN a ELSE b
BY DEF Min

(* A divisor of a positive product is at most the product.                 *)
LEMMA FactorBound ==
  ASSUME NEW a \in Nat \ {0}, NEW b \in Nat \ {0}
  PROVE  a <= a * b
<1>1. PICK c \in Nat : b = c + 1
  <2>1. b - 1 \in Nat /\ b = (b - 1) + 1
    OBVIOUS
  <2>2. QED
    BY <2>1
<1>2. a * b = a * c + a /\ a * c \in Nat
  BY <1>1
<1>3. QED
  BY <1>2

(* Two integers whose difference, scaled by m, lies in [0, m) are equal.   *)
LEMMA ScaledGap ==
  ASSUME NEW m \in Nat \ {0}, NEW a \in Int, NEW b \in Int, NEW c \in 0..(m-1),
         a * m = b * m + c
  PROVE  a = b /\ c = 0
<1>1. (a - b) * m = c
  OBVIOUS
<1>2. CASE a - b >= 1
  <2>1. (a - b) * m = (a - b - 1) * m + m /\ (a - b - 1) * m >= 0
    BY <1>2
  <2>2. QED
    BY <1>1, <2>1
<1>3. CASE a - b <= -1
  <2>1. (b - a) * m = (b - a - 1) * m + m /\ (b - a - 1) * m >= 0
    BY <1>3
  <2>2. (b - a) * m = -c
    BY <1>1
  <2>3. QED
    BY <2>1, <2>2
<1>4. CASE a - b = 0
  BY <1>1, <1>4
<1>5. QED
  BY <1>2, <1>3, <1>4

(* What quotient and remainder are ...                                     *)
LEMMA DivisionExists ==
  ASSUME NEW m \in Nat \ {0}, NEW x \in Int
  PROVE  /\ x = (x \div m) * m + (x % m)
         /\ x \div m \in Int /\ x % m \in 0..(m-1)
OBVIOUS

(* ... and that they are the only such pair.                               *)
LEMMA DivisionUnique ==
  ASSUME NEW m \in Nat \ {0}, NEW d \in Int, NEW e \in 0..(m-1),
         NEW q \in Int, NEW s \in 0..(m-1), d * m + e = q * m + s
  PROVE  d = q /\ e = s
<1>1. CASE e <= s
  <2>1. s - e \in 0..(m-1) /\ d * m = q * m + (s - e)
    BY <1>1
  <2>2. d = q /\ s - e = 0
    BY <2>1, ScaledGap
  <2> QED
    BY <2>2
<1>2. CASE e > s
  <2>1. e - s \in 0..(m-1) /\ q * m = d * m + (e - s)
    BY <1>2
  <2>2. q = d /\ e - s = 0
    BY <2>1, ScaledGap
  <2> QED
    BY <2>2
<1> QED
  BY <1>1, <1>2

LEMMA DivisionIs ==
  ASSUME NEW m \in Nat \ {0}, NEW x \in Int, NEW q \in Int, NEW s \in 0..(m-1),
         x = q * m + s
  PROVE  x \div m = q /\ x % m = s
<1>1. /\ x \div m \in Int /\ x % m \in 0..(m-1)
      /\ (x \div m) * m + (x % m) = q * m + s
  BY DivisionExists
<1> QED
  BY <1>1, DivisionUnique

(* Multiples of the divisor add to the quotient only.                      *)
LEMMA DivisionShift ==
  ASSUME NEW m \in Nat \ {0}, NEW a \in Int, NEW x \in Int
  PROVE  (a * m + x) \div m = a + (x \div m) /\ (a * m + x) % m = x % m
<1> DEFINE d == x \div m
<1>1. x = d * m + (x % m) /\ d \in Int /\ x % m \in 0..(m-1)
  BY DivisionExists
<1> HIDE DEF d
<1>2. a * m + d * m = (a + d) * m /\ a + d \in Int /\ a * m + x \in Int
  BY <1>1
<1>3. a * m + x = (a + d) * m + (x % m)
  BY <1>1, <1>2
<1>4. (a * m + x) \div m = a + d /\ (a * m + x) % m = x % m
  BY <1>1, <1>2, <1>3, DivisionIs
<1> QED
  BY <1>4 DEF d

(* A counter may be reduced at any time.                                   *)
LEMMA ModPlus ==
  ASSUME NEW a \in Int, NEW c \in Int, NEW m \in Nat \ {0}
  PROVE  ((a % m) + c) % m = (a + c) % m
<1>1. /\ a = (a \div m) * m + (a % m)
      /\ a \div m \in Int /\ a % m \in 0..(m-1)
  BY DivisionExists
<1>2. (a % m) + c \in Int /\ a + c = (a \div m) * m + ((a % m) + c)
  BY <1>1
<1> QED
  BY <1>1, <1>2, DivisionShift
-----------------------------------------------------------------------------
(* Functions that are given by recursion on smaller numbers.               *)

(* f is given on D by recursion: leaf on the base cases, and elsewhere     *)
(* node of its value at a smaller number.                                  *)
Recurs(f, D, base, leaf, prev, node) ==
  \A v \in D : f[v] = IF v \in base THEN leaf[v] ELSE node[<<f[prev[v]], v>>]

(* Two such functions agree as far as both are given.                      *)
LEMMA RecursionUnique ==
  ASSUME NEW base, NEW leaf, NEW prev, NEW node, NEW f, NEW g, NEW n \in Nat, NEW m \in Nat,
         n <= m, \A v \in Nat \ base : prev[v] \in 0..(v - 1),
         Recurs(f, 0..n, base, leaf, prev, node), Recurs(g, 0..m, base, leaf, prev, node)
  PROVE  \A v \in 0..n : f[v] = g[v]
<1> DEFINE T == {v \in 0..n : f[v] # g[v]}
<1> SUFFICES ASSUME T # {} PROVE FALSE
  OBVIOUS
<1>1. PICK v \in T : \A w \in T : v <= w
  <2>1. T \subseteq Nat
    OBVIOUS
  <2> HIDE DEF T
  <2> QED
    BY <2>1, LeastElement
<1>2. v \in 0..n /\ v \in 0..m /\ f[v] # g[v]
  BY <1>1
<1>3. f[v] = IF v \in base THEN leaf[v] ELSE node[<<f[prev[v]], v>>]
  BY <1>2 DEF Recurs
<1>4. g[v] = IF v \in base THEN leaf[v] ELSE node[<<g[prev[v]], v>>]
  BY <1>2 DEF Recurs
<1>5. v \notin base => f[prev[v]] = g[prev[v]]
  <2> SUFFICES ASSUME v \notin base PROVE f[prev[v]] = g[prev[v]]
    OBVIOUS
  <2>1. prev[v] \in 0..(v - 1)
    BY <1>2
  <2>2. prev[v] \in 0..n /\ ~(v <= prev[v])
    BY <2>1, <1>2
  <2> QED
    BY <2>2, <1>1
<1> HIDE DEF T
<1> QED
  BY <1>2, <1>3, <1>4, <1>5, Zenon

(* There is one on the naturals, with its values in S.                     *)
LEMMA RecursionExists ==
  ASSUME NEW S, NEW base, NEW leaf, NEW prev, NEW node,
         \A v \in Nat \ base : prev[v] \in 0..(v - 1),
         \A v \in Nat : v \in base => leaf[v] \in S,
         \A s \in S, v \in Nat : node[<<s, v>>] \in S
  PROVE  \E f \in [Nat -> S] : Recurs(f, Nat, base, leaf, prev, node)
<1> DEFINE Good(g, n) == g \in [0..n -> S] /\ Recurs(g, 0..n, base, leaf, prev, node)
<1> DEFINE T == {n \in Nat : ~\E g : Good(g, n)}
<1>0. 0 \in base
  <2>1. 0 \in Nat /\ 0..(0 - 1) = {}
    OBVIOUS
  <2> QED
    BY <2>1
<1>1. T = {}
  <2> SUFFICES ASSUME T # {} PROVE FALSE
    OBVIOUS
  <2>1. PICK n \in T : \A w \in T : n <= w
    BY LeastElement
  <2>2. CASE n = 0
    <3> DEFINE g == [v \in 0..0 |-> leaf[0]]
    <3>1. g \in [0..0 -> S] /\ \A v \in 0..0 : v = 0 /\ g[v] = leaf[v]
      BY <1>0
    <3>2. Good(g, 0)
      BY <3>1, <1>0 DEF Recurs
    <3> QED
      BY <2>1, <2>2, <3>2
  <2>3. CASE n # 0
    <3>1. n \in Nat /\ n - 1 \in Nat /\ ~(n <= n - 1)
      BY <2>1, <2>3
    <3>2. \E g : Good(g, n - 1)
      BY <3>1, <2>1
    <3>3. PICK g : Good(g, n - 1)
      BY <3>2
    <3> DEFINE last == IF n \in base THEN leaf[n] ELSE node[<<g[prev[n]], n>>]
    <3> DEFINE h == [v \in 0..n |-> IF v = n THEN last ELSE g[v]]
    <3>4. last \in S
      <4>1. n \notin base => prev[n] \in 0..(n - 1)
        BY <3>1
      <4> QED
        BY <4>1, <3>1, <3>3
    <3> HIDE DEF last
    <3>5. h \in [0..n -> S] /\ h[n] = last /\ \A v \in 0..(n - 1) : h[v] = g[v]
      BY <3>1, <3>3, <3>4
    <3> HIDE DEF h
    <3>6. ASSUME NEW v \in 0..n PROVE h[v] = IF v \in base THEN leaf[v] ELSE node[<<h[prev[v]], v>>]
      <4>1. v \notin base => prev[v] \in 0..(v - 1)
        OBVIOUS
      <4>2. v \notin base => h[prev[v]] = g[prev[v]]
        BY <4>1, <3>5, <3>1
      <4>3. CASE v = n
        <5>1. last = IF n \in base THEN leaf[n] ELSE node[<<g[prev[n]], n>>]
          BY DEF last
        <5> QED
          BY <5>1, <4>2, <4>3, <3>5, Zenon
      <4>4. CASE v # n
        <5>1. v \in 0..(n - 1)
          BY <4>4, <3>1
        <5>2. g[v] = IF v \in base THEN leaf[v] ELSE node[<<g[prev[v]], v>>]
          BY <5>1, <3>3 DEF Recurs
        <5> QED
          BY <5>1, <5>2, <4>2, <3>5, Zenon
      <4> QED
        BY <4>3, <4>4
    <3>7. Good(h, n)
      BY <3>5, <3>6 DEF Recurs
    <3> QED
      BY <3>7, <2>1
  <2> QED
    BY <2>2, <2>3
<1>2. \A n \in Nat : \E g : Good(g, n)
  BY <1>1
<1> DEFINE part == [n \in Nat |-> CHOOSE g : Good(g, n)]
<1>3. \A n \in Nat : Good(part[n], n)
  BY <1>2, Zenon
<1>4. \A n \in Nat : part[n] \in [0..n -> S] /\ Recurs(part[n], 0..n, base, leaf, prev, node)
  BY <1>3, Zenon
<1> HIDE DEF part, Good
<1> DEFINE f == [v \in Nat |-> part[v][v]]
<1>5. f \in [Nat -> S]
  <2>1. ASSUME NEW v \in Nat PROVE part[v][v] \in S
    BY <1>4
  <2> QED
    BY <2>1
<1>6. ASSUME NEW v \in Nat PROVE f[v] = IF v \in base THEN leaf[v] ELSE node[<<f[prev[v]], v>>]
  <2>1. PICK a : a = part[v]
    OBVIOUS
  <2>2. PICK p : p = prev[v]
    OBVIOUS
  <2>3. f[v] = a[v] /\ Recurs(a, 0..v, base, leaf, prev, node)
    BY <1>4, <2>1
  <2>4. a[v] = IF v \in base THEN leaf[v] ELSE node[<<a[p], v>>]
    BY <2>3, <2>2 DEF Recurs
  <2>5. ASSUME v \notin base PROVE a[p] = f[p]
    <3>1. p \in 0..(v - 1)
      BY <2>5, <2>2
    <3>2. p \in Nat /\ p <= v /\ p \in 0..p
      BY <3>1
    <3>3. PICK b : b = part[p]
      OBVIOUS
    <3>4. f[p] = b[p] /\ Recurs(b, 0..p, base, leaf, prev, node)
      BY <1>4, <3>3, <3>2
    <3> HIDE DEF f
    <3>5. \A w \in 0..p : b[w] = a[w]
      BY <2>3, <3>4, <3>2, RecursionUnique
    <3> QED
      BY <3>5, <3>4, <3>2
  <2> HIDE DEF f
  <2> QED
    BY <2>2, <2>3, <2>4, <2>5, Zenon
<1>7. Recurs(f, Nat, base, leaf, prev, node)
  BY <1>6 DEF Recurs
<1> QED
  BY <1>5, <1>7
=============================================================================
