--------------------------- MODULE FfbBufferProofs ---------------------------
(***************************************************************************)
(* A FixedFormatBuffer is terminated between calls, and no loop of a call  *)
(* reads or writes outside an object or a literal, whatever its source:    *)
(* for every capacity, number of objects, alphabet, literal and format.    *)
(* The calls give the texts that TextObjects promises.                     *)
(***************************************************************************)
EXTENDS FfbBuffer, NumberFacts, SequenceTheorems

(* What a call in progress may rely on: how far its source is from its end.*)
CallInv ==
  /\ bpc = "write" =>
       /\ args.op \in {"write", "writelen"} /\ pos \in 0..N
       /\ args.op = "write" => src[2] <= EndOf(src)
       /\ args.op = "writelen" =>
            args.len \in Nat /\ pos <= args.len /\ src[2] + (args.len - pos) <= EndOf(src) + 1
  /\ bpc \in {"measure", "put"} => args.fmt \in Formats /\ src[2] <= EndOf(src)

(* The objects that the call in progress does not write to.                *)
OthersTerminated == ~Idle => \A b \in Buf : b # args.dst => cells[b][size[b]] = Nul

FfbInv == FfbTypeOK /\ Terminated /\ CallInv /\ OthersTerminated

Row == [0..N -> Char]
-----------------------------------------------------------------------------
LEMMA CharFacts ==
  N \in Nat \ {0} /\ 0 \in 0..N /\ N \in 0..N /\ Nul \in Char /\ Space \in Char
BY BufferAssumption DEF Char

LEMMA RequestFacts ==
  ASSUME NEW r \in Requests
  PROVE  /\ r.op \in {"write", "writelen", "format", "append"}
         /\ r.dst \in Buf /\ r.src \in Points
         /\ r.src[1] \in Buf \cup Literals /\ r.src[2] \in Nat
         /\ r.op = "writelen" => r.len \in Nat
         /\ r.op \in {"format", "append"} => r.fmt \in Formats
<1>1. /\ r.op \in {"write", "writelen", "format", "append"}
      /\ r.dst \in Buf /\ r.src \in Points
      /\ r.op = "writelen" => r.len \in Nat
      /\ r.op \in {"format", "append"} => r.fmt \in Formats
  BY DEF Requests
<1> QED
  BY <1>1 DEF Points

LEMMA EndIsNat ==
  ASSUME NEW p, p[1] \in Buf \cup Literals
  PROVE  EndOf(p) \in Nat
<1>1. CASE p[1] \in Buf
  BY <1>1, CharFacts DEF EndOf
<1>2. CASE p[1] \notin Buf
  <2>1. p[1] \in Seq(Letter \cup {Nul})
    BY <1>2, BufferAssumption
  <2>2. QED
    BY <1>2, <2>1 DEF EndOf
<1>3. QED
  BY <1>1, <1>2

(* A pointer inside its region points at a character.                      *)
LEMMA PointsAtChar ==
  ASSUME cells \in [Buf -> Row], NEW p, p[1] \in Buf \cup Literals,
         p[2] \in Nat, p[2] <= EndOf(p)
  PROVE  At(p) \in Char
<1>1. CASE p[1] \in Buf
  <2>1. p[2] \in 0..N /\ cells[p[1]] \in Row
    BY <1>1, CharFacts DEF EndOf
  <2>2. QED
    BY <1>1, <2>1 DEF At, Deref, Row
<1>2. CASE p[1] \notin Buf
  <2>1. p[1] \in Seq(Char)
    BY <1>2, BufferAssumption DEF Char
  <2>2. CASE p[2] < Len(p[1])
    <3>1. p[2] + 1 \in 1..Len(p[1])
      BY <2>1, <2>2
    <3>2. p[1][p[2] + 1] \in Char
      BY <2>1, <3>1
    <3>3. QED
      BY <1>2, <2>2, <3>2 DEF At, Deref
  <2>3. CASE ~(p[2] < Len(p[1]))
    BY <1>2, <2>3, CharFacts DEF At, Deref
  <2>4. QED
    BY <2>2, <2>3
<1>3. QED
  BY <1>1, <1>2

(* A loop that stops at a NUL has not reached the end when it goes on: the *)
(* last cell of an object is one.                                          *)
LEMMA NotAtTheEnd ==
  ASSUME \A b \in Buf : cells[b][N] = Nul,
         NEW p, p[1] \in Buf \cup Literals, p[2] \in Nat, p[2] <= EndOf(p), At(p) # Nul
  PROVE  p[2] + 1 <= EndOf(p)
<1>1. CASE p[1] \in Buf
  <2>1. p[2] # N
    BY <1>1 DEF At, Deref
  <2>2. QED
    BY <1>1, <2>1, CharFacts DEF EndOf
<1>2. CASE p[1] \notin Buf
  <2>1. p[1] \in Seq(Letter \cup {Nul})
    BY <1>2, BufferAssumption
  <2>2. p[2] < Len(p[1])
    BY <1>2 DEF At, Deref
  <2>3. QED
    BY <1>2, <2>1, <2>2 DEF EndOf
<1>3. QED
  BY <1>1, <1>2

LEMMA BeyondFacts ==
  ASSUME NEW p
  PROVE  /\ Beyond(p, 1)[1] = p[1] /\ Beyond(p, 1)[2] = p[2] + 1
         /\ EndOf(Beyond(p, 1)) = EndOf(p)
BY DEF Beyond, EndOf

LEMMA StoredRow ==
  ASSUME NEW row \in Row, NEW from \in Nat, NEW s \in Seq(Char)
  PROVE  Stored(row, from, s) \in Row /\ Stored(row, from, s)[N] = row[N]
<1>1. ASSUME NEW k \in 0..N, k - from + 1 \in DOMAIN s
      PROVE  s[k - from + 1] \in Char
  BY <1>1
<1>2. \A k \in 0..N : row[k] \in Char
  BY DEF Row
<1>3. Stored(row, from, s) \in Row
  BY <1>1, <1>2 DEF Stored, Row
<1>4. Stored(row, from, s)[N] = row[N]
  BY CharFacts DEF Stored
<1>5. QED
  BY <1>3, <1>4

LEMMA PadsFacts ==
  ASSUME NEW c \in Int
  PROVE  Pads(c) \in Seq(Char) /\ Len(Pads(c)) \in Nat
<1>1. CASE c \in Nat
  BY <1>1, CharFacts DEF Pads
<1>2. CASE c \notin Nat
  <2>1. 1..c = 1..0
    BY <1>2
  <2>2. Pads(c) = [i \in 1..0 |-> Space]
    BY <2>1 DEF Pads
  <2>3. QED
    BY <2>2, CharFacts
<1>3. QED
  BY <1>1, <1>2

LEMMA LengthIsNat ==
  ASSUME NEW p, p[1] \in Buf \cup Literals, p[2] \in Nat, p[2] <= EndOf(p)
  PROVE  Length(p) \in Nat
<1> DEFINE T == {k \in 0..(EndOf(p) - p[2]) : At(Beyond(p, k)) = Nul} \cup {EndOf(p) - p[2] + 1}
<1>1. EndOf(p) \in Nat
  BY EndIsNat
<1>2. T \subseteq Nat /\ T # {}
  BY <1>1
<1>3. Min(T) \in T
  BY <1>2, LeastElement
<1>4. QED
  BY <1>2, <1>3 DEF Length
-----------------------------------------------------------------------------
(* The actions between calls.                                              *)
LEMMA IdlePreserved ==
  ASSUME FfbInv, Idle, UNCHANGED callVars,
         cells' \in [Buf -> Row], size' \in [Buf -> 0..N],
         \A b \in Buf : cells'[b][N] = Nul /\ cells'[b][size'[b]] = Nul
  PROVE  FfbInv'
<1>1. FfbTypeOK'
  BY DEF FfbInv, FfbTypeOK, Idle, callVars, Row
<1>2. Terminated'
  BY DEF Terminated
<1>3. CallInv' /\ OthersTerminated'
  BY DEF CallInv, OthersTerminated, Idle, callVars
<1>4. QED
  BY <1>1, <1>2, <1>3 DEF FfbInv

LEMMA ObjectFacts ==
  ASSUME FfbInv
  PROVE  /\ cells \in [Buf -> Row] /\ size \in [Buf -> 0..N]
         /\ \A b \in Buf : cells[b] \in Row /\ size[b] \in 0..N /\ cells[b][N] = Nul
         /\ Idle => \A b \in Buf : cells[b][size[b]] = Nul
BY DEF FfbInv, FfbTypeOK, Terminated, Row

LEMMA ConstructPreserves ==
  ASSUME FfbInv, NEW b \in Buf, Construct(b)
  PROVE  FfbInv'
<1>1. [k \in 0..N |-> Nul] \in Row
  BY CharFacts DEF Row
<1>2. cells' \in [Buf -> Row] /\ size' \in [Buf -> 0..N]
  BY <1>1, ObjectFacts, CharFacts DEF Construct
<1>3. \A c \in Buf : cells'[c][N] = Nul /\ cells'[c][size'[c]] = Nul
  BY ObjectFacts, CharFacts DEF Construct
<1>4. QED
  BY <1>2, <1>3, IdlePreserved DEF Construct

LEMMA ClearPreserves ==
  ASSUME FfbInv, NEW b \in Buf, Clear(b)
  PROVE  FfbInv'
<1>1. [cells[b] EXCEPT ![0] = Nul] \in Row
  BY ObjectFacts, CharFacts DEF Row
<1>2. cells' = [cells EXCEPT ![b] = [cells[b] EXCEPT ![0] = Nul]]
  BY DEF Clear
<1>3. cells' \in [Buf -> Row] /\ size' \in [Buf -> 0..N]
  BY <1>1, <1>2, ObjectFacts, CharFacts DEF Clear
<1>4. \A c \in Buf : cells'[c][N] = Nul /\ cells'[c][size'[c]] = Nul
  BY <1>2, ObjectFacts, CharFacts DEF Clear, Row
<1>5. QED
  BY <1>3, <1>4, IdlePreserved DEF Clear

LEMMA CopyPreserves ==
  ASSUME FfbInv, NEW b \in Buf, NEW other \in Buf, CopyFrom(b, other)
  PROVE  FfbInv'
<1>1. cells' \in [Buf -> Row] /\ size' \in [Buf -> 0..N]
  BY ObjectFacts DEF CopyFrom
<1>2. \A c \in Buf : cells'[c][N] = Nul /\ cells'[c][size'[c]] = Nul
  BY ObjectFacts DEF CopyFrom
<1>3. QED
  BY <1>1, <1>2, IdlePreserved DEF CopyFrom

LEMMA MovePreserves ==
  ASSUME FfbInv, NEW b \in Buf, NEW other \in Buf, MoveFrom(b, other)
  PROVE  FfbInv'
<1> DEFINE emptied == [cells[other] EXCEPT ![0] = Nul]
<1>1. emptied \in Row /\ emptied[N] = Nul /\ emptied[0] = Nul
  BY ObjectFacts, CharFacts DEF Row
<1>2. cells' = [[cells EXCEPT ![b] = cells[other]] EXCEPT ![other] = emptied]
  BY ObjectFacts DEF MoveFrom
<1>3. size' = [[size EXCEPT ![b] = size[other]] EXCEPT ![other] = 0] /\ b # other
  BY DEF MoveFrom
<1> HIDE DEF emptied
<1>4. cells' \in [Buf -> Row] /\ size' \in [Buf -> 0..N]
  BY <1>1, <1>2, <1>3, ObjectFacts, CharFacts
<1>5. \A c \in Buf : cells'[c][N] = Nul /\ cells'[c][size'[c]] = Nul
  BY <1>1, <1>2, <1>3, ObjectFacts DEF MoveFrom
<1>6. QED
  BY <1>4, <1>5, IdlePreserved DEF MoveFrom
-----------------------------------------------------------------------------
(* The actions that begin a call.                                          *)
LEMMA PointerFacts ==
  ASSUME FfbInv, NEW p \in Pointers
  PROVE  /\ p[1] \in Buf \cup Literals /\ p[2] \in Nat /\ p[2] <= EndOf(p) /\ p \in Points
         /\ p[1] \in Buf => p[2] <= size[p[1]]
         /\ p[1] \notin Buf => p[2] = 0
<1>1. CASE p \in Literals \X {0}
  <2>1. p[1] \in Literals /\ p[2] = 0
    BY <1>1
  <2>2. p[1] \notin Buf
    BY <2>1, BufferAssumption
  <2>3. EndOf(p) \in Nat
    BY <2>1, EndIsNat
  <2>4. p \in Points
    BY <1>1 DEF Points
  <2>5. QED
    BY <2>1, <2>2, <2>3, <2>4
<1>2. CASE \E b \in Buf : p \in {b} \X (0..size[b])
  <2>1. PICK b \in Buf : p \in {b} \X (0..size[b])
    BY <1>2
  <2>2. p[1] = b /\ p[2] \in 0..size[b] /\ size[b] \in 0..N
    BY <2>1, ObjectFacts
  <2>3. p \in Points
    BY <2>1, <2>2, CharFacts DEF Points
  <2>4. QED
    BY <2>2, <2>3, CharFacts DEF EndOf
<1>3. QED
  BY <1>1, <1>2 DEF Pointers

LEMMA TextIsSeq ==
  ASSUME FfbInv, NEW b \in Buf
  PROVE  Text(b) \in Seq(Char)
<1>1. size[b] \in Nat /\ size[b] <= N /\ cells[b] \in [0..N -> Char]
  BY ObjectFacts, CharFacts DEF Row
<1>2. \A i \in 1..size[b] : i - 1 \in 0..N
  BY <1>1, CharFacts
<1>3. \A i \in 1..size[b] : cells[b][i - 1] \in Char
  BY <1>1, <1>2
<1>4. QED
  BY <1>1, <1>3 DEF Text

LEMMA BeginEstablishes ==
  ASSUME FfbInv, NEW a, NEW point \in {"write", "measure"}, NEW start \in Nat,
         Begin(a, point, start), a \in Requests, a.src \in Pointers, size' = size,
         cells' \in [Buf -> Row], \A b \in Buf : cells'[b][N] = Nul,
         \A b \in Buf : b # a.dst => cells'[b] = cells[b],
         point = "write" =>
           /\ a.op \in {"write", "writelen"} /\ start = 0
           /\ a.op = "writelen" => a.len \in Nat /\ a.src[2] + a.len <= EndOf(a.src) + 1,
         point = "measure" => a.fmt \in Formats
  PROVE  FfbInv'
<1>1. /\ a.src[1] \in Buf \cup Literals /\ a.src[2] \in Nat /\ a.src[2] <= EndOf(a.src)
      /\ EndOf(a.src) \in Nat
  BY PointerFacts, EndIsNat
<1>2. /\ args' = a /\ src' = a.src /\ bpc' = point /\ pos' = start /\ dry' = 0
      /\ before' \in Seq(Char) /\ bpc' # "idle"
  BY TextIsSeq, RequestFacts DEF Begin
<1>3. EndOf(src') = EndOf(a.src) /\ EndOf(src)' = EndOf(src')
  BY <1>2 DEF EndOf
<1>4. FfbTypeOK'
  BY <1>1, <1>2, ObjectFacts DEF FfbTypeOK, Idle, Row
<1>5. Terminated'
  BY <1>2 DEF Terminated, Idle
<1>6. CallInv'
  <2>1. CASE point = "write"
    BY <2>1, <1>1, <1>2, <1>3, CharFacts DEF CallInv
  <2>2. CASE point = "measure"
    BY <2>2, <1>1, <1>2, <1>3 DEF CallInv
  <2>3. QED
    BY <2>1, <2>2
<1>7. OthersTerminated'
  BY <1>2, ObjectFacts DEF OthersTerminated, Begin
<1>8. QED
  BY <1>4, <1>5, <1>6, <1>7 DEF FfbInv

LEMMA WritePreserves ==
  ASSUME FfbInv, NEW b \in Buf, NEW p \in Pointers, Write(b, p)
  PROVE  FfbInv'
<1> DEFINE a == [op |-> "write", dst |-> b, src |-> p]
<1>1. a \in Requests /\ a.op = "write" /\ a.dst = b /\ a.src = p /\ Begin(a, "write", 0)
  <2>1. a \in Requests
    BY PointerFacts DEF Requests
  <2> QED
    BY <2>1 DEF Write
<1>2. cells' = cells /\ size' = size
  BY DEF Write
<1> HIDE DEF a
<1>3. QED
  BY <1>1, <1>2, ObjectFacts, BeginEstablishes

LEMMA WriteLenPreserves ==
  ASSUME FfbInv, NEW b \in Buf, NEW p \in Pointers, NEW len \in 1..(N + 1), WriteLen(b, p, len)
  PROVE  FfbInv'
<1> DEFINE a == [op |-> "writelen", dst |-> b, src |-> p, len |-> len]
<1>1. /\ a \in Requests /\ a.op = "writelen" /\ a.dst = b /\ a.src = p /\ a.len = len
      /\ Begin(a, "write", 0)
  <2>1. len \in Nat
    BY CharFacts
  <2>2. a \in Requests
    BY <2>1, PointerFacts DEF Requests
  <2> QED
    BY <2>2 DEF WriteLen
<1>2. cells' = cells /\ size' = size
  BY DEF WriteLen
<1>3. len \in 1..(IF p[1] \in Buf THEN size[p[1]] + 1 - p[2] ELSE Len(p[1]) + 1)
  BY DEF WriteLen
<1>4. len \in Nat /\ p[2] + len <= EndOf(p) + 1
  <2>1. CASE p[1] \in Buf
    <3>1. size[p[1]] \in 0..N /\ p[2] \in Nat /\ len \in 1..(size[p[1]] + 1 - p[2])
      BY <2>1, <1>3, ObjectFacts, PointerFacts
    <3>2. QED
      BY <2>1, <3>1, CharFacts DEF EndOf
  <2>2. CASE p[1] \notin Buf
    <3>1. p[2] = 0 /\ len \in 1..(Len(p[1]) + 1) /\ EndOf(p) = Len(p[1]) /\ EndOf(p) \in Nat
      BY <2>2, <1>3, PointerFacts, EndIsNat DEF EndOf
    <3>2. QED
      BY <3>1
  <2>3. QED
    BY <2>1, <2>2
<1> HIDE DEF a
<1>5. QED
  BY <1>1, <1>2, <1>4, ObjectFacts, BeginEstablishes

LEMMA DoFormatPreserves ==
  ASSUME FfbInv, NEW b \in Buf, NEW p \in Pointers, NEW fmt \in Formats,
         NEW op \in {"format", "append"}, NEW start \in Nat, DoFormat(b, op, start, fmt, p)
  PROVE  FfbInv'
<1> DEFINE a == [op |-> op, dst |-> b, src |-> p, fmt |-> fmt]
<1>1. /\ a \in Requests /\ a.dst = b /\ a.src = p /\ a.fmt = fmt /\ size' = size
      /\ Begin(a, "measure", start + Len(fmt.lead))
      /\ cells' = [cells EXCEPT ![b] = Stored(cells[b], start, fmt.lead)]
  <2>1. a \in Requests
    BY PointerFacts DEF Requests
  <2> QED
    BY <2>1 DEF DoFormat
<1>2. fmt.lead \in Seq(Char)
  BY BufferAssumption DEF Char
<1>3. start + Len(fmt.lead) \in Nat
  BY <1>2
<1>4. Stored(cells[b], start, fmt.lead) \in Row /\ Stored(cells[b], start, fmt.lead)[N] = Nul
  BY <1>2, ObjectFacts, StoredRow
<1>5. cells' \in [Buf -> Row] /\ \A c \in Buf : cells'[c][N] = Nul /\ (c # b => cells'[c] = cells[c])
  BY <1>1, <1>4, ObjectFacts
<1> HIDE DEF a
<1>6. QED
  BY <1>1, <1>3, <1>5, BeginEstablishes
-----------------------------------------------------------------------------
(* The steps of a call.                                                    *)
LEMMA CallFacts ==
  ASSUME FfbInv, ~Idle
  PROVE  /\ args \in Requests /\ args.dst \in Buf /\ before \in Seq(Char)
         /\ src[1] \in Buf \cup Literals /\ src[2] \in Nat
         /\ EndOf(src) \in Nat /\ pos \in Nat /\ dry \in Nat
<1>1. /\ args \in Requests /\ before \in Seq(Char) /\ pos \in Nat /\ dry \in Nat
      /\ src[1] \in Buf \cup Literals /\ src[2] \in Nat
  BY DEF FfbInv, FfbTypeOK
<1> QED
  BY <1>1, EndIsNat, RequestFacts

(* A step that does not end the call.                                      *)
LEMMA StepPreserves ==
  ASSUME FfbInv, ~Idle, NEW row \in Row, row[N] = Nul,
         cells' = [cells EXCEPT ![args.dst] = row], UNCHANGED <<size, args, before>>,
         bpc' \in {"write", "measure", "put"}, pos' \in Nat, dry' \in Nat,
         src'[1] \in Buf \cup Literals, src'[2] \in Nat, CallInv'
  PROVE  FfbInv'
<1>1. cells' \in [Buf -> Row] /\ \A b \in Buf : cells'[b][N] = Nul
  BY ObjectFacts, CallFacts
<1>2. FfbTypeOK'
  BY <1>1, ObjectFacts, CallFacts DEF FfbTypeOK, Idle, Row
<1>3. Terminated'
  BY <1>1 DEF Terminated, Idle
<1>4. OthersTerminated'
  BY ObjectFacts, CallFacts DEF FfbInv, OthersTerminated
<1>5. QED
  BY <1>2, <1>3, <1>4 DEF FfbInv

(* A step that ends it.                                                    *)
LEMMA ReturnPreserves ==
  ASSUME FfbInv, ~Idle, NEW row \in Row, row[N] = Nul, NEW end \in 0..N,
         cells' = [cells EXCEPT ![args.dst] = [row EXCEPT ![end] = Nul]],
         size' = [size EXCEPT ![args.dst] = end], Return
  PROVE  FfbInv'
<1>1. [row EXCEPT ![end] = Nul] \in Row /\ [row EXCEPT ![end] = Nul][N] = Nul
      /\ [row EXCEPT ![end] = Nul][end] = Nul
  BY CharFacts DEF Row
<1>2. cells' \in [Buf -> Row] /\ size' \in [Buf -> 0..N]
  BY <1>1, ObjectFacts
<1>3. \A b \in Buf : cells'[b][N] = Nul /\ cells'[b][size'[b]] = Nul
  BY <1>1, ObjectFacts, CallFacts DEF FfbInv, OthersTerminated
<1>4. FfbTypeOK'
  BY <1>2 DEF FfbTypeOK, Return, Idle, Row
<1>5. Terminated'
  BY <1>3 DEF Terminated
<1>6. CallInv' /\ OthersTerminated'
  BY DEF CallInv, OthersTerminated, Idle, Return
<1>7. QED
  BY <1>4, <1>5, <1>6 DEF FfbInv

(* Every pointer of the loops stays inside its region.                     *)
LEMMA SourceInside ==
  ASSUME FfbInv, bpc \in {"measure", "put"} \/ (bpc = "write" /\ (args.op = "write" \/ MoreToWrite))
  PROVE  ~Idle /\ src[2] <= EndOf(src) /\ At(src) \in Char
<1>1. ~Idle
  BY DEF Idle
<1>2. src[2] <= EndOf(src)
  <2>1. CASE bpc \in {"measure", "put"}
    BY <2>1 DEF FfbInv, CallInv
  <2>2. CASE bpc = "write" /\ args.op = "write"
    BY <2>2 DEF FfbInv, CallInv
  <2>3. CASE bpc = "write" /\ args.op # "write" /\ MoreToWrite
    <3>1. /\ args.len \in Nat /\ pos \in Nat /\ pos < args.len
          /\ src[2] + (args.len - pos) <= EndOf(src) + 1
      BY <1>1, <2>3, CallFacts DEF FfbInv, CallInv, MoreToWrite
    <3>2. QED
      BY <1>1, <3>1, CallFacts
  <2>4. QED
    BY <2>1, <2>2, <2>3
<1>3. At(src) \in Char
  BY <1>1, <1>2, ObjectFacts, CallFacts, PointsAtChar
<1>4. QED
  BY <1>1, <1>2, <1>3

LEMMA WriteCharPreserves ==
  ASSUME FfbInv, WriteChar
  PROVE  FfbInv'
<1>1. /\ bpc = "write" /\ MoreToWrite /\ ~Idle /\ pos \in Nat /\ pos < N
      /\ cells' = [cells EXCEPT ![args.dst] = [cells[args.dst] EXCEPT ![pos] = At(src)]]
      /\ src' = Beyond(src, 1) /\ pos' = pos + 1 /\ bpc' = "write" /\ dry' = dry
      /\ UNCHANGED <<size, args, before>>
  BY CallFacts DEF WriteChar, MoreToWrite, Idle
<1>2. src[2] <= EndOf(src) /\ At(src) \in Char
  BY <1>1, SourceInside
<1> DEFINE row == [cells[args.dst] EXCEPT ![pos] = At(src)]
<1>3. row \in Row /\ row[N] = Nul
  BY <1>1, <1>2, ObjectFacts, CallFacts, CharFacts DEF Row
<1>4. src'[1] = src[1] /\ src'[2] = src[2] + 1 /\ EndOf(src)' = EndOf(src)
  BY <1>1, BeyondFacts DEF EndOf
<1>5. CallInv'
  <2>1. pos' \in 0..N
    BY <1>1, CharFacts
  <2>2. args.op = "write" => src'[2] <= EndOf(src)
    <3>1. args.op = "write" => At(src) # Nul
      BY <1>1 DEF MoreToWrite
    <3>2. QED
      BY <1>1, <1>2, <1>4, <3>1, ObjectFacts, CallFacts, NotAtTheEnd
  <2>3. args.op = "writelen" =>
          args.len \in Nat /\ pos' <= args.len /\ src'[2] + (args.len - pos') <= EndOf(src) + 1
    <3>1. SUFFICES ASSUME args.op = "writelen"
                   PROVE args.len \in Nat /\ pos' <= args.len
                         /\ src'[2] + (args.len - pos') <= EndOf(src) + 1
      OBVIOUS
    <3>2. /\ args.len \in Nat /\ pos < args.len
          /\ src[2] + (args.len - pos) <= EndOf(src) + 1
      BY <1>1, <3>1 DEF FfbInv, CallInv, MoreToWrite
    <3>3. QED
      BY <1>1, <1>4, <3>2, CallFacts
  <2>4. args' = args /\ args.op \in {"write", "writelen"}
    BY <1>1 DEF FfbInv, CallInv
  <2>5. QED
    BY <1>1, <1>4, <2>1, <2>2, <2>3, <2>4 DEF CallInv
<1> HIDE DEF row
<1>6. cells' = [cells EXCEPT ![args.dst] = row]
  BY <1>1 DEF row
<1>7. pos' \in Nat /\ dry' \in Nat /\ src'[1] \in Buf \cup Literals /\ src'[2] \in Nat
  BY <1>1, <1>4, CallFacts
<1>8. QED
  BY <1>1, <1>3, <1>5, <1>6, <1>7, StepPreserves

LEMMA WriteReturnPreserves ==
  ASSUME FfbInv, WriteReturn
  PROVE  FfbInv'
<1>1. /\ ~Idle /\ pos \in 0..N /\ Return /\ size' = [size EXCEPT ![args.dst] = pos]
      /\ cells' = [cells EXCEPT ![args.dst] = [cells[args.dst] EXCEPT ![pos] = Nul]]
  BY DEF WriteReturn, FfbInv, CallInv, Idle
<1>2. cells[args.dst] \in Row /\ cells[args.dst][N] = Nul
  BY <1>1, ObjectFacts, CallFacts
<1>3. QED
  BY <1>1, <1>2, ReturnPreserves

LEMMA MeasurePreserves ==
  ASSUME FfbInv, Measure
  PROVE  FfbInv'
<1> DEFINE fill == Pads(IF args.fmt.left THEN 0 ELSE args.fmt.width - Length(src))
           row  == Stored(cells[args.dst], pos, fill)
<1>1. /\ bpc = "measure" /\ ~Idle /\ dry' = Length(src) /\ bpc' = "put" /\ pos' = pos + Len(fill)
      /\ cells' = [cells EXCEPT ![args.dst] = row] /\ UNCHANGED <<size, args, before, src>>
  BY DEF Measure, Idle
<1>2. args.fmt \in Formats /\ src[2] <= EndOf(src)
  BY <1>1 DEF FfbInv, CallInv
<1>3. Length(src) \in Nat
  BY <1>1, <1>2, CallFacts, LengthIsNat
<1>4. fill \in Seq(Char) /\ Len(fill) \in Nat
  <2>1. args.fmt.width \in Nat
    BY <1>2, BufferAssumption
  <2>2. (IF args.fmt.left THEN 0 ELSE args.fmt.width - Length(src)) \in Int
    BY <1>3, <2>1
  <2>3. QED
    BY <2>2, PadsFacts
<1> HIDE DEF fill
<1>5. row \in Row /\ row[N] = Nul
  BY <1>1, <1>4, ObjectFacts, CallFacts, StoredRow
<1> HIDE DEF row
<1>6. CallInv'
  BY <1>1, <1>2 DEF CallInv, EndOf
<1>7. pos' \in Nat /\ dry' \in Nat /\ src'[1] \in Buf \cup Literals /\ src'[2] \in Nat
  BY <1>1, <1>3, <1>4, CallFacts
<1>8. QED
  BY <1>1, <1>5, <1>6, <1>7, StepPreserves

LEMMA PutCharPreserves ==
  ASSUME FfbInv, PutChar
  PROVE  FfbInv'
<1> DEFINE row == Stored(cells[args.dst], pos, <<At(src)>>)
<1>1. /\ bpc = "put" /\ ~Idle /\ At(src) # Nul /\ bpc' = bpc /\ dry' = dry /\ pos' = pos + 1
      /\ src' = Beyond(src, 1) /\ cells' = [cells EXCEPT ![args.dst] = row]
      /\ UNCHANGED <<size, args, before>>
  BY DEF PutChar, PutCharBy, Idle
<1>2. args.fmt \in Formats /\ src[2] <= EndOf(src) /\ At(src) \in Char
  BY <1>1, SourceInside DEF FfbInv, CallInv
<1>3. row \in Row /\ row[N] = Nul
  <2>1. <<At(src)>> \in Seq(Char)
    BY <1>2
  <2>2. QED
    BY <1>1, <2>1, ObjectFacts, CallFacts, StoredRow
<1> HIDE DEF row
<1>4. src'[1] = src[1] /\ src'[2] = src[2] + 1 /\ EndOf(src)' = EndOf(src)
  BY <1>1, BeyondFacts DEF EndOf
<1>5. src[2] + 1 <= EndOf(src)
  BY <1>1, <1>2, ObjectFacts, CallFacts, NotAtTheEnd
<1>6. CallInv'
  BY <1>1, <1>2, <1>4, <1>5 DEF CallInv
<1>7. pos' \in Nat /\ dry' \in Nat /\ src'[1] \in Buf \cup Literals /\ src'[2] \in Nat
  BY <1>1, <1>4, CallFacts
<1>8. QED
  BY <1>1, <1>3, <1>6, <1>7, StepPreserves

LEMMA FormatReturnPreserves ==
  ASSUME FfbInv, FormatReturn
  PROVE  FfbInv'
<1> DEFINE end == Min({pos + Len(Filling), N})
           row == Stored(cells[args.dst], pos, Filling)
<1>1. /\ bpc = "put" /\ ~Idle /\ Return /\ size' = [size EXCEPT ![args.dst] = end]
      /\ cells' = [cells EXCEPT ![args.dst] = [row EXCEPT ![end] = Nul]]
  BY DEF FormatReturn, FormatReturnAt, Idle
<1>2. Filling \in Seq(Char) /\ Len(Filling) \in Nat
  <2>1. args.fmt.width \in Nat
    BY <1>1, BufferAssumption DEF FfbInv, CallInv
  <2>2. (IF args.fmt.left THEN args.fmt.width - dry ELSE 0) \in Int
    BY <1>1, <2>1, CallFacts
  <2>3. QED
    BY <2>2, PadsFacts DEF Filling
<1>3. row \in Row /\ row[N] = Nul
  BY <1>1, <1>2, ObjectFacts, CallFacts, StoredRow
<1>4. end \in 0..N
  <2> DEFINE T == {pos + Len(Filling), N}
  <2>1. T \subseteq Nat /\ T # {}
    BY <1>1, <1>2, CallFacts, CharFacts
  <2>2. end \in T /\ end <= N
    <3>1. PICK x \in T : \A y \in T : x <= y
      BY <2>1
    <3>2. end \in T /\ \A y \in T : end <= y
      BY <3>1 DEF Min
    <3>3. QED
      BY <3>2
  <2>3. QED
    BY <2>1, <2>2
<1> HIDE DEF end, row
<1>5. QED
  BY <1>1, <1>3, <1>4, ReturnPreserves
-----------------------------------------------------------------------------
LEMMA InitEstablishes == FfbInit => FfbInv
<1> SUFFICES ASSUME FfbInit PROVE FfbInv
  OBVIOUS
<1>1. [k \in 0..N |-> Nul] \in [0..N -> Char]
  BY CharFacts
<1>2. FfbTypeOK
  BY <1>1, CharFacts DEF FfbInit, FfbTypeOK, Idle
<1>3. Terminated
  BY CharFacts DEF FfbInit, Terminated
<1>4. CallInv /\ OthersTerminated
  BY DEF FfbInit, CallInv, OthersTerminated, Idle
<1>5. QED
  BY <1>2, <1>3, <1>4 DEF FfbInv

LEMMA StutterPreserves ==
  ASSUME FfbInv, UNCHANGED ffbVars
  PROVE  FfbInv'
<1>1. UNCHANGED <<cells, size, args, before, bpc, src, pos, dry>>
  BY DEF ffbVars, callVars
<1>2. FfbTypeOK' /\ Terminated'
  BY <1>1 DEF FfbInv, FfbTypeOK, Terminated, Idle
<1>3. CallInv' /\ OthersTerminated'
  BY <1>1 DEF FfbInv, CallInv, OthersTerminated, Idle, EndOf
<1>4. QED
  BY <1>2, <1>3 DEF FfbInv

(* The invariant of the buffer objects, for any sequence of calls.         *)
THEOREM FfbInvariant == FfbSpec => []FfbInv
<1>1. FfbInv /\ [FfbNext]_ffbVars => FfbInv'
  <2> SUFFICES ASSUME FfbInv, [FfbNext]_ffbVars PROVE FfbInv'
    OBVIOUS
  <2>1. CASE FfbStep
    BY <2>1, WriteCharPreserves, WriteReturnPreserves, MeasurePreserves, PutCharPreserves,
       FormatReturnPreserves DEF FfbStep
  <2>2. ASSUME NEW b \in Buf, Construct(b) \/ Clear(b) PROVE FfbInv'
    BY <2>2, ConstructPreserves, ClearPreserves
  <2>3. ASSUME NEW b \in Buf, NEW other \in Buf, CopyFrom(b, other) \/ MoveFrom(b, other)
        PROVE  FfbInv'
    BY <2>3, CopyPreserves, MovePreserves
  <2>4. ASSUME NEW b \in Buf, NEW p \in Pointers, Write(b, p) PROVE FfbInv'
    BY <2>4, WritePreserves
  <2>5. ASSUME NEW b \in Buf, NEW p \in Pointers, NEW len \in 1..(N + 1), WriteLen(b, p, len)
        PROVE  FfbInv'
    BY <2>5, WriteLenPreserves
  <2>6. ASSUME NEW b \in Buf, NEW p \in Pointers, NEW fmt \in Formats,
               Format(b, fmt, p) \/ AppendTo(b, fmt, p)
        PROVE  FfbInv'
    <3>1. size[b] \in Nat
      BY ObjectFacts, CharFacts
    <3>2. CASE Format(b, fmt, p)
      BY <3>2, DoFormatPreserves DEF Format
    <3>3. CASE AppendTo(b, fmt, p)
      BY <3>1, <3>3, DoFormatPreserves DEF AppendTo
    <3>4. QED
      BY <2>6, <3>2, <3>3
  <2>7. CASE UNCHANGED ffbVars
    BY <2>7, StutterPreserves
  <2>8. QED
    BY <2>1, <2>2, <2>3, <2>4, <2>5, <2>6, <2>7 DEF FfbNext, FfbCall
<1>2. QED
  BY InitEstablishes, <1>1, PTL DEF FfbSpec

(* Cells hold characters, size_ never exceeds N.                           *)
THEOREM FfbTypes == FfbSpec => []FfbTypeOK
<1>1. FfbInv => FfbTypeOK
  BY DEF FfbInv
<1>2. QED
  BY <1>1, FfbInvariant, PTL

(* The terminator is where size_ says whenever no call is running, and the *)
(* last cell is one always.                                                *)
THEOREM FfbTerminated == FfbSpec => []Terminated
<1>1. FfbInv => Terminated
  BY DEF FfbInv
<1>2. QED
  BY <1>1, FfbInvariant, PTL

(* No loop reads outside its source, buf.Append("%s", buf.CStr()) included.*)
THEOREM FfbReadsInBounds == FfbSpec => []ReadsInBounds
<1>1. FfbInv => ReadsInBounds
  <2> SUFFICES ASSUME FfbInv, Reading PROVE src[2] \in 0..EndOf(src)
    BY DEF ReadsInBounds
  <2>1. ~Idle /\ src[2] <= EndOf(src)
    BY SourceInside DEF Reading
  <2>2. QED
    BY <2>1, CallFacts
<1>2. QED
  BY <1>1, FfbInvariant, PTL

(* The first NUL of a buffer whose text has none is its terminator.        *)
LEMMA FirstNul ==
  ASSUME FfbInv, Idle, NEW b \in Buf, Nul \notin Range(Text(b))
  PROVE  /\ size[b] \in 0..N /\ cells[b][size[b]] = Nul
         /\ \A k \in 0..(size[b] - 1) : cells[b][k] # Nul
<1>1. size[b] \in 0..N /\ cells[b][size[b]] = Nul /\ N \in Nat
  BY CharFacts DEF FfbInv, FfbTypeOK, Terminated
<1>2. ASSUME NEW k \in 0..(size[b] - 1) PROVE cells[b][k] # Nul
  <2>1. k + 1 \in DOMAIN Text(b) /\ Text(b)[k + 1] = cells[b][k]
    BY <1>1 DEF Text
  <2>2. Text(b)[k + 1] \in Range(Text(b))
    BY <2>1 DEF Range
  <2> QED
    BY <2>1, <2>2
<1> QED
  BY <1>1, <1>2

(* strcmp of two buffers compares their texts: the terminators stop it     *)
(* before what earlier texts left behind them.                             *)
THEOREM FfbEqualityIsTextual == FfbSpec => []EqualityIsTextual
<1>1. FfbInv => EqualityIsTextual
  <2> SUFFICES ASSUME FfbInv, Idle, NEW x \in Buf, NEW y \in Buf,
                      Nul \notin Range(Text(x)), Nul \notin Range(Text(y))
               PROVE  Equals(x, y) <=> Text(x) = Text(y)
    BY DEF EqualityIsTextual
  <2>1. /\ size[x] \in 0..N /\ cells[x][size[x]] = Nul
        /\ \A k \in 0..(size[x] - 1) : cells[x][k] # Nul
    BY FirstNul
  <2>2. /\ size[y] \in 0..N /\ cells[y][size[y]] = Nul
        /\ \A k \in 0..(size[y] - 1) : cells[y][k] # Nul
    BY FirstNul
  <2>3. N \in Nat
    BY CharFacts
  <2>4. ASSUME Equals(x, y) PROVE Text(x) = Text(y)
    <3>1. PICK end \in 0..N :
            /\ cells[x][end] = Nul /\ cells[y][end] = Nul
            /\ \A k \in 0..(end - 1) : cells[x][k] = cells[y][k] /\ cells[x][k] # Nul
      BY <2>4 DEF Equals
    <3>2. \A k \in 0..(end - 1) : cells[y][k] # Nul
      BY <3>1
    <3>3. ~(end < size[x]) /\ ~(size[x] < end)
      BY <2>1, <2>3, <3>1
    <3>4. ~(end < size[y]) /\ ~(size[y] < end)
      BY <2>2, <2>3, <3>1, <3>2
    <3>5. size[x] = end /\ size[y] = end
      BY <2>1, <2>2, <2>3, <3>3, <3>4
    <3>6. \A i \in 1..end : cells[x][i - 1] = cells[y][i - 1]
      <4> TAKE i \in 1..end
      <4>1. i - 1 \in 0..(end - 1)
        BY <2>3
      <4> QED
        BY <3>1, <4>1
    <3> QED
      BY <3>5, <3>6 DEF Text
  <2>5. ASSUME Text(x) = Text(y) PROVE Equals(x, y)
    <3>1. size[x] = size[y]
      BY <2>1, <2>2, <2>5 DEF Text
    <3>2. \A k \in 0..(size[x] - 1) : cells[x][k] = cells[y][k]
      <4> TAKE k \in 0..(size[x] - 1)
      <4>1. k + 1 \in 1..size[x] /\ (k + 1) - 1 = k
        BY <2>1
      <4>2. Text(x)[k + 1] = cells[x][k] /\ Text(y)[k + 1] = cells[y][k]
        BY <3>1, <4>1 DEF Text
      <4> QED
        BY <2>5, <4>2
    <3> QED
      BY <2>1, <2>2, <3>1, <3>2 DEF Equals
  <2> QED
    BY <2>4, <2>5
<1> QED
  BY <1>1, FfbInvariant, PTL
-----------------------------------------------------------------------------
(* The operators of TextObjects, position by position.                     *)
LEMMA PromisedMin ==
  ASSUME NEW T
  PROVE  Promised!Min(T) = Min(T)
BY DEF Promised!Min, Min

(* A text up to its first NUL.                                             *)
LEMMA CStrFacts ==
  ASSUME NEW s \in Seq(Char)
  PROVE  /\ Promised!CStr(s) \in Seq(Char) /\ Len(Promised!CStr(s)) \in 0..Len(s)
         /\ \A i \in 1..Len(Promised!CStr(s)) : Promised!CStr(s)[i] = s[i] /\ s[i] # Nul
         /\ Len(Promised!CStr(s)) < Len(s) => s[Len(Promised!CStr(s)) + 1] = Nul
<1> DEFINE T == {i \in DOMAIN s : s[i] = Nul} \cup {Len(s) + 1}
           end == Min(T)
<1>1. T \subseteq Nat /\ T # {} /\ \A i \in T : i \in 1..(Len(s) + 1)
  OBVIOUS
<1>2. end \in T /\ \A y \in T : end <= y
  BY <1>1, LeastElement
<1>3. Promised!CStr(s) = SubSeq(s, 1, end - 1)
  BY PromisedMin DEF Promised!CStr
<1>4. end \in 1..(Len(s) + 1) /\ (end <= Len(s) => s[end] = Nul)
  BY <1>1, <1>2
<1>5. \A i \in 1..(end - 1) : s[i] # Nul /\ s[i] \in Char
  <2> SUFFICES ASSUME NEW i \in 1..(end - 1) PROVE s[i] # Nul /\ s[i] \in Char
    OBVIOUS
  <2>1. i \in DOMAIN s /\ ~(end <= i)
    BY <1>4
  <2>2. i \notin T
    BY <1>2, <2>1
  <2> QED
    BY <2>1, <2>2
<1> HIDE DEF T, end
<1>6. /\ Promised!CStr(s) \in Seq(Char) /\ Len(Promised!CStr(s)) = end - 1
      /\ \A i \in 1..(end - 1) : Promised!CStr(s)[i] = s[i]
  <2>1. /\ SubSeq(s, 1, end - 1) \in Seq(Char)
        /\ Len(SubSeq(s, 1, end - 1)) = IF 1 <= end - 1 THEN (end - 1) - 1 + 1 ELSE 0
        /\ \A i \in 1..((end - 1) - 1 + 1) : SubSeq(s, 1, end - 1)[i] = s[1 + i - 1]
    BY <1>4, <1>5, SubSeqProperties
  <2>2. \A i \in 1..(end - 1) : i \in 1..((end - 1) - 1 + 1) /\ 1 + i - 1 = i
    BY <1>4
  <2>3. (IF 1 <= end - 1 THEN (end - 1) - 1 + 1 ELSE 0) = end - 1
    BY <1>4
  <2> QED
    BY <1>3, <2>1, <2>2, <2>3
<1> QED
  BY <1>4, <1>5, <1>6

(* A prefix.                                                               *)
LEMMA PrefixFacts ==
  ASSUME NEW s \in Seq(Char), NEW k \in 0..Len(s)
  PROVE  /\ SubSeq(s, 1, k) \in Seq(Char) /\ Len(SubSeq(s, 1, k)) = k
         /\ \A i \in 1..k : SubSeq(s, 1, k)[i] = s[i]
<1>1. k \in Nat /\ \A i \in 1..k : s[i] \in Char
  OBVIOUS
<1>2. /\ SubSeq(s, 1, k) \in Seq(Char)
      /\ Len(SubSeq(s, 1, k)) = IF 1 <= k THEN k - 1 + 1 ELSE 0
      /\ \A i \in 1..(k - 1 + 1) : SubSeq(s, 1, k)[i] = s[1 + i - 1]
  BY <1>1, SubSeqProperties
<1>3. \A i \in 1..k : i \in 1..(k - 1 + 1) /\ 1 + i - 1 = i
  BY <1>1
<1> QED
  BY <1>1, <1>2, <1>3

LEMMA TakeFacts ==
  ASSUME NEW s \in Seq(Char), NEW k \in Nat
  PROVE  /\ Promised!Take(s, k) = SubSeq(s, 1, IF k <= Len(s) THEN k ELSE Len(s))
         /\ Promised!Take(s, k) \in Seq(Char)
         /\ Len(Promised!Take(s, k)) = IF k <= Len(s) THEN k ELSE Len(s)
         /\ \A i \in 1..Len(Promised!Take(s, k)) : Promised!Take(s, k)[i] = s[i]
<1> DEFINE m == IF k <= Len(s) THEN k ELSE Len(s)
<1>1. m \in 0..Len(s) /\ Min({k, Len(s)}) = m
  BY MinOfTwo
<1>2. Promised!Take(s, k) = SubSeq(s, 1, m)
  BY <1>1, PromisedMin DEF Promised!Take
<1> HIDE DEF m
<1>3. QED
  BY <1>1, <1>2, PrefixFacts DEF m
-----------------------------------------------------------------------------
(* The padding of a string to the width of a format.                       *)
LeftFill(f, c)  == Pads(IF f.left THEN 0 ELSE f.width - Len(c))
RightFill(f, c) == Pads(IF f.left THEN f.width - Len(c) ELSE 0)

(* What the call r makes of its arguments when the texts are v: the string *)
(* its source points at, with the terminator; the characters in front of   *)
(* its first NUL; what a format puts in front of these.                    *)
Source(v, p)  == IF p[1] \in Buf THEN v[p[1]] ELSE p[1]
Rest(v, p)    == SubSeq(Source(v, p), p[2] + 1, Len(Source(v, p)))
Given(v, r)   == Append(Rest(v, r.src), Nul)
Content(v, r) == Promised!CStr(Rest(v, r.src))
Base(v, r)    == (IF r.op = "append" THEN v[r.dst] ELSE <<>>) \o r.fmt.lead
LeftPad(v, r) == LeftFill(r.fmt, Content(v, r))

(* A call that writes in front of its own source: TextObjects!Tangled.     *)
Tangles(v, r) ==
  /\ r.src[1] = r.dst
  /\ \/ r.op = "append"
     \/ r.op = "format" /\ (r.fmt.lead # <<>> \/ (~r.fmt.left /\ r.fmt.width > Len(Content(v, r))))

Values == [Buf -> Seq(Char)]

LEMMA SourceIsSeq ==
  ASSUME NEW v \in Values, NEW p \in Points
  PROVE  Source(v, p) \in Seq(Char)
<1>1. p[1] \in Buf \cup Literals
  BY DEF Points
<1> QED
  BY <1>1, BufferAssumption DEF Source, Values, Char

LEMMA RestFacts ==
  ASSUME NEW v \in Values, NEW p \in Points, p[2] <= Len(Source(v, p))
  PROVE  /\ Rest(v, p) \in Seq(Char) /\ Len(Rest(v, p)) = Len(Source(v, p)) - p[2]
         /\ \A i \in 1..Len(Rest(v, p)) : Rest(v, p)[i] = Source(v, p)[p[2] + i]
<1> DEFINE s == Source(v, p)
           o == p[2]
<1>1. s \in Seq(Char) /\ o \in Nat /\ o <= Len(s) /\ Len(s) \in Nat
  BY SourceIsSeq DEF Points
<1>2. Rest(v, p) = SubSeq(s, o + 1, Len(s))
  BY DEF Rest
<1> HIDE DEF s, o
<1>3. \A i \in (o + 1)..Len(s) : s[i] \in Char
  BY <1>1
<1>4. /\ SubSeq(s, o + 1, Len(s)) \in Seq(Char)
      /\ Len(SubSeq(s, o + 1, Len(s))) = IF o + 1 <= Len(s) THEN Len(s) - (o + 1) + 1 ELSE 0
      /\ \A i \in 1..(Len(s) - (o + 1) + 1) : SubSeq(s, o + 1, Len(s))[i] = s[o + 1 + i - 1]
  BY <1>1, <1>3, SubSeqProperties
<1>5. Len(Rest(v, p)) = Len(s) - o
  BY <1>1, <1>2, <1>4
<1>6. \A i \in 1..(Len(s) - o) : i \in 1..(Len(s) - (o + 1) + 1) /\ o + 1 + i - 1 = o + i
  BY <1>1
<1>7. \A i \in 1..(Len(s) - o) : Rest(v, p)[i] = s[o + i]
  BY <1>2, <1>4, <1>6
<1> QED
  BY <1>2, <1>4, <1>5, <1>7 DEF s, o

LEMMA GivenFacts ==
  ASSUME NEW v \in Values, NEW r \in Requests, r.src[2] <= Len(Source(v, r.src))
  PROVE  /\ Given(v, r) \in Seq(Char)
         /\ Len(Given(v, r)) = Len(Source(v, r.src)) - r.src[2] + 1
         /\ Len(Given(v, r)) \in Nat \ {0} /\ Given(v, r)[Len(Given(v, r))] = Nul
         /\ \A i \in 1..(Len(Given(v, r)) - 1) :
              Given(v, r)[i] = Rest(v, r.src)[i] /\ Given(v, r)[i] = Source(v, r.src)[r.src[2] + i]
<1>1. r.src \in Points /\ r.src[2] \in Nat
  BY RequestFacts
<1>2. Source(v, r.src) \in Seq(Char)
  BY <1>1, SourceIsSeq
<1> DEFINE t == Rest(v, r.src)
<1>3. /\ t \in Seq(Char) /\ Len(t) = Len(Source(v, r.src)) - r.src[2]
      /\ \A i \in 1..Len(t) : t[i] = Source(v, r.src)[r.src[2] + i]
  BY <1>1, RestFacts
<1>4. Given(v, r) = Append(t, Nul)
  BY DEF Given
<1> HIDE DEF t
<1>5. /\ Append(t, Nul) \in Seq(Char) /\ Len(Append(t, Nul)) = Len(t) + 1
      /\ Append(t, Nul)[Len(t) + 1] = Nul /\ \A i \in 1..Len(t) : Append(t, Nul)[i] = t[i]
  BY <1>3, CharFacts
<1>6. Len(t) \in Nat /\ (Len(t) + 1) - 1 = Len(t)
  BY <1>3
<1> QED
  BY <1>3, <1>4, <1>5, <1>6 DEF t

LEMMA ContentFacts ==
  ASSUME NEW v \in Values, NEW r \in Requests, r.src[2] <= Len(Source(v, r.src))
  PROVE  /\ Content(v, r) \in Seq(Char) /\ Len(Content(v, r)) \in Nat
         /\ Len(Content(v, r)) < Len(Given(v, r))
         /\ \A i \in 1..Len(Content(v, r)) :
              Content(v, r)[i] = Given(v, r)[i] /\ Given(v, r)[i] # Nul
         /\ Given(v, r)[Len(Content(v, r)) + 1] = Nul
<1> DEFINE t == Rest(v, r.src)
           g == Given(v, r)
           c == Content(v, r)
<1>1. r.src \in Points /\ t \in Seq(Char) /\ Len(t) = Len(Source(v, r.src)) - r.src[2]
  BY RequestFacts, RestFacts
<1>2. /\ Len(g) = Len(t) + 1 /\ g[Len(g)] = Nul /\ Len(t) \in Nat
      /\ \A i \in 1..Len(t) : g[i] = t[i]
  BY <1>1, GivenFacts
<1>3. /\ c \in Seq(Char) /\ Len(c) \in 0..Len(t)
      /\ \A i \in 1..Len(c) : c[i] = t[i] /\ t[i] # Nul
      /\ Len(c) < Len(t) => t[Len(c) + 1] = Nul
  BY <1>1, CStrFacts DEF Content
<1> HIDE DEF t, g, c
<1>4. /\ Len(c) \in Nat /\ Len(c) < Len(g)
      /\ \A i \in 1..Len(c) : c[i] = g[i] /\ g[i] # Nul
      /\ g[Len(c) + 1] = Nul
  BY <1>2, <1>3
<1> QED
  BY <1>3, <1>4 DEF g, c
-----------------------------------------------------------------------------
(* A row of cells holds a text, as far as it has room: the last cell keeps *)
(* the terminator.                                                         *)
Holds(row, w) == \A k \in 0..(N - 1) : k < Len(w) => row[k] = w[k + 1]

(* Put goes on where the text ends.                                        *)
LEMMA StoredHolds ==
  ASSUME NEW row \in Row, NEW w \in Seq(Char), Holds(row, w), NEW s \in Seq(Char)
  PROVE  Holds(Stored(row, Len(w), s), w \o s) /\ Holds(Stored(row, Len(w), s), w)
<1> DEFINE new == Stored(row, Len(w), s)
<1>1. /\ Len(w) \in Nat /\ Len(s) \in Nat /\ N \in Nat /\ DOMAIN s = 1..Len(s)
      /\ Len(w \o s) = Len(w) + Len(s)
      /\ \A i \in 1..(Len(w) + Len(s)) : (w \o s)[i] = IF i <= Len(w) THEN w[i] ELSE s[i - Len(w)]
  BY ConcatProperties, CharFacts
<1>2. ASSUME NEW k \in 0..(N - 1), k < Len(w)
      PROVE  new[k] = w[k + 1] /\ (w \o s)[k + 1] = w[k + 1]
  <2>1. k \in 0..N /\ k < N /\ k - Len(w) + 1 \notin DOMAIN s
    BY <1>1, <1>2
  <2>2. new[k] = row[k]
    BY <2>1 DEF Stored
  <2>3. k + 1 \in 1..(Len(w) + Len(s)) /\ k + 1 <= Len(w)
    BY <1>1, <1>2
  <2> QED
    BY <1>1, <1>2, <2>2, <2>3 DEF Holds
<1>3. ASSUME NEW k \in 0..(N - 1), ~(k < Len(w)), k < Len(w) + Len(s)
      PROVE  new[k] = (w \o s)[k + 1]
  <2>1. k \in 0..N /\ k < N /\ k - Len(w) + 1 \in DOMAIN s
    BY <1>1, <1>3
  <2>2. new[k] = s[k - Len(w) + 1]
    BY <2>1 DEF Stored
  <2>3. k + 1 \in 1..(Len(w) + Len(s)) /\ ~(k + 1 <= Len(w)) /\ (k + 1) - Len(w) = k - Len(w) + 1
    BY <1>1, <1>3
  <2>4. (w \o s)[k + 1] = s[(k + 1) - Len(w)]
    BY <1>1, <2>3
  <2> QED
    BY <2>2, <2>3, <2>4
<1> HIDE DEF new
<1>4. Holds(new, w)
  BY <1>2 DEF Holds
<1>5. Holds(new, w \o s)
  BY <1>1, <1>2, <1>3 DEF Holds
<1> QED
  BY <1>4, <1>5 DEF new

(* A row that is terminated at an end, and the text in front of it.        *)
Ended(row, end) == [row EXCEPT ![end] = Nul]
Cut(row, end)   == [i \in 1..end |-> Ended(row, end)[i - 1]]

(* The text up to where the terminator is put.                             *)
LEMMA HeldText ==
  ASSUME NEW row \in Row, NEW w \in Seq(Char), Holds(row, w),
         NEW end, end = IF Len(w) <= N THEN Len(w) ELSE N
  PROVE  end \in 0..N /\ Cut(row, end) = Promised!Take(w, N)
<1> DEFINE new == Ended(row, end)
           t == [i \in 1..end |-> new[i - 1]]
<1>1. N \in Nat /\ Len(w) \in Nat /\ end \in 0..N /\ end <= Len(w)
  BY CharFacts
<1>2. ASSUME NEW i \in 1..end PROVE t[i] = w[i] /\ w[i] \in Char
  <2>1. i - 1 \in 0..(N - 1) /\ i - 1 \in 0..N /\ i - 1 # end /\ i - 1 < Len(w) /\ (i - 1) + 1 = i
    BY <1>1
  <2>2. new[i - 1] = row[i - 1]
    BY <2>1 DEF Row, Ended
  <2>3. row[i - 1] = w[i]
    BY <2>1 DEF Holds
  <2>4. i \in 1..Len(w)
    BY <1>1
  <2> QED
    BY <2>2, <2>3, <2>4, ElementOfSeq
<1> HIDE DEF new
<1>3. t \in Seq(Char) /\ Len(t) = end
  <2>1. \A i \in 1..end : new[i - 1] \in Char
    BY <1>2
  <2> QED
    BY <1>1, <2>1
<1> DEFINE u == Promised!Take(w, N)
<1>4. u \in Seq(Char) /\ Len(u) = end /\ \A i \in 1..end : u[i] = w[i]
  BY <1>1, TakeFacts
<1> HIDE DEF t, u
<1>5. t = u
  BY <1>2, <1>3, <1>4, SeqEqual
<1> QED
  BY <1>1, <1>5 DEF t, u, new, Cut

(* The same where the terminator lies behind the text: a prefix is kept.   *)
LEMMA HeldPrefix ==
  ASSUME NEW row \in Row, NEW w \in Seq(Char), Holds(row, w), NEW end \in 0..N, Len(w) <= end
  PROVE  IsPrefix(w, Cut(row, end))
<1> DEFINE new == Ended(row, end)
           t == [i \in 1..end |-> new[i - 1]]
<1>1. N \in Nat /\ end \in Nat /\ end <= N /\ Len(w) \in Nat /\ new \in Row
  BY CharFacts DEF Row, Ended
<1>2. \A i \in 1..end : i - 1 \in 0..N
  BY <1>1
<1>3. \A i \in 1..end : new[i - 1] \in Char
  BY <1>1, <1>2 DEF Row
<1>4. ASSUME NEW i \in 1..Len(w) PROVE t[i] = w[i]
  <2>1. i \in 1..end /\ i - 1 \in 0..(N - 1) /\ i - 1 # end /\ i - 1 < Len(w) /\ (i - 1) + 1 = i
    BY <1>1
  <2> QED
    BY <2>1 DEF Holds, Row, Ended
<1> HIDE DEF new
<1>5. t \in Seq(Char) /\ Len(t) = end
  BY <1>1, <1>3
<1> HIDE DEF t
<1>6. Len(w) \in 0..Len(t)
  BY <1>1, <1>5
<1>7. SubSeq(t, 1, Len(w)) = w
  <2>1. /\ SubSeq(t, 1, Len(w)) \in Seq(Char) /\ Len(SubSeq(t, 1, Len(w))) = Len(w)
        /\ \A i \in 1..Len(w) : SubSeq(t, 1, Len(w))[i] = t[i]
    BY <1>5, <1>6, PrefixFacts
  <2> QED
    BY <1>4, <2>1, SeqEqual
<1>8. IsPrefix(w, t)
  BY <1>5, <1>6, <1>7 DEF IsPrefix
<1> QED
  BY <1>8 DEF t, new, Cut
-----------------------------------------------------------------------------
(* The texts of TextObjects, and how a call in progress gets its object    *)
(* from the text it had to the one that was promised.                      *)
Value == [b \in Buf |-> IF ~Idle /\ b = args.dst THEN before ELSE Text(b)]

Taken      == src[2] - args.src[2]
Written(w) == pos = Len(w) /\ Holds(cells[args.dst], w)

(* What is still to be read is as it was when the call was made.           *)
Intact(g) ==
  /\ \A k \in Taken..(Len(g) - 1) : At(Beyond(args.src, k)) = g[k + 1]
  /\ args.src[1] = args.dst => pos <= src[2]

(* What has been written is the beginning of the result.                   *)
Progress(v) ==
  /\ bpc = "write" =>
       /\ pos = Taken /\ pos <= Len(Given(v, args)) /\ Written(SubSeq(Given(v, args), 1, pos))
       /\ args.op = "write" => \A i \in 1..pos : Given(v, args)[i] # Nul
       /\ args.op = "writelen" => pos <= args.len /\ args.len <= Len(Given(v, args))
  /\ bpc = "measure" => Taken = 0 /\ Written(Base(v, args))
  /\ bpc = "put" =>
       /\ dry = Len(Content(v, args)) /\ Taken <= Len(Content(v, args))
       /\ Written((Base(v, args) \o LeftPad(v, args)) \o SubSeq(Content(v, args), 1, Taken))

CallText(v) ==
  /\ src[1] = args.src[1] /\ Taken \in Nat
  /\ bpc = "write" <=> args.op \in {"write", "writelen"}
  /\ args.src[2] <= Len(Source(v, args.src)) /\ Len(v[args.dst]) <= N
  /\ args.op = "append" => Len(v[args.dst]) <= pos /\ Holds(cells[args.dst], v[args.dst])
  /\ ~Tangles(v, args) => Intact(Given(v, args)) /\ Progress(v)

TextInv == ~Idle => CallText(Value)

LEMMA TextFacts ==
  ASSUME FfbInv, NEW b \in Buf
  PROVE  /\ Text(b) \in Seq(Char) /\ Len(Text(b)) = size[b] /\ size[b] \in 0..N
         /\ \A i \in 1..size[b] : Text(b)[i] = cells[b][i - 1]
<1>1. size[b] \in 0..N /\ N \in Nat
  BY ObjectFacts, CharFacts
<1>2. Text(b) \in Seq(Char)
  BY TextIsSeq
<1> QED
  BY <1>1, <1>2 DEF Text

LEMMA ValueFacts ==
  ASSUME FfbInv
  PROVE  /\ Value \in Values
         /\ ~Idle => Value[args.dst] = before
         /\ \A b \in Buf : (Idle \/ b # args.dst) => Value[b] = Text(b)
<1>1. \A b \in Buf : Text(b) \in Seq(Char)
  BY TextIsSeq
<1>2. ~Idle => before \in Seq(Char) /\ args.dst \in Buf
  BY CallFacts
<1> QED
  BY <1>1, <1>2 DEF Value, Values

(* What the arguments of a call point at when it is made.                  *)
LEMMA SourceAtCall ==
  ASSUME FfbInv, Idle, NEW r \in Requests, r.src \in Pointers
  PROVE  /\ r.src[2] <= Len(Source(Value, r.src))
         /\ \A k \in 0..(Len(Given(Value, r)) - 1) : At(Beyond(r.src, k)) = Given(Value, r)[k + 1]
<1> DEFINE s == Source(Value, r.src)
           o == r.src[2]
           g == Given(Value, r)
<1>1. /\ r.src[1] \in Buf \cup Literals /\ o \in Nat /\ r.src \in Points
      /\ r.src[1] \in Buf => o <= size[r.src[1]]
      /\ r.src[1] \notin Buf => o = 0
  BY PointerFacts
<1>2. Value \in Values /\ s \in Seq(Char)
  BY <1>1, ValueFacts, SourceIsSeq
<1>3. o <= Len(s)
  <2>1. CASE r.src[1] \in Buf
    BY <1>1, <2>1, ValueFacts, TextFacts DEF Source
  <2>2. CASE r.src[1] \notin Buf
    BY <1>1, <1>2, <2>2
  <2> QED
    BY <2>1, <2>2
<1>4. /\ Len(g) = Len(s) - o + 1 /\ Len(g) \in Nat \ {0} /\ g[Len(g)] = Nul
      /\ \A i \in 1..(Len(g) - 1) : g[i] = s[o + i]
  BY <1>2, <1>3, GivenFacts
<1>5. ASSUME NEW k \in 0..(Len(g) - 1) PROVE At(Beyond(r.src, k)) = g[k + 1]
  <2>1. Beyond(r.src, k)[1] = r.src[1] /\ Beyond(r.src, k)[2] = o + k
    BY DEF Beyond
  <2>2. Len(s) \in Nat /\ o + k \in 0..Len(s) /\ k + 1 \in 1..Len(g)
    BY <1>1, <1>2, <1>3, <1>4
  <2>7. o \in Nat /\ Len(g) \in Nat /\ Len(g) = Len(s) - o + 1
    BY <1>1, <1>4
  <2> HIDE DEF s, o, g
  <2>3. k + 1 # Len(g) => k + 1 \in 1..(Len(g) - 1) /\ o + k < Len(s) /\ o + (k + 1) = (o + k) + 1
    BY <2>7, <2>2
  <2>4. k + 1 = Len(g) => o + k = Len(s)
    BY <2>7, <2>2
  <2>5. CASE r.src[1] \in Buf
    <3>1. s = Text(r.src[1]) /\ At(Beyond(r.src, k)) = cells[r.src[1]][o + k]
      BY <2>1, <2>5, ValueFacts DEF Source, At, Deref, s, o
    <3>2. /\ Len(s) = size[r.src[1]] /\ cells[r.src[1]][size[r.src[1]]] = Nul
          /\ \A i \in 1..Len(s) : s[i] = cells[r.src[1]][i - 1]
      BY <2>5, <3>1, TextFacts, ObjectFacts
    <3>3. CASE k + 1 = Len(g)
      BY <1>4, <2>4, <3>1, <3>2, <3>3
    <3>4. CASE k + 1 # Len(g)
      <4>1. g[k + 1] = s[(o + k) + 1]
        BY <1>4, <2>3, <3>4
      <4>2. (o + k) + 1 \in 1..Len(s) /\ ((o + k) + 1) - 1 = o + k
        BY <2>2, <2>3, <3>4
      <4> QED
        BY <3>1, <3>2, <4>1, <4>2
    <3> QED
      BY <3>3, <3>4
  <2>6. CASE r.src[1] \notin Buf
    <3>1. /\ s = r.src[1]
          /\ At(Beyond(r.src, k)) = IF o + k < Len(s) THEN s[(o + k) + 1] ELSE Nul
      BY <2>1, <2>6 DEF Source, At, Deref, s, o
    <3>2. CASE k + 1 = Len(g)
      BY <1>4, <2>2, <2>4, <3>1, <3>2
    <3>3. CASE k + 1 # Len(g)
      BY <1>4, <2>3, <3>1, <3>3
    <3> QED
      BY <3>2, <3>3
  <2> QED
    BY <2>5, <2>6
<1> HIDE DEF s, o, g
<1> QED
  BY <1>3, <1>5 DEF s, o, g

(* No step but the first and the last of a call changes a text.            *)
LEMMA StepKeepsValue ==
  ASSUME FfbInv, ~Idle, NEW row, cells' = [cells EXCEPT ![args.dst] = row],
         UNCHANGED <<size, args, before>>, bpc' # "idle"
  PROVE  Value' = Value
<1>1. \A b \in Buf : b # args.dst => cells'[b] = cells[b]
  BY ObjectFacts
<1>2. \A b \in Buf : b # args.dst => Text(b)' = Text(b)
  BY <1>1 DEF Text
<1> QED
  BY <1>2 DEF Value, Idle

LEMMA BeginKeepsValue ==
  ASSUME FfbInv, NEW r \in Requests, NEW point \in {"write", "measure"}, NEW start,
         Begin(r, point, start), size' = size,
         \A b \in Buf : b # r.dst => cells'[b] = cells[b]
  PROVE  Value' = Value
<1>1. Idle /\ args' = r /\ before' = Text(r.dst) /\ bpc' # "idle"
  BY DEF Begin
<1>2. \A b \in Buf : b # r.dst => Text(b)' = Text(b)
  BY DEF Text
<1> QED
  BY <1>1, <1>2 DEF Value, Idle
-----------------------------------------------------------------------------
(* A call begins with nothing read.                                        *)
LEMMA BeginText ==
  ASSUME FfbInv, NEW r \in Requests, NEW point \in {"write", "measure"}, NEW start \in Nat,
         Begin(r, point, start), r.src \in Pointers, size' = size,
         \A b \in Buf : b # r.dst => cells'[b] = cells[b],
         point = "write" <=> r.op \in {"write", "writelen"},
         r.op = "append" =>
           Len(Value[r.dst]) <= start /\ Holds(cells'[r.dst], Value[r.dst]),
         ~Tangles(Value, r) =>
           /\ r.src[1] = r.dst => cells'[r.dst] = cells[r.dst] /\ start = 0
           /\ \A v : v = Value => Progress(v)'
  PROVE  TextInv' /\ Value' = Value
<1>1. PICK v : v = Value
  OBVIOUS
<1>2. v \in Values /\ Value' = v
  BY <1>1, ValueFacts, BeginKeepsValue
<1>3. /\ Idle /\ args' = r /\ src' = r.src /\ bpc' = point /\ pos' = start
  BY DEF Begin
<1>4. /\ r.dst \in Buf /\ r.src \in Points /\ r.src[1] \in Buf \cup Literals /\ r.src[2] \in Nat
  BY RequestFacts
<1>5. Taken' = 0
  BY <1>3, <1>4 DEF Taken
<1>6. /\ r.src[2] <= Len(Source(v, r.src))
      /\ \A k \in 0..(Len(Given(v, r)) - 1) : At(Beyond(r.src, k)) = Given(v, r)[k + 1]
  BY <1>1, <1>3, SourceAtCall
<1>7. Len(v[r.dst]) <= N
  BY <1>1, <1>3, <1>4, ValueFacts, TextFacts, CharFacts
<1>8. ASSUME ~Tangles(v, r) PROVE Intact(Given(v, args))' /\ Progress(v)'
  <2>1. r.src[1] \in Buf => cells'[r.src[1]] = cells[r.src[1]]
    BY <1>1, <1>4, <1>8
  <2>2. \A k \in 0..(Len(Given(v, r)) - 1) : At(Beyond(r.src, k))' = At(Beyond(r.src, k))
    BY <2>1 DEF At, Deref, Beyond
  <2>3. Given(v, args)' = Given(v, r)
    BY <1>3
  <2>4. r.src[1] = r.dst => start <= r.src[2]
    BY <1>1, <1>4, <1>8
  <2>5. \A k \in 0..(Len(Given(v, r)) - 1) :
          At(Beyond(args.src, k))' = Given(v, r)[k + 1]
    BY <1>3, <1>6, <2>2
  <2>6. Intact(Given(v, args))'
    BY <1>3, <1>5, <2>3, <2>4, <2>5 DEF Intact
  <2> QED
    BY <1>1, <1>8, <2>6
<1>9. r.op = "append" => Len(v[r.dst]) <= start /\ Holds(cells'[r.dst], v[r.dst])
  BY <1>1
<1>10. CallText(v)'
  BY <1>3, <1>5, <1>6, <1>7, <1>8, <1>9 DEF CallText
<1> QED
  BY <1>1, <1>2, <1>10 DEF TextInv

LEMMA BeginWriteText ==
  ASSUME FfbInv, NEW r \in Requests, r.op \in {"write", "writelen"}, Begin(r, "write", 0),
         r.src \in Pointers, UNCHANGED <<cells, size>>,
         r.op = "writelen" => r.len <= Len(Given(Value, r))
  PROVE  TextInv' /\ Value' = Value
<1>1. ASSUME NEW v, v = Value PROVE Progress(v)'
  <2>1. r.src \in Points /\ r.src[2] \in Nat /\ (r.op = "writelen" => r.len \in Nat)
    BY RequestFacts
  <2>2. /\ args' = r /\ src' = r.src /\ bpc' = "write" /\ pos' = 0 /\ Taken' = 0
    BY <2>1 DEF Begin, Taken
  <2>3. v \in Values /\ r.src[2] <= Len(Source(v, r.src))
    BY <1>1, ValueFacts, SourceAtCall DEF Begin
  <2>4. Given(v, r) \in Seq(Char) /\ Len(Given(v, r)) \in Nat
    BY <2>3, GivenFacts
  <2>5. Len(SubSeq(Given(v, r), 1, 0)) = 0
    BY <2>4, PrefixFacts
  <2>6. Written(SubSeq(Given(v, r), 1, 0))'
    <3>1. Holds(cells[args.dst], SubSeq(Given(v, r), 1, 0))'
      BY <2>5 DEF Holds
    <3> QED
      BY <2>2, <2>5, <3>1 DEF Written
  <2>7. Given(v, args)' = Given(v, r)
    BY <2>2
  <2>8. Written(SubSeq(Given(v, args), 1, pos))'
    BY <2>2, <2>6, <2>7 DEF Written
  <2>9. r.op = "writelen" => r.len <= Len(Given(v, r)) /\ 0 <= r.len
    BY <1>1, <2>1
  <2> QED
    BY <2>2, <2>4, <2>7, <2>8, <2>9 DEF Progress
<1>2. ~Tangles(Value, r) /\ r.op # "append"
  BY DEF Tangles
<1>3. ~(r.src[1] = r.dst) \/ cells'[r.dst] = cells[r.dst]
  OBVIOUS
<1> QED
  BY <1>1, <1>2, <1>3, BeginText

LEMMA WriteText ==
  ASSUME FfbInv, NEW b \in Buf, NEW p \in Pointers, Write(b, p)
  PROVE  TextInv' /\ Value' = Value
<1> DEFINE r == [op |-> "write", dst |-> b, src |-> p]
<1>1. r \in Requests
  BY PointerFacts DEF Requests
<1>2. /\ r.op = "write" /\ r.dst = b /\ r.src = p
      /\ Begin(r, "write", 0) /\ UNCHANGED <<cells, size>>
  BY DEF Write
<1> HIDE DEF r
<1> QED
  BY <1>1, <1>2, BeginWriteText

LEMMA WriteLenText ==
  ASSUME FfbInv, NEW b \in Buf, NEW p \in Pointers, NEW len \in 1..(N + 1), WriteLen(b, p, len)
  PROVE  TextInv' /\ Value' = Value
<1> DEFINE r == [op |-> "writelen", dst |-> b, src |-> p, len |-> len]
<1>1. r \in Requests
  <2>1. len \in Nat
    BY CharFacts
  <2> QED
    BY <2>1, PointerFacts DEF Requests
<1>2. /\ r.op = "writelen" /\ r.dst = b /\ r.src = p /\ r.len = len
      /\ Begin(r, "write", 0) /\ UNCHANGED <<cells, size>> /\ Idle
      /\ len \in 1..(IF p[1] \in Buf THEN size[p[1]] + 1 - p[2] ELSE Len(p[1]) + 1)
  BY DEF WriteLen, Begin
<1> HIDE DEF r
<1>3. /\ p[2] \in Nat /\ p \in Points /\ (p[1] \notin Buf => p[2] = 0)
      /\ p[2] <= Len(Source(Value, p)) /\ Value \in Values
  BY <1>1, <1>2, PointerFacts, ValueFacts, SourceAtCall
<1>4. Len(Given(Value, r)) = Len(Source(Value, p)) - p[2] + 1 /\ Len(Source(Value, p)) \in Nat
  <2>1. Source(Value, p) \in Seq(Char)
    BY <1>3, SourceIsSeq
  <2> QED
    BY <1>1, <1>2, <1>3, <2>1, GivenFacts
<1>5. len <= Len(Given(Value, r))
  <2>1. CASE p[1] \in Buf
    <3>1. Len(Source(Value, p)) = size[p[1]]
      BY <1>2, <2>1, ValueFacts, TextFacts DEF Source
    <3> QED
      BY <1>2, <1>3, <1>4, <2>1, <3>1
  <2>2. CASE p[1] \notin Buf
    BY <1>2, <1>3, <1>4, <2>2 DEF Source
  <2> QED
    BY <2>1, <2>2
<1> QED
  BY <1>1, <1>2, <1>5, BeginWriteText

LEMMA DoFormatText ==
  ASSUME FfbInv, NEW b \in Buf, NEW p \in Pointers, NEW fmt \in Formats,
         NEW op \in {"format", "append"}, NEW start \in Nat,
         start = IF op = "append" THEN size[b] ELSE 0, DoFormat(b, op, start, fmt, p)
  PROVE  TextInv' /\ Value' = Value
<1> DEFINE r == [op |-> op, dst |-> b, src |-> p, fmt |-> fmt]
<1>1. r \in Requests
  BY PointerFacts DEF Requests
<1>2. /\ r.op = op /\ r.dst = b /\ r.src = p /\ r.fmt = fmt
      /\ Begin(r, "measure", start + Len(fmt.lead)) /\ size' = size /\ Idle
      /\ cells' = [cells EXCEPT ![b] = Stored(cells[b], start, fmt.lead)]
  BY DEF DoFormat, Begin
<1> HIDE DEF r
<1>3. PICK w : w = IF op = "append" THEN Value[b] ELSE <<>>
  OBVIOUS
<1>4. w \in Seq(Char) /\ Len(w) = start /\ fmt.lead \in Seq(Char)
  <2>1. fmt.lead \in Seq(Char)
    BY BufferAssumption DEF Char
  <2>2. Text(b) \in Seq(Char) /\ Len(Text(b)) = size[b] /\ Value[b] = Text(b)
    BY <1>2, TextFacts, ValueFacts
  <2> QED
    BY <1>3, <2>1, <2>2
<1>5. Holds(cells[b], w)
  <2>1. CASE op = "append"
    <3>1. /\ w = Text(b) /\ Len(w) = size[b] /\ size[b] \in Nat
          /\ \A i \in 1..size[b] : w[i] = cells[b][i - 1]
      BY <1>2, <1>3, <2>1, TextFacts, ValueFacts, CharFacts
    <3>2. \A k \in 0..(N - 1) : k < size[b] => k + 1 \in 1..size[b] /\ (k + 1) - 1 = k
      BY <3>1, CharFacts
    <3> QED
      BY <3>1, <3>2 DEF Holds
  <2>2. CASE op # "append"
    BY <1>3, <2>2 DEF Holds
  <2> QED
    BY <2>1, <2>2
<1>6. cells[b] \in Row /\ cells'[b] = Stored(cells[b], Len(w), fmt.lead)
  BY <1>2, <1>4, ObjectFacts
<1>7. Holds(cells'[b], w \o fmt.lead) /\ Holds(cells'[b], w)
  BY <1>4, <1>5, <1>6, StoredHolds
<1>8. start + Len(fmt.lead) \in Nat /\ Len(w \o fmt.lead) = start + Len(fmt.lead)
  BY <1>4, ConcatProperties
<1>9. ASSUME NEW v, v = Value PROVE Progress(v)'
  <2>1. Base(v, r) = w \o fmt.lead
    BY <1>2, <1>3, <1>9 DEF Base
  <2>2. Base(v, args)' = Base(v, r)
    BY <1>2 DEF Begin
  <2>3. Written(Base(v, args))'
    BY <1>2, <1>7, <1>8, <2>1, <2>2 DEF Begin, Written
  <2>4. Taken' = 0
    BY <1>2, PointerFacts DEF Begin, Taken
  <2> QED
    BY <1>2, <2>3, <2>4 DEF Begin, Progress
<1>10. ASSUME ~Tangles(Value, r), r.src[1] = r.dst
       PROVE  cells'[b] = cells[b] /\ start + Len(fmt.lead) = 0
  <2>1. op = "format" /\ fmt.lead = <<>> /\ start = 0
    BY <1>2, <1>10 DEF Tangles
  <2>2. Stored(cells[b], 0, <<>>) = cells[b]
    <3>1. DOMAIN <<>> = {}
      OBVIOUS
    <3> QED
      BY <1>6, <3>1 DEF Stored, Row
  <2> QED
    BY <1>4, <1>6, <2>1, <2>2
<1>11. op = "append" => Len(Value[b]) <= start + Len(fmt.lead) /\ Holds(cells'[b], Value[b])
  BY <1>3, <1>4, <1>7
<1>12. \A c \in Buf : c # b => cells'[c] = cells[c]
  BY <1>2, ObjectFacts
<1> QED
  BY <1>1, <1>2, <1>8, <1>9, <1>10, <1>11, <1>12, BeginText
-----------------------------------------------------------------------------
(* The steps of a call.                                                    *)
LEMMA StoredKeeps ==
  ASSUME NEW row, NEW w \in Seq(Char), Holds(row, w), NEW from \in Nat, Len(w) <= from,
         NEW s \in Seq(Char)
  PROVE  Holds(Stored(row, from, s), w)
<1>1. N \in Nat /\ Len(w) \in Nat /\ DOMAIN s = 1..Len(s) /\ Len(s) \in Nat
  BY CharFacts
<1>2. ASSUME NEW k \in 0..(N - 1), k < Len(w) PROVE Stored(row, from, s)[k] = w[k + 1]
  <2>1. k \in 0..N /\ k - from + 1 \notin DOMAIN s
    BY <1>1, <1>2
  <2> QED
    BY <1>2, <2>1 DEF Stored, Holds
<1> QED
  BY <1>2 DEF Holds

(* What a call in progress relies on, in terms of the text v it began with.*)
LEMMA CallTextFacts ==
  ASSUME FfbInv, TextInv, ~Idle, NEW v, v = Value
  PROVE  /\ v \in Values /\ args \in Requests /\ CallText(v) /\ v[args.dst] \in Seq(Char)
         /\ args.src[1] \in Buf \cup Literals /\ args.src[2] \in Nat /\ src[2] \in Nat
         /\ src[2] = args.src[2] + Taken
         /\ Given(v, args) \in Seq(Char) /\ Len(Given(v, args)) \in Nat \ {0}
         /\ args.src[1] = args.dst => args.src[2] + Len(Given(v, args)) - 1 <= N
         /\ args.src[2] + Len(Given(v, args)) - 1 <= EndOf(src)
<1>1. v \in Values /\ args \in Requests /\ CallText(v) /\ src[2] \in Nat /\ args.dst \in Buf
  BY ValueFacts, CallFacts DEF TextInv
<1>2. /\ args.src[1] \in Buf \cup Literals /\ args.src[2] \in Nat /\ args.src \in Points
      /\ src[1] = args.src[1] /\ Len(v[args.dst]) <= N
      /\ args.src[2] <= Len(Source(v, args.src))
  BY <1>1, RequestFacts DEF CallText
<1>3. v[args.dst] \in Seq(Char)
  BY <1>1 DEF Values
<1>4. src[2] = args.src[2] + Taken
  BY <1>1, <1>2 DEF Taken
<1>5. /\ Given(v, args) \in Seq(Char) /\ Len(Given(v, args)) \in Nat \ {0}
      /\ Len(Given(v, args)) = Len(Source(v, args.src)) - args.src[2] + 1
  BY <1>1, <1>2, GivenFacts
<1>6. /\ Source(v, args.src) \in Seq(Char)
      /\ args.src[2] + Len(Given(v, args)) - 1 = Len(Source(v, args.src))
  <2>1. Source(v, args.src) \in Seq(Char)
    BY <1>1, <1>2, SourceIsSeq
  <2>2. Len(Source(v, args.src)) \in Nat
    BY <2>1
  <2> QED
    BY <1>2, <1>5, <2>1, <2>2
<1>7. args.src[1] = args.dst => Len(Source(v, args.src)) <= N
  BY <1>1, <1>2 DEF Source
<1>8. Len(Source(v, args.src)) <= EndOf(src)
  <2>1. CASE args.src[1] = args.dst
    BY <1>1, <1>2, <1>7, <2>1 DEF EndOf
  <2>2. CASE args.src[1] \in Buf /\ args.src[1] # args.dst
    <3>1. Source(v, args.src) = Text(args.src[1])
      BY <2>2, ValueFacts DEF Source
    <3>2. Len(Source(v, args.src)) <= N
      BY <2>2, <3>1, TextFacts, CharFacts
    <3> QED
      BY <1>2, <2>2, <3>2 DEF EndOf
  <2>3. CASE args.src[1] \notin Buf
    BY <1>2, <1>6, <2>3 DEF Source, EndOf
  <2> QED
    BY <2>1, <2>2, <2>3
<1> HIDE DEF Taken
<1> QED
  BY <1>1, <1>2, <1>3, <1>4, <1>5, <1>6, <1>7, <1>8

(* The next character is the next one of the string that was given.        *)
LEMMA NextIsGiven ==
  ASSUME FfbInv, TextInv, ~Idle, NEW v, v = Value, ~Tangles(v, args), NEW k \in Nat,
         Taken + k < Len(Given(v, args))
  PROVE  At(Beyond(src, k)) = Given(v, args)[Taken + k + 1]
<1>1. /\ CallText(v) /\ src[1] = args.src[1] /\ Taken \in Nat /\ Intact(Given(v, args))
      /\ src[2] = args.src[2] + Taken /\ args.src[2] \in Nat /\ Len(Given(v, args)) \in Nat
  BY CallTextFacts DEF CallText
<1>2. Taken + k \in Taken..(Len(Given(v, args)) - 1)
  BY <1>1
<1>3. At(Beyond(args.src, Taken + k)) = Given(v, args)[Taken + k + 1]
  BY <1>1, <1>2 DEF Intact
<1>4. src[2] + k = args.src[2] + (Taken + k)
  BY <1>1
<1>5. At(Beyond(src, k)) = At(Beyond(args.src, Taken + k))
  BY <1>1, <1>4 DEF At, Deref, Beyond
<1> QED
  BY <1>3, <1>5

(* What is not read yet stays, if only cells in front of it are written.   *)
LEMMA IntactKept ==
  ASSUME FfbInv, TextInv, ~Idle, NEW v, v = Value, ~Tangles(v, args),
         NEW row, cells' = [cells EXCEPT ![args.dst] = row], args' = args,
         src'[2] \in Nat, src[2] <= src'[2],
         args.src[1] = args.dst =>
           pos' <= src'[2] /\ \A k \in 0..N : src'[2] <= k => row[k] = cells[args.dst][k]
  PROVE  Intact(Given(v, args))'
<1> DEFINE g == Given(v, args)
           o == args.src[2]
<1>1. /\ o \in Nat /\ Len(g) \in Nat /\ src[2] \in Nat /\ src[2] = o + Taken /\ Taken \in Nat
      /\ args.src[1] = args.dst => o + Len(g) - 1 <= N
      /\ \A k \in Taken..(Len(g) - 1) : At(Beyond(args.src, k)) = g[k + 1]
      /\ args.dst \in Buf
  BY CallTextFacts, CallFacts DEF CallText, Intact
<1>2. Taken' = src'[2] - o
  BY DEF Taken
<1>3. Given(v, args)' = g
  OBVIOUS
<1>4. ASSUME NEW k \in (src'[2] - o)..(Len(g) - 1)
      PROVE  At(Beyond(args.src, k))' = g[k + 1]
  <2> HIDE DEF g, o
  <2>1. k \in Taken..(Len(g) - 1) /\ src'[2] <= o + k /\ o + k \in Nat /\ o + k <= o + Len(g) - 1
    BY <1>1, <1>4
  <2>2. Beyond(args.src, k)[1] = args.src[1] /\ Beyond(args.src, k)[2] = o + k
    BY DEF Beyond, o
  <2>3. At(Beyond(args.src, k))' = At(Beyond(args.src, k))
    <3>1. CASE args.src[1] = args.dst
      <4>1. o + k \in 0..N
        BY <1>1, <2>1, <3>1, CharFacts
      <4>2. row[o + k] = cells[args.dst][o + k]
        BY <2>1, <3>1, <4>1
      <4>3. cells'[args.dst] = row
        BY <1>1, ObjectFacts
      <4>4. At(Beyond(args.src, k)) = cells[args.dst][o + k]
        BY <1>1, <2>2, <3>1 DEF At, Deref
      <4>5. At(Beyond(args.src, k))' = cells'[args.dst][o + k]
        BY <1>1, <2>2, <3>1 DEF At, Deref, Beyond, o
      <4> QED
        BY <4>2, <4>3, <4>4, <4>5
    <3>2. CASE args.src[1] # args.dst
      <4>1. args.src[1] \in Buf => cells'[args.src[1]] = cells[args.src[1]]
        BY <3>2, ObjectFacts
      <4> QED
        BY <4>1 DEF At, Deref, Beyond
    <3> QED
      BY <3>1, <3>2
  <2> QED
    BY <1>1, <2>1, <2>3
<1>5. \A k \in Taken'..(Len(g) - 1) : At(Beyond(args.src, k))' = g[k + 1]
  BY <1>2, <1>4
<1> QED
  BY <1>3, <1>5 DEF Intact

LEMMA StepText ==
  ASSUME FfbInv, TextInv, ~Idle, NEW row, cells' = [cells EXCEPT ![args.dst] = row],
         UNCHANGED <<size, args, before>>, bpc' # "idle", bpc' = "write" <=> bpc = "write",
         src'[1] = src[1], src'[2] \in Nat, src[2] <= src'[2],
         \A v : v = Value =>
           /\ args.op = "append" => Len(v[args.dst]) <= pos' /\ Holds(row, v[args.dst])
           /\ ~Tangles(v, args) => Intact(Given(v, args))' /\ Progress(v)'
  PROVE  TextInv' /\ Value' = Value
<1>1. PICK v : v = Value
  OBVIOUS
<1>2. Value' = v
  BY <1>1, StepKeepsValue
<1>3. CallText(v) /\ src[2] = args.src[2] + Taken /\ args.src[2] \in Nat /\ Taken \in Nat
  BY <1>1, CallTextFacts DEF CallText
<1>4. Taken' \in Nat
  BY <1>3 DEF Taken
<1>5. cells'[args.dst] = row
  BY CallFacts, ObjectFacts
<1>6. args.op = "append" => Len(v[args.dst]) <= pos' /\ Holds(cells'[args.dst], v[args.dst])
  BY <1>1, <1>5
<1>7. ~Tangles(v, args) => Intact(Given(v, args))' /\ Progress(v)'
  BY <1>1
<1>8. CallText(v)'
  BY <1>3, <1>4, <1>6, <1>7 DEF CallText
<1> QED
  BY <1>1, <1>2, <1>8 DEF TextInv

(* What a Write has got so far.                                            *)
LEMMA WriteProgress ==
  ASSUME FfbInv, TextInv, bpc = "write", NEW v, v = Value
  PROVE  /\ ~Idle /\ ~Tangles(v, args) /\ args.op \in {"write", "writelen"}
         /\ pos = Taken /\ pos \in 0..N /\ pos <= Len(Given(v, args))
         /\ Holds(cells[args.dst], SubSeq(Given(v, args), 1, pos))
         /\ args.op = "write" =>
              pos < Len(Given(v, args)) /\ \A i \in 1..pos : Given(v, args)[i] # Nul
         /\ args.op = "writelen" =>
              args.len \in Nat /\ pos <= args.len /\ args.len <= Len(Given(v, args))
<1>1. ~Idle /\ args.op \in {"write", "writelen"} /\ pos \in 0..N
  BY DEF Idle, FfbInv, CallInv
<1>2. ~Tangles(v, args)
  BY <1>1 DEF Tangles
<1>3. Progress(v) /\ args \in Requests
  BY <1>1, <1>2, CallTextFacts DEF CallText
<1>4. /\ pos = Taken /\ pos <= Len(Given(v, args))
      /\ Holds(cells[args.dst], SubSeq(Given(v, args), 1, pos))
      /\ args.op = "write" => \A i \in 1..pos : Given(v, args)[i] # Nul
      /\ args.op = "writelen" => pos <= args.len /\ args.len <= Len(Given(v, args))
  BY <1>3 DEF Progress, Written
<1>5. /\ Given(v, args)[Len(Given(v, args))] = Nul /\ Len(Given(v, args)) \in Nat \ {0}
  <2>1. v \in Values /\ args.src[2] <= Len(Source(v, args.src))
    BY <1>1, CallTextFacts DEF CallText
  <2> QED
    BY <1>3, <2>1, GivenFacts
<1>6. args.op = "write" => pos # Len(Given(v, args))
  <2>1. SUFFICES ASSUME args.op = "write", pos = Len(Given(v, args)) PROVE FALSE
    OBVIOUS
  <2>2. pos \in 1..pos
    BY <1>5, <2>1
  <2> QED
    BY <1>4, <1>5, <2>1, <2>2
<1>7. args.op = "writelen" => args.len \in Nat
  BY <1>3, RequestFacts
<1> HIDE DEF Taken
<1>8. args.op = "write" => pos < Len(Given(v, args))
  BY <1>1, <1>4, <1>5, <1>6, CharFacts
<1> QED
  BY <1>1, <1>2, <1>4, <1>7, <1>8

LEMMA WriteCharText ==
  ASSUME FfbInv, TextInv, WriteChar
  PROVE  TextInv' /\ Value' = Value
<1> DEFINE row == [cells[args.dst] EXCEPT ![pos] = At(src)]
<1>1. /\ bpc = "write" /\ bpc' = "write" /\ MoreToWrite /\ pos < N /\ pos' = pos + 1
      /\ src'[1] = src[1] /\ src'[2] = src[2] + 1 /\ dry' = dry
      /\ cells' = [cells EXCEPT ![args.dst] = row] /\ UNCHANGED <<size, args, before>>
  BY BeyondFacts DEF WriteChar, MoreToWrite
<1>2. ASSUME NEW v, v = Value
      PROVE  /\ args.op # "append"
             /\ Intact(Given(v, args))' /\ Progress(v)'
  <2> DEFINE g == Given(v, args)
  <2>1. /\ ~Idle /\ ~Tangles(v, args) /\ args.op \in {"write", "writelen"}
        /\ pos = Taken /\ pos \in 0..N /\ pos <= Len(g)
        /\ Holds(cells[args.dst], SubSeq(g, 1, pos))
        /\ args.op = "write" => pos < Len(g) /\ \A i \in 1..pos : g[i] # Nul
        /\ args.op = "writelen" => args.len \in Nat /\ pos <= args.len /\ args.len <= Len(g)
    BY <1>1, <1>2, WriteProgress
  <2>2. /\ g \in Seq(Char) /\ Len(g) \in Nat /\ src[2] \in Nat /\ src[2] = args.src[2] + Taken
        /\ args.src[2] \in Nat /\ N \in Nat
    BY <1>2, <2>1, CallTextFacts, CharFacts
  <2>3. /\ args.op = "write" => At(src) # Nul
        /\ args.op = "writelen" => pos < args.len
    BY <1>1 DEF MoreToWrite
  <2> HIDE DEF g, Taken
  <2>4. pos < Len(g)
    BY <2>1, <2>2, <2>3
  <2>5. At(src) = g[pos + 1]
    <3>1. At(Beyond(src, 0)) = g[Taken + 0 + 1]
      BY <1>2, <2>1, <2>2, <2>4, NextIsGiven DEF g
    <3>2. At(Beyond(src, 0)) = At(src)
      BY <2>2 DEF At, Deref, Beyond
    <3>3. Taken + 0 + 1 = pos + 1
      BY <2>1
    <3> QED
      BY <3>1, <3>2, <3>3
  <2>6. Taken' = pos + 1
    BY <1>1, <2>1, <2>2 DEF Taken
  <2>7. cells[args.dst] \in Row /\ cells'[args.dst] = row
    BY <1>1, <2>1, ObjectFacts, CallFacts
  <2>8. \A k \in 0..N : k # pos => row[k] = cells[args.dst][k]
    BY <2>7 DEF Row
  <2>9. Intact(g)'
    <3>1. args.src[1] = args.dst => pos <= src[2]
      BY <2>1, <1>2, CallTextFacts DEF CallText, Intact
    <3>2. args.src[1] = args.dst =>
            pos' <= src'[2] /\ \A k \in 0..N : src'[2] <= k => row[k] = cells[args.dst][k]
      <4>1. SUFFICES ASSUME args.src[1] = args.dst
                     PROVE  pos' <= src'[2] /\ \A k \in 0..N : src'[2] <= k => k # pos
        BY <2>8
      <4> QED
        BY <1>1, <2>1, <2>2, <3>1, <4>1
    <3>3. src'[2] \in Nat /\ src[2] <= src'[2]
      BY <1>1, <2>2
    <3> HIDE DEF row
    <3> QED
      BY <1>1, <1>2, <2>1, <3>2, <3>3, IntactKept DEF g
  <2>10. Holds(row, SubSeq(g, 1, pos + 1))
    <3>1. /\ Len(SubSeq(g, 1, pos)) = pos /\ \A i \in 1..pos : SubSeq(g, 1, pos)[i] = g[i]
      BY <2>1, <2>2, PrefixFacts
    <3>2. /\ Len(SubSeq(g, 1, pos + 1)) = pos + 1
          /\ \A i \in 1..(pos + 1) : SubSeq(g, 1, pos + 1)[i] = g[i]
      <4>1. pos + 1 \in 0..Len(g)
        BY <2>1, <2>2, <2>4
      <4> QED
        BY <2>2, <4>1, PrefixFacts
    <3>3. ASSUME NEW k \in 0..(N - 1), k < pos + 1 PROVE row[k] = g[k + 1]
      <4>1. CASE k = pos
        BY <1>1, <2>1, <2>5, <2>7, <4>1 DEF Row
      <4>2. CASE k # pos
        <5>1. k < pos /\ k + 1 \in 1..pos /\ k \in 0..N
          BY <2>1, <2>2, <3>3, <4>2
        <5>2. cells[args.dst][k] = g[k + 1]
          BY <2>1, <3>1, <5>1 DEF Holds
        <5> QED
          BY <2>8, <4>2, <5>1, <5>2
      <4> QED
        BY <4>1, <4>2
    <3>4. \A k \in 0..(N - 1) : k < pos + 1 => k + 1 \in 1..(pos + 1)
      BY <2>1, <2>2
    <3> HIDE DEF row
    <3> QED
      BY <3>2, <3>3, <3>4 DEF Holds
  <2>11. Written(SubSeq(g, 1, pos))'
    <3>1. Len(SubSeq(g, 1, pos + 1)) = pos + 1
      <4>1. pos + 1 \in 0..Len(g)
        BY <2>1, <2>2, <2>4
      <4> QED
        BY <2>2, <4>1, PrefixFacts
    <3>2. g' = g
      BY <1>1 DEF g
    <3> HIDE DEF row
    <3> QED
      BY <1>1, <2>7, <2>10, <3>1, <3>2 DEF Written
  <2>12. Given(v, args)' = g /\ Given(v, args) = g
    BY <1>1 DEF g
  <2>13. args.op = "write" => \A i \in 1..(pos + 1) : g[i] # Nul
    <3>1. SUFFICES ASSUME args.op = "write", NEW i \in 1..(pos + 1) PROVE g[i] # Nul
      OBVIOUS
    <3>2. i \in 1..pos \/ i = pos + 1
      BY <2>1
    <3> QED
      BY <2>1, <2>3, <2>5, <3>1, <3>2
  <2>14. Written(SubSeq(Given(v, args), 1, pos))'
    BY <2>11 DEF g
  <2>15. Progress(v)'
    BY <1>1, <2>1, <2>2, <2>3, <2>4, <2>6, <2>12, <2>13, <2>14 DEF Progress
  <2> QED
    BY <2>1, <2>9, <2>15 DEF g
<1>3. ~Idle /\ src[2] \in Nat /\ bpc' # "idle"
  BY <1>1, CallFacts DEF Idle
<1>4. src'[2] \in Nat /\ src[2] <= src'[2]
  BY <1>1, <1>3
<1> HIDE DEF row
<1> QED
  BY <1>1, <1>2, <1>3, <1>4, StepText
-----------------------------------------------------------------------------
(* What TextObjects says of the arguments, in the terms used here.         *)
LEMMA PromisedFacts ==
  ASSUME NEW r
  PROVE  /\ Promised!Tangled(r) <=> Tangles(Value, r)
         /\ r.op = "write" => Promised!Result(r) = Promised!Take(Content(Value, r), N)
         /\ r.op = "writelen" =>
              Promised!Result(r) = Promised!Take(Promised!Take(Given(Value, r), r.len), N)
         /\ r.op = "format" =>
              Promised!Result(r) = Promised!Take(Promised!Formatted(r.fmt, Content(Value, r)), N)
         /\ r.op = "append" =>
              Promised!Result(r) =
                Promised!Take(Value[r.dst] \o Promised!Formatted(r.fmt, Content(Value, r)), N)
<1>1. \A p : Promised!Behind(p) = Rest(Value, p)
  BY DEF Promised!Behind, Rest, Source, Value
<1>2. Promised!Tangled(r) <=> Tangles(Value, r)
  BY <1>1 DEF Promised!Tangled, Tangles, Content
<1>3. r.op = "write" => Promised!Result(r) = Promised!Take(Content(Value, r), N)
  BY <1>1 DEF Promised!Result, Content
<1>4. r.op = "writelen" =>
        Promised!Result(r) = Promised!Take(Promised!Take(Given(Value, r), r.len), N)
  BY <1>1 DEF Promised!Result, Given
<1>5. r.op = "format" =>
        Promised!Result(r) = Promised!Take(Promised!Formatted(r.fmt, Content(Value, r)), N)
  BY <1>1 DEF Promised!Result, Content
<1>6. r.op = "append" =>
        Promised!Result(r) =
          Promised!Take(Value[r.dst] \o Promised!Formatted(r.fmt, Content(Value, r)), N)
  BY <1>1 DEF Promised!Result, Content, Value
<1> QED
  BY <1>2, <1>3, <1>4, <1>5, <1>6

(* The last step of a call.                                                *)
LEMMA ReturnCompletes ==
  ASSUME FfbInv, TextInv, ~Idle, NEW row \in Row, NEW end \in 0..N,
         cells' = [cells EXCEPT ![args.dst] = Ended(row, end)],
         size' = [size EXCEPT ![args.dst] = end], Return,
         Tangles(Value, args) => (args.op = "append" => IsPrefix(Value[args.dst], Cut(row, end))),
         ~Tangles(Value, args) => Cut(row, end) = Promised!Result(args)
  PROVE  TextInv' /\ Promised!Complete
<1> DEFINE new == Ended(row, end)
           t == Cut(row, end)
<1>1. args' = None /\ bpc' = "idle" /\ args.dst \in Buf /\ args \in Requests
  BY CallFacts DEF Return
<1>2. args # None
  BY <1>1, BufferAssumption
<1>3. cells'[args.dst] = new /\ size'[args.dst] = end
  BY <1>1, ObjectFacts
<1>4. \A b \in Buf : b # args.dst => cells'[b] = cells[b] /\ size'[b] = size[b]
  BY ObjectFacts
<1> PICK d : d = args.dst
  OBVIOUS
<1> HIDE DEF new
<1>5. Text(d)' = t
  <2>1. Text(d)' = [i \in 1..size'[d] |-> cells'[d][i - 1]]
    BY DEF Text
  <2>2. cells'[d] = new /\ size'[d] = end
    BY <1>3
  <2> QED
    BY <2>1, <2>2, Zenon DEF new, Cut
<1> HIDE DEF t
<1>6. \A b \in Buf : b # args.dst => Text(b)' = Text(b)
  BY <1>4 DEF Text
<1>7. Value' = [b \in Buf |-> Text(b)']
  BY <1>1 DEF Value, Idle
<1>8. Value' = [Value EXCEPT ![d] = t]
  BY <1>1, <1>5, <1>6, <1>7 DEF Value
<1>9. Len(t) <= N
  <2>1. \A i \in 1..end : i - 1 \in 0..N
    BY CharFacts
  <2>2. new \in Row
    BY CharFacts DEF Row, new, Ended
  <2>3. t \in Seq(Char) /\ Len(t) = end
    BY <2>1, <2>2, CharFacts DEF Row, t, new, Cut
  <2> QED
    BY <2>3, CharFacts
<1>10. Value'[d] = t
  BY <1>1, <1>5, <1>7
<1> USE DEF t
<1>11. CASE Tangles(Value, args)
  <2>1. /\ Value' = [Value EXCEPT ![args.dst] = Value'[args.dst]]
        /\ Len(Value'[args.dst]) <= N
        /\ args.op = "append" => IsPrefix(Value[args.dst], Value'[args.dst])
    BY <1>8, <1>9, <1>10, <1>11
  <2>2. Promised!Tangled(args)
    BY <1>11, PromisedFacts
  <2> QED
    BY <1>1, <1>2, <2>1, <2>2 DEF Promised!Complete, Value, Promised!IsPrefix, IsPrefix, TextInv, Idle
<1>12. CASE ~Tangles(Value, args)
  <2>1. Value' = [Value EXCEPT ![args.dst] = Promised!Result(args)]
    BY <1>8, <1>12
  <2>2. ~Promised!Tangled(args)
    BY <1>12, PromisedFacts
  <2> QED
    BY <1>1, <1>2, <2>1, <2>2 DEF Promised!Complete, Value, TextInv, Idle
<1> QED
  BY <1>11, <1>12

LEMMA WriteReturnText ==
  ASSUME FfbInv, TextInv, WriteReturn
  PROVE  TextInv' /\ Promised!Complete
<1>1. PICK v : v = Value
  OBVIOUS
<1> DEFINE g == Given(v, args)
           c == Content(v, args)
           w == SubSeq(g, 1, pos)
<1>2. /\ bpc = "write" /\ ~MoreToWrite /\ Return /\ size' = [size EXCEPT ![args.dst] = pos]
      /\ cells' = [cells EXCEPT ![args.dst] = Ended(cells[args.dst], pos)]
  BY DEF WriteReturn, Ended
<1>3. /\ ~Idle /\ ~Tangles(v, args) /\ args.op \in {"write", "writelen"}
      /\ pos = Taken /\ pos \in 0..N /\ pos <= Len(g) /\ Holds(cells[args.dst], w)
      /\ args.op = "write" => pos < Len(g) /\ \A i \in 1..pos : g[i] # Nul
      /\ args.op = "writelen" => args.len \in Nat /\ pos <= args.len /\ args.len <= Len(g)
  BY <1>1, <1>2, WriteProgress
<1>4. /\ g \in Seq(Char) /\ Len(g) \in Nat /\ src[2] \in Nat
      /\ N \in Nat /\ cells[args.dst] \in Row
  BY <1>1, <1>3, CallTextFacts, CallFacts, ObjectFacts, CharFacts
<1>5. /\ c \in Seq(Char) /\ Len(c) \in Nat /\ Len(c) < Len(g)
      /\ \A i \in 1..Len(c) : c[i] = g[i] /\ g[i] # Nul
      /\ g[Len(c) + 1] = Nul
  <2>1. v \in Values /\ args \in Requests /\ args.src[2] <= Len(Source(v, args.src))
    BY <1>1, <1>3, CallTextFacts DEF CallText
  <2> QED
    BY <2>1, ContentFacts
<1>6. args.op = "write" /\ pos < N => g[pos + 1] = Nul
  <2>1. SUFFICES ASSUME args.op = "write", pos < N PROVE g[pos + 1] = Nul
    OBVIOUS
  <2>2. At(src) = Nul
    BY <1>2, <2>1 DEF MoreToWrite
  <2>3. At(Beyond(src, 0)) = g[Taken + 0 + 1]
    BY <1>1, <1>3, <1>4, <2>1, NextIsGiven
  <2>4. At(Beyond(src, 0)) = At(src)
    BY <1>4 DEF At, Deref, Beyond
  <2> HIDE DEF Taken, g
  <2>5. Taken + 0 + 1 = pos + 1
    BY <1>3
  <2> QED
    BY <2>2, <2>3, <2>4, <2>5
<1>7. args.op = "writelen" => (pos < N => pos = args.len)
  BY <1>2, <1>3, <1>4 DEF MoreToWrite
<1> HIDE DEF g, c, Taken
<1>8. w \in Seq(Char) /\ Len(w) = pos /\ \A i \in 1..pos : w[i] = g[i]
  BY <1>3, <1>4, PrefixFacts
<1> HIDE DEF w
<1> DEFINE t == Cut(cells[args.dst], pos)
<1>9. t = Promised!Take(w, N)
  <2>1. pos = IF Len(w) <= N THEN Len(w) ELSE N
    BY <1>3, <1>4, <1>8
  <2> QED
    BY <1>3, <1>4, <1>8, <2>1, HeldText
<1> HIDE DEF t
<1>10. t \in Seq(Char) /\ Len(t) = pos /\ \A i \in 1..pos : t[i] = g[i]
  <2>1. Len(t) = pos
    BY <1>3, <1>4, <1>8, <1>9, TakeFacts
  <2> QED
    BY <1>4, <1>8, <1>9, <2>1, TakeFacts
<1>11. t = Promised!Result(args)
  <2>1. CASE args.op = "write"
    <3>1. Promised!Result(args) = Promised!Take(c, N)
      BY <1>1, <2>1, PromisedFacts DEF c
    <3>2. pos <= Len(c)
      <4>1. SUFFICES ASSUME Len(c) < pos PROVE FALSE
        BY <1>3, <1>5
      <4>2. Len(c) + 1 \in 1..pos
        BY <1>3, <1>5, <4>1
      <4> QED
        BY <1>3, <1>5, <2>1, <4>2
    <3>3. pos < N => pos = Len(c)
      <4>1. SUFFICES ASSUME pos < N, pos < Len(c) PROVE FALSE
        BY <1>3, <1>5, <3>2
      <4>2. pos + 1 \in 1..Len(c)
        BY <1>3, <1>5, <4>1
      <4> QED
        BY <1>5, <1>6, <2>1, <4>1, <4>2
    <3>4. (IF N <= Len(c) THEN N ELSE Len(c)) = pos
      BY <1>3, <1>4, <1>5, <3>2, <3>3
    <3> DEFINE u == Promised!Take(c, N)
    <3>5. u \in Seq(Char) /\ Len(u) = pos /\ \A i \in 1..pos : u[i] = c[i]
      BY <1>4, <1>5, <3>4, TakeFacts
    <3>6. \A i \in 1..pos : i \in 1..Len(c)
      BY <1>3, <1>5, <3>2
    <3> HIDE DEF u
    <3>7. \A i \in 1..pos : t[i] = u[i]
      BY <1>5, <1>10, <3>5, <3>6
    <3>8. t = u
      BY <1>10, <3>5, <3>7, SeqEqual
    <3> QED
      BY <3>1, <3>8 DEF u
  <2>2. CASE args.op = "writelen"
    <3> DEFINE l == Promised!Take(g, args.len)
               u == Promised!Take(l, N)
    <3>1. Promised!Result(args) = u
      BY <1>1, <2>2, PromisedFacts DEF g
    <3>2. l \in Seq(Char) /\ Len(l) = args.len /\ \A i \in 1..args.len : l[i] = g[i]
      BY <1>3, <1>4, <2>2, TakeFacts
    <3> HIDE DEF l
    <3>3. (IF N <= Len(l) THEN N ELSE Len(l)) = pos
      BY <1>3, <1>4, <1>7, <2>2, <3>2
    <3>4. u \in Seq(Char) /\ Len(u) = pos /\ \A i \in 1..pos : u[i] = l[i]
      BY <1>4, <3>2, <3>3, TakeFacts
    <3>5. \A i \in 1..pos : i \in 1..args.len
      BY <1>3, <2>2
    <3> HIDE DEF u
    <3>6. \A i \in 1..pos : t[i] = u[i]
      BY <1>10, <3>2, <3>4, <3>5
    <3>7. t = u
      BY <1>10, <3>4, <3>6, SeqEqual
    <3> QED
      BY <3>1, <3>7
  <2> QED
    BY <1>3, <2>1, <2>2
<1> QED
  BY <1>1, <1>2, <1>3, <1>4, <1>11, ReturnCompletes DEF t

(* strlen of the string that was given.                                    *)
LEMMA LengthIsGiven ==
  ASSUME FfbInv, TextInv, ~Idle, NEW v, v = Value, ~Tangles(v, args), Taken = 0
  PROVE  Length(src) = Len(Content(v, args))
<1> DEFINE g == Given(v, args)
           c == Content(v, args)
           e == EndOf(src)
           o == src[2]
           T == {k \in 0..(e - o) : At(Beyond(src, k)) = Nul} \cup {e - o + 1}
<1>1. /\ Len(c) \in Nat /\ Len(c) < Len(g) /\ g[Len(c) + 1] = Nul
      /\ \A i \in 1..Len(c) : g[i] # Nul
  <2>1. v \in Values /\ args \in Requests /\ args.src[2] <= Len(Source(v, args.src))
    BY CallTextFacts DEF CallText
  <2> QED
    BY <2>1, ContentFacts
<1>2. /\ Len(g) \in Nat /\ o \in Nat /\ e \in Nat /\ o = args.src[2] + Taken
      /\ args.src[2] \in Nat /\ args.src[2] + Len(g) - 1 <= e
  BY CallTextFacts, CallFacts
<1>3. \A k \in Nat : Taken + k < Len(g) => At(Beyond(src, k)) = g[Taken + k + 1]
  BY NextIsGiven
<1>4. Length(src) = Min(T)
  BY DEF Length
<1> HIDE DEF g, c, e, Taken
<1>5. o + Len(g) - 1 <= e
  BY <1>2
<1> HIDE DEF o
<1>6. \A k \in Nat : k < Len(g) => At(Beyond(src, k)) = g[k + 1]
  BY <1>3
<1>7. Len(c) \in T
  <2>1. Len(c) \in 0..(e - o)
    BY <1>1, <1>2, <1>5
  <2> QED
    BY <1>1, <1>6, <2>1
<1>8. T \subseteq Nat /\ \A k \in T : ~(k < Len(c))
  <2>1. T \subseteq Nat
    BY <1>1, <1>2, <1>5
  <2>2. ASSUME NEW k \in T, k < Len(c) PROVE FALSE
    <3>1. k \in Nat /\ k + 1 \in 1..Len(c) /\ k < Len(g) /\ k # e - o + 1
      BY <1>1, <1>2, <1>5, <2>1, <2>2
    <3>2. At(Beyond(src, k)) = Nul
      BY <2>2, <3>1
    <3> QED
      BY <1>1, <1>6, <3>1, <3>2
  <2> QED
    BY <2>1, <2>2
<1>9. Min(T) \in T /\ \A y \in T : Min(T) <= y
  BY <1>7, <1>8, LeastElement
<1> HIDE DEF T
<1>10. Min(T) \in Nat /\ Min(T) <= Len(c) /\ ~(Min(T) < Len(c))
  BY <1>7, <1>8, <1>9
<1>11. Min(T) = Len(c)
  BY <1>1, <1>10
<1> QED
  BY <1>4, <1>11 DEF c

(* What a format has got so far.                                           *)
LEMMA FormatFacts ==
  ASSUME FfbInv, TextInv, bpc \in {"measure", "put"}, NEW v, v = Value
  PROVE  /\ ~Idle /\ args.op \in {"format", "append"} /\ args.fmt \in Formats
         /\ args.fmt.lead \in Seq(Char) /\ args.fmt.width \in Nat
         /\ pos \in Nat /\ dry \in Nat /\ Taken \in Nat /\ src[2] <= EndOf(src)
         /\ cells[args.dst] \in Row /\ v[args.dst] \in Seq(Char) /\ Len(v[args.dst]) <= N
         /\ args.op = "append" => Len(v[args.dst]) <= pos /\ Holds(cells[args.dst], v[args.dst])
         /\ Base(v, args) \in Seq(Char) /\ LeftPad(v, args) \in Seq(Char)
         /\ Content(v, args) \in Seq(Char) /\ Len(Content(v, args)) \in Nat
         /\ Len(Content(v, args)) < Len(Given(v, args)) /\ Len(Given(v, args)) \in Nat
         /\ \A i \in 1..Len(Content(v, args)) :
              Content(v, args)[i] = Given(v, args)[i] /\ Given(v, args)[i] # Nul
         /\ Given(v, args)[Len(Content(v, args)) + 1] = Nul
         /\ ~Tangles(v, args) => Progress(v) /\ (args.src[1] = args.dst => pos <= src[2])
<1>1. ~Idle /\ args.fmt \in Formats /\ src[2] <= EndOf(src) /\ bpc # "write"
  BY DEF Idle, FfbInv, CallInv
<1>2. /\ CallText(v) /\ v \in Values /\ args \in Requests /\ v[args.dst] \in Seq(Char)
      /\ Len(Given(v, args)) \in Nat
  BY <1>1, CallTextFacts
<1>3. args.op \in {"format", "append"}
  BY <1>1, <1>2, RequestFacts DEF CallText
<1>4. args.fmt.lead \in Seq(Char) /\ args.fmt.width \in Nat
  BY <1>1, BufferAssumption DEF Char
<1>5. /\ Content(v, args) \in Seq(Char) /\ Len(Content(v, args)) \in Nat
      /\ Len(Content(v, args)) < Len(Given(v, args))
      /\ \A i \in 1..Len(Content(v, args)) :
           Content(v, args)[i] = Given(v, args)[i] /\ Given(v, args)[i] # Nul
      /\ Given(v, args)[Len(Content(v, args)) + 1] = Nul
  BY <1>2, ContentFacts DEF CallText
<1>6. Base(v, args) \in Seq(Char)
  BY <1>2, <1>4, ConcatProperties DEF Base
<1>7. LeftPad(v, args) \in Seq(Char)
  <2>1. (IF args.fmt.left THEN 0 ELSE args.fmt.width - Len(Content(v, args))) \in Int
    BY <1>4, <1>5
  <2> QED
    BY <2>1, PadsFacts DEF LeftPad, LeftFill
<1>8. pos \in Nat /\ dry \in Nat /\ cells[args.dst] \in Row
  BY <1>1, CallFacts, ObjectFacts
<1>9. /\ Taken \in Nat /\ Len(v[args.dst]) <= N
      /\ args.op = "append" => Len(v[args.dst]) <= pos /\ Holds(cells[args.dst], v[args.dst])
      /\ ~Tangles(v, args) => Progress(v) /\ (args.src[1] = args.dst => pos <= src[2])
  BY <1>2 DEF CallText, Intact
<1> QED
  BY <1>1, <1>2, <1>3, <1>4, <1>5, <1>6, <1>7, <1>8, <1>9

LEMMA MeasureText ==
  ASSUME FfbInv, TextInv, Measure
  PROVE  TextInv' /\ Value' = Value
<1> DEFINE fill == Pads(IF args.fmt.left THEN 0 ELSE args.fmt.width - Length(src))
           row  == Stored(cells[args.dst], pos, fill)
<1>1. /\ bpc = "measure" /\ dry' = Length(src) /\ bpc' = "put" /\ pos' = pos + Len(fill)
      /\ cells' = [cells EXCEPT ![args.dst] = row] /\ UNCHANGED <<size, args, before, src>>
  BY DEF Measure
<1>2. /\ ~Idle /\ args.fmt \in Formats /\ args.fmt.width \in Nat /\ src[2] <= EndOf(src)
      /\ pos \in Nat
  BY <1>1, FormatFacts
<1>3. fill \in Seq(Char) /\ Len(fill) \in Nat
  <2>1. Length(src) \in Nat
    BY <1>2, CallFacts, LengthIsNat
  <2>2. (IF args.fmt.left THEN 0 ELSE args.fmt.width - Length(src)) \in Int
    BY <1>2, <2>1
  <2> QED
    BY <2>2, PadsFacts
<1>4. ASSUME NEW v, v = Value, args.op = "append"
      PROVE  Len(v[args.dst]) <= pos' /\ Holds(row, v[args.dst])
  <2>1. /\ v[args.dst] \in Seq(Char) /\ Len(v[args.dst]) <= pos
        /\ Holds(cells[args.dst], v[args.dst])
    BY <1>1, <1>4, FormatFacts
  <2>2. Len(v[args.dst]) <= pos'
    <3>1. Len(v[args.dst]) \in Nat
      BY <2>1
    <3> HIDE DEF fill
    <3> QED
      BY <1>1, <1>2, <1>3, <2>1, <3>1
  <2> HIDE DEF fill
  <2> QED
    BY <1>2, <1>3, <2>1, <2>2, StoredKeeps
<1>5. ASSUME NEW v, v = Value, ~Tangles(v, args)
      PROVE  Intact(Given(v, args))' /\ Progress(v)'
  <2> DEFINE base == Base(v, args)
             c == Content(v, args)
  <2>1. /\ base \in Seq(Char) /\ c \in Seq(Char) /\ cells[args.dst] \in Row
        /\ LeftPad(v, args) \in Seq(Char) /\ Len(c) \in Nat
        /\ Progress(v) /\ (args.src[1] = args.dst => pos <= src[2])
        /\ args.op \in {"format", "append"}
    BY <1>1, <1>5, FormatFacts
  <2>2. Taken = 0 /\ pos = Len(base) /\ Holds(cells[args.dst], base)
    BY <1>1, <2>1 DEF Progress, Written
  <2>3. Length(src) = Len(c)
    BY <1>2, <1>5, <2>2, LengthIsGiven
  <2>4. fill = LeftPad(v, args)
    BY <2>3 DEF LeftPad, LeftFill
  <2> HIDE DEF base, c, fill
  <2>5. Holds(row, base \o fill) /\ Len(base \o fill) = pos + Len(fill)
    BY <1>3, <2>1, <2>2, StoredHolds, ConcatProperties
  <2>6. Intact(Given(v, args))'
    <3>1. ASSUME args.src[1] = args.dst PROVE fill = <<>>
      <4>1. args.fmt.left \/ args.fmt.width <= Len(c)
        BY <1>2, <1>5, <2>1, <3>1 DEF Tangles, c
      <4>2. PICK n \in Int : n = (IF args.fmt.left THEN 0 ELSE args.fmt.width - Length(src)) /\ n <= 0
        BY <1>2, <2>1, <2>3, <4>1
      <4>3. Pads(n) = <<>>
        <5>1. 1..n = {}
          BY <4>2
        <5> QED
          BY <5>1 DEF Pads
      <4> QED
        BY <4>2, <4>3 DEF fill
    <3>2. args.src[1] = args.dst =>
            pos' <= src'[2] /\ \A k \in 0..N : src'[2] <= k => row[k] = cells[args.dst][k]
      <4>1. SUFFICES ASSUME args.src[1] = args.dst
                     PROVE  pos' <= src'[2] /\ \A k \in 0..N : row[k] = cells[args.dst][k]
        OBVIOUS
      <4>2. Len(<<>>) = 0 /\ DOMAIN <<>> = {}
        OBVIOUS
      <4>3. pos' = pos
        BY <1>1, <1>2, <3>1, <4>1, <4>2
      <4>4. \A k \in 0..N : row[k] = cells[args.dst][k]
        BY <3>1, <4>1, <4>2 DEF Stored
      <4> QED
        BY <1>1, <2>1, <4>1, <4>3, <4>4
    <3>3. src'[2] \in Nat /\ src[2] <= src'[2]
      BY <1>1, <1>2, CallFacts
    <3> HIDE DEF row
    <3> QED
      BY <1>1, <1>2, <1>5, <3>2, <3>3, IntactKept
  <2>7. cells'[args.dst] = row
    BY <1>1, <1>2, ObjectFacts, CallFacts
  <2>8. SubSeq(c, 1, 0) = <<>>
    BY SubSeqEmpty
  <2>9. (base \o fill) \o SubSeq(c, 1, 0) = base \o fill
    <3>1. base \o fill \in Seq(Char)
      BY <1>3, <2>1, ConcatProperties
    <3> QED
      BY <2>8, <3>1, ConcatEmptySeq
  <2>10. Taken' = 0
    BY <1>1, <2>2 DEF Taken
  <2> HIDE DEF row
  <2>11. PICK w : w = (base \o LeftPad(v, args)) \o SubSeq(c, 1, 0)
    OBVIOUS
  <2>12. Written(w)'
    BY <1>1, <2>4, <2>5, <2>7, <2>9, <2>11 DEF Written
  <2>13. /\ ((Base(v, args) \o LeftPad(v, args)) \o SubSeq(Content(v, args), 1, Taken))' = w
         /\ Len(Content(v, args))' = Len(c)
    <3>1. /\ Base(v, args)' = base /\ Content(v, args)' = c
          /\ LeftPad(v, args)' = LeftPad(v, args)
      BY <1>1 DEF base, c
    <3> QED
      BY <2>10, <2>11, <3>1
  <2>14. Written((Base(v, args) \o LeftPad(v, args)) \o SubSeq(Content(v, args), 1, Taken))'
    BY <2>12, <2>13 DEF Written
  <2>15. Progress(v)'
    BY <1>1, <2>1, <2>3, <2>10, <2>13, <2>14 DEF Progress
  <2> QED
    BY <2>6, <2>15
<1> HIDE DEF fill, row
<1>6. src'[1] = src[1] /\ src'[2] \in Nat /\ src[2] <= src'[2]
  BY <1>1, <1>2, CallFacts
<1> QED
  BY <1>1, <1>2, <1>4, <1>5, <1>6, StepText

(* One more character of a text that is copied behind another.             *)
LEMMA OneMore ==
  ASSUME NEW s \in Seq(Char), NEW c \in Seq(Char), NEW t \in Nat, t + 1 \in 1..Len(c)
  PROVE  (s \o SubSeq(c, 1, t)) \o <<c[t + 1]>> = s \o SubSeq(c, 1, t + 1)
<1>1. SubSeq(c, 1, t) \in Seq(Char)
  <2>1. t \in 0..Len(c)
    OBVIOUS
  <2> QED
    BY <2>1, PrefixFacts
<1>2. SubSeq(c, 1, t + 1) = SubSeq(c, 1, t) \o <<c[t + 1]>>
  <2>1. 1 \in 1..Len(c) /\ (t + 1) - 1 = t
    OBVIOUS
  <2>2. SubSeq(c, 1, t + 1) = SubSeq(c, 1, (t + 1) - 1) \o <<c[t + 1]>>
    BY <2>1, SubSeqRecursiveSecond
  <2> QED
    BY <2>1, <2>2
<1>3. <<c[t + 1]>> \in Seq(Char)
  <2>1. c[t + 1] \in Char
    BY ElementOfSeq
  <2> QED
    BY <2>1
<1>4. \A x, u \in Seq(Char) : (s \o x) \o u = s \o (x \o u)
  BY ConcatAssociative
<1>5. (s \o SubSeq(c, 1, t)) \o <<c[t + 1]>> = s \o (SubSeq(c, 1, t) \o <<c[t + 1]>>)
  BY <1>1, <1>3, <1>4, Zenon
<1> QED
  BY <1>2, <1>5, Zenon

LEMMA PutCharText ==
  ASSUME FfbInv, TextInv, PutChar
  PROVE  TextInv' /\ Value' = Value
<1> DEFINE row == Stored(cells[args.dst], pos, <<At(src)>>)
<1>1. /\ bpc = "put" /\ At(src) # Nul /\ bpc' = bpc /\ dry' = dry /\ pos' = pos + 1
      /\ src'[1] = src[1] /\ src'[2] = src[2] + 1
      /\ cells' = [cells EXCEPT ![args.dst] = row] /\ UNCHANGED <<size, args, before>>
  BY BeyondFacts DEF PutChar, PutCharBy
<1>2. /\ ~Idle /\ pos \in Nat /\ src[2] \in Nat /\ src'[2] \in Nat /\ src[2] <= src'[2]
      /\ <<At(src)>> \in Seq(Char) /\ Len(<<At(src)>>) = 1 /\ N \in Nat
  <2>1. ~Idle /\ At(src) \in Char
    BY <1>1, SourceInside
  <2>2. pos \in Nat /\ src[2] \in Nat
    BY <2>1, CallFacts
  <2> QED
    BY <1>1, <2>1, <2>2, CharFacts
<1>3. ASSUME NEW v, v = Value, args.op = "append"
      PROVE  Len(v[args.dst]) <= pos' /\ Holds(row, v[args.dst])
  <2>1. /\ v[args.dst] \in Seq(Char) /\ Len(v[args.dst]) <= pos
        /\ Holds(cells[args.dst], v[args.dst])
    BY <1>1, <1>3, FormatFacts
  <2>2. Len(v[args.dst]) <= pos'
    <3>1. Len(v[args.dst]) \in Nat
      BY <2>1
    <3> QED
      BY <1>1, <1>2, <2>1, <3>1
  <2> QED
    BY <1>2, <2>1, <2>2, StoredKeeps
<1>4. ASSUME NEW v, v = Value, ~Tangles(v, args)
      PROVE  Intact(Given(v, args))' /\ Progress(v)'
  <2> DEFINE front == Base(v, args) \o LeftPad(v, args)
             c == Content(v, args)
             t == Taken
  <2>1. /\ Base(v, args) \in Seq(Char) /\ LeftPad(v, args) \in Seq(Char)
        /\ c \in Seq(Char) /\ Len(c) \in Nat /\ t \in Nat /\ cells[args.dst] \in Row
        /\ Len(c) < Len(Given(v, args)) /\ Given(v, args)[Len(c) + 1] = Nul
        /\ Len(Given(v, args)) \in Nat
        /\ \A i \in 1..Len(c) : c[i] = Given(v, args)[i]
        /\ Progress(v) /\ (args.src[1] = args.dst => pos <= src[2])
    BY <1>1, <1>4, FormatFacts
  <2>2. /\ dry = Len(c) /\ t <= Len(c) /\ pos = Len(front \o SubSeq(c, 1, t))
        /\ Holds(cells[args.dst], front \o SubSeq(c, 1, t))
    BY <1>1, <2>1 DEF Progress, Written
  <2>3. front \in Seq(Char)
    BY <2>1, ConcatProperties
  <2>4. At(src) = Given(v, args)[t + 1]
    <3>1. t + 0 < Len(Given(v, args))
      BY <2>1, <2>2
    <3>2. At(Beyond(src, 0)) = Given(v, args)[t + 0 + 1]
      BY <1>2, <1>4, <3>1, NextIsGiven
    <3>3. At(Beyond(src, 0)) = At(src)
      BY <1>2 DEF At, Deref, Beyond
    <3> HIDE DEF t
    <3>4. t + 0 + 1 = t + 1
      BY <2>1
    <3> QED
      BY <3>2, <3>3, <3>4
  <2>5. Taken' = t + 1
    <3>1. args.src[2] \in Nat
      BY <1>2, <1>4, CallTextFacts
    <3> QED
      BY <1>1, <1>2, <3>1 DEF Taken
  <2> HIDE DEF front, c, t
  <2>6. t < Len(c) /\ t + 1 \in 1..Len(c) /\ At(src) = c[t + 1]
    <3>1. t # Len(c)
      BY <1>1, <2>1, <2>4
    <3>2. t < Len(c) /\ t + 1 \in 1..Len(c)
      BY <2>1, <2>2, <3>1
    <3> QED
      BY <2>1, <2>4, <3>2
  <2>7. (front \o SubSeq(c, 1, t)) \o <<At(src)>> = front \o SubSeq(c, 1, t + 1)
    <3>1. (front \o SubSeq(c, 1, t)) \o <<c[t + 1]>> = front \o SubSeq(c, 1, t + 1)
      BY <2>1, <2>3, <2>6, OneMore
    <3> QED
      BY <2>6, <3>1, Zenon
  <2>8. /\ front \o SubSeq(c, 1, t) \in Seq(Char)
        /\ Len((front \o SubSeq(c, 1, t)) \o <<At(src)>>) = pos + 1
    <3>1. SubSeq(c, 1, t) \in Seq(Char)
      <4>1. t \in 0..Len(c)
        BY <2>1, <2>2
      <4> QED
        BY <2>1, <4>1, PrefixFacts
    <3>2. front \o SubSeq(c, 1, t) \in Seq(Char)
      BY <2>3, <3>1, ConcatProperties
    <3> QED
      BY <1>2, <2>2, <3>2, ConcatProperties
  <2>9. PICK w : w = front \o SubSeq(c, 1, t + 1)
    OBVIOUS
  <2>10. Holds(row, w) /\ Len(w) = pos + 1
    BY <1>2, <2>1, <2>2, <2>7, <2>8, <2>9, StoredHolds
  <2>11. cells'[args.dst] = row
    BY <1>1, <1>2, ObjectFacts, CallFacts
  <2>12. Intact(Given(v, args))'
    <3>1. args.src[1] = args.dst =>
            pos' <= src'[2] /\ \A k \in 0..N : src'[2] <= k => row[k] = cells[args.dst][k]
      <4>1. SUFFICES ASSUME args.src[1] = args.dst
                     PROVE  /\ pos' <= src'[2]
                            /\ \A k \in 0..N : src'[2] <= k => row[k] = cells[args.dst][k]
        OBVIOUS
      <4>2. pos <= src[2]
        BY <2>1, <4>1
      <4>3. DOMAIN <<At(src)>> = {1}
        OBVIOUS
      <4>4. \A k \in 0..N : src'[2] <= k => k - pos + 1 \notin DOMAIN <<At(src)>>
        BY <1>1, <1>2, <4>2, <4>3
      <4> QED
        BY <1>1, <1>2, <4>2, <4>4 DEF Stored
    <3> HIDE DEF row
    <3> QED
      BY <1>1, <1>2, <1>4, <3>1, IntactKept
  <2> HIDE DEF row
  <2>13. Written(w)'
    BY <1>1, <2>10, <2>11 DEF Written
  <2>14. /\ ((Base(v, args) \o LeftPad(v, args)) \o SubSeq(Content(v, args), 1, Taken))' = w
         /\ Len(Content(v, args))' = Len(c)
    <3>1. /\ (Base(v, args) \o LeftPad(v, args))' = front /\ Content(v, args)' = c
      BY <1>1 DEF front, c
    <3> QED
      BY <2>5, <2>9, <3>1
  <2>15. Written((Base(v, args) \o LeftPad(v, args)) \o SubSeq(Content(v, args), 1, Taken))'
    BY <2>13, <2>14 DEF Written
  <2>16. t + 1 <= Len(c)
    BY <2>6
  <2>17. Progress(v)'
    BY <1>1, <2>2, <2>5, <2>14, <2>15, <2>16 DEF Progress
  <2> QED
    BY <2>12, <2>17
<1> HIDE DEF row
<1> QED
  BY <1>1, <1>2, <1>3, <1>4, StepText

LEMMA Concatenation ==
  /\ \A x, y, z \in Seq(Char) : (x \o y) \o z = x \o (y \o z)
  /\ \A x, y \in Seq(Char) : x \o y \in Seq(Char)
  /\ \A x \in Seq(Char) : x \o <<>> = x /\ <<>> \o x = x
BY ConcatAssociative, ConcatProperties, ConcatEmptySeq

LEMMA FourPieces ==
  ASSUME NEW s \in Seq(Char), NEW x \in Seq(Char), NEW y \in Seq(Char), NEW z \in Seq(Char)
  PROVE  ((s \o x) \o y) \o z = s \o (x \o (y \o z))
<1>1. s \o x \in Seq(Char) /\ y \o z \in Seq(Char)
  BY Concatenation
<1>2. \A x1, y1, z1 \in Seq(Char) : (x1 \o y1) \o z1 = x1 \o (y1 \o z1)
  BY Concatenation
<1>3. ((s \o x) \o y) \o z = (s \o x) \o (y \o z)
  BY <1>1, <1>2
<1>4. (s \o x) \o (y \o z) = s \o (x \o (y \o z))
  BY <1>1, <1>2, Zenon
<1> QED
  BY <1>3, <1>4, Zenon

(* The pieces of a format, in the order in which they are put.             *)
LEMMA Assembled ==
  ASSUME NEW s \in Seq(Char), NEW c \in Seq(Char), NEW f \in Formats
  PROVE  /\ (((s \o f.lead) \o LeftFill(f, c)) \o c) \o RightFill(f, c)
              = s \o Promised!Formatted(f, c)
         /\ Promised!Formatted(f, c) \in Seq(Char)
<1> DEFINE lfill == LeftFill(f, c)
           rfill == RightFill(f, c)
           fill == Pads(f.width - Len(c))
           lead == f.lead
<1>1. lead \in Seq(Char) /\ f.width - Len(c) \in Int
  BY BufferAssumption DEF Char
<1>2. fill \in Seq(Char)
  BY <1>1, PadsFacts
<1>3. Pads(0) = <<>>
  BY DEF Pads
<1>4. Promised!Formatted(f, c) = lead \o (IF f.left THEN c \o fill ELSE fill \o c)
  BY DEF Promised!Formatted, Pads
<1>5. /\ f.left => lfill = <<>> /\ rfill = fill
      /\ ~f.left => lfill = fill /\ rfill = <<>>
  BY <1>3 DEF LeftFill, RightFill
<1> SUFFICES /\ (((s \o lead) \o lfill) \o c) \o rfill = s \o Promised!Formatted(f, c)
             /\ Promised!Formatted(f, c) \in Seq(Char)
  OBVIOUS
<1> HIDE DEF fill, lead, lfill, rfill
<1>6. \A x, y, z \in Seq(Char) : ((s \o x) \o y) \o z = s \o (x \o (y \o z))
  BY FourPieces
<1>7. CASE f.left
  <2>1. ((s \o lead) \o <<>>) = s \o lead /\ s \o lead \in Seq(Char)
    BY <1>1, Concatenation
  <2>2. ((s \o lead) \o c) \o fill = s \o (lead \o (c \o fill))
    BY <1>1, <1>2, <1>6
  <2>3. lead \o (c \o fill) \in Seq(Char)
    BY <1>1, <1>2, Concatenation
  <2> QED
    BY <1>4, <1>5, <1>7, <2>1, <2>2, <2>3
<1>8. CASE ~f.left
  <2>1. s \o lead \in Seq(Char) /\ (s \o lead) \o fill \in Seq(Char) /\ fill \o c \in Seq(Char)
    BY <1>1, <1>2, Concatenation
  <2>2. ((s \o lead) \o fill) \o c \in Seq(Char)
    BY Concatenation, <2>1
  <2>3. (((s \o lead) \o fill) \o c) \o <<>> = ((s \o lead) \o fill) \o c
    BY Concatenation, <2>2
  <2>4. ((s \o lead) \o fill) \o c = s \o (lead \o (fill \o c))
    BY <1>1, <1>2, <1>6
  <2>5. lead \o (fill \o c) \in Seq(Char)
    BY <1>1, Concatenation, <2>1
  <2> QED
    BY <1>4, <1>5, <1>8, <2>3, <2>4, <2>5
<1> QED
  BY <1>7, <1>8

LEMMA FormatReturnText ==
  ASSUME FfbInv, TextInv, FormatReturn
  PROVE  TextInv' /\ Promised!Complete
<1>1. PICK v : v = Value
  OBVIOUS
<1> DEFINE end == Min({pos + Len(Filling), N})
           row == Stored(cells[args.dst], pos, Filling)
           c   == Content(v, args)
<1>2. /\ bpc = "put" /\ At(src) = Nul /\ Return /\ size' = [size EXCEPT ![args.dst] = end]
      /\ cells' = [cells EXCEPT ![args.dst] = Ended(row, end)]
  BY DEF FormatReturn, FormatReturnAt, Ended
<1>3. /\ ~Idle /\ args.op \in {"format", "append"} /\ args.fmt \in Formats
      /\ args.fmt.width \in Nat /\ pos \in Nat /\ dry \in Nat /\ N \in Nat
      /\ cells[args.dst] \in Row /\ cells[args.dst][N] = Nul
  BY <1>1, <1>2, FormatFacts, ObjectFacts, CallFacts, CharFacts
<1>4. Filling \in Seq(Char) /\ Len(Filling) \in Nat
  <2>1. (IF args.fmt.left THEN args.fmt.width - dry ELSE 0) \in Int
    BY <1>3
  <2> QED
    BY <2>1, PadsFacts DEF Filling
<1>5. row \in Row
  BY <1>3, <1>4, StoredRow
<1>6. end = (IF pos + Len(Filling) <= N THEN pos + Len(Filling) ELSE N) /\ end \in 0..N
  BY <1>3, <1>4, MinOfTwo
<1> HIDE DEF end
<1>7. ASSUME Tangles(v, args), args.op = "append"
      PROVE  IsPrefix(v[args.dst], Cut(row, end))
  <2> DEFINE w == v[args.dst]
  <2>1. w \in Seq(Char) /\ Len(w) <= N /\ Len(w) <= pos /\ Holds(cells[args.dst], w)
    BY <1>1, <1>2, <1>7, FormatFacts
  <2> HIDE DEF w
  <2>2. Holds(row, w)
    BY <1>3, <1>4, <2>1, StoredKeeps
  <2>3. Len(w) <= end
    BY <1>3, <1>4, <1>6, <2>1
  <2> HIDE DEF row
  <2>4. IsPrefix(w, Cut(row, end))
    BY <1>5, <1>6, <2>1, <2>2, <2>3, HeldPrefix
  <2> QED
    BY <2>4 DEF w
<1>8. ASSUME ~Tangles(v, args) PROVE Cut(row, end) = Promised!Result(args)
  <2> DEFINE front == Base(v, args) \o LeftPad(v, args)
             s == IF args.op = "append" THEN v[args.dst] ELSE <<>>
             w == front \o c
             t == Taken
  <2>1. /\ Base(v, args) \in Seq(Char) /\ LeftPad(v, args) \in Seq(Char)
        /\ c \in Seq(Char) /\ Len(c) \in Nat /\ t \in Nat
        /\ Len(c) < Len(Given(v, args)) /\ Len(Given(v, args)) \in Nat
        /\ \A i \in 1..Len(c) : c[i] = Given(v, args)[i] /\ Given(v, args)[i] # Nul
        /\ Progress(v) /\ v[args.dst] \in Seq(Char)
    BY <1>1, <1>2, <1>8, FormatFacts
  <2>2. /\ dry = Len(c) /\ t <= Len(c) /\ pos = Len(front \o SubSeq(c, 1, t))
        /\ Holds(cells[args.dst], front \o SubSeq(c, 1, t))
    BY <1>2, <2>1 DEF Progress, Written
  <2>3. At(src) = Given(v, args)[t + 1]
    <3>1. src[2] \in Nat
      BY <1>3, CallFacts
    <3>2. t + 0 < Len(Given(v, args))
      BY <2>1, <2>2
    <3>3. At(Beyond(src, 0)) = Given(v, args)[t + 0 + 1]
      BY <1>1, <1>3, <1>8, <3>2, NextIsGiven
    <3>4. At(Beyond(src, 0)) = At(src)
      BY <3>1 DEF At, Deref, Beyond
    <3> HIDE DEF t
    <3>5. t + 0 + 1 = t + 1
      BY <2>1
    <3> QED
      BY <3>3, <3>4, <3>5
  <2> HIDE DEF t, c
  <2>4. t = Len(c)
    <3>1. SUFFICES ASSUME t < Len(c) PROVE FALSE
      BY <2>1, <2>2
    <3>2. t + 1 \in 1..Len(c)
      BY <2>1, <3>1
    <3> QED
      BY <1>2, <2>1, <2>3, <3>2
  <2>5. SubSeq(c, 1, t) = c
    BY <2>1, <2>4, SubSeqFull
  <2>6. w \in Seq(Char) /\ pos = Len(w) /\ Holds(cells[args.dst], w)
    <3>1. front \in Seq(Char)
      BY <2>1, ConcatProperties
    <3> HIDE DEF front
    <3>2. w \in Seq(Char)
      BY <2>1, <3>1, ConcatProperties
    <3> QED
      BY <2>2, <2>5, <3>2
  <2>7. s \in Seq(Char)
    BY <2>1
  <2>8. w \o Filling = s \o Promised!Formatted(args.fmt, c)
        /\ Promised!Formatted(args.fmt, c) \in Seq(Char)
    <3>1. LeftPad(v, args) = LeftFill(args.fmt, c) /\ Filling = RightFill(args.fmt, c)
      BY <2>2 DEF LeftPad, LeftFill, RightFill, Filling, c
    <3>2. Base(v, args) = s \o args.fmt.lead
      BY DEF Base
    <3>3. w = ((s \o args.fmt.lead) \o LeftFill(args.fmt, c)) \o c
      BY <3>1, <3>2
    <3> HIDE DEF w, s
    <3>4. \A x, y \in Seq(Char) : \A f \in Formats :
            /\ (((x \o f.lead) \o LeftFill(f, y)) \o y) \o RightFill(f, y)
                 = x \o Promised!Formatted(f, y)
            /\ Promised!Formatted(f, y) \in Seq(Char)
      BY Assembled
    <3>5. /\ (((s \o args.fmt.lead) \o LeftFill(args.fmt, c)) \o c) \o RightFill(args.fmt, c)
               = s \o Promised!Formatted(args.fmt, c)
          /\ Promised!Formatted(args.fmt, c) \in Seq(Char)
      BY <1>3, <2>1, <2>7, <3>4, Zenon
    <3> QED
      BY <3>1, <3>3, <3>5, Zenon
  <2>9. Promised!Result(args) = Promised!Take(w \o Filling, N)
    <3> DEFINE f == Promised!Formatted(args.fmt, c)
    <3>1. CASE args.op = "append"
      <4>1. Promised!Result(args) = Promised!Take(v[args.dst] \o f, N)
        BY <1>1, <3>1, PromisedFacts DEF c
      <4> QED
        BY <2>8, <3>1, <4>1
    <3>2. CASE args.op = "format"
      <4>1. Promised!Result(args) = Promised!Take(f, N)
        BY <1>1, <3>2, PromisedFacts DEF c
      <4>2. <<>> \o f = f
        BY <2>8, ConcatEmptySeq
      <4> QED
        BY <2>8, <3>2, <4>1, <4>2
    <3> QED
      BY <1>3, <3>1, <3>2
  <2> HIDE DEF w
  <2>10. w \o Filling \in Seq(Char) /\ Len(w \o Filling) = pos + Len(Filling)
    BY <1>4, <2>6, ConcatProperties
  <2>11. Holds(row, w \o Filling)
    BY <1>3, <1>4, <2>6, StoredHolds
  <2>12. end = IF Len(w \o Filling) <= N THEN Len(w \o Filling) ELSE N
    BY <1>6, <2>10
  <2> HIDE DEF row
  <2>13. Cut(row, end) = Promised!Take(w \o Filling, N)
    BY <1>5, <2>10, <2>11, <2>12, HeldText
  <2> QED
    BY <2>9, <2>13
<1> HIDE DEF row
<1> QED
  BY <1>1, <1>2, <1>3, <1>5, <1>6, <1>7, <1>8, ReturnCompletes
-----------------------------------------------------------------------------
(* The calls that are one action, and the refinement.                      *)
LEMMA IdleText ==
  ASSUME FfbInv, Idle, UNCHANGED callVars, NEW b \in Buf,
         \/ Promised!Clear(b)
         \/ \E o \in Buf \ {b} : Promised!Copy(b, o) \/ Promised!Move(b, o)
  PROVE  TextInv' /\ Promised!Next
<1>1. args = None /\ args' = args /\ Idle'
  BY DEF FfbInv, FfbTypeOK, callVars, Idle
<1> QED
  BY <1>1 DEF TextInv, Promised!Next

(* The texts between calls.                                                *)
LEMMA IdleValue ==
  ASSUME Idle, UNCHANGED callVars
  PROVE  Value = [c \in Buf |-> Text(c)] /\ Value' = [c \in Buf |-> Text(c)']
BY DEF Value, Idle, callVars

LEMMA EmptyText ==
  ASSUME NEW row
  PROVE  [i \in 1..0 |-> row[i - 1]] = <<>>
OBVIOUS

LEMMA ConstructText ==
  ASSUME FfbInv, NEW b \in Buf, Construct(b) \/ Clear(b)
  PROVE  TextInv' /\ Promised!Next
<1>1. Idle /\ UNCHANGED callVars
  BY DEF Construct, Clear
<1>2. size'[b] = 0 /\ \A c \in Buf : c # b => cells'[c] = cells[c] /\ size'[c] = size[c]
  BY ObjectFacts DEF Construct, Clear
<1>3. Text(b)' = <<>>
  BY <1>2, EmptyText DEF Text
<1>4. \A c \in Buf : c # b => Text(c)' = Text(c)
  BY <1>2 DEF Text
<1>5. Value' = [Value EXCEPT ![b] = <<>>]
  BY <1>1, <1>3, <1>4, IdleValue
<1>6. Promised!Clear(b)
  BY <1>5 DEF Promised!Clear, Value
<1> QED
  BY <1>1, <1>6, IdleText

LEMMA CopyText ==
  ASSUME FfbInv, NEW b \in Buf, NEW other \in Buf, CopyFrom(b, other)
  PROVE  TextInv' /\ Promised!Next
<1>1. Idle /\ UNCHANGED callVars /\ b # other
  BY DEF CopyFrom
<1>2. /\ cells'[b] = cells[other] /\ size'[b] = size[other]
      /\ \A c \in Buf : c # b => cells'[c] = cells[c] /\ size'[c] = size[c]
  BY ObjectFacts DEF CopyFrom
<1>3. Text(b)' = Text(other)
  BY <1>2 DEF Text
<1>4. \A c \in Buf : c # b => Text(c)' = Text(c)
  BY <1>2 DEF Text
<1>5. Value' = [Value EXCEPT ![b] = Value[other]]
  BY <1>1, <1>3, <1>4, IdleValue
<1>6. Promised!Copy(b, other)
  BY <1>5 DEF Promised!Copy, Value
<1> QED
  BY <1>1, <1>6, IdleText

LEMMA MoveText ==
  ASSUME FfbInv, NEW b \in Buf, NEW other \in Buf, MoveFrom(b, other)
  PROVE  TextInv' /\ Promised!Next
<1>1. Idle /\ UNCHANGED callVars /\ b # other
  BY DEF MoveFrom
<1>2. /\ cells'[b] = cells[other] /\ size'[b] = size[other] /\ size'[other] = 0
      /\ \A c \in Buf : c # b /\ c # other => cells'[c] = cells[c] /\ size'[c] = size[c]
  BY ObjectFacts DEF MoveFrom
<1>3. Text(b)' = Text(other) /\ Text(other)' = <<>>
  BY <1>2, EmptyText DEF Text
<1>4. \A c \in Buf : c # b /\ c # other => Text(c)' = Text(c)
  BY <1>2 DEF Text
<1>5. Value' = [Value EXCEPT ![b] = Value[other], ![other] = <<>>]
  BY <1>1, <1>3, <1>4, IdleValue
<1>6. Promised!Move(b, other)
  BY <1>5 DEF Promised!Move, Value
<1> QED
  BY <1>1, <1>6, IdleText

(* A step that keeps the texts is a stutter, or the request of a call.     *)
LEMMA RequestText ==
  ASSUME FfbInv, Idle, args' \in Requests, Value' = Value
  PROVE  Promised!Next
<1>1. args = None /\ args' # None
  BY BufferAssumption DEF FfbInv, FfbTypeOK
<1> QED
  BY <1>1 DEF Promised!Next, Promised!Request, Value

LEMMA TextNext ==
  ASSUME FfbInv, TextInv, [FfbNext]_ffbVars
  PROVE  TextInv' /\ (Promised!Next \/ (Value' = Value /\ args' = args))
<1>1. CASE WriteChar \/ Measure \/ PutChar
  BY <1>1, WriteCharText, MeasureText, PutCharText DEF WriteChar, Measure, PutChar, PutCharBy
<1>2. CASE WriteReturn \/ FormatReturn
  BY <1>2, WriteReturnText, FormatReturnText DEF Promised!Next
<1>3. ASSUME NEW b \in Buf, Construct(b) \/ Clear(b) PROVE TextInv' /\ Promised!Next
  BY <1>3, ConstructText
<1>4. ASSUME NEW b \in Buf, NEW other \in Buf, CopyFrom(b, other) \/ MoveFrom(b, other)
      PROVE  TextInv' /\ Promised!Next
  BY <1>4, CopyText, MoveText
<1>5. ASSUME NEW b \in Buf, NEW p \in Pointers, Write(b, p) PROVE TextInv' /\ Promised!Next
  <2>1. Idle /\ args' \in Requests
    BY <1>5, PointerFacts DEF Write, Begin, Requests
  <2> QED
    BY <1>5, <2>1, WriteText, RequestText
<1>6. ASSUME NEW b \in Buf, NEW p \in Pointers, NEW len \in 1..(N + 1), WriteLen(b, p, len)
      PROVE  TextInv' /\ Promised!Next
  <2>1. Idle /\ args' \in Requests
    <3>1. len \in Nat
      BY CharFacts
    <3> QED
      BY <1>6, <3>1, PointerFacts DEF WriteLen, Begin, Requests
  <2> QED
    BY <1>6, <2>1, WriteLenText, RequestText
<1>7. ASSUME NEW b \in Buf, NEW p \in Pointers, NEW fmt \in Formats,
             Format(b, fmt, p) \/ AppendTo(b, fmt, p)
      PROVE  TextInv' /\ Promised!Next
  <2>1. size[b] \in Nat
    BY ObjectFacts, CharFacts
  <2>2. ASSUME NEW op \in {"format", "append"}, NEW start, DoFormat(b, op, start, fmt, p)
        PROVE  Idle /\ args' \in Requests
    BY <2>2, PointerFacts DEF DoFormat, Begin, Requests
  <2>3. CASE Format(b, fmt, p)
    <3>1. DoFormat(b, "format", 0, fmt, p)
      BY <2>3 DEF Format
    <3>2. TextInv' /\ Value' = Value
      BY <3>1, DoFormatText
    <3> QED
      BY <2>2, <3>1, <3>2, RequestText
  <2>4. CASE AppendTo(b, fmt, p)
    <3>1. DoFormat(b, "append", size[b], fmt, p)
      BY <2>4 DEF AppendTo
    <3>2. TextInv' /\ Value' = Value
      BY <2>1, <3>1, DoFormatText
    <3> QED
      BY <2>2, <3>1, <3>2, RequestText
  <2> QED
    BY <1>7, <2>3, <2>4
<1>8. CASE UNCHANGED ffbVars
  <2>1. UNCHANGED <<cells, size, args, before, bpc, src, pos, dry>>
    BY <1>8 DEF ffbVars, callVars
  <2>2. Value' = Value
    BY <2>1 DEF Value, Idle, Text
  <2>3. TextInv'
    BY <2>1, <2>2 DEF TextInv, CallText, Taken, Intact, Progress, Written, At, Idle
  <2> QED
    BY <2>1, <2>2, <2>3
<1> QED
  BY <1>1, <1>2, <1>3, <1>4, <1>5, <1>6, <1>7, <1>8 DEF FfbNext, FfbStep, FfbCall

(* Each call gives its object the text that its arguments had when it was  *)
(* made, cut off at N, and no other object changes: the loops implement    *)
(* TextObjects, also when the source lies in the object that is written.   *)
THEOREM FfbTextsKept == FfbSpec => TextsKept
<1>1. FfbInit => TextInv /\ Promised!Init
  <2> SUFFICES ASSUME FfbInit PROVE TextInv /\ Promised!Init
    OBVIOUS
  <2>1. Idle /\ args = None /\ \A b \in Buf : Text(b) = <<>>
    BY EmptyText DEF FfbInit, Idle, Text
  <2> QED
    BY <2>1 DEF TextInv, Promised!Init
<1>2. FfbInv /\ TextInv /\ [FfbNext]_ffbVars => TextInv'
  BY TextNext
<1>3. FfbInv /\ TextInv /\ [FfbNext]_ffbVars => [Promised!Next]_Promised!textVars
  BY TextNext DEF Promised!textVars, Value
<1> QED
  BY <1>1, <1>2, <1>3, FfbInvariant, PTL DEF FfbSpec, TextsKept, Promised!Spec
=============================================================================
