--------------------------- MODULE SyscallsProofs ---------------------------
(***************************************************************************)
(* _sbrk keeps the heap out of the stack reservation whatever malloc asks  *)
(* for, and malloc's blocks apart, for every layout of RAM that the linker *)
(* script accepts.  _write prints its text chunk by chunk, for every chunk *)
(* length and text.                                                        *)
(***************************************************************************)
EXTENDS Syscalls, NumberFacts, SequenceTheorems

(* The comparison of wrapped addresses agrees with the one of true sums.   *)
LEMMA WrappedSum ==
  ASSUME NEW a \in 0..Limit, NEW incr \in Ptrdiff
  PROVE  /\ Pointer(a + incr) \in Nat
         /\ a + incr \in 0..Limit => Pointer(a + incr) = a + incr
         /\ a + incr > Limit => Pointer(a + incr) > Limit
<1>1. /\ AddressSpace \in Nat /\ Limit \in Nat /\ EStack \in Nat /\ Limit <= EStack
      /\ 2 * EStack <= AddressSpace
  BY HeapAssumption DEF Limit
<1>2. QED
  BY <1>1 DEF Pointer, Ptrdiff

(* The part of the state that the bounds rest on: a wrapped sum is never   *)
(* taken for a small one, and the heap is trimmed below its start only if  *)
(* malloc gave back more than it had.                                      *)
HeapInv ==
  /\ heap_end \in 0..Limit
  /\ strayed \in BOOLEAN /\ refused \in Ptrdiff
  /\ ~strayed => SHeap <= heap_end
  /\ HeapGuarantee

LEMMA LayoutFacts ==
  /\ {AddressSpace, SHeap, EStack, MinStackSize, MinHeapSize, Limit} \subseteq Nat
  /\ SHeap + MinHeapSize <= Limit /\ 0 \in Ptrdiff
BY HeapAssumption DEF Limit, Ptrdiff

LEMMA RestartEstablishes ==
  ASSUME heap_end' = SHeap, strayed' = FALSE, refused' = 0
  PROVE  HeapInv'
<1>1. Limit' = Limit
  BY DEF Limit
<1>2. SHeap \in 0..Limit /\ SHeap <= SHeap /\ 0 \in Ptrdiff
  BY LayoutFacts
<1>3. strayed' \in BOOLEAN
  OBVIOUS
<1>4. ~(refused' # 0) /\ ~(refused' > 0)
  OBVIOUS
<1>5. HeapGuarantee'
  BY <1>4 DEF HeapGuarantee
<1>6. QED
  BY <1>1, <1>2, <1>3, <1>5 DEF HeapInv

LEMMA RefusedPreserves ==
  ASSUME HeapInv, NEW incr \in Ptrdiff, SbrkRefused(incr)
  PROVE  HeapInv'
<1>1. heap_end' = heap_end /\ strayed' = strayed /\ refused' = incr /\ Pointer(heap_end + incr) > Limit
  BY DEF SbrkRefused, Overruns
<1>2. heap_end + incr \notin 0..Limit
  BY <1>1, WrappedSum, LayoutFacts DEF HeapInv
<1>3. incr > 0 /\ ~strayed => heap_end - SHeap + incr > MinHeapSize
  BY <1>2, LayoutFacts DEF HeapInv, Ptrdiff
<1>4. HeapGuarantee'
  BY <1>1, <1>2, <1>3 DEF HeapGuarantee, Limit
<1>5. QED
  BY <1>1, <1>4 DEF HeapInv, Limit

LEMMA GrantedPreserves ==
  ASSUME HeapInv, NEW incr \in Ptrdiff, SbrkGranted(incr)
  PROVE  HeapInv'
<1> DEFINE end == Pointer(heap_end + incr)
<1>1. heap_end' = end /\ strayed' = (strayed \/ end < SHeap) /\ refused' = 0 /\ ~(end > Limit)
  BY DEF SbrkGranted, Overruns
<1>2. end \in Nat
  BY WrappedSum DEF HeapInv
<1> HIDE DEF end
<1>3. end \in 0..Limit
  BY <1>1, <1>2, LayoutFacts
<1>4. strayed' \in BOOLEAN
  BY <1>1
<1>5. ~strayed' => SHeap <= heap_end'
  <2>1. ~strayed' => ~(end < SHeap)
    BY <1>1
  <2>2. SHeap \in Nat
    BY LayoutFacts
  <2>3. QED
    BY <1>1, <1>2, <2>1, <2>2
<1>6. QED
  BY <1>1, <1>3, <1>4, <1>5, LayoutFacts DEF HeapInv, HeapGuarantee, Limit

LEMMA WriteCallPreserves ==
  ASSUME HeapInv, NEW t, WriteCall(t)
  PROVE  HeapInv'
BY LayoutFacts DEF HeapInv, HeapGuarantee, WriteCall, Limit

LEMMA ConsolePreserves ==
  ASSUME HeapInv, UNCHANGED heapVars
  PROVE  HeapInv'
BY DEF HeapInv, HeapGuarantee, heapVars, Limit

(* The heap's invariant holds for every RAM layout, chunk length and text, *)
(* and for any sequence of _sbrk, _write and resets.                       *)
THEOREM HeapInvariant == SyscallsSpec => []HeapInv
<1>1. SyscallsInit => HeapInv
  <2> SUFFICES ASSUME SyscallsInit PROVE HeapInv
    OBVIOUS
  <2>1. heap_end = SHeap /\ strayed = FALSE /\ refused = 0
    BY DEF SyscallsInit
  <2>2. SHeap \in 0..Limit /\ SHeap <= SHeap /\ 0 \in Ptrdiff
    BY LayoutFacts
  <2>3. strayed \in BOOLEAN
    BY <2>1
  <2>4. ~(refused # 0) /\ ~(refused > 0)
    BY <2>1
  <2>5. HeapGuarantee
    BY <2>4 DEF HeapGuarantee
  <2>6. QED
    BY <2>1, <2>2, <2>3, <2>5 DEF HeapInv
<1>2. HeapInv /\ [SyscallsNext]_syscallVars => HeapInv'
  <2> SUFFICES ASSUME HeapInv, [SyscallsNext]_syscallVars PROVE HeapInv'
    OBVIOUS
  <2>1. ASSUME NEW incr \in Ptrdiff, SbrkRefused(incr) PROVE HeapInv'
    BY <2>1, RefusedPreserves
  <2>2. ASSUME NEW incr \in Ptrdiff, SbrkGranted(incr) PROVE HeapInv'
    BY <2>2, GrantedPreserves
  <2>3. ASSUME NEW t \in Text, WriteCall(t) PROVE HeapInv'
    BY <2>3, WriteCallPreserves
  <2>4. CASE WriteChunk
    BY <2>4, ConsolePreserves DEF WriteChunk, WriteTurn
  <2>5. CASE WriteFaults
    BY <2>5, ConsolePreserves DEF WriteFaults
  <2>6. CASE SyscallsReset
    BY <2>6, RestartEstablishes DEF SyscallsReset
  <2>7. CASE UNCHANGED syscallVars
    BY <2>7, ConsolePreserves DEF syscallVars
  <2>8. QED
    BY <2>1, <2>2, <2>3, <2>4, <2>5, <2>6, <2>7 DEF SyscallsNext
<1>3. QED
  BY <1>1, <1>2, PTL DEF SyscallsSpec

(* The break never enters the stack reservation (syscalls.c:50), sums that *)
(* wrap around the address space included.                                 *)
THEOREM BreakStaysBelowStack == SyscallsSpec => []BreakBelowStack
<1>1. HeapInv => BreakBelowStack
  BY LayoutFacts DEF HeapInv, BreakBelowStack
<1>2. QED
  BY <1>1, HeapInvariant, PTL

(* What the linker script reserves for the heap can be allocated in full:  *)
(* a refused request does not fit, true sums considered.                   *)
THEOREM HeapIsGuaranteed == SyscallsSpec => []HeapGuarantee
<1>1. HeapInv => HeapGuarantee
  BY DEF HeapInv
<1>2. QED
  BY <1>1, HeapInvariant, PTL
-----------------------------------------------------------------------------
(* Malloc's blocks.                                                        *)

(* A granted request of a malloc that has not strayed moves the break by   *)
(* its true value: RAM is too far from the bottom of the address space for *)
(* a decrement to wrap to an address below the limit.                      *)
LEMMA GrantedEnd ==
  ASSUME HeapInv, ~strayed, NEW incr \in Ptrdiff, ~Overruns(incr)
  PROVE  Pointer(heap_end + incr) = heap_end + incr /\ heap_end + incr \in 0..Limit
<1>1. /\ AddressSpace \in Nat /\ Limit \in Nat /\ EStack \in Nat /\ Limit <= EStack
      /\ 2 * EStack <= AddressSpace /\ SHeap \in Nat /\ SHeap > 0
      /\ heap_end \in SHeap..Limit
  BY HeapAssumption, LayoutFacts DEF Limit, HeapInv
<1>2. incr \in Int /\ ~(Pointer(heap_end + incr) > Limit)
  BY DEF Overruns, Ptrdiff
<1>3. heap_end \in 0..Limit
  BY DEF HeapInv
<1>4. ~(heap_end + incr > Limit)
  BY <1>2, <1>3, WrappedSum
<1>5. ~(heap_end + incr < 0)
  <2> SUFFICES ASSUME heap_end + incr < 0 PROVE FALSE
    OBVIOUS
  <2>1. Pointer(heap_end + incr) = heap_end + incr + AddressSpace
    BY <1>1, <1>2 DEF Pointer, Ptrdiff
  <2> QED
    BY <1>1, <1>2, <2>1 DEF Ptrdiff
<1>6. heap_end + incr \in 0..Limit
  BY <1>1, <1>2, <1>4, <1>5
<1> QED
  BY <1>3, <1>6, WrappedSum

BlockInv == BlocksApart /\ blocks \subseteq Address \X Address

LEMMA LimitIsAddress == Limit \in Address /\ 0..Limit \subseteq Address
BY HeapAssumption DEF Limit, Address

(* What is left of the blocks when the break returns to end.               *)
LEMMA TrimmedIs ==
  ASSUME BlockInv, NEW end \in Address
  PROVE  /\ \A d \in Trimmed(end) :
              \E b \in blocks : /\ b[1] < end /\ d[1] = b[1] /\ d = <<d[1], d[2]>>
                                /\ d[2] = IF b[2] <= end THEN b[2] ELSE end
         /\ \A b \in blocks :
              b[1] < end => \E d \in Trimmed(end) : /\ d[1] = b[1]
                                                    /\ d[2] = IF b[2] <= end THEN b[2] ELSE end
<1>1. \A b \in blocks : Min({b[2], end}) = IF b[2] <= end THEN b[2] ELSE end
  <2> TAKE b \in blocks
  <2>1. b[2] \in Int /\ end \in Int
    BY HeapAssumption DEF BlockInv, Address
  <2> QED
    BY <2>1, MinOfTwo
<1>2. ASSUME NEW d \in Trimmed(end)
      PROVE  \E b \in blocks : /\ b[1] < end /\ d[1] = b[1] /\ d = <<d[1], d[2]>>
                               /\ d[2] = IF b[2] <= end THEN b[2] ELSE end
  <2>1. PICK b \in {c \in blocks : c[1] < end} : d = <<b[1], Min({b[2], end})>>
    BY <1>2 DEF Trimmed
  <2>2. b \in blocks /\ b[1] < end
    BY <2>1
  <2>3. d[1] = b[1] /\ d[2] = Min({b[2], end}) /\ d = <<d[1], d[2]>>
    BY <2>1
  <2>4. d[2] = IF b[2] <= end THEN b[2] ELSE end
    BY <1>1, <2>2, <2>3
  <2> QED
    BY <2>2, <2>3, <2>4
<1>3. ASSUME NEW b \in blocks, b[1] < end
      PROVE  \E d \in Trimmed(end) : /\ d[1] = b[1]
                                     /\ d[2] = IF b[2] <= end THEN b[2] ELSE end
  <2> DEFINE d == <<b[1], Min({b[2], end})>>
  <2>1. d \in Trimmed(end)
    BY <1>3 DEF Trimmed
  <2>2. d[1] = b[1] /\ d[2] = IF b[2] <= end THEN b[2] ELSE end
    BY <1>1
  <2> QED
    BY <2>1, <2>2
<1> QED
  BY <1>2, <1>3

LEMMA BlocksPreserved ==
  ASSUME HeapInv, HeapInv', BlockInv, NEW incr \in Ptrdiff, SbrkGranted(incr)
  PROVE  BlockInv'
<1>1. CASE strayed'
  <2>1. blocks' = {}
    BY <1>1 DEF SbrkGranted
  <2> QED
    BY <1>1, <2>1 DEF BlockInv, BlocksApart
<1>2. CASE ~strayed'
  <2> DEFINE end == Pointer(heap_end + incr)
  <2>1. /\ ~strayed /\ ~Overruns(incr) /\ heap_end' = end /\ ~(end < SHeap)
        /\ blocks' = IF incr > 0 THEN blocks \cup {<<heap_end, end>>} ELSE Trimmed(end)
    BY <1>2 DEF SbrkGranted
  <2>2. end = heap_end + incr /\ end \in 0..Limit
    BY <2>1, GrantedEnd
  <2>3. SHeap \in Nat /\ Limit \in Nat /\ incr \in Int /\ heap_end \in SHeap..Limit
    BY <2>1, LayoutFacts DEF HeapInv, Ptrdiff
  <2>4. end \in SHeap..Limit
    BY <2>1, <2>2, <2>3
  <2>5. end \in Address /\ heap_end \in Address
    BY <2>2, <2>3, LimitIsAddress
  <2>6. /\ blocks \subseteq Address \X Address
        /\ \A b \in blocks : SHeap <= b[1] /\ b[1] < b[2] /\ b[2] <= heap_end
        /\ \A b, c \in blocks : b # c => b[2] <= c[1] \/ c[2] <= b[1]
        /\ \A x \in SHeap..(heap_end - 1) : \E b \in blocks : b[1] <= x /\ x < b[2]
    BY <2>1 DEF BlockInv, BlocksApart
  <2>7. \A b \in blocks : b[1] \in Nat /\ b[2] \in Nat /\ b = <<b[1], b[2]>>
    BY <2>6, HeapAssumption DEF Address
  <2> HIDE DEF end
  <2>8. CASE incr > 0
    <3> DEFINE new == <<heap_end, end>>
    <3>1. blocks' = blocks \cup {new} /\ new[1] = heap_end /\ new[2] = end /\ heap_end < end
      BY <2>1, <2>2, <2>3, <2>8
    <3>2. new \in Address \X Address
      BY <2>5
    <3> HIDE DEF new
    <3>3. \A b \in blocks' : SHeap <= b[1] /\ b[1] < b[2] /\ b[2] <= end
      BY <2>3, <2>6, <2>7, <2>4, <3>1
    <3>4. \A b, c \in blocks' : b # c => b[2] <= c[1] \/ c[2] <= b[1]
      BY <2>6, <3>1
    <3>5. \A x \in SHeap..(end - 1) : \E b \in blocks' : b[1] <= x /\ x < b[2]
      <4> TAKE x \in SHeap..(end - 1)
      <4>1. CASE x < heap_end
        <5>1. x \in SHeap..(heap_end - 1)
          BY <2>3, <4>1
        <5> QED
          BY <2>6, <3>1, <5>1
      <4>2. CASE ~(x < heap_end)
        BY <2>3, <2>4, <3>1, <4>2
      <4> QED
        BY <4>1, <4>2
    <3>6. blocks' \subseteq Address \X Address
      BY <2>6, <3>1, <3>2
    <3> QED
      BY <2>1, <2>4, <3>3, <3>4, <3>5, <3>6 DEF BlockInv, BlocksApart, Limit, Address
  <2>9. CASE ~(incr > 0)
    <3>1. blocks' = Trimmed(end) /\ end <= heap_end
      BY <2>1, <2>2, <2>3, <2>9
    <3>2. \A d \in blocks' :
            \E b \in blocks : /\ b[1] < end /\ d[1] = b[1] /\ d = <<d[1], d[2]>>
                              /\ d[2] = IF b[2] <= end THEN b[2] ELSE end
      BY <2>5, <3>1, TrimmedIs
    <3>3. \A b \in blocks :
            b[1] < end => \E d \in blocks' : /\ d[1] = b[1]
                                             /\ d[2] = IF b[2] <= end THEN b[2] ELSE end
      BY <2>5, <3>1, TrimmedIs
    <3>4. \A d \in blocks' : SHeap <= d[1] /\ d[1] < d[2] /\ d[2] <= end
      BY <2>4, <2>6, <2>7, <3>2
    <3>5. \A d, e \in blocks' : d # e => d[2] <= e[1] \/ e[2] <= d[1]
      <4> TAKE d, e \in blocks'
      <4> HAVE d # e
      <4>1. PICK b \in blocks : /\ b[1] < end /\ d[1] = b[1] /\ d = <<d[1], d[2]>>
                                /\ d[2] = IF b[2] <= end THEN b[2] ELSE end
        BY <3>2
      <4>2. PICK c \in blocks : /\ c[1] < end /\ e[1] = c[1] /\ e = <<e[1], e[2]>>
                                /\ e[2] = IF c[2] <= end THEN c[2] ELSE end
        BY <3>2
      <4>3. b # c
        BY <4>1, <4>2
      <4>4. b[2] <= c[1] \/ c[2] <= b[1]
        BY <2>6, <4>3
      <4>5. d[2] <= b[2] /\ e[2] <= c[2]
        BY <2>4, <2>7, <4>1, <4>2
      <4> QED
        BY <2>4, <2>7, <4>1, <4>2, <4>4, <4>5
    <3>6. \A x \in SHeap..(end - 1) : \E d \in blocks' : d[1] <= x /\ x < d[2]
      <4> TAKE x \in SHeap..(end - 1)
      <4>1. x \in SHeap..(heap_end - 1)
        BY <2>3, <2>4, <3>1
      <4>2. PICK b \in blocks : b[1] <= x /\ x < b[2]
        BY <2>6, <4>1
      <4>3. b[1] < end
        BY <2>3, <2>4, <2>7, <4>2
      <4>4. PICK d \in blocks' : d[1] = b[1] /\ d[2] = IF b[2] <= end THEN b[2] ELSE end
        BY <3>3, <4>3
      <4> QED
        BY <2>4, <4>2, <4>4
    <3>7. blocks' \subseteq Address \X Address
      <4> SUFFICES ASSUME NEW d \in blocks' PROVE d \in Address \X Address
        OBVIOUS
      <4>1. PICK b \in blocks : /\ b[1] < end /\ d[1] = b[1] /\ d = <<d[1], d[2]>>
                                /\ d[2] = IF b[2] <= end THEN b[2] ELSE end
        BY <3>2
      <4>2. b[1] \in Address /\ b[2] \in Address
        BY <2>6
      <4>3. d[1] \in Address /\ d[2] \in Address
        BY <2>5, <4>1, <4>2
      <4> QED
        BY <4>1, <4>3
    <3> QED
      BY <2>1, <2>4, <3>4, <3>5, <3>6, <3>7 DEF BlockInv, BlocksApart, Limit, Address
  <2> QED
    BY <2>8, <2>9
<1> QED
  BY <1>1, <1>2

LEMMA EmptyHeap ==
  ASSUME heap_end' = SHeap, blocks' = {}
  PROVE  BlockInv'
<1>1. SHeap \in Nat /\ Limit \in Nat /\ SHeap \in SHeap..Limit
  BY LayoutFacts
<1>2. SHeap..(heap_end' - 1) = {}
  BY <1>1
<1> QED
  BY <1>1, <1>2 DEF BlockInv, BlocksApart, Limit

LEMMA BlocksKept ==
  ASSUME BlockInv, UNCHANGED <<heap_end, blocks, strayed>>
  PROVE  BlockInv'
BY DEF BlockInv, BlocksApart, Limit, Address

(* No two blocks of a well-behaved malloc share a byte, together they are  *)
(* the heap from _sheap to the break, and none of it is stack              *)
(* (syscalls.c:45-57).                                                     *)
THEOREM BlockInvariant == SyscallsSpec => []BlockInv
<1>1. SyscallsInit => BlockInv
  <2> SUFFICES ASSUME SyscallsInit PROVE BlockInv
    OBVIOUS
  <2>1. SHeap \in Nat /\ Limit \in Nat /\ SHeap \in SHeap..Limit
    BY LayoutFacts
  <2>2. heap_end = SHeap /\ blocks = {} /\ SHeap..(heap_end - 1) = {}
    BY <2>1 DEF SyscallsInit
  <2> QED
    BY <2>1, <2>2 DEF BlockInv, BlocksApart, Limit
<1>2. HeapInv /\ HeapInv' /\ BlockInv /\ [SyscallsNext]_syscallVars => BlockInv'
  <2> SUFFICES ASSUME HeapInv, HeapInv', BlockInv, [SyscallsNext]_syscallVars PROVE BlockInv'
    OBVIOUS
  <2>1. ASSUME NEW incr \in Ptrdiff, SbrkRefused(incr) PROVE BlockInv'
    BY <2>1, BlocksKept DEF SbrkRefused
  <2>2. ASSUME NEW incr \in Ptrdiff, SbrkGranted(incr) PROVE BlockInv'
    BY <2>2, BlocksPreserved
  <2>3. ASSUME NEW t \in Text, WriteCall(t) PROVE BlockInv'
    BY <2>3, BlocksKept DEF WriteCall
  <2>4. CASE WriteChunk
    BY <2>4, BlocksKept DEF WriteChunk, WriteTurn, heapVars
  <2>5. CASE WriteFaults
    BY <2>5, BlocksKept DEF WriteFaults, heapVars
  <2>6. CASE SyscallsReset
    BY <2>6, EmptyHeap DEF SyscallsReset
  <2>7. CASE UNCHANGED syscallVars
    BY <2>7, BlocksKept DEF syscallVars, heapVars
  <2> QED
    BY <2>1, <2>2, <2>3, <2>4, <2>5, <2>6, <2>7 DEF SyscallsNext
<1> QED
  BY <1>1, <1>2, HeapInvariant, PTL DEF SyscallsSpec

THEOREM BlocksStayApart == SyscallsSpec => []BlocksApart
<1>1. BlockInv => BlocksApart
  BY DEF BlockInv
<1> QED
  BY <1>1, BlockInvariant, PTL
-----------------------------------------------------------------------------
(* The console.                                                            *)

Byte    == (UNION {Range(t) : t \in Text}) \cup {Nul, Stale}
Printed == [text : Seq(Byte), value : Nat]

(* Between two turns of the loop the prints made so far are the chunks in  *)
(* front of the bytes that remain.                                         *)
WriteInv ==
  /\ wpc \in {"idle", "write", "fault", "ret"}
  /\ text \in Text \cup {<<>>} /\ remaining \in 0..Len(text)
  /\ chunk \in [0..ChunkLen -> Byte]
  /\ out \in Seq(Printed)
  /\ \A k \in 1..Len(out) : PrintsChunk(k)
  /\ wpc = "write" => remaining > 0 /\ Len(out) * ChunkLen + remaining = Len(text)
  /\ wpc = "ret" => Len(out) * ChunkLen \in Len(text)..(Len(text) + ChunkLen - 1)

LEMMA TextFacts ==
  ASSUME NEW t \in Text \cup {<<>>}
  PROVE  Len(t) \in Nat /\ \A i \in 1..Len(t) : t[i] \in Byte
<1>1. CASE t \in Text
  <2>1. t \in Seq(Range(t)) /\ Range(t) \subseteq Byte
    BY <1>1, ConsoleAssumption DEF Byte
  <2> QED
    BY <2>1
<1>2. CASE t = <<>>
  BY <1>2
<1> QED
  BY <1>1, <1>2

(* The string found in a chunk of n characters with a NUL behind them.     *)
LEMMA CStringIs ==
  ASSUME NEW c \in [0..ChunkLen -> Byte], NEW n \in 0..ChunkLen, c[n] = Nul
  PROVE  /\ CString(c) \in Seq(Byte) /\ Len(CString(c)) \in 0..n
         /\ \A i \in 1..Len(CString(c)) : CString(c)[i] = c[i-1] /\ c[i-1] # Nul
         /\ c[Len(CString(c))] = Nul
<1> DEFINE nuls == {i \in 0..ChunkLen : c[i] = Nul} \cup {ChunkLen + 1}
<1> DEFINE end == Min(nuls)
<1>1. nuls \subseteq Nat /\ nuls # {} /\ n \in nuls
  BY ConsoleAssumption
<1>2. end \in nuls /\ \A y \in nuls : end <= y
  BY <1>1, LeastElement
<1>3. end <= n
  BY <1>1, <1>2
<1>4. ChunkLen \in Nat /\ n <= ChunkLen
  BY ConsoleAssumption
<1>5. end \in 0..n /\ c[end] = Nul
  BY <1>1, <1>2, <1>3, <1>4
<1>6. \A i \in 1..end : c[i-1] # Nul
  <2> TAKE i \in 1..end
  <2>1. i - 1 \in 0..ChunkLen /\ ~(end <= i - 1)
    BY <1>4, <1>5
  <2> QED
    BY <1>2, <2>1
<1>7. CString(c) = [i \in 1..end |-> c[i-1]]
  BY DEF CString
<1> HIDE DEF end
<1>8. \A i \in 1..end : c[i-1] \in Byte
  <2> TAKE i \in 1..end
  <2>1. i - 1 \in 0..ChunkLen
    BY <1>4, <1>5
  <2> QED
    BY <2>1
<1>9. CString(c) \in Seq(Byte) /\ Len(CString(c)) = end
  BY <1>5, <1>7, <1>8
<1> QED
  BY <1>5, <1>6, <1>7, <1>9

LEMMA ChunkOfIs ==
  ASSUME NEW left \in Nat \ {0}
  PROVE  /\ ChunkOf(left) = IF left <= ChunkLen THEN left ELSE ChunkLen
         /\ ChunkOf(left) \in 1..ChunkLen /\ ChunkOf(left) <= left
<1>1. ChunkLen \in Nat \ {0} /\ left \in Int /\ ChunkLen \in Int
  BY ConsoleAssumption
<1>2. ChunkOf(left) = IF left <= ChunkLen THEN left ELSE ChunkLen
  BY <1>1, MinOfTwo DEF ChunkOf
<1> QED
  BY <1>1, <1>2

(* The locals of a _write that has not printed yet.                        *)
LEMMA FreshFrame ==
  ASSUME NEW t \in Text \cup {<<>>}, text' = t, remaining' = Len(t), out' = <<>>,
         chunk' = [i \in 0..ChunkLen |-> Stale],
         wpc' = "idle" \/ wpc' = IF t = <<>> THEN "ret" ELSE "write"
  PROVE  WriteInv'
<1>1. Len(t) \in Nat /\ ChunkLen \in Nat \ {0} /\ (t # <<>> => Len(t) > 0)
  <2>1. CASE t \in Text
    BY <2>1, ConsoleAssumption
  <2>2. CASE t = <<>>
    BY <2>2, ConsoleAssumption
  <2> QED
    BY <2>1, <2>2
<1>2. Stale \in Byte
  BY DEF Byte
<1>3. chunk' \in [0..ChunkLen -> Byte]
  BY <1>2
<1>4. out' \in Seq(Printed) /\ Len(out') = 0 /\ 1..Len(out') = {}
  OBVIOUS
<1>5. wpc' = "write" => remaining' > 0 /\ Len(out') * ChunkLen + remaining' = Len(text')
  BY <1>1, <1>4
<1>6. wpc' = "ret" => Len(out') * ChunkLen \in Len(text')..(Len(text') + ChunkLen - 1)
  <2> HAVE wpc' = "ret"
  <2>1. t = <<>>
    OBVIOUS
  <2>2. Len(text') = 0 /\ Len(out') * ChunkLen = 0
    BY <1>1, <1>4, <2>1
  <2> QED
    BY <1>1, <2>2
<1>7. wpc' \in {"idle", "write", "fault", "ret"}
  OBVIOUS
<1>8. text' \in Text \cup {<<>>} /\ remaining' \in 0..Len(text')
  BY <1>1
<1> QED
  BY <1>3, <1>4, <1>5, <1>6, <1>7, <1>8 DEF WriteInv, Byte, Printed

(* A turn of the loop prints the next chunk, and nothing printed changes.  *)
LEMMA ChunkPreserves ==
  ASSUME WriteInv, WriteChunk
  PROVE  WriteInv'
<1>0. PICK done \in Nat : done = Len(out)
  BY DEF WriteInv
<1> DEFINE n    == ChunkOf(remaining)
           from == Len(text) - remaining
           s    == CString(chunk')
<1>1. /\ wpc = "write" /\ text \in Text \cup {<<>>} /\ remaining \in 1..Len(text)
      /\ chunk \in [0..ChunkLen -> Byte] /\ out \in Seq(Printed)
      /\ \A k \in 1..done : PrintsChunk(k)
      /\ done * ChunkLen + remaining = Len(text)
  BY <1>0, TextFacts DEF WriteChunk, WriteTurn, WriteInv
<1>2. /\ chunk' = Bytes(text, from, n, chunk)
      /\ remaining' = remaining - n
      /\ out' = Append(out, Item(s, 0))
      /\ wpc' = IF remaining - n > 0 THEN "write" ELSE "ret"
      /\ text' = text
  BY DEF WriteChunk, WriteTurn, Write0
<1>3. /\ Len(text) \in Nat /\ \A i \in 1..Len(text) : text[i] \in Byte
      /\ ChunkLen \in Nat \ {0} /\ done \in Nat
  BY <1>1, TextFacts, ConsoleAssumption
<1>4. /\ n = IF remaining <= ChunkLen THEN remaining ELSE ChunkLen
      /\ n \in 1..ChunkLen /\ n <= remaining
  <2>1. remaining \in Nat \ {0}
    BY <1>1, <1>3
  <2> QED
    BY <2>1, ChunkOfIs
<1>5. from \in Nat /\ from = done * ChunkLen /\ from + remaining = Len(text)
  <2>1. done * ChunkLen \in Nat
    BY <1>3
  <2> QED
    BY <1>1, <1>3, <2>1
<1> HIDE DEF n, from, s
<1>6. \A i \in 1..n : from + i \in 1..Len(text)
  BY <1>1, <1>3, <1>4, <1>5
<1>7. \A i \in 0..ChunkLen : chunk'[i] = IF i < n THEN text[from + i + 1]
                                         ELSE IF i = n THEN Nul ELSE chunk[i]
  BY <1>2 DEF Bytes
<1>8. chunk' \in [0..ChunkLen -> Byte] /\ chunk'[n] = Nul
  <2>1. ASSUME NEW i \in 0..ChunkLen PROVE chunk'[i] \in Byte
    <3>1. CASE i < n
      <4>1. i + 1 \in 1..n /\ from + i + 1 = from + (i + 1)
        BY <1>3, <1>4, <1>5, <3>1
      <4>2. text[from + i + 1] \in Byte
        BY <1>3, <1>6, <4>1
      <4> QED
        BY <1>7, <3>1, <4>2
    <3>2. CASE ~(i < n)
      <4>1. Nul \in Byte /\ chunk[i] \in Byte
        BY <1>1 DEF Byte
      <4> QED
        BY <1>7, <3>2, <4>1
    <3> QED
      BY <3>1, <3>2
  <2>2. chunk' = [i \in 0..ChunkLen |-> chunk'[i]]
    BY <1>2 DEF Bytes
  <2>3. n \in 0..ChunkLen /\ ~(n < n)
    BY <1>4
  <2> QED
    BY <1>7, <2>1, <2>2, <2>3
<1>9. /\ s \in Seq(Byte) /\ Len(s) \in 0..n
      /\ \A i \in 1..Len(s) : s[i] = chunk'[i-1] /\ chunk'[i-1] # Nul
      /\ chunk'[Len(s)] = Nul
  <2>1. n \in 0..ChunkLen
    BY <1>4
  <2> QED
    BY <1>8, <2>1, CStringIs DEF s
<1>10. /\ out' \in Seq(Printed) /\ Len(out') = done + 1
       /\ out'[done + 1].text = s /\ \A k \in 1..done : out'[k] = out[k]
  <2>1. Item(s, 0) \in Printed /\ Item(s, 0).text = s
    BY <1>9 DEF Item, Printed
  <2> QED
    BY <1>0, <1>1, <1>2, <2>1
<1>11. PrintsChunk(done + 1)'
  <2>1. /\ \A i \in 1..Len(s) : s[i] = text[from + i] /\ s[i] # Nul
        /\ Len(s) < n => text[from + Len(s) + 1] = Nul
    <3>1. ASSUME NEW i \in 1..Len(s) PROVE s[i] = text[from + i] /\ s[i] # Nul
      <4>1. i - 1 \in 0..ChunkLen /\ i - 1 < n /\ from + (i - 1) + 1 = from + i
        BY <1>3, <1>4, <1>5, <1>9
      <4> QED
        BY <1>7, <1>9, <4>1
    <3>2. Len(s) < n => text[from + Len(s) + 1] = Nul
      <4>1. Len(s) \in 0..ChunkLen
        BY <1>3, <1>4, <1>9
      <4> QED
        BY <1>7, <1>9, <4>1
    <3> QED
      BY <3>1, <3>2
  <2>2. /\ ((done + 1) - 1) * ChunkLen = from /\ Len(text) - from = remaining
    BY <1>1, <1>3, <1>5
  <2>3. ChunkOf(Len(text) - ((done + 1) - 1) * ChunkLen) = n
    BY <2>2 DEF n
  <2>4. Len(s) <= n
    BY <1>4, <1>9
  <2> QED
    BY <1>2, <1>10, <2>1, <2>2, <2>3, <2>4 DEF PrintsChunk, ChunkOf
<1>12. \A k \in 1..done : PrintsChunk(k)'
  <2> TAKE k \in 1..done
  <2>1. PrintsChunk(k) /\ out'[k] = out[k] /\ text' = text
    BY <1>1, <1>2, <1>10
  <2> QED
    BY <2>1 DEF PrintsChunk, ChunkOf
<1>13. \A k \in 1..Len(out') : PrintsChunk(k)'
  <2> TAKE k \in 1..Len(out')
  <2>1. k \in 1..done \/ k = done + 1
    BY <1>3, <1>10
  <2> QED
    BY <1>11, <1>12, <2>1
<1>14. remaining' \in 0..Len(text')
  BY <1>1, <1>2, <1>3, <1>4
<1>15. /\ Len(out') * ChunkLen = from + ChunkLen /\ Len(text') = from + remaining
       /\ remaining' = remaining - n /\ remaining \in Nat
  <2>1. (done + 1) * ChunkLen = from + ChunkLen
    BY <1>3, <1>5
  <2>2. Len(out') * ChunkLen = from + ChunkLen
    BY <1>10, <2>1
  <2> QED
    BY <1>1, <1>2, <1>3, <1>5, <2>2
<1>16. wpc' = "write" => remaining' > 0 /\ Len(out') * ChunkLen + remaining' = Len(text')
  <2> HAVE wpc' = "write"
  <2>1. remaining - n > 0
    BY <1>2
  <2>2. n = ChunkLen
    BY <1>1, <1>3, <1>4, <2>1
  <2>3. (from + ChunkLen) + (remaining - n) = from + remaining
    BY <1>3, <1>5, <1>15, <2>2
  <2>4. Len(out') * ChunkLen + remaining' = Len(text')
    BY <1>15, <2>3
  <2> QED
    BY <1>15, <2>1, <2>4
<1>17. wpc' = "ret" => Len(out') * ChunkLen \in Len(text')..(Len(text') + ChunkLen - 1)
  <2> HAVE wpc' = "ret"
  <2>1. remaining = n
    BY <1>1, <1>2, <1>3, <1>4
  <2>2. from + ChunkLen \in (from + remaining)..(from + remaining + ChunkLen - 1)
    BY <1>3, <1>4, <1>5, <2>1
  <2> QED
    BY <1>15, <2>2
<1>18. wpc' \in {"idle", "write", "fault", "ret"} /\ text' \in Text \cup {<<>>}
  BY <1>1, <1>2
<1> QED
  BY <1>8, <1>10, <1>13, <1>14, <1>16, <1>17, <1>18 DEF WriteInv, Byte, Printed

LEMMA ConsoleKept ==
  ASSUME WriteInv, UNCHANGED <<text, remaining, chunk, out>>,
         wpc' = wpc \/ (wpc = "write" /\ wpc' = "fault")
  PROVE  WriteInv'
BY DEF WriteInv, PrintsChunk, ChunkOf, Byte, Printed

LEMMA NoFrameFresh ==
  ASSUME NoFrame
  PROVE  WriteInv'
<1>1. <<>> \in Text \cup {<<>>} /\ Len(<<>>) = 0
  OBVIOUS
<1> QED
  BY <1>1, FreshFrame DEF NoFrame

(* Every turn of the loop of _write prints the next chunk of its text      *)
(* (syscalls.c:67-77).                                                     *)
THEOREM WriteInvariant == SyscallsSpec => []WriteInv
<1>1. SyscallsInit => WriteInv
  <2> SUFFICES ASSUME SyscallsInit PROVE WriteInv
    OBVIOUS
  <2>1. /\ wpc = "idle" /\ text = <<>> /\ remaining = 0 /\ out = <<>>
        /\ chunk = [i \in 0..ChunkLen |-> Stale]
    BY DEF SyscallsInit
  <2>2. Stale \in Byte
    BY DEF Byte
  <2>3. chunk \in [0..ChunkLen -> Byte]
    BY <2>1, <2>2
  <2>4. out \in Seq(Printed) /\ 1..Len(out) = {} /\ remaining \in 0..Len(text)
    BY <2>1
  <2> QED
    BY <2>1, <2>3, <2>4 DEF WriteInv
<1>2. WriteInv /\ [SyscallsNext]_syscallVars => WriteInv'
  <2> SUFFICES ASSUME WriteInv, [SyscallsNext]_syscallVars PROVE WriteInv'
    OBVIOUS
  <2>1. ASSUME NEW incr \in Ptrdiff, SbrkRefused(incr) \/ SbrkGranted(incr) PROVE WriteInv'
    BY <2>1, NoFrameFresh DEF SbrkRefused, SbrkGranted
  <2>2. ASSUME NEW t \in Text, WriteCall(t) PROVE WriteInv'
    BY <2>2, FreshFrame DEF WriteCall
  <2>3. CASE WriteChunk
    BY <2>3, ChunkPreserves
  <2>4. CASE WriteFaults
    BY <2>4, ConsoleKept DEF WriteFaults
  <2>5. CASE SyscallsReset
    BY <2>5, NoFrameFresh DEF SyscallsReset
  <2>6. CASE UNCHANGED syscallVars
    BY <2>6, ConsoleKept DEF syscallVars, writeVars
  <2> QED
    BY <2>1, <2>2, <2>3, <2>4, <2>5, <2>6 DEF SyscallsNext
<1> QED
  BY <1>1, <1>2, PTL DEF SyscallsSpec

(* _write prints its whole text once and in order, but for what follows a  *)
(* NUL in its chunk (syscalls.c:20).                                       *)
THEOREM WritePrintsText == SyscallsSpec => []PrintedText
<1>1. WriteInv => PrintedText
  BY DEF WriteInv, PrintedText
<1> QED
  BY <1>1, WriteInvariant, PTL

(* The variables of both stubs and their history keep their types.         *)
THEOREM SyscallsTypes == SyscallsSpec => []SyscallsTypeOK
<1>1. HeapInv /\ BlockInv /\ WriteInv => SyscallsTypeOK
  BY LimitIsAddress DEF HeapInv, BlockInv, WriteInv, SyscallsTypeOK, Byte
<1> QED
  BY <1>1, HeapInvariant, BlockInvariant, WriteInvariant, PTL
=============================================================================
