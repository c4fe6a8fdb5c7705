------------------------------ MODULE Syscalls ------------------------------
(***************************************************************************)
(* src/syscalls.c: the program break under malloc (_sbrk) and the console  *)
(* under stdio (_write), called by newlib one at a time.  Pointers are     *)
(* addresses of a space that wraps around.  Chunks are printed through     *)
(* module Semihost; here out is the console since _write was called.       *)
(***************************************************************************)
EXTENDS Integers, SequencesExt, Semihost

CONSTANTS
  AddressSpace,  (* Number of addresses: 2^32 in the code.                 *)
  SHeap,         (* _sheap: the first address above .bss.                  *)
  EStack,        (* _estack: the end of RAM, where the stack begins.       *)
  MinStackSize,  (* _Min_Stack_Size.                                       *)
  MinHeapSize,   (* _Min_Heap_Size.                                        *)
  ChunkLen,      (* sizeof(chunk) - 1: 64 in the code.                     *)
  Text,          (* What stdio may pass to _write.                         *)
  Nul, Stale     (* '\0', and a byte of chunk that was never assigned.     *)

Limit == EStack - MinStackSize

(* The ASSERT of the linker script, and RAM in the lower half of the space *)
(* but not at its bottom, where the part has flash.                        *)
ASSUME HeapAssumption ==
  /\ {AddressSpace, SHeap, EStack, MinStackSize, MinHeapSize} \subseteq Nat
  /\ SHeap + MinHeapSize + MinStackSize <= EStack
  /\ SHeap > 0 /\ 2 * EStack <= AddressSpace

ASSUME ConsoleAssumption ==
  /\ ChunkLen \in Nat \ {0} /\ Nul # Stale
  /\ \A t \in Text : t \in Seq(Range(t))

VARIABLES
  heap_end,   (* The break, a static variable in .data.                    *)
  blocks,     (* History: what malloc holds, a set of <<from, to>>.        *)
  strayed,    (* History: malloc gave back more than it was given.         *)
  refused,    (* History: the last request, if it returned (void * )-1.    *)
  wpc,        (* "idle", "write" in the loop of _write, "fault", "ret".    *)
  text,       (* History: what _write was called with.                     *)
  remaining, chunk  (* Locals of _write; buf is text from the bytes left.  *)

heapVars  == <<heap_end, blocks, strayed, refused>>
writeVars == <<wpc, text, remaining, chunk>>
syscallVars == <<heapVars, writeVars, attached, out>>

Address   == 0..(AddressSpace - 1)
Ptrdiff   == (-(AddressSpace \div 2))..(AddressSpace \div 2 - 1)
Pointer(a) == a % AddressSpace

(* The frame of _write is gone when the next call is made.                 *)
Calls == wpc \in {"idle", "ret"}
NoFrame ==
  /\ wpc' = "idle" /\ text' = <<>> /\ remaining' = 0
  /\ chunk' = [i \in 0..ChunkLen |-> Stale]
  /\ out' = <<>>
-----------------------------------------------------------------------------
(* _sbrk(incr) *)
OverrunsRam(incr)    == Pointer(heap_end + incr) > EStack
OverrunsAlmost(incr) == Pointer(heap_end + incr) >= Limit
Overruns(incr)       == Pointer(heap_end + incr) > Limit

SbrkRefused(incr) ==
  /\ Calls
  /\ Overruns(incr)
  /\ refused' = incr
  /\ NoFrame
  /\ UNCHANGED <<heap_end, blocks, strayed, attached>>

(* What malloc knows of a call that succeeded: a block more, or less of    *)
(* the last ones; once it has given back too much, nothing.                *)
Trimmed(end) ==
  {<<b[1], Min({b[2], end})>> : b \in {c \in blocks : c[1] < end}}

SbrkGranted(incr) ==
  /\ Calls
  /\ ~Overruns(incr)
  /\ LET end == Pointer(heap_end + incr) IN
       /\ heap_end' = end
       /\ strayed' = (strayed \/ end < SHeap)
       /\ blocks' = IF strayed' THEN {}
                    ELSE IF incr > 0 THEN blocks \cup {<<heap_end, end>>} ELSE Trimmed(end)
  /\ refused' = 0
  /\ NoFrame
  /\ UNCHANGED attached
-----------------------------------------------------------------------------
(* _write(fd, buf, len).  chunk is not initialised.                        *)
WriteCall(t) ==
  /\ Calls
  /\ wpc' = IF t = <<>> THEN "ret" ELSE "write"
  /\ text' = t /\ remaining' = Len(t)
  /\ chunk' = [i \in 0..ChunkLen |-> Stale]
  /\ out' = <<>> /\ refused' = 0
  /\ UNCHANGED <<heap_end, blocks, strayed, attached>>

BytesUnterminated(t, from, n, old) ==
  [i \in 0..ChunkLen |-> IF i < n THEN t[from + i + 1]
                         ELSE IF i = n /\ n = ChunkLen THEN Nul ELSE old[i]]

Bytes(t, from, n, old) ==
  [i \in 0..ChunkLen |-> IF i < n THEN t[from + i + 1] ELSE IF i = n THEN Nul ELSE old[i]]

(* The string SYS_WRITE0 finds at c: up to the first NUL.                  *)
CString(c) ==
  LET end == Min({i \in 0..ChunkLen : c[i] = Nul} \cup {ChunkLen + 1})
  IN  [i \in 1..end |-> c[i - 1]]

(* n, the length of a turn of the loop.                                    *)
ChunkOf(left) == Min({left, ChunkLen})

WriteTurn(n, step) ==
  /\ wpc = "write"
  /\ chunk' = Bytes(text, Len(text) - remaining, n, chunk)
  /\ remaining' = remaining - step
  /\ Write0(CString(chunk'), 0)
  /\ wpc' = IF remaining - step > 0 THEN "write" ELSE "ret"
  /\ UNCHANGED <<heapVars, text, attached>>

WriteChunkWhole == WriteTurn(ChunkOf(remaining), ChunkLen)
WriteChunk      == WriteTurn(ChunkOf(remaining), ChunkOf(remaining))

(* With no debugger the bkpt of SYS_WRITE0 faults.                         *)
WriteFaults ==
  /\ wpc = "write" /\ ~attached
  /\ wpc' = "fault"
  /\ UNCHANGED <<heapVars, text, remaining, chunk, attached, out>>
-----------------------------------------------------------------------------
SyscallsInit ==
  /\ heap_end = SHeap /\ blocks = {} /\ strayed = FALSE /\ refused = 0
  /\ wpc = "idle" /\ text = <<>> /\ remaining = 0
  /\ chunk = [i \in 0..ChunkLen |-> Stale]
  /\ attached \in BOOLEAN /\ out = <<>>

(* A reset: startup copies .data, and heap_end with it.                    *)
SyscallsReset ==
  /\ heap_end' = SHeap /\ blocks' = {} /\ strayed' = FALSE /\ refused' = 0
  /\ NoFrame
  /\ UNCHANGED attached

SyscallsNext ==
  \/ \E incr \in Ptrdiff : SbrkRefused(incr) \/ SbrkGranted(incr)
  \/ \E t \in Text : WriteCall(t)
  \/ WriteChunk \/ WriteFaults
  \/ SyscallsReset

SyscallsSpec == SyscallsInit /\ [][SyscallsNext]_syscallVars
-----------------------------------------------------------------------------
SyscallsTypeOK ==
  /\ heap_end \in Address
  /\ blocks \subseteq Address \X Address
  /\ strayed \in BOOLEAN /\ refused \in Ptrdiff
  /\ wpc \in {"idle", "write", "fault", "ret"}
  /\ text \in Text \cup {<<>>} /\ remaining \in 0..Len(text)
  /\ chunk \in [0..ChunkLen -> (UNION {Range(t) : t \in Text}) \cup {Nul, Stale}]

(* Whatever the increment, the break stays out of the stack reservation:   *)
(* the sum may wrap, but never to an address below the limit that is not   *)
(* the true sum.                                                           *)
BreakBelowStack == heap_end <= Limit

(* As long as malloc gives back no more than it got, its blocks are the    *)
(* whole heap up to the break, without gap or overlap, and none of it is   *)
(* .bss or stack.                                                          *)
BlocksApart ==
  ~strayed =>
    /\ heap_end \in SHeap..Limit
    /\ \A b \in blocks : SHeap <= b[1] /\ b[1] < b[2] /\ b[2] <= heap_end
    /\ \A b, c \in blocks : b # c => b[2] <= c[1] \/ c[2] <= b[1]
    /\ \A x \in SHeap..(heap_end - 1) : \E b \in blocks : b[1] <= x /\ x < b[2]

(* The heap that the linker script reserves can be allocated to its last   *)
(* byte, and a refused request is one that does not fit.                   *)
HeapGuarantee ==
  /\ refused # 0 => heap_end + refused \notin 0..Limit
  /\ refused > 0 /\ ~strayed => heap_end - SHeap + refused > MinHeapSize

(* Print k is the next ChunkLen bytes of the text, or what is left of it,  *)
(* less what follows a NUL.                                                *)
PrintsChunk(k) ==
  LET from == (k - 1) * ChunkLen
      n    == ChunkOf(Len(text) - from)
      s    == out[k].text
  IN  /\ Len(s) <= n
      /\ \A i \in 1..Len(s) : s[i] = text[from + i] /\ s[i] # Nul
      /\ Len(s) < n => text[from + Len(s) + 1] = Nul

(* What _write has printed when it returns: the text chunk by chunk, each  *)
(* once and in order, less what follows a NUL in its chunk ("Embedded NUL  *)
(* bytes end a chunk early", syscalls.c:20).  A text without NUL arrives   *)
(* whole, and a byte of an earlier chunk never.                            *)
PrintedText ==
  wpc = "ret" =>
    /\ Len(out) * ChunkLen \in Len(text)..(Len(text) + ChunkLen - 1)
    /\ \A k \in 1..Len(out) : PrintsChunk(k)
=============================================================================
