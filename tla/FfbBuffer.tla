----------------------------- MODULE FfbBuffer -----------------------------
(***************************************************************************)
(* ffb::FixedFormatBuffer of src/ffb/fixed_format_buffer.h as an object in *)
(* memory: construction, copies, Clear, both Writes, and Format and Append *)
(* of a literal and one %s.  The loops go character by character, because  *)
(* a source may lie in the buffer that is being written.  A pointer is     *)
(* <<region, offset>>; a region is an object or a literal, a sequence.     *)
(***************************************************************************)
EXTENDS Integers, SequencesExt

CONSTANTS
  Buf,         (* The objects, all of one type.                            *)
  N,           (* The capacity.                                            *)
  Letter,      (* The characters of texts, Space among them.               *)
  Nul, Space,
  Literals,    (* String literals that are written or formatted, among     *)
               (* them "(null)", which WriteString puts for a null pointer.*)
  Formats,     (* Formats with one %s: [lead |-> the literal text in front *)
               (* of it, width |-> 0 for none, left |-> is there a '-'?].  *)
  None         (* In place of the arguments while no call is running.      *)

(* The arguments of a call.                                                *)
Points   == (Buf \cup Literals) \X Nat
Requests ==
  [op : {"write"}, dst : Buf, src : Points]
    \cup [op : {"writelen"}, dst : Buf, src : Points, len : Nat]
    \cup [op : {"format", "append"}, dst : Buf, src : Points, fmt : Formats]

ASSUME BufferAssumption ==
  /\ N \in Nat \ {0} /\ Nul \notin Letter /\ Space \in Letter
  /\ \A s \in Literals : s \in Seq(Letter \cup {Nul}) /\ s \notin Buf
  /\ \A f \in Formats : f.lead \in Seq(Letter) /\ f.width \in Nat /\ f.left \in BOOLEAN
  /\ None \notin Requests

VARIABLES
  cells,   (* buffer_ of each object.                                      *)
  size,    (* size_ of each object.                                        *)
  args,    (* History: the arguments of the running call.                  *)
  before,  (* History: the text its object had when it was made.           *)
  bpc,     (* "idle", "write", "measure", "put".                           *)
  src,     (* s, the pointer to the next character to read.                *)
  pos,     (* len or actual of a Write, pos of the gadget of a format.     *)
  dry      (* The length that the counting gadget measured.                *)

callVars == <<args, before, bpc, src, pos, dry>>
ffbVars  == <<cells, size, callVars>>

Char     == Letter \cup {Nul}
Text(b)  == [i \in 1..size[b] |-> cells[b][i - 1]]

(* The character a pointer points at; and the pointer k characters on.     *)
Deref(mem, p) == IF p[1] \in Buf THEN mem[p[1]][p[2]]
                 ELSE IF p[2] < Len(p[1]) THEN p[1][p[2] + 1] ELSE Nul
At(p)         == Deref(cells, p)
Beyond(p, k)  == <<p[1], p[2] + k>>
EndOf(p)      == IF p[1] \in Buf THEN N ELSE Len(p[1])
Pointers      == (Literals \X {0}) \cup UNION {{b} \X (0..size[b]) : b \in Buf}

Idle == bpc = "idle"
-----------------------------------------------------------------------------
(* FixedFormatBuffer(); buffer_{} and size_{0} are member initialisers.    *)
ConstructBare(b) ==
  /\ Idle
  /\ cells' = [cells EXCEPT ![b] = [k \in 0..N |-> IF k = 0 THEN Nul ELSE Space]]
  /\ size' = [size EXCEPT ![b] = 0]
  /\ UNCHANGED callVars

Construct(b) ==
  /\ Idle
  /\ cells' = [cells EXCEPT ![b] = [k \in 0..N |-> Nul]]
  /\ size' = [size EXCEPT ![b] = 0]
  /\ UNCHANGED callVars

(* Copy and move construction and assignment; to itself does nothing.      *)
CopyFrom(b, other) ==
  /\ Idle /\ b # other
  /\ cells' = [cells EXCEPT ![b] = cells[other]]
  /\ size' = [size EXCEPT ![b] = size[other]]
  /\ UNCHANGED callVars

MoveFromSize(b, other) ==
  /\ Idle /\ b # other
  /\ cells' = [cells EXCEPT ![b] = cells[other]]
  /\ size' = [size EXCEPT ![b] = size[other], ![other] = 0]
  /\ UNCHANGED callVars

MoveFrom(b, other) ==
  /\ Idle /\ b # other
  /\ cells' = [cells EXCEPT ![b] = cells[other], ![other][0] = Nul]
  /\ size' = [size EXCEPT ![b] = size[other], ![other] = 0]
  /\ UNCHANGED callVars

Clear(b) ==
  /\ Idle
  /\ cells' = [cells EXCEPT ![b][0] = Nul]
  /\ size' = [size EXCEPT ![b] = 0]
  /\ UNCHANGED callVars

(* operator==: strcmp of the two buffers.                                  *)
EqualsBytes(x, y) == cells[x] = cells[y]
Equals(x, y) ==
  \E end \in 0..N : /\ cells[x][end] = Nul /\ cells[y][end] = Nul
                    /\ \A k \in 0..(end - 1) : cells[x][k] = cells[y][k] /\ cells[x][k] # Nul
-----------------------------------------------------------------------------
Begin(a, point, start) ==
  /\ Idle
  /\ args' = a /\ before' = Text(a.dst)
  /\ bpc' = point /\ src' = a.src /\ pos' = start /\ dry' = 0

Return ==
  bpc' = "idle" /\ args' = None /\ before' = <<>> /\ src' = None /\ pos' = 0 /\ dry' = 0

(* Write(s), of a pointer that is not null; and Write(s, len), of a length *)
(* that does not reach beyond the terminator.  With no length, or no       *)
(* pointer, the second clears.                                             *)
Write(b, p) ==
  /\ Begin([op |-> "write", dst |-> b, src |-> p], "write", 0)
  /\ UNCHANGED <<cells, size>>

WriteLen(b, p, len) ==
  /\ len \in 1..(IF p[1] \in Buf THEN size[p[1]] + 1 - p[2] ELSE Len(p[1]) + 1)
  /\ Begin([op |-> "writelen", dst |-> b, src |-> p, len |-> len], "write", 0)
  /\ UNCHANGED <<cells, size>>

MoreToWrite ==
  /\ IF args.op = "write" THEN At(src) # Nul ELSE pos < args.len
  /\ pos < N

WriteChar ==
  /\ bpc = "write" /\ MoreToWrite
  /\ cells' = [cells EXCEPT ![args.dst][pos] = At(src)]
  /\ src' = Beyond(src, 1) /\ pos' = pos + 1
  /\ UNCHANGED <<size, args, before, bpc, dry>>

WriteReturn ==
  /\ bpc = "write" /\ ~MoreToWrite
  /\ cells' = [cells EXCEPT ![args.dst][pos] = Nul]
  /\ size' = [size EXCEPT ![args.dst] = pos]
  /\ Return
-----------------------------------------------------------------------------
(* Gadget::Put of a sequence: what reaches the buffer of it.               *)
Stored(row, from, s) ==
  [k \in 0..N |-> IF k < N /\ k - from + 1 \in DOMAIN s THEN s[k - from + 1] ELSE row[k]]

Pads(count) == [i \in 1..count |-> Space]

(* The literal of a format, up to its %s.                                  *)
DoFormat(b, op, start, fmt, p) ==
  /\ Begin([op |-> op, dst |-> b, src |-> p, fmt |-> fmt], "measure", start + Len(fmt.lead))
  /\ cells' = [cells EXCEPT ![b] = Stored(@, start, fmt.lead)]
  /\ UNCHANGED size

Format(b, fmt, p)     == DoFormat(b, "format", 0, fmt, p)
AppendOver(b, fmt, p) == DoFormat(b, "append", 0, fmt, p)
AppendTo(b, fmt, p)   == DoFormat(b, "append", size[b], fmt, p)

(* strlen, as the counting gadget finds it.                                *)
Length(p) == Min({k \in 0..(EndOf(p) - p[2]) : At(Beyond(p, k)) = Nul} \cup {EndOf(p) - p[2] + 1})

(* EmitSpacePadded: the content measured, then the padding on the left.    *)
Measure ==
  /\ bpc = "measure"
  /\ dry' = Length(src)
  /\ LET fill == Pads(IF args.fmt.left THEN 0 ELSE args.fmt.width - Length(src)) IN
       /\ cells' = [cells EXCEPT ![args.dst] = Stored(@, pos, fill)]
       /\ pos' = pos + Len(fill)
  /\ bpc' = "put"
  /\ UNCHANGED <<size, args, before, src>>

(* WriteString, one character.                                             *)
PutCharBy(step) ==
  /\ bpc = "put" /\ At(src) # Nul
  /\ cells' = [cells EXCEPT ![args.dst] = Stored(@, pos, <<At(src)>>)]
  /\ src' = Beyond(src, step) /\ pos' = pos + step
  /\ UNCHANGED <<size, args, before, bpc, dry>>

PutCharStuck == PutCharBy(IF pos < N THEN 1 ELSE 0)
PutChar      == PutCharBy(1)

(* The padding on the right, and the end of DoFormat.                      *)
Filling == Pads(IF args.fmt.left THEN args.fmt.width - dry ELSE 0)

FormatReturnAt(end) ==
  /\ bpc = "put" /\ At(src) = Nul
  /\ cells' = [cells EXCEPT ![args.dst] = [Stored(@, pos, Filling) EXCEPT ![end] = Nul]]
  /\ size' = [size EXCEPT ![args.dst] = end]
  /\ Return

FormatReturnLong == FormatReturnAt(pos + Len(Filling))
FormatReturn     == FormatReturnAt(Min({pos + Len(Filling), N}))
-----------------------------------------------------------------------------
FfbInit ==
  /\ cells = [b \in Buf |-> [k \in 0..N |-> Nul]] /\ size = [b \in Buf |-> 0]
  /\ args = None /\ before = <<>> /\ bpc = "idle" /\ src = None /\ pos = 0 /\ dry = 0

FfbStep == WriteChar \/ WriteReturn \/ Measure \/ PutChar \/ FormatReturn

FfbCall ==
  \E b \in Buf :
    \/ Construct(b) \/ Clear(b)
    \/ \E other \in Buf : CopyFrom(b, other) \/ MoveFrom(b, other)
    \/ \E p \in Pointers :
         \/ Write(b, p)
         \/ \E len \in 1..(N + 1) : WriteLen(b, p, len)
         \/ \E fmt \in Formats : Format(b, fmt, p) \/ AppendTo(b, fmt, p)

FfbNext == FfbStep \/ FfbCall
FfbSpec == FfbInit /\ [][FfbNext]_ffbVars /\ WF_ffbVars(FfbStep)
-----------------------------------------------------------------------------
FfbTypeOK ==
  /\ cells \in [Buf -> [0..N -> Char]] /\ size \in [Buf -> 0..N]
  /\ bpc \in {"idle", "write", "measure", "put"}
  /\ Idle => args = None
  /\ ~Idle => /\ args \in Requests /\ before \in Seq(Char)
             /\ src[1] \in Buf \cup Literals /\ src[2] \in Nat
  /\ pos \in Nat /\ dry \in Nat

(* Between calls the terminator is where size_ says.  The last cell is one *)
(* at all times: no character is ever put there, so it stops any loop that *)
(* reads a buffer while it is written.                                     *)
Terminated ==
  \A b \in Buf : cells[b][N] = Nul /\ (Idle => cells[b][size[b]] = Nul)

(* No loop reads behind its source, an object or a literal, even if it     *)
(* overwrites the terminator it is looking for: buf.Append("%s",           *)
(* buf.CStr()).  Every step reads further on, so every call ends.          *)
Reading ==
  \/ bpc \in {"measure", "put"}
  \/ bpc = "write" /\ (args.op = "write" \/ MoreToWrite)

ReadsInBounds == Reading => src[2] \in 0..EndOf(src)

(* operator== is true of equal texts and of no others, whatever lies       *)
(* behind the terminators; texts with an embedded NUL excepted.            *)
EqualityIsTextual ==
  Idle => \A x, y \in Buf :
    Nul \notin Range(Text(x)) \cup Range(Text(y)) => (Equals(x, y) <=> Text(x) = Text(y))

(* Each call gives its object the text that its arguments had when it was  *)
(* made, cut off at N, and leaves all other objects alone: the loops       *)
(* implement TextObjects.                                                  *)
Promised == INSTANCE TextObjects WITH
  req   <- args,
  value <- [b \in Buf |-> IF ~Idle /\ b = args.dst THEN before ELSE Text(b)]

TextsKept == Promised!Spec

(* Every call returns.                                                     *)
CallsReturn == []<>Idle
=============================================================================
