---------------------------- MODULE TextObjects ----------------------------
(***************************************************************************)
(* What ffb::FixedFormatBuffer promises: each object is a text of at most  *)
(* N characters, and a call replaces the text of one object by what its    *)
(* arguments denote when it is made.  A call is a request and, later, its  *)
(* completion.  A source is <<region, offset>>, the region an object or a  *)
(* literal.  Module FfbBuffer implements this with cells and a size.       *)
(***************************************************************************)
EXTENDS Integers, SequencesExt

CONSTANTS Buf, N, Nul, Space,
  None  (* No request is pending.                                          *)

VARIABLES value, req

textVars == <<value, req>>

Take(s, k) == SubSeq(s, 1, Min({k, Len(s)}))
CStr(s)    == LET end == Min({i \in DOMAIN s : s[i] = Nul} \cup {Len(s) + 1})
              IN  SubSeq(s, 1, end - 1)

Behind(p)  == LET s == IF p[1] \in Buf THEN value[p[1]] ELSE p[1]
              IN  SubSeq(s, p[2] + 1, Len(s))

(* What a format makes of the string that is its argument.                 *)
Formatted(f, s) ==
  LET fill == [i \in 1..(f.width - Len(s)) |-> Space]
  IN  f.lead \o (IF f.left THEN s \o fill ELSE fill \o s)

Result(a) ==
  Take(CASE a.op = "write"    -> CStr(Behind(a.src))
         [] a.op = "writelen" -> Take(Append(Behind(a.src), Nul), a.len)
         [] a.op = "format"   -> Formatted(a.fmt, CStr(Behind(a.src)))
         [] a.op = "append"   -> value[a.dst] \o Formatted(a.fmt, CStr(Behind(a.src))), N)

(* A call that puts characters in front of its own source before it reads  *)
(* it promises no more than a text.                                        *)
Tangled(a) ==
  /\ a.src[1] = a.dst
  /\ \/ a.op = "append"
     \/ /\ a.op = "format"
        /\ a.fmt.lead # <<>> \/ (~a.fmt.left /\ a.fmt.width > Len(CStr(Behind(a.src))))

Init == value = [b \in Buf |-> <<>>] /\ req = None

Request  == req = None /\ req' # None /\ UNCHANGED value

Complete ==
  /\ req # None /\ req' = None
  /\ IF Tangled(req)
     THEN /\ value' = [value EXCEPT ![req.dst] = value'[req.dst]]
          /\ Len(value'[req.dst]) <= N
          /\ req.op = "append" => IsPrefix(value[req.dst], value'[req.dst])
     ELSE value' = [value EXCEPT ![req.dst] = Result(req)]

Clear(b)    == value' = [value EXCEPT ![b] = <<>>]
Copy(b, o)  == value' = [value EXCEPT ![b] = value[o]]
Move(b, o)  == value' = [value EXCEPT ![b] = value[o], ![o] = <<>>]

Next ==
  \/ Request \/ Complete
  \/ /\ req = None /\ UNCHANGED req
     /\ \E b \in Buf : Clear(b) \/ \E o \in Buf \ {b} : Copy(b, o) \/ Move(b, o)

Spec == Init /\ [][Next]_textVars
=============================================================================
