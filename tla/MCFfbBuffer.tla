---- MODULE MCFfbBuffer ----
EXTENDS FfbBuffer
CONSTANTS b1, b2, a
(* Longer than the capacity, and short with more behind a NUL.  The empty  *)
(* string is there too: the end of an object.                              *)
MCLiterals == {<<a, Space, a, a>>, <<a, Nul, a>>}
(* %s, a%s, %3s, %-3s                                                      *)
MCFormats ==
  {[lead |-> <<>>, width |-> 0, left |-> FALSE], [lead |-> <<a>>, width |-> 0, left |-> FALSE],
   [lead |-> <<>>, width |-> 3, left |-> FALSE], [lead |-> <<>>, width |-> 3, left |-> TRUE]}
====
