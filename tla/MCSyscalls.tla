---- MODULE MCSyscalls ----
EXTENDS Syscalls
CONSTANTS a, b
(* Up to two full chunks and a byte, with a NUL anywhere in them.          *)
MCText == BoundedSeq({a, b, Nul}, 5)
====
