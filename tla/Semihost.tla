------------------------------ MODULE Semihost ------------------------------
(***************************************************************************)
(* src/semihost.c and the host behind it.  A bkpt #0xAB halts the core and *)
(* the debugger prints the string; with no debugger attached the same      *)
(* instruction is a fault, which module Startup takes (BkptFaults).        *)
(* A printed string is an item: what was printed and the number in it.     *)
(***************************************************************************)
EXTENDS Naturals, Sequences

VARIABLES
  attached,  (* A debugger with semihosting enabled is connected.          *)
  out        (* The console since the last reset, a sequence of items.     *)

Item(text, value) == [text |-> text, value |-> value]

(* _semihost_write0() with a debugger to serve it.                         *)
Write0(text, value) ==
  /\ attached
  /\ out' = Append(out, Item(text, value))
=============================================================================
