----------------------------- MODULE MCFirmware -----------------------------
(* Six cells: two of .data, three of .bss (the middle one g_runner), one   *)
(* of heap.  The user's code writes one of each of the first two.          *)
EXTENDS Firmware

MCCell     == 0..7
MCImage    == [a \in 0..1 |-> 4 + a]
MCPreinit  == <<"user">>
MCInit     == <<"user", "runner">>
MCUser     == {1, 2}
MCPowerOn  == {[a \in 0..5 |-> 0], [a \in 0..5 |-> 6]}
=============================================================================
