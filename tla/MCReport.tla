---- MODULE MCReport ----
EXTENDS Report
MCPow2 == [k \in 0..W |-> 2^k]
(* Half a millisecond is one cycle, so rounding turns at odd counts.  The  *)
(* last counts of a second, and of the counter's 2.048 s, are among them.  *)
MCCycles == {0, 1, 2, 17, 18, 19, 199, 200, 201, 1000, 1997, 1998, 1999,
             2000, 2001, 3999, 4000, 4095, 4096}
MCRuns == {0, 1, 2, 24, 25, 26, 100, 4095}
====
