---- MODULE MCUdivmod ----
EXTENDS Udivmod
MCPow2 == [k \in 0..W |-> 2^k]
====
