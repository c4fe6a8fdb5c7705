---- MODULE MCWriteUint ----
EXTENDS WriteUint
MCPow10 == [k \in 0..BufLen |-> 10^k]
====
