CONSTANTS
  W = 5
  Pow2 <- MCPow2
SPECIFICATION UdivSpec
INVARIANTS UdivTypeOK DivideCorrect NoBitLost DivInv
