CONSTANTS
  BufLen = 4
  Pow10 <- MCPow10
  MaxValue = 429
SPECIFICATION UintSpec
INVARIANTS UintTypeOK StoreInBuffer PrintsNumeral UintInv
