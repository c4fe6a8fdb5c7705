CONSTANTS
  Char <- MCChar
  Bits <- MCBits
  TickBits = 8
  Policies <- MCPolicies
  N = 6
  SizeModulus = 32
  Calls <- MCCalls
SPECIFICATION FormatSpec
INVARIANT RoundsHalfToEven
CHECK_DEADLOCK FALSE
