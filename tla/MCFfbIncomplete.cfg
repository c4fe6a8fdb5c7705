CONSTANTS
  Char <- MCChar
  Bits <- MCBits
  TickBits = 8
  Policies <- MCPolicies
  N = 6
  SizeModulus = 32
  Calls <- MCShortCalls
SPECIFICATION IncompleteSpec
INVARIANT CountsCharactersOnly
CHECK_DEADLOCK FALSE
