CONSTANTS
  AddressSpace = 64
  SHeap = 10
  EStack = 16
  MinStackSize = 2
  MinHeapSize = 4
  ChunkLen = 2
  a = a
  b = b
  Nul = Nul
  Stale = Stale
  Text <- MCText
SPECIFICATION SyscallsSpec
INVARIANTS SyscallsTypeOK BreakBelowStack BlocksApart HeapGuarantee PrintedText
