CONSTANTS
  W = 28
  Pow2 <- MCPow2
  Word32Bits = 12
  CpuFreq = 2000
  Nano = 50000
  CycleCounts <- MCCycles
  RunCounts <- MCRuns
SPECIFICATION ReportSpec
INVARIANT ThreeDigitMillis
