CONSTANTS
  DataLen = 2
  BssLen = 3
  RamLen = 6
  Cell <- MCCell
  Image <- MCImage
  PreinitArray <- MCPreinit
  InitArray <- MCInit
  RunnerCell = 3
  BenchRuns = 3
  UserCells <- MCUser
  UserValue = 7
  PowerOnRam <- MCPowerOn
  CounterModulus = 8
  CallCycles = {1, 3}
  MaxResets = 2
SPECIFICATION FairSpec
CHECK_DEADLOCK FALSE
INVARIANTS FirmwareTypeOK CoreClockInSpec RuntimeReady FirmwareInv SessionInv FaultReportNamesCause ResultTruthful
PROPERTIES ClockProtocol StartupWritesInBounds BootProgress SessionKept
