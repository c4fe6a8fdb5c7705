--------------------------- MODULE FirmwareProofs ---------------------------
(***************************************************************************)
(* Safety of the whole image, for every memory layout, image, constructor  *)
(* table, run count and power-up state that the assumptions allow, and for *)
(* resets at any step.                                                     *)
(***************************************************************************)
EXTENDS Firmware, TLAPS

(* Part 1: clock bring-up.                                                 *)

(* The values after a reset satisfy the invariant, whether reached by      *)
(* power-up or by a reset in the middle of the bring-up.                   *)
LEMMA ResetClockInv == ClockInit => ClockInv
BY DEF ClockInit, ClockInv, ClockTypeOK, ClockPoints, ResetRegs, RegName, OnPll

(* Each statement and each poll of _sysclk_180mhz keeps the invariant.     *)
LEMMA CodeKeepsClockInv == ClockInv /\ ClockCode => ClockInv'
<1> SUFFICES ASSUME ClockInv, ClockCode PROVE ClockInv'
  OBVIOUS
<1> USE DEF ClockInv, ClockTypeOK
<1>0. RegName = {"RCC_CR", "RCC_PLLCFGR", "RCC_CFGR", "RCC_APB1ENR",
                 "PWR_CR", "PWR_CSR", "FLASH_ACR"}
  BY DEF RegName, ResetRegs
<1>1. CASE EnablePower
  BY <1>0, <1>1 DEF EnablePower, Statement, Store, Clocked, StatusBits, ClockPoints, OnPll
<1>2. CASE SetLatency
  BY <1>0, <1>2 DEF SetLatency, Statement, Store, Clocked, StatusBits, ClockPoints, OnPll
<1>3. CASE SetPrescalers
  BY <1>0, <1>3 DEF SetPrescalers, Statement, Store, Clocked, StatusBits, ClockPoints, OnPll
<1>4. CASE ConfigurePll
  BY <1>0, <1>4 DEF ConfigurePll, Statement, Store, Clocked, StatusBits, ClockPoints, OnPll
<1>5. CASE EnableOverdrive
  BY <1>0, <1>5 DEF EnableOverdrive, Statement, Store, Clocked, StatusBits, ClockPoints, OnPll
<1>6. CASE AwaitOverdrive
  BY <1>0, <1>6 DEF AwaitOverdrive, Poll, ClockPoints, OnPll
<1>7. CASE SwitchOverdrive
  BY <1>0, <1>7 DEF SwitchOverdrive, Statement, Store, Clocked, StatusBits, ClockPoints, OnPll
<1>8. CASE AwaitOverdriveSwitch
  BY <1>0, <1>8 DEF AwaitOverdriveSwitch, Poll, ClockPoints, OnPll
<1>9. CASE StartPll
  BY <1>0, <1>9 DEF StartPll, Statement, Store, Clocked, StatusBits, ClockPoints, OnPll
<1>10. CASE AwaitPll
  BY <1>0, <1>10 DEF AwaitPll, Poll, ClockPoints, OnPll
<1>11. CASE SelectPll
  BY <1>0, <1>11 DEF SelectPll, Statement, Store, Clocked, StatusBits, ClockPoints, OnPll
<1>12. CASE AwaitSwitch
  BY <1>0, <1>12 DEF AwaitSwitch, ClockPoints, OnPll
<1> QED
  BY <1>1, <1>2, <1>3, <1>4, <1>5, <1>6, <1>7, <1>8, <1>9, <1>10, <1>11, <1>12 DEF ClockCode

(* So does the call ...                                                    *)
LEMMA CallKeepsClockInv == ClockInv /\ ClockCall => ClockInv'
BY DEF ClockInv, ClockTypeOK, ClockPoints, ClockCall, OnPll

(* ... and every answer of the hardware, whenever it comes.                *)
LEMMA HardwareKeepsClockInv == ClockInv /\ ClockHardware => ClockInv'
<1> SUFFICES ASSUME ClockInv, ClockHardware PROVE ClockInv'
  OBVIOUS
<1> USE DEF ClockInv, ClockTypeOK
<1>1. CASE HwOverdriveReady
  BY <1>1 DEF HwOverdriveReady, Raise, RegName, ResetRegs, OnPll
<1>2. CASE HwOverdriveSwitched
  BY <1>2 DEF HwOverdriveSwitched, Raise, RegName, ResetRegs, OnPll
<1>3. CASE HwPllLock
  BY <1>3 DEF HwPllLock, Raise, RegName, ResetRegs, OnPll
<1>4. CASE HwSwitchClock
  BY <1>4 DEF HwSwitchClock, Raise, RegName, ResetRegs, OnPll
<1> QED
  BY <1>1, <1>2, <1>3, <1>4 DEF ClockHardware

(* On the PLL the core runs at 180 MHz and the flash with 5 wait states.   *)
LEMMA PllIs180MHz == ClockInv /\ OnPll => CoreMHz = 180 /\ WaitStates = 5
<1> SUFFICES ASSUME ClockInv, OnPll PROVE CoreMHz = 180 /\ WaitStates = 5
  OBVIOUS
<1>1. cpc \in {"switched", "done"}
  BY DEF ClockInv, OnPll
<1>2. reg["RCC_PLLCFGR"] = {4, 9, 11, 12, 14, 24, 25, 26} /\ reg["FLASH_ACR"] = {0, 2, 8, 9, 10}
  BY <1>1 DEF ClockInv
<1>3. PllM = 16 /\ PllN = 360 /\ PllP = 2
  BY <1>2 DEF PllM, PllN, PllP, Num3, Bit
<1>4. WaitStates = 5
  BY <1>2 DEF WaitStates, Num3, Bit
<1> QED
  BY <1>3, <1>4 DEF CoreMHz

(* The invariant implies the safety property.                              *)
LEMMA ClockInvInSpec == ClockInv => CoreClockInSpec
<1> SUFFICES ASSUME ClockInv, OnPll
             PROVE  /\ 25 \in reg["RCC_CR"]
                    /\ CoreMHz <= (IF 17 \in reg["PWR_CSR"] THEN 180 ELSE 168)
                    /\ CoreMHz <= 30 * (WaitStates + 1)
  BY DEF CoreClockInSpec
<1>1. cpc \in {"switched", "done"}
  BY DEF ClockInv, OnPll
<1> QED
  BY <1>1, PllIs180MHz DEF ClockInv

(* The order of the statements is what the reference manual of the clock   *)
(* tree asks for: PLL off, over-drive ready, PLL locked.                   *)
LEMMA CodeFollowsProtocol ==
  ASSUME ClockInv, ClockCode
  PROVE  /\ reg'["RCC_PLLCFGR"] # reg["RCC_PLLCFGR"] => 24 \notin reg["RCC_CR"]
         /\ 17 \in reg'["PWR_CR"] \ reg["PWR_CR"] => 16 \in reg["PWR_CSR"]
         /\ 1 \in reg'["RCC_CFGR"] \ reg["RCC_CFGR"] => 25 \in reg["RCC_CR"]
<1> USE DEF ClockInv, ClockTypeOK
<1>0. RegName = {"RCC_CR", "RCC_PLLCFGR", "RCC_CFGR", "RCC_APB1ENR",
                 "PWR_CR", "PWR_CSR", "FLASH_ACR"}
  BY DEF RegName, ResetRegs
<1>1. CASE EnablePower \/ SetLatency
  BY <1>0, <1>1 DEF EnablePower, SetLatency, Statement, Store, Clocked
<1>2. CASE SetPrescalers
  BY <1>0, <1>2 DEF SetPrescalers, Statement, Store, Clocked, StatusBits
<1>3. CASE ConfigurePll
  BY <1>0, <1>3 DEF ConfigurePll, Statement, Store, Clocked
<1>4. CASE EnableOverdrive
  BY <1>0, <1>4 DEF EnableOverdrive, Statement, Store, Clocked, StatusBits
<1>5. CASE SwitchOverdrive
  BY <1>0, <1>5 DEF SwitchOverdrive, Statement, Store, Clocked
<1>6. CASE StartPll
  BY <1>0, <1>6 DEF StartPll, Statement, Store, Clocked
<1>7. CASE SelectPll
  BY <1>0, <1>7 DEF SelectPll, Statement, Store, Clocked
<1>8. CASE AwaitOverdrive \/ AwaitOverdriveSwitch \/ AwaitPll \/ AwaitSwitch
  BY <1>8 DEF AwaitOverdrive, AwaitOverdriveSwitch, AwaitPll, AwaitSwitch, Poll
<1> QED
  BY <1>1, <1>2, <1>3, <1>4, <1>5, <1>6, <1>7, <1>8 DEF ClockCode

(* The hardware sets status bits only.                                     *)
LEMMA HardwareSetsStatus ==
  ASSUME ClockInv, ClockHardware
  PROVE  /\ reg'["RCC_PLLCFGR"] = reg["RCC_PLLCFGR"] /\ reg'["PWR_CR"] = reg["PWR_CR"]
         /\ 1 \in reg'["RCC_CFGR"] => 1 \in reg["RCC_CFGR"]
<1> USE DEF ClockInv, ClockTypeOK, Raise
<1>1. CASE HwOverdriveReady
  BY <1>1 DEF HwOverdriveReady
<1>2. CASE HwOverdriveSwitched
  BY <1>2 DEF HwOverdriveSwitched
<1>3. CASE HwPllLock
  BY <1>3 DEF HwPllLock
<1>4. CASE HwSwitchClock
  BY <1>4 DEF HwSwitchClock, RegName, ResetRegs
<1> QED
  BY <1>1, <1>2, <1>3, <1>4 DEF ClockHardware
-----------------------------------------------------------------------------
LEMMA ClockUnchanged == ClockInv /\ UNCHANGED clockVars => ClockInv'
BY DEF ClockInv, ClockTypeOK, ClockPoints, clockVars, OnPll

(* The state after power-up.                                               *)
LEMMA InitFirmwareInv == FirmwareInit => FirmwareInv
<1> SUFFICES ASSUME FirmwareInit PROVE FirmwareInv
  OBVIOUS
<1> USE LayoutAssumption, CounterAssumption, ResetsAssumption
        DEF FirmwareInit, StartupInit, BenchInit
<1>1. ClockInv
  BY ResetClockInv
<1>2. FirmwareTypeOK
  <2>1. ram \in [Addr -> Cell] /\ dst \in 0..RamLen
    OBVIOUS
  <2>2. ClockTypeOK
    BY <1>1 DEF ClockInv
  <2>3. out \in Seq([text : Texts, value : Nat])
    OBVIOUS
  <2>4. cnt \in Counter /\ t1 \in Counter /\ resets \in 0..MaxResets
    BY DEF Counter
  <2>5. trc \in BOOLEAN /\ ena \in BOOLEAN /\ attached \in BOOLEAN /\ fpuOn \in BOOLEAN
    OBVIOUS
  <2> QED
    BY <2>1, <2>2, <2>3, <2>4, <2>5
       DEF FirmwareTypeOK, StartupPoints, MainPoints, Exceptions
<1>3. LoaderInv /\ PhaseInv
  BY DEF LoaderInv, PhaseInv, ClockInit
<1> QED
  BY <1>1, <1>2, <1>3 DEF FirmwareInv

(* A printed string extends the console by one item.                       *)
LEMMA WriteType ==
  ASSUME out \in Seq([text : Texts, value : Nat]),
         NEW text \in Texts, NEW value \in Nat, Write0(text, value)
  PROVE  out' \in Seq([text : Texts, value : Nat])
<1>1. Item(text, value) \in [text : Texts, value : Nat]
  BY DEF Item
<1>2. out' = Append(out, Item(text, value))
  BY DEF Write0
<1> QED
  BY <1>1, <1>2

(* The cell of g_runner is a cell of RAM and holds a number.               *)
LEMMA RunnerNat == ram \in [Addr -> Cell] => RunnerCell \in Addr /\ ram[RunnerCell] \in Nat
<1>1. RunnerCell \in Addr
  BY LayoutAssumption DEF Addr, BssCells
<1> QED
  BY <1>1, LayoutAssumption

(* Part 2: every step keeps the types.                                     *)
LEMMA StartupKeepsTypes ==
  FirmwareInv /\ StartupCode /\ UNCHANGED <<benchVars, attached, resets>> => FirmwareTypeOK'
<1> SUFFICES ASSUME FirmwareInv, StartupCode, UNCHANGED <<benchVars, attached, resets>>
             PROVE  FirmwareTypeOK'
  OBVIOUS
<1> USE LayoutAssumption, CounterAssumption
<1>0. FirmwareTypeOK /\ ClockInv /\ LoaderInv
  BY DEF FirmwareInv
<1> USE DEF FirmwareTypeOK, benchVars, dwtVars, pastVars, loaderVars, machineVars, faultVars,
            At, Counter
<1>t. UNCHANGED clockVars => ClockTypeOK'
  BY <1>0 DEF clockVars, ClockTypeOK, ClockPoints
<1>1. CASE EnableFpu
  BY <1>0, <1>t, <1>1
     DEF EnableFpu, StartupPoints, Addr
<1>2. CASE CopyCell
  BY <1>0, <1>t, <1>2
     DEF CopyCell, LoaderInv, Addr, DataCells
<1>3. CASE CopyReturn
  BY <1>0, <1>t, <1>3
     DEF CopyReturn, CopyReturnTo, StartupPoints
<1>4. CASE ZeroCell
  BY <1>0, <1>t, <1>4
     DEF ZeroCell, ZeroCellTo, LoaderInv, Addr
<1>5. CASE ZeroReturn
  BY <1>0, <1>t, <1>5
     DEF ZeroReturn, ClockCall, ClockTypeOK, ClockPoints, StartupPoints
<1>6. CASE SysclkStep
  <2>1. ClockInv'
    BY <1>0, <1>6, CodeKeepsClockInv DEF SysclkStep
  <2> QED
    BY <1>0, <1>6, <2>1 DEF SysclkStep, startupVars, ClockInv
<1>7. CASE UnmaskFaults
  BY <1>0, <1>t, <1>7
     DEF UnmaskFaults, Unmask, FaultName, StartupPoints
<1>8. CASE CallPreinit
  BY <1>0, <1>t, <1>8
     DEF CallPreinit, Construct, UserWrites
<1>9. CASE PreinitReturn
  BY <1>0, <1>t, <1>9
     DEF PreinitReturn, StartupPoints
<1>10. CASE CallInit
  BY <1>0, <1>t, <1>10
     DEF CallInit, Construct, UserWrites
<1>11. CASE ExitBreakpoint
  BY <1>0, <1>t, <1>11
     DEF ExitBreakpoint, StartupPoints
<1>12. CASE ConstructorTraps
  BY <1>0, <1>t, <1>12
     DEF ConstructorTraps, UserFault, UserInterrupt, TakeFault, Escalated,
         Exceptions, FaultName
<1>13. CASE ReportHead
  BY <1>0, <1>t, <1>13, WriteType
     DEF ReportHead, Report, Texts, FaultName
<1>14. CASE ReportName
  BY <1>0, <1>t, <1>14, WriteType
     DEF ReportName, Report, Reporting, isr_vector, Exceptions, FaultName, Texts
<1>15. CASE ReportTail
  BY <1>0, <1>t, <1>15, WriteType
     DEF ReportTail, Report, Texts, FaultName
<1>16. CASE ReportHalt
  BY <1>0, <1>t, <1>16
     DEF ReportHalt
<1>17. CASE ReportFaults
  BY <1>0, <1>t, <1>17
     DEF ReportFaults, BkptFaults, TakeFault, Escalated, Exceptions, FaultName
<1> QED
  BY <1>1, <1>2, <1>3, <1>4, <1>5, <1>6, <1>7, <1>8, <1>9, <1>10, <1>11, <1>12, <1>13, <1>14, <1>15, <1>16, <1>17 DEF StartupCode

LEMMA BenchKeepsTypes ==
  FirmwareInv /\ BenchCode /\ UNCHANGED <<attached, resets>> => FirmwareTypeOK'
<1> SUFFICES ASSUME FirmwareInv, BenchCode, UNCHANGED <<attached, resets>>
             PROVE  FirmwareTypeOK'
  OBVIOUS
<1> USE LayoutAssumption, CounterAssumption
<1>0. FirmwareTypeOK
  BY DEF FirmwareInv
<1> USE DEF FirmwareTypeOK, benchVars, dwtVars, pastVars, loaderVars, machineVars, faultVars,
            startupVars, At, InMain, Counter, MainPoints
<1>t. UNCHANGED clockVars => ClockTypeOK'
  BY <1>0 DEF clockVars, ClockTypeOK, ClockPoints
<1>m. ram[RunnerCell] \in Nat
  BY <1>0, RunnerNat
<1>n. \A x \in Nat : x % CounterModulus \in Counter
  OBVIOUS
<1>c. Counter \subseteq Nat /\ CallCycles \subseteq Nat
  OBVIOUS
<1>1. CASE CallMain
  BY <1>0, <1>t, <1>1
     DEF CallMain, StartupPoints
<1>2. CASE PrintStart
  BY <1>0, <1>t, <1>2, WriteType
     DEF PrintStart, PrintLine, Texts, FaultName
<1>3. CASE PrintWrap
  BY <1>0, <1>t, <1>3, WriteType
     DEF PrintWrap, PrintLine, Texts, FaultName
<1>4. CASE PrintRuns
  BY <1>0, <1>t, <1>m, <1>4, WriteType
     DEF PrintRuns, PrintLine, Texts, FaultName
<1>5. CASE EnableTrace
  BY <1>0, <1>t, <1>5
     DEF EnableTrace
<1>6. CASE ClearCounter
  BY <1>0, <1>t, <1>6
     DEF ClearCounter
<1>7. CASE EnableCounter
  <2>1. PICK c \in CallCycles : TRUE /\ (cnt' = (cnt + c) % CounterModulus \/ cnt' = cnt)
    BY <1>7 DEF EnableCounter
  <2>2. cnt + c \in Nat /\ cnt \in Counter
    BY <1>0, <1>c
  <2>3. cnt' \in Counter
    BY <1>n, <2>1, <2>2
  <2> QED
    BY <1>0, <1>t, <1>c, <1>7, <2>1, <2>3
       DEF EnableCounter
<1>8. CASE ZeroCounter
  BY <1>0, <1>t, <1>8
     DEF ZeroCounter, BeginMeasurement
<1>9. CASE CallAlgo
  <2>1. PICK c \in CallCycles : elapsed' = elapsed + c /\ (cnt' = (cnt + c) % CounterModulus \/ cnt' = cnt)
    BY <1>9 DEF CallAlgo, UserWrites, Ticked
  <2>2. cnt + c \in Nat /\ cnt \in Counter
    BY <1>0, <1>c
  <2>3. cnt' \in Counter
    BY <1>n, <2>1, <2>2
  <2> QED
    BY <1>0, <1>t, <1>c, <1>9, <2>1, <2>3
       DEF CallAlgo, UserWrites, Ticked
<1>10. CASE AlgoTraps
  BY <1>0, <1>t, <1>10
     DEF AlgoTraps, UserFault, UserInterrupt, TakeFault, Escalated,
         Exceptions, FaultName
<1>11. CASE ReadCounter
  BY <1>0, <1>t, <1>11
     DEF ReadCounter, ReadCounterAfter
<1>12. CASE PrintDt
  BY <1>0, <1>t, <1>c, <1>12, WriteType
     DEF PrintDt, PrintLine, Texts, FaultName
<1>13. CASE PrintAvg
  BY <1>0, <1>t, <1>c, <1>13, WriteType
     DEF PrintAvg, PrintLine, Texts, FaultName
<1>14. CASE MainReturn
  BY <1>0, <1>t, <1>14
     DEF MainReturn, StartupPoints
<1>15. CASE PrintFaults /\ UNCHANGED benchVars
  BY <1>0, <1>t, <1>15
     DEF PrintFaults, BkptFaults, TakeFault, Escalated, Exceptions, FaultName
<1> QED
  BY <1>1, <1>2, <1>3, <1>4, <1>5, <1>6, <1>7, <1>8, <1>9, <1>10, <1>11, <1>12, <1>13, <1>14, <1>15 DEF BenchCode

(* Part 3: every step keeps what is known of registers and RAM.  Most      *)
(* steps of the image touch neither.                                       *)
LEMMA QuietStep ==
  ASSUME FirmwareInv, UNCHANGED <<spc, loaderVars, ram, machineVars, clockVars>>
  PROVE  ClockInv' /\ LoaderInv' /\ PhaseInv'
<1> USE DEF FirmwareInv, loaderVars, machineVars
<1>1. ClockInv'
  BY ClockUnchanged
<1>2. LoaderInv'
  BY DEF LoaderInv, Initialised
<1>3. PhaseInv'
  BY DEF PhaseInv, ImageLoaded, RunnerBuilt, clockVars
<1> QED
  BY <1>1, <1>2, <1>3

(* User code leaves g_runner and the cells that are not its own alone.     *)
LEMMA UserStep ==
  ASSUME FirmwareTypeOK, UserWrites
  PROVE  \A a \in Addr \ UserCells : ram'[a] = ram[a]
BY DEF FirmwareTypeOK, UserWrites

(* What RAM holds once both loops of startup are through.                  *)
LEMMA SectionsLoaded ==
  ASSUME Initialised(DataLen + BssLen)
  PROVE  /\ \A a \in DataCells : ram[a] = Image[a]
         /\ \A a \in BssCells : ram[a] = 0
<1> USE LayoutAssumption DEF Initialised, DataCells, BssCells
<1>1. ASSUME NEW a \in DataCells PROVE ram[a] = Image[a]
  BY <1>1
<1>2. ASSUME NEW a \in BssCells PROVE ram[a] = 0
  BY <1>2
<1> QED
  BY <1>1, <1>2

LEMMA StartupKeepsRest ==
  FirmwareInv /\ StartupCode => ClockInv' /\ LoaderInv' /\ PhaseInv'
<1> SUFFICES ASSUME FirmwareInv, StartupCode
             PROVE  ClockInv' /\ LoaderInv' /\ PhaseInv'
  OBVIOUS
<1> USE LayoutAssumption
<1>0. FirmwareTypeOK /\ ClockInv /\ LoaderInv /\ PhaseInv
  BY DEF FirmwareInv
<1> USE DEF At
<1>1. CASE EnableFpu
  <2>1. ClockInv'
    BY <1>0, <1>1, ClockUnchanged DEF EnableFpu
  <2> QED
    BY <1>0, <1>1, <2>1 DEF EnableFpu, LoaderInv, PhaseInv, Initialised, clockVars
<1>2. CASE CopyCell
  <2>1. ClockInv'
    BY <1>0, <1>2, ClockUnchanged DEF CopyCell
  <2>2. PhaseInv'
    BY <1>0, <1>2 DEF CopyCell, PhaseInv, machineVars, clockVars
  <2>3. Initialised(dst)'
    BY <1>0, <1>2 DEF CopyCell, LoaderInv, Initialised, FirmwareTypeOK, Addr
  <2> QED
    BY <1>0, <1>2, <2>1, <2>2, <2>3 DEF CopyCell, LoaderInv, FirmwareTypeOK
<1>3. CASE CopyReturn
  <2>1. ClockInv'
    BY <1>0, <1>3, ClockUnchanged DEF CopyReturn, CopyReturnTo
  <2> QED
    BY <1>0, <1>3, <2>1
       DEF CopyReturn, CopyReturnTo, LoaderInv, PhaseInv, Initialised, FirmwareTypeOK,
           machineVars, clockVars
<1>4. CASE ZeroCell
  <2>1. ClockInv'
    BY <1>0, <1>4, ClockUnchanged DEF ZeroCell, ZeroCellTo
  <2>2. PhaseInv'
    BY <1>0, <1>4 DEF ZeroCell, ZeroCellTo, PhaseInv, machineVars, clockVars
  <2>3. Initialised(dst)'
    BY <1>0, <1>4 DEF ZeroCell, ZeroCellTo, LoaderInv, Initialised, FirmwareTypeOK, Addr
  <2> QED
    BY <1>0, <1>4, <2>1, <2>2, <2>3 DEF ZeroCell, ZeroCellTo, LoaderInv, FirmwareTypeOK
<1>5. CASE ZeroReturn
  <2>1. ClockInv'
    BY <1>0, <1>5, CallKeepsClockInv DEF ZeroReturn
  <2> QED
    BY <1>0, <1>5, <2>1
       DEF ZeroReturn, ClockCall, LoaderInv, PhaseInv, Initialised, FirmwareTypeOK,
           loaderVars, machineVars
<1>6. CASE SysclkStep
  <2>1. ClockInv'
    BY <1>0, <1>6, CodeKeepsClockInv DEF SysclkStep
  <2> QED
    BY <1>0, <1>6, <2>1
       DEF SysclkStep, LoaderInv, PhaseInv, Initialised, startupVars, loaderVars, machineVars
<1>7. CASE UnmaskFaults
  <2>1. ClockInv'
    BY <1>0, <1>7, ClockUnchanged DEF UnmaskFaults, Unmask
  <2>2. LoaderInv'
    BY <1>0, <1>7 DEF UnmaskFaults, Unmask, LoaderInv
  <2>3. ImageLoaded' /\ unmasked' = FaultName
    BY <1>0, <1>7, SectionsLoaded
       DEF UnmaskFaults, Unmask, LoaderInv, ImageLoaded, FirmwareTypeOK
  <2> QED
    BY <1>0, <1>7, <2>1, <2>2, <2>3 DEF UnmaskFaults, Unmask, PhaseInv, clockVars
<1>8. CASE CallPreinit
  <2>1. ClockInv'
    BY <1>0, <1>8, ClockUnchanged DEF CallPreinit
  <2>2. UserWrites
    <3>1. p \in 1..Len(PreinitArray)
      BY <1>0, <1>8, TableAssumption DEF CallPreinit, FirmwareTypeOK
    <3>2. PreinitArray[p] = "user"
      BY <3>1, TableAssumption
    <3> QED
      BY <1>8, <3>2 DEF CallPreinit, Construct
  <2>3. ImageLoaded'
    BY <1>0, <1>8, <2>2, UserStep
       DEF CallPreinit, PhaseInv, ImageLoaded, Addr, DataCells, BssCells
  <2> QED
    BY <1>0, <1>8, <2>1, <2>3
       DEF CallPreinit, LoaderInv, PhaseInv, machineVars, clockVars
<1>9. CASE PreinitReturn
  <2>1. ClockInv'
    BY <1>0, <1>9, ClockUnchanged DEF PreinitReturn
  <2>2. ImageLoaded' /\ ~RunnerBuilt'
    BY <1>0, <1>9 DEF PreinitReturn, PhaseInv, ImageLoaded, RunnerBuilt
  <2> QED
    BY <1>0, <1>9, <2>1, <2>2
       DEF PreinitReturn, LoaderInv, PhaseInv, ImageLoaded, machineVars, clockVars
<1>10. CASE CallInit
  <2>1. ClockInv'
    BY <1>0, <1>10, ClockUnchanged DEF CallInit
  <2>2. InitArray[p] \in {"user", "runner"} /\ p \in 1..Len(InitArray)
    BY <1>0, <1>10, TableAssumption DEF CallInit, FirmwareTypeOK
  <2>3. /\ ImageLoaded'
        /\ ram'[RunnerCell] = IF InitArray[p] = "runner" THEN BenchRuns ELSE ram[RunnerCell]
    <3>1. CASE InitArray[p] = "runner"
      BY <1>0, <1>10, <3>1, RunnerNat
         DEF CallInit, Construct, PhaseInv, ImageLoaded, FirmwareTypeOK, Addr, DataCells, BssCells
    <3>2. CASE InitArray[p] = "user"
      <4>1. UserWrites
        BY <1>10, <3>2 DEF CallInit, Construct
      <4> QED
        BY <1>0, <1>10, <3>2, <4>1, UserStep
           DEF CallInit, PhaseInv, ImageLoaded, Addr, DataCells, BssCells
    <3> QED
      BY <2>2, <3>1, <3>2
  <2>4. RunnerBuilt' <=> RunnerBuilt \/ InitArray[p] = "runner"
    <3>1. \A k \in 1..Len(InitArray) : k < p + 1 <=> k < p \/ k = p
      BY <2>2
    <3> QED
      BY <1>10, <2>2, <3>1 DEF CallInit, RunnerBuilt
  <2> QED
    BY <1>0, <1>10, <2>1, <2>3, <2>4
       DEF CallInit, LoaderInv, PhaseInv, machineVars, clockVars
<1>11. CASE ExitBreakpoint
  <2>1. ClockInv'
    BY <1>0, <1>11, ClockUnchanged DEF ExitBreakpoint
  <2> QED
    BY <1>0, <1>11, <2>1 DEF ExitBreakpoint, LoaderInv, PhaseInv, machineVars, clockVars
<1>12. CASE ConstructorTraps
  BY <1>12, QuietStep DEF ConstructorTraps
<1>13. CASE ReportHead \/ ReportName \/ ReportTail \/ ReportHalt
  BY <1>13, QuietStep DEF ReportHead, ReportName, ReportTail, ReportHalt, Report
<1>14. CASE ReportFaults
  BY <1>14, QuietStep DEF ReportFaults, BkptFaults
<1> QED
  BY <1>1, <1>2, <1>3, <1>4, <1>5, <1>6, <1>7, <1>8, <1>9, <1>10, <1>11, <1>12, <1>13,
     <1>14 DEF StartupCode

LEMMA BenchKeepsRest ==
  FirmwareInv /\ BenchCode => ClockInv' /\ LoaderInv' /\ PhaseInv'
<1> SUFFICES ASSUME FirmwareInv, BenchCode
             PROVE  ClockInv' /\ LoaderInv' /\ PhaseInv'
  OBVIOUS
<1>0. FirmwareTypeOK /\ ClockInv /\ LoaderInv /\ PhaseInv
  BY DEF FirmwareInv
<1> USE DEF At, InMain
<1>1. CASE CallMain
  <2>1. ClockInv'
    BY <1>0, <1>1, ClockUnchanged DEF CallMain
  <2>2. RunnerBuilt
    BY <1>1, TableAssumption DEF CallMain, RunnerBuilt, FirmwareTypeOK, FirmwareInv
  <2> QED
    BY <1>0, <1>1, <2>1, <2>2
       DEF CallMain, LoaderInv, PhaseInv, ImageLoaded, machineVars, clockVars
<1>2. CASE CallAlgo
  <2>1. ClockInv'
    BY <1>0, <1>2, ClockUnchanged DEF CallAlgo
  <2>2. ImageLoaded'
    BY <1>0, <1>2, UserStep, LayoutAssumption
       DEF CallAlgo, PhaseInv, ImageLoaded, Addr, DataCells, BssCells
  <2> QED
    BY <1>0, <1>2, <2>1, <2>2
       DEF CallAlgo, LoaderInv, PhaseInv, machineVars, clockVars
<1>3. CASE MainReturn
  <2>1. ClockInv'
    BY <1>0, <1>3, ClockUnchanged DEF MainReturn
  <2> QED
    BY <1>0, <1>3, <2>1 DEF MainReturn, LoaderInv, PhaseInv, machineVars, clockVars
<1>4. CASE PrintStart \/ PrintWrap \/ PrintRuns \/ PrintDt \/ PrintAvg
  BY <1>4, QuietStep
     DEF PrintStart, PrintWrap, PrintRuns, PrintDt, PrintAvg, PrintLine, startupVars
<1>5. CASE EnableTrace \/ ClearCounter \/ EnableCounter \/ ZeroCounter \/ ReadCounter
  BY <1>5, QuietStep
     DEF EnableTrace, ClearCounter, EnableCounter, ZeroCounter, BeginMeasurement,
         ReadCounter, ReadCounterAfter, startupVars
<1>6. CASE AlgoTraps
  BY <1>6, QuietStep DEF AlgoTraps
<1>7. CASE PrintFaults
  BY <1>7, QuietStep DEF PrintFaults, BkptFaults
<1> QED
  BY <1>1, <1>2, <1>3, <1>4, <1>5, <1>6, <1>7 DEF BenchCode

(* Part 4: the steps that are not the core's own.                          *)
LEMMA HardwareKeepsInv ==
  ASSUME FirmwareInv, ClockHardware,
         UNCHANGED <<startupVars, benchVars, attached, out, resets>>
  PROVE  FirmwareInv'
<1> USE DEF startupVars, loaderVars, machineVars, faultVars, benchVars, dwtVars, pastVars
<1>1. ClockInv'
  BY HardwareKeepsClockInv DEF FirmwareInv
<1>2. cpc' = cpc
  BY DEF ClockHardware, HwOverdriveReady, HwOverdriveSwitched, HwPllLock, HwSwitchClock, Raise
<1>3. FirmwareTypeOK'
  BY <1>1 DEF FirmwareInv, FirmwareTypeOK, ClockInv
<1>4. LoaderInv' /\ PhaseInv'
  BY <1>2 DEF FirmwareInv, LoaderInv, Initialised, PhaseInv, ImageLoaded, RunnerBuilt
<1> QED
  BY <1>1, <1>3, <1>4 DEF FirmwareInv

LEMMA ResetKeepsInv == FirmwareInv /\ SystemReset => FirmwareInv'
<1> SUFFICES ASSUME FirmwareInv, SystemReset PROVE FirmwareInv'
  OBVIOUS
<1> USE LayoutAssumption, CounterAssumption, ResetsAssumption
        DEF SystemReset, StartupReset, BenchReset
<1>1. ClockInv'
  BY DEF ClockInv, ClockTypeOK, ClockPoints, ResetRegs, RegName, OnPll
<1>2. FirmwareTypeOK'
  <2>1. FirmwareTypeOK /\ ClockTypeOK'
    BY <1>1 DEF FirmwareInv, ClockInv
  <2>2. dst' \in 0..RamLen /\ t1' \in Counter /\ resets' \in 0..MaxResets
    BY <2>1 DEF FirmwareTypeOK, Counter
  <2>3. /\ trc' \in BOOLEAN /\ ena' \in BOOLEAN /\ attached' \in BOOLEAN
        /\ fpuOn' \in BOOLEAN /\ cnt' \in Counter
    BY <2>1 DEF FirmwareTypeOK, dwtVars
  <2>4. out' \in Seq([text : Texts, value : Nat]) /\ ram' \in [Addr -> Cell]
    BY <2>1 DEF FirmwareTypeOK
  <2> QED
    BY <2>1, <2>2, <2>3, <2>4
       DEF FirmwareTypeOK, StartupPoints, MainPoints, Exceptions
<1>3. LoaderInv' /\ PhaseInv'
  BY DEF LoaderInv, PhaseInv
<1> QED
  BY <1>1, <1>2, <1>3 DEF FirmwareInv

LEMMA ResumeKeepsInv == FirmwareInv /\ Resume => FirmwareInv'
<1> SUFFICES ASSUME FirmwareInv, Resume PROVE FirmwareInv'
  OBVIOUS
<1> USE DEF Resume, ResumeExit, ResumeReport, At, loaderVars, machineVars, faultVars,
            benchVars, dwtVars, pastVars
<1>1. ClockInv'
  BY ClockUnchanged DEF FirmwareInv
<1>2. FirmwareTypeOK'
  BY <1>1 DEF FirmwareInv, FirmwareTypeOK, ClockInv, StartupPoints
<1>3. LoaderInv' /\ PhaseInv'
  BY DEF FirmwareInv, LoaderInv, Initialised, PhaseInv, ImageLoaded, RunnerBuilt, clockVars
<1> QED
  BY <1>1, <1>2, <1>3 DEF FirmwareInv

LEMMA StutterKeepsInv == FirmwareInv /\ UNCHANGED firmwareVars => FirmwareInv'
<1> SUFFICES ASSUME FirmwareInv, UNCHANGED firmwareVars PROVE FirmwareInv'
  OBVIOUS
<1> USE DEF firmwareVars, startupVars, loaderVars, machineVars, faultVars,
            benchVars, dwtVars, pastVars
<1>1. ClockInv' /\ LoaderInv' /\ PhaseInv'
  BY QuietStep
<1>2. FirmwareTypeOK'
  BY <1>1 DEF FirmwareInv, FirmwareTypeOK, ClockInv
<1> QED
  BY <1>1, <1>2 DEF FirmwareInv
-----------------------------------------------------------------------------
(* The inductive invariant holds of every reachable state, resets and      *)
(* faults at any step included.                                            *)
THEOREM FirmwareInvariant == FirmwareSpec => []FirmwareInv
<1>1. FirmwareInv /\ [FirmwareNext]_firmwareVars => FirmwareInv'
  <2> SUFFICES ASSUME FirmwareInv, [FirmwareNext]_firmwareVars PROVE FirmwareInv'
    OBVIOUS
  <2>1. CASE StartupCode /\ UNCHANGED <<benchVars, attached, resets>>
    BY <2>1, StartupKeepsTypes, StartupKeepsRest DEF FirmwareInv
  <2>2. CASE BenchCode /\ UNCHANGED <<attached, resets>>
    BY <2>2, BenchKeepsTypes, BenchKeepsRest DEF FirmwareInv
  <2>3. CASE /\ ClockHardware
             /\ UNCHANGED <<startupVars, benchVars, attached, out, resets>>
    BY <2>3, HardwareKeepsInv
  <2>4. CASE SystemReset
    BY <2>4, ResetKeepsInv
  <2>5. CASE Resume
    BY <2>5, ResumeKeepsInv
  <2>6. CASE UNCHANGED firmwareVars
    BY <2>6, StutterKeepsInv
  <2> QED
    BY <2>1, <2>2, <2>3, <2>4, <2>5, <2>6 DEF FirmwareNext, Code, Hardware, ClockHardware
<1> QED
  BY InitFirmwareInv, <1>1, PTL DEF FirmwareSpec

(* Type correctness of the whole image.                                    *)
THEOREM FirmwareTypes == FirmwareSpec => []FirmwareTypeOK
<1>1. FirmwareInv => FirmwareTypeOK
  BY DEF FirmwareInv
<1> QED
  BY <1>1, FirmwareInvariant, PTL

(* The core never runs from a clock outside its specification.             *)
THEOREM FirmwareClockInSpec == FirmwareSpec => []CoreClockInSpec
<1>1. FirmwareInv => CoreClockInSpec
  BY ClockInvInSpec DEF FirmwareInv
<1> QED
  BY <1>1, FirmwareInvariant, PTL

(* Constructors and main only run with FPU, fault handlers, clock and RAM  *)
(* as they need them, whatever the previous boot left behind.              *)
THEOREM FirmwareRuntimeReady == FirmwareSpec => []RuntimeReady
<1>1. FirmwareInv => RuntimeReady
  <2> SUFFICES ASSUME FirmwareInv, spc \in {"preinit", "init", "main"}
               PROVE  fpuOn /\ unmasked = FaultName /\ OnPll /\ CoreMHz = 180 /\ ImageLoaded
    BY DEF RuntimeReady
  <2>1. fpuOn /\ unmasked = FaultName /\ ImageLoaded /\ cpc = "done"
    BY DEF FirmwareInv, PhaseInv
  <2>2. OnPll
    BY <2>1 DEF FirmwareInv, ClockInv
  <2> QED
    BY <2>1, <2>2, PllIs180MHz DEF FirmwareInv
<1> QED
  BY <1>1, FirmwareInvariant, PTL

(* Startup leaves heap and stack as it finds them.                         *)
THEOREM FirmwareStartupWritesInBounds == FirmwareSpec => StartupWritesInBounds
<1> DEFINE InBounds ==
      spc \in {"reset", "copy", "zero", "clock"} =>
        \A a \in Addr \ (DataCells \cup BssCells) : ram'[a] = ram[a]
<1>1. FirmwareInv /\ [FirmwareNext]_firmwareVars => InBounds
  <2> SUFFICES ASSUME FirmwareInv, [FirmwareNext]_firmwareVars,
                      spc \in {"reset", "copy", "zero", "clock"},
                      NEW a \in Addr \ (DataCells \cup BssCells)
               PROVE  ram'[a] = ram[a]
    OBVIOUS
  <2> USE LayoutAssumption
  <2>1. CASE CopyCell
    <3>1. dst \in DataCells
      BY <2>1 DEF CopyCell, At, FirmwareInv, LoaderInv, FirmwareTypeOK, DataCells
    <3> QED
      BY <2>1, <3>1 DEF CopyCell, FirmwareInv, FirmwareTypeOK
  <2>2. CASE ZeroCell
    <3>1. dst \in BssCells
      BY <2>2 DEF ZeroCell, ZeroCellTo, At, FirmwareInv, LoaderInv, FirmwareTypeOK, BssCells
    <3> QED
      BY <2>2, <3>1 DEF ZeroCell, ZeroCellTo, FirmwareInv, FirmwareTypeOK
  <2>3. CASE StartupCode /\ ~CopyCell /\ ~ZeroCell
    BY <2>3
       DEF StartupCode, EnableFpu, CopyReturn, CopyReturnTo, ZeroReturn, SysclkStep,
           UnmaskFaults, Unmask, CallPreinit, PreinitReturn, CallInit, ExitBreakpoint,
           ConstructorTraps, ReportHead, ReportName, ReportTail, Report, ReportHalt,
           ReportFaults, BkptFaults, startupVars, At
  <2>4. CASE BenchCode
    BY <2>4
       DEF BenchCode, CallMain, PrintStart, PrintWrap, PrintRuns, EnableTrace, ClearCounter,
           EnableCounter, ZeroCounter, BeginMeasurement, CallAlgo, AlgoTraps, ReadCounter,
           ReadCounterAfter, PrintDt, PrintAvg, MainReturn, PrintFaults, BkptFaults, PrintLine,
           InMain, At, startupVars
  <2>5. CASE UNCHANGED startupVars
    BY <2>5 DEF startupVars
  <2>6. CASE SystemReset \/ Resume
    BY <2>6 DEF SystemReset, StartupReset, Resume, ResumeExit, ResumeReport
  <2>7. CASE UNCHANGED firmwareVars
    BY <2>7 DEF firmwareVars, startupVars
  <2> QED
    BY <2>1, <2>2, <2>3, <2>4, <2>5, <2>6, <2>7 DEF FirmwareNext, Code, Hardware
<1>2. FirmwareSpec => [][InBounds]_firmwareVars
  BY <1>1, FirmwareInvariant, PTL DEF FirmwareSpec
<1> QED
  BY <1>2 DEF StartupWritesInBounds

(* No step reprograms a running PLL, switches the regulator too early or   *)
(* selects a PLL that has not locked, except a reset.                      *)
THEOREM FirmwareClockProtocol == FirmwareSpec => ClockProtocol
<1> DEFINE Protocol ==
      cpc' # "idle" =>
        /\ reg'["RCC_PLLCFGR"] # reg["RCC_PLLCFGR"] => 24 \notin reg["RCC_CR"]
        /\ 17 \in reg'["PWR_CR"] \ reg["PWR_CR"] => 16 \in reg["PWR_CSR"]
        /\ 1 \in reg'["RCC_CFGR"] \ reg["RCC_CFGR"] => 25 \in reg["RCC_CR"]
<1>1. FirmwareInv /\ [FirmwareNext]_firmwareVars => [Protocol]_clockVars
  <2> SUFFICES ASSUME FirmwareInv, [FirmwareNext]_firmwareVars
               PROVE  Protocol \/ UNCHANGED clockVars
    OBVIOUS
  <2>0. ClockInv
    BY DEF FirmwareInv
  <2>1. CASE ClockCode
    BY <2>0, <2>1, CodeFollowsProtocol
  <2>2. CASE ClockHardware
    BY <2>0, <2>2, HardwareSetsStatus
  <2>3. CASE ClockCall
    BY <2>3 DEF ClockCall
  <2>4. CASE StartupCode /\ ~SysclkStep /\ ~ZeroReturn
    BY <2>4
       DEF StartupCode, EnableFpu, CopyCell, CopyReturn, CopyReturnTo, ZeroCell, ZeroCellTo,
           UnmaskFaults, Unmask, CallPreinit, PreinitReturn, CallInit, ExitBreakpoint,
           ConstructorTraps, ReportHead, ReportName, ReportTail, Report, ReportHalt,
           ReportFaults, BkptFaults
  <2>5. CASE BenchCode
    BY <2>5
       DEF BenchCode, CallMain, PrintStart, PrintWrap, PrintRuns, EnableTrace, ClearCounter,
           EnableCounter, ZeroCounter, BeginMeasurement, CallAlgo, AlgoTraps, ReadCounter,
           ReadCounterAfter, PrintDt, PrintAvg, MainReturn, PrintFaults, BkptFaults, PrintLine
  <2>6. CASE SystemReset
    BY <2>6 DEF SystemReset, StartupReset
  <2>7. CASE Resume
    BY <2>7 DEF Resume, ResumeExit, ResumeReport
  <2>8. CASE UNCHANGED firmwareVars
    BY <2>8 DEF firmwareVars
  <2> QED
    BY <2>1, <2>2, <2>3, <2>4, <2>5, <2>6, <2>7, <2>8
       DEF FirmwareNext, Code, Hardware, ClockHardware, SysclkStep, ZeroReturn
<1> QED
  BY <1>1, FirmwareInvariant, PTL DEF FirmwareSpec, ClockProtocol
=============================================================================
