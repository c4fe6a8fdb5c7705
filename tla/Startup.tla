------------------------------ MODULE Startup ------------------------------
(***************************************************************************)
(* src/startup.c: Reset_Handler, the fault handlers and Default_Handler,   *)
(* over the RAM that linker/stm32f446re.ld lays out.  RAM is a row of      *)
(* cells (bytes in the code): .data, .bss, then the heap and stack that    *)
(* startup leaves alone.  The call of _sysclk_180mhz is module Clock's,    *)
(* the call of main is module Bench's.                                     *)
(***************************************************************************)
EXTENDS Clock, Semihost

CONSTANTS
  DataLen, BssLen,  (* _edata - _sdata and _ebss - _sbss, with _sdata = 0. *)
  RamLen,           (* The whole RAM.                                      *)
  Cell,             (* The values of a cell.                               *)
  Image,            (* The initial values of .data, in flash at _sidata.   *)
  PreinitArray,     (* The functions of .preinit_array, ...                *)
  InitArray,        (* ... and of .init_array, in link order.              *)
  RunnerCell,       (* g_runner.m_runs, which lies in .bss, and ...        *)
  BenchRuns,        (* ... kBenchRuns, what its constructor stores there.  *)
  UserCells,        (* Cells the user's own code may write, and ...        *)
  UserValue,        (* ... what it writes.                                 *)
  PowerOnRam        (* Contents RAM may have when power comes up.          *)

Addr      == 0..(RamLen - 1)
DataCells == 0..(DataLen - 1)
BssCells  == DataLen..(DataLen + BssLen - 1)

ASSUME LayoutAssumption ==
  /\ DataLen \in Nat /\ BssLen \in Nat /\ RamLen \in Nat
  /\ DataLen + BssLen <= RamLen
  /\ Cell \subseteq Nat /\ 0 \in Cell /\ Image \in [DataCells -> Cell]
  /\ RunnerCell \in BssCells /\ BenchRuns \in Cell
  /\ UserCells \subseteq Addr \ {RunnerCell} /\ UserValue \in Cell
  /\ PowerOnRam \subseteq [Addr -> Cell]

(* A constructor table lists user constructors and the one of g_runner,    *)
(* AlgoRunner's, which the linker puts in .init_array.                     *)
ASSUME TableAssumption ==
  /\ PreinitArray \in Seq({"user"}) /\ InitArray \in Seq({"user", "runner"})
  /\ \E k \in 1..Len(InitArray) : InitArray[k] = "runner"

VARIABLES
  spc,       (* Next statement of Reset_Handler.                           *)
  dst, n,    (* d and n of _memcpy and _memset.                            *)
  p,         (* Index of the next constructor.                             *)
  ram,
  fpuOn,     (* CP10 and CP11 are accessible.                              *)
  unmasked,  (* Faults with a handler of their own (SCB_SHCSR).            *)
  exc,       (* The exception being handled, or "none".                    *)
  fpc,       (* Next statement of _fault_report.                           *)
  cause      (* History variable: the fault first taken since the reset.   *)

faultVars   == <<exc, fpc, cause>>
loaderVars  == <<dst, n, p>>
machineVars == <<fpuOn, unmasked>>
startupVars == <<spc, loaderVars, ram, machineVars, faultVars>>

FaultName == {"MemManage", "BusFault", "UsageFault"}
-----------------------------------------------------------------------------
(* Reset_Handler.  Its steps are taken while no exception is active.       *)
At(point) == spc = point /\ exc = "none"

EnableFpu ==
  /\ At("reset")
  /\ fpuOn' = TRUE
  /\ spc' = "copy" /\ dst' = 0 /\ n' = DataLen
  /\ UNCHANGED <<p, ram, unmasked, faultVars, clockVars, out>>

(* One turn of the loop of _memcpy.  s advances with d, so the cell read   *)
(* is the one of the image at the same distance.                           *)
CopyCell ==
  /\ At("copy") /\ n > 0
  /\ ram' = [ram EXCEPT ![dst] = Image[dst]]
  /\ dst' = dst + 1 /\ n' = n - 1
  /\ UNCHANGED <<spc, p, machineVars, faultVars, clockVars, out>>

CopyReturnTo(count) ==
  /\ At("copy") /\ n = 0
  /\ spc' = "zero" /\ dst' = DataLen /\ n' = count
  /\ UNCHANGED <<p, ram, machineVars, faultVars, clockVars, out>>

CopyReturnShort == CopyReturnTo(BssLen - 1)
CopyReturnLong  == CopyReturnTo(BssLen + 1)
CopyReturn      == CopyReturnTo(BssLen)

(* One turn of the loop of _memset, taken while n is above last.           *)
ZeroCellTo(last) ==
  /\ At("zero") /\ n > last
  /\ ram' = [ram EXCEPT ![dst] = 0]
  /\ dst' = dst + 1 /\ n' = n - 1
  /\ UNCHANGED <<spc, p, machineVars, faultVars, clockVars, out>>

ZeroCellMore == ZeroCellTo(-1)
ZeroCell     == ZeroCellTo(0)

ZeroReturn ==
  /\ At("zero") /\ n = 0
  /\ spc' = "clock"
  /\ ClockCall
  /\ UNCHANGED <<loaderVars, ram, machineVars, faultVars, out>>

SysclkStep ==
  /\ At("clock")
  /\ ClockCode
  /\ UNCHANGED <<startupVars, out>>

(* Returns from _sysclk_180mhz and unmasks the three faults.               *)
Unmask(faults) ==
  /\ At("clock") /\ cpc = "done"
  /\ unmasked' = unmasked \cup faults
  /\ spc' = "preinit" /\ p' = 1
  /\ UNCHANGED <<dst, n, ram, fpuOn, faultVars, clockVars, out>>

UnmaskTwo    == Unmask({"MemManage", "BusFault"})
UnmaskFaults == Unmask(FaultName)

UserWrites ==
  \/ UNCHANGED ram
  \/ \E a \in UserCells : ram' = [ram EXCEPT ![a] = UserValue]

Construct(entry) ==
  IF entry = "runner" THEN ram' = [ram EXCEPT ![RunnerCell] = BenchRuns] ELSE UserWrites

CallPreinit ==
  /\ At("preinit") /\ p <= Len(PreinitArray)
  /\ Construct(PreinitArray[p])
  /\ p' = p + 1
  /\ UNCHANGED <<spc, dst, n, machineVars, faultVars, clockVars, out>>

PreinitReturn ==
  /\ At("preinit") /\ p > Len(PreinitArray)
  /\ spc' = "init" /\ p' = 1
  /\ UNCHANGED <<dst, n, ram, machineVars, faultVars, clockVars, out>>

CallInit ==
  /\ At("init") /\ p <= Len(InitArray)
  /\ Construct(InitArray[p])
  /\ p' = p + 1
  /\ UNCHANGED <<spc, dst, n, machineVars, faultVars, clockVars, out>>

(* The bkpt #0 of _exit_breakpoint, with a debugger to halt the core.      *)
ExitBreakpoint ==
  /\ At("exit") /\ attached
  /\ spc' = "halted"
  /\ UNCHANGED <<loaderVars, ram, machineVars, faultVars, clockVars, out>>

(* The debugger resumes: while (1) at the end of Reset_Handler.            *)
ResumeExit ==
  /\ At("halted")
  /\ spc' = "parked"
  /\ UNCHANGED <<loaderVars, ram, machineVars, faultVars, clockVars, out>>
-----------------------------------------------------------------------------
(* Exceptions.  A fault that is masked is taken as HardFault.              *)
Escalated(f) == IF f \in FaultName \ unmasked THEN "HardFault" ELSE f

TakeFault(f) ==
  /\ exc' = Escalated(f)
  /\ fpc' = "head"
  /\ cause' = IF cause = "none" THEN f ELSE cause

(* User code, in a constructor or in algo(), faults ...                    *)
UserFault == \E f \in FaultName : TakeFault(f)

(* ... or unmasks an interrupt, whose weak alias is Default_Handler: the   *)
(* core stays in while (1) {}.                                             *)
UserInterrupt ==
  exc' = "Interrupt" /\ UNCHANGED <<fpc, cause>>

InUserConstructor ==
  \/ At("preinit") /\ p <= Len(PreinitArray) /\ PreinitArray[p] = "user"
  \/ At("init") /\ p <= Len(InitArray) /\ InitArray[p] = "user"

ConstructorTraps ==
  /\ InUserConstructor
  /\ UserFault \/ UserInterrupt
  /\ UNCHANGED <<spc, loaderVars, ram, machineVars, clockVars, out>>

(* The handlers of the vector table: those of the four faults call         *)
(* _fault_report with their own name, all others are Default_Handler.      *)
isr_vector ==
  [e \in FaultName \cup {"HardFault", "Interrupt"} |->
     IF e = "Interrupt" THEN "Default_Handler" ELSE "_fault_report"]

Reporting(point) ==
  /\ exc \in DOMAIN isr_vector /\ isr_vector[exc] = "_fault_report"
  /\ fpc = point

Report(point, next, text) ==
  /\ Reporting(point)
  /\ Write0(text, 0)
  /\ fpc' = next
  /\ UNCHANGED <<spc, loaderVars, ram, machineVars, exc, cause, clockVars>>

ReportHead == Report("head", "name", "*** fault:")
ReportName == Report("name", "tail", exc)
ReportTail == Report("tail", "bkpt", "***")

ReportHalt ==
  /\ Reporting("bkpt") /\ attached
  /\ fpc' = "halted"
  /\ UNCHANGED <<spc, loaderVars, ram, machineVars, exc, cause, clockVars, out>>

ResumeReport ==
  /\ Reporting("halted")
  /\ fpc' = "parked"
  /\ UNCHANGED <<spc, loaderVars, ram, machineVars, exc, cause, clockVars, out>>

(* A bkpt with no debugger is a fault that only HardFault can take; inside *)
(* HardFault it locks the core up.                                         *)
BkptFaults ==
  /\ ~attached
  /\ IF exc = "HardFault" THEN exc' = "Lockup" /\ UNCHANGED <<fpc, cause>>
                          ELSE TakeFault("HardFault")
  /\ UNCHANGED <<spc, loaderVars, ram, machineVars, clockVars, out>>

ReportFaults == fpc \in {"head", "name", "tail", "bkpt"} /\ Reporting(fpc) /\ BkptFaults
-----------------------------------------------------------------------------
StartupInit ==
  /\ spc = "reset"
  /\ dst = 0 /\ n = 0 /\ p = 1
  /\ ram \in PowerOnRam
  /\ fpuOn = FALSE /\ unmasked = {}
  /\ exc = "none" /\ fpc = "none" /\ cause = "none"

(* A system reset restarts the core and clears its registers, the clock    *)
(* tree among them, but RAM keeps its contents.                            *)
StartupReset ==
  /\ spc' = "reset"
  /\ dst' = 0 /\ n' = 0 /\ p' = 1
  /\ fpuOn' = FALSE /\ unmasked' = {}
  /\ exc' = "none" /\ fpc' = "none" /\ cause' = "none"
  /\ cpc' = "idle" /\ reg' = ResetRegs
  /\ UNCHANGED ram

StartupCode ==
  \/ EnableFpu     \/ CopyCell   \/ CopyReturn \/ ZeroCell       \/ ZeroReturn
  \/ SysclkStep    \/ UnmaskFaults
  \/ CallPreinit   \/ PreinitReturn \/ CallInit \/ ExitBreakpoint
  \/ ConstructorTraps
  \/ ReportHead    \/ ReportName \/ ReportTail \/ ReportHalt     \/ ReportFaults
=============================================================================
