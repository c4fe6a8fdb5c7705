------------------------------ MODULE Firmware ------------------------------
(***************************************************************************)
(* The whole image on its board: startup, clock bring-up, constructors,    *)
(* benchmark and fault reporting, in the hands of a debugger session and   *)
(* of resets that may come at any step and keep RAM and the DWT.           *)
(***************************************************************************)
EXTENDS Bench

CONSTANT MaxResets  (* Bound of the model on the number of resets.         *)

ASSUME ResetsAssumption == MaxResets \in Nat

VARIABLE resets  (* Resets so far.                                         *)

firmwareVars == <<startupVars, clockVars, benchVars, attached, out, resets>>

FirmwareInit ==
  /\ StartupInit /\ ClockInit /\ BenchInit
  /\ attached \in BOOLEAN
  /\ out = <<>>
  /\ resets = 0

(* The core executes its next instruction, whichever that is.              *)
Code ==
  /\ \/ StartupCode /\ UNCHANGED benchVars
     \/ BenchCode
  /\ UNCHANGED <<attached, resets>>

Hardware(answer) ==
  /\ answer
  /\ UNCHANGED <<startupVars, benchVars, attached, out, resets>>

(* The reset button, or "monitor reset halt" of debug.gdb.                 *)
SystemReset ==
  /\ resets < MaxResets
  /\ StartupReset /\ BenchReset
  /\ out' = <<>>
  /\ resets' = resets + 1
  /\ UNCHANGED attached

(* Someone types "continue" at a breakpoint.                               *)
Resume ==
  /\ ResumeExit \/ ResumeReport
  /\ UNCHANGED <<benchVars, attached, resets>>

FirmwareNext ==
  \/ Code
  \/ Hardware(HwOverdriveReady) \/ Hardware(HwOverdriveSwitched)
  \/ Hardware(HwPllLock)        \/ Hardware(HwSwitchClock)
  \/ SystemReset
  \/ Resume

(* The core does not stop between two instructions, and each part of the   *)
(* hardware the code polls answers in the end.  Nobody has to press reset  *)
(* or to resume the core.                                                  *)
FirmwareFairness ==
  /\ WF_firmwareVars(Code)
  /\ WF_firmwareVars(Hardware(HwOverdriveReady))
  /\ WF_firmwareVars(Hardware(HwOverdriveSwitched))
  /\ WF_firmwareVars(Hardware(HwPllLock))
  /\ WF_firmwareVars(Hardware(HwSwitchClock))

FirmwareSpec == FirmwareInit /\ [][FirmwareNext]_firmwareVars
FairSpec     == FirmwareSpec /\ FirmwareFairness
-----------------------------------------------------------------------------
StartupPoints == {"reset", "copy", "zero", "clock", "preinit", "init", "main",
                  "exit", "halted", "parked"}
MainPoints    == {"idle", "start", "wrap", "runs", "trace", "clear", "enable",
                  "zero", "run", "dt", "avg", "return"}
Exceptions    == FaultName \cup {"none", "HardFault", "Interrupt", "Lockup"}

Texts == {"--- start ---", "wrap", "runs", "dt", "avg", "*** fault:", "***", "HardFault"}
           \cup FaultName

FirmwareTypeOK ==
  /\ ClockTypeOK
  /\ spc \in StartupPoints /\ dst \in 0..RamLen /\ n \in Nat /\ p \in Nat \ {0}
  /\ ram \in [Addr -> Cell]
  /\ fpuOn \in BOOLEAN /\ unmasked \subseteq FaultName
  /\ exc \in Exceptions /\ cause \in FaultName \cup {"none", "HardFault"}
  /\ fpc \in {"none", "head", "name", "tail", "bkpt", "halted", "parked"}
  /\ mpc \in MainPoints /\ r \in Nat /\ t1 \in Counter
  /\ trc \in BOOLEAN /\ ena \in BOOLEAN /\ cnt \in Counter
  /\ elapsed \in Nat /\ calls \in Nat
  /\ attached \in BOOLEAN /\ out \in Seq([text : Texts, value : Nat])
  /\ resets \in 0..MaxResets

(* Constructors and main run in the world they were compiled for: FPU on,  *)
(* each fault with a handler of its own, 180 MHz from the PLL, and RAM as  *)
(* the image says, whatever an earlier boot or the power-up left in it.    *)
(* Only the user's cells and g_runner may have changed since; g_runner     *)
(* holds zero until its constructor ran and kBenchRuns in main.            *)
ImageLoaded ==
  /\ \A a \in DataCells \ UserCells : ram[a] = Image[a]
  /\ \A a \in BssCells \ (UserCells \cup {RunnerCell}) : ram[a] = 0
  /\ spc = "preinit" => ram[RunnerCell] = 0
  /\ spc = "main" => ram[RunnerCell] = BenchRuns

RuntimeReady ==
  spc \in {"preinit", "init", "main"} =>
    fpuOn /\ unmasked = FaultName /\ OnPll /\ CoreMHz = 180 /\ ImageLoaded

(* The inductive invariant behind it.  _memcpy and _memset have written    *)
(* all cells below dst, their counts end at the section's end, and         *)
(* g_runner is set by the constructors called so far.                      *)
Initialised(k) == \A a \in 0..(k-1) : ram[a] = IF a < DataLen THEN Image[a] ELSE 0

LoaderInv ==
  /\ spc = "copy" => dst + n = DataLen /\ Initialised(dst)
  /\ spc = "zero" => dst >= DataLen /\ dst + n = DataLen + BssLen /\ Initialised(dst)
  /\ spc = "clock" => Initialised(DataLen + BssLen)

RunnerBuilt == \E k \in 1..Len(InitArray) : k < p /\ InitArray[k] = "runner"

PhaseInv ==
  /\ spc \in {"reset", "copy", "zero"} => cpc = "idle"
  /\ spc \notin {"reset", "copy", "zero", "clock"} => cpc = "done"
  /\ spc # "reset" => fpuOn
  /\ spc \notin {"reset", "copy", "zero", "clock"} => unmasked = FaultName
  /\ spc = "init" => ram[RunnerCell] = IF RunnerBuilt THEN BenchRuns ELSE 0
  /\ spc \in {"preinit", "init", "main"} => ImageLoaded

FirmwareInv == FirmwareTypeOK /\ ClockInv /\ LoaderInv /\ PhaseInv

(* Between reset and the first constructor no write leaves .data and .bss: *)
(* heap and stack keep what they hold.                                     *)
StartupWritesInBounds ==
  [][(spc \in {"reset", "copy", "zero", "clock"}) =>
       \A a \in Addr \ (DataCells \cup BssCells) : ram'[a] = ram[a]]_firmwareVars

(* A fault report on the console names the fault that happened, although   *)
(* three print calls and an escalation rule lie between the two.           *)
FaultReportNamesCause ==
  Reporting("halted") =>
    /\ exc = cause
    /\ out[Len(out)-2].text = "*** fault:" /\ out[Len(out)-1].text = cause

(* The dt and avg that main prints are the cycles of exactly the printed   *)
(* number of calls, counted at 180 MHz; modulo the counter's wrap, which   *)
(* README.md tells the reader to keep out of reach.                        *)
ResultTruthful ==
  \A k \in 1..Len(out) : out[k].text \in {"dt", "avg"} =>
    /\ out[k].value = elapsed % CounterModulus
    /\ elapsed < CounterModulus => out[k].value = elapsed
    /\ out[2].value = CounterModulus
    /\ out[3].value = calls /\ calls = BenchRuns

(* The inductive invariant behind the console.  What is printed follows    *)
(* from where main and the fault report are, ...                           *)
Ended == spc \in {"exit", "halted", "parked"}

Results ==
  <<Item("--- start ---", 0), Item("wrap", CounterModulus), Item("runs", BenchRuns),
    Item("dt", t1), Item("avg", t1)>>

ResultLines ==
  CASE mpc = "wrap" -> 1
    [] mpc = "runs" -> 2
    [] mpc \in {"trace", "clear", "enable", "zero", "run", "dt"} -> 3
    [] mpc = "avg" -> 4
    [] mpc = "return" \/ Ended -> 5
    [] OTHER -> 0

FaultReport == <<Item("*** fault:", 0), Item(cause, 0), Item("***", 0)>>

ReportLines ==
  CASE fpc = "name" -> 1
    [] fpc = "tail" -> 2
    [] fpc \in {"bkpt", "halted", "parked"} -> 3
    [] OTHER -> 0

ConsoleInv ==
  /\ Len(out) = ResultLines + ReportLines
  /\ \A k \in 1..ResultLines : out[k] = Results[k]
  /\ \A k \in 1..ReportLines : out[ResultLines + k] = FaultReport[k]

(* ... the counter runs along with the calls from _dwt_zero on, and t1     *)
(* keeps its value, ...                                                    *)
MeasureInv ==
  /\ spc = "main" <=> mpc # "idle"
  /\ mpc \in {"clear", "enable", "zero", "run"} => trc
  /\ mpc \in {"zero", "run"} => ena
  /\ mpc = "run" => calls = r /\ r <= BenchRuns /\ cnt = elapsed % CounterModulus
  /\ mpc \in {"dt", "avg", "return"} \/ Ended => calls = BenchRuns /\ t1 = elapsed % CounterModulus
  /\ ~(mpc \in {"run", "dt", "avg", "return"} \/ Ended) => calls = 0

(* ... and user code crashes only where it runs.  With a debugger it does  *)
(* so once, and the exception is the fault itself; without one nothing is  *)
(* ever printed, and fault reports end at their first line.                *)
CrashInv ==
  /\ exc \in {"none", "Interrupt"} => fpc = "none" /\ cause = "none"
  /\ exc # "none" => ResultLines = 0 \/ (mpc = "run" /\ r < BenchRuns)
  /\ attached /\ exc \notin {"none", "Interrupt"} => exc \in FaultName /\ exc = cause
  /\ ~attached => ResultLines = 0 /\ fpc \in {"none", "head"}

SessionInv == ConsoleInv /\ MeasureInv /\ CrashInv

(* Every boot comes to an end that the board shows: the exit breakpoint    *)
(* after all five results, the breakpoint after a fault report, or the     *)
(* silent loop of Default_Handler; lockup only with no debugger attached.  *)
Completed == spc \in {"halted", "parked"} /\ Len(out) = 5
Reported  == Reporting("halted") \/ Reporting("parked")
Outcome   ==
  \/ exc = "Interrupt"
  \/ attached /\ (Completed \/ Reported)
  \/ ~attached /\ exc = "Lockup"

BootProgress == spc = "reset" ~> Outcome

(* The image keeps the promise of module BenchSession: the console shows   *)
(* the results of a complete measurement or the report of a crash.         *)
Session ==
  INSTANCE BenchSession WITH
    Runs <- BenchRuns, Wrap <- CounterModulus,
    Reports <- FaultName \cup {"HardFault"}, Silent <- {"Interrupt", "Lockup"},
    console <- out, done <- calls, crashed <- exc

SessionKept == Session!SessionSpec
=============================================================================
