------------------------------- MODULE Bench -------------------------------
(***************************************************************************)
(* main() and AlgoRunner::run() of src/main.cpp with the DWT cycle counter *)
(* of src/clock.c.  A call of algo() takes a number of cycles that the     *)
(* model chooses, loop overhead included, so a run may wrap the counter.   *)
(* What the numbers look like in print is module Report's.                 *)
(***************************************************************************)
EXTENDS Startup

CONSTANTS
  CounterModulus,  (* The counter counts modulo this: 2^32 in the code.    *)
  CallCycles       (* The numbers of cycles one call of algo() may take.   *)

ASSUME CounterAssumption == CounterModulus \in Nat \ {0} /\ CallCycles \subseteq Nat

VARIABLES
  mpc,      (* Next statement of main; "idle" before it is called.         *)
  r,        (* Loop counter of AlgoRunner::run.                            *)
  t1,       (* t1 of main; t0 is the constant 0.                           *)
  trc, ena, (* TRCENA of DEMCR and CYCCNTENA of DWT_CTRL.                  *)
  cnt,      (* DWT_CYCCNT.                                                 *)
  elapsed,  (* History variable: cycles since the measurement began.       *)
  calls     (* History variable: calls of algo() since then.               *)

dwtVars   == <<trc, ena, cnt>>
pastVars  == <<elapsed, calls>>
benchVars == <<mpc, r, t1, dwtVars, pastVars>>

Counter == 0..(CounterModulus - 1)

(* The counter after c cycles of the core, if it is on.                    *)
Ticked(c) == IF trc /\ ena THEN (cnt + c) % CounterModulus ELSE cnt

InMain(point) == At("main") /\ mpc = point

PrintLine(point, next, text, value) ==
  /\ InMain(point)
  /\ Write0(text, value)
  /\ mpc' = next
  /\ UNCHANGED <<r, t1, dwtVars, pastVars, startupVars, clockVars>>
-----------------------------------------------------------------------------
(* The loop over .init_array ends; Reset_Handler calls main.               *)
CallMain ==
  /\ At("init") /\ p > Len(InitArray)
  /\ spc' = "main" /\ mpc' = "start"
  /\ UNCHANGED <<loaderVars, ram, machineVars, faultVars, clockVars, out,
                 r, t1, dwtVars, pastVars>>

PrintStart == PrintLine("start", "wrap", "--- start ---", 0)
PrintWrap  == PrintLine("wrap", "runs", "wrap", CounterModulus)
PrintRuns  == PrintLine("runs", "trace", "runs", ram[RunnerCell])

(* _dwt_init(): TRCENA, the counter to zero, CYCCNTENA.  The DWT ignores   *)
(* writes while TRCENA is clear.                                           *)
EnableTrace ==
  /\ InMain("trace")
  /\ trc' = TRUE
  /\ mpc' = "clear"
  /\ UNCHANGED <<r, t1, ena, cnt, pastVars, startupVars, clockVars, out>>

ClearCounter ==
  /\ InMain("clear")
  /\ cnt' = IF trc THEN 0 ELSE cnt
  /\ mpc' = "enable"
  /\ UNCHANGED <<r, t1, trc, ena, pastVars, startupVars, clockVars, out>>

(* The counter runs from here on; c cycles pass before the next access.    *)
EnableCounter ==
  /\ InMain("enable")
  /\ ena' = (trc \/ ena)
  /\ \E c \in CallCycles : cnt' = IF trc THEN (cnt + c) % CounterModulus ELSE cnt
  /\ mpc' = "zero"
  /\ UNCHANGED <<r, t1, trc, pastVars, startupVars, clockVars, out>>

(* _dwt_zero(), and the call of g_runner.run().                            *)
BeginMeasurement ==
  /\ InMain("zero")
  /\ elapsed' = 0 /\ calls' = 0
  /\ r' = 0
  /\ mpc' = "run"
  /\ UNCHANGED <<t1, trc, ena, startupVars, clockVars, out>>

ZeroCounterNot == BeginMeasurement /\ UNCHANGED cnt
ZeroCounter    == BeginMeasurement /\ cnt' = IF trc THEN 0 ELSE cnt

CallAlgo ==
  /\ InMain("run") /\ r < ram[RunnerCell]
  /\ r' = r + 1
  /\ UserWrites
  /\ \E c \in CallCycles : cnt' = Ticked(c) /\ elapsed' = elapsed + c
  /\ calls' = calls + 1
  /\ UNCHANGED <<mpc, t1, trc, ena, spc, loaderVars, machineVars, faultVars,
                 clockVars, out>>

AlgoTraps ==
  /\ InMain("run") /\ r < ram[RunnerCell]
  /\ UserFault \/ UserInterrupt
  /\ UNCHANGED <<benchVars, spc, loaderVars, ram, machineVars, clockVars, out>>

(* run() returns; t1 = _dwt_cyccnt().                                      *)
ReadCounterAfter(runs) ==
  /\ InMain("run") /\ r >= runs
  /\ t1' = cnt
  /\ mpc' = "dt"
  /\ UNCHANGED <<r, dwtVars, pastVars, startupVars, clockVars, out>>

ReadCounterEarly == ReadCounterAfter(ram[RunnerCell] - 1)
ReadCounter      == ReadCounterAfter(ram[RunnerCell])

PrintDt  == PrintLine("dt", "avg", "dt", t1)
PrintAvg == PrintLine("avg", "return", "avg", t1)

MainReturn ==
  /\ InMain("return")
  /\ spc' = "exit" /\ mpc' = "idle"
  /\ UNCHANGED <<r, t1, dwtVars, pastVars, loaderVars, ram, machineVars,
                 faultVars, clockVars, out>>

(* Without a debugger the first bkpt of main is a HardFault.               *)
PrintFaults == At("main") /\ mpc \in {"start", "wrap", "runs", "dt", "avg"} /\ BkptFaults
-----------------------------------------------------------------------------
(* A debugger leaves TRCENA, and an earlier session CYCCNTENA, as it likes.*)
BenchInit ==
  /\ mpc = "idle" /\ r = 0 /\ t1 = 0
  /\ trc \in BOOLEAN /\ ena \in BOOLEAN
  /\ cnt \in Counter
  /\ elapsed = 0 /\ calls = 0

(* A system reset does not reach the DWT.                                  *)
BenchReset ==
  /\ mpc' = "idle" /\ r' = 0 /\ t1' = 0
  /\ elapsed' = 0 /\ calls' = 0
  /\ UNCHANGED dwtVars

BenchCode ==
  \/ CallMain    \/ PrintStart   \/ PrintWrap     \/ PrintRuns
  \/ EnableTrace \/ ClearCounter \/ EnableCounter \/ ZeroCounter
  \/ CallAlgo    \/ AlgoTraps    \/ ReadCounter
  \/ PrintDt     \/ PrintAvg     \/ MainReturn
  \/ (PrintFaults /\ UNCHANGED benchVars)
=============================================================================
