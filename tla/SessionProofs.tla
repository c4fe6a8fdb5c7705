---------------------------- MODULE SessionProofs ----------------------------
(***************************************************************************)
(* What the console shows, for every image, run count, counter width and   *)
(* call cost: reports name their cause, results are those of the whole     *)
(* measurement, and the image implements BenchSession.  All of it rests on *)
(* SessionInv, which is inductive together with FirmwareInv.               *)
(***************************************************************************)
EXTENDS FirmwareProofs, NumberFacts, SequenceTheorems

Lines == [text : Texts, value : Nat]

-----------------------------------------------------------------------------
(* Part 1: the console.                                                    *)
LEMMA LineCounts ==
  /\ ResultLines \in 0..5 /\ ReportLines \in 0..3
  /\ DOMAIN Results = 1..5 /\ DOMAIN FaultReport = 1..3
<1>1. ResultLines \in 0..5
  BY DEF ResultLines
<1>2. ReportLines \in 0..3
  BY DEF ReportLines
<1>3. DOMAIN Results = 1..5 /\ DOMAIN FaultReport = 1..3
  BY DEF Results, FaultReport
<1> QED
  BY <1>1, <1>2, <1>3

LEMMA ResultTexts ==
  /\ Results[1].text = "--- start ---"
  /\ Results[2].text = "wrap" /\ Results[2].value = CounterModulus
  /\ Results[3].text = "runs" /\ Results[3].value = BenchRuns
  /\ Results[4].text = "dt"   /\ Results[4].value = t1
  /\ Results[5].text = "avg"  /\ Results[5].value = t1
<1>1. Results[1].text = "--- start ---"
  BY DEF Results, Item
<1>2. Results[2].text = "wrap" /\ Results[2].value = CounterModulus
  BY DEF Results, Item
<1>3. Results[3].text = "runs" /\ Results[3].value = BenchRuns
  BY DEF Results, Item
<1>4. Results[4].text = "dt" /\ Results[4].value = t1
  BY DEF Results, Item
<1>5. Results[5].text = "avg" /\ Results[5].value = t1
  BY DEF Results, Item
<1> QED
  BY <1>1, <1>2, <1>3, <1>4, <1>5

LEMMA ReportTexts ==
  /\ FaultReport[1].text = "*** fault:"
  /\ FaultReport[2].text = cause
  /\ FaultReport[3].text = "***"
<1>1. FaultReport[1].text = "*** fault:"
  BY DEF FaultReport, Item
<1>2. FaultReport[2].text = cause
  BY DEF FaultReport, Item
<1>3. FaultReport[3].text = "***"
  BY DEF FaultReport, Item
<1> QED
  BY <1>1, <1>2, <1>3

(* A step that prints nothing and leaves every line as it should be.       *)
LEMMA NothingPrinted ==
  ASSUME ConsoleInv, out' = out, ResultLines' = ResultLines, ReportLines' = ReportLines,
         ResultLines < 4 \/ t1' = t1, ReportLines < 2 \/ cause' = cause
  PROVE  ConsoleInv'
<1>1. ResultLines \in 0..5 /\ ReportLines \in 0..3
  BY LineCounts
<1>2. ASSUME NEW k \in 1..ResultLines PROVE Results'[k] = Results[k]
  <2>1. CASE t1' = t1
    BY <2>1 DEF Results
  <2>2. CASE ResultLines < 4
    <3>1. k \in {1, 2, 3}
      BY <1>1, <2>2
    <3>2. Results'[1] = Results[1]
      BY DEF Results
    <3>3. Results'[2] = Results[2]
      BY DEF Results
    <3>4. Results'[3] = Results[3]
      BY DEF Results
    <3> QED
      BY <3>1, <3>2, <3>3, <3>4
  <2> QED
    BY <2>1, <2>2
<1>3. ASSUME NEW k \in 1..ReportLines PROVE FaultReport'[k] = FaultReport[k]
  <2>1. CASE cause' = cause
    BY <2>1 DEF FaultReport
  <2>2. CASE ReportLines < 2
    <3>1. k = 1
      BY <1>1, <2>2
    <3> QED
      BY <3>1 DEF FaultReport
  <2> QED
    BY <2>1, <2>2
<1> QED
  BY <1>1, <1>2, <1>3 DEF ConsoleInv

(* A step that prints the next result; ...                                 *)
LEMMA ResultPrinted ==
  ASSUME ConsoleInv, out \in Seq(Lines), ReportLines = 0, ReportLines' = 0,
         ResultLines' = ResultLines + 1, t1' = t1, out' = Append(out, Results[ResultLines + 1])
  PROVE  ConsoleInv'
<1>1. ResultLines \in 0..5 /\ Results' = Results
  BY LineCounts DEF Results
<1>2. Len(out) = ResultLines
  BY <1>1 DEF ConsoleInv
<1>3. Len(out') = ResultLines + 1 /\ out'[ResultLines + 1] = Results[ResultLines + 1]
      /\ \A k \in 1..ResultLines : out'[k] = out[k]
  BY <1>2
<1> QED
  BY <1>1, <1>3 DEF ConsoleInv

(* ... and one that prints the next line of a fault report.                *)
LEMMA ReportPrinted ==
  ASSUME ConsoleInv, out \in Seq(Lines), ReportLines' = ReportLines + 1,
         ResultLines' = ResultLines, t1' = t1, cause' = cause,
         out' = Append(out, FaultReport[ReportLines + 1])
  PROVE  ConsoleInv'
<1>1. /\ ResultLines \in 0..5 /\ ReportLines \in 0..3
      /\ Results' = Results /\ FaultReport' = FaultReport
  BY LineCounts DEF Results, FaultReport
<1>2. Len(out) = ResultLines + ReportLines
  BY DEF ConsoleInv
<1>3. /\ Len(out') = ResultLines + ReportLines + 1
      /\ out'[ResultLines + (ReportLines + 1)] = FaultReport[ReportLines + 1]
      /\ \A k \in 1..(ResultLines + ReportLines) : out'[k] = out[k]
  BY <1>1, <1>2
<1> QED
  BY <1>1, <1>3 DEF ConsoleInv
-----------------------------------------------------------------------------
(* Part 2: the steps of startup and of the handlers keep SessionInv.       *)
LEMMA InitSessionInv == FirmwareInit => SessionInv
<1> SUFFICES ASSUME FirmwareInit PROVE SessionInv
  OBVIOUS
<1> USE DEF FirmwareInit, StartupInit, BenchInit, Ended
<1>1. ResultLines = 0 /\ ReportLines = 0
  BY DEF ResultLines, ReportLines
<1>2. ConsoleInv
  BY <1>1 DEF ConsoleInv
<1>3. MeasureInv
  BY DEF MeasureInv
<1>4. CrashInv
  BY <1>1 DEF CrashInv
<1> QED
  BY <1>2, <1>3, <1>4 DEF SessionInv

(* Neither before nor after main does a step of Reset_Handler touch what   *)
(* SessionInv is about.                                                    *)
LEMMA StartupStep ==
  ASSUME SessionInv, spc # "main", spc' # "main", Ended' <=> Ended,
         UNCHANGED <<faultVars, benchVars, attached, out>>
  PROVE  SessionInv'
<1> USE DEF SessionInv, faultVars, benchVars, dwtVars, pastVars
<1>1. ResultLines' = ResultLines /\ ReportLines' = ReportLines
  BY DEF ResultLines, ReportLines
<1>2. ConsoleInv'
  BY <1>1, NothingPrinted
<1>3. MeasureInv'
  BY DEF MeasureInv
<1>4. CrashInv'
  BY <1>1 DEF CrashInv
<1> QED
  BY <1>2, <1>3, <1>4

(* Nor does a step of anything but the core.                               *)
LEMMA SilentStep ==
  ASSUME SessionInv, UNCHANGED <<spc, faultVars, benchVars, attached, out>>
  PROVE  SessionInv'
<1> USE DEF SessionInv, faultVars, benchVars, dwtVars, pastVars, Ended
<1>1. ResultLines' = ResultLines /\ ReportLines' = ReportLines
  BY DEF ResultLines, ReportLines
<1>2. ConsoleInv'
  BY <1>1, NothingPrinted
<1>3. MeasureInv'
  BY DEF MeasureInv
<1>4. CrashInv'
  BY <1>1 DEF CrashInv
<1> QED
  BY <1>2, <1>3, <1>4

(* User code crashes.  All faults have handlers of their own by then.      *)
LEMMA TrapStep ==
  ASSUME SessionInv, exc = "none", unmasked = FaultName,
         ResultLines = 0 \/ (mpc = "run" /\ r < BenchRuns),
         UserFault \/ UserInterrupt, UNCHANGED <<spc, benchVars, attached, out>>
  PROVE  SessionInv'
<1> USE DEF SessionInv, benchVars, dwtVars, pastVars, Ended
<1>1. fpc = "none" /\ cause = "none"
  BY DEF CrashInv
<1>2. \/ \E f \in FaultName : exc' = f /\ fpc' = "head" /\ cause' = f
      \/ exc' = "Interrupt" /\ fpc' = "none" /\ cause' = "none"
  BY <1>1 DEF UserFault, UserInterrupt, TakeFault, Escalated
<1>3. ResultLines' = ResultLines /\ ReportLines = 0 /\ ReportLines' = 0
  BY <1>1, <1>2 DEF ResultLines, ReportLines
<1>4. ConsoleInv'
  BY <1>3, NothingPrinted
<1>5. MeasureInv'
  BY DEF MeasureInv
<1>6. CrashInv'
  BY <1>1, <1>2, <1>3 DEF CrashInv, FaultName
<1> QED
  BY <1>4, <1>5, <1>6

(* A bkpt without a debugger crashes, in main at its first line only.      *)
LEMMA BkptStep ==
  ASSUME SessionInv, FirmwareTypeOK, BkptFaults, UNCHANGED <<benchVars, attached>>
  PROVE  SessionInv'
<1> USE DEF SessionInv, benchVars, dwtVars, pastVars, Ended
<1>1. ~attached /\ ResultLines = 0 /\ fpc \in {"none", "head"}
  BY DEF BkptFaults, CrashInv
<1>2. exc' \in {"HardFault", "Lockup"} /\ fpc' \in {"none", "head"} /\ spc' = spc /\ out' = out
  BY <1>1 DEF BkptFaults, TakeFault, Escalated, FaultName
<1>3. ResultLines' = ResultLines /\ ReportLines = 0 /\ ReportLines' = 0
  BY <1>1, <1>2 DEF ResultLines, ReportLines
<1>4. ConsoleInv'
  BY <1>2, <1>3, NothingPrinted
<1>5. MeasureInv'
  BY <1>2 DEF MeasureInv
<1>6. CrashInv'
  BY <1>1, <1>2, <1>3 DEF CrashInv
<1> QED
  BY <1>4, <1>5, <1>6

(* One string of a fault report is printed: the one that is due.           *)
LEMMA LineReported ==
  ASSUME exc = cause, ReportHead \/ ReportName \/ ReportTail
  PROVE  /\ ReportLines \in 0..2 /\ ReportLines' = ReportLines + 1
         /\ out' = Append(out, FaultReport[ReportLines + 1])
<1>0. /\ FaultReport[1] = Item("*** fault:", 0)
      /\ FaultReport[2] = Item(cause, 0)
      /\ FaultReport[3] = Item("***", 0)
  BY DEF FaultReport
<1>1. CASE ReportHead
  <2>0. ReportLines = 0 /\ ReportLines' = 1
    BY <1>1 DEF ReportHead, Report, Reporting, ReportLines
  <2>1. ReportLines = 0 /\ ReportLines + 1 = 1 /\ ReportLines' = 1
    BY <2>0
  <2>2. out' = Append(out, FaultReport[1])
    BY <1>0, <1>1, Zenon DEF ReportHead, Report, Write0
  <2> QED
    BY <2>1, <2>2
<1>2. CASE ReportName
  <2>1. ReportLines = 1 /\ ReportLines + 1 = 2 /\ ReportLines' = 2
    BY <1>2 DEF ReportName, Report, Reporting, ReportLines
  <2>2. out' = Append(out, FaultReport[2])
    BY <1>0, <1>2, Zenon DEF ReportName, Report, Write0
  <2> QED
    BY <2>1, <2>2
<1>3. CASE ReportTail
  <2>1. ReportLines = 2 /\ ReportLines + 1 = 3 /\ ReportLines' = 3
    BY <1>3 DEF ReportTail, Report, Reporting, ReportLines
  <2>2. out' = Append(out, FaultReport[3])
    BY <1>0, <1>3, Zenon DEF ReportTail, Report, Write0
  <2> QED
    BY <2>1, <2>2
<1> QED
  BY <1>1, <1>2, <1>3

(* The report of a fault, line by line, and the halt behind it.            *)
LEMMA ReportStep ==
  ASSUME SessionInv, FirmwareTypeOK,
         ReportHead \/ ReportName \/ ReportTail \/ ReportHalt \/ ResumeReport,
         UNCHANGED <<benchVars, attached>>
  PROVE  SessionInv'
<1> USE DEF SessionInv, benchVars, dwtVars, pastVars, Ended
<1>0. /\ Reporting("head") \/ Reporting("name") \/ Reporting("tail")
           \/ Reporting("bkpt") \/ Reporting("halted")
      /\ spc' = spc /\ exc' = exc /\ cause' = cause
  BY DEF ReportHead, ReportName, ReportTail, ReportHalt, ResumeReport, Report
<1>1. exc \notin {"none", "Interrupt"} /\ fpc # "none"
  BY <1>0 DEF Reporting, isr_vector, FaultName
<1>2. attached => exc = cause
  BY <1>1 DEF CrashInv
<1>3. ResultLines' = ResultLines
  BY <1>0 DEF ResultLines
<1>4. MeasureInv'
  BY <1>0 DEF MeasureInv
<1>5. fpc' = "parked" => attached
  BY <1>0 DEF ReportHead, ReportName, ReportTail, ReportHalt, ResumeReport, Report,
              Reporting, CrashInv
<1>6. CrashInv'
  BY <1>0, <1>1, <1>3, <1>5
     DEF CrashInv, ReportHead, ReportName, ReportTail, ReportHalt, ResumeReport, Report, Write0
<1>7. ConsoleInv'
  <2>1. CASE ReportHead \/ ReportName \/ ReportTail
    <3>1. attached
      BY <2>1 DEF ReportHead, ReportName, ReportTail, Report, Write0
    <3>2. /\ ReportLines' = ReportLines + 1
          /\ out' = Append(out, FaultReport[ReportLines + 1])
      BY <1>2, <2>1, <3>1, LineReported
    <3> QED
      BY <1>0, <1>3, <3>2, ReportPrinted DEF FirmwareTypeOK, Lines
  <2>2. CASE ReportHalt \/ ResumeReport
    <3>1. ReportLines' = ReportLines /\ out' = out
      BY <2>2 DEF ReportHalt, ResumeReport, Reporting, ReportLines
    <3> QED
      BY <1>0, <1>3, <3>1, NothingPrinted
  <2> QED
    BY <2>1, <2>2
<1> QED
  BY <1>4, <1>6, <1>7
-----------------------------------------------------------------------------
(* Part 3: so do the steps of main.                                        *)

(* In main g_runner holds kBenchRuns.                                      *)
LEMMA RunnerInMain == FirmwareInv /\ spc = "main" => ram[RunnerCell] = BenchRuns /\ unmasked = FaultName
BY DEF FirmwareInv, PhaseInv, ImageLoaded

(* One line of the results is printed: the one that is due.                *)
Prints == PrintStart \/ PrintWrap \/ PrintRuns \/ PrintDt \/ PrintAvg

LEMMA LinePrinted ==
  ASSUME FirmwareInv, Prints
  PROVE  /\ ResultLines \in 0..4 /\ ResultLines' = ResultLines + 1
         /\ ResultLines < 3 <=> mpc \notin {"dt", "avg"}
         /\ ResultLines = 4 <=> mpc = "avg"
         /\ out' = Append(out, Results[ResultLines + 1])
<1> USE DEF PrintLine, InMain, At, Write0
<1>0. /\ Results[1] = Item("--- start ---", 0)
      /\ Results[2] = Item("wrap", CounterModulus)
      /\ Results[3] = Item("runs", BenchRuns)
      /\ Results[4] = Item("dt", t1)
      /\ Results[5] = Item("avg", t1)
  BY DEF Results
<1> USE DEF ResultLines, Ended, startupVars
<1>1. CASE PrintStart
  <2>0. ResultLines = 0 /\ ResultLines' = 1 /\ mpc = "start"
    BY <1>1 DEF PrintStart
  <2>1. ResultLines = 0 /\ ResultLines + 1 = 1 /\ ResultLines' = 1 /\ mpc = "start"
    BY <2>0
  <2>2. out' = Append(out, Results[1])
    BY <1>0, <1>1, Zenon DEF PrintStart
  <2> QED
    BY <2>1, <2>2
<1>2. CASE PrintWrap
  <2>1. ResultLines = 1 /\ ResultLines + 1 = 2 /\ ResultLines' = 2 /\ mpc = "wrap"
    BY <1>2 DEF PrintWrap
  <2>2. out' = Append(out, Results[2])
    BY <1>0, <1>2, Zenon DEF PrintWrap
  <2> QED
    BY <2>1, <2>2
<1>3. CASE PrintRuns
  <2>1. ResultLines = 2 /\ ResultLines + 1 = 3 /\ ResultLines' = 3 /\ mpc = "runs"
    BY <1>3 DEF PrintRuns
  <2>2. out' = Append(out, Results[3])
    BY <1>0, <1>3, RunnerInMain, Zenon DEF PrintRuns
  <2> QED
    BY <2>1, <2>2
<1>4. CASE PrintDt
  <2>1. ResultLines = 3 /\ ResultLines + 1 = 4 /\ ResultLines' = 4 /\ mpc = "dt"
    BY <1>4 DEF PrintDt
  <2>2. out' = Append(out, Results[4])
    BY <1>0, <1>4, Zenon DEF PrintDt
  <2> QED
    BY <2>1, <2>2
<1>5. CASE PrintAvg
  <2>1. ResultLines = 4 /\ ResultLines + 1 = 5 /\ ResultLines' = 5 /\ mpc = "avg"
    BY <1>5 DEF PrintAvg
  <2>2. out' = Append(out, Results[5])
    BY <1>0, <1>5, Zenon DEF PrintAvg
  <2> QED
    BY <2>1, <2>2
<1> QED
  BY <1>1, <1>2, <1>3, <1>4, <1>5 DEF Prints

LEMMA PrintStep ==
  ASSUME FirmwareInv, SessionInv, Prints, UNCHANGED attached
  PROVE  SessionInv'
<1> USE DEF SessionInv, dwtVars, pastVars, startupVars, faultVars, Ended, InMain, At
<1>0. \E text, value : \/ PrintLine("start", "wrap", text, value)
                       \/ PrintLine("wrap", "runs", text, value)
                       \/ PrintLine("runs", "trace", text, value)
                       \/ PrintLine("dt", "avg", text, value)
                       \/ PrintLine("avg", "return", text, value)
  BY DEF Prints, PrintStart, PrintWrap, PrintRuns, PrintDt, PrintAvg
<1> USE DEF PrintLine
<1>1. fpc = "none" /\ fpc' = "none" /\ spc = "main" /\ spc' = "main" /\ exc' = "none" /\ attached
  BY <1>0 DEF CrashInv, Write0
<1>2. ReportLines = 0 /\ ReportLines' = 0
  BY <1>1 DEF ReportLines
<1>3. ResultLines' = ResultLines + 1 /\ out' = Append(out, Results[ResultLines + 1])
  BY LinePrinted
<1>4. ConsoleInv'
  BY <1>0, <1>2, <1>3, ResultPrinted DEF FirmwareInv, FirmwareTypeOK, Lines
<1>5. MeasureInv'
  BY <1>0, <1>1 DEF MeasureInv
<1>6. CrashInv'
  BY <1>0, <1>1 DEF CrashInv
<1> QED
  BY <1>4, <1>5, <1>6

(* A step of main that prints nothing.                                     *)
LEMMA MainStep ==
  ASSUME SessionInv, ResultLines' = ResultLines, ResultLines < 4, exc = "none", attached \/ ResultLines = 0,
         MeasureInv', UNCHANGED <<faultVars, attached, out>>
  PROVE  SessionInv'
<1> USE DEF SessionInv, faultVars
<1>1. fpc = "none"
  BY DEF CrashInv
<1>2. ReportLines = 0 /\ ReportLines' = 0
  BY <1>1 DEF ReportLines
<1>3. ConsoleInv'
  BY <1>2, NothingPrinted
<1>4. CrashInv'
  BY <1>1 DEF CrashInv
<1> QED
  BY <1>3, <1>4

LEMMA BenchKeepsSession ==
  ASSUME FirmwareInv, SessionInv, BenchCode, UNCHANGED <<attached, resets>>
  PROVE  SessionInv'
<1> USE CounterAssumption
<1>0. FirmwareTypeOK /\ ConsoleInv /\ MeasureInv /\ CrashInv
  BY DEF FirmwareInv, SessionInv
<1> USE DEF InMain, At
<1>1. CASE CallMain
  <2>1. ResultLines = 0 /\ ResultLines' = 0
    BY <1>0, <1>1 DEF CallMain, ResultLines, MeasureInv, Ended
  <2>2. MeasureInv'
    BY <1>0, <1>1 DEF CallMain, MeasureInv, Ended, pastVars, dwtVars
  <2> QED
    BY <1>1, <2>1, <2>2, MainStep DEF CallMain
<1>2. CASE Prints
  BY <1>2, PrintStep
<1>3. CASE EnableTrace \/ ClearCounter \/ EnableCounter
  <2>1. ResultLines = 3 /\ ResultLines' = 3
    BY <1>3 DEF EnableTrace, ClearCounter, EnableCounter, ResultLines, startupVars, Ended
  <2>2. MeasureInv'
    BY <1>0, <1>3 DEF EnableTrace, ClearCounter, EnableCounter, MeasureInv, Ended, startupVars, pastVars
  <2> QED
    BY <1>0, <1>3, <2>1, <2>2, MainStep
       DEF EnableTrace, ClearCounter, EnableCounter, startupVars, CrashInv
<1>4. CASE ZeroCounter
  <2>1. ResultLines = 3 /\ ResultLines' = 3
    BY <1>4 DEF ZeroCounter, BeginMeasurement, ResultLines, startupVars, Ended
  <2>2. 0 % CounterModulus = 0 /\ 0 <= BenchRuns
    BY LayoutAssumption
  <2>3. MeasureInv'
    BY <1>0, <1>4, <2>2 DEF ZeroCounter, BeginMeasurement, MeasureInv, Ended, startupVars
  <2> QED
    BY <1>0, <1>4, <2>1, <2>3, MainStep DEF ZeroCounter, BeginMeasurement, startupVars, CrashInv
<1>5. CASE CallAlgo
  <2>1. ResultLines = 3 /\ ResultLines' = 3
    BY <1>5 DEF CallAlgo, ResultLines, Ended
  <2>2. r < BenchRuns /\ trc /\ ena
    BY <1>0, <1>5, RunnerInMain DEF CallAlgo, MeasureInv
  <2>3. PICK c \in CallCycles : cnt' = (cnt + c) % CounterModulus /\ elapsed' = elapsed + c
    BY <1>5, <2>2 DEF CallAlgo, Ticked
  <2>4. cnt' = elapsed' % CounterModulus
    <3>1. elapsed \in Int /\ c \in Int /\ CounterModulus \in Nat \ {0}
      BY <1>0 DEF FirmwareTypeOK
    <3>2. ((elapsed % CounterModulus) + c) % CounterModulus = (elapsed + c) % CounterModulus
      BY <3>1, ModPlus
    <3>3. cnt = elapsed % CounterModulus
      BY <1>0, <1>5 DEF CallAlgo, MeasureInv
    <3> QED
      BY <2>3, <3>2, <3>3
  <2>5. calls' = r' /\ r' <= BenchRuns
    BY <1>0, <1>5, <2>2, LayoutAssumption DEF CallAlgo, MeasureInv, FirmwareTypeOK
  <2>6. UNCHANGED <<spc, mpc, trc, ena, t1>> /\ mpc = "run" /\ spc = "main"
    BY <1>5 DEF CallAlgo
  <2>7. MeasureInv'
    BY <1>0, <2>2, <2>4, <2>5, <2>6 DEF MeasureInv, Ended
  <2> QED
    BY <1>0, <1>5, <2>1, <2>7, MainStep DEF CallAlgo, CrashInv
<1>6. CASE AlgoTraps
  <2>1. r < BenchRuns /\ unmasked = FaultName
    BY <1>6, RunnerInMain DEF AlgoTraps
  <2> QED
    BY <1>6, <2>1, TrapStep DEF AlgoTraps
<1>7. CASE ReadCounter
  <2>1. ResultLines = 3 /\ ResultLines' = 3
    BY <1>7 DEF ReadCounter, ReadCounterAfter, ResultLines, startupVars, Ended
  <2>2. r = BenchRuns
    BY <1>0, <1>7, RunnerInMain, LayoutAssumption
       DEF ReadCounter, ReadCounterAfter, MeasureInv, FirmwareTypeOK
  <2>3. MeasureInv'
    BY <1>0, <1>7, <2>2 DEF ReadCounter, ReadCounterAfter, MeasureInv, Ended, startupVars, pastVars
  <2> QED
    BY <1>0, <1>7, <2>1, <2>3, MainStep DEF ReadCounter, ReadCounterAfter, startupVars, CrashInv
<1>8. CASE MainReturn
  <2>1. ResultLines = 5 /\ ResultLines' = 5
    BY <1>8 DEF MainReturn, ResultLines, Ended
  <2>2. MeasureInv'
    BY <1>0, <1>8 DEF MainReturn, MeasureInv, Ended, pastVars
  <2>3. fpc = "none" /\ attached /\ CrashInv'
    BY <1>0, <1>8, <2>1 DEF MainReturn, CrashInv, faultVars
  <2>4. ReportLines = 0 /\ ReportLines' = 0
    BY <1>8, <2>3 DEF ReportLines, MainReturn, faultVars
  <2>5. ConsoleInv'
    BY <1>0, <1>8, <2>1, <2>4, NothingPrinted DEF MainReturn
  <2> QED
    BY <2>2, <2>3, <2>5 DEF SessionInv
<1>9. CASE PrintFaults /\ UNCHANGED benchVars
  BY <1>0, <1>9, BkptStep DEF PrintFaults
<1> QED
  BY <1>1, <1>2, <1>3, <1>4, <1>5, <1>6, <1>7, <1>8, <1>9 DEF BenchCode, Prints

LEMMA StartupKeepsSession ==
  ASSUME FirmwareInv, SessionInv, StartupCode, UNCHANGED <<benchVars, attached, resets>>
  PROVE  SessionInv'
<1>0. FirmwareTypeOK /\ PhaseInv /\ ConsoleInv /\ MeasureInv /\ CrashInv
  BY DEF FirmwareInv, SessionInv
<1> USE DEF At
<1>1. CASE EnableFpu \/ CopyCell \/ CopyReturn \/ ZeroCell \/ ZeroReturn \/ UnmaskFaults
  BY <1>1, StartupStep
     DEF EnableFpu, CopyCell, CopyReturn, CopyReturnTo, ZeroCell, ZeroCellTo, ZeroReturn,
         UnmaskFaults, Unmask, Ended
<1>2. CASE CallPreinit \/ PreinitReturn \/ CallInit \/ ExitBreakpoint
  BY <1>2, StartupStep DEF CallPreinit, PreinitReturn, CallInit, ExitBreakpoint, Ended
<1>3. CASE SysclkStep
  BY <1>3, SilentStep DEF SysclkStep, startupVars
<1>4. CASE ConstructorTraps
  <2>1. exc = "none" /\ spc \in {"preinit", "init"}
    BY <1>4 DEF ConstructorTraps, InUserConstructor
  <2>2. mpc = "idle" /\ ~Ended /\ unmasked = FaultName
    BY <1>0, <2>1 DEF MeasureInv, Ended, PhaseInv
  <2>3. ResultLines = 0
    BY <2>2 DEF ResultLines
  <2> QED
    BY <1>4, <2>1, <2>2, <2>3, TrapStep DEF ConstructorTraps
<1>5. CASE ReportHead \/ ReportName \/ ReportTail \/ ReportHalt
  BY <1>0, <1>5, ReportStep
<1>6. CASE ReportFaults
  BY <1>0, <1>6, BkptStep DEF ReportFaults
<1> QED
  BY <1>1, <1>2, <1>3, <1>4, <1>5, <1>6 DEF StartupCode

LEMMA ResetKeepsSession == SystemReset => SessionInv'
<1> SUFFICES ASSUME SystemReset PROVE SessionInv'
  OBVIOUS
<1> USE DEF SystemReset, StartupReset, BenchReset, Ended
<1>1. ResultLines' = 0 /\ ReportLines' = 0
  BY DEF ResultLines, ReportLines
<1>2. ConsoleInv'
  BY <1>1 DEF ConsoleInv
<1>3. MeasureInv'
  BY DEF MeasureInv
<1>4. CrashInv'
  BY <1>1 DEF CrashInv
<1> QED
  BY <1>2, <1>3, <1>4 DEF SessionInv

(* Whatever the image does, and whatever happens to it, the console shows  *)
(* what SessionInv says.                                                   *)
LEMMA NextKeepsSession ==
  FirmwareInv /\ SessionInv /\ [FirmwareNext]_firmwareVars => SessionInv'
<1> SUFFICES ASSUME FirmwareInv, SessionInv, [FirmwareNext]_firmwareVars PROVE SessionInv'
  OBVIOUS
<1>1. CASE StartupCode /\ UNCHANGED <<benchVars, attached, resets>>
  BY <1>1, StartupKeepsSession
<1>2. CASE BenchCode /\ UNCHANGED <<attached, resets>>
  BY <1>2, BenchKeepsSession
<1>3. CASE UNCHANGED <<startupVars, benchVars, attached, out>>
  BY <1>3, SilentStep DEF startupVars
<1>4. CASE SystemReset
  BY <1>4, ResetKeepsSession
<1>5. CASE Resume
  <2>1. CASE ResumeExit
    BY <1>5, <2>1, StartupStep DEF Resume, ResumeExit, At, Ended
  <2>2. CASE ResumeReport
    BY <1>5, <2>2, ReportStep DEF Resume, FirmwareInv
  <2> QED
    BY <1>5, <2>1, <2>2 DEF Resume
<1>6. CASE UNCHANGED firmwareVars
  BY <1>6, SilentStep DEF firmwareVars, startupVars
<1> QED
  BY <1>1, <1>2, <1>3, <1>4, <1>5, <1>6 DEF FirmwareNext, Code, Hardware

(* What is on the console follows from where main, a fault report and the  *)
(* counter are, in every reachable state.                                  *)
THEOREM SessionInvariant == FirmwareSpec => []SessionInv
BY InitSessionInv, NextKeepsSession, FirmwareInvariant, PTL DEF FirmwareSpec

(* A complete fault report names the fault that happened.                  *)
THEOREM ReportsNameCause == FirmwareSpec => []FaultReportNamesCause
<1>1. FirmwareInv /\ SessionInv => FaultReportNamesCause
  <2> SUFFICES ASSUME FirmwareInv, SessionInv, Reporting("halted")
               PROVE  /\ exc = cause
                      /\ out[Len(out)-2].text = "*** fault:" /\ out[Len(out)-1].text = cause
    BY DEF FaultReportNamesCause
  <2>1. fpc = "halted" /\ exc \notin {"none", "Interrupt"}
    BY DEF Reporting, isr_vector, FaultName
  <2>2. exc = cause
    BY <2>1 DEF SessionInv, CrashInv
  <2>3. ReportLines = 3 /\ ResultLines \in 0..5
    BY <2>1, LineCounts DEF ReportLines
  <2>4. /\ Len(out) = ResultLines + 3
        /\ out[ResultLines + 1] = FaultReport[1] /\ out[ResultLines + 2] = FaultReport[2]
    BY <2>3 DEF SessionInv, ConsoleInv
  <2>5. Len(out) - 2 = ResultLines + 1 /\ Len(out) - 1 = ResultLines + 2
    BY <2>3, <2>4
  <2> QED
    BY <2>2, <2>4, <2>5, ReportTexts
<1> QED
  BY <1>1, FirmwareInvariant, SessionInvariant, PTL

(* The printed dt and avg are the cycles of exactly the printed number of  *)
(* calls, for every cost of a call, modulo the counter's wrap.             *)
THEOREM ResultsAreTruthful == FirmwareSpec => []ResultTruthful
<1>1. FirmwareInv /\ SessionInv => ResultTruthful
  <2> SUFFICES ASSUME FirmwareInv, SessionInv,
                      NEW k \in 1..Len(out), out[k].text \in {"dt", "avg"}
               PROVE  /\ out[k].value = elapsed % CounterModulus
                      /\ elapsed < CounterModulus => out[k].value = elapsed
                      /\ out[2].value = CounterModulus
                      /\ out[3].value = calls /\ calls = BenchRuns
    BY DEF ResultTruthful
  <2>0. ConsoleInv /\ MeasureInv /\ CrashInv /\ FirmwareTypeOK
    BY DEF SessionInv, FirmwareInv
  <2>1. ResultLines \in 0..5 /\ ReportLines \in 0..3
    BY LineCounts
  <2>2. k \in 1..ResultLines
    <3> SUFFICES ASSUME k > ResultLines PROVE FALSE
      BY <2>1
    <3>1. k - ResultLines \in 1..ReportLines /\ ResultLines + (k - ResultLines) = k
      BY <2>0, <2>1 DEF ConsoleInv
    <3>2. out[k] = FaultReport[k - ResultLines]
      BY <2>0, <3>1 DEF ConsoleInv
    <3>3. k - ResultLines \in {1, 2, 3}
      BY <2>1, <3>1
    <3>4. FaultReport[k - ResultLines].text \in {"*** fault:", cause, "***"}
      BY <3>3, ReportTexts
    <3>5. cause \notin {"dt", "avg"}
      BY <2>0 DEF FirmwareTypeOK, FaultName
    <3> QED
      BY <3>2, <3>4, <3>5
  <2>3. out[k] = Results[k] /\ k \in {1, 2, 3, 4, 5}
    BY <2>0, <2>1, <2>2 DEF ConsoleInv
  <2>4. k \in {4, 5} /\ out[k].value = t1
    BY <2>3, ResultTexts
  <2>5. ResultLines \in {4, 5}
    BY <2>1, <2>2, <2>4
  <2>6. out[2].value = CounterModulus /\ out[3].value = BenchRuns
    <3>1. out[2] = Results[2] /\ out[3] = Results[3]
      BY <2>0, <2>5 DEF ConsoleInv
    <3> QED
      BY <3>1, ResultTexts
  <2>7. mpc \in {"avg", "return"} \/ Ended
    BY <2>5 DEF ResultLines
  <2>8. calls = BenchRuns /\ t1 = elapsed % CounterModulus
    BY <2>0, <2>7 DEF MeasureInv
  <2>9. elapsed < CounterModulus => elapsed % CounterModulus = elapsed
    BY <2>0, CounterAssumption DEF FirmwareTypeOK
  <2> QED
    BY <2>4, <2>6, <2>8, <2>9
<1> QED
  BY <1>1, FirmwareInvariant, SessionInvariant, PTL
-----------------------------------------------------------------------------
(* Part 4: the image implements BenchSession.                              *)
LEMMA HeadingLines ==
  /\ Session!Heading \in Seq(Lines) /\ Len(Session!Heading) = 3
  /\ Session!Heading[1] = Results[1]
  /\ Session!Heading[2] = Results[2]
  /\ Session!Heading[3] = Results[3]
<1> USE DEF Session!Heading, Session!Line, Results, Item
<1>1. Session!Heading[1] = Results[1]
  OBVIOUS
<1>2. Session!Heading[2] = Results[2]
  OBVIOUS
<1>3. Session!Heading[3] = Results[3]
  OBVIOUS
<1>4. Len(Session!Heading) = 3
  OBVIOUS
<1>5. CounterModulus \in Nat /\ BenchRuns \in Nat
  BY CounterAssumption, LayoutAssumption
<1>6. Session!Heading \in Seq(Lines)
  BY <1>5 DEF Lines, Texts
<1> QED
  BY <1>1, <1>2, <1>3, <1>4, <1>6

(* The console before anything is printed, and when a measurement runs.    *)
LEMMA ConsoleEmpty ==
  ASSUME FirmwareTypeOK, ConsoleInv, ResultLines = 0, ReportLines = 0
  PROVE  out = <<>>
<1>1. out \in Seq(Lines) /\ Len(out) = 0
  BY DEF ConsoleInv, FirmwareTypeOK, Lines
<1> QED
  BY <1>1, EmptySeq

LEMMA ConsoleHeading ==
  ASSUME FirmwareTypeOK, ConsoleInv, ResultLines = 3, ReportLines = 0
  PROVE  out = Session!Heading
<1>1. out \in Seq(Lines) /\ Len(out) = 3
  BY DEF ConsoleInv, FirmwareTypeOK, Lines
<1>2. \A k \in 1..3 : out[k] = Results[k]
  BY DEF ConsoleInv
<1>3. \A k \in 1..3 : out[k] = Session!Heading[k]
  BY <1>2, HeadingLines
<1> QED
  BY <1>1, <1>3, HeadingLines, SeqEqual

(* A crash is taken, with an empty console or in the measurement.          *)
LEMMA CrashShown ==
  ASSUME FirmwareTypeOK, ConsoleInv, ReportLines = 0,
         ResultLines = 0 \/ (mpc = "run" /\ ResultLines = 3),
         exc = "none" => ResultLines = 0 \/ calls < BenchRuns,
         exc' \in FaultName \cup {"HardFault", "Interrupt", "Lockup"},
         UNCHANGED <<out, calls>>
  PROVE  Session!Crash
<1>1. \/ out = <<>> /\ ResultLines = 0
      \/ out = Session!Heading /\ ResultLines = 3
  BY ConsoleEmpty, ConsoleHeading
<1>2. exc = "none" => out = <<>> \/ calls < BenchRuns
  BY <1>1
<1> QED
  BY <1>1, <1>2 DEF Session!Crash

(* A line of a report is printed.                                          *)
LEMMA ReportShown ==
  ASSUME FirmwareTypeOK, ConsoleInv, exc = cause, exc \in FaultName \cup {"HardFault"},
         ReportLines \in 0..2, ResultLines \in {0, 3},
         out' = Append(out, FaultReport[ReportLines + 1]),
         UNCHANGED <<calls, exc>>
  PROVE  Session!ShowReport
<1>0. \A k \in 1..3 : k = 1 \/ k = 2 \/ k = 3
  OBVIOUS
<1> DEFINE before == IF ResultLines = 0 THEN <<>> ELSE Session!Heading
           whole  == <<Session!Line("*** fault:", 0), Session!Line(exc, 0), Session!Line("***", 0)>>
<1>1. /\ before \in Seq(Lines) /\ Len(before) = ResultLines
      /\ \A k \in 1..ResultLines : before[k] = out[k]
  <2>1. CASE ResultLines = 0
    BY <2>1, EmptySeq
  <2>2. CASE ResultLines = 3
    <3>1. \A k \in 1..3 : out[k] = Results[k]
      BY <2>2 DEF ConsoleInv
    <3>2. before = Session!Heading
      BY <2>2
    <3> HIDE DEF before
    <3>3. before[1] = out[1] /\ before[2] = out[2] /\ before[3] = out[3]
      BY <3>1, <3>2, HeadingLines
    <3>4. \A k \in 1..3 : before[k] = out[k]
      BY <1>0, <3>3
    <3> QED
      BY <2>2, <3>2, <3>4, HeadingLines
  <2> QED
    BY <2>1, <2>2
<1>2. \A k \in 1..3 : whole[k] = FaultReport[k] /\ whole[k] \in Lines
  <2> USE DEF FaultReport, Session!Line, Item, Lines, Texts
  <2>1. whole[1] = FaultReport[1] /\ whole[1] \in Lines
    OBVIOUS
  <2>2. whole[2] = FaultReport[2] /\ whole[2] \in Lines
    OBVIOUS
  <2>3. whole[3] = FaultReport[3] /\ whole[3] \in Lines
    OBVIOUS
  <2> HIDE DEF whole, FaultReport, Session!Line, Item, Lines, Texts
  <2> QED
    BY <1>0, <2>1, <2>2, <2>3
<1>3. \A k \in 0..3 : Session!Report(k) = SubSeq(whole, 1, k)
  BY DEF Session!Report
<1> HIDE DEF before, whole
<1>4. ASSUME NEW k \in 0..3
      PROVE  /\ Session!Report(k) \in Seq(Lines) /\ Len(Session!Report(k)) = k
             /\ \A j \in 1..k : Session!Report(k)[j] = whole[j]
  <2>1. \A j \in 1..k : whole[j] \in Lines
    BY <1>2
  <2>2. /\ SubSeq(whole, 1, k) \in Seq(Lines)
        /\ Len(SubSeq(whole, 1, k)) = IF 1 <= k THEN k - 1 + 1 ELSE 0
        /\ \A j \in 1..(k - 1 + 1) : SubSeq(whole, 1, k)[j] = whole[1 + j - 1]
    BY <2>1, SubSeqProperties
  <2>3. Len(SubSeq(whole, 1, k)) = k
    BY <2>2
  <2>4. ASSUME NEW j \in 1..k PROVE SubSeq(whole, 1, k)[j] = whole[j]
    <3>1. j \in 1..(k - 1 + 1) /\ 1 + j - 1 = j
      OBVIOUS
    <3>2. SubSeq(whole, 1, k)[j] = whole[1 + j - 1]
      BY <2>2, <3>1
    <3> QED
      BY <3>1, <3>2, Zenon
  <2> QED
    BY <1>3, <2>2, <2>3, <2>4, Zenon
<1> DEFINE k == ReportLines  shown == before \o Session!Report(k)
<1>5. k \in 0..2 /\ k + 1 \in 1..3 /\ k \in 0..3 /\ k + 1 \in 0..3
  OBVIOUS
<1> HIDE DEF k
<1>6. out = shown
  <2>1. out \in Seq(Lines) /\ Len(out) = ResultLines + k
    BY DEF FirmwareTypeOK, Lines, ConsoleInv, k
  <2>0. Session!Report(k) \in Seq(Lines) /\ Len(Session!Report(k)) = k
    BY <1>4, <1>5
  <2>2. /\ shown \in Seq(Lines) /\ Len(shown) = ResultLines + k
        /\ \A j \in 1..(ResultLines + k) :
             shown[j] = IF j <= ResultLines THEN before[j] ELSE Session!Report(k)[j - ResultLines]
    BY <1>1, <2>0, ConcatProperties
  <2>3. ASSUME NEW j \in 1..k PROVE out[ResultLines + j] = Session!Report(k)[j]
    <3>1. out[ResultLines + j] = FaultReport[j]
      BY DEF ConsoleInv, k
    <3>2. Session!Report(k)[j] = whole[j] /\ j \in 1..3
      BY <1>4, <1>5
    <3> QED
      BY <1>2, <3>1, <3>2
  <2> HIDE DEF shown
  <2>4. ASSUME NEW j \in 1..(ResultLines + k) PROVE out[j] = shown[j]
    <3>1. CASE j <= ResultLines
      BY <1>1, <2>2, <3>1
    <3>2. CASE j > ResultLines
      <4>1. j - ResultLines \in 1..k /\ ResultLines + (j - ResultLines) = j
        BY <1>5, <3>2
      <4> QED
        BY <2>2, <2>3, <3>2, <4>1
    <3> QED
      BY <1>5, <3>1, <3>2
  <2> QED
    BY <2>1, <2>2, <2>4, SeqEqual
<1>7. Session!Report(k + 1)[k + 1] = FaultReport[k + 1]
  BY <1>2, <1>4, <1>5
<1>8. before \in {<<>>, Session!Heading}
  BY DEF before
<1>9. out' = Append(out, Session!Report(k + 1)[k + 1])
  BY <1>7 DEF k
<1> QED
  BY <1>5, <1>6, <1>8, <1>9 DEF Session!ShowReport, Session!Show

(* A line of the heading is printed.                                       *)
LEMMA HeadingShown ==
  ASSUME ConsoleInv, exc = "none", ResultLines \in 0..2, ReportLines = 0,
         out' = Append(out, Results[ResultLines + 1]), UNCHANGED <<calls, exc>>
  PROVE  Session!ShowHeading
<1>1. Len(out) = ResultLines
  BY DEF ConsoleInv
<1>2. ResultLines + 1 \in {1, 2, 3}
  OBVIOUS
<1>3. Results[ResultLines + 1] = Session!Heading[ResultLines + 1]
  BY <1>2, HeadingLines
<1> QED
  BY <1>1, <1>3, HeadingLines DEF Session!ShowHeading, Session!Show

(* A bkpt crashes with an empty console.                                   *)
LEMMA BkptShown ==
  ASSUME FirmwareTypeOK, ConsoleInv, CrashInv, BkptFaults, UNCHANGED calls
  PROVE  Session!Crash
<1>1. ~attached /\ ResultLines = 0 /\ fpc \in {"none", "head"}
  BY DEF BkptFaults, CrashInv
<1>2. ReportLines = 0
  BY <1>1 DEF ReportLines
<1>3. exc' \in {"HardFault", "Lockup"} /\ out' = out
  BY DEF BkptFaults, TakeFault, Escalated, FaultName
<1> QED
  BY <1>1, <1>2, <1>3, CrashShown

(* The steps of startup and of the fault handlers, ...                     *)
LEMMA StartupImplements ==
  ASSUME FirmwareInv, SessionInv, StartupCode, UNCHANGED <<benchVars, attached, resets>>
  PROVE  Session!SessionNext \/ UNCHANGED <<out, calls, exc>>
<1>0. FirmwareTypeOK /\ ConsoleInv /\ MeasureInv /\ CrashInv
  BY DEF FirmwareInv, SessionInv
<1>c. calls' = calls
  BY DEF benchVars, pastVars
<1>1. CASE EnableFpu \/ CopyCell \/ CopyReturn \/ ZeroCell \/ ZeroReturn \/ SysclkStep \/ UnmaskFaults
  BY <1>1, <1>c
     DEF EnableFpu, CopyCell, CopyReturn, CopyReturnTo, ZeroCell, ZeroCellTo, ZeroReturn,
         SysclkStep, UnmaskFaults, Unmask, startupVars, faultVars
<1>2. CASE CallPreinit \/ PreinitReturn \/ CallInit \/ ExitBreakpoint \/ ReportHalt
  BY <1>2, <1>c
     DEF CallPreinit, PreinitReturn, CallInit, ExitBreakpoint, ReportHalt, faultVars
<1>3. CASE ConstructorTraps
  <2>1. exc = "none" /\ spc \in {"preinit", "init"}
    BY <1>3 DEF ConstructorTraps, InUserConstructor, At
  <2>2. fpc = "none" /\ mpc = "idle" /\ ~Ended
    BY <1>0, <2>1 DEF CrashInv, MeasureInv, Ended
  <2>3. ResultLines = 0 /\ ReportLines = 0
    BY <2>2 DEF ResultLines, ReportLines
  <2>4. exc' \in FaultName \cup {"HardFault", "Interrupt", "Lockup"} /\ out' = out
    BY <1>3 DEF ConstructorTraps, UserFault, UserInterrupt, TakeFault, Escalated
  <2> QED
    BY <1>0, <1>c, <2>3, <2>4, CrashShown DEF Session!SessionNext
<1>4. CASE ReportHead \/ ReportName \/ ReportTail
  <2>1. /\ exc \in FaultName \cup {"HardFault"} /\ exc \notin {"none", "Interrupt"}
        /\ attached /\ exc' = exc
    BY <1>4 DEF ReportHead, ReportName, ReportTail, Report, Reporting, isr_vector, Write0, FaultName
  <2>2. exc = cause
    BY <1>0, <2>1 DEF CrashInv
  <2>3. ResultLines \in {0, 3}
    <3>1. mpc = "run" => ResultLines = 3
      BY <1>0 DEF MeasureInv, ResultLines, Ended
    <3> QED
      BY <1>0, <2>1, <3>1 DEF CrashInv
  <2>4. ReportLines \in 0..2 /\ out' = Append(out, FaultReport[ReportLines + 1])
    BY <1>4, <2>2, LineReported
  <2>5. Session!ShowReport
    BY <1>0, <1>c, <2>1, <2>2, <2>3, <2>4, ReportShown
  <2> QED
    BY <2>5 DEF Session!SessionNext
<1>5. CASE ReportFaults
  BY <1>0, <1>c, <1>5, BkptShown DEF ReportFaults, Session!SessionNext
<1> QED
  BY <1>1, <1>2, <1>3, <1>4, <1>5 DEF StartupCode

(* ... and those of main.                                                  *)
LEMMA BenchImplements ==
  ASSUME FirmwareInv, SessionInv, BenchCode
  PROVE  Session!SessionNext \/ UNCHANGED <<out, calls, exc>>
<1>0. FirmwareTypeOK /\ ConsoleInv /\ MeasureInv /\ CrashInv
  BY DEF FirmwareInv, SessionInv
<1> USE DEF At, InMain
<1>1. CASE CallMain \/ EnableTrace \/ ClearCounter \/ EnableCounter \/ ReadCounter \/ MainReturn
  BY <1>1
     DEF CallMain, EnableTrace, ClearCounter, EnableCounter, ReadCounter, ReadCounterAfter,
         MainReturn, startupVars, faultVars, pastVars
<1>2. CASE ZeroCounter
  BY <1>0, <1>2
     DEF ZeroCounter, BeginMeasurement, MeasureInv, Ended, startupVars, faultVars
<1>3. CASE Prints
  <2>1. /\ exc = "none" /\ spc = "main" /\ calls' = calls /\ exc' = exc
        /\ mpc \in {"start", "wrap", "runs", "dt", "avg"}
    BY <1>3
       DEF Prints, PrintStart, PrintWrap, PrintRuns, PrintDt, PrintAvg, PrintLine,
           startupVars, faultVars, pastVars
  <2>2. ReportLines = 0
    BY <1>0, <2>1 DEF CrashInv, ReportLines
  <2>3. /\ ResultLines \in 0..4
        /\ ResultLines < 3 <=> mpc \notin {"dt", "avg"}
        /\ ResultLines = 4 <=> mpc = "avg"
        /\ out' = Append(out, Results[ResultLines + 1])
    BY <1>3, LinePrinted
  <2>4. CASE ResultLines < 3
    BY <1>0, <2>1, <2>2, <2>3, <2>4, HeadingShown DEF Session!SessionNext
  <2>5. CASE ResultLines = 3
    <3>1. mpc = "dt" /\ ResultLines + 1 = 4
      BY <2>3, <2>5
    <3>2. calls = BenchRuns /\ t1 \in 0..(CounterModulus - 1)
      BY <1>0, <3>1 DEF MeasureInv, FirmwareTypeOK, Counter
    <3>3. Results[4] = Session!Line("dt", t1)
      BY DEF Results, Item, Session!Line
    <3>4. out = Session!Heading
      BY <1>0, <2>2, <2>5, ConsoleHeading
    <3>5. out' = Append(out, Session!Line("dt", t1))
      BY <2>3, <3>1, <3>3
    <3> QED
      BY <2>1, <3>2, <3>4, <3>5 DEF Session!SessionNext, Session!ShowDt, Session!Show
  <2>6. CASE ResultLines = 4
    <3>1. ResultLines + 1 = 5 /\ Len(out) = 4 /\ out[4] = Results[4]
      BY <1>0, <2>2, <2>6 DEF ConsoleInv
    <3>2. out[4].value = t1
      BY <3>1, ResultTexts
    <3>3. Results[5] = Session!Line("avg", t1)
      BY DEF Results, Item, Session!Line
    <3>4. out' = Append(out, Session!Line("avg", out[4].value))
      BY <2>3, <3>1, <3>2, <3>3
    <3> QED
      BY <2>1, <3>1, <3>4 DEF Session!SessionNext, Session!ShowAvg, Session!Show
  <2> QED
    BY <2>3, <2>4, <2>5, <2>6
<1>4. CASE CallAlgo \/ AlgoTraps
  <2>1. /\ mpc = "run" /\ spc = "main" /\ exc = "none" /\ r < BenchRuns
        /\ out' = out
    BY <1>4, RunnerInMain DEF CallAlgo, AlgoTraps
  <2>2. ResultLines = 3 /\ ReportLines = 0 /\ calls = r
    BY <1>0, <2>1 DEF ResultLines, ReportLines, CrashInv, MeasureInv, Ended
  <2>3. out = Session!Heading
    BY <1>0, <2>2, ConsoleHeading
  <2>4. CASE CallAlgo
    <3>1. exc' = exc /\ calls' = calls + 1 /\ calls + 1 <= BenchRuns
      BY <1>0, <2>1, <2>2, <2>4, LayoutAssumption DEF CallAlgo, faultVars, FirmwareTypeOK
    <3> QED
      BY <2>1, <2>3, <3>1 DEF Session!SessionNext, Session!Measure
  <2>5. CASE AlgoTraps
    <3>1. /\ exc' \in FaultName \cup {"HardFault", "Interrupt", "Lockup"}
          /\ calls' = calls /\ calls < BenchRuns
      BY <2>1, <2>2, <2>5
         DEF AlgoTraps, UserFault, UserInterrupt, TakeFault, Escalated, benchVars, pastVars
    <3> QED
      BY <1>0, <2>1, <2>2, <3>1, CrashShown DEF Session!SessionNext
  <2> QED
    BY <1>4, <2>4, <2>5
<1>5. CASE PrintFaults /\ UNCHANGED benchVars
  BY <1>0, <1>5, BkptShown DEF PrintFaults, benchVars, pastVars, Session!SessionNext
<1> QED
  BY <1>1, <1>2, <1>3, <1>4, <1>5 DEF BenchCode, Prints

(* For every image and every sequence of faults, interrupts, resets and    *)
(* resumptions, the console shows what BenchSession promises: results of   *)
(* complete measurements, and never any after a crash.                     *)
THEOREM SessionImplemented == FirmwareSpec => SessionKept
<1>1. FirmwareInit => Session!SessionInit
  BY DEF FirmwareInit, StartupInit, BenchInit, Session!SessionInit
<1>2. FirmwareInv /\ SessionInv /\ [FirmwareNext]_firmwareVars
        => [Session!SessionNext]_Session!sessionVars
  <2> SUFFICES ASSUME FirmwareInv, SessionInv, [FirmwareNext]_firmwareVars
               PROVE  Session!SessionNext \/ UNCHANGED <<out, calls, exc>>
    BY DEF Session!sessionVars
  <2>1. CASE StartupCode /\ UNCHANGED <<benchVars, attached, resets>>
    BY <2>1, StartupImplements
  <2>2. CASE BenchCode
    BY <2>2, BenchImplements
  <2>3. CASE UNCHANGED <<startupVars, benchVars, attached, out, resets>>
    BY <2>3 DEF startupVars, faultVars, benchVars, pastVars
  <2>4. CASE SystemReset
    BY <2>4
       DEF SystemReset, StartupReset, BenchReset, Session!SessionNext, Session!Restart
  <2>5. CASE Resume
    BY <2>5 DEF Resume, ResumeExit, ResumeReport, faultVars, benchVars, pastVars
  <2>6. CASE UNCHANGED firmwareVars
    BY <2>6 DEF firmwareVars, startupVars, faultVars, benchVars, pastVars
  <2> QED
    BY <2>1, <2>2, <2>3, <2>4, <2>5, <2>6 DEF FirmwareNext, Code, Hardware
<1> QED
  BY <1>1, <1>2, FirmwareInvariant, SessionInvariant, PTL
     DEF FirmwareSpec, SessionKept, Session!SessionSpec
=============================================================================
