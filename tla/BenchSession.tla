---------------------------- MODULE BenchSession ----------------------------
(***************************************************************************)
(* What one run of the image promises to the person at the console: a      *)
(* heading, then the results of a measurement that made every one of its   *)
(* calls, or a report that names a crash; never results after a crash, and *)
(* never a second line of a kind.  A reset starts over with a fresh        *)
(* console.                                                                *)
(***************************************************************************)
EXTENDS Naturals, Sequences

CONSTANTS Runs,    (* How many calls a measurement makes.                  *)
          Wrap,    (* Results are below this number of cycles.             *)
          Reports, (* Crashes that are reported by name, ...               *)
          Silent   (* ... and those the console does not show.             *)

VARIABLES console, done, crashed

sessionVars == <<console, done, crashed>>

Line(text, value) == [text |-> text, value |-> value]

Heading == <<Line("--- start ---", 0), Line("wrap", Wrap), Line("runs", Runs)>>

Show(line) == console' = Append(console, line) /\ UNCHANGED <<done, crashed>>

SessionInit == console = <<>> /\ done = 0 /\ crashed = "none"

ShowHeading ==
  /\ crashed = "none" /\ Len(console) < Len(Heading)
  /\ Show(Heading[Len(console) + 1])

(* The measurement (re)starts its count and makes its calls.               *)
Measure ==
  /\ crashed = "none" /\ console = Heading
  /\ done' \in {0, done + 1} /\ done' <= Runs
  /\ UNCHANGED <<console, crashed>>

ShowDt ==
  /\ crashed = "none" /\ console = Heading /\ done = Runs
  /\ \E cycles \in 0..(Wrap - 1) : Show(Line("dt", cycles))

ShowAvg ==
  /\ crashed = "none" /\ Len(console) = 4
  /\ Show(Line("avg", console[4].value))

(* The user's code crashes before the heading or in the measurement, which *)
(* it leaves incomplete; a crash may turn into one that takes precedence.  *)
Crash ==
  /\ console \in {<<>>, Heading}
  /\ crashed = "none" => console = <<>> \/ done < Runs
  /\ crashed' \in Reports \cup Silent
  /\ UNCHANGED <<console, done>>

(* The three strings of a report follow an empty console or a heading, and *)
(* each other.                                                             *)
Report(k) == SubSeq(<<Line("*** fault:", 0), Line(crashed, 0), Line("***", 0)>>, 1, k)

ShowReport ==
  /\ crashed \in Reports
  /\ \E before \in {<<>>, Heading}, k \in 0..2 :
       console = before \o Report(k) /\ Show(Report(k + 1)[k + 1])

Restart == console' = <<>> /\ done' = 0 /\ crashed' = "none"

SessionNext ==
  ShowHeading \/ Measure \/ ShowDt \/ ShowAvg \/ Crash \/ ShowReport \/ Restart

SessionSpec == SessionInit /\ [][SessionNext]_sessionVars
=============================================================================
