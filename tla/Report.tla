------------------------------- MODULE Report -------------------------------
(***************************************************************************)
(* _semihost_write_seconds() and _semihost_write_avg_ns() of src/main.cpp: *)
(* the arithmetic between a cycle count and the numbers on the console.    *)
(* Each division is a call of udivmod64, run step by step by module        *)
(* Udivmod.  The code's 64- and 32-bit unsigned words are W and Word32Bits *)
(* bits wide, so that TLC can reach their limits.                          *)
(***************************************************************************)
EXTENDS Udivmod

CONSTANTS
  Word32Bits,  (* Width of uint32_t.                                       *)
  CpuFreq,     (* kCpuFreq: cycles in a second.                            *)
  Nano,        (* Nanoseconds in a second: 1000000000 in the code.         *)
  CycleCounts, (* The cycle counts main may report, and ...                *)
  RunCounts    (* ... the values m_runs may have.                          *)

Milli  == 1000
Word32 == 0..(Pow2[Word32Bits] - 1)

(* The counter has 32 bits, and main reports one count that needs 33: its  *)
(* wrap.                                                                   *)
ASSUME ReportAssumption ==
  /\ Word32Bits \in 1..(W-1)
  /\ CpuFreq \in Nat \ {0} /\ Nano \in Nat \ {0}
  /\ CycleCounts \subseteq 0..Pow2[Word32Bits] /\ RunCounts \subseteq Word32

(* uint32_t is the low part of uint64_t, and 2^32, 180 * 10^6 and 10^9     *)
(* leave the products of the code below 2^64.                              *)
ASSUME RangeAssumption ==
  /\ Modulus % Pow2[Word32Bits] = 0
  /\ CpuFreq > 1 /\ Milli < Pow2[Word32Bits]
  /\ CpuFreq * (Milli + 1) <= Modulus
  /\ Pow2[Word32Bits] * (Nano + CpuFreq) <= Modulus

VARIABLES
  rpc,           (* "sec", "ms", "ns": the quotient the report waits for;  *)
                 (* "seconds", "average": what it has printed.             *)
  cycles, runs,  (* The arguments.                                         *)
  sec, ms, ns,   (* The quotients as they are printed, 32 bits each.       *)
  zeros          (* How many "0" are printed in front of ms.               *)

reportVars == <<rpc, cycles, runs, sec, ms, ns, zeros, udivVars>>

(* Conversions to uint32_t and arithmetic on uint64_t.                     *)
To32Not(x) == x
To32(x) == x % Pow2[Word32Bits]
To64(x) == x % Modulus
-----------------------------------------------------------------------------
ReportInit ==
  /\ UdivInit
  /\ rpc = "idle" /\ cycles = 0 /\ runs = 0
  /\ sec = 0 /\ ms = 0 /\ ns = 0 /\ zeros = 0

(* A report is written with locals of its own.                             *)
Begin(wait, total, n) ==
  /\ rpc \in {"idle", "seconds", "average"}
  /\ rpc' = wait /\ cycles' = total /\ runs' = n
  /\ sec' = 0 /\ ms' = 0 /\ ns' = 0 /\ zeros' = 0

Divided(wait) == rpc = wait /\ dpc = "ret"

(* udivmod64(cycles, kCpuFreq, frac)                                       *)
WriteSeconds(c) == Begin("sec", c, 0) /\ UdivCall(c, CpuFreq)

(* frac * 1000U + kCpuFreq / 2U                                            *)
MillisOf(frac) == To64(frac * Milli + CpuFreq \div 2)

(* udivmod64(frac * 1000U + kCpuFreq / 2U, kCpuFreq, ms_rem)               *)
DivideMillis ==
  /\ Divided("sec")
  /\ sec' = To32(q)
  /\ UdivCall(MillisOf(rem), CpuFreq)
  /\ rpc' = "ms"
  /\ UNCHANGED <<cycles, runs, ms, ns, zeros>>

(* Leading zeros, as the two if statements print them.                     *)
PadOnce(v) == IF v < 100 THEN 1 ELSE 0
Padding(v) == (IF v < 100 THEN 1 ELSE 0) + (IF v < 10 THEN 1 ELSE 0)

ShowSeconds ==
  /\ Divided("ms")
  /\ ms' = To32(q) /\ zeros' = Padding(To32(q))
  /\ rpc' = "seconds"
  /\ UNCHANGED <<cycles, runs, sec, ns, udivVars>>

(* (uint64_t)runs * kCpuFreq, and the same product in 32 bits.             *)
NarrowDivisor(n) == To32(n * CpuFreq)
Divisor(n)       == To64(n * CpuFreq)

(* udivmod64(total_cycles * 1000000000ULL + divisor / 2U, divisor, rem)    *)
WriteAvg(total, n) ==
  /\ Begin("ns", total, n)
  /\ UdivCall(To64(total * Nano + Divisor(n) \div 2), Divisor(n))

ShowAvg ==
  /\ Divided("ns")
  /\ ns' = To32(q)
  /\ rpc' = "average"
  /\ UNCHANGED <<cycles, runs, sec, ms, zeros, udivVars>>

Dividing ==
  /\ UdivIterate \/ UdivReturn
  /\ UNCHANGED <<rpc, cycles, runs, sec, ms, ns, zeros>>

ReportNext ==
  \/ \E c \in CycleCounts : WriteSeconds(c)
  \/ \E c \in CycleCounts \cap Word32, n \in RunCounts : WriteAvg(c, n)
  \/ DivideMillis \/ ShowSeconds \/ ShowAvg \/ Dividing

ReportSpec == ReportInit /\ [][ReportNext]_reportVars
-----------------------------------------------------------------------------
ReportTypeOK ==
  /\ UdivTypeOK
  /\ rpc \in {"idle", "sec", "ms", "ns", "seconds", "average"}
  /\ cycles \in 0..Pow2[Word32Bits] /\ runs \in Word32
  /\ sec \in Word32 /\ ms \in Word32 /\ ns \in Word32 /\ zeros \in 0..2

(* No argument of a division has wrapped: 64 bits hold cycles * 10^9 plus  *)
(* half the divisor, and 32 bits hold sec and ms without their casts.      *)
ArgumentsFit ==
  /\ rpc = "ms" => dividend = (cycles % CpuFreq) * Milli + CpuFreq \div 2
  /\ rpc = "ns" => /\ den = runs * CpuFreq
                   /\ dividend = cycles * Nano + den \div 2
  /\ rpc = "seconds" => ms = q /\ sec = cycles \div CpuFreq

(* How many digits _semihost_write_uint prints for ms, 1000 at most.       *)
Digits(v) == 1 + (IF v >= 10 THEN 1 ELSE 0) + (IF v >= 100 THEN 1 ELSE 0)
               + (IF v >= 1000 THEN 1 ELSE 0)

(* The two numbers printed around the point are the time in milliseconds,  *)
(* rounded to the nearest, and three digits follow the point whenever      *)
(* three digits can hold the second of them.                               *)
SecondsRounded ==
  rpc = "seconds" =>
    /\ sec * Milli + ms = (cycles * Milli + CpuFreq \div 2) \div CpuFreq
    /\ ms < Milli => zeros + Digits(ms) = 3

(* "Print seconds with 3-digit millisecond precision" (src/main.cpp:81).   *)
ThreeDigitMillis == rpc = "seconds" => zeros + Digits(ms) = 3

(* ns is the number of nanoseconds nearest to one run's share of cycles.   *)
Distance(x, y) == IF x < y THEN y - x ELSE x - y
Share     == runs * CpuFreq
IsAverage == 2 * Distance(ns * Share, cycles * Nano) <= Share

(* avg is that number, if there were runs at all and a run took less than  *)
(* 2^32 - 1 ns; with no runs udivmod64 divides by zero, avg is a word of   *)
(* ones.                                                                   *)
AverageRounded ==
  rpc = "average" =>
    IF runs = 0 THEN ns = Pow2[Word32Bits] - 1
    ELSE (cycles * Nano) \div Share < Pow2[Word32Bits] - 1 => IsAverage

(* "avg - per-run average in nanoseconds" (README.md:299), of every        *)
(* measurement below the wrap.                                             *)
AverageInNanoseconds == rpc = "average" /\ runs # 0 => IsAverage

(* Inductive with DivInv: which quotient a report waits for, and what it   *)
(* has made of the earlier ones.                                           *)
ReportInv ==
  /\ ReportTypeOK
  /\ rpc = "idle" <=> dpc = "idle"
  /\ rpc \in {"seconds", "average"} => dpc = "ret"
  /\ rpc = "sec" => den = CpuFreq /\ dividend = cycles
  /\ rpc \in {"ms", "seconds"} =>
       /\ den = CpuFreq /\ dividend = (cycles % CpuFreq) * Milli + CpuFreq \div 2
       /\ sec = cycles \div CpuFreq
  /\ rpc = "seconds" => ms = q /\ zeros = Padding(q)
  /\ rpc \in {"ns", "average"} =>
       /\ den = runs * CpuFreq /\ dividend = cycles * Nano + den \div 2
  /\ rpc = "average" => ns = To32(q)
=============================================================================
