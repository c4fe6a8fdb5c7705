# A verification of nucleo-bench

TLA+ models of the firmware of this repository, TLC configurations that check
them on small instances, and theorems about them checked by TLAPS.  Paths such
as `startup.c:268` are relative to `src/`, the firmware's source directory, except
`README.md:299`, which is the repository's own README.

nucleo-bench is a bare-metal program for an STM32F446 board.  It has no threads,
but it is not simply sequential either: it polls hardware that answers in its own
time, it can be reset at any instruction while RAM and the cycle counter live
on, user code may fault at any point, every line of output halts the core until
a debugger serves it, and the 32-bit counter it measures with wraps silently.
The models are about these,
and about the two libraries under user code: the heap and console stubs below
newlib, and the header-only string formatter.

## 1. Inventory

| Part | State | Operations | Works with |
|---|---|---|---|
| Startup (`startup.c`, `linker/stm32f446re.ld`) | RAM sections, copy pointers, FPU and fault enable bits | `Reset_Handler`, `_memcpy`, `_memset`, constructor tables, `_exit_breakpoint` | calls clock bring-up, constructors, `main` |
| Fault reporting (`startup.c`) | active exception | four fault handlers, `_fault_report`, `Default_Handler` | preempts everything; prints by semihosting |
| Clock bring-up (`clock.c`) | RCC, PWR and FLASH registers | `_sysclk_180mhz`: 8 writes, 4 polls | oscillator, regulator |
| Cycle counter (`clock.c`) | `DEMCR.TRCENA`, `DWT_CTRL`, `DWT_CYCCNT` | `_dwt_init`, `_dwt_zero`, `_dwt_cyccnt` | survives a system reset |
| Runner and `main` (`main.cpp`) | `m_runs`, the loop counter, `t1` | `AlgoRunner`'s constructor and `run`, `main` | everything above |
| 64-bit division (`main.cpp`) | words of the shift-subtract loop | `udivmod64` | the two number reports |
| Console numbers (`main.cpp`) | locals, the 11-byte digit buffer | `_semihost_write_uint`, `_semihost_write_seconds`, `_semihost_write_avg_ns` | division, semihosting |
| Semihosting (`semihost.c`) | what the host has printed | `_semihost_write0` | the debugger, or a fault without one |
| Debugger session (`debug.gdb`, `openocd.cfg`) | attached or not | reset, break at exit, continue | the whole image |
| newlib syscalls (`syscalls.c`) | the program break | `_sbrk`, `_write`, constant stubs | linker symbols, semihosting |
| `operator new`/`delete` (`new.cpp`) | none | forward to `malloc` and `free` | newlib |
| Fixed format buffer (`ffb/fixed_format_buffer.h`) | buffer, length, parser position | clear, write, append, format, copies | used by one bundled algorithm |
| Bundled algorithms, optimizer barriers | none | `algo()` | called by the runner |

What is hard, and what makes each part correct:

* **Startup.**  RAM is dirty after a warm reset, so an off-by-one in a section
  bound hides on a cold board.  Correct: user code only ever runs with FPU,
  fault handlers, 180 MHz and RAM exactly as the image says (`RuntimeReady`),
  and startup writes nothing outside `.data` and `.bss`
  (`StartupWritesInBounds`).
* **Clock bring-up.**  Writes that take effect only after other writes, and polls
  without timeout.  Correct: the core never runs from a clock that wait states
  or over-drive do not cover (`CoreClockInSpec`), nothing is reprogrammed
  while it is in use (`ClockProtocol`), and every poll ends (`BootProgress`).
* **Fault reporting.**  Masked faults escalate; three print calls lie between
  the fault and the halt; printing itself faults without a debugger.  Correct:
  the report names the cause (`FaultReportNamesCause`).
* **Measurement.**  The counter survives resets and wraps.  Correct: what is
  printed is the cost of the printed number of calls (`ResultTruthful`), and
  the console shows a complete measurement or a crash and never a mixture
  (`SessionKept`).
* **Arithmetic.**  Division bit by bit, 64-bit intermediate products, rounding,
  a digit buffer without bounds check.  Correct: `DivideCorrect`, `NoBitLost`,
  `ArgumentsFit`, `SecondsRounded`, `AverageRounded`, `StoreInBuffer`,
  `PrintsNumeral`.
* **newlib syscalls.**  One comparison of a sum that may have wrapped; a chunk
  buffer that is never cleared.  Correct: the heap stays out of the stack
  reservation (`BreakBelowStack`) and malloc's blocks apart (`BlocksApart`), the
  reserved heap is all there (`HeapGuarantee`), and a text arrives whole, in
  order and without a byte of an earlier chunk (`PrintedText`).
* **Buffer objects.**  The length and the terminator are two pieces of state, and a
  source may lie in the very buffer that is written.  Correct: they agree between
  calls (`Terminated`), no loop reads outside its source (`ReadsInBounds`), and
  every call makes the text that its arguments had when it was made
  (`TextsKept`).
* **Formatting.**  A hand-written parser that must stay in step with `va_list`, a
  layout in two passes, floats split by multiplication, one bounds check.
  Correct: `ParsedAsWritten`, `ArgumentsAligned`, `FieldAsSpecified`,
  `FloatAsSpecified`, `TruncatedPrefix`.

`PROJECT.json` lists every hazard with its line and the properties that cover
it; a hazard that none covers yet has a note.

## 2. Modules

```
Clock ----+                                       Udivmod --- Report
          +-- Startup -- Bench -- Firmware        FfbNumbers -- FfbFormat
Semihost -+                                       WriteUint
          +-- Syscalls                            FfbBuffer

refines:    Firmware => BenchSession,  FfbBuffer => TextObjects
proofs:     FirmwareProofs -- SessionProofs, ReportProofs, WriteUintProofs,
            SyscallsProofs, FfbBufferProofs, FfbFormatProofs; NumberFacts below them
```

A line to the right is `EXTENDS`; each `X` with a run has its `MCX`, and each proof
module extends the module it is about (`ReportProofs` has the division's theorems too).
`NumberFacts` has the lemmas that several of them need: on division, remainders and
minima, and on recursive functions, which exist (`RecursionExists`) and are determined by their
equation (`RecursionUnique`).  The composed image has one state space;
each of its modules owns its variables and leaves the others `UNCHANGED`.

**`Clock`** is `_sysclk_180mhz()`.  A register is the set of its bits that are 1,
so the literals of the code become sets of bit numbers and a read-modify-write
is set algebra.  One statement is one action.  A polling loop is an action
enabled once its bit is set: the turns that find it clear change nothing.
`Store` knows which bits are status bits, and that `PWR_CR` ignores writes while
its clock is off.  `HwOverdriveReady`, `HwOverdriveSwitched`, `HwPllLock` and
`HwSwitchClock` are the answers of the hardware; they are external, and modelled
by what the code waits for.  The operators below them (`PllN`, `CoreMHz`,
`Apb1Divider` ...) read the clock tree off the registers.

**`Semihost`** is one operation, `Write0`.  The console is a sequence of items,
each a text and the number printed with it.  An item stands for what one call
of a report function prints, so `"dt"` with `t1` stands for the calls
main.cpp:149-150; what the number looks like is `Report`'s matter.

**`Startup`** is `startup.c`.  `spc` is the next statement of `Reset_Handler`; `At`
adds that no exception is being handled.  `CopyCell` and `ZeroCell` are one turn
of `_memcpy` and `_memset`; a cell stands for a byte.  Constructor tables are
sequences of `"user"` and `"runner"` entries: the second is `g_runner`'s
constructor, which the linker places in `.init_array`.  User code (a constructor
or `algo()`) may write its own cells, fault, or unmask an interrupt that has no
handler but `Default_Handler`.  `Escalated` is the rule that a masked fault is taken
as HardFault; `BkptFaults` is what a `bkpt` does with no debugger: HardFault
first, lockup inside HardFault.  `cause` is a history variable.

**`Bench`** is `main`, `AlgoRunner::run` and the counter.  A call of `algo()`
takes any number of cycles from `CallCycles`, loop overhead included, and the
counter advances modulo `CounterModulus`.  `elapsed` and `calls` are history
variables: the real cycles and calls since the measurement began.

**`Firmware`** composes them: `Code` (the core's next instruction, whichever it
is), `Hardware`, `SystemReset` (RAM and the DWT keep their contents, all else
is reset) and `Resume` (someone types "continue").  The console starts over
with a reset, as the reader of `make run_release` sees it.

**`BenchSession`** is the abstract specification: three variables and no startup,
clock, counter or handlers.  A heading appears line by line, calls are counted,
`dt` appears only when all calls were made and no crash happened, a crash comes
before the heading or before the last call has returned and may be followed only
by the lines of a report that names it, and a reset starts over.  `Firmware` implements it under the mapping `console <- out`,
`done <- calls`, `crashed <- exc` (property `SessionKept`).

**`Udivmod`** is `udivmod64` on words of `W` bits, one turn of the loop per step.
Powers of two are a constant function with its recurrence as an assumption:
TLC gets values, the provers get facts.

**`Report`** is `_semihost_write_seconds` and `_semihost_write_avg_ns`: every
division is run by the steps of `Udivmod`, and every cast and 64-bit product keeps
its width (`To32`, `To64`).

**`WriteUint`** is `_semihost_write_uint`, one digit per step.

**`Syscalls`** is `_sbrk` and `_write`, called one at a time and in any order, with
a reset in between or in the middle.  An address is a number modulo
`AddressSpace`, so `heap_end + incr` wraps as the compared pointers do; `incr` is any
`ptrdiff_t`.  `blocks` is the set of the address ranges malloc believes it holds and `strayed` whether it gave
back more than it got: the code allows that, so what the properties say of
blocks is said of a malloc that does not.  `chunk` starts out with `Stale` bytes and
keeps what earlier turns left.  `Write0` is `Semihost`'s, and faults without a
debugger; `CString` is how far the host reads.

**`TextObjects`** is what buffer objects promise: a text each, of at most `N`
characters, and calls that replace one of them by `Result`, computed when the
call is made.  A format that puts characters in front of its own source before
it reads it (`Tangled`: always with `Append` of one's own text, and with a format
whose literal or left padding comes first) promises no more than some text that fits,
which an append leaves starting with the old one.

**`FfbBuffer`** is the buffer object in memory, `buffer_` as `cells` and `size_` as
`size`, with construction, copy, move, `Clear`, both `Write`s, and `Format` and `Append`
of a literal and one `%s`.  `WriteChar` and `PutChar` copy one character, `Measure` is the
counting pass and the padding on the left, and the returns set length and
terminator.  A pointer may point into any object, the written one included, or
at a literal.  `Write(s, 0)` is `Clear`, `Write` of a null pointer changes nothing and
`Write(nullptr, len)` clears, so none of them has an action of its own.
`Promised` implements `TextObjects`; while a call runs its object counts as still
having the text from before.

**`FfbNumbers`** is the number conversions as operators that return characters.
`AbsAsU64` keeps the two casts, `FloatRound` is the rounding of every float product,
and `ComponentsWith` splits a float as `GetComponents` does, carry included.  A float
is a number of ticks, a tick being the smallest fraction there is, `2^-TickBits`; its
type has so many leading bits.

**`FfbFormat`** is one call of `Format` or `Append`: `fmt` as it lies in memory, up to its
terminator (in `ffb_incomplete` another constant follows), `args` as `va_list`.  Each `Parse*` helper is a
step, and each case of `DispatchSpecifier`; a field is laid out by `SpacePadded` or
`ZeroPadded`, and everything goes through `PutAll`, which is `Gadget::Put` of a sequence and
counts on beyond the buffer modulo `SizeModulus`.  `Rendered` and `Passed` are the
caller's side (external): they turn a list of literals and conversions into
string and arguments, so the parser has to find again what was meant.
`FormatInit` admits what `kIsValidFormatArg` of the policy accepts.

`PROJECT.json` maps each definition to the lines it models.  Names follow the
source where TLA+ allows; in `Udivmod` they are the code's own (`num`, `den`, `q`,
`r`, `i`).

## 3. Runs

| Run | Module, states | What it shows |
|---|---|---|
| `firmware` | `MCFirmware`, 57 792 | all safety, action, refinement and liveness properties of the image, and its two inductive invariants |
| `udivmod` | `MCUdivmod`, 7 169 | every division of 5-bit words |
| `write_uint` | `MCWriteUint`, 1 611 | every value as long as the buffer allows |
| `report` | `MCReport`, 5 624 | reports around every rounding and overflow boundary |
| `syscalls` | `MCSyscalls`, 66 588 | heap requests of every size in every order; every text up to two chunks and a byte |
| `ffb_buffer` | `MCFfbBuffer`, 1 583 156 | every sequence of calls on two objects, sources inside either |
| `ffb_format` | `MCFfbFormat`, 67 784 | 8 296 format calls, from string and arguments to the buffer |
| `prescalers`, `report_carry`, `report_average`, `ffb_rounding`, `ffb_incomplete` | violations | section 6 |

**Bounds of `firmware`.**  RAM has six cells: two of `.data`, three of `.bss` (the
middle one holds `g_runner`) and one of heap, so each section has a first and a
last cell, a cell user code writes, and a neighbour that an overrun would hit.
RAM powers up all zero or all dirty.  Up to two resets (`MaxResets`) come at
any step: one is enough to boot from what an earlier boot left, two to reset
during the recovery.  The measurement makes three calls of one or three cycles
on a counter modulo 8: totals from 3 to 9, so that the counter wraps in some
runs and not in others, and a reset finds the counter at every value.  Each of
the three configurable faults and the interrupt may strike in each user
constructor and in each call.  A debugger is attached or not for the whole run.
Registers are not bounded: `Clock` has the real bit positions and values.

**Bounds of `udivmod`.**  Five bits: every dividend and every divisor, zero and those
above half the range included.  Each turn depends on the words only through one comparison and the
top bit, and five turns meet every combination of both.  The theorem of
section 5 removes the bound.

**Bounds of `write_uint`.**  A buffer of four bytes and values to 429 stand for
eleven bytes and 4 294 967 295: in both the largest value has just as many
digits as fit before the terminator.

**Bounds of `report`.**  A scaled instance: counts of 12 bits, words of 28 bits, 2 000
cycles per second, 50 000 "nanoseconds" per second.  The ratios keep what
matters: a millisecond is two cycles (so rounding has exact halves), the
counter's wrap is about two seconds (the carry of section 6 is reachable), the
largest count times `Nano` plus half the largest divisor fits the wide word but
the product of runs and frequency does not fit the narrow one, and an
average can exceed the narrow word.  The counts are those next to a whole
second, half a millisecond, the 9/10 and 99/100 digit changes and the wrap; the
runs include zero.

**Bounds of `syscalls`.**  64 addresses, RAM in the lowest quarter of them, a heap of
four bytes, all of them reserved, and two of stack: increments of
-32 to 31 reach below `_sheap`, beyond the limit, beyond RAM and around the address
space both ways.  A chunk of two bytes and texts of up to five, of two letters
and NUL: no, one and two full chunks, with and without a rest, and a NUL at
every place of each.  The theorems of section 5 remove the bounds of `_sbrk`.

**Bounds of `ffb_buffer`.**  Two objects of three characters, one letter and the
space, a literal longer than an object and one with a NUL inside, formats with
a literal, padding left and padding right.  A pointer starts at every offset of
either object, the terminator included (so the empty string is there), so
sources overlap the destination in front and behind, and texts are longer
than, as long as and shorter than the room left.  Every object is reached in
every state that some sequence of calls leaves, old characters behind the
terminator included.

**Bounds of `ffb_format`.**  The C types are scaled: char 3 bits, short 4, int and
long 5, long long 7; a float has 8 leading bits and a double 12, and 256 ticks make
one (`TickBits` is 8).  The policies are the standard one, one with the wide types, and one without
decimals.  Precision is 2 at most, the buffer has 6 characters and `size_t` wraps at
32: a width of 10 already cuts the field off, a buffer is full before, at
or after any part of it.  The calls take every set of flags with widths absent,
in digits, in a star of either sign; the extreme values of each type
through each modifier and policy; every value of the standard float up to 4 and
some it has to round, at every precision, hence halves, carries and products that
are themselves rounded; the special values; the call of
`algo_ffb`; calls with several arguments; appends to a buffer that is empty, nearly
full and full.

`CHECK_DEADLOCK FALSE` appears only where the system may really stop: the image
ends halted at a breakpoint, in `while (1)`, or locked up; and the one call
of `FfbFormat` returns.

## 4. Fairness

`FairSpec` has weak fairness on `Code`, because a core that is not halted
executes its next instruction, and on each of the four hardware answers, because
an oscillator or regulator that was switched on becomes ready; the datasheet
bounds the time and the code relies on it by polling without a timeout.  There
is none on `SystemReset`, on `Resume` or on faults: nobody has to press reset,
and user code need not crash.  `Code` is one action because one core executes
it; at most one part of it is ever enabled, apart from the choice between a user
step that works and one that faults.  `BootProgress` holds under this: every
boot ends at the exit breakpoint with five lines, at the breakpoint behind a
fault report, in `Default_Handler`, or, without a debugger, locked up.  It
holds for a boot cut short by a reset because the bounded number of resets
ends.

`FfbSpec` has weak fairness on `FfbStep`, the next step of a call that runs: nothing
waits, the code is a loop that one core executes.  There is none on `FfbCall`, for
nobody has to call.  `CallsReturn` holds under this: every step reads further on
in the source, and a source that is overwritten still has a terminator in the last cell.

## 5. Proofs

| Theorem | For every |
|---|---|
| `UdivInvariant`, `UdivTypes`, `UdivCorrect`, `UdivLosesNoBit` | word width, dividend and divisor |
| `ReportInvariant`, `ReportTypes`, `ReportArgumentsFit`, `ReportSecondsRounded`, `ReportAverageRounded` | widths of both words, frequency, cycle count and number of runs that `RangeAssumption` admits |
| `FirmwareInvariant`, `FirmwareTypes` | RAM layout, image, power-up contents, constructor tables, counter width, call costs, number of runs and resets |
| `FirmwareClockInSpec`, `FirmwareClockProtocol` | the same: any interleaving of code, hardware and resets |
| `FirmwareRuntimeReady`, `FirmwareStartupWritesInBounds` | the same |
| `SessionInvariant`, `ReportsNameCause`, `ResultsAreTruthful` | the same |
| `SessionImplemented` (`Firmware` implements `BenchSession`) | the same |
| `UintInvariant`, `UintTypes`, `UintStoresInBuffer`, `UintPrintsNumeral` | buffer length and range of values with enough digits |
| `HeapInvariant`, `BreakStaysBelowStack`, `HeapIsGuaranteed`, `BlockInvariant`, `BlocksStayApart` | RAM layout the linker script accepts, sequence of requests, writes and resets |
| `WriteInvariant`, `WritePrintsText`, `SyscallsTypes` | chunk length and set of texts; the same sequences |
| `FfbInvariant`, `FfbTypes`, `FfbTerminated`, `FfbReadsInBounds`, `FfbEqualityIsTextual` | capacity, number of objects, alphabet, literal and format, sequence of calls |
| `FfbTextsKept` (`FfbBuffer` implements `TextObjects`) | the same |
| `FormatInvariant`, `FormatTypes`, `FormatParses`, `FormatAligns`, `FormatFields`, `FormatDecimals`, `FormatTruncates` | list of literals and conversions, arguments, policy, widths of the C types, alphabet, capacity, size of `size_t`, fineness of floats |

Assumptions, all named and in the module that declares the constant:
`WidthAssumption` and `Pow2Assumption` (`Pow2` is the powers of two),
`LayoutAssumption` (the sections fit into RAM in the linker script's order,
`g_runner` is in `.bss` and user code does not write it), `TableAssumption`
(`g_runner`'s constructor is in `.init_array`), `CounterAssumption`,
`ResetsAssumption`; `EnoughDigits` (the largest value has fewer digits than the
buffer has bytes) and `BufferAssumption` (`Pow10` is the powers of ten);
`HeapAssumption` (the linker script's `ASSERT`, and RAM in the lower half of the
address space but not at address zero, which is what makes the comparison of wrapped
sums right); `ConsoleAssumption` (a chunk has room for a byte, texts are strings);
`RangeAssumption` of `Report` (the narrow word's modulus divides the wide one's, and
the wide word holds the largest count times `Nano`, half a divisor more);
`BufferAssumption` of `FfbBuffer` (a capacity of one or more, literals and formats are
strings, the space is a letter and NUL is none, and `None` is not the arguments of a
call); `NumbersAssumption` (the characters the code itself puts are there, precisions and
widths are as the header's comment asks), `DecimalsAssumption` (`Pow10` is exact in
`FloatType`: 10^6 is below 2^24, and a user's policy with `float` and more than seven places would
not satisfy it) and `CallsAssumption` of `FfbFormat` (arguments have the type that the conversion
asks for, literals hold no percent sign, which is written `%%` except at the very end,
and a capacity is below the modulus of `size_t`).  TLC evaluates each on the instances it checks.

**Division.**  `DivideCorrect` says nothing of the loop and is not inductive.
`DivInv` adds the loop invariant: the bits of the dividend shifted out so far
are the number `q * den + r`, those to come are `num` (`Consumed`, with both sides
scaled by `2^W` so that no bit is ever dropped from the equation), `q < 2^i`,
`r < 2^i`, and `r < den`.  `r < 2^i` keeps `r << 1` within the word for every divisor;
`r < den` alone would do so only up to `2^(W-1)`, which is all the callers need: theirs
are `kCpuFreq` and `runs * kCpuFreq`, below `2^60`.
A zero divisor has a case of its own: `q` is then all ones.  `ReportProofs` first
proves the arithmetic (`Powers`, `ShiftSplits`, `LoopBounds`) and then one lemma per
action.

**The reports.**  `ReportInv` says at each statement which quotient the report waits
for: `dividend` and `den` as numbers that have not wrapped, and what earlier
divisions have put into `sec` and `ms`.  With `DivInv`, which every division of a report
keeps, it is inductive (`ReportInvariant`); the rounding properties follow
because a quotient with remainder is unique (`DivisionUnique`).  `CodeInRange`
shows that 180 MHz, 64 and 32 bits, a thousand and a billion satisfy
`RangeAssumption`.  TLC checks `DivInv` in run `udivmod` and not in run `report`: there
its products exceed the 32 bits of TLC's integers.

**The image.**  `RuntimeReady` needs to know, at the first constructor, what
happened since the reset.  `FirmwareInv` keeps it along the way: `LoaderInv` says
that the cells below `dst` are initialised and that `dst + n` is the section's
end; `PhaseInv` says which of FPU, clock and fault enables are in place at each
point and whether `g_runner`'s constructor has run; `ClockInv` says which
registers the statements already executed have fixed, and that nothing but the
last write selects the PLL.  `FirmwareProofs` first proves `ClockInv` for the code, the
hardware and the reset one by one, then adds the types and the rest, one step per
action.  `FirmwareClockProtocol` needs of it at which
statements the PLL is still off, over-drive ready and the PLL locked, and that the
hardware sets status bits only.  `FirmwareStartupWritesInBounds`
follows from `LoaderInv`: while `n > 0`, `dst` is inside its section.

**The console.**  What a reader sees at the end depends on steps long past: the count
of calls, the counter started at zero, the fault taken.  `SessionInv` ties them
together.  `ConsoleInv` says that the console is the first `ResultLines` of the
five results, then the first `ReportLines` of the fault report, both functions of
where the program is.  `MeasureInv` says that from `_dwt_zero` on `cnt` is
`elapsed` modulo the wrap and `calls` is `r`, and that `t1` keeps the value.
`CrashInv` says where user code can have crashed, that with a debugger the active
exception is the fault itself, and that without one nothing is printed.
`ResultTruthful` and `FaultReportNamesCause` are read off it.
`SessionImplemented` maps every action to an action of `BenchSession` or a stutter:
`ShowHeading`, `ShowDt` and `ShowAvg` to the print calls of `main`, `Measure` to
`_dwt_zero` and to a call that returns, `Crash` to every exception, `ShowReport`
to the fault handler's prints, `Restart` to a reset.

**The digit buffer.**  `UintInv` relates the room left to the digits to come: in the
loop `ptr >= 1` and `val < 10^ptr`.  Storing a digit divides both by ten
(`TenthBelow`), and a value below `10^1` has its last digit stored.  It also says that
`val` is the argument divided by the power of ten of the digits stored and that these
are its last ones, so nothing is left over when `val` is zero.  Dividing twice is
dividing by the product (`QuotientOfQuotient`).

**The heap.**  `WrappedSum` is the argument: with RAM in the lower half, `heap_end +
incr` modulo the address space is the true sum whenever that lies between 0 and
the limit, and is above the limit whenever the true sum is above it.  A true sum
below zero wraps to an address at or above the middle and is refused too.
`HeapInv` adds that `heap_end` is at `_sheap` or above unless malloc strayed, from which
`HeapGuarantee` follows.  `BlocksApart` is inductive as it stands, given that a granted
request moves the break by its true value (`GrantedEnd`): a block more starts where the
others end, and trimming cuts every block at the new end.

**The console stub.**  `WriteInv` says that the prints made so far are the chunks in
front of the bytes that remain, each up to its first NUL (`CStringIs`), and that
in the loop they are whole chunks, `Len(out) * ChunkLen` bytes.

**The buffer objects.**  A loop that reads a string while it writes the same memory
may overwrite the terminator it runs to.  `FfbInv` finds why it stops all the
same: `Stored` writes nothing at `N`, and neither does `WriteChar`, so cell `N`
is a NUL at all times.  `CallInv` says how far the source of the running call is
from its end, and `OthersTerminated` that the objects it does not write are as
between calls.  `EqualityIsTextual` follows because a text without NUL ends at the
first NUL of its buffer (`FirstNul`).  `LeastElement` of `NumberFacts` (from the
library's well-founded order on the naturals) shows that the `Min` in `Length` is one
of its set.

`FfbTextsKept` has to show that a loop that reads where it writes still copies what was
there when the call was made.  `TextInv` is the invariant: what is still to be
read is as it was then and the loop writes only in front of what it reads
(`Intact`), and what has been written is the beginning of the result
(`Progress`, with `Holds` for the part that fits).  A call that `TextObjects` calls
tangled keeps only the text in front of an append.  TLC checked `TextInv` on the
instance of `ffb_buffer` before it was proved.  There is one lemma per action; those that
start a call refine `Request`, those that return refine `Complete`, and the loops'
steps leave `Value`, the texts as the caller may count on them, unchanged.
The proof needs `FfbTypeOK` to say that `args` is the whole record of a
call (`Requests`): one field of it is not enough.

**Formatting.**  A parser reads what `Rendered` wrote, so the invariant has to name a place
in a string that it knows only as a fold over pieces.  `FormatInv` does it from what is
done: between conversions `at` and `next` are the lengths of what the first `k` pieces spell and
pass (`ScanAt`), inside one they are that plus the parts parsed so far, and `spec` holds just
those parts (`ParseInv`, at each of the five helpers).  That a helper stops where its part ends
rests on what the next part may begin with: no flag is a nonzero numeral, and neither a point,
a modifier nor a letter continues a run of flags or digits (`PlainFacts`, `WidthHead`, `PointHead`,
`ModHead`).  The prover cannot do induction over sequences, so `FlattenSeq`, `Digits`,
`Valued` and `Power` are unfolded as recursive functions: `RecursionExists` gives one,
`RecursionUnique` says that the definition is it, and what holds for all numbers is proved
from a least counterexample (`LeastElement`).  A written number is read back as itself
(`NumeralWritten`), in the format string as in the output.  TLC checked the parts of `FormatInv`
on the instance of `ffb_format` before they were proved.

`FormatFields` adds that a field's five parts (spaces, prefix, zeros, body, spaces) are the ones
`Laid` asks for (`LaidLeft`, `LaidRight`, `NumericLaid`), that the body is the shortest numeral
(`WrittenIsNumeral`), and that casting an argument to the modifier's width and then to the policy's gives
the value meant (`SignedRead`, `UnsignedRead`).  `FormatTruncates` is in `OutInv`: `Put` writes below
`N` only, and while the text is shorter than `SizeModulus` each character has a cell of its own
(`PutLands`).

`FormatDecimals` is about two roundings in a row.  The unit of `FloatRound` is a power of two
(`RoundUnit`), and for the product of a fraction and `10^precision` it divides one
(`UnitDividesTicks`: `10^precision` has no more bits than a float); hence
rounding never crosses a whole number (`RoundedBelow`) and is off by at most `2^-float` of the
product (`RoundError`).  Rounding the result to the nearest, with ties to even, adds half a unit at most, and the
carry happens just when the rounded fraction is `10^precision` (`SplitFacts`, for which `Pow10` has to
be exact).  With precision zero the half goes by the integral part, a case of its own (`Tied`).
So the decimal is never further than one from the nearest and is the nearest, ties to even,
whenever the product was exact (`SplitNear`).  `DecimalText` shows that the digits put are that
decimal's.

Only model-checked: `BootProgress` and `CallsReturn`, which are liveness under fairness and so out
of the prover's reach.  Every invariant and every other action property of a passing run is a
theorem.

## 6. Where code and text disagree

1. *Prescalers* (clock.c:30, run `prescalers`).  The comment promises APB1 = /4
   and APB2 = /2.  The codes are right but the shifts are those of another
   register layout, and both fields end up as 001, which divides by one.  The
   measurement does not use these buses.
2. *Milliseconds* (main.cpp:87, run `report_carry`).  Rounding to the nearest has no
   carry into the seconds, so 0.9995 s and more prints "1000" behind the point.
   `SecondsRounded` shows that the two numbers taken together are still right.
3. *Average* (main.cpp:77, run `report_average`).  The quotient is cut to 32 bits; an
   average of 2^32 ns or more, possible with five runs or fewer, is printed
   modulo 2^32 although README.md:299 calls it the average in nanoseconds.
4. *Banker's rounding* (ffb/fixed_format_buffer.h:628, run `ffb_rounding`).  Line 620
   promises round-half-to-even.  The fraction is multiplied by `10^precision` in
   `FloatType` first, which may move a value beside a half onto it: with the
   real float, 0.045f lies above 0.045 and `%.2f` prints 0.04.  `FloatAsSpecified` shows
   that nothing is lost beyond that one rounding, and that ties go to even
   whenever the product is exact.
5. *Cut-off conversion* (ffb/fixed_format_buffer.h:1120, run `ffb_incomplete`: a literal and `%-5.1ld`,
   cut off behind each of its characters, with another constant behind it).  A `%` at the
   end of a format string ends the loop (line 1109), but after `"%5"` or
   `"%l"` the terminator itself is dispatched as the letter.  It is put into the
   buffer behind a `%`, and parsing goes on behind it.  The length returned then
   counts a NUL, which line 301 excludes.

The limit that README.md states, that a measurement must not reach the counter's
wrap, is in `ResultTruthful`: the printed number is exact below it and taken modulo
the wrap beyond it.

## 7. Not modelled

* The other stubs of `syscalls.c`: they return constants, and set an `errno` that
  nothing here reads.
* `new.cpp`: forwards to newlib's allocator, which is not in the repository.
* What the bundled algorithms compute; in the image they are a call that takes
  cycles.  The one call `algo_ffb` makes is among those of `ffb_format`; `algo_nop` is a
  thousand `nop`s without state; `algo_sprintf` calls the C library.
* `compiler.hpp`: constrains the compiler, emits no instruction.
* Of the formatter: a format string that its caller does not match with arguments, which
  the C standard leaves undefined, and `%s` of a pointer into the buffer next to
  other conversions (`FfbBuffer` has one `%s`, `FfbFormat` several conversions whose
  strings lie elsewhere).  A `*` width of `INT_MIN`, whose negation
  (`fixed_format_buffer.h:831`) C leaves undefined: `ParseWidth` takes the two's
  complement result, so another one would go unnoticed.  Texts longer than 2^32 characters start over at the
  beginning of the buffer: `FormatTypeOK` holds for them, `TruncatedPrefix` does not apply.
* The vector table's 82 interrupt slots: all are `Default_Handler`, and the
  models have one interrupt.  Slots with no handler at all, which would be a
  HardFault, are not distinguished, and neither is the slot an interrupt has.
* A power cycle as opposed to a system reset: it is the initial state again.
* The time a hardware answer takes; the debugger being connected or removed
  while the image runs; flashing; Makefile, CI.

## 8. Plan

Done, in this order: `Udivmod`; `Semihost`, `Clock`, `Startup`, `Bench`, `Firmware`
with `BenchSession`; `WriteUint`, `Report`; the proofs of the division and the image;
`Syscalls`; `TextObjects` and `FfbBuffer`; `FfbNumbers` and `FfbFormat`; the proofs of the
digit buffer, the heap and the buffer objects; of the console's invariant and of `Firmware`
implementing `BenchSession`, of the reports, of the numeral, of the heap's blocks and of
`_write`, and of `FfbBuffer` implementing `TextObjects`; and the proofs of `FfbFormat`.

What is left:

1. A common model of `FfbBuffer` and `FfbFormat`: several conversions whose strings lie in the
   buffer that is written.  `TextObjects` would have to say which of them are tangled.
2. The separate interrupt slots, if user code ever installs a handler of its own.
