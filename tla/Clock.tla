------------------------------- MODULE Clock -------------------------------
(***************************************************************************)
(* _sysclk_180mhz() of src/clock.c against the clock tree of the STM32F446.*)
(* A register is the set of its bits that are 1, so the literals of the    *)
(* code are sets of bit numbers.  One statement of the code is one action; *)
(* a polling loop is an action enabled once its bit is set.  The answers   *)
(* of the oscillator and of the power controller are actions of their own. *)
(***************************************************************************)
EXTENDS Integers

VARIABLES
  cpc,   (* Next statement of _sysclk_180mhz; "idle" before it is called.  *)
  reg    (* The registers the function touches.                            *)

clockVars == <<cpc, reg>>

(* Values after a system reset: HSI (16 MHz) on and selected, PLL off,     *)
(* over-drive off, voltage scale 1, no flash wait state.                   *)
ResetRegs ==
  [RCC_CR      |-> {0, 1, 7},  RCC_PLLCFGR |-> {4, 12, 13, 26, 29},
   RCC_CFGR    |-> {},         RCC_APB1ENR |-> {},
   PWR_CR      |-> {14, 15},   PWR_CSR     |-> {},
   FLASH_ACR   |-> {}]

RegName == DOMAIN ResetRegs

(* Status bits that a write by the core leaves as they are.                *)
StatusBits ==
  [RCC_CR      |-> {1, 17, 25}, RCC_PLLCFGR |-> {},
   RCC_CFGR    |-> {2, 3},      RCC_APB1ENR |-> {},
   PWR_CR      |-> {},          PWR_CSR     |-> {14, 16, 17},
   FLASH_ACR   |-> {}]

(* A peripheral ignores writes while its bus clock is off: the power       *)
(* controller needs PWREN, bit 28 of RCC_APB1ENR.                          *)
Clocked(r) == r = "PWR_CR" => 28 \in reg["RCC_APB1ENR"]

Store(r, bits) ==
  IF Clocked(r)
  THEN [reg EXCEPT ![r] = (bits \ StatusBits[r]) \cup (@ \cap StatusBits[r])]
  ELSE reg
-----------------------------------------------------------------------------
ClockInit == cpc = "idle" /\ reg = ResetRegs

(* The call from Reset_Handler.                                            *)
ClockCall == cpc = "idle" /\ cpc' = "pwren" /\ UNCHANGED reg

Statement(at, next, r, bits) ==
  /\ cpc = at /\ cpc' = next
  /\ reg' = Store(r, bits)

Poll(at, next, r, bit) ==
  /\ cpc = at /\ bit \in reg[r]
  /\ cpc' = next
  /\ UNCHANGED reg

EnablePower == Statement("pwren", "latency", "RCC_APB1ENR", reg["RCC_APB1ENR"] \cup {28})

SetLatencyShort == Statement("latency", "prescalers", "FLASH_ACR", {0, 1, 8, 9, 10})

(* 5 | (1 << 8) | (1 << 9) | (1 << 10)                                     *)
SetLatency == Statement("latency", "prescalers", "FLASH_ACR", {0, 2, 8, 9, 10})

(* Clears 0xF << 4, 0x7 << 8 and 0x7 << 11; sets 5 << 8 and 4 << 11.       *)
SetPrescalers ==
  Statement("prescalers", "pllcfg", "RCC_CFGR",
            (reg["RCC_CFGR"] \ (4..7 \cup 8..10 \cup 11..13)) \cup {8, 10, 13})

(* 16 | (360 << 6) | (0 << 16) | (7 << 24)                                 *)
ConfigurePll ==
  Statement("pllcfg", "oden", "RCC_PLLCFGR", {4, 9, 11, 12, 14, 24, 25, 26})

EnableOverdrive == Statement("oden", "odrdy", "PWR_CR", reg["PWR_CR"] \cup {16})
AwaitOverdriveNot == cpc = "odrdy" /\ cpc' = "odswen" /\ UNCHANGED reg
AwaitOverdrive  == Poll("odrdy", "odswen", "PWR_CSR", 16)
SwitchOverdrive == Statement("odswen", "odswrdy", "PWR_CR", reg["PWR_CR"] \cup {17})
AwaitOverdriveSwitch == Poll("odswrdy", "pllon", "PWR_CSR", 17)

StartPllWrongBit == Statement("pllon", "pllrdy", "RCC_CR", reg["RCC_CR"] \cup {26})
StartPll == Statement("pllon", "pllrdy", "RCC_CR", reg["RCC_CR"] \cup {24})
AwaitPll == Poll("pllrdy", "switch", "RCC_CR", 25)

(* (RCC_CFGR & ~(3 << 0)) | (2 << 0)                                       *)
SelectPll ==
  Statement("switch", "switched", "RCC_CFGR", (reg["RCC_CFGR"] \ {0, 1}) \cup {1})

(* (RCC_CFGR & (3 << 2)) != (2 << 2) holds no longer; the call returns.    *)
AwaitSwitch ==
  /\ cpc = "switched" /\ reg["RCC_CFGR"] \cap {2, 3} = {3}
  /\ cpc' = "done"
  /\ UNCHANGED reg

ClockCode ==
  \/ EnablePower     \/ SetLatency     \/ SetPrescalers   \/ ConfigurePll
  \/ EnableOverdrive \/ AwaitOverdrive \/ SwitchOverdrive \/ AwaitOverdriveSwitch
  \/ StartPll        \/ AwaitPll       \/ SelectPll       \/ AwaitSwitch
-----------------------------------------------------------------------------
(* The hardware, from the way the code waits for it.                       *)
Raise(r, bit) ==
  /\ bit \notin reg[r]
  /\ reg' = [reg EXCEPT ![r] = @ \cup {bit}]
  /\ UNCHANGED cpc

HwOverdriveReady    == 16 \in reg["PWR_CR"] /\ Raise("PWR_CSR", 16)
HwOverdriveSwitched == {16, 17} \subseteq reg["PWR_CR"] /\ 16 \in reg["PWR_CSR"] /\ Raise("PWR_CSR", 17)
HwPllLock           == 24 \in reg["RCC_CR"] /\ Raise("RCC_CR", 25)

(* SW = 10b selects the PLL, once it is ready; SWS then reads 10b.         *)
HwSwitchClock ==
  /\ reg["RCC_CFGR"] \cap {0, 1} = {1} /\ 25 \in reg["RCC_CR"]
  /\ Raise("RCC_CFGR", 3)

ClockHardware ==
  HwOverdriveReady \/ HwOverdriveSwitched \/ HwPllLock \/ HwSwitchClock
-----------------------------------------------------------------------------
(* The clock tree the register values describe.                            *)
Bit(r, b) == IF b \in reg[r] THEN 1 ELSE 0

Num3(r, lo) == Bit(r, lo) + 2 * Bit(r, lo + 1) + 4 * Bit(r, lo + 2)

PllM == Num3("RCC_PLLCFGR", 0) + 8 * Num3("RCC_PLLCFGR", 3)
PllN == Num3("RCC_PLLCFGR", 6) + 8 * Num3("RCC_PLLCFGR", 9) + 64 * Num3("RCC_PLLCFGR", 12)
PllP == 2 + 2 * Bit("RCC_PLLCFGR", 16) + 4 * Bit("RCC_PLLCFGR", 17)

OnPll == reg["RCC_CFGR"] \cap {2, 3} = {3}

(* SYSCLK in MHz; HCLK too, as HPRE stays 0.                               *)
CoreMHz == IF OnPll THEN (16 * PllN) \div (PllM * PllP) ELSE 16

WaitStates == Num3("FLASH_ACR", 0) + 8 * Bit("FLASH_ACR", 3)

(* PPRE1 is bits 12:10 and PPRE2 bits 15:13 of RCC_CFGR on this part; a    *)
(* value with the high bit set divides by 2, 4, 8, 16, any other by 1.     *)
Divider(field) ==
  CASE field = 4 -> 2 [] field = 5 -> 4 [] field = 6 -> 8 [] field = 7 -> 16 [] OTHER -> 1
Apb1Divider == Divider(Num3("RCC_CFGR", 10))
Apb2Divider == Divider(Num3("RCC_CFGR", 13))
-----------------------------------------------------------------------------
ClockPoints ==
  {"idle", "pwren", "latency", "prescalers", "pllcfg", "oden", "odrdy", "odswen",
   "odswrdy", "pllon", "pllrdy", "switch", "switched", "done"}

ClockTypeOK == cpc \in ClockPoints /\ reg \in [RegName -> SUBSET (0..31)]

(* The core never runs from a clock the configuration cannot bear: only    *)
(* from a locked PLL, above 168 MHz only in over-drive mode, and with one  *)
(* flash wait state per 30 MHz.  The four register writes of the code that *)
(* establish this and the switch that needs it are separate statements.    *)
CoreClockInSpec ==
  OnPll =>
    /\ 25 \in reg["RCC_CR"]
    /\ CoreMHz <= (IF 17 \in reg["PWR_CSR"] THEN 180 ELSE 168)
    /\ CoreMHz <= 30 * (WaitStates + 1)

(* What a step of the bring-up may not do: reprogram the PLL while it is   *)
(* on, switch the regulator before over-drive is ready, or select the PLL  *)
(* before it has locked.  A reset (cpc' = "idle") may do all of it.        *)
ClockProtocol ==
  [][cpc' # "idle" =>
       /\ reg'["RCC_PLLCFGR"] # reg["RCC_PLLCFGR"] => 24 \notin reg["RCC_CR"]
       /\ 17 \in reg'["PWR_CR"] \ reg["PWR_CR"] => 16 \in reg["PWR_CSR"]
       /\ 1 \in reg'["RCC_CFGR"] \ reg["RCC_CFGR"] => 25 \in reg["RCC_CR"]]_clockVars

(* The comment of step 3, "AHB = /1, APB1 = /4, APB2 = /2", of the         *)
(* registers it leaves behind.                                             *)
PrescalersAsCommented ==
  cpc = "done" => Apb1Divider = 4 /\ Apb2Divider = 2

(* The inductive invariant: what the statements already executed have left *)
(* in the registers, that nothing selects the PLL before the switch, and   *)
(* that it is off until all of its factors are written.                    *)
ClockInv ==
  /\ ClockTypeOK
  /\ cpc \notin {"idle", "pwren"} => 28 \in reg["RCC_APB1ENR"]
  /\ cpc \notin {"idle", "pwren", "latency"} => reg["FLASH_ACR"] = {0, 2, 8, 9, 10}
  /\ cpc \notin {"idle", "pwren", "latency", "prescalers", "pllcfg"} =>
       reg["RCC_PLLCFGR"] = {4, 9, 11, 12, 14, 24, 25, 26}
  /\ cpc \in {"pllon", "pllrdy", "switch", "switched", "done"} => 17 \in reg["PWR_CSR"]
  /\ cpc \in {"switch", "switched", "done"} => 25 \in reg["RCC_CR"]
  /\ cpc \notin {"switched", "done"} => reg["RCC_CFGR"] \cap {0, 1, 2, 3} = {}
  /\ cpc \notin {"pllrdy", "switch", "switched", "done"} => 24 \notin reg["RCC_CR"]
  /\ cpc = "odswen" => 16 \in reg["PWR_CSR"]
  /\ cpc = "done" => OnPll
=============================================================================
