----------------------------- MODULE ClockSetup -----------------------------
(***************************************************************************)
(* The clocks from reset to the load of stage 3: the CPU clock is 500 MHz  *)
(* in stage 1 and comes from the CPLL in stage 2, which the DRAM           *)
(* initialisation programs with a word computed from the configuration and *)
(* the crystal.  Timer and SPI clock are derived from it by separate code  *)
(* that reads the hardware registers back.  Frequencies are in kHz.        *)
(***************************************************************************)
EXTENDS Integers

CONSTANTS CpuFreqs, DdrFreqs,     \* _dramc_cpu_freq (MHz), _dramc_ddr_freq
          Ddr2Sels, Ddr3Sels      \* _dramc_ddr2_act_sel, _dramc_ddr3_act_sel

ASSUME ConfigAssumption ==
  CpuFreqs \subseteq Nat /\ DdrFreqs \subseteq Nat
  /\ Ddr2Sels \subseteq Nat /\ Ddr3Sels \subseteq Nat

VARIABLES
  pc,
  cpu_freq, ddr_freq, init_type, ddr2_sel, ddr3_sel,   \* stage2_info
  xtal_sel, dram_type,          \* fields of SYSCFG0, strapped on the board
  cpu_clk_sel,                  \* CLKCFG0: where the CPU clock comes from
  cpll,                         \* DRAMC_CPLL_REG
  fdiv, ffrac,                  \* CUR_CLK_STS: the CPU clock's divider
  dramc_cpu_freq, dramc_ddr_freq, ddr2_act, ddr3_act,   \* for the DRAM code
  bus_freq, timer_freq,
  clk_sel                       \* SPI_MASTER: the SPI clock's divider - 2

config  == <<cpu_freq, ddr_freq, init_type, ddr2_sel, ddr3_sel, xtal_sel,
             dram_type>>
dramc   == <<dramc_cpu_freq, dramc_ddr_freq, ddr2_act, ddr3_act>>
cpu     == <<cpu_clk_sel, cpll, fdiv, ffrac>>
derived == <<bus_freq, timer_freq, clk_sel>>
vars    == <<pc, config, dramc, cpu, derived>>

DDR2_1024M   == 2
DDR2_ACT_MAX == 5
DDR3_2048M   == 2
DDR3_ACT_MAX == 4

BoardProvided == -1       \* not a row of a table: the one in stage2_info

PllWords == [fb : Nat, div : 0 .. 3]

-----------------------------------------------------------------------------
(* The hardware. *)
Crystal == IF xtal_sel <= 2 THEN 20000
           ELSE IF xtal_sel <= 5 THEN 40000 ELSE 25000

PreDivider(n) == IF n = 0 THEN 1 ELSE IF n = 1 THEN 2 ELSE 4

CpuClock ==
  LET source == IF cpu_clk_sel = 0 THEN 500000
                ELSE IF cpu_clk_sel = 1
                THEN ((cpll.fb + 1) * Crystal) \div PreDivider(cpll.div)
                ELSE Crystal
  IN  (source * ffrac) \div fdiv

BusClock == CpuClock \div 4

-----------------------------------------------------------------------------
(* The boot code of stage 1: 500 MHz, divider 1/1; then its target_init.   *)
Stage1Init ==
  /\ pc = "reset"
  /\ cpu_clk_sel' = 0 /\ fdiv' = 1 /\ ffrac' = 1
  /\ timer_freq' = 500000 \div 2
  /\ clk_sel' = 12
  /\ pc' = "load_stage2"
  /\ UNCHANGED <<config, dramc, cpll, bus_freq>>

XtalMhz == IF xtal_sel <= 2 THEN 20 ELSE IF xtal_sel <= 5 THEN 40 ELSE 25
XtalDiv == IF xtal_sel \in 3 .. 5 THEN 1 ELSE 0

Checked(f) == IF f < 400 \/ f > 1200 THEN 880 ELSE f

(* Mutated: the multiplier is taken for the field that holds it less one.  *)
FeedbackNext(f) == (Checked(f) * PreDivider(XtalDiv)) \div XtalMhz
Feedback(f)     == ((Checked(f) * PreDivider(XtalDiv)) \div XtalMhz) - 1

(* Which of the four frequencies, 1 for 1200 to 4 for 400 MHz. *)
DdrOption(n) == IF n = 1 /\ dram_type = 1 THEN 3
                ELSE IF n \in 1 .. 4 THEN n ELSE 3

Ddr2Act(n) == IF init_type # 0 THEN BoardProvided
              ELSE IF n >= DDR2_ACT_MAX THEN DDR2_1024M ELSE n
Ddr3Act(n) == IF init_type # 0 THEN BoardProvided
              ELSE IF n >= DDR3_ACT_MAX THEN DDR3_2048M ELSE n

PreInit ==
  /\ pc = "load_stage2"
  /\ dramc_cpu_freq' = [fb |-> Feedback(cpu_freq), div |-> XtalDiv]
  /\ dramc_ddr_freq' = DdrOption(ddr_freq)
  /\ ddr2_act' = Ddr2Act(ddr2_sel) /\ ddr3_act' = Ddr3Act(ddr3_sel)
  /\ pc' = "dramc"
  /\ UNCHANGED <<config, cpu, derived>>

(* The DRAM code, a binary, programs the CPLL with the word it was given.  *)
DramcInit ==
  /\ pc = "dramc"
  /\ cpll' = dramc_cpu_freq
  /\ pc' = "cpll"
  /\ UNCHANGED <<config, dramc, cpu_clk_sel, fdiv, ffrac, derived>>

SelectCpll ==
  /\ pc = "cpll"
  /\ cpu_clk_sel' = 1
  /\ pc' = "target"
  /\ UNCHANGED <<config, dramc, cpll, fdiv, ffrac, derived>>

XtalClk == IF xtal_sel <= 2 THEN 20000
           ELSE IF xtal_sel <= 5 THEN 40000 ELSE 25000

(* Mutated: the field is taken for the multiplier. *)
PllClkShort == (cpll.fb * XtalClk) \div PreDivider(cpll.div)
PllClk      == ((cpll.fb + 1) * XtalClk) \div PreDivider(cpll.div)

FinalCpuClk == LET clk == IF cpu_clk_sel = 0 THEN 500000
                          ELSE IF cpu_clk_sel = 1 THEN PllClk ELSE XtalClk
               IN  (clk \div fdiv) * ffrac

(* Mutated: the quotient is rounded down. *)
DividerDown(hclk, clk) == hclk \div clk
Divider(hclk, clk)     == (hclk + clk - 1) \div clk

Clamped(n) == IF n > 4097 THEN 4097 ELSE IF n < 2 THEN 2 ELSE n

(* set_final_timer_freq, spi_init, spi_set_clock(bus_freq, 20 MHz). *)
TargetInit ==
  /\ pc = "target"
  /\ bus_freq' = FinalCpuClk \div 4
  /\ timer_freq' = FinalCpuClk \div 2
  /\ clk_sel' = Clamped(Divider(bus_freq', 20000)) - 2
  /\ pc' = "load_stage3"
  /\ UNCHANGED <<config, dramc, cpu>>

Init ==
  /\ pc = "reset"
  /\ cpu_freq \in CpuFreqs /\ ddr_freq \in DdrFreqs
  /\ init_type \in 0 .. 1 /\ ddr2_sel \in Ddr2Sels /\ ddr3_sel \in Ddr3Sels
  /\ xtal_sel \in 0 .. 7 /\ dram_type \in 0 .. 1
  /\ cpu_clk_sel \in 0 .. 1 /\ cpll = [fb |-> 24, div |-> 0]
  /\ fdiv \in 1 .. 2 /\ ffrac = 1
  /\ dramc_cpu_freq = [fb |-> 0, div |-> 0] /\ dramc_ddr_freq = 0
  /\ ddr2_act = 0 /\ ddr3_act = 0
  /\ bus_freq = 0 /\ timer_freq = 0 /\ clk_sel = 0

Next == Stage1Init \/ PreInit \/ DramcInit \/ SelectCpll \/ TargetInit

Spec == Init /\ [][Next]_vars

-----------------------------------------------------------------------------
TypeOK ==
  /\ pc \in {"reset", "load_stage2", "dramc", "cpll", "target", "load_stage3"}
  /\ cpu_freq \in CpuFreqs /\ ddr_freq \in DdrFreqs
  /\ init_type \in 0 .. 1 /\ ddr2_sel \in Ddr2Sels /\ ddr3_sel \in Ddr3Sels
  /\ xtal_sel \in 0 .. 7 /\ dram_type \in 0 .. 1 /\ cpu_clk_sel \in 0 .. 1
  /\ cpll \in PllWords /\ dramc_cpu_freq \in PllWords
  /\ fdiv \in 1 .. 2 /\ ffrac \in 1 .. 2
  /\ dramc_ddr_freq \in 0 .. 4
  /\ ddr2_act \in -1 .. DDR2_ACT_MAX - 1 /\ ddr3_act \in -1 .. DDR3_ACT_MAX - 1
  /\ bus_freq \in Nat /\ timer_freq \in Nat /\ clk_sel \in Nat /\ clk_sel < 4096

(* The SPI bus, the timer and their clocks are used while stage 2 and while *)
(* stage 3 are loaded, not in between.                                     *)
InUse == pc \in {"load_stage2", "load_stage3"}

(* The timer counts at half the CPU clock there really is, so a delay of n *)
(* microseconds is one.                                                    *)
TimerIsRight == InUse => timer_freq = CpuClock \div 2

(* target.c:229: the SPI clock is never greater than 20 MHz.               *)
SpiClockInSpec == InUse => BusClock <= (clk_sel + 2) * 20000

(* The CPU never runs faster than configured, and less than one step of    *)
(* its PLL slower; a configuration out of bounds means 880 MHz.            *)
CpuClockAsConfigured ==
  pc \in {"target", "load_stage3"} =>
    /\ CpuClock <= Checked(cpu_freq) * 1000
    /\ CpuClock + (Crystal \div PreDivider(cpll.div)) > Checked(cpu_freq) * 1000

(* The multiplier fits its seven bits, and the product in Hz fits 32 bits. *)
PllFits ==
  pc \in {"cpll", "target", "load_stage3"} =>
    cpll.fb < 128 /\ (cpll.fb + 1) * Crystal < 4294967

(* DDR2 memory is never driven at 1200 MHz. *)
Ddr2InSpec == pc # "reset" /\ pc # "load_stage2" /\ dram_type = 1
                => dramc_ddr_freq \in 2 .. 4

=============================================================================
