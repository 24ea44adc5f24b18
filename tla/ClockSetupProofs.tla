-------------------------- MODULE ClockSetupProofs --------------------------
(***************************************************************************)
(* For every configuration word: the clocks of ClockSetup are in their     *)
(* bounds whenever they are used.                                          *)
(***************************************************************************)
EXTENDS ClockSetup, TLAPS

(* The word the DRAM code is given, from PreInit on. *)
Word == [fb |-> Feedback(cpu_freq), div |-> XtalDiv]

Divided == pc # "reset" => fdiv = 1 /\ ffrac = 1

Source == /\ pc \in {"load_stage2", "dramc", "cpll"} => cpu_clk_sel = 0
          /\ pc \in {"target", "load_stage3"} => cpu_clk_sel = 1

Programmed == /\ pc \in {"dramc", "cpll", "target", "load_stage3"}
                   => dramc_cpu_freq = Word
              /\ pc \in {"cpll", "target", "load_stage3"} => cpll = Word

DramChosen == pc \notin {"reset", "load_stage2"} => dramc_ddr_freq = DdrOption(ddr_freq)

(* What TargetInit sets the timer's frequency and the SPI divider to. *)
TimerFreq == FinalCpuClk \div 2
ClkSel    == Clamped(Divider(FinalCpuClk \div 4, 20000)) - 2

Derived == /\ pc = "load_stage2" => timer_freq = 250000 /\ clk_sel = 12
           /\ pc = "load_stage3" => timer_freq = TimerFreq /\ clk_sel = ClkSel

IInv == TypeOK /\ Divided /\ Source /\ Programmed /\ DramChosen /\ Derived

(* The clock the CPLL then gives. *)
Asked == ((Feedback(cpu_freq) + 1) * Crystal) \div PreDivider(XtalDiv)

(* Multiplication by a natural number keeps the order. *)
LEMMA Monotone ==
  ASSUME NEW i \in Int, NEW j \in Int, NEW k \in Nat, i <= j
  PROVE  i * k <= j * k
<1>1. (j - i) * k >= 0 /\ (j - i) * k = j * k - i * k
  OBVIOUS
<1>. QED
  BY <1>1

(* What the SPI controller can divide by, and the clocks it then reaches. *)
InRange(n)         == n \in Nat /\ 2 <= n /\ n <= 4097
Divides(hclk, clk) == hclk <= 4097 * clk

(* A clock divided by the divider chosen for it is not above the limit,    *)
(* unless the divider had to be cut at 4097.                               *)
LEMMA DividedClock ==
  ASSUME NEW hclk \in Nat, NEW clk \in Nat \ {0}, Divides(hclk, clk)
  PROVE  /\ InRange(Clamped(Divider(hclk, clk)))
         /\ hclk <= Clamped(Divider(hclk, clk)) * clk
<1> DEFINE q == Divider(hclk, clk)
           c == Clamped(q)
<1>1. q \in Int /\ q * clk <= hclk + clk - 1 /\ hclk + clk - 1 < q * clk + clk
  BY DEF Divider
<1>2. hclk <= q * clk
  BY <1>1
<1> HIDE DEF q
<1>3. c \in Nat /\ 2 <= c /\ c <= 4097 /\ (c >= q \/ c = 4097)
  BY <1>1 DEF Clamped
<1> HIDE DEF c
<1>4. hclk <= c * clk
  <2>1. CASE c = 4097
    BY <2>1 DEF Divides
  <2>2. CASE c >= q
    <3>1. c \in Int /\ clk \in Nat /\ q <= c
      BY <1>3, <2>2
    <3>2. q * clk <= c * clk
      BY <1>1, <3>1, Monotone
    <3>3. q * clk \in Int /\ c * clk \in Int
      BY <1>1, <3>1
    <3>. QED
      BY <1>2, <3>2, <3>3
  <2>. QED
    BY <1>3, <2>1, <2>2
<1>. QED
  BY <1>3, <1>4 DEF q, c, InRange

(* The same for the limit that target_init sets. *)
LEMMA SpiDivider ==
  ASSUME NEW hclk \in Nat, hclk <= 4097 * 20000
  PROVE  /\ InRange(Clamped(Divider(hclk, 20000)))
         /\ hclk <= Clamped(Divider(hclk, 20000)) * 20000
<1> DEFINE clk == 20000
<1>1. clk \in Nat \ {0} /\ Divides(hclk, clk)
  BY DEF Divides
<1> HIDE DEF clk
<1>2. /\ InRange(Clamped(Divider(hclk, clk)))
      /\ hclk <= Clamped(Divider(hclk, clk)) * clk
  BY <1>1, DividedClock
<1>. QED
  BY <1>2 DEF clk

(* The multiplier for each of the three crystals. *)
LEMMA Multiplier ==
  ASSUME TypeOK
  PROVE  /\ Checked(cpu_freq) \in 400 .. 1200
         /\ Crystal = XtalClk /\ Crystal \in {20000, 25000, 40000}
         /\ PreDivider(XtalDiv) = IF Crystal = 40000 THEN 2 ELSE 1
         /\ Feedback(cpu_freq) \in 14 .. 59
         /\ Asked \in Nat /\ Asked <= Checked(cpu_freq) * 1000
         /\ Asked + (Crystal \div PreDivider(XtalDiv))
              > Checked(cpu_freq) * 1000
<1>1. cpu_freq \in Nat /\ xtal_sel \in 0 .. 7
  BY ConfigAssumption DEF TypeOK
<1> DEFINE f == Checked(cpu_freq)
<1>2. f \in 400 .. 1200
  BY <1>1 DEF Checked
<1> HIDE DEF f
<1>3. CASE xtal_sel \in 0 .. 2
  <2>1. Crystal = 20000 /\ XtalClk = 20000 /\ XtalMhz = 20 /\ XtalDiv = 0
    BY <1>3 DEF Crystal, XtalClk, XtalMhz, XtalDiv
  <2>2. PreDivider(0) = 1
    BY DEF PreDivider
  <2>3. Feedback(cpu_freq) = (f \div 20) - 1
    BY <1>2, <2>1, <2>2 DEF Feedback, f
  <2>. QED
    BY <1>2, <2>1, <2>2, <2>3 DEF f, Asked
<1>4. CASE xtal_sel \in 3 .. 5
  <2>1. Crystal = 40000 /\ XtalClk = 40000 /\ XtalMhz = 40 /\ XtalDiv = 1
    BY <1>4 DEF Crystal, XtalClk, XtalMhz, XtalDiv
  <2>2. PreDivider(1) = 2
    BY DEF PreDivider
  <2>3. Feedback(cpu_freq) = ((f * 2) \div 40) - 1
    BY <1>2, <2>1, <2>2 DEF Feedback, f
  <2>. QED
    BY <1>2, <2>1, <2>2, <2>3 DEF f, Asked
<1>5. CASE xtal_sel \in 6 .. 7
  <2>1. Crystal = 25000 /\ XtalClk = 25000 /\ XtalMhz = 25 /\ XtalDiv = 0
    BY <1>5 DEF Crystal, XtalClk, XtalMhz, XtalDiv
  <2>2. PreDivider(0) = 1
    BY DEF PreDivider
  <2>3. Feedback(cpu_freq) = (f \div 25) - 1
    BY <1>2, <2>1, <2>2 DEF Feedback, f
  <2>. QED
    BY <1>2, <2>1, <2>2, <2>3 DEF f, Asked
<1>. QED
  BY <1>1, <1>3, <1>4, <1>5

(* The CPU clock that set_final_timer_freq works out is the real one. *)
LEMMA FinalClock ==
  ASSUME IInv, pc \in {"target", "load_stage3"}
  PROVE  /\ FinalCpuClk = CpuClock /\ CpuClock = Asked
         /\ CpuClock \in Nat /\ CpuClock <= 1200000
<1>1. TypeOK /\ cpu_clk_sel = 1 /\ fdiv = 1 /\ ffrac = 1 /\ cpll = Word
  BY DEF IInv, Source, Divided, Programmed
<1>2. cpll.fb = Feedback(cpu_freq) /\ cpll.div = XtalDiv
  BY <1>1 DEF Word
<1>3. Asked \in Nat /\ Asked <= 1200000
  BY <1>1, Multiplier
<1>4. PllClk = Asked
  BY <1>1, <1>2, Multiplier DEF PllClk, Asked
<1> DEFINE a == Asked
<1> HIDE DEF a
<1>5. a \in Nat => (a * 1) \div 1 = a /\ (a \div 1) * 1 = a
  OBVIOUS
<1>6. a \in Nat
  BY <1>3 DEF a
<1>7. CpuClock = (a * 1) \div 1
  BY <1>1, <1>2 DEF CpuClock, Asked, a
<1>8. FinalCpuClk = (a \div 1) * 1
  BY <1>1, <1>4 DEF FinalCpuClk, a
<1>9. CpuClock = a
  BY <1>5, <1>6, <1>7
<1>10. FinalCpuClk = a
  BY <1>5, <1>6, <1>8
<1>11. a \in Nat /\ a <= 1200000
  BY <1>3 DEF a
<1>. QED
  BY <1>9, <1>10, <1>11 DEF a

(* The strengthened invariant holds at reset... *)
LEMMA InitIInv == Init => IInv
BY ConfigAssumption
   DEF Init, IInv, TypeOK, PllWords, Divided, Source, Programmed, DramChosen,
       Derived, DDR2_ACT_MAX, DDR3_ACT_MAX

(* ... and every step of the boot keeps it. *)
LEMMA StepIInv == IInv /\ [Next]_vars => IInv'
<1>1. SUFFICES ASSUME IInv, [Next]_vars PROVE IInv'
  OBVIOUS
<1>2. ASSUME UNCHANGED config
      PROVE  /\ Word' = Word /\ DdrOption(ddr_freq)' = DdrOption(ddr_freq)
             /\ XtalClk' = XtalClk
  BY <1>2 DEF Word, Feedback, Checked, PreDivider, XtalMhz, XtalDiv, DdrOption,
              XtalClk, config
<1>3. CASE UNCHANGED vars
  <2>1. UNCHANGED <<config, cpu, derived, dramc, pc>>
    BY <1>3 DEF vars
  <2>2. FinalCpuClk' = FinalCpuClk
    BY <1>2, <2>1 DEF FinalCpuClk, PllClk, PreDivider, cpu
  <2>3. TimerFreq' = TimerFreq /\ ClkSel' = ClkSel
    BY <2>2 DEF TimerFreq, ClkSel, Clamped, Divider
  <2>. QED
    BY <1>1, <1>2, <2>1, <2>3
       DEF IInv, TypeOK, Divided, Source, Programmed, DramChosen, Derived,
           config, cpu, derived, dramc
<1>4. CASE Stage1Init
  BY <1>1, <1>4
     DEF Stage1Init, IInv, TypeOK, Divided, Source, Programmed, DramChosen,
         Derived, config, dramc
<1>5. CASE PreInit
  <2>1. /\ UNCHANGED <<config, cpu, derived>> /\ pc = "load_stage2"
        /\ pc' = "dramc" /\ dramc_cpu_freq' = Word
        /\ dramc_ddr_freq' = DdrOption(ddr_freq)
        /\ ddr2_act' = Ddr2Act(ddr2_sel) /\ ddr3_act' = Ddr3Act(ddr3_sel)
    BY <1>5 DEF PreInit, Word
  <2>2. Word \in PllWords
    <3>1. XtalDiv \in 0 .. 3
      BY DEF XtalDiv
    <3>. QED
      BY <1>1, <3>1, Multiplier DEF IInv, Word, PllWords
  <2>3. /\ Ddr2Act(ddr2_sel) \in -1 .. DDR2_ACT_MAX - 1
        /\ Ddr3Act(ddr3_sel) \in -1 .. DDR3_ACT_MAX - 1
    BY <1>1, ConfigAssumption
       DEF IInv, TypeOK, Ddr2Act, Ddr3Act, BoardProvided, DDR2_ACT_MAX,
           DDR3_ACT_MAX, DDR2_1024M, DDR3_2048M
  <2>4. DdrOption(ddr_freq) \in 0 .. 4
    BY DEF DdrOption
  <2>5. TypeOK'
    BY <1>1, <2>1, <2>2, <2>3, <2>4 DEF IInv, TypeOK, config, cpu, derived
  <2>. QED
    BY <1>1, <1>2, <2>1, <2>5
       DEF IInv, Divided, Source, Programmed, DramChosen, Derived, cpu
<1>6. CASE DramcInit
  BY <1>1, <1>2, <1>6
     DEF DramcInit, IInv, TypeOK, Divided, Source, Programmed, DramChosen,
         Derived, config, dramc, derived
<1>7. CASE SelectCpll
  BY <1>1, <1>2, <1>7
     DEF SelectCpll, IInv, TypeOK, Divided, Source, Programmed, DramChosen,
         Derived, config, dramc, derived
<1>8. CASE TargetInit
  <2>1. /\ UNCHANGED <<config, dramc, cpu>> /\ pc = "target"
        /\ pc' = "load_stage3"
        /\ bus_freq' = FinalCpuClk \div 4
        /\ timer_freq' = TimerFreq /\ clk_sel' = ClkSel
    BY <1>8 DEF TargetInit, TimerFreq, ClkSel
  <2>2. FinalCpuClk' = FinalCpuClk
    BY <1>2, <2>1 DEF FinalCpuClk, PllClk, PreDivider, cpu
  <2>3. FinalCpuClk \in Nat /\ FinalCpuClk <= 1200000
    BY <1>1, <2>1, FinalClock
  <2>4. /\ FinalCpuClk \div 4 \in Nat /\ TimerFreq \in Nat
        /\ FinalCpuClk \div 4 <= 4097 * 20000
    BY <2>3 DEF TimerFreq
  <2>5. ClkSel \in Nat /\ ClkSel < 4096
    <3> DEFINE bus == FinalCpuClk \div 4
    <3>2. bus \in Nat /\ bus <= 4097 * 20000
      BY <2>4
    <3> HIDE DEF bus
    <3>3. InRange(Clamped(Divider(bus, 20000)))
      BY <3>2, SpiDivider
    <3>4. ClkSel = Clamped(Divider(bus, 20000)) - 2
      BY DEF ClkSel, bus
    <3>. QED
      BY <3>3, <3>4 DEF InRange
  <2>7. TimerFreq' = TimerFreq /\ ClkSel' = ClkSel
    BY <2>2 DEF TimerFreq, ClkSel, Clamped, Divider
  <2>6. TypeOK'
    BY <1>1, <2>1, <2>4, <2>5 DEF IInv, TypeOK, config, dramc, cpu
  <2>. QED
    BY <1>1, <1>2, <2>1, <2>6, <2>7
       DEF IInv, Divided, Source, Programmed, DramChosen, Derived, cpu, dramc
<1>. QED
  BY <1>1, <1>3, <1>4, <1>5, <1>6, <1>7, <1>8 DEF Next

(* The strengthened invariant holds in every reachable state. *)
THEOREM Inductive == Spec => []IInv
BY InitIInv, StepIInv, PTL DEF Spec

(* Every variable keeps its type: register fields fit, tables are not left. *)
THEOREM TypeCorrect == Spec => []TypeOK
<1>1. IInv => TypeOK
  BY DEF IInv
<1>. QED
  BY <1>1, Inductive, PTL

(* Delays last as long as they should in both stages. *)
THEOREM TimerCounts == Spec => []TimerIsRight
<1>1. IInv => TimerIsRight
  <2>1. SUFFICES ASSUME IInv, InUse PROVE timer_freq = CpuClock \div 2
    BY DEF TimerIsRight
  <2>2. CASE pc = "load_stage2"
    <3>1. timer_freq = 250000 /\ cpu_clk_sel = 0 /\ fdiv = 1 /\ ffrac = 1
      BY <2>1, <2>2 DEF IInv, Derived, Source, Divided
    <3>. QED
      BY <3>1 DEF CpuClock
  <2>3. CASE pc = "load_stage3"
    <3>1. timer_freq = TimerFreq
      BY <2>1, <2>3 DEF IInv, Derived
    <3>2. FinalCpuClk = CpuClock
      BY <2>1, <2>3, FinalClock
    <3>. QED
      BY <3>1, <3>2 DEF TimerFreq
  <2>. QED
    BY <2>1, <2>2, <2>3 DEF InUse
<1>. QED
  BY <1>1, Inductive, PTL

(* The SPI clock keeps within 20 MHz for every configured frequency. *)
THEOREM SpiClockIsKept == Spec => []SpiClockInSpec
<1>1. IInv => SpiClockInSpec
  <2>1. SUFFICES ASSUME IInv, InUse PROVE BusClock <= (clk_sel + 2) * 20000
    BY DEF SpiClockInSpec
  <2>2. CASE pc = "load_stage2"
    <3>1. clk_sel = 12 /\ cpu_clk_sel = 0 /\ fdiv = 1 /\ ffrac = 1
      BY <2>1, <2>2 DEF IInv, Derived, Source, Divided
    <3>. QED
      BY <3>1 DEF BusClock, CpuClock
  <2>3. CASE pc = "load_stage3"
    <3> DEFINE bus == CpuClock \div 4
    <3>1. bus \in Nat /\ bus <= 4097 * 20000
      BY <2>1, <2>3, FinalClock
    <3>5. clk_sel = ClkSel
      BY <2>1, <2>3 DEF IInv, Derived
    <3>6. FinalCpuClk = CpuClock
      BY <2>1, <2>3, FinalClock
    <3>7. clk_sel = Clamped(Divider(bus, 20000)) - 2
      BY <3>5, <3>6 DEF ClkSel
    <3> HIDE DEF bus
    <3>3. /\ InRange(Clamped(Divider(bus, 20000)))
          /\ bus <= Clamped(Divider(bus, 20000)) * 20000
      BY <3>1, SpiDivider
    <3>4. clk_sel + 2 = Clamped(Divider(bus, 20000))
      BY <3>7, <3>3 DEF InRange
    <3>. QED
      BY <3>3, <3>4 DEF BusClock, bus, InRange
  <2>. QED
    BY <2>1, <2>2, <2>3 DEF InUse
<1>. QED
  BY <1>1, Inductive, PTL

(* The CPU is never faster than configured, and within a PLL step of it. *)
THEOREM CpuClockIsKept == Spec => []CpuClockAsConfigured
<1>1. IInv => CpuClockAsConfigured
  <2>1. SUFFICES ASSUME IInv, pc \in {"target", "load_stage3"}
                 PROVE  /\ CpuClock <= Checked(cpu_freq) * 1000
                        /\ CpuClock + (Crystal \div PreDivider(cpll.div))
                             > Checked(cpu_freq) * 1000
    BY DEF CpuClockAsConfigured
  <2>2. cpll.div = XtalDiv
    BY <2>1 DEF IInv, Programmed, Word
  <2>. QED
    BY <2>1, <2>2, FinalClock, Multiplier DEF IInv
<1>. QED
  BY <1>1, Inductive, PTL

(* Neither the multiplier's field nor the 32-bit product overflows. *)
THEOREM PllDoesNotOverflow == Spec => []PllFits
<1>1. IInv => PllFits
  <2>1. SUFFICES ASSUME IInv, pc \in {"cpll", "target", "load_stage3"}
                 PROVE  cpll.fb < 128 /\ (cpll.fb + 1) * Crystal < 4294967
    BY DEF PllFits
  <2>2. cpll.fb \in 14 .. 59 /\ Crystal \in {20000, 25000, 40000}
    BY <2>1, Multiplier DEF IInv, Programmed, Word
  <2>. QED
    BY <2>2
<1>. QED
  BY <1>1, Inductive, PTL

(* DDR2 memory is never driven at 1200 MHz. *)
THEOREM Ddr2IsKept == Spec => []Ddr2InSpec
<1>1. IInv => Ddr2InSpec
  BY DEF IInv, DramChosen, DdrOption, Ddr2InSpec
<1>. QED
  BY <1>1, Inductive, PTL
=============================================================================
