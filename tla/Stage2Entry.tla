----------------------------- MODULE Stage2Entry -----------------------------
(***************************************************************************)
(* The entry of stage 2: it clears its BSS, chooses its clocks, has the    *)
(* DRAM set up and moves itself there (self_solidify), all while it runs   *)
(* from locked lines of the L2 cache.  The moving code is moved itself and *)
(* drops the lines it came in.  Words are read and stored through the L1   *)
(* data cache (KSEG0), except where the code goes round the caches         *)
(* (KSEG1).  The value of a word is the number of stores to it.            *)
(***************************************************************************)
EXTENDS Integers

CONSTANTS LineWords,            \* words of a line of either cache
          L2Lines,              \* lines of the L2 cache, the program's first
          BssStart, ProgEnd,    \* words; the program starts with word 0
          MaxStores             \* bound: stores to one word

ASSUME ProgramAssumption ==
  /\ LineWords \in Nat \ {0} /\ L2Lines \in Nat \ {0} /\ MaxStores \in Nat \ {0}
  /\ BssStart \in Nat /\ BssStart <= ProgEnd
  /\ ProgEnd \in 1 .. LineWords * L2Lines

VARIABLES
  pc,
  a0,             \* word or L2 line a loop is at
  kseg0,          \* how CP0_CONFIG has KSEG0 accessed
  l1, l2, dram,
  last            \* history: stores to each word

memory == <<kseg0, l1, l2, dram>>
vars   == <<pc, a0, memory, last>>

Lines   == 0 .. L2Lines - 1
Words   == 0 .. LineWords * L2Lines - 1
Program == 0 .. ProgEnd - 1
Values  == 0 .. MaxStores

LineOf(w) == w \div LineWords
Offset(w) == w % LineWords
ProgramLines == {LineOf(w) : w \in Program}

Absent     == [state |-> "absent", data |-> [o \in 0 .. LineWords - 1 |-> 0]]
Held(s, f) == [state |-> s, data |-> f]
InL1(l)    == l1[l].state # "absent"
InL2(l)    == l2[l].state # "absent"

DramLine(l)   == [o \in 0 .. LineWords - 1 |-> dram[l * LineWords + o]]
BehindL1(l)   == IF InL2(l) THEN l2[l].data ELSE DramLine(l)
CachedLine(l) == IF InL1(l) THEN l1[l].data ELSE BehindL1(l)

-----------------------------------------------------------------------------
(* The caches on their own.  A line that is not locked comes and goes; what *)
(* is written back goes to the next level that holds it.                   *)

FetchL1(l) ==
  /\ kseg0 = "cached" /\ ~InL1(l)
  /\ l1' = [l1 EXCEPT ![l] = Held("clean", BehindL1(l))]
  /\ UNCHANGED <<l2, dram>>

DramWith(l, f) == [w \in Words |-> IF LineOf(w) = l THEN f[Offset(w)] ELSE dram[w]]

EvictL1(l) ==
  /\ InL1(l)
  /\ l1' = [l1 EXCEPT ![l] = Absent]
  /\ \/ l1[l].state = "clean" /\ UNCHANGED <<l2, dram>>
     \/ /\ l1[l].state = "dirty" /\ InL2(l)
        /\ l2' = [l2 EXCEPT ![l] = Held(IF @.state = "locked" THEN "locked" ELSE "dirty",
                                        l1[l].data)]
        /\ UNCHANGED dram
     \/ /\ l1[l].state = "dirty" /\ ~InL2(l)
        /\ dram' = DramWith(l, l1[l].data) /\ UNCHANGED l2

FetchL2(l) ==
  /\ kseg0 = "cached" /\ ~InL2(l)
  /\ l2' = [l2 EXCEPT ![l] = Held("clean", DramLine(l))]
  /\ UNCHANGED <<l1, dram>>

EvictL2(l) ==
  /\ l2[l].state \in {"clean", "dirty"}
  /\ l2' = [l2 EXCEPT ![l] = Absent]
  /\ dram' = IF l2[l].state = "dirty" THEN DramWith(l, l2[l].data) ELSE dram
  /\ UNCHANGED l1

Hardware == /\ \E l \in ProgramLines : FetchL1(l) \/ EvictL1(l) \/ FetchL2(l) \/ EvictL2(l)
            /\ UNCHANGED <<pc, a0, kseg0, last>>

-----------------------------------------------------------------------------
(* The program.  A store through KSEG0 has its line in L1. *)

StoreCached(w) ==
  /\ last[w] < MaxStores
  /\ last' = [last EXCEPT ![w] = @ + 1]
  /\ l1' = [l1 EXCEPT ![LineOf(w)] =
              Held("dirty", [CachedLine(LineOf(w)) EXCEPT ![Offset(w)] = last'[w]])]
  /\ UNCHANGED <<kseg0, l2, dram>>

ClearBss ==
  /\ pc = "clear_bss"
  /\ IF a0 >= ProgEnd
     THEN pc' = "pre_init" /\ a0' = 0 /\ UNCHANGED <<memory, last>>
     ELSE StoreCached(a0) /\ a0' = a0 + 1 /\ UNCHANGED pc

(* mt7621_stage2_pre_init and dramc_init set variables of the program, and *)
(* so does all of stage 2 in the end.                                      *)
SetVariable(w) ==
  /\ pc \in {"pre_init", "stage2_main"}
  /\ StoreCached(w)
  /\ UNCHANGED <<pc, a0>>

(* dramc_init and the switch to the CPLL. *)
DramcInit ==
  /\ pc = "pre_init"
  /\ pc' = "copy" /\ a0' = 0
  /\ UNCHANGED <<memory, last>>

(* Mutated: only what was loaded from the flash is moved. *)
CopyStopLoaded == BssStart
CopyStop == ProgEnd

(* The load brings the line into L1, the store goes to the DRAM.           *)
Move(w) ==
  /\ l1' = [l1 EXCEPT ![LineOf(w)] = IF InL1(LineOf(w)) THEN @
                                     ELSE Held("clean", BehindL1(LineOf(w)))]
  /\ dram' = [dram EXCEPT ![w] = CachedLine(LineOf(w))[Offset(w)]]

CopyWord ==
  /\ pc = "copy"
  /\ Move(a0)
  /\ IF a0 + 1 = CopyStop THEN pc' = "set_uncached" /\ a0' = 0
     ELSE pc' = pc /\ a0' = a0 + 1
  /\ UNCHANGED <<kseg0, l2, last>>

SetUncached ==
  /\ pc = "set_uncached"
  /\ kseg0' = "uncached" /\ pc' = "drop"
  /\ UNCHANGED <<a0, l1, l2, dram, last>>

(* Mutated: the last line is left out. *)
DropStopShort == L2Lines - 1
DropStop == L2Lines

(* INDEX_STORE_TAG_SD of an empty tag: nothing is written back. *)
DropL2Line ==
  /\ pc = "drop"
  /\ l2' = [l2 EXCEPT ![a0] = Absent]
  /\ a0' = a0 + 1
  /\ pc' = IF a0' = DropStop THEN "set_cached" ELSE pc
  /\ UNCHANGED <<kseg0, l1, dram, last>>

SetCached ==
  /\ pc = "set_cached"
  /\ kseg0' = "cached" /\ pc' = "stage2_main"
  /\ UNCHANGED <<a0, l1, l2, dram, last>>

-----------------------------------------------------------------------------
(* As stage 1 leaves it: every line of the program locked, L1 empty; the   *)
(* DRAM holds anything but the program.                                    *)
Init ==
  /\ pc = "clear_bss" /\ a0 = BssStart /\ kseg0 = "cached"
  /\ l1 = [l \in Lines |-> Absent]
  /\ l2 = [l \in Lines |-> IF l \in ProgramLines THEN Held("locked", Absent.data)
                           ELSE Absent]
  /\ dram = [w \in Words |-> MaxStores + 1]
  /\ last = [w \in Words |-> 0]

Code == ClearBss \/ DramcInit \/ CopyWord \/ SetUncached \/ DropL2Line \/ SetCached

Next == Hardware \/ Code \/ \E w \in Program : SetVariable(w)

Spec == Init /\ [][Next]_vars

-----------------------------------------------------------------------------
CacheLine(states) == [state : states, data : [0 .. LineWords - 1 -> 0 .. MaxStores + 1]]

TypeOK ==
  /\ pc \in {"clear_bss", "pre_init", "copy", "set_uncached", "drop", "set_cached",
             "stage2_main"}
  /\ a0 \in Nat /\ a0 <= LineWords * L2Lines
  /\ kseg0 \in {"cached", "uncached"}
  /\ l1 \in [Lines -> CacheLine({"absent", "clean", "dirty"})]
  /\ l2 \in [Lines -> CacheLine({"absent", "locked", "clean", "dirty"})]
  /\ dram \in [Words -> 0 .. MaxStores + 1]
  /\ last \in [Words -> Values]

(* What an instruction fetch or a load of the program would get now. *)
Seen(w) == IF kseg0 = "cached" THEN CachedLine(LineOf(w))[Offset(w)] ELSE dram[w]

(* The program never sees anything but what it was loaded with or stored   *)
(* last: not while it copies itself, not while it runs uncached with its    *)
(* lines being dropped, not afterwards, whatever is evicted in between.    *)
ProgramSurvives == \A w \in Program : Seen(w) = last[w]

(* When stage 2 goes on, no line is left locked: the L2 cache caches again. *)
NothingStaysLocked ==
  pc = "stage2_main" => \A l \in Lines : l2[l].state # "locked"
=============================================================================
