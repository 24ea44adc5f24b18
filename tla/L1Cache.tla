------------------------------ MODULE L1Cache ------------------------------
(***************************************************************************)
(* The two loops of src/common/cache.S that make code just put into memory *)
(* fit to be executed.  Stage 2 stores stage 3 through the write-back data *)
(* cache and calls flush_l1_cache_range; stage 1 puts stage 2 straight     *)
(* into the L2 cache and calls invalidate_l1_cache_range.  The instruction *)
(* cache reads what is behind both L1 caches and never sees the data       *)
(* cache.  While the loops run, either cache may fetch or evict any line.  *)
(*                                                                         *)
(* Memory is a ring of lines, as the addresses of a register are; the value *)
(* of a line is the number of stores to it.                                *)
(***************************************************************************)
EXTENDS Integers

CONSTANTS LineSize, LineCount,   \* bytes of a line, lines of the memory
          Bases, Sizes,          \* arguments of the two functions
          MaxStores              \* bound: stores to one line

ASSUME SizeAssumption ==
  LineSize \in Nat \ {0} /\ LineCount \in Nat \ {0} /\ MaxStores \in Nat

ASSUME RangeAssumption ==
  /\ Bases \subseteq Nat /\ Sizes \subseteq Nat
  /\ \A b \in Bases, n \in Sizes : b + n <= LineSize * LineCount
                                   /\ b < LineSize * LineCount

VARIABLES
  pc,
  stage,          \* 1: L2 filled, then invalidated; 2: stored, then flushed
  base, size,
  a0, a1,         \* the line at hand, the line the loop stops at
  mem,            \* what is behind the L1 caches
  d, i,           \* data and instruction cache
  last            \* history: the value last put into each line

loop  == <<base, size, a0, a1>>
cache == <<mem, d, i>>
vars  == <<pc, stage, loop, cache, last>>

Lines  == 0 .. LineCount - 1
Values == 0 .. MaxStores
Absent == [state |-> "absent", val |-> 0]
Held(s, v) == [state |-> s, val |-> v]
InD(l) == d[l].state # "absent"
InI(l) == i[l].state # "absent"

-----------------------------------------------------------------------------
(* The caches on their own. *)

FetchD(l) ==
  /\ ~InD(l)
  /\ d' = [d EXCEPT ![l] = Held("clean", mem[l])]
  /\ UNCHANGED <<pc, stage, loop, mem, i, last>>

WriteBack(l) == IF d[l].state = "dirty" THEN [mem EXCEPT ![l] = d[l].val]
                ELSE mem

EvictD(l) ==
  /\ InD(l)
  /\ mem' = WriteBack(l)
  /\ d' = [d EXCEPT ![l] = Absent]
  /\ UNCHANGED <<pc, stage, loop, i, last>>

FetchI(l) ==
  /\ ~InI(l)
  /\ i' = [i EXCEPT ![l] = Held("clean", mem[l])]
  /\ UNCHANGED <<pc, stage, loop, mem, d, last>>

EvictI(l) ==
  /\ InI(l)
  /\ i' = [i EXCEPT ![l] = Absent]
  /\ UNCHANGED <<pc, stage, loop, mem, d, last>>

Hardware == \E l \in Lines : FetchD(l) \/ EvictD(l) \/ FetchI(l) \/ EvictI(l)

-----------------------------------------------------------------------------
(* The program before the call: stores of memcpy and of the decoder in     *)
(* stage 2, fill_l2_cache in stage 1.                                      *)

Store(l) ==
  /\ pc = "run" /\ last[l] < MaxStores
  /\ last' = [last EXCEPT ![l] = @ + 1]
  /\ IF stage = 2
     THEN d' = [d EXCEPT ![l] = Held("dirty", last[l] + 1)] /\ UNCHANGED mem
     ELSE mem' = [mem EXCEPT ![l] = last[l] + 1] /\ UNCHANGED d
  /\ UNCHANGED <<pc, stage, loop, i>>

FirstLine(b) == b \div LineSize

(* Mutated: the end does not wrap to the start of the address space. *)
StopLineWide(b, n) == (b + n + LineSize - 1) \div LineSize

StopLine(b, n) == ((b + n + LineSize - 1) \div LineSize) % LineCount

CallRange(b, n) ==
  /\ pc = "run"
  /\ base' = b /\ size' = n
  /\ a0' = FirstLine(b) /\ a1' = StopLine(b, n)
  /\ pc' = "first"
  /\ UNCHANGED <<stage, cache, last>>

DropI == i' = [i EXCEPT ![a0] = Absent] /\ UNCHANGED <<mem, d>>
DropD == d' = [d EXCEPT ![a0] = Absent] /\ UNCHANGED <<mem, i>>
WriteBackD == /\ mem' = WriteBack(a0)
              /\ d' = [d EXCEPT ![a0] = Absent] /\ UNCHANGED i

(* Mutated: the caches in the other order; the line is not written back.   *)
FlushOpsSwapped(op) == IF op = 1 THEN DropI ELSE WriteBackD
FlushOpsDrop(op)    == IF op = 1 THEN DropD ELSE DropI

FlushOps(op)      == IF op = 1 THEN WriteBackD ELSE DropI
InvalidateOps(op) == IF op = 1 THEN DropI ELSE DropD

CacheOp(op) == IF stage = 2 THEN FlushOps(op) ELSE InvalidateOps(op)

FirstOp ==
  /\ pc = "first"
  /\ CacheOp(1)
  /\ pc' = "second"
  /\ UNCHANGED <<stage, loop, last>>

(* The loop is left by comparing for equality, after at least one line. *)
SecondOp ==
  /\ pc = "second"
  /\ CacheOp(2)
  /\ a0' = (a0 + 1) % LineCount
  /\ pc' = IF a0' = a1 THEN "enter" ELSE "first"
  /\ UNCHANGED <<stage, base, size, a1, last>>

-----------------------------------------------------------------------------
(* Nothing is dirty in stage 1, which runs uncached. *)
Init ==
  /\ pc = "run" /\ stage \in {1, 2}
  /\ base = 0 /\ size = 0 /\ a0 = 0 /\ a1 = 0
  /\ mem = [l \in Lines |-> 0] /\ last = [l \in Lines |-> 0]
  /\ d = [l \in Lines |-> Absent] /\ i = [l \in Lines |-> Absent]

Loop == FirstOp \/ SecondOp

Next ==
  \/ Hardware
  \/ \E l \in Lines : Store(l)
  \/ \E b \in Bases, n \in Sizes : CallRange(b, n)
  \/ Loop

Spec == Init /\ [][Next]_vars /\ WF_vars(Loop)

-----------------------------------------------------------------------------
TypeOK ==
  /\ pc \in {"run", "first", "second", "enter"} /\ stage \in {1, 2}
  /\ base \in Nat /\ size \in Nat /\ a0 \in Lines /\ a1 \in Lines
  /\ mem \in [Lines -> Values] /\ last \in [Lines -> Values]
  /\ d \in [Lines -> [state : {"absent", "clean", "dirty"}, val : Values]]
  /\ i \in [Lines -> [state : {"absent", "clean"}, val : Values]]

(* The line holds a byte of the range. *)
InRange(l) == /\ size > 0
              /\ base \div LineSize <= l /\ l <= (base + size - 1) \div LineSize

(* When the loaded code is entered, each of its lines is fetched and read  *)
(* as it was last stored, whatever the caches did beside the loop.         *)
EntersWhatWasStored ==
  pc = "enter" => \A l \in Lines : InRange(l) =>
    /\ mem[l] = last[l]
    /\ InI(l) => i[l].val = last[l]
    /\ InD(l) => d[l].val = last[l]

(* No store is lost, neither in the range nor in the lines next to it.     *)
NoStoreIsLost ==
  \A l \in Lines : last[l] = IF d[l].state = "dirty" THEN d[l].val ELSE mem[l]

(* The loop works on lines of the range only; an empty range that starts   *)
(* at a line makes it go round all of memory.                              *)
LoopStaysInRange == pc \in {"first", "second"} /\ size > 0 => InRange(a0)

(* The loop ends, also for an empty range and at the end of memory.        *)
LoopEnds == pc = "first" ~> pc = "enter"
=============================================================================
