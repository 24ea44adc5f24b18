-------------------------------- MODULE Leaves --------------------------------
(***************************************************************************)
(* The parts of the loader that work each by itself, in one model: the     *)
(* timers, the SPI master, the memory probe with the pool behind it, the   *)
(* arithmetic, the checksum and the console.  They share no variable, and  *)
(* none waits for another, so that nothing is to be seen in their          *)
(* interleavings: one of them runs, the others stay as they begin.         *)
(***************************************************************************)
EXTENDS Timers, SpiMaster, MemoryPool, Arith, Crc32, Console

VARIABLE part             \* which of them runs

leaves == <<part, vars, spi, memvars, div, sum, con>>

PoolAtRest ==
  /\ mem_pc = "rest" /\ real = 0 /\ mem = <<>> /\ before = <<>>
  /\ addrbit = 0 /\ size = 0 /\ orig_base = 0 /\ orig_ptr = 0 /\ curr = 0
  /\ memsize = 0 /\ malloc_base = 0 /\ blocks = <<>> /\ roomy = TRUE

ArithAtRest ==
  /\ div_pc = "rest" /\ num = 0 /\ arg = 0
  /\ rem = 0 /\ b = 0 /\ res = 0 /\ d = 0 /\ high = 0 /\ ret = 0

SumAtRest == sum_pc = "resting" /\ crc_table = <<>> /\ crc = {} /\ ptr = 0 /\ data = <<>>

ConsoleAtRest ==
  /\ con_pc = "resting" /\ puts = FALSE /\ str = <<>> /\ pos = 1
  /\ width = 0 /\ zeropfx = FALSE /\ value = 0 /\ base = 10 /\ tmpbuf = <<>>
  /\ pending = <<>> /\ thr = <<>> /\ tsr = <<>> /\ line = <<>> /\ meant = <<>>
  /\ broken = FALSE

LInit ==
  /\ part \in {"timers", "spi", "memory", "arith", "sum", "console"}
  /\ Init /\ SpiInit
  /\ IF part = "memory"  THEN PoolInit  ELSE PoolAtRest
  /\ IF part = "arith"   THEN ArithInit ELSE ArithAtRest
  /\ IF part = "sum"     THEN SumInit   ELSE SumAtRest
  /\ IF part = "console" THEN ConInit   ELSE ConsoleAtRest

LNext ==
  /\ UNCHANGED part
  /\ \/ part = "timers"  /\ Next      /\ UNCHANGED <<spi, memvars, div, sum, con>>
     \/ part = "spi"     /\ SpiNext   /\ UNCHANGED <<vars, memvars, div, sum, con>>
     \/ part = "memory"  /\ PoolNext  /\ UNCHANGED <<vars, spi, div, sum, con>>
     \/ part = "arith"   /\ ArithNext /\ UNCHANGED <<vars, spi, memvars, sum, con>>
     \/ part = "sum"     /\ SumNext   /\ UNCHANGED <<vars, spi, memvars, div, con>>
     \/ part = "console" /\ ConNext   /\ UNCHANGED <<vars, spi, memvars, div, sum>>

LSpec == LInit /\ [][LNext]_leaves

-----------------------------------------------------------------------------
(* What is computed is what is meant: quotient and rest and the shift are  *)
(* those of the numbers, as far as the shift is defined (ShiftIsDefined),  *)
(* and the sum is the one the polynomial defines.                          *)
ArithmeticIsRight == DividesRight /\ ShiftsRight /\ SumIsRight
=============================================================================
