----------------------------- MODULE MemoryPool -----------------------------
(***************************************************************************)
(* The memory stage 2 unpacks in: what the probe has found (MemSize) and   *)
(* the pool (src/stage2/malloc.c) that main.c sets up at its end.  From it *)
(* are taken, downwards, the table of crc32.c, the page cache of the flash *)
(* driver, the payload's buffer and the decoder's probabilities.  Nothing  *)
(* is freed, and nothing checked.                                          *)
(***************************************************************************)
EXTENDS MemSize, Sequences

CONSTANTS Word,           \* 2^32
          Align,          \* 16
          PtrSize,        \* sizeof(uintptr_t)
          MemBase,        \* KSEG0
          TableSize,      \* 256 words
          PageCacheSizes, \* a page with its spare bytes, in the table of chips
          PayloadSizes,   \* what stage-3 headers announce
          ProbsSizes      \* of the decoder's table of probabilities

ASSUME PoolAssumption ==
  /\ Word \in Nat \ {0} /\ Align \in Nat \ {0} /\ PtrSize \in Nat \ {0}
  /\ Word % Align = 0 /\ MemBase \in 0 .. Word - 1 /\ MemBase + Limit < Word
  /\ TableSize \in 0 .. Word - 1
  /\ MemBase % Align = 0 /\ \A r \in RealSizes : r % Align = 0
  /\ PageCacheSizes \subseteq 0 .. Word - 1
  /\ PayloadSizes \subseteq 0 .. Word - 1 /\ ProbsSizes \subseteq 0 .. Word - 1

VARIABLES malloc_base,
          blocks,         \* history: what malloc has returned, and its sizes
          roomy           \* history: there was room for each of them

pool    == <<malloc_base, blocks, roomy>>
memvars == <<probe, pool>>

(* Mutated: a block is rounded up instead of down. *)
BaseBelowUp(n) == LET p == (malloc_base - n + Align - 1) % Word IN p - (p % Align)
AtLeast(n) == IF n < PtrSize THEN PtrSize ELSE n
BaseBelow(n) == LET p == (malloc_base - AtLeast(n)) % Word IN p - (p % Align)

Malloc(n) ==
  /\ malloc_base' = BaseBelow(n)
  /\ blocks' = Append(blocks, [addr |-> malloc_base', size |-> n])
  /\ roomy' = (roomy /\ AtLeast(n) + Align <= malloc_base - MemBase)
  /\ UNCHANGED <<real, mem, sizing, memsize, before>>

MallocInit ==
  /\ mem_pc = "set" /\ mem_pc' = "pool"
  /\ malloc_base' = (MemBase + memsize) % Word
  /\ UNCHANGED <<real, mem, sizing, memsize, before, blocks, roomy>>

MallocTable == mem_pc = "pool" /\ mem_pc' = "table" /\ Malloc(TableSize)

(* spi_nand_load_init, for a chip that its table has. *)
MallocPageCache ==
  mem_pc = "table" /\ mem_pc' = "page_cache" /\ \E n \in PageCacheSizes : Malloc(n)

(* It returns before the malloc.  main goes on, but a flash of size 0 gives *)
(* it no header, and it asks for no more memory.                           *)
UnknownChip ==
  /\ mem_pc = "table" /\ mem_pc' = "no_chip"
  /\ UNCHANGED <<real, mem, sizing, memsize, before, pool>>

(* Not for an image that is not compressed. *)
MallocPayload ==
  mem_pc = "page_cache" /\ mem_pc' = "payload" /\ \E n \in PayloadSizes : Malloc(n)

MallocProbs ==
  mem_pc = "payload" /\ mem_pc' = "unpack" /\ \E n \in ProbsSizes : Malloc(n)

PoolInit == ProbeInit /\ malloc_base = 0 /\ blocks = <<>> /\ roomy = TRUE

Probe    == ProbeNext /\ UNCHANGED pool
PoolNext == \/ Probe \/ MallocInit \/ MallocTable \/ MallocPageCache \/ UnknownChip
            \/ MallocPayload \/ MallocProbs

PoolSpec == PoolInit /\ [][PoolNext]_memvars

-----------------------------------------------------------------------------
PoolTypeOK ==
  /\ malloc_base \in 0 .. Word - 1 /\ roomy \in BOOLEAN
  /\ \A i \in DOMAIN blocks : blocks[i].addr \in 0 .. Word - 1 /\ blocks[i].size \in Nat

(* While there is room, which malloc does not ask for, blocks are aligned, *)
(* lie in memory that exists, below what is kept for the I/O space, and    *)
(* have no byte in common.                                                 *)
BlocksApart ==
  roomy => \A i \in DOMAIN blocks :
    LET b == blocks[i]
    IN  /\ b.addr % Align = 0
        /\ MemBase <= b.addr
        /\ b.addr + b.size <= MemBase + (IF real >= Limit THEN Limit - IoSize ELSE real)
        /\ \A j \in 1 .. i - 1 : b.addr + b.size <= blocks[j].addr
=============================================================================
