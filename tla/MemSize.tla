------------------------------- MODULE MemSize -------------------------------
(***************************************************************************)
(* get_mem_size: stage 2 finds out how much DRAM there is by writing to    *)
(* the first word and to one at a power of two, which is the first word    *)
(* again when the memory is smaller.  Stage 2 itself lies in that memory,   *)
(* its first word at a power of two.                                       *)
(*                                                                         *)
(* Cells are the memory's words, named by the offset of their first byte.  *)
(* The complement of a word v is - v - 1.                                  *)
(***************************************************************************)
EXTENDS PowerOf

CONSTANTS Base,           \* KSEG1
          Limit,          \* 512 MB
          IoSize,         \* what target_init leaves to the I/O space, 64 MB
          RealSizes,      \* sizes a DRAM may have
          Contents        \* words found in the memory, or their complements

ASSUME SizeAssumption ==
  /\ Base \in Nat /\ Limit \in Nat /\ IoSize \in 0 .. Limit
  /\ \E n \in 3 .. 29 : Limit = Pow2[n]
  /\ \A r \in RealSizes : \E n \in 3 .. 30 : r = Pow2[n]

VARIABLES
  mem_pc,
  real,                   \* the size there is
  mem,
  addrbit, size, orig_base, orig_ptr, curr,
  memsize,                \* as set_meminfo is told
  before                  \* history: the memory at the call

sizing  == <<addrbit, size, orig_base, orig_ptr, curr>>
probe   == <<mem_pc, real, mem, sizing, memsize, before>>

Words == Contents \cup {- v - 1 : v \in Contents}
Cells == {c \in 0 .. real - 1 : c % 4 = 0}

(* The DRAM's address lines beyond its size are not connected. *)
CellAt(offset) == offset % real

off == Base + size

-----------------------------------------------------------------------------
BackupBase ==
  /\ mem_pc = "start"
  /\ orig_base' = mem[0] /\ addrbit' = 3 /\ mem_pc' = "loop"
  /\ UNCHANGED <<real, mem, size, orig_ptr, curr, memsize, before>>

ReachesLimit(s) == s >= Limit

Loop ==
  /\ mem_pc = "loop"
  /\ IF ReachesLimit(Pow2[addrbit])
     THEN size' = Limit /\ mem_pc' = "restore_base"
     ELSE size' = Pow2[addrbit] /\ mem_pc' = "backup_ptr"
  /\ UNCHANGED <<real, mem, addrbit, orig_base, orig_ptr, curr, memsize, before>>

BackupPtr ==
  /\ mem_pc = "backup_ptr"
  /\ orig_ptr' = mem[CellAt(size)] /\ mem_pc' = "write_base"
  /\ UNCHANGED <<real, mem, addrbit, size, orig_base, curr, memsize, before>>

WriteBase ==
  /\ mem_pc = "write_base"
  /\ mem' = [mem EXCEPT ![0] = off] /\ mem_pc' = "write_ptr"
  /\ UNCHANGED <<real, sizing, memsize, before>>

(* Mutated: the two words are the same. *)
PtrWordSame == off
PtrWord == - off - 1

WritePtr ==
  /\ mem_pc = "write_ptr"
  /\ mem' = [mem EXCEPT ![CellAt(size)] = PtrWord] /\ mem_pc' = "compare"
  /\ UNCHANGED <<real, sizing, memsize, before>>

Compare ==
  /\ mem_pc = "compare"
  /\ curr' = mem[0]
  /\ mem_pc' = IF curr' # off THEN "restore_base" ELSE "restore_ptr"
  /\ UNCHANGED <<real, mem, addrbit, size, orig_base, orig_ptr, memsize, before>>

PtrRestored == orig_ptr

RestorePtr ==
  /\ mem_pc = "restore_ptr"
  /\ mem' = [mem EXCEPT ![CellAt(size)] = PtrRestored]
  /\ addrbit' = addrbit + 1 /\ mem_pc' = "loop"
  /\ UNCHANGED <<real, size, orig_base, orig_ptr, curr, memsize, before>>

(* Mutated: the word read last is put back. *)
BaseFromPtr == orig_ptr
BaseRestored == orig_base

RestoreBase ==
  /\ mem_pc = "restore_base"
  /\ mem' = [mem EXCEPT ![0] = BaseRestored] /\ mem_pc' = "returned"
  /\ UNCHANGED <<real, sizing, memsize, before>>

SetMeminfo ==
  /\ mem_pc = "returned"
  /\ memsize' = IF size = Limit THEN Limit - IoSize ELSE size
  /\ mem_pc' = "set"
  /\ UNCHANGED <<real, mem, sizing, before>>

-----------------------------------------------------------------------------
ProbeInit ==
  /\ mem_pc = "start" /\ real \in RealSizes
  /\ \E v, w \in Words : mem = [c \in Cells |-> IF c = 0 THEN v ELSE w]
  /\ before = mem
  /\ addrbit = 0 /\ size = 0 /\ orig_base = 0 /\ orig_ptr = 0 /\ curr = 0
  /\ memsize = 0

ProbeNext ==
  \/ BackupBase \/ Loop \/ BackupPtr \/ WriteBase \/ WritePtr \/ Compare
  \/ RestorePtr \/ RestoreBase \/ SetMeminfo

ProbeSpec == ProbeInit /\ [][ProbeNext]_probe

-----------------------------------------------------------------------------
Probing == {"start", "loop", "backup_ptr", "write_base", "write_ptr", "compare",
            "restore_ptr", "restore_base"}

ProbeTypeOK ==
  /\ mem_pc \in Probing \cup {"returned", "set"}
  /\ real \in RealSizes /\ DOMAIN mem = Cells /\ DOMAIN before = Cells
  /\ addrbit \in Nat /\ Pow2[addrbit] < 2 * Limit
  /\ size \in 0 .. Limit /\ memsize \in 0 .. Limit

(* The size found is the size there is, up to the window's end, whatever   *)
(* the memory held before.                                                 *)
SizeIsRight ==
  mem_pc = "set" => memsize = IF real >= Limit THEN Limit - IoSize ELSE real

(* At any moment no word differs from what it was but the first and the    *)
(* one being tried, as the code that probes runs from this memory; when    *)
(* the probe is over every word is as it was, the last one tried included, *)
(* which is never put back by itself if it is the first word.              *)
MemoryIsKept ==
  \A c \in Cells : mem[c] # before[c] => mem_pc \in Probing /\ c \in {0, CellAt(size)}
=============================================================================
