----------------------------- MODULE ImageLoad -----------------------------
(***************************************************************************)
(* What the caller of spi_nand_load_skip_bad is promised, without chip,    *)
(* pages, dies or polling: the image lies in the blocks from addr on; some *)
(* blocks are left out, always a whole one and never one already in use;   *)
(* bytes arrive in order, none of them from a marked block; success means  *)
(* all of them have arrived.  Once void is TRUE nothing is promised.       *)
(***************************************************************************)
EXTENDS Integers, FiniteSets

CONSTANTS EraseSize, Untouched

VARIABLES loading, result,       \* a load is under way; what the last returned
          addr, want,            \* its arguments
          buff, ptr,             \* the destination, the bytes that arrived
          skipped,               \* the blocks left out so far
          blocks, marked,        \* the blocks of the flash, the marked ones
          void

vars == <<loading, result, addr, want, buff, ptr, skipped, blocks, marked, void>>

BlockOf(a) == a \div EraseSize

FirstBlock == BlockOf(addr)

(* Byte i of the image is that many bytes after the start of its first block. *)
Position(i) == (addr % EraseSize) + i

(* Flash address a holds byte i of the image: the skipped blocks left out, *)
(* the image goes on at the same offset of the next block.                 *)
IsByte(i, a) ==
  /\ BlockOf(a) >= FirstBlock /\ BlockOf(a) \notin skipped
  /\ a % EraseSize = Position(i) % EraseSize
  /\ Cardinality((FirstBlock .. BlockOf(a) - 1) \ skipped)
       = Position(i) \div EraseSize

(* Block b is the one byte ptr is in, unless b is skipped. *)
IsNextBlock(b) == IsByte(ptr, b * EraseSize + (Position(ptr) % EraseSize))

Room == EraseSize * Cardinality({b \in blocks \ skipped : b >= FirstBlock})

Init ==
  /\ loading = FALSE /\ result = "OK" /\ addr = 0 /\ want = 0 /\ ptr = 0
  /\ buff = [i \in {} |-> Untouched] /\ skipped = {} /\ blocks = {}
  /\ void = FALSE

(* The driver finds out which flash, if any, it has. *)
Probe ==
  /\ ~loading /\ want = 0
  /\ UNCHANGED <<loading, addr, want, buff, ptr, skipped, marked, void>>

Start ==
  /\ ~loading /\ loading'
  /\ addr' \in Nat /\ want' \in Nat
  /\ ptr' = 0 /\ skipped' = {}
  /\ buff' = [i \in 0 .. want' - 1 |-> Untouched]
  /\ UNCHANGED <<blocks, marked, void>>

Skip ==
  /\ loading /\ ptr < want
  /\ \E b \in blocks :
       /\ IsNextBlock(b)
       /\ \A i \in 0 .. ptr - 1 : BlockOf(buff[i]) # b
       /\ skipped' = skipped \cup {b}
  /\ UNCHANGED <<loading, addr, want, buff, ptr, blocks, marked, void>>

Deliver ==
  /\ loading /\ ptr < ptr' /\ ptr' <= want
  /\ DOMAIN buff' = DOMAIN buff
  /\ \A i \in DOMAIN buff :
       IF i \in ptr .. ptr' - 1
       THEN IsByte(i, buff'[i]) /\ BlockOf(buff'[i]) \in blocks \ marked
       ELSE buff'[i] = buff[i]
  /\ UNCHANGED <<loading, addr, want, skipped, blocks, marked, void>>

(* -EIO: the image does not fit in what is left; -ETIMEDOUT: at any time.  *)
Finish ==
  /\ loading /\ ~loading'
  /\ \/ result' = "OK" /\ ptr = want
     \/ result' = "EIO" /\ Position(want) > Room
     \/ result' = "ETIMEDOUT"
  /\ UNCHANGED <<addr, want, buff, ptr, skipped, blocks, marked, void>>

(* Internal steps, which may change the last error code. *)
Work == loading /\ UNCHANGED <<loading, addr, want, buff, ptr, skipped, blocks,
                               marked, void>>

Disclaim == void'

Next == Probe \/ Start \/ Skip \/ Deliver \/ Finish \/ Work \/ Disclaim

Spec == Init /\ [][Next]_vars
=============================================================================
