----------------------------- MODULE Stage1Load -----------------------------
(***************************************************************************)
(* Stage 1: the boot code copies itself into SRAM, copies stage 2 page by  *)
(* page into locked lines of the L2 cache and jumps there.  Bad blocks and *)
(* the ECC status are not looked at, and the status poll has no timeout.   *)
(*                                                                         *)
(* The image lies in the flash as the build concatenates it: page 0 holds  *)
(* stage 1, stage 2 starts in the next page with its header.  The L2 cache *)
(* is indexed with addresses modulo its size; its data is named by the     *)
(* page it was filled from and the line in that page.                      *)
(***************************************************************************)
EXTENDS Integers, FiniteSets

CONSTANTS PageSize, PagesPerBlock, FlashPages,
          Planes,         \* page registers of the chip
          LineSize, L2Size,
          BootCopy,       \* bytes the boot code copies into SRAM
          Stage1Sizes,    \* sizes of stage 1
          LoadAddrs, Sizes,   \* what the header of stage 2 may say
          MaxUncorr       \* bound: uncorrectable pages in the flash

(* The L2 cache (config.h: 256 KB) holds whole pages. *)
ASSUME GeometryAssumption ==
  /\ PageSize \in Nat \ {0} /\ LineSize \in Nat \ {0} /\ L2Size \in Nat \ {0}
  /\ PageSize % LineSize = 0 /\ L2Size % PageSize = 0
  /\ PagesPerBlock \in Nat \ {0} /\ Planes \in {1, 2} /\ FlashPages \in Nat
  /\ BootCopy \in Nat /\ MaxUncorr \in Nat

(* Stage 1 is padded to one page, stage 2 is linked at a line of the cache *)
(* and fits into it.                                                       *)
ASSUME ImageAssumption ==
  /\ Stage1Sizes \subseteq 1 .. PageSize
  /\ LoadAddrs \subseteq Nat /\ \A a \in LoadAddrs : a % LineSize = 0
  /\ Sizes \subseteq 1 .. L2Size
  /\ \A n \in Sizes : PageSize + n <= FlashPages * PageSize

VARIABLES
  pc,
  sram,                   \* bytes of the boot code in SRAM
  s2h,                    \* the header of stage 2 as read
  addr, dstaddr, end, plane,  \* of load_stage2; plane is the PLANEBIT of ca
  chip_busy, chip_pa, chip_reg, chip_ecc,
  l2_tag, l2_data,        \* per line: the address locked there, its content
  stage1_size, image, uncorr  \* the flash

chip    == <<chip_busy, chip_pa, chip_reg, chip_ecc>>
l2      == <<l2_tag, l2_data>>
flash   == <<stage1_size, image, uncorr>>
locals  == <<s2h, addr, dstaddr, end, plane>>
vars    == <<pc, sram, locals, chip, l2, flash>>

Pages   == 0 .. FlashPages - 1
Headers == [loadaddr : LoadAddrs, size : Sizes]
Stage2Offset == PageSize

Registers == 0 .. Planes - 1
Contents  == [page : Pages, good : BOOLEAN]
Nothing   == [page |-> -1, good |-> FALSE]
Good(p)   == [page |-> p, good |-> TRUE]

Indices   == 0 .. (L2Size \div LineSize) - 1
Index(a)  == (a % L2Size) \div LineSize
NoTag     == -1
StaleTag  == -2
LinesPerPage == PageSize \div LineSize

DownTo(a, n) == a - (a % n)
UpTo(a, n)   == DownTo(a + n - 1, n)

-----------------------------------------------------------------------------
(* The chip: a busy one ignores PAGE READ; its ECC works while it loads.   *)

RegisterOf(p) == (p \div PagesPerBlock) % Planes

ChipReady ==
  /\ chip_busy
  /\ chip_busy' = FALSE
  /\ chip_reg' = [chip_reg EXCEPT ![RegisterOf(chip_pa)] =
                    [page |-> chip_pa,
                     good |-> chip_ecc /\ chip_pa \notin uncorr]]
  /\ UNCHANGED <<pc, sram, locals, chip_pa, chip_ecc, l2, flash>>

(* spi_nand_read_page_to_cache up to its poll. *)
PageRead(pa) ==
  IF chip_busy THEN UNCHANGED chip
  ELSE chip_busy' = TRUE /\ chip_pa' = pa /\ UNCHANGED <<chip_reg, chip_ecc>>

(* The poll goes on until the chip is not busy. *)
OipSet   == chip_busy     \* mutated: the bit is tested the wrong way round
OipClear == ~chip_busy

(* spi_nand_read_page_cache(ca): the plane bit of ca selects the register. *)
CacheContent == chip_reg[IF Planes = 1 THEN 0 ELSE plane]

PageAddress(a) == a \div PageSize

(* Mutated: the plane bit is left out of the column address. *)
PlaneBitMissing(a) == 0
PlaneBit(a) == (a \div (PageSize * PagesPerBlock)) % 2

-----------------------------------------------------------------------------
(* The boot code: caches to their reset state, itself into SRAM. *)
Start ==
  /\ pc = "start"
  /\ l2_tag' = [i \in Indices |-> NoTag] /\ UNCHANGED l2_data
  /\ sram' = BootCopy
  /\ pc' = "init"
  /\ UNCHANGED <<locals, chip, flash>>

(* RESET and the ECC enable bit. *)
SpiNandInit ==
  /\ pc = "init"
  /\ chip_busy' = FALSE /\ chip_ecc' = TRUE
  /\ chip_reg' = [r \in Registers |-> Nothing]
  /\ pc' = "load"
  /\ UNCHANGED <<sram, locals, chip_pa, l2, flash>>

LoadStage2 ==
  /\ pc = "load"
  /\ addr' = DownTo(Stage2Offset, PageSize)
  /\ PageRead(PageAddress(addr')) /\ plane' = PlaneBit(addr')
  /\ pc' = "header"
  /\ UNCHANGED <<sram, s2h, dstaddr, end, l2, flash>>

(* lock_l2_cache: the lines that hold a byte of [base, base + size). *)
LinesOf(base, size) ==
  {a \in DownTo(base, LineSize) .. UpTo(base + size, LineSize) - 1 :
     a % LineSize = 0}

EndOf(a, size) == UpTo(a + size, PageSize)

LockedAt(i) == {a \in LinesOf(s2h'.loadaddr, s2h'.size) : Index(a) = i}

(* A header read from a page beyond correction may say anything. *)
ReadHeader ==
  /\ pc = "header" /\ OipClear
  /\ s2h' \in IF CacheContent = Good(PageAddress(Stage2Offset))
              THEN {image} ELSE Headers
  /\ l2_tag' = [i \in Indices |-> IF LockedAt(i) = {} THEN l2_tag[i]
                                  ELSE CHOOSE a \in LockedAt(i) : TRUE]
  /\ l2_data' = [i \in Indices |-> IF LockedAt(i) = {} THEN l2_data[i]
                                   ELSE <<Nothing, 0>>]
  /\ dstaddr' = s2h'.loadaddr
  /\ end' = EndOf(addr, s2h'.size)
  /\ pc' = "data"
  /\ UNCHANGED <<sram, addr, plane, chip, flash>>

(* Mutated: page 0 is not asked for again. *)
RestoreNothing == UNCHANGED chip
RestorePage0   == PageRead(0)

(* One turn of the loop: fill_l2_cache with the page in the register, then *)
(* ask for the next page, or for page 0 after the last one.                *)
CopyPage ==
  /\ pc = "data" /\ OipClear
  /\ l2_data' = [i \in Indices |->
       LET k == {j \in 0 .. LinesPerPage - 1 : Index(dstaddr + j * LineSize) = i}
       IN  IF k = {} THEN l2_data[i]
           ELSE <<CacheContent, CHOOSE j \in k : TRUE>>]
  /\ dstaddr' = dstaddr + PageSize
  /\ addr' = addr + PageSize
  /\ IF addr' >= end
     THEN RestorePage0 /\ pc' = "page0" /\ UNCHANGED plane
     ELSE /\ PageRead(PageAddress(addr')) /\ plane' = PlaneBit(addr')
          /\ UNCHANGED pc
  /\ UNCHANGED <<sram, s2h, end, l2_tag, flash>>

(* target_stage2_post_setup: nothing of the range is in the L1 caches yet. *)
EnterStage2 ==
  /\ pc = "page0" /\ OipClear
  /\ pc' = "stage2"
  /\ UNCHANGED <<sram, locals, chip, l2, flash>>

Init ==
  /\ pc = "start" /\ sram = 0
  /\ stage1_size \in Stage1Sizes /\ image \in Headers
  /\ uncorr \in SUBSET Pages /\ Cardinality(uncorr) <= MaxUncorr
  /\ s2h = image /\ addr = 0 /\ dstaddr = 0 /\ end = 0 /\ plane = 0
  /\ chip_busy \in BOOLEAN /\ chip_ecc \in BOOLEAN /\ chip_pa = 0
  /\ chip_reg = [r \in Registers |-> Nothing]
  /\ l2_tag = [i \in Indices |-> StaleTag]
  /\ l2_data = [i \in Indices |-> <<Nothing, 0>>]

Cpu == Start \/ SpiNandInit \/ LoadStage2 \/ ReadHeader \/ CopyPage
       \/ EnterStage2

Next == Cpu \/ ChipReady

(* The poll has no timeout: stage 1 relies on a chip that gets ready. *)
Spec == Init /\ [][Next]_vars /\ WF_vars(Cpu) /\ WF_vars(ChipReady)

-----------------------------------------------------------------------------
TypeOK ==
  /\ pc \in {"start", "init", "load", "header", "data", "page0", "stage2"}
  /\ sram \in Nat /\ s2h \in Headers
  /\ addr \in Nat /\ dstaddr \in Nat /\ end \in Nat /\ plane \in 0 .. 1
  /\ chip_busy \in BOOLEAN /\ chip_pa \in Pages /\ chip_ecc \in BOOLEAN
  /\ chip_reg \in [Registers -> Contents \cup {Nothing}]
  /\ l2_tag \in [Indices -> Nat \cup {NoTag, StaleTag}]
  /\ l2_data \in [Indices -> (Contents \cup {Nothing})
                               \X (0 .. LinesPerPage - 1)]
  /\ stage1_size \in Stage1Sizes /\ image \in Headers /\ uncorr \subseteq Pages

(* Stage 2 is entered when every line of it, from its first byte to the    *)
(* last of its bss, is locked in the L2 cache under its own address and    *)
(* holds the bytes of the flash that belong there, provided the chip could *)
(* correct the pages they come from.                                       *)
ImagePages == PageAddress(Stage2Offset) ..
                PageAddress(Stage2Offset + image.size - 1)

Stage2IsWhole ==
  pc = "stage2" /\ ImagePages \cap uncorr = {} =>
    /\ s2h = image
    /\ \A a \in LinesOf(image.loadaddr, image.size) :
         LET ofs == a - image.loadaddr
         IN  /\ l2_tag[Index(a)] = a
             /\ l2_data[Index(a)] =
                  << Good(PageAddress(Stage2Offset + ofs)),
                     (ofs % PageSize) \div LineSize >>

(* Stage 2 finds the chip as its driver assumes: idle, and with page 0 in  *)
(* the page register, where a warm reset looks for the boot code.          *)
HandsOverTheChip ==
  pc = "stage2" => ~chip_busy /\ chip_reg[0].page = 0

(* Stage 2 is reached, with a chip that answers. *)
ReachesStage2 == <>(pc = "stage2")

(* README.md:18: stage 1 may be as large as a page, 2KB or 4KB; all of it  *)
(* must then be in SRAM when it starts to run there.                       *)
Stage1IsWhole == pc # "start" => sram >= stage1_size
=============================================================================
