---------------------------- MODULE SpiNandLoad ----------------------------
(***************************************************************************)
(* The 2nd-stage SPI-NAND driver (src/stage2/spi-nand-load.c) together     *)
(* with the chip and the flash it drives.  The driver is a sequential      *)
(* program: pc names the statement it is about to execute.  The chip runs  *)
(* beside it (ChipReady) and, while it is busy, obeys RESET and GET        *)
(* FEATURE only; nothing but the status poll tells the driver about it.    *)
(*                                                                         *)
(* A flash byte is named by its address; a page by address \div WriteSize, *)
(* a block by address \div EraseSize, both numbered through all the dies.  *)
(* The table of chips only holds powers of two, so the masks and shifts of *)
(* the C code are written with % and \div.                                 *)
(***************************************************************************)
EXTENDS Integers, FiniteSets

CONSTANTS WriteSize,      \* bytes of a page, without its out-of-band bytes
          OobSize,        \* out-of-band bytes of a page
          PagesPerBlock,
          BlocksPerDie,
          Planes,         \* page registers of a die
          NDies,
          Addrs, Sizes,   \* what callers pass to spi_nand_load_skip_bad
          MaxUncorr       \* bound: uncorrectable pages in the flash

ASSUME GeometryAssumption ==
  /\ WriteSize \in Nat \ {0} /\ PagesPerBlock \in Nat \ {0}
  /\ BlocksPerDie \in Nat \ {0}
  /\ Planes \in {1, 2} /\ NDies \in {1, 2}
  /\ OobSize \in Nat /\ OobSize > 1
  /\ BlocksPerDie % Planes = 0

ASSUME CallsAssumption ==
  Addrs \subseteq Nat /\ Sizes \subseteq Nat /\ MaxUncorr \in Nat

EraseSize   == WriteSize * PagesPerBlock
DieSize     == EraseSize * BlocksPerDie
FlashSize   == DieSize * NDies
PagesPerDie == PagesPerBlock * BlocksPerDie

Dies   == 0 .. NDies - 1
Blocks == 0 .. BlocksPerDie * NDies - 1
Pages  == 0 .. PagesPerDie * NDies - 1
NoPage    == -1           \* a buffer that holds no page of the flash
Untouched == -2           \* a destination byte nothing has been copied to
Garbage   == -3           \* a destination byte that is no byte of the flash

PageOf(a)     == a \div WriteSize
BlockOf(a)    == a \div EraseSize
FirstPage(b)  == b * PagesPerBlock
PageBase(a)   == a - (a % WriteSize)    \* a & ~writesize_mask
BlockBase(a)  == a - (a % EraseSize)    \* a & ~erasesize_mask

VARIABLES
  pc, site,               \* the statement, and the read_page call it is in
  ret,                    \* the last error code
  init_i,                 \* the loop counter of spi_nand_init_chip
  spi_nand_chip,          \* TRUE: load_init has recognised the chip
  curr_dieidx, page_cache,
  off, size, ptr, check_bad, curr_addr, buff,   \* of load_skip_bad
  printed,                \* pages whose "Uncorrectable bitflips" was printed
  addr, want, skipped,    \* the call's arguments; the blocks it has skipped
  page0_hung,             \* history: a page-0 read was abandoned while busy
  chip_die, chip_busy,    \* the chip: die selected, OIP bit,
  chip_pa,                \* the page last asked for,
  chip_reg, chip_ecc,     \* page registers and ECC enable bits
  marked, uncorr          \* the flash: marked blocks, uncorrectable pages

call    == <<addr, want>>
load    == <<off, size, ptr, check_bad, curr_addr, buff, printed, skipped>>
globals == <<spi_nand_chip, curr_dieidx, page_cache>>
chip    == <<chip_die, chip_busy, chip_pa, chip_reg, chip_ecc>>
flash   == <<marked, uncorr>>
vars    == <<pc, site, ret, init_i, page0_hung, call, load, globals, chip,
             flash>>

(* Mutated: the dies are not counted. *)
chipsizeOneDie == IF spi_nand_chip THEN DieSize ELSE 0

chipsize == IF spi_nand_chip THEN FlashSize ELSE 0

-----------------------------------------------------------------------------
(* The chip.                                                               *)

Registers == Dies \X (0 .. Planes - 1)

(* Consecutive blocks of a die lie in alternate planes. *)
RegisterOf(p) == << p \div PagesPerDie,
                    ((p % PagesPerDie) \div PagesPerBlock) % Planes >>

ChipReady ==
  /\ chip_busy
  /\ chip_busy' = FALSE
  /\ chip_reg' = [chip_reg EXCEPT ![RegisterOf(chip_pa)] = chip_pa]
  /\ UNCHANGED <<pc, site, ret, init_i, page0_hung, call, load, globals,
                 chip_die, chip_pa, chip_ecc, flash>>

(* RESET ends what the chip was doing.  Whether it also selects die 0 and  *)
(* clears the ECC enable bits differs from chip to chip.                   *)
ResetChip ==
  /\ chip_busy' = FALSE
  /\ chip_reg' = [r \in Registers |-> NoPage]
  /\ chip_die' \in {0, chip_die}
  /\ chip_ecc' \in {chip_ecc, [d \in Dies |-> FALSE]}
  /\ UNCHANGED chip_pa

(* PAGE READ of row pa, in the die the chip has selected. *)
PageRead(pa) ==
  IF chip_busy
  THEN UNCHANGED chip
  ELSE /\ chip_busy' = TRUE
       /\ chip_pa' = chip_die * PagesPerDie + pa
       /\ UNCHANGED <<chip_die, chip_reg, chip_ecc>>

(* The column's plane bit is ignored by a chip of one plane. *)
ReadCache(plane) ==
  page_cache' = chip_reg[<<chip_die, IF Planes = 1 THEN 0 ELSE plane>>]

UncorrectableStatus == chip_pa \in uncorr /\ chip_ecc[chip_die]

(* The first out-of-band byte of page p is not 0xff. *)
MarkerIn(p) == \E b \in marked : p = FirstPage(b)

-----------------------------------------------------------------------------
(* Selecting a die and starting the chip.                                  *)

(* Mutated: the die switched to is not remembered. *)
SelectDieForgets(d) ==
  IF NDies = 1 \/ curr_dieidx = d
  THEN UNCHANGED <<curr_dieidx, chip_die>>
  ELSE /\ chip_die' = IF chip_busy THEN chip_die ELSE d
       /\ UNCHANGED curr_dieidx

(* The SET FEATURE a busy chip ignores still moves curr_dieidx. *)
SelectDie(d) ==
  IF NDies = 1 \/ curr_dieidx = d
  THEN UNCHANGED <<curr_dieidx, chip_die>>
  ELSE /\ curr_dieidx' = d
       /\ chip_die' = IF chip_busy THEN chip_die ELSE d

(* Mutated: the ECC bit is set before the die is switched. *)
EnableEccFirst ==
  chip_ecc' = IF chip_busy THEN chip_ecc
              ELSE [chip_ecc EXCEPT ![chip_die] = TRUE]

(* Follows SelectDie in its action: the bit is set in the die selected. *)
EnableEcc ==
  chip_ecc' = IF chip_busy THEN chip_ecc
              ELSE [chip_ecc EXCEPT ![chip_die'] = TRUE]

(* RESET, READ ID, and the table of known chips. *)
LoadInit ==
  /\ pc = "start"
  /\ ResetChip
  /\ \/ spi_nand_chip' = TRUE /\ pc' = "init" /\ UNCHANGED ret
     \/ spi_nand_chip' = FALSE /\ pc' = "idle" /\ ret' = "ENODEV"
  /\ init_i' = 0
  /\ UNCHANGED <<site, curr_dieidx, page_cache, page0_hung, call, load, flash>>

InitDie ==
  /\ pc = "init" /\ init_i < NDies
  /\ SelectDie(init_i)
  /\ EnableEcc
  /\ init_i' = init_i + 1
  /\ UNCHANGED <<pc, site, ret, spi_nand_chip, page_cache, page0_hung, call,
                 load, chip_busy, chip_pa, chip_reg, flash>>

(* Back to the caller: load_init (no read is under way) or read_page. *)
InitDone ==
  /\ pc = "init" /\ init_i = NDies
  /\ SelectDie(0)
  /\ pc' = IF site = "none" THEN "idle" ELSE "return"
  /\ UNCHANGED <<site, ret, init_i, spi_nand_chip, page_cache, page0_hung,
                 call, load, chip_busy, chip_pa, chip_reg, chip_ecc, flash>>

-----------------------------------------------------------------------------
(* spi_nand_read_page(curr_addr, page_cache, len)                          *)

ReadLength == IF site = "check" THEN WriteSize + 1 ELSE WriteSize

(* Mutated: the plane bit is left out of the column address. *)
PlaneBitMissing(a) == 0

(* addr_to_pa_ca: the row in the die, and the plane bit of the column. *)
RowAddress(a) == (a % DieSize) \div WriteSize
PlaneBit(a)   == ((a % DieSize) \div EraseSize) % 2

WithinPage(a, len) == (a % WriteSize) + len < WriteSize + OobSize

(* The die is selected before the length is looked at. *)
ReadPage ==
  /\ pc = "read"
  /\ IF curr_addr >= chipsize
     THEN /\ pc' = "return" /\ ret' = "EINVAL"
          /\ UNCHANGED <<curr_dieidx, chip_die>>
     ELSE /\ SelectDie(curr_addr \div DieSize)
          /\ IF WithinPage(curr_addr, ReadLength)
             THEN pc' = "command" /\ UNCHANGED ret
             ELSE pc' = "return" /\ ret' = "EINVAL"
  /\ UNCHANGED <<site, init_i, spi_nand_chip, page_cache, page0_hung, call,
                 load, chip_busy, chip_pa, chip_reg, chip_ecc, flash>>

ReadPageToCache ==
  /\ pc = "command"
  /\ PageRead(RowAddress(curr_addr))
  /\ pc' = "poll"
  /\ UNCHANGED <<site, ret, init_i, page0_hung, call, load, globals, flash>>

PollReady ==
  /\ pc = "poll" /\ ~chip_busy
  /\ pc' = "status"
  /\ UNCHANGED <<site, ret, init_i, page0_hung, call, load, globals, chip,
                 flash>>

(* Mutated: the timeout is returned with the chip still busy. *)
PollTimeoutNoReset ==
  /\ pc = "poll" /\ chip_busy
  /\ pc' = "return" /\ ret' = "ETIMEDOUT"
  /\ UNCHANGED <<site, init_i, page0_hung, call, load, globals, chip, flash>>

(* OIP was set in the last status read before TIMEOUT ran out. *)
PollTimeout ==
  /\ pc = "poll" /\ chip_busy
  /\ pc' = "reset" /\ ret' = "ETIMEDOUT"
  /\ UNCHANGED <<site, init_i, page0_hung, call, load, globals, chip, flash>>

(* Mutated: the chip is not initialised again after its reset. *)
ResetNoInit ==
  /\ pc = "reset"
  /\ ResetChip
  /\ pc' = "return"
  /\ UNCHANGED <<site, ret, init_i, page0_hung, call, load, globals, flash>>

Reset ==
  /\ pc = "reset"
  /\ ResetChip
  /\ pc' = "init" /\ init_i' = 0
  /\ UNCHANGED <<site, ret, page0_hung, call, load, globals, flash>>

GetEccStatus ==
  /\ pc = "status"
  /\ ret' = IF UncorrectableStatus THEN "EBADMSG" ELSE "OK"
  /\ pc' = "transfer"
  /\ UNCHANGED <<site, init_i, page0_hung, call, load, globals, chip, flash>>

(* Done whatever the ECC status said. *)
ReadPageCache ==
  /\ pc = "transfer"
  /\ ReadCache(PlaneBit(curr_addr))
  /\ pc' = "return"
  /\ UNCHANGED <<site, ret, init_i, spi_nand_chip, curr_dieidx, page0_hung,
                 call, load, chip, flash>>

-----------------------------------------------------------------------------
(* spi_nand_load_skip_bad(addr, buff, size)                                *)

Call(a, n) ==
  /\ pc = "idle"
  /\ addr' = a /\ want' = n
  /\ off' = a /\ size' = n /\ ptr' = 0 /\ check_bad' = TRUE /\ curr_addr' = 0
  /\ buff' = [i \in 0 .. n - 1 |-> Untouched]
  /\ printed' = {} /\ skipped' = {}
  /\ pc' = "loop" /\ site' = "none" /\ ret' = "OK" /\ init_i' = 0
  /\ UNCHANGED <<page0_hung, globals, chip, flash>>

(* Mutated: a block entered in its middle, after a skip, is not checked. *)
NeedsCheckAtStart(o) == o % EraseSize = 0 \/ (check_bad /\ skipped = {})

NeedsCheck(o) == o % EraseSize = 0 \/ check_bad

(* Mutated: the offset in the block is lost; the block is not left. *)
SkipToStart(o) == BlockBase(o) + EraseSize
SkipToSame(o)  == BlockBase(o) + (o % EraseSize)

SkipTo(o) == BlockBase(o) + EraseSize + (o % EraseSize)

Chunk(o) == LET rest == WriteSize - (o % WriteSize)
            IN  IF rest > size THEN size ELSE rest

Return(r) == pc' = "idle" /\ ret' = r

LoopDone ==
  /\ pc = "loop" /\ size = 0
  /\ Return("OK")
  /\ UNCHANGED <<site, init_i, page0_hung, call, load, globals, chip, flash>>

(* Mutated: off by one at the end of the flash. *)
ExceedsEarly(o) == o + size >= chipsize

Exceeds(o) == o >= chipsize

LoopExceeds ==
  /\ pc = "loop" /\ size > 0 /\ Exceeds(off)
  /\ Return("EIO")
  /\ UNCHANGED <<site, init_i, page0_hung, call, load, globals, chip, flash>>

LoopRead ==
  /\ pc = "loop" /\ size > 0 /\ ~Exceeds(off)
  /\ IF NeedsCheck(off)
     THEN site' = "check" /\ curr_addr' = BlockBase(off)
     ELSE site' = "data"  /\ curr_addr' = PageBase(off)
  /\ pc' = "read"
  /\ UNCHANGED <<ret, init_i, page0_hung, call, off, size, ptr, check_bad, buff,
                 printed, skipped, globals, chip, flash>>

PrintError ==
  printed' = IF ret = "EBADMSG" THEN printed \cup {PageOf(curr_addr)}
             ELSE printed

(* Any error of the check, a timeout too, skips the block. *)
SkipBlock ==
  /\ pc = "return" /\ site = "check"
  /\ ret # "OK" \/ MarkerIn(page_cache)
  /\ PrintError
  /\ off' = SkipTo(off) /\ check_bad' = TRUE
  /\ skipped' = skipped \cup {BlockOf(off)}
  /\ pc' = "loop"
  /\ UNCHANGED <<site, ret, init_i, page0_hung, call, size, ptr, curr_addr,
                 buff, globals, chip, flash>>

(* The check of a block whose first page is wanted has read that page. *)
BlockIsGood ==
  /\ pc = "return" /\ site = "check"
  /\ ret = "OK" /\ ~MarkerIn(page_cache)
  /\ check_bad' = FALSE
  /\ IF curr_addr = PageBase(off)
     THEN pc' = "copy" /\ UNCHANGED <<site, curr_addr>>
     ELSE pc' = "read" /\ site' = "data" /\ curr_addr' = PageBase(off)
  /\ UNCHANGED <<ret, init_i, page0_hung, call, off, size, ptr, buff, printed,
                 skipped, globals, chip, flash>>

(* An uncorrectable page is reported and used. *)
DataRead ==
  /\ pc = "return" /\ site = "data" /\ ret \in {"OK", "EBADMSG"}
  /\ PrintError
  /\ pc' = "copy"
  /\ UNCHANGED <<site, ret, init_i, page0_hung, call, off, size, ptr, check_bad,
                 curr_addr, buff, skipped, globals, chip, flash>>

DataFailed ==
  /\ pc = "return" /\ site = "data" /\ ret \notin {"OK", "EBADMSG"}
  /\ Return(ret)
  /\ UNCHANGED <<site, init_i, page0_hung, call, load, globals, chip, flash>>

CacheByte(c) == IF page_cache = NoPage THEN Garbage
                ELSE page_cache * WriteSize + c

Copy ==
  /\ pc = "copy"
  /\ LET n == Chunk(off)
     IN  /\ buff' = [i \in DOMAIN buff |->
                      IF i \in ptr .. ptr + n - 1
                      THEN CacheByte((off % WriteSize) + (i - ptr)) ELSE buff[i]]
         /\ off' = off + n /\ ptr' = ptr + n /\ size' = size - n
  /\ pc' = "loop"
  /\ UNCHANGED <<site, ret, init_i, page0_hung, call, check_bad, curr_addr,
                 printed, skipped, globals, chip, flash>>

-----------------------------------------------------------------------------
(* spi_nand_read_page_to_cache(0), as stage2/main.c calls it: straight to   *)
(* the chip, in whichever die is selected, with its result ignored.        *)

CallReadPage0 ==
  /\ pc = "idle"
  /\ PageRead(0)
  /\ pc' = "page0"
  /\ UNCHANGED <<site, ret, init_i, page0_hung, call, load, globals, flash>>

Page0Ready ==
  /\ pc = "page0" /\ ~chip_busy
  /\ pc' = "idle"
  /\ UNCHANGED <<site, ret, init_i, page0_hung, call, load, globals, chip,
                 flash>>

(* Nothing resets the chip here: it stays busy behind the driver's back. *)
Page0Timeout ==
  /\ pc = "page0" /\ chip_busy
  /\ pc' = "idle" /\ page0_hung' = TRUE
  /\ UNCHANGED <<site, ret, init_i, call, load, globals, chip, flash>>

-----------------------------------------------------------------------------
(* Stage 1 has just read stage 2 through die 0: the chip is idle there.     *)
Init ==
  /\ pc = "start" /\ site = "none" /\ ret = "OK" /\ init_i = 0
  /\ page0_hung = FALSE
  /\ spi_nand_chip = FALSE /\ curr_dieidx = 0 /\ page_cache = NoPage
  /\ off = 0 /\ size = 0 /\ ptr = 0 /\ check_bad = TRUE /\ curr_addr = 0
  /\ buff = [i \in {} |-> Untouched] /\ printed = {}
  /\ addr = 0 /\ want = 0 /\ skipped = {}
  /\ chip_die = 0 /\ chip_busy = FALSE /\ chip_pa = 0
  /\ chip_reg = [r \in Registers |-> NoPage]
  /\ chip_ecc = [d \in Dies |-> FALSE]
  /\ marked \in SUBSET Blocks
  /\ uncorr \in SUBSET Pages /\ Cardinality(uncorr) <= MaxUncorr

CallAny == \E a \in Addrs, n \in Sizes : Call(a, n)

Driver ==
  \/ LoadInit \/ InitDie \/ InitDone
  \/ ReadPage \/ ReadPageToCache \/ PollReady \/ PollTimeout \/ Reset
  \/ GetEccStatus \/ ReadPageCache
  \/ LoopDone \/ LoopExceeds \/ LoopRead \/ SkipBlock \/ BlockIsGood
  \/ DataRead \/ DataFailed \/ Copy
  \/ Page0Ready \/ Page0Timeout

Next == CallAny \/ CallReadPage0 \/ Driver \/ ChipReady

(* Only the processor is known to keep going: a chip that never gets ready *)
(* is what the poll's timeout is for.                                      *)
Spec == Init /\ [][Next]_vars /\ WF_vars(Driver)

-----------------------------------------------------------------------------
(* Properties.  A page-0 read abandoned while the chip is busy voids them:  *)
(* the chip then ignores the driver's next commands (see page0_hung).      *)

PCs == {"start", "init", "idle", "loop", "read", "command", "poll", "reset",
        "status", "transfer", "return", "copy", "page0"}
Errors == {"OK", "EIO", "EBADMSG", "ETIMEDOUT", "EINVAL", "ENODEV"}

(* Every variable is of its type; in particular size never wraps below 0   *)
(* and the bytes copied and the bytes left always add up to the request.   *)
TypeOK ==
  /\ pc \in PCs /\ site \in {"none", "check", "data"} /\ ret \in Errors
  /\ init_i \in 0 .. NDies
  /\ spi_nand_chip \in BOOLEAN /\ curr_dieidx \in Dies
  /\ page_cache \in Pages \cup {NoPage}
  /\ addr \in Nat /\ want \in Nat
  /\ off \in Nat /\ size \in Nat /\ ptr \in Nat /\ ptr + size = want
  /\ curr_addr \in Nat /\ check_bad \in BOOLEAN /\ page0_hung \in BOOLEAN
  /\ buff \in [0 .. want - 1 -> Nat \cup {Untouched, Garbage}]
  /\ printed \subseteq Nat /\ skipped \subseteq Nat
  /\ chip_die \in Dies /\ chip_busy \in BOOLEAN /\ chip_pa \in Pages
  /\ chip_reg \in [Registers -> Pages \cup {NoPage}]
  /\ chip_ecc \in [Dies -> BOOLEAN]
  /\ marked \subseteq Blocks /\ uncorr \subseteq Pages

(* The chip is never given a command it would ignore: every read that      *)
(* times out is followed by the reset that makes the chip listen again.    *)
NoCommandWhileBusy ==
  pc \in {"init", "idle", "loop", "read", "command", "transfer"} /\ chip_busy
    => page0_hung

(* What spi_nand_read_page returns is the page it was asked for, whatever  *)
(* die and plane it lies in and whatever timeouts and resets came before,  *)
(* and -EBADMSG is returned exactly for the pages the chip cannot correct. *)
ReadsTheRequestedPage ==
  pc = "return" /\ ret \in {"OK", "EBADMSG"} /\ ~page0_hung
    => /\ page_cache = PageOf(curr_addr)
       /\ (ret = "EBADMSG") <=> (page_cache \in uncorr)

(* No byte is ever loaded from a block marked bad, in particular not after *)
(* a block was skipped in the middle of a load that started inside a block.*)
NoByteFromMarkedBlock ==
  ~page0_hung =>
    \A i \in 0 .. ptr - 1 : buff[i] >= 0 /\ BlockOf(buff[i]) \notin marked

(* A load as its caller sees it: see ImageLoad. *)
Loading == \/ pc \in {"loop", "read", "command", "poll", "status", "transfer",
                      "return", "copy"}
           \/ pc \in {"reset", "init"} /\ site # "none"

Image == INSTANCE ImageLoad WITH
           loading <- Loading, result <- ret, void <- page0_hung,
           blocks <- IF spi_nand_chip THEN Blocks ELSE {}

(* The destination holds a prefix of the image at every moment, also after *)
(* an error; nothing past it is written; a load that returns 0 is complete.*)
LoadsTheImage ==
  ~page0_hung =>
    /\ \A i \in 0 .. ptr - 1 : Image!IsByte(i, buff[i])
    /\ \A i \in ptr .. want - 1 : buff[i] = Untouched
    /\ pc = "idle" /\ ret = "OK" => ptr = want

(* The load never uses an uncorrectable page without saying so: its return *)
(* value does not tell, the message on the console is all there is.        *)
UncorrectableIsPrinted ==
  ~page0_hung =>
    \A i \in 0 .. ptr - 1 : PageOf(buff[i]) \in uncorr
                              => PageOf(buff[i]) \in printed

(* The driver keeps the promise of ImageLoad: in particular a block is left *)
(* out whole or not at all, and -EIO only comes when the image does not fit. *)
LoadsAsPromised == Image!Spec

(* A block is skipped only if it is marked, its first page is beyond       *)
(* correction, or the chip did not answer in time.                         *)
SkipsForAReason ==
  [][ \A b \in skipped' \ skipped :
        \/ b \in marked \/ FirstPage(b) \in uncorr
        \/ ret = "ETIMEDOUT" \/ page0_hung ]_vars

(* The header comment, spi-nand-load.h:5, "SPI-NAND driver with bad block   *)
(* skipping mechanism": what a successful load left out is bad blocks.     *)
SkipsOnlyBadBlocks ==
  pc = "idle" /\ ret = "OK" /\ ~page0_hung
    => \A b \in skipped : b \in marked \/ FirstPage(b) \in uncorr
=============================================================================
