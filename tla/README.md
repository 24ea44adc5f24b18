# Verification of the MT7621 SPI-NAND boot loader

TLA+ models of the boot loader in `src/`, the TLC runs that check them on small
instances, and theorems checked by TLAPS for every value of the constants.
Paths below are relative to the repository.

## 1. The system

The MT7621 boots from a Micron SPI-NAND flash. After reset its page register
holds page 0, which the boot ROM window at `0xbfc00000` shows.

1. **Stage 1** (`src/stage1`, `src/mt7621/stage1`) lies in page 0. It copies
   itself into SRAM, sets up caches and a 500 MHz CPU clock, reads stage 2 page
   by page into *locked lines of the L2 cache* and jumps to it.
2. **Stage 2** (`src/stage2`, `src/mt7621/stage2`) runs from the L2 cache. It
   chooses clock and DRAM parameters, runs the DRAM code (a binary), switches to
   the CPLL, copies itself into the DRAM, finds the memory's size, loads stage 3
   with a driver that skips bad blocks, unpacks it and enters it.
3. **Stage 3** is any boot loader with a Breed or U-Boot header, stored from
   `STAGE3_OFFSET` on.

It is one sequential program. Concurrency comes from the hardware beside it:
the flash chip, which is busy while it loads a page and then obeys only RESET and
GET FEATURE; the caches, which fetch and evict on their own; and the clocks.

### Components

| Component | State it keeps | Operations | Hard behaviour | What makes it correct |
|---|---|---|---|---|
| stage-2 SPI-NAND driver, `stage2/spi-nand-load.c` | chip found, selected die `curr_dieidx`, `page_cache`, locals of the load | `load_init`, `select_die`, `init_chip`, `poll`, `read_page`, `load_skip_bad`, `read_page_to_cache` | driver's idea of the chip versus the chip: busy chip, reset after timeout, die, plane register, ECC enable; bad blocks in the middle of a load | the page returned is the page asked for; bytes arrive in order, none from a marked block; uncorrectable pages are reported; every call ends |
| stage-2 main, `stage2/main.c` | memory info, `stage3_offset`, header | `load_stage3`, `_breed`, `_u_boot` | two loads with independent bad-block skipping; errors ignored; page 0 put back | stage 3 is entered only with a complete payload that continues its header; a good image is not refused; page 0 is back |
| stage 1, `stage1/main.c`, `stage1/spi-nand.c`, `mt7621/stage1/*` | header, addresses, L2 tags and data | init, page read, `lock_l2_cache`, `fill_l2_cache`, hand-over | planes, page and line boundaries, poll without timeout | every line of stage 2 is locked under its address with its bytes; chip handed over idle, with page 0 |
| L1 maintenance, `common/cache.S` | loop registers | flush, invalidate a range | caches run beside the loop; equality test of the end; address wrap | the code entered is the code stored; no store lost; loop stays in the range and ends |
| clock set-up, `mt7621/stage2/target.c`, `mt7621/spi.c` | PLL word, DDR option, timing tables, timer and bus frequency, SPI divisor | `pre_init`, `target_init`, `set_final_timer_freq`, `spi_set_clock` | the same quantity computed by separate code before and after the switch; rounding; tables | timer is right, SPI within 20 MHz, CPU not faster than configured, no overflow |
| stage-2 entry, `mt7621/stage2/entry.S` | caches, DRAM, KSEG0 mode | BSS, CPLL switch, `self_solidify` | copies itself out of locked lines it runs from, while dirty lines are written back | the program always sees what it stored last; no line stays locked |
| timers, `stage{1,2}/timer.c` | last counter value, turns | `udelay`, `get_ticks`, `get_timer`, the poll's timeout | counter wraps, also exactly once between two readings | time measured is time gone by; delays and timeouts neither short nor endless |
| SPI master, `mt7621/spi.c` | controller registers | `spi_en`, `spi_write`, `spi_read`, `spi_dis` | chunks of the registers' size, controller moving bytes beside the driver | bytes in order, none twice, none stale; registers left alone while busy |
| memory size, `stage2/memsize.c` | first word, word tried | `get_mem_size` | aliasing; stage 2 lies in the memory it tries | right size; only the two words change, and both are put back |
| memory pool, `stage2/malloc.c` | pool base | `malloc` | no lower bound, nothing freed | blocks aligned, apart, in memory that exists, while there is room |
| arithmetic, `div64.c`, `lshr64.c` | – | division, shift | boundary widths, signed comparison, 32-bit products | quotient, rest and shift are those of the numbers |
| LZMA wrapper and decoder, `stage2/lzma` | dictionary (the destination), last four distances, rest of a match, places in the input | `lzma_uncompress`, `DecodeToDic`, `DecodeReal`, `WriteRem`, `TryDummy` | sizes from the stream; matches cut by the end of the output or of the first turn of the dictionary; symbols decoded without a look at the input | reads and writes inside its buffers; the bytes are those the stream means; it ends |
| CRC-32, `common/crc32.c` | table | `crc32` | a sum wider than a byte, unrolled loop | the remainder of the polynomial |
| printf and console, `stage2/printf.c`, `console.c`, `mt7621/serial.c` | place in the format, digits | `printf`, `puts`, `putc` | digits come backwards; the UART sends beside the processor | what is shown is what the format means |
| padutil, `tools/padutil.c` | sizes counted, the output file | copy, pad, remove | every call of the C library may fail half-way | the output is whole or gone |
| build, `Makefile`s, `loader.lds.S` | files of earlier builds | link, pad, `cat` | a build over what a failed one has left; the offset of stage 3 worked out twice | stages and payload lie where the code looks for them |
| libc, CPS, DRAM binary | | | | see section 7 |

Components interact by calls and through shared hardware: `main` calls the driver
(composed in `Stage2Main`); stage 1 leaves the chip to stage 2 (`HandsOverTheChip`
is exactly the chip part of `SpiNandLoad!Init`: idle, and nothing selected but
die 0, which stage 1 never leaves); `main` calls the cache loop before it enters
stage 3 and stage 1 before it enters stage 2 (`L1Cache`, for both); the
driver's timeouts and the SPI transfers rest on the frequencies of `ClockSetup`;
`MemoryPool` continues `MemSize` as the pool is set up at the end of the memory
found; `ImageBuild` runs `Padutil` and puts stage 2's payload where `Stage2Main`
looks for it (`STAGE3_OFFSET`).

The hazards, each at its line and with the properties that watch it, are listed in
`PROJECT.json`.

## 2. Modules

| Module | Models | Notes |
|---|---|---|
| `ImageLoad` | what a load promises its caller, without chip, pages or polling | abstract specification |
| `SpiNandLoad` | the stage-2 driver beside the chip | implements `ImageLoad` (`LoadsAsPromised`) |
| `Stage2Main`, `MCStage2Main` | `main.c` composed with the driver; headers for TLC | extends `SpiNandLoad` |
| `SpiNandProofs` | all that is promised of both but their end | extends `Stage2Main` |
| `Stage1Load`, `Stage1LoadProofs` | stage 1, the chip, the L2 cache | |
| `L1Cache`, `L1CacheProofs` | the two cache loops beside the L1 caches | |
| `ClockSetup`, `ClockSetupProofs` | clocks of both stages | |
| `Stage2Entry`, `Stage2EntryProofs` | stage 2 clearing its BSS and moving itself into the DRAM | |
| `LzmaDec`, `LzmaDecProofs` | `lzma_uncompress` and the decoder, on the stream's symbols | |
| `Padutil`, `ImageBuild`, `ImageBuildProofs` | padutil; the build that runs it | `ImageBuild` extends `Padutil` |
| `Timers` | delays and timeouts of both stages over a counter that wraps | |
| `SpiMaster` | SPI transfers beside the controller | |
| `MemSize`, `MemoryPool` | memory size detection; the pool behind it | `MemoryPool` extends `MemSize` |
| `Arith` | 64-bit division and shift | |
| `Crc32` | the checksum of a U-Boot header | |
| `Console` | printf, puts and putc beside the UART | |
| `Leaves`, `MCLeaves` | the parts above from `Timers` on, one at a time; buffers and formats for TLC | extends the six |
| `LeavesProofs` | each of the six by itself, and all of `Leaves` | |
| `PowerOf` | powers of a number, as a recursive function | used by `MemSize`, `Arith`, `Console` |

Operators named `...` with a comment "Mutated" are plausible bugs; each property
has one that breaks it, so that every property says something about the code.

### SpiNandLoad

`pc` names the statement about to be executed and `site` the call of
`spi_nand_read_page` it belongs to (the bad-block check or the data read).
`LoadInit`, `InitDie`, `InitDone` are `spi_nand_load_init` and
`spi_nand_init_chip`; `ReadPage`, `ReadPageToCache`, `PollReady`/`PollTimeout`,
`Reset`, `GetEccStatus`, `ReadPageCache` are `spi_nand_read_page` in program order;
`Call`, `Loop*`, `SkipBlock`, `BlockIsGood`, `DataRead`, `DataFailed`, `Copy` are
`spi_nand_load_skip_bad`; `CallReadPage0`, `Page0Ready`, `Page0Timeout` are the
direct `spi_nand_read_page_to_cache(0)`. `ChipReady` is the chip. Flash bytes and
pages are named by their addresses, so "the right byte" is an equality. Buffers
keep, per byte, the address it came from, `Untouched` or `Garbage`.

What the chip may do: RESET ends a read; whether it also selects die 0 and clears
the ECC enable bits is open, as it differs from chip to chip; a busy chip ignores
everything but RESET and GET FEATURE; each plane has a page register.

*The hypothesis `page0_hung`.* `main.c` ignores the result of the page-0 read. If
that read times out nothing resets the chip, which stays busy behind the driver's
back; the next SELECT DIE and PAGE READ are then ignored and nearly every property
fails until the next reset. The history variable `page0_hung` records that it
happened and the properties are stated for `~page0_hung`. `ComesToAnEnd` needs no such
hypothesis.

### Stage2Main

`stage` is the statement of `main.c`; `main` moves only when the driver is back at
`pc = "idle"`. A header read from bytes other than the written ones may say
anything. malloc, crc32 and the decoder are their outcomes.

### Stage1Load

A flash in which page 0 is stage 1 and stage 2 starts in the next page; an L2
cache indexed by address modulo its size, each line with the address locked there
and the page and line its data came from. `Stage2IsWhole` says that at the jump
every line from the first byte to the end of BSS is locked under its address with
its bytes, if the pages are correctable (stage 1 does not look at the ECC status
and skips no blocks).

### L1Cache

Memory is a ring of lines. `Hardware` lets either L1 cache fetch or evict any line
at any moment. A line's value is the number of stores to it. Stage 1 stores behind
the L1 caches and runs uncached, stage 2 stores through the data cache. The ring
makes `base + size` wrap as the register does.

### ClockSetup

One action per step of the boot that touches a clock. The hardware's clocks
(`CpuClock`, `BusClock`, `SpiClock`) are functions of the registers; `TimerIsRight`
and `SpiClockInSpec` compare them with what the code works out on its own. They are
claimed when timer and SPI are used (`InUse`), not between the switch of the clock
and `target_init`. In kHz: the 32-bit products of the code are in Hz, so `PllFits`
bounds them by 4294967. `CUR_CLK_STS` shows what `RBUS_DYN_CFG0` was set to.
All these clocks are whole kHz, and the bound of the SPI clock is stated without
a division.

### Timers

`now` is the time in ticks, of which the counter shows a residue. A step of a loop
or a pause between two calls takes any of a set of gaps; a loop's gaps are at most a
whole turn (10 s in the hardware), which is what `get_ticks` needs. `ElapsedIsRight`
says that within a call the extended counter adds up what went by, however long it
was not read before; `DelaysLast`, `NoEarlyTimeout` and `WaitsNoLonger` bound delay
and poll from both sides. `DelaysLast` has a part for each stage: stage 2's delays
last (`DelayLasts2`), stage 1's only while the counter does not wrap
(`DelayLasts1`), past which it ends at once. Its one delay is asked for
milliseconds after the counter was zeroed, so this is no finding.

### Stage2Entry

Words of the program in lines of an L1 and an L2 cache and in the DRAM; the value of
a word is the number of stores to it. `Hardware` fetches and writes back on its own.
`ProgramSurvives` compares, in every state, what a fetch or load would get with what
was stored last. One L1 cache stands for both: the code itself is never stored to,
and stores to its data go through the data cache.

### MemSize and MemoryPool

One action per access of the probe. The address lines beyond the DRAM's size are not
connected, so an offset reaches the cell of its remainder. Only the words that may be
touched matter, so the initial content is one word for the first cell and one for the
others, chosen among those the probe itself writes. The pool starts at the end of the
size found and gives out four blocks, downwards: the table of `crc32`, the page cache of
the flash driver, the payload's buffer, the decoder's probabilities. `UnknownChip` is
`spi_nand_load_init` returning before its `malloc`; `main.c` then finds no header and takes
no other block, and with a payload that is not compressed the page cache is the last.
`malloc` does not ask whether there is room, and `BlocksApart` is stated for the calls
that have it (the history `roomy`).

### LzmaDec

A stream is a sequence of symbols: literal, match, one of the last four distances
again, one byte of the last, end mark. Which symbol the range decoder makes of the
next bytes, and how many bytes it takes, is a choice; a symbol's last byte may be
taken with the next one (`late`), as NORMALIZE comes before a bit and not after it. All
the rest is the code: where `DecodeToDic` looks ahead with `TryDummy`, where
`DecodeReal2` sets the limit, when `DecodeReal` leaves its loop, what `WriteRem` does with
the rest of a match. `meant` is what the symbols stand for, built without a look at
the dictionary, and each byte is named by the literal it stems from, so that a byte
copied from the wrong place shows. The wrapper's sizes are 32-bit (`Word`) and the
source it announces ends eight bytes behind the payload. The bound of `StaysInItsBuffers`
is the source as announced: that the decoder may read these eight bytes, which belong to
the block above the payload's, the page cache, is the wrapper's doing and not something
the property would show, nor what a length that has wrapped leads to.

`LzmaDecode` hands over its whole input in one call: `tempBuf` is always empty and the
branch for a filled one is left out. The dictionary is the destination and is never
rewound.

### Padutil and ImageBuild

Files are sequences of bytes, a byte is named by the build and the stage it is of.
Every call of the C library may fail once in each of its states. A failing read leaves
what was copied and `fclose` is not looked at; `fault` and `lost` record these, as no
property can hold beyond them. With a wrong option, or a file that does not open, padutil
has written nothing and an output of an earlier build stays; it fails, and so does make. The stages' targets are phony and the rule of
`loader.lds` is run again by every make, since its saved command is never read back;
therefore no stale padded file gets into an image, which `StagesAreInPlace` says
whatever an earlier build has left.

### Arith, Crc32 and Console

`Arith` takes a division statement by statement, in registers of `Bits` bits. `__lshr64`
shifts a number whose high word is 0 by whatever count it is given (`lshr64.c:17`). From a
word's width on that is undefined in C; stage 2 is built with `-Os` and calls the function
from another file, so that the CPU's shift is what runs, which takes the count modulo the
width, and so does the model. `ArithmeticIsRight` leaves this case out (`ShiftIsDefined`):
the calls, at lines 252, 255, 312, 341 and 404 of `spi-nand-load.c`, shift by
logarithms of the sizes of a page, a block and a die, or by 20, all below 32.
`Crc32` compares the table-driven sum with the remainder worked out bit by bit. A word
is the set of the places where it has a one, so that exclusive or is a symmetric
difference and a shift moves each place.
`Console` sends characters through a UART of a holding and a shift register, and
compares the line with what the format means. Behind `%%` `printf.c:179` moves on
twice and leaves out the next character; no format of the loader has one, and the
history `broken` excludes it.

### Leaves and MCLeaves

Six parts that share no variable and never wait for one another. `part` names the one
that runs, the others stay as they begin, so that their states add up instead of
multiplying. `MCLeaves` only gives TLC the buffers, formats and strings.

### SpiMaster

The driver writes a chunk's registers and polls; the controller moves one byte per
step. Registers are arrays of bytes and a byte is named by its place in the buffer, so
order, loss and staleness show as inequality.

## 3. Runs

| Run | Shows | Bounds, and why they are enough |
|---|---|---|
| `dies` | `NoCommandWhileBusy`, `ReadsTheRequestedPage`, `LoadsTheImage`, `UncorrectableIsPrinted`, `NoByteFromMarkedBlock`, `SkipsForAReason`, refinement of `ImageLoad` | 2 dies × 2 blocks × 2 pages × 2 bytes, each die with a block in each of its two planes; every set of marked blocks; one uncorrectable page; loads that start inside a page or block, cross pages, blocks, the die boundary and the end of the flash; any sequence of loads |
| `skips` | **violated**: a timeout skips a good block of a successful load | |
| `main` | whole payload, payload continues its header, good image starts, page 0 back, stage 2 ends in stage 3 or the halt | headers of both kinds, compressed, plain, refused, corrupt; loads that cross pages, blocks and the die boundary; one uncorrectable page |
| `straddle` | **violated**: header over a block boundary | offset at the last byte of a block |
| `stage1` | stage 2 whole, chip handed over, reached | 12 sizes and two alignments: around every line, page and block boundary |
| `boot4k` | **violated**: only half of a 4 KB stage 1 is copied | |
| `l1cache` | code entered is code stored, no store lost, loop ends | every base and size of a ring of three lines, empty ranges and a range up to the end of memory |
| `clocks` | timer right, SPI clock and CPU clock within their bounds | each configuration word at, just below and just past its bounds; all strapping values |
| `entry2` | the program survives its move, no line stays locked | two lines of two words, code, data and BSS meeting inside lines, two stores per word |
| `leaves` | the eleven properties of the parts in `Leaves` | a counter of 8 ticks, 2 µs every 3 ticks, calls begun at any count in four turns, gaps up to a whole turn; SPI registers of 2 and 4 bytes, every length up to two chunks and some beyond; a memory window of 64 bytes, memories of 8 to 128, words equal to those written; all dividends of 8 bits by all divisors of 4; all buffers of a few bytes of 2 bits; every conversion with a width, a line feed, or something unknown before or behind it |
| `lzma` | decoder in its buffers, bytes are those meant, distances judged right, it ends | outputs, dictionaries and inputs of a few bytes, shorter and longer than each other, matches that overlap, are cut, follow one another; the constants of the format scaled down (`Required` 2 for 20, `RcInitSize`, `PropsSize` and `SizeField` 1) so that each limit is met; `Word` 8, so that the source length wraps |
| `build` | padutil's output is whole or gone, stages and payload in place | two builds, both page sizes, files around the sizes of page and buffer, every call failing |

Deadlock is checked in the runs of `SpiNandLoad` (the user may always call again) and not where the modelled sequence ends by design: stage 3 entered, halted, or
control handed on.

**Fairness.** `SpiNandLoad` and `Stage2Main` assume weak fairness of the processor
alone: the chip may never become ready, the poll's timeout has to do. `Stage1Load`
also assumes that the chip gets ready, because stage 1 polls without a timeout;
that is an assumption about the chip which the code makes, not one it ensures.
`L1Cache` and `LzmaDec` assume that the
one function they model keeps executing. `ComesToAnEnd` and `LoopEnds` hold
for any behaviour of chip and caches.

## 4. Findings

* **skips** – `spi-nand-load.c:434` skips a block after *any* error of the
  bad-block check. One transient timeout and a load returns 0 with the bytes of a
  later block in the place of a good one.
* **straddle** – `main.c:75,125` load the payload from `stage3_offset +
  sizeof(header)` as if nothing had been skipped. If the header ends at or past
  the end of its block and that block is bad, the payload is read one block early.
  `PayloadFollowsHeader` shows it right whenever the header ends inside its block.
* **boot4k** – `mt7621/stage1/entry.S:132` copies 0x800 bytes of stage 1, the
  README admits 4 KB with 4 KB pages.

Not a run, but seen in `ClockSetup`: with a 25 MHz crystal the CPU clock is a multiple of
25 MHz, so that 880 gives 875 MHz where `README.md:68` speaks of steps of 20 MHz; and in
`Console`: `%%` in a format loses the character behind it (`printf.c:179`).
`Arith`: a number of one word shifted by a word or more is not 0 (`lshr64.c:17`), which
no caller does.

## 5. Proofs

Every invariant, action property and refinement of the passing runs is proved, for every
value of the constants that satisfies the named assumptions, which TLC evaluates in the
runs:

| Assumption | Says | Because |
|---|---|---|
| `GeometryAssumption` (`SpiNandLoad`) | one or two planes and dies, a die's blocks fill its planes | the driver's table of chips |
| `GeometryAssumption`, `ImageAssumption` (`Stage1Load`) | a page is whole cache lines, the cache whole pages; stage 1 fits a page, stage 2 begins at a line and fits the cache and the flash | the hardware; padutil's maximum; the linker script |
| `SizeAssumption`, `RangeAssumption` (`L1Cache`) | the range lies in the memory | link and load addresses |
| `GapAssumption`, `RateAssumption` (`Timers`) | 1 to `Modulus` ticks between two readings in a loop; a delay is shorter than a turn | a turn takes 10 s |
| `SizeAssumption` (`MemSize`), `PoolAssumption` | sizes are powers of two; the memory's addresses fit a word and its ends are aligned | address lines; the memory map |
| `SumAssumption`, `LengthAssumption` | a sum is as wide as a byte at least, the polynomial no wider than the sum; the data registers are whole words | `crc32.c`; the controller |
| `ConsoleAssumption` | `tmpbuf` has a place for every digit of the largest number | `printf.c` |
| `ProgramAssumption` (`Stage2Entry`) | the program fits the L2 cache, the BSS is its end | the linker script |
| `StreamAssumption` (`LzmaDec`) | sizes fit a word, a match is shorter than `MatchSpecLenStart` | `LzmaDec.c` |
| `BuildAssumption` | a page is a multiple of what the linker aligns to; stages are not empty and padding them does not pass 2^32 | the makefiles |

`CallsAssumption`, `HeaderAssumption`, `ConfigAssumption`, `BitsAssumption` and
`PadutilAssumption` only say that numbers are numbers.

**SpiNandProofs: the driver.** `TypeCorrect` is inductive by itself because `ptr + size =
want` is part of `TypeOK`. The other invariants are not: that the page read is
right depends on what the driver believes about the chip at each statement. `IInv`
adds: `curr_dieidx` is the chip's die except between a reset and the re-selection;
the ECC bits of the dies initialised so far are set; while a read is under way
`chip_pa` is the page of `curr_addr`; the register of its plane holds it from
`"status"` on; the address is aligned for its site and its block was checked
before data is read from it, which is what `check_bad` stands for; bytes delivered
are of blocks that are not marked, and of uncorrectable pages only if printed. All of
it is under `~page0_hung` but the types. `Inductive` proves it, one step per
action; `CommandsAreHeard`, `ReadsAreRight`, `MarkedBlocksAreNotUsed`,
`BadPagesArePrinted` follow, and `SkipsHaveReasons` is an action property.

**SpiNandProofs: the image.** `ImageInv` adds to `IInv` where the load is in the image.
`Located`: the byte at `off` is the one that byte `ptr` of the destination calls for,
with the skipped blocks all left behind. `Arrived`: every byte delivered is the right
one and comes from a block not after that of `off`, and strictly before it while a
check is due (otherwise a later skip could withdraw the block of a delivered byte);
`Waiting`: the rest is untouched; `Underway` and `Complete` tie the result to them.
`ImageIsLoaded` follows. `LoadIsAsPromised` is the refinement, step by step:
`LoadInit` is `Probe`, `Call` is `Start`, `SkipBlock` is `Skip`, `Copy` is `Deliver`,
`LoopDone`, `LoopExceeds` and `DataFailed` are `Finish`, abandoning page 0 is `Disclaim`,
and the others are `Work` or a stutter. That -EIO means the image does not fit is a count
of the blocks left (`Blockwise`, `NextBlock`).

**SpiNandProofs: main.** A step of `main.c` is a step of the driver or leaves it alone
(`MainStep`), and the driver's lemmas hold for calls with any numbers (`AnyStep`), so
`ImageInv` carries over. On top of it: where the driver can be at each statement of main
(`Waits`), which call was the last one (`Called`), what a returned load means
(`Returned`, `ResultKnown`), that page 0 was asked for (`Restored`). `MInv` gives
`WholePayloadIsEntered` and `Page0IsRestored`. `PayloadIsBehindHeader` needs `LeftOut`: what
has been left out of a load are the unusable blocks, exactly. Without it two loads could
disagree on a block, which a timeout does bring about; it holds because the block at
`off` has had its first page read without an error once it is used (`FirstPageRead`).
`GoodImageIsStarted` (`HaltInv`) adds that on good pages `LeftOut` means the marked
blocks, so that the header and the payload are what was written, and that -EIO is then a
statement about the size of the flash (`NoFitIsFull`).

**Stage1LoadProofs.** `Asked` ties the page that is read next to the one asked for, and
the plane bit of the column address to the register it was loaded into; `Place` ties the
place in the flash to the one in the cache; `Copied` says that every line of the image
is locked under its address and that those behind the copy hold their bytes.
What makes it inductive is `OneLinePerIndex`: addresses less than the cache apart have
different indices. The last page is copied whole, past the end of the image; since the
cache holds whole pages (`GeometryAssumption`) it still ends less than a cache behind
its start (`EndOfImage`), so the surplus lands on no line of the image
(`KeepsThePagesBefore`). With a cache of, say, one and a half pages it would overwrite
the first lines.

**L1CacheProofs.** `IInv` keeps, beside `NoStoreIsLost`: nothing is dirty in stage 1
(`Stage1Clean`); the arguments fit the memory (`RangeFits`); every treated line of
the range is fresh (`TreatedAreFresh`), that is, memory holds the last store and so
does any copy in either cache; the line at `a0` is half treated between its two
operations (`HalfTreated`). Freshness of both caches is needed because they go on
fetching: what has been treated must stay so.

**ClockSetupProofs.** The invariant carries through the boot which source the CPU
clock has, which word the PLL was programmed with and that timer and divisor were
derived from these. `DividedClock` (a rounded-up divisor never exceeds the limit)
and `Multiplier` (the multiplier of each crystal) do the arithmetic.

**LzmaDecProofs.** Three invariants. `IInv` counts bytes: what was taken and a byte left
to the next symbol are within the source, because `bufLimit` leaves `Required` bytes
behind it or the symbol was seen whole by `TryDummy` (`Fed`); what is decoded at a full
output is a match, which finds no room and is refused (`OutputKept`); and no distance
reaches before the first byte, since it was compared with `dicPos` when it was taken
and `dicPos` only grows (`RepsKept`). `Meaning` says that what is written and what is left
to write is as long as what was meant, and that `checkDicSize` is set exactly when the
dictionary was filled once, which is what makes the comparison with it the right one.
From these `NoByteIsBeyond` and `OnlyBadDistancesAreRefused`. `Written` is about the
bytes: those before `dicPos` are the ones meant, and those a cut match still has to write
repeat what lies `reps[0]` before them, which is what lets `WriteRem` go on later with no
more than a length and a distance. `RepetitionIs` says that of what a match means,
`CopiedIs` that a loop which copies byte by byte at a distance produces a sequence that
repeats itself at that distance, overlaps included. `BytesAreThoseMeant` follows.

**Stage2EntryProofs.** For each level of the memory the invariant says when it is up to
date: a copy in L1 always (`L1IsFresh`), one in L2 unless L1 holds the line dirty
(`L2IsFresh`), the DRAM unless a level above does, or the line is locked, since such a line
is never written back and the DRAM has never seen it (`DramIsFresh`). `IsLocked` keeps all
lines of the program locked until they are dropped, `IsCopied` makes the DRAM right from
the copy on, so that dropping loses nothing, and `IsDropped` says that no line comes back
behind the loop that drops them: KSEG0 is uncached meanwhile (`IsAt`).

**ImageBuildProofs.** `IsCopying` and `IsPadding` say what is in padutil's output at each
statement, `ArePadded` that a stage which make has gone past is padded to whole pages,
unless the loss of its end went unseen. `StagesAreInPlace` also needs `RoundUpTwice`: the
linker rounds stage 2 up to its own alignment and then to pages, padutil rounds the linked
file to pages at once, and both arrive at the offset of stage 3, since a page is a multiple
of the linker's alignment. Nothing is assumed of the files of earlier builds.

**LeavesProofs: the timers.** The invariant says that while a loop of stage 2 runs the last count
read is the counter's and that the ticks since the first reading are the time since
then; without the first conjunct a step could not tell whether the counter has gone
round. `CounterMoves` does the modular arithmetic for a step of at most one turn,
`UsecApart` and `UsecNear` the rounding of `tick_to_usec`. Assumed: loop steps of 1 to
`Modulus` ticks (`GapAssumption`).
`UdelayInv` is stage 1's delay, as long as the counter does not wrap.

**LeavesProofs: the memory.** `IsKept` says which words may differ from what they were at each
statement of the probe, and where the words to be put back are kept; `IsTried` that the
size tried is a power of two not above the memory's, and that the first word shows it
once the memory ends there. That an offset below the memory's size is another cell, and
the size itself the first one, is modular arithmetic of powers (`PowTwice`, `CellTried`).
`IsPooled` keeps the pool's base between `MemBase` and the end of the memory found as long
as there was room, and every block above the base (`BlockBelow`, `MallocDoes`).

**LeavesProofs: the arithmetic.** `IsDoubled`: the divisor doubled is the divisor times a power
of two, below the register's width, and the dividend is accounted for; the loop that
subtracts starts with a rest less than twice the divisor and halves both, so that no
second subtraction is due (`DividedTwice`, `SubtractIs`). The 32-bit product in `Reduce`
does not wrap (`ReduceIs`). `ShiftIs` puts the two halves of a shift together.

**LeavesProofs: the SPI master.** `IsWriting` and `IsReading` name the byte in each register while
the controller works; `IsSent` and `IsReturned` count what has gone over the wire against
what the driver believes, and `Quiet` says that the controller is at rest whenever the
driver writes a register.

**LeavesProofs: the checksum.** `SumInv` says that the sum so far is the remainder of the bytes
so far. That a look-up in the table stands for as many steps as a byte has bits rests on
a step being linear (`StepXor`): the byte may be added at once or bit by bit (`ByteSteps`).

**LeavesProofs: the console.** All that was given to `putc`, on the line, in the UART and still
waiting, is what the format means (`Shown`), and while digits are made `tmpbuf` holds those
of the low end (`IsTaken`); `NumeralIs` ties them to the number. `TmpFits` is the overflow of
`tmpbuf` that cannot happen.

**LeavesProofs: the parts together.** `PartsInv` is the invariant of the part that runs, and for
the others the state they begin in. From it `PartsKeepTheirPromises`, about the
specification that TLC checks.

**Induction.** The library's induction theorems take an operator and cannot be used.
Instead `SetInduction` and `Least` state induction for sets of numbers; they follow from
`NatLessThanWellFounded` and `WFMin`, which have no such parameter. A recursive function is
a CHOOSE, and nothing is known of it until one exists: `PowsExist`, `RecursionExists` and
`NumbersExist` build it step by step, `CopiedIs` names it outright. So what `PowerOf`,
`Steps`, `Sum`, `Remainder`, `Numeral` and `Copied` compute is proved for every input.

`PllFits`, `Ddr2InSpec` and `LoopStaysInRange` follow directly from their invariants and are
only proved. So are the type invariants, none of which is a question of a run
(`TypeCorrect`, `MainTypes`, `ProbeTypes`, `PoolTypes`, `ArithTypes`, `SpiTypes`, `PadTypes`,
`EntryTypes`, `Stage1TypeIsOK`). Some need the part's own invariant: that no address line
past the window is tried follows from `IsTried`, that the quotient put together stays in
its register from the dividend being accounted for, and that a shift count fits a register
from `PowerGrows`.

Only model-checked: `ComesToAnEnd`, `ReachesStage2`, `LoopEnds` and `UnpackEnds`, as liveness is
out of the prover's reach, and the three properties that are violated.

## 6. Assumptions about what is not in the repository

Chip behaviour as in section 2. Geometries are powers of two, as in the driver's
table, so masks are written `%` and `\div`; flash addresses do not reach 2^32 (the
largest chip has 1 GB at most). The L2 cache is indexed by the address modulo its
size. The DRAM binary programs the CPLL with the word it is given. The strapping
bits name the crystal as the code reads them.

## 7. Not modelled, and why

* Range decoder and probabilities of LZMA: which symbol the bytes stand for has no
  bearing on where the decoder reads and writes, and what it is in truth is arithmetic
  beyond TLC's sizes. `LzmaDec_DecodeToBuf`, `LzmaDec_Allocate` and input in pieces have no
  caller.
* CPS (`cps.c`) and the set-up of UART and USB pins: tables of constants written to
  registers nothing in the loader reads.
* `print_dec` and `print_hex` of stage 1, `spi_nand_read_page` of stage 1, the number
  `printf` returns: no use of them.
* memcpy, memset, memcmp, strlen: what they do is part of the actions that call them.
* The DRAM code, a binary; only the words it is given (`ClockSetup`).
* Compilation and the dependencies of objects; padutil on standard input.
* The second CPU core, which waits in `entry.S` and never runs.
* A reset in the middle of stage 2: the ROM then shows the page that is in the
  register, which the code cannot prevent. `Page0IsBack` and `HandsOverTheChip` say when
  it is page 0. In stage 2 that is page 0 of the die last selected: `main.c` does not go
  back to die 0, and what a reset with the other die selected leads to is up to the chip.

## 8. What is left

1. `Boot`: both stages composed from `Stage1Load`, `Stage2Entry` and `Stage2Main`.
2. The chip of `SpiNandLoad` over `SpiMaster`: commands as frames of bytes.
3. Abstract specifications of the L2 hand-over and of the decoder, implemented by
   `Stage1Load` and `LzmaDec` as `ImageLoad` is by `SpiNandLoad`.
