----------------------------- MODULE Stage2Main -----------------------------
(***************************************************************************)
(* What stage 2 does after the DRAM is up (src/stage2/main.c): bring the   *)
(* flash driver up, load the stage-3 header and the payload it announces,  *)
(* put page 0 back into the chip's page register, unpack, enter stage 3.   *)
(* The driver and the chip are those of SpiNandLoad; main waits for a call *)
(* to return (pc = "idle") and its result is the driver's ret, which the   *)
(* page-0 read leaves alone.                                               *)
(***************************************************************************)
EXTENDS SpiNandLoad

CONSTANTS Offsets,        \* values of STAGE3_OFFSET
          HdrSize,        \* sizeof(hdr), the union of both headers
          BreedHdrSize,   \* sizeof(bootstrap_kernel_header_t)
          Headers,        \* what a header may say
          ImageHeaders    \* the headers images are written with

ASSUME HeaderAssumption ==
  /\ Offsets \subseteq Nat
  /\ HdrSize \in Nat /\ BreedHdrSize \in 1 .. HdrSize
  /\ ImageHeaders \subseteq Headers
  /\ \A h \in Headers :
       /\ h.magic \in {"breed", "uboot", "other"} /\ h.crc_ok \in BOOLEAN
       /\ h.comp \in {"none", "lzma", "other"} /\ h.size \in Nat

VARIABLES stage,          \* the statement of main.c
          stage3_offset,
          image_header,   \* the header that was written to the flash
          hdr,            \* the header as read
          timed_out       \* history: a page read of a load timed out

mainvars == <<stage, stage3_offset, image_header, hdr, timed_out>>
allvars  == <<vars, mainvars>>

(* The image as the writer of the flash laid it out, who leaves out the    *)
(* marked blocks, and as the driver finds it, who leaves out the blocks    *)
(* with an uncorrectable first page as well.                               *)
Unusable == {b \in Blocks : b \in marked \/ FirstPage(b) \in uncorr}
Written  == INSTANCE ImageLoad WITH
              addr <- stage3_offset, skipped <- marked, loading <- Loading,
              result <- ret, blocks <- Blocks, void <- page0_hung
Readable3 == INSTANCE ImageLoad WITH
              addr <- stage3_offset, skipped <- Unusable, loading <- Loading,
              result <- ret, blocks <- Blocks, void <- page0_hung

(* The destination holds what was written from byte n of the image on.     *)
Intact(n) == \A i \in DOMAIN buff :
               /\ Written!IsByte(n + i, buff[i])
               /\ PageOf(buff[i]) \notin uncorr

(* Mutated: a load that timed out is taken for a complete one. *)
FailedNotTimeout == ret \notin {"OK", "EBADMSG", "ETIMEDOUT"}

Failed == ret \notin {"OK", "EBADMSG"}

HeaderLength == IF hdr.magic = "breed" THEN BreedHdrSize ELSE HdrSize

(* Mutated: the union's size is taken for the header's. *)
PayloadAddressUnion == stage3_offset + HdrSize

PayloadAddress == stage3_offset + HeaderLength

-----------------------------------------------------------------------------
MInit ==
  /\ Init
  /\ stage = "init" /\ timed_out = FALSE
  /\ stage3_offset \in Offsets
  /\ image_header \in ImageHeaders /\ hdr = image_header

(* load_stage3.  That load_init may have failed is not looked at. *)
LoadHeader ==
  /\ stage = "init"
  /\ Call(stage3_offset, HdrSize)
  /\ stage' = "header"
  /\ UNCHANGED <<stage3_offset, image_header, hdr, timed_out>>

(* Mutated: page 0 is put back after the header only. *)
RestorePage0Once ==
  /\ stage \in {"header", "payload"} /\ pc = "idle"
  /\ stage' = IF stage = "header" THEN "header_loaded" ELSE "payload_loaded"
  /\ IF stage = "header" THEN CallReadPage0 ELSE UNCHANGED vars
  /\ UNCHANGED <<stage3_offset, image_header, hdr, timed_out>>

RestorePage0 ==
  /\ stage \in {"header", "payload"}
  /\ CallReadPage0
  /\ stage' = IF stage = "header" THEN "header_loaded" ELSE "payload_loaded"
  /\ UNCHANGED <<stage3_offset, image_header, hdr, timed_out>>

(* Bytes other than those written may look like any header. *)
ReadHeader ==
  /\ stage = "header_loaded" /\ pc = "idle"
  /\ IF Failed THEN stage' = "halt" /\ UNCHANGED hdr
     ELSE /\ stage' = "dispatch"
          /\ hdr' \in IF Intact(0) THEN {image_header} ELSE Headers
  /\ UNCHANGED <<vars, stage3_offset, image_header, timed_out>>

Accepted ==
  \/ hdr.magic = "breed"
  \/ hdr.magic = "uboot" /\ hdr.crc_ok /\ hdr.comp \in {"none", "lzma"}

LoadPayload ==
  /\ stage = "dispatch" /\ Accepted
  /\ Call(PayloadAddress, hdr.size)
  /\ stage' = "payload"
  /\ UNCHANGED <<stage3_offset, image_header, hdr, timed_out>>

RejectHeader ==
  /\ stage = "dispatch" /\ ~Accepted
  /\ stage' = "halt"
  /\ UNCHANGED <<vars, stage3_offset, image_header, hdr, timed_out>>

CheckPayload ==
  /\ stage = "payload_loaded" /\ pc = "idle"
  /\ stage' = IF Failed THEN "halt"
              ELSE IF hdr.magic = "uboot" /\ hdr.comp = "none" THEN "enter"
              ELSE "unpack"
  /\ UNCHANGED <<vars, stage3_offset, image_header, hdr, timed_out>>

(* lzma_uncompress fails on none of the streams it was made from; nothing  *)
(* is said of others.                                                      *)
Unpack ==
  /\ stage = "unpack"
  /\ stage' \in IF Intact(HeaderLength) /\ hdr = image_header THEN {"enter"}
                ELSE {"enter", "halt"}
  /\ UNCHANGED <<vars, stage3_offset, image_header, hdr, timed_out>>

(* The cache is flushed over the code and control does not come back. *)
EnterStage3 ==
  /\ stage = "enter"
  /\ stage' = "stage3"
  /\ UNCHANGED <<vars, stage3_offset, image_header, hdr, timed_out>>

DriverRuns ==
  /\ Driver
  /\ timed_out' = (timed_out \/ (pc = "poll" /\ pc' = "reset"))
  /\ UNCHANGED <<stage, stage3_offset, image_header, hdr>>

ChipRuns == ChipReady /\ UNCHANGED mainvars

Main == \/ LoadHeader \/ RestorePage0 \/ ReadHeader \/ LoadPayload
        \/ RejectHeader \/ CheckPayload \/ Unpack \/ EnterStage3
        \/ DriverRuns

MNext == Main \/ ChipRuns

MSpec == MInit /\ [][MNext]_allvars /\ WF_allvars(Main)

-----------------------------------------------------------------------------
MTypeOK ==
  /\ TypeOK
  /\ stage \in {"init", "header", "header_loaded", "dispatch", "payload",
                "payload_loaded", "unpack", "enter", "stage3", "halt"}
  /\ stage3_offset \in Offsets /\ image_header \in ImageHeaders /\ hdr \in Headers
  /\ timed_out \in BOOLEAN

(* Stage 3 is entered only when every byte of the size its header announces *)
(* has been copied, and never from a chip the driver does not know.        *)
EntersWithWholePayload ==
  stage = "stage3" =>
    spi_nand_chip /\ Accepted /\ want = hdr.size /\ size = 0 /\ ptr = want

(* The payload is loaded by a call of its own, from an address computed as *)
(* if no block had been skipped before it.  It is the continuation of the  *)
(* header all the same, provided the header ends before its block does.    *)
HeaderEndsInItsBlock == (stage3_offset % EraseSize) + HeaderLength < EraseSize

PayloadFollowsHeader ==
  stage \in {"unpack", "enter", "stage3"} /\ HeaderEndsInItsBlock
    /\ ~timed_out /\ ~page0_hung
    => \A i \in 0 .. want - 1 : Readable3!IsByte(HeaderLength + i, buff[i])

(* An image on good pages, read without a timeout, is never refused, if it *)
(* has the bytes of the larger header, which are read whatever it is.      *)
Undisturbed == uncorr = {} /\ ~timed_out /\ ~page0_hung

GoodImageStarts ==
  /\ stage = "halt" /\ spi_nand_chip /\ HeaderEndsInItsBlock
  /\ HdrSize <= HeaderLength + image_header.size
  /\ Undisturbed
  => \/ ~Accepted
     \/ (stage3_offset % EraseSize) + HeaderLength + image_header.size
          > EraseSize * Cardinality({b \in Blocks \ marked :
                                       b >= BlockOf(stage3_offset)})

(* When main is done, for better or worse, the chip is idle and the page   *)
(* register holds page 0 of the die that is selected, which need not be    *)
(* die 0: main does not select it again.                                   *)
Page0IsBack ==
  stage \in {"dispatch", "unpack", "enter", "stage3", "halt"} /\ ~page0_hung
    => ~chip_busy /\ chip_reg[<<chip_die, 0>>] = chip_die * PagesPerDie

(* Stage 2 comes to an end, stage 3 or the halt, whatever the chip does.   *)
ComesToAnEnd == <>(stage \in {"stage3", "halt"})

(* README.md:44 calls STAGE3_OFFSET the offset of the 3rd-stage image in   *)
(* the flash, any hex number: what is entered is then the image there.     *)
LoadsImageAtOffset ==
  stage = "stage3" /\ uncorr = {} /\ ~timed_out /\ ~page0_hung
    => \A i \in 0 .. want - 1 : Written!IsByte(HeaderLength + i, buff[i])
=============================================================================
