----------------------------- MODULE SpiNandProofs -----------------------------
(***************************************************************************)
(* Proofs about the SPI-NAND driver of stage 2 and the main function that  *)
(* calls it, in three parts: SpiNandLoad, for every geometry of the chip,  *)
(* every set of marked and of uncorrectable pages and every sequence of    *)
(* calls; that the driver loads the image, and implements ImageLoad; and   *)
(* Stage2Main, which keeps the driver's invariants whatever it calls it    *)
(* with, for any offsets and headers.                                      *)
(***************************************************************************)
EXTENDS Stage2Main, TLAPS, FiniteSetTheorems

-----------------------------------------------------------------------------
(* SpiNandLoad: arithmetic of the flash addresses.                         *)

LEMMA DivMod ==
  ASSUME NEW a \in Nat, NEW b \in Nat \ {0}
  PROVE  /\ a \div b \in Nat /\ a % b \in 0 .. b - 1
         /\ a = b * (a \div b) + (a % b)
OBVIOUS

LEMMA DivModOfSum ==
  ASSUME NEW b \in Nat \ {0}, NEW q \in Nat, NEW r \in 0 .. b - 1
  PROVE  (b * q + r) \div b = q /\ (b * q + r) % b = r
OBVIOUS

LEMMA Multiple ==
  ASSUME NEW b \in Nat \ {0}, NEW q \in Nat
  PROVE  (b * q) \div b = q /\ (b * q) % b = 0
OBVIOUS

(* The sizes computed by load_init are positive and nest. *)
LEMMA Geometry ==
  /\ EraseSize \in Nat \ {0} /\ DieSize \in Nat \ {0}
  /\ PagesPerDie \in Nat \ {0} /\ FlashSize \in Nat \ {0}
  /\ EraseSize = WriteSize * PagesPerBlock
  /\ DieSize = WriteSize * PagesPerDie
  /\ PagesPerDie = PagesPerBlock * BlocksPerDie
  /\ FlashSize = DieSize * NDies
<1>1. /\ EraseSize \in Nat \ {0} /\ PagesPerDie \in Nat \ {0}
      /\ EraseSize = WriteSize * PagesPerBlock
      /\ PagesPerDie = PagesPerBlock * BlocksPerDie
  BY GeometryAssumption DEF EraseSize, PagesPerDie
<1>2. DieSize \in Nat \ {0}
  BY <1>1, GeometryAssumption DEF DieSize
<1>3. DieSize = WriteSize * PagesPerDie
  BY GeometryAssumption DEF DieSize, EraseSize, PagesPerDie
<1>4. FlashSize \in Nat \ {0} /\ FlashSize = DieSize * NDies
  BY <1>2, GeometryAssumption DEF FlashSize
<1> QED BY <1>1, <1>2, <1>3, <1>4

(* spi_nand_addr_to_pa_ca and the die split: row and die name the page. *)
LEMMA RowOfAddress ==
  ASSUME NEW a \in Nat
  PROVE  /\ RowAddress(a) \in 0 .. PagesPerDie - 1
         /\ PageOf(a) = (a \div DieSize) * PagesPerDie + RowAddress(a)
<1> DEFINE w == WriteSize  p == PagesPerDie
<1>1. w \in Nat \ {0} /\ p \in Nat \ {0} /\ DieSize = w * p
  BY Geometry, GeometryAssumption
<1>2. (a % (w * p)) \div w \in 0 .. p - 1
  <2> HIDE DEF w, p
  <2> QED BY <1>1
<1>3. a \div w = (a \div (w * p)) * p + ((a % (w * p)) \div w)
  <2> HIDE DEF w, p
  <2> QED BY <1>1
<1> QED BY <1>1, <1>2, <1>3 DEF RowAddress, PageOf

(* An address below chipsize lies in a die of the chip. *)
LEMMA DieOfAddress ==
  ASSUME NEW a \in Nat, a < FlashSize
  PROVE  a \div DieSize \in Dies
<1> DEFINE d == DieSize
<1>1. d \in Nat \ {0} /\ NDies \in Nat /\ a < d * NDies
  BY Geometry, GeometryAssumption
<1>2. a \div d \in 0 .. NDies - 1
  <2> HIDE DEF d
  <2> QED BY <1>1
<1> QED BY <1>2 DEF Dies

(* A row of a die is a page of the flash. *)
LEMMA PageOfRow ==
  ASSUME NEW d \in Dies, NEW r \in 0 .. PagesPerDie - 1
  PROVE  d * PagesPerDie + r \in Pages
<1> DEFINE p == PagesPerDie
<1>1. p \in Nat \ {0} /\ NDies \in Nat /\ d \in 0 .. NDies - 1 /\ r \in 0 .. p - 1
  BY Geometry, GeometryAssumption DEF Dies
<1>2. d * p + r \in 0 .. p * NDies - 1
  <2> HIDE DEF p
  <2>1. d * p <= (NDies - 1) * p BY <1>1
  <2>2. (NDies - 1) * p = p * NDies - p BY <1>1
  <2> QED BY <1>1, <2>1, <2>2
<1> QED BY <1>2 DEF Pages

(* The masks of the C code: the page and the block an address lies in. *)
LEMMA Bases ==
  ASSUME NEW a \in Nat
  PROVE  /\ PageBase(a) \in Nat /\ PageBase(a) <= a /\ PageBase(a) % WriteSize = 0
         /\ PageOf(PageBase(a)) = PageOf(a)
         /\ BlockBase(a) \in Nat /\ BlockBase(a) <= a
         /\ BlockBase(a) % WriteSize = 0
         /\ PageOf(BlockBase(a)) = FirstPage(BlockOf(a))
<1> DEFINE w == WriteSize  p == PagesPerBlock
<1>1. w \in Nat \ {0} /\ p \in Nat \ {0} /\ EraseSize = w * p
  BY Geometry, GeometryAssumption
<1> HIDE DEF w, p
<1>2. /\ a - (a % w) \in Nat /\ a - (a % w) <= a
      /\ a - (a % w) = w * (a \div w) /\ a \div w \in Nat
  BY <1>1, DivMod
<1>3. (w * (a \div w)) % w = 0 /\ (w * (a \div w)) \div w = a \div w
  BY <1>1, <1>2, Multiple
<1>4. /\ a - (a % (w * p)) \in Nat /\ a - (a % (w * p)) <= a
      /\ a - (a % (w * p)) = w * (p * (a \div (w * p)))
      /\ p * (a \div (w * p)) \in Nat
  <2>1. w * p \in Nat \ {0}
    BY <1>1
  <2>2. a - (a % (w * p)) = (w * p) * (a \div (w * p)) /\ a \div (w * p) \in Nat
    <3> DEFINE b == w * p
    <3>1. b \in Nat \ {0}
      BY <2>1
    <3>2. a - (a % b) = b * (a \div b) /\ a \div b \in Nat
      <4> HIDE DEF b
      <4> QED BY <3>1, DivMod
    <3> QED BY <3>2
  <2> QED BY <1>1, <2>1, <2>2
<1>5. /\ (w * (p * (a \div (w * p)))) % w = 0
      /\ (w * (p * (a \div (w * p)))) \div w = p * (a \div (w * p))
  <2> DEFINE k == p * (a \div (w * p))
  <2> HIDE DEF k
  <2>1. (w * k) % w = 0 /\ (w * k) \div w = k
    BY <1>1, <1>4, Multiple DEF k
  <2> QED BY <2>1 DEF k
<1>6. p * (a \div (w * p)) = (a \div (w * p)) * p
  BY <1>1, <1>4
<1> QED BY <1>1, <1>2, <1>3, <1>4, <1>5, <1>6
        DEF PageBase, PageOf, BlockBase, BlockOf, FirstPage, w, p

(* Bytes of a page, and the block they are in. *)
LEMMA PageBytes ==
  ASSUME NEW q \in Nat, NEW c \in 0 .. WriteSize - 1
  PROVE  /\ q * WriteSize + c \in Nat
         /\ PageOf(q * WriteSize + c) = q
         /\ BlockOf(q * WriteSize + c) = q \div PagesPerBlock
<1> DEFINE w == WriteSize  p == PagesPerBlock
<1>1. w \in Nat \ {0} /\ p \in Nat \ {0} /\ EraseSize = w * p /\ c \in 0 .. w - 1
  BY Geometry, GeometryAssumption
<1>2. q * w + c \in Nat /\ (q * w + c) \div w = q
  <2> HIDE DEF w, p
  <2> QED BY <1>1
<1>3. (q * w + c) \div (w * p) = ((q * w + c) \div w) \div p
  <2> HIDE DEF w, p
  <2> QED BY <1>1, <1>2
<1> QED BY <1>1, <1>2, <1>3 DEF PageOf, BlockOf

(* The page of an address gives its block. *)
LEMMA BlockOfPage ==
  ASSUME NEW a \in Nat
  PROVE  BlockOf(a) = PageOf(a) \div PagesPerBlock /\ PageOf(a) \in Nat
         /\ BlockOf(a) \in Nat
<1> DEFINE w == WriteSize  p == PagesPerBlock
<1>1. w \in Nat \ {0} /\ p \in Nat \ {0} /\ EraseSize = w * p
  BY Geometry, GeometryAssumption
<1>2. a \div (w * p) = (a \div w) \div p /\ a \div w \in Nat
      /\ a \div (w * p) \in Nat
  <2> HIDE DEF w, p
  <2> QED BY <1>1
<1> QED BY <1>1, <1>2 DEF PageOf, BlockOf

(* A chunk ends in its block, or where the next block begins. *)
LEMMA ChunkStaysInBlock ==
  ASSUME NEW a \in Nat, NEW n \in Nat, n <= WriteSize - (a % WriteSize),
         (a + n) % EraseSize # 0
  PROVE  BlockOf(a + n) = BlockOf(a)
<1> DEFINE w == WriteSize  p == PagesPerBlock  q == a \div w
<1>1. /\ w \in Nat \ {0} /\ p \in Nat \ {0} /\ EraseSize = w * p /\ q \in Nat
      /\ a % w \in 0 .. w - 1 /\ a = q * w + (a % w)
  <2>1. w \in Nat \ {0} /\ p \in Nat \ {0} /\ EraseSize = w * p
    BY Geometry, GeometryAssumption
  <2>2. a \div w \in Nat /\ a % w \in 0 .. w - 1 /\ a = w * (a \div w) + (a % w)
    <3> HIDE DEF w
    <3> QED BY <2>1, DivMod
  <2> QED BY <2>1, <2>2
<1>2. CASE n < w - (a % w)
  <2>1. (a % w) + n \in 0 .. w - 1 /\ a + n = q * w + ((a % w) + n)
    <3> HIDE DEF q
    <3> QED BY <1>1, <1>2
  <2>2. BlockOf(q * w + ((a % w) + n)) = q \div p
    <3> HIDE DEF q
    <3> QED BY <1>1, <2>1, PageBytes
  <2>3. BlockOf(q * w + (a % w)) = q \div p
    <3> HIDE DEF q
    <3> QED BY <1>1, PageBytes
  <2> QED BY <1>1, <2>1, <2>2, <2>3
<1>3. CASE n = w - (a % w)
  <2>1. a + n = w * (q + 1)
    <3> DEFINE r == a % w
    <3>1. a = q * w + r /\ r \in Nat /\ n = w - r
      BY <1>1, <1>3
    <3> HIDE DEF w, q, r
    <3> QED BY <1>1, <3>1
  <2>2. (q + 1) % p # 0
    <3>1. SUFFICES ASSUME (q + 1) % p = 0 PROVE FALSE
      OBVIOUS
    <3> DEFINE k == (q + 1) \div p
    <3>2. q + 1 = p * k /\ k \in Nat
      <4> DEFINE m == q + 1
      <4>1. m \in Nat /\ m % p = 0
        <5> HIDE DEF q
        <5> QED BY <1>1, <3>1
      <4>2. m = p * (m \div p) /\ m \div p \in Nat
        <5> HIDE DEF m, p
        <5>1. m = p * (m \div p) + (m % p) /\ m \div p \in Nat
          BY <1>1, <4>1, DivMod
        <5>2. p * (m \div p) \in Nat
          BY <1>1, <5>1
        <5> QED BY <4>1, <5>1, <5>2
      <4> QED BY <4>2
    <3>3. (w * (q + 1)) % (w * p) = 0
      <4> HIDE DEF w, p, q, k
      <4>1. w * (q + 1) = (w * p) * k /\ w * p \in Nat \ {0}
        BY <1>1, <3>2
      <4> QED BY <4>1, <3>2, Multiple
    <3> QED BY <1>1, <2>1, <3>3
  <2>3. (q + 1) \div p = q \div p
    <3> HIDE DEF w, p, q
    <3> QED BY <1>1, <2>2
  <2>4. BlockOf(a + n) = (q + 1) \div p
    <3>1. 0 \in 0 .. w - 1 /\ q + 1 \in Nat /\ a + n = (q + 1) * w + 0
      <4> HIDE DEF w, q
      <4> QED BY <1>1, <2>1
    <3> HIDE DEF q
    <3> QED BY <3>1, PageBytes
  <2>5. BlockOf(a) = q \div p
    BY BlockOfPage DEF PageOf
  <2> QED BY <2>3, <2>4, <2>5
<1> QED BY <1>1, <1>2, <1>3

(* Different blocks have different first pages. *)
LEMMA FirstPageOfOne ==
  ASSUME NEW b \in Nat, NEW c \in Nat, FirstPage(b) = FirstPage(c)
  PROVE  b = c
BY GeometryAssumption DEF FirstPage

LEMMA PlaneBitIsBit ==
  ASSUME NEW a \in Nat
  PROVE  PlaneBit(a) \in 0 .. 1
<1> DEFINE r == a % DieSize
<1>1. r \in Nat
  BY Geometry
<1>2. r \div EraseSize \in Nat
  <2> HIDE DEF r
  <2> QED BY <1>1, Geometry
<1> QED BY <1>2 DEF PlaneBit

(* The plane bit names the register the chip has read the page into. *)
LEMMA RegisterOfAddress ==
  ASSUME NEW a \in Nat, a < FlashSize
  PROVE  RegisterOf(PageOf(a))
           = << a \div DieSize, IF Planes = 1 THEN 0 ELSE PlaneBit(a) >>
<1> DEFINE P == PagesPerDie  r == RowAddress(a)  d == a \div DieSize
           p == PagesPerBlock  w == WriteSize
<1>1. /\ P \in Nat \ {0} /\ p \in Nat \ {0} /\ w \in Nat \ {0}
      /\ r \in 0 .. P - 1 /\ d \in Nat /\ PageOf(a) = d * P + r
  <2>1. P \in Nat \ {0} /\ p \in Nat \ {0} /\ w \in Nat \ {0} /\ DieSize \in Nat \ {0}
    BY Geometry, GeometryAssumption
  <2>2. d \in Nat
    BY <2>1
  <2> QED BY <2>1, <2>2, RowOfAddress
<1>2. (d * P + r) \div P = d /\ (d * P + r) % P = r
  <2> HIDE DEF P, r, d
  <2> QED BY <1>1
<1>3. r \div p = (a % DieSize) \div EraseSize /\ r \div p \in Nat
  <2> DEFINE m == a % DieSize
  <2>1. m \in Nat /\ EraseSize = w * p /\ r = m \div w
    BY Geometry DEF RowAddress
  <2>2. m \div (w * p) = (m \div w) \div p /\ (m \div w) \div p \in Nat
    <3> HIDE DEF m, w, p
    <3> QED BY <1>1, <2>1
  <2> QED BY <2>1, <2>2
<1>4. RegisterOf(PageOf(a)) = << d, (r \div p) % Planes >>
  BY <1>1, <1>2 DEF RegisterOf
<1>5. (r \div p) % Planes = IF Planes = 1 THEN 0 ELSE (r \div p) % 2
  <2> HIDE DEF r, p
  <2> QED BY <1>3, GeometryAssumption
<1> QED BY <1>3, <1>4, <1>5 DEF PlaneBit

-----------------------------------------------------------------------------
(* Type correctness.                                                       *)

LEMMA TypeInit == Init => TypeOK
<1> SUFFICES ASSUME Init PROVE TypeOK
  OBVIOUS
<1>1. 0 \in Dies /\ 0 \in Pages
  BY Geometry, GeometryAssumption DEF Dies, Pages
<1>2. buff \in [0 .. want - 1 -> Nat \cup {Untouched, Garbage}]
  BY DEF Init
<1> QED BY <1>1, <1>2, GeometryAssumption DEF Init, TypeOK, PCs, Errors

(* The helpers an action is made of keep the types. *)
LEMMA TypeSelectDie ==
  ASSUME TypeOK, NEW d \in Dies, SelectDie(d)
  PROVE  curr_dieidx' \in Dies /\ chip_die' \in Dies
BY DEF TypeOK, SelectDie

LEMMA TypeResetChip ==
  ASSUME TypeOK, ResetChip
  PROVE  /\ chip_busy' \in BOOLEAN /\ chip_die' \in Dies /\ chip_pa' \in Pages
         /\ chip_reg' \in [Registers -> Pages \cup {NoPage}]
         /\ chip_ecc' \in [Dies -> BOOLEAN]
<1>1. 0 \in Dies
  BY GeometryAssumption DEF Dies
<1> QED BY <1>1 DEF TypeOK, ResetChip

LEMMA TypePageRead ==
  ASSUME TypeOK, NEW r \in 0 .. PagesPerDie - 1, PageRead(r)
  PROVE  /\ chip_busy' \in BOOLEAN /\ chip_die' \in Dies /\ chip_pa' \in Pages
         /\ chip_reg' \in [Registers -> Pages \cup {NoPage}]
         /\ chip_ecc' \in [Dies -> BOOLEAN]
<1>1. chip_die * PagesPerDie + r \in Pages
  BY PageOfRow DEF TypeOK
<1> QED BY <1>1 DEF TypeOK, PageRead, chip

(* The driver keeps its invariants whatever it is called with: a step is a *)
(* call with any numbers, or one of the others.                            *)
AnyCall == \E a \in Nat, n \in Nat : Call(a, n)
AnyStep == AnyCall \/ CallReadPage0 \/ Driver \/ ChipReady

LEMMA StepIsAny == [Next]_vars => [AnyStep]_vars
BY CallsAssumption DEF Next, CallAny, AnyStep, AnyCall

LEMMA TypeStep == TypeOK /\ [AnyStep]_vars => TypeOK'
<1> SUFFICES ASSUME TypeOK, [AnyStep]_vars PROVE TypeOK'
  OBVIOUS
<1> USE DEF TypeOK, call, load, globals, chip, flash, PCs, Errors
<1>1. CASE AnyCall
  <2>1. PICK a \in Nat, n \in Nat : Call(a, n)
    BY <1>1 DEF AnyCall
  <2>2. buff' \in [0 .. want' - 1 -> Nat \cup {Untouched, Garbage}]
    BY <2>1 DEF Call
  <2>3. /\ pc' = "loop" /\ site' = "none" /\ ret' = "OK" /\ init_i' = 0
        /\ addr' = a /\ want' = n /\ off' = a /\ size' = n /\ ptr' = 0
        /\ check_bad' = TRUE /\ curr_addr' = 0 /\ printed' = {}
        /\ skipped' = {} /\ UNCHANGED <<page0_hung, globals, chip, flash>>
    BY <2>1 DEF Call
  <2> QED BY <2>1, <2>2, <2>3, GeometryAssumption
<1>2. CASE CallReadPage0
  <2>1. PageRead(0) /\ 0 \in 0 .. PagesPerDie - 1
    BY <1>2, Geometry DEF CallReadPage0
  <2> QED BY <1>2, <2>1, TypePageRead DEF CallReadPage0
<1>3. CASE LoadInit
  <2>1. ResetChip /\ init_i' \in 0 .. NDies
    BY <1>3, GeometryAssumption DEF LoadInit
  <2>2. pc' \in PCs /\ ret' \in Errors /\ spi_nand_chip' \in BOOLEAN
    BY <1>3 DEF LoadInit
  <2> QED BY <1>3, <2>1, <2>2, TypeResetChip DEF LoadInit
<1>4. CASE InitDie
  <2>1. init_i \in Dies /\ init_i + 1 \in 0 .. NDies
    BY <1>4, GeometryAssumption DEF InitDie, Dies
  <2>2. SelectDie(init_i) /\ EnableEcc
    BY <1>4 DEF InitDie
  <2>3. chip_ecc' \in [Dies -> BOOLEAN]
    BY <2>2 DEF EnableEcc
  <2> QED BY <1>4, <2>1, <2>2, <2>3, TypeSelectDie DEF InitDie
<1>5. CASE InitDone
  <2>1. 0 \in Dies /\ SelectDie(0)
    BY <1>5, GeometryAssumption DEF InitDone, Dies
  <2> QED BY <1>5, <2>1, TypeSelectDie DEF InitDone
<1>6. CASE ReadPage
  <2>1. CASE ~(curr_addr >= chipsize)
    <3>1. curr_addr \div DieSize \in Dies
      BY <2>1, Geometry, DieOfAddress DEF chipsize
    <3>2. SelectDie(curr_addr \div DieSize)
      BY <1>6, <2>1 DEF ReadPage
    <3> QED BY <1>6, <2>1, <3>1, <3>2, TypeSelectDie DEF ReadPage
  <2>2. CASE curr_addr >= chipsize
    BY <1>6, <2>2 DEF ReadPage
  <2> QED BY <2>1, <2>2
<1>7. CASE ReadPageToCache
  <2>1. RowAddress(curr_addr) \in 0 .. PagesPerDie - 1
    BY RowOfAddress
  <2>2. PageRead(RowAddress(curr_addr))
    BY <1>7 DEF ReadPageToCache
  <2> QED BY <1>7, <2>1, <2>2, TypePageRead DEF ReadPageToCache
<1>8. CASE PollReady
  BY <1>8 DEF PollReady
<1>9. CASE PollTimeout
  BY <1>9 DEF PollTimeout
<1>10. CASE Reset
  BY <1>10, TypeResetChip, GeometryAssumption DEF Reset
<1>11. CASE GetEccStatus
  BY <1>11 DEF GetEccStatus
<1>12. CASE ReadPageCache
  <2>1. PlaneBit(curr_addr) \in 0 .. 1
    BY PlaneBitIsBit
  <2>2. <<chip_die, IF Planes = 1 THEN 0 ELSE PlaneBit(curr_addr)>> \in Registers
    BY <2>1, GeometryAssumption DEF Registers
  <2>3. page_cache' \in Pages \cup {NoPage}
    BY <1>12, <2>2 DEF ReadPageCache, ReadCache
  <2> QED BY <1>12, <2>3 DEF ReadPageCache
<1>13. CASE LoopDone
  BY <1>13 DEF LoopDone, Return
<1>14. CASE LoopExceeds
  BY <1>14 DEF LoopExceeds, Return
<1>15. CASE LoopRead
  <2>1. BlockBase(off) \in Nat /\ PageBase(off) \in Nat
    BY Geometry, GeometryAssumption DEF BlockBase, PageBase
  <2> QED BY <1>15, <2>1 DEF LoopRead
<1>16. CASE SkipBlock
  <2>1. SkipTo(off) \in Nat /\ BlockOf(off) \in Nat /\ PageOf(curr_addr) \in Nat
    BY Geometry, GeometryAssumption DEF SkipTo, BlockBase, BlockOf, PageOf
  <2> QED BY <1>16, <2>1 DEF SkipBlock, PrintError
<1>17. CASE BlockIsGood
  <2>1. PageBase(off) \in Nat
    BY GeometryAssumption DEF PageBase
  <2> QED BY <1>17, <2>1 DEF BlockIsGood
<1>18. CASE DataRead
  <2>1. PageOf(curr_addr) \in Nat
    BY GeometryAssumption DEF PageOf
  <2> QED BY <1>18, <2>1 DEF DataRead, PrintError
<1>19. CASE DataFailed
  BY <1>19 DEF DataFailed, Return
<1>20. CASE Copy
  <2> DEFINE n == Chunk(off)
  <2>1. n \in Nat /\ n <= size
    BY GeometryAssumption DEF Chunk
  <2>2. off' = off + n /\ ptr' = ptr + n /\ size' = size - n
    BY <1>20 DEF Copy
  <2>3. \A i \in ptr .. ptr + n - 1 :
          CacheByte((off % WriteSize) + (i - ptr)) \in Nat \cup {Untouched, Garbage}
    <3> SUFFICES ASSUME NEW i \in ptr .. ptr + n - 1
                 PROVE  CacheByte((off % WriteSize) + (i - ptr))
                          \in Nat \cup {Untouched, Garbage}
      OBVIOUS
    <3>1. (off % WriteSize) + (i - ptr) \in Nat
      BY <2>1, GeometryAssumption
    <3>2. page_cache # NoPage => page_cache \in Nat
      BY DEF Pages
    <3>3. page_cache # NoPage => page_cache * WriteSize \in Nat
      BY <3>2, GeometryAssumption
    <3> QED BY <3>1, <3>3 DEF CacheByte
  <2>4. buff' = [i \in DOMAIN buff |->
                   IF i \in ptr .. ptr + n - 1
                   THEN CacheByte((off % WriteSize) + (i - ptr)) ELSE buff[i]]
    BY <1>20 DEF Copy
  <2>5. buff' \in [0 .. want - 1 -> Nat \cup {Untouched, Garbage}]
    <3> HIDE DEF n
    <3> QED BY <2>3, <2>4
  <2>6. pc' = "loop" /\ UNCHANGED <<site, ret, init_i, page0_hung, call,
          check_bad, curr_addr, printed, skipped, globals, chip, flash>>
    BY <1>20 DEF Copy
  <2> HIDE DEF n
  <2> QED BY <2>1, <2>2, <2>5, <2>6
<1>21. CASE Page0Ready
  BY <1>21 DEF Page0Ready
<1>22. CASE Page0Timeout
  BY <1>22 DEF Page0Timeout
<1>23. CASE ChipReady
  <2>1. chip_reg' \in [Registers -> Pages \cup {NoPage}]
    BY <1>23 DEF ChipReady
  <2>2. /\ chip_busy' \in BOOLEAN
        /\ UNCHANGED <<pc, site, ret, init_i, page0_hung, call, load, globals,
                       chip_die, chip_pa, chip_ecc, flash>>
    BY <1>23 DEF ChipReady
  <2> QED BY <2>1, <2>2
<1>24. CASE UNCHANGED vars
  BY <1>24 DEF vars
<1> QED BY <1>1, <1>2, <1>3, <1>4, <1>5, <1>6, <1>7, <1>8, <1>9, <1>10, <1>11,
           <1>12, <1>13, <1>14, <1>15, <1>16, <1>17, <1>18, <1>19, <1>20, <1>21,
           <1>22, <1>23, <1>24 DEF AnyStep, Driver

(* The driver's variables keep their types; the bytes copied and the bytes *)
(* left add up to the request in every state of every load.                *)
THEOREM TypeCorrect == Spec => []TypeOK
<1>1. Init => TypeOK
  BY TypeInit
<1>2. TypeOK /\ [Next]_vars => TypeOK'
  BY TypeStep, StepIsAny
<1> QED BY <1>1, <1>2, PTL DEF Spec

-----------------------------------------------------------------------------
(* The inductive invariant behind the safety properties.                   *)

(* The statements of one spi_nand_read_page, after its guards have passed. *)
Asked == {"command", "poll", "status", "transfer"}

(* Where the program can be: resets happen inside a read that timed out,   *)
(* and the chip is known before anything is read from it.                  *)
Control ==
  /\ pc = "start" => site = "none" /\ ~spi_nand_chip /\ curr_dieidx = 0
  /\ pc \in {"read", "return", "reset"} \cup Asked => site # "none"
  /\ pc \in {"init", "read", "return", "reset"} \cup Asked => spi_nand_chip
  /\ pc \in {"reset", "init"} /\ site # "none" => ret = "ETIMEDOUT"

(* A busy chip has a driver that polls it or is about to reset it. *)
Listening == chip_busy => pc \in {"poll", "reset", "page0"}

(* curr_dieidx is the die selected, but for a RESET that has selected die  *)
(* 0 and init_chip, which is about to do the same.                         *)
DieKnown ==
  chip_die = curr_dieidx \/ (pc = "init" /\ init_i = 0 /\ chip_die = 0)

(* Every die a page can be read from corrects errors. *)
EccOn ==
  /\ pc = "init" => \A d \in 0 .. init_i - 1 : chip_ecc[d]
  /\ spi_nand_chip /\ pc # "init" => \A d \in Dies : chip_ecc[d]

(* The address is one the guards let pass; the die selected is its die;    *)
(* once asked for, its page is the one that arrives in its plane's         *)
(* register and from there in page_cache.                                  *)
Requested ==
  /\ pc = "read" => curr_addr < chipsize /\ curr_addr % WriteSize = 0
  /\ pc \in Asked => spi_nand_chip /\ curr_addr < FlashSize
                     /\ chip_die = curr_addr \div DieSize
  /\ pc \in {"poll", "status", "transfer"} => chip_pa = PageOf(curr_addr)
  /\ (pc = "poll" /\ ~chip_busy) \/ pc \in {"status", "transfer"}
       => chip_reg[RegisterOf(chip_pa)] = chip_pa
  /\ pc = "transfer" => ret = IF chip_pa \in uncorr THEN "EBADMSG" ELSE "OK"
  /\ pc = "return" =>
       \/ ret = "ETIMEDOUT"
       \/ /\ page_cache = PageOf(curr_addr)
          /\ ret = IF page_cache \in uncorr THEN "EBADMSG" ELSE "OK"

(* What is read lies in the block or page that is being loaded, and only a *)
(* block that has passed its check is read for data.                       *)
Reading == {"read", "return"} \cup Asked

Checked ==
  /\ (pc \in Reading \/ (pc \in {"reset", "init"} /\ site # "none"))
       => /\ off < chipsize
          /\ site = "check" => curr_addr = BlockBase(off)
          /\ site = "data" => /\ curr_addr = PageBase(off)
                              /\ BlockOf(off) \notin marked
  /\ pc = "loop" /\ ~NeedsCheck(off) => BlockOf(off) \notin marked
  /\ pc = "copy" => /\ page_cache = PageOf(off)
                    /\ BlockOf(off) \notin marked
                    /\ page_cache \in uncorr => page_cache \in printed

(* What has been copied so far. *)
Copied ==
  \A i \in 0 .. ptr - 1 :
    /\ buff[i] >= 0 /\ BlockOf(buff[i]) \notin marked
    /\ PageOf(buff[i]) \in uncorr => PageOf(buff[i]) \in printed

Healthy == Listening /\ DieKnown /\ EccOn /\ Requested /\ Checked /\ Copied

IInv == TypeOK /\ Control /\ (~page0_hung => Healthy)

LEMMA ControlStep == TypeOK /\ Control /\ [AnyStep]_vars => Control'
<1> SUFFICES ASSUME TypeOK, Control, [AnyStep]_vars PROVE Control'
  OBVIOUS
<1> USE DEF Control, Asked, call, load, globals, chip, flash
<1>1. CASE AnyCall
  BY <1>1 DEF AnyCall, Call
<1>2. CASE CallReadPage0
  BY <1>2 DEF CallReadPage0
<1>3. CASE LoadInit
  BY <1>3 DEF LoadInit
<1>4. CASE InitDie
  BY <1>4 DEF InitDie
<1>5. CASE InitDone
  BY <1>5 DEF InitDone
<1>6. CASE ReadPage
  BY <1>6 DEF ReadPage
<1>7. CASE ReadPageToCache \/ PollReady \/ GetEccStatus
  BY <1>7 DEF ReadPageToCache, PollReady, GetEccStatus
<1>8. CASE PollTimeout
  BY <1>8 DEF PollTimeout
<1>9. CASE Reset
  BY <1>9 DEF Reset
<1>10. CASE ReadPageCache
  BY <1>10 DEF ReadPageCache
<1>11. CASE LoopDone \/ LoopExceeds \/ LoopRead
  <2>1. LoopRead => spi_nand_chip
    BY DEF LoopRead, Exceeds, chipsize, TypeOK
  <2> QED BY <1>11, <2>1 DEF LoopDone, LoopExceeds, LoopRead, Return
<1>12. CASE SkipBlock \/ BlockIsGood \/ DataRead \/ DataFailed
  BY <1>12 DEF SkipBlock, BlockIsGood, DataRead, DataFailed, Return
<1>13. CASE Copy
  BY <1>13 DEF Copy
<1>14. CASE Page0Ready \/ Page0Timeout
  BY <1>14 DEF Page0Ready, Page0Timeout
<1>15. CASE ChipReady
  BY <1>15 DEF ChipReady
<1>16. CASE UNCHANGED vars
  BY <1>16 DEF vars
<1> QED BY <1>1, <1>2, <1>3, <1>4, <1>5, <1>6, <1>7, <1>8, <1>9, <1>10, <1>11,
           <1>12, <1>13, <1>14, <1>15, <1>16 DEF AnyStep, Driver

(* Each part of Healthy is kept by every step that leaves page0_hung unset. *)
LEMMA ListeningStep ==
  ASSUME TypeOK, Control, Listening, [AnyStep]_vars, ~page0_hung'
  PROVE  Listening'
<1> USE DEF Listening, call, load, globals, chip, flash
<1>1. CASE AnyCall \/ CallReadPage0
  BY <1>1 DEF AnyCall, Call, CallReadPage0
<1>2. CASE LoadInit \/ Reset
  BY <1>2 DEF LoadInit, Reset, ResetChip
<1>3. CASE InitDie \/ InitDone \/ ReadPage
  BY <1>3 DEF InitDie, InitDone, ReadPage
<1>4. CASE ReadPageToCache \/ PollReady \/ PollTimeout
  BY <1>4 DEF ReadPageToCache, PollReady, PollTimeout
<1>5. CASE GetEccStatus \/ ReadPageCache
  BY <1>5 DEF GetEccStatus, ReadPageCache
<1>6. CASE LoopDone \/ LoopExceeds \/ LoopRead
  BY <1>6 DEF LoopDone, LoopExceeds, LoopRead, Return
<1>7. CASE SkipBlock \/ BlockIsGood \/ DataRead \/ DataFailed \/ Copy
  BY <1>7 DEF SkipBlock, BlockIsGood, DataRead, DataFailed, Copy, Return
<1>8. CASE Page0Ready \/ Page0Timeout
  BY <1>8 DEF Page0Ready, Page0Timeout
<1>9. CASE ChipReady \/ UNCHANGED vars
  BY <1>9 DEF ChipReady, vars
<1> QED BY <1>1, <1>2, <1>3, <1>4, <1>5, <1>6, <1>7, <1>8, <1>9 DEF AnyStep, Driver

LEMMA DieKnownStep ==
  ASSUME TypeOK, Control, Listening, DieKnown, [AnyStep]_vars
  PROVE  DieKnown'
<1> USE DEF DieKnown, call, load, globals, chip, flash
<1>1. CASE AnyCall \/ CallReadPage0
  BY <1>1 DEF AnyCall, Call, CallReadPage0, PageRead
<1>2. CASE LoadInit \/ Reset
  BY <1>2 DEF LoadInit, Reset, ResetChip, Control
<1>3. CASE InitDie
  <2>1. ~chip_busy /\ pc = "init" /\ pc' = "init" /\ SelectDie(init_i)
    BY <1>3 DEF InitDie, Listening
  <2>2. curr_dieidx' = init_i \/ (NDies = 1 /\ curr_dieidx' = curr_dieidx)
    BY <2>1 DEF SelectDie
  <2>3. CASE NDies = 1
    BY <2>1, <2>3, GeometryAssumption DEF SelectDie, TypeOK, Dies
  <2>4. CASE NDies # 1
    BY <2>1, <2>2, <2>4 DEF SelectDie
  <2> QED BY <2>3, <2>4
<1>4. CASE InitDone
  <2>1. ~chip_busy /\ init_i # 0 /\ SelectDie(0) /\ pc = "init"
    BY <1>4, GeometryAssumption DEF InitDone, Listening
  <2> QED BY <2>1 DEF SelectDie
<1>5. CASE ReadPage
  <2>1. ~chip_busy /\ pc = "read"
    BY <1>5 DEF ReadPage, Listening
  <2> QED BY <1>5, <2>1 DEF ReadPage, SelectDie
<1>6. CASE ReadPageToCache
  BY <1>6 DEF ReadPageToCache, PageRead
<1>7. CASE PollReady \/ PollTimeout \/ GetEccStatus \/ ReadPageCache
  BY <1>7 DEF PollReady, PollTimeout, GetEccStatus, ReadPageCache
<1>8. CASE LoopDone \/ LoopExceeds \/ LoopRead
  BY <1>8 DEF LoopDone, LoopExceeds, LoopRead, Return
<1>9. CASE SkipBlock \/ BlockIsGood \/ DataRead \/ DataFailed \/ Copy
  BY <1>9 DEF SkipBlock, BlockIsGood, DataRead, DataFailed, Copy, Return
<1>10. CASE Page0Ready \/ Page0Timeout
  BY <1>10 DEF Page0Ready, Page0Timeout
<1>11. CASE ChipReady \/ UNCHANGED vars
  BY <1>11 DEF ChipReady, vars
<1> QED BY <1>1, <1>2, <1>3, <1>4, <1>5, <1>6, <1>7, <1>8, <1>9, <1>10, <1>11
        DEF AnyStep, Driver

LEMMA EccOnStep ==
  ASSUME TypeOK, Control, Listening, DieKnown, EccOn, [AnyStep]_vars
  PROVE  EccOn'
<1> USE DEF EccOn, call, load, globals, chip, flash
<1>1. CASE AnyCall \/ CallReadPage0
  BY <1>1 DEF AnyCall, Call, CallReadPage0, PageRead
<1>2. CASE LoadInit \/ Reset
  <2>1. init_i' = 0 /\ (pc' = "init" \/ ~spi_nand_chip')
    BY <1>2 DEF LoadInit, Reset
  <2>2. \A d \in 0 .. init_i' - 1 : chip_ecc'[d]
    BY <2>1
  <2> QED BY <2>1, <2>2
<1>3. CASE InitDie
  <2>1. /\ ~chip_busy /\ pc = "init" /\ pc' = "init" /\ SelectDie(init_i)
        /\ init_i' = init_i + 1 /\ init_i \in Dies
    BY <1>3, GeometryAssumption DEF InitDie, Listening, TypeOK, Dies
  <2>2. chip_die' = init_i
    <3>1. CASE NDies = 1
      BY <2>1, <3>1 DEF SelectDie, TypeOK, Dies
    <3>2. CASE NDies # 1
      BY <2>1, <3>2 DEF SelectDie, DieKnown
    <3> QED BY <3>1, <3>2
  <2>3. chip_ecc' = [chip_ecc EXCEPT ![init_i] = TRUE]
    BY <1>3, <2>1, <2>2 DEF InitDie, EnableEcc
  <2>4. \A d \in 0 .. init_i : chip_ecc'[d]
    BY <2>1, <2>3 DEF TypeOK, Dies
  <2> QED BY <2>1, <2>4 DEF TypeOK
<1>4. CASE InitDone
  <2>1. \A d \in Dies : chip_ecc[d]
    BY <1>4 DEF InitDone, Dies
  <2> QED BY <1>4, <2>1 DEF InitDone
<1>5. CASE ReadPage \/ ReadPageToCache
  BY <1>5 DEF ReadPage, ReadPageToCache, PageRead
<1>6. CASE PollReady \/ PollTimeout \/ GetEccStatus \/ ReadPageCache
  BY <1>6 DEF PollReady, PollTimeout, GetEccStatus, ReadPageCache
<1>7. CASE LoopDone \/ LoopExceeds \/ LoopRead
  BY <1>7 DEF LoopDone, LoopExceeds, LoopRead, Return
<1>8. CASE SkipBlock \/ BlockIsGood \/ DataRead \/ DataFailed \/ Copy
  BY <1>8 DEF SkipBlock, BlockIsGood, DataRead, DataFailed, Copy, Return
<1>9. CASE Page0Ready \/ Page0Timeout
  BY <1>9 DEF Page0Ready, Page0Timeout
<1>10. CASE ChipReady \/ UNCHANGED vars
  BY <1>10 DEF ChipReady, vars
<1> QED BY <1>1, <1>2, <1>3, <1>4, <1>5, <1>6, <1>7, <1>8, <1>9, <1>10
        DEF AnyStep, Driver

(* The guards of read_page let every address through that the load asks    *)
(* for: -EINVAL cannot happen.                                             *)
LEMMA ReadIsReadable ==
  ASSUME TypeOK, Requested, pc = "read"
  PROVE  ~(curr_addr >= chipsize) /\ WithinPage(curr_addr, ReadLength)
<1>1. ReadLength \in Nat /\ ReadLength <= WriteSize + 1
  BY GeometryAssumption DEF ReadLength
<1>2. curr_addr < chipsize /\ chipsize \in Nat
  BY Geometry DEF Requested, TypeOK, chipsize
<1> QED BY <1>1, <1>2, GeometryAssumption DEF Requested, WithinPage, TypeOK

LEMMA RequestedStep ==
  ASSUME TypeOK, Control, Listening, DieKnown, EccOn, Requested, Checked,
         [AnyStep]_vars
  PROVE  Requested'
<1> USE DEF Requested, Asked, call, load, globals, chip, flash
<1>1. CASE AnyCall \/ CallReadPage0
  BY <1>1 DEF AnyCall, Call, CallReadPage0
<1>2. CASE LoadInit \/ Reset
  BY <1>2 DEF LoadInit, Reset
<1>3. CASE InitDie \/ InitDone
  BY <1>3 DEF InitDie, InitDone, Control
<1>4. CASE ReadPage
  <2>1. ~(curr_addr >= chipsize) /\ WithinPage(curr_addr, ReadLength) /\ ~chip_busy
    BY <1>4, ReadIsReadable DEF ReadPage, Listening
  <2>2. spi_nand_chip /\ curr_addr < FlashSize
    BY <2>1, Geometry DEF chipsize, TypeOK
  <2>3. SelectDie(curr_addr \div DieSize) /\ pc' = "command"
    BY <1>4, <2>1 DEF ReadPage
  <2>4. chip_die' = curr_addr \div DieSize
    <3>1. curr_addr \div DieSize \in Dies
      BY <2>2, DieOfAddress DEF TypeOK
    <3>2. CASE NDies = 1
      BY <2>3, <3>1, <3>2 DEF SelectDie, TypeOK, Dies
    <3>3. CASE NDies # 1
      BY <1>4, <2>1, <2>3, <3>3 DEF SelectDie, DieKnown, ReadPage
    <3> QED BY <3>2, <3>3
  <2> QED BY <1>4, <2>2, <2>3, <2>4 DEF ReadPage
<1>5. CASE ReadPageToCache
  <2>1. /\ ~chip_busy /\ pc = "command" /\ pc' = "poll"
        /\ PageRead(RowAddress(curr_addr))
    BY <1>5 DEF ReadPageToCache, Listening
  <2>2. /\ chip_busy' = TRUE /\ chip_die' = chip_die
        /\ chip_pa' = chip_die * PagesPerDie + RowAddress(curr_addr)
    BY <2>1 DEF PageRead
  <2>3. chip_pa' = PageOf(curr_addr)
    BY <2>1, <2>2, RowOfAddress DEF TypeOK
  <2> QED BY <1>5, <2>1, <2>2, <2>3 DEF ReadPageToCache
<1>6. CASE PollReady \/ PollTimeout
  BY <1>6 DEF PollReady, PollTimeout
<1>7. CASE GetEccStatus
  <2>1. chip_ecc[chip_die]
    BY <1>7 DEF GetEccStatus, EccOn, Control, TypeOK
  <2> QED BY <1>7, <2>1 DEF GetEccStatus, UncorrectableStatus
<1>8. CASE ReadPageCache
  <2>1. page_cache' = chip_reg[RegisterOf(PageOf(curr_addr))]
    BY <1>8, RegisterOfAddress DEF ReadPageCache, ReadCache, TypeOK
  <2>2. page_cache' = PageOf(curr_addr)
    BY <1>8, <2>1 DEF ReadPageCache
  <2> QED BY <1>8, <2>2 DEF ReadPageCache
<1>9. CASE LoopDone \/ LoopExceeds
  BY <1>9 DEF LoopDone, LoopExceeds, Return
<1>10. CASE LoopRead
  <2>1. off \in Nat /\ off < chipsize
    BY <1>10, Geometry DEF LoopRead, Exceeds, chipsize, TypeOK
  <2>2. /\ curr_addr' \in Nat /\ curr_addr' <= off
        /\ curr_addr' % WriteSize = 0
    BY <1>10, <2>1, Bases DEF LoopRead
  <2>3. chipsize' = chipsize /\ pc' = "read" /\ chipsize \in Nat
    BY <1>10, Geometry DEF LoopRead, chipsize
  <2> QED BY <2>1, <2>2, <2>3
<1>11. CASE SkipBlock \/ DataRead \/ DataFailed \/ Copy
  BY <1>11 DEF SkipBlock, DataRead, DataFailed, Copy, Return
<1>12. CASE BlockIsGood
  <2>1. off \in Nat /\ off < chipsize
    BY <1>12 DEF BlockIsGood, Checked, Reading, TypeOK
  <2>2. PageBase(off) \in Nat /\ PageBase(off) <= off /\ PageBase(off) % WriteSize = 0
    BY <2>1, Bases
  <2>3. chipsize' = chipsize /\ chipsize \in Nat
    BY <1>12, Geometry DEF BlockIsGood, chipsize
  <2>4. \/ pc' = "copy"
        \/ pc' = "read" /\ curr_addr' = PageBase(off)
    BY <1>12 DEF BlockIsGood
  <2> QED BY <2>1, <2>2, <2>3, <2>4
<1>13. CASE Page0Ready \/ Page0Timeout
  BY <1>13 DEF Page0Ready, Page0Timeout
<1>14. CASE ChipReady
  <2>1. chip_busy /\ pc \in {"poll", "reset", "page0"} /\ pc' = pc
    BY <1>14 DEF ChipReady, Listening
  <2>2. pc = "poll" => chip_reg'[RegisterOf(chip_pa)] = chip_pa
    <3> SUFFICES ASSUME pc = "poll"
                 PROVE  chip_reg'[RegisterOf(chip_pa)] = chip_pa
      OBVIOUS
    <3>1. RegisterOf(chip_pa) \in Registers
      <4>1. /\ chip_pa = PageOf(curr_addr) /\ curr_addr \in Nat
            /\ curr_addr < FlashSize
        BY DEF TypeOK
      <4>2. RegisterOf(chip_pa) = << curr_addr \div DieSize,
                             IF Planes = 1 THEN 0 ELSE PlaneBit(curr_addr) >>
        BY <4>1, RegisterOfAddress
      <4>3. curr_addr \div DieSize \in Dies
        BY <4>1, DieOfAddress
      <4>4. PlaneBit(curr_addr) \in 0 .. 1
        BY <4>1, PlaneBitIsBit
      <4> QED BY <4>2, <4>3, <4>4, GeometryAssumption DEF Registers
    <3> QED BY <1>14, <3>1 DEF ChipReady, TypeOK
  <2> QED BY <1>14, <2>1, <2>2 DEF ChipReady
<1>15. CASE UNCHANGED vars
  BY <1>15 DEF vars, chipsize
<1> QED BY <1>1, <1>2, <1>3, <1>4, <1>5, <1>6, <1>7, <1>8, <1>9, <1>10, <1>11,
           <1>12, <1>13, <1>14, <1>15 DEF AnyStep, Driver

(* A block read without an error and without a marker is not marked. *)
LEMMA CheckIsSound ==
  ASSUME TypeOK, Requested, Checked, pc = "return", site = "check",
         ret = "OK", ~MarkerIn(page_cache)
  PROVE  /\ BlockOf(off) \notin marked /\ page_cache = FirstPage(BlockOf(off))
         /\ page_cache \notin uncorr
<1>1. off \in Nat /\ curr_addr = BlockBase(off)
  BY DEF Checked, Reading, TypeOK
<1>2. page_cache = PageOf(curr_addr) /\ page_cache \notin uncorr
  BY DEF Requested
<1>3. page_cache = FirstPage(BlockOf(off))
  BY <1>1, <1>2, Bases
<1> QED BY <1>2, <1>3 DEF MarkerIn

LEMMA CheckedStep ==
  ASSUME TypeOK, Control, Requested, Checked, [AnyStep]_vars
  PROVE  Checked'
<1> USE DEF Checked, Reading, Asked, call, load, globals, chip, flash
<1>1. CASE AnyCall
  <2>1. pc' = "loop" /\ check_bad' = TRUE
    BY <1>1 DEF AnyCall, Call
  <2> QED BY <2>1 DEF NeedsCheck
<1>2. CASE CallReadPage0
  BY <1>2 DEF CallReadPage0
<1>3. CASE LoadInit
  BY <1>3 DEF LoadInit, Control
<1>4. CASE InitDie \/ InitDone
  BY <1>4 DEF InitDie, InitDone, chipsize
<1>5. CASE ReadPage
  BY <1>5 DEF ReadPage, chipsize
<1>6. CASE ReadPageToCache \/ PollReady \/ PollTimeout \/ Reset
  BY <1>6 DEF ReadPageToCache, PollReady, PollTimeout, Reset, chipsize
<1>7. CASE GetEccStatus \/ ReadPageCache
  BY <1>7 DEF GetEccStatus, ReadPageCache, chipsize
<1>8. CASE LoopDone \/ LoopExceeds
  BY <1>8 DEF LoopDone, LoopExceeds, Return
<1>9. CASE LoopRead
  <2>1. off < chipsize /\ UNCHANGED <<off, marked, chipsize>> /\ pc' = "read"
    BY <1>9, Geometry DEF LoopRead, Exceeds, chipsize, TypeOK
  <2>2. CASE NeedsCheck(off)
    BY <1>9, <2>1, <2>2 DEF LoopRead, BlockBase
  <2>3. CASE ~NeedsCheck(off)
    BY <1>9, <2>1, <2>3 DEF LoopRead, PageBase, BlockOf
  <2> QED BY <2>2, <2>3
<1>10. CASE SkipBlock
  <2>1. pc' = "loop" /\ check_bad' = TRUE
    BY <1>10 DEF SkipBlock
  <2> QED BY <2>1 DEF NeedsCheck
<1>11. CASE BlockIsGood
  <2>1. /\ BlockOf(off) \notin marked /\ page_cache \notin uncorr
        /\ page_cache = PageOf(curr_addr)
    BY <1>11, CheckIsSound DEF BlockIsGood, Requested
  <2>2. UNCHANGED <<off, marked, uncorr, page_cache, printed, chipsize>>
        /\ off < chipsize
    BY <1>11 DEF BlockIsGood, chipsize
  <2>3. CASE curr_addr = PageBase(off)
    <3>1. page_cache = PageOf(off)
      BY <2>1, <2>3, Bases DEF TypeOK
    <3> QED BY <1>11, <2>1, <2>2, <2>3, <3>1 DEF BlockIsGood, PageOf, BlockOf
  <2>4. CASE curr_addr # PageBase(off)
    BY <1>11, <2>1, <2>2, <2>4 DEF BlockIsGood, PageBase, BlockOf
  <2> QED BY <2>3, <2>4
<1>12. CASE DataRead
  <2>1. /\ site = "data" /\ curr_addr = PageBase(off) /\ BlockOf(off) \notin marked
        /\ page_cache = PageOf(curr_addr) /\ pc' = "copy"
        /\ UNCHANGED <<off, marked, uncorr, page_cache>>
        /\ ret = IF page_cache \in uncorr THEN "EBADMSG" ELSE "OK"
    BY <1>12 DEF DataRead, Requested
  <2>2. page_cache = PageOf(off)
    BY <2>1, Bases DEF TypeOK
  <2>3. page_cache \in uncorr => page_cache \in printed'
    BY <1>12, <2>1 DEF DataRead, PrintError
  <2> QED BY <2>1, <2>2, <2>3 DEF PageOf, BlockOf
<1>13. CASE DataFailed
  BY <1>13 DEF DataFailed, Return
<1>14. CASE Copy
  <2> DEFINE n == Chunk(off)
  <2>1. /\ pc = "copy" /\ pc' = "loop" /\ off' = off + n /\ marked' = marked
        /\ off \in Nat /\ BlockOf(off) \notin marked
    BY <1>14 DEF Copy, TypeOK
  <2>2. n \in Nat /\ n <= WriteSize - (off % WriteSize)
    BY GeometryAssumption DEF Chunk, TypeOK
  <2>3. ~NeedsCheck(off)' => BlockOf(off + n) \notin marked
    <3> HIDE DEF n
    <3>1. ~NeedsCheck(off)' => (off + n) % EraseSize # 0
      BY <2>1 DEF NeedsCheck
    <3> QED BY <2>1, <2>2, <3>1, ChunkStaysInBlock
  <2> HIDE DEF n
  <2> QED BY <2>1, <2>3 DEF BlockOf
<1>15. CASE Page0Ready \/ Page0Timeout
  BY <1>15 DEF Page0Ready, Page0Timeout
<1>16. CASE ChipReady \/ UNCHANGED vars
  BY <1>16 DEF ChipReady, vars, chipsize, NeedsCheck
<1> QED BY <1>1, <1>2, <1>3, <1>4, <1>5, <1>6, <1>7, <1>8, <1>9, <1>10, <1>11,
           <1>12, <1>13, <1>14, <1>15, <1>16 DEF AnyStep, Driver

(* The bytes one memcpy brings lie in the page and the block that were     *)
(* read for them.                                                          *)
LEMMA CopiedBytes ==
  ASSUME TypeOK, page_cache = PageOf(off), NEW n \in Nat,
         n <= WriteSize - (off % WriteSize), NEW i \in ptr .. ptr + n - 1
  PROVE  LET b == CacheByte((off % WriteSize) + (i - ptr))
         IN  b \in Nat /\ PageOf(b) = page_cache /\ BlockOf(b) = BlockOf(off)
<1> DEFINE c == (off % WriteSize) + (i - ptr)
<1>1. c \in 0 .. WriteSize - 1
  BY GeometryAssumption DEF TypeOK
<1>2. page_cache \in Nat /\ BlockOf(off) = page_cache \div PagesPerBlock
  BY BlockOfPage DEF TypeOK
<1>3. CacheByte(c) = page_cache * WriteSize + c
  <2> HIDE DEF c
  <2> QED BY <1>2 DEF CacheByte, NoPage
<1> HIDE DEF c
<1>4. /\ CacheByte(c) \in Nat /\ PageOf(CacheByte(c)) = page_cache
      /\ BlockOf(CacheByte(c)) = BlockOf(off)
  BY <1>1, <1>2, <1>3, PageBytes
<1> QED BY <1>4 DEF c

LEMMA CopiedStep ==
  ASSUME TypeOK, Checked, Copied, [AnyStep]_vars
  PROVE  Copied'
<1> USE DEF Copied, call, load, globals, chip, flash
<1>1. CASE AnyCall
  <2>1. ptr' = 0
    BY <1>1 DEF AnyCall, Call
  <2> QED BY <2>1
<1>2. CASE SkipBlock \/ DataRead
  <2>1. /\ UNCHANGED <<ptr, buff, marked, uncorr>>
        /\ printed \subseteq printed'
    BY <1>2 DEF SkipBlock, DataRead, PrintError
  <2> SUFFICES ASSUME NEW i \in 0 .. ptr - 1
               PROVE  /\ buff[i] >= 0 /\ BlockOf(buff[i]) \notin marked
                      /\ PageOf(buff[i]) \in uncorr
                           => PageOf(buff[i]) \in printed'
    BY <2>1 DEF PageOf, BlockOf
  <2> QED BY <2>1
<1>3. CASE Copy
  <2> DEFINE n == Chunk(off)
             byte(i) == CacheByte((off % WriteSize) + (i - ptr))
  <2>1. n \in Nat /\ n <= size /\ n <= WriteSize - (off % WriteSize)
    BY GeometryAssumption DEF Chunk, TypeOK
  <2>2. /\ ptr' = ptr + n /\ UNCHANGED <<marked, uncorr, printed, page_cache>>
        /\ page_cache = PageOf(off) /\ BlockOf(off) \notin marked
        /\ page_cache \in uncorr => page_cache \in printed
    BY <1>3 DEF Copy, Checked
  <2>3. \A i \in 0 .. ptr + n - 1 :
          buff'[i] = IF i \in ptr .. ptr + n - 1 THEN byte(i) ELSE buff[i]
    <3>1. DOMAIN buff = 0 .. want - 1 /\ ptr + n <= want /\ ptr \in Nat
      BY <2>1 DEF TypeOK
    <3>2. buff' = [i \in DOMAIN buff |->
                    IF i \in ptr .. ptr + n - 1 THEN byte(i) ELSE buff[i]]
      BY <1>3 DEF Copy
    <3> HIDE DEF n, byte
    <3> QED BY <2>1, <3>1, <3>2 DEF TypeOK
  <2>4. \A i \in ptr .. ptr + n - 1 :
          byte(i) \in Nat /\ PageOf(byte(i)) = page_cache
            /\ BlockOf(byte(i)) = BlockOf(off)
    <3> HIDE DEF n
    <3> QED BY <2>1, <2>2, CopiedBytes
  <2> HIDE DEF n, byte
  <2> SUFFICES ASSUME NEW i \in 0 .. ptr + n - 1
               PROVE  /\ buff'[i] >= 0 /\ BlockOf(buff'[i]) \notin marked
                      /\ PageOf(buff'[i]) \in uncorr
                           => PageOf(buff'[i]) \in printed
    <3>1. /\ ptr' = ptr + n /\ marked' = marked /\ uncorr' = uncorr
          /\ printed' = printed
      BY <2>2
    <3> QED BY <2>1, <3>1 DEF PageOf, BlockOf, TypeOK
  <2>5. CASE i \in ptr .. ptr + n - 1
    BY <2>2, <2>3, <2>4, <2>5
  <2>6. CASE i \notin ptr .. ptr + n - 1
    <3>1. i \in 0 .. ptr - 1
      BY <2>1, <2>6 DEF TypeOK
    <3> QED BY <2>3, <2>6, <3>1
  <2> QED BY <2>5, <2>6
<1>4. CASE ~(AnyCall \/ SkipBlock \/ DataRead \/ Copy)
  <2>1. UNCHANGED <<ptr, buff, marked, uncorr, printed>>
    BY <1>4 DEF AnyStep, Driver, CallReadPage0, LoadInit, InitDie, InitDone,
         ReadPage, ReadPageToCache, PollReady, PollTimeout, Reset,
         GetEccStatus, ReadPageCache, LoopDone, LoopExceeds, LoopRead,
         BlockIsGood, DataFailed, Page0Ready, Page0Timeout, ChipReady, vars
  <2> QED BY <2>1 DEF PageOf, BlockOf
<1> QED BY <1>1, <1>2, <1>3, <1>4

LEMMA IInvInit == Init => IInv
<1> SUFFICES ASSUME Init PROVE IInv
  OBVIOUS
<1>1. TypeOK
  BY TypeInit
<1>2. Control
  BY DEF Init, Control, Asked
<1>3. Healthy
  BY DEF Init, Healthy, Listening, DieKnown, EccOn, Requested, Checked, Copied,
         Asked, Reading
<1> QED BY <1>1, <1>2, <1>3 DEF IInv

(* Nothing the driver does makes it listen to a lost chip again. *)
LEMMA HungStays == TypeOK /\ [AnyStep]_vars /\ page0_hung => page0_hung'
<1> SUFFICES ASSUME TypeOK, [AnyStep]_vars, page0_hung PROVE page0_hung'
  OBVIOUS
<1>1. CASE Page0Timeout
  BY <1>1 DEF Page0Timeout
<1>2. CASE ~Page0Timeout
  BY <1>2 DEF AnyStep, Driver, AnyCall, Call, CallReadPage0, LoadInit, InitDie,
       InitDone, ReadPage, ReadPageToCache, PollReady, PollTimeout, Reset,
       GetEccStatus, ReadPageCache, LoopDone, LoopExceeds, LoopRead, SkipBlock,
       BlockIsGood, DataRead, DataFailed, Copy, Page0Ready, ChipReady, vars
<1> QED BY <1>1, <1>2

LEMMA IInvStep == IInv /\ [AnyStep]_vars => IInv'
<1> SUFFICES ASSUME IInv, [AnyStep]_vars PROVE IInv'
  OBVIOUS
<1>1. TypeOK /\ TypeOK' /\ Control /\ Control'
  BY TypeStep, ControlStep DEF IInv
<1>2. ASSUME ~page0_hung' PROVE Healthy'
  <2>1. Healthy
    BY <1>1, <1>2, HungStays DEF IInv, TypeOK
  <2>2. /\ Listening /\ DieKnown /\ EccOn /\ Requested /\ Checked /\ Copied
    BY <2>1 DEF Healthy
  <2>3. Listening'
    BY <1>1, <1>2, <2>2, ListeningStep
  <2>4. DieKnown' /\ EccOn'
    BY <1>1, <2>2, DieKnownStep, EccOnStep
  <2>5. Requested' /\ Checked' /\ Copied'
    BY <1>1, <2>2, RequestedStep, CheckedStep, CopiedStep
  <2> QED BY <2>3, <2>4, <2>5 DEF Healthy
<1> QED BY <1>1, <1>2 DEF IInv

THEOREM Inductive == Spec => []IInv
<1>1. Init => IInv
  BY IInvInit
<1>2. IInv /\ [Next]_vars => IInv'
  BY IInvStep, StepIsAny
<1> QED BY <1>1, <1>2, PTL DEF Spec

-----------------------------------------------------------------------------
(* What follows from it.                                                   *)

(* No command is lost on a busy chip: select_die, enable_ecc and page read *)
(* only ever reach one that listens.                                       *)
THEOREM CommandsAreHeard == Spec => []NoCommandWhileBusy
<1>1. IInv => NoCommandWhileBusy
  BY DEF IInv, Healthy, Listening, NoCommandWhileBusy
<1> QED BY <1>1, Inductive, PTL

(* spi_nand_read_page returns the page it was asked for in every geometry, *)
(* with its ECC verdict.                                                   *)
THEOREM ReadsAreRight == Spec => []ReadsTheRequestedPage
<1>1. IInv => ReadsTheRequestedPage
  BY DEF IInv, Healthy, Requested, ReadsTheRequestedPage
<1> QED BY <1>1, Inductive, PTL

(* spi_nand_load_skip_bad never copies from a block marked bad. *)
THEOREM MarkedBlocksAreNotUsed == Spec => []NoByteFromMarkedBlock
<1>1. IInv => NoByteFromMarkedBlock
  BY DEF IInv, Healthy, Copied, NoByteFromMarkedBlock
<1> QED BY <1>1, Inductive, PTL

(* spi_nand_load_skip_bad prints every uncorrectable page it uses. *)
THEOREM BadPagesArePrinted == Spec => []UncorrectableIsPrinted
<1>1. IInv => UncorrectableIsPrinted
  BY DEF IInv, Healthy, Copied, UncorrectableIsPrinted
<1> QED BY <1>1, Inductive, PTL

(* A readable, unmarked block is skipped for a timeout only. *)
THEOREM SkipsHaveReasons == Spec => SkipsForAReason
<1> DEFINE A == \A b \in skipped' \ skipped :
                  \/ b \in marked \/ FirstPage(b) \in uncorr
                  \/ ret = "ETIMEDOUT" \/ page0_hung
<1>1. IInv /\ [Next]_vars => [A]_vars
  <2> SUFFICES ASSUME IInv, Next, NEW b \in skipped' \ skipped, ~page0_hung,
                      ret # "ETIMEDOUT"
               PROVE  b \in marked \/ FirstPage(b) \in uncorr
    OBVIOUS
  <2>1. TypeOK /\ Requested /\ Checked
    BY DEF IInv, Healthy
  <2>2. CASE SkipBlock
    <3>1. /\ b = BlockOf(off) /\ pc = "return" /\ site = "check"
          /\ ret # "OK" \/ MarkerIn(page_cache)
      BY <2>2 DEF SkipBlock
    <3>2. off \in Nat /\ curr_addr = BlockBase(off)
      BY <2>1, <3>1 DEF Checked, Reading, TypeOK
    <3>3. /\ page_cache = FirstPage(b)
          /\ ret = IF page_cache \in uncorr THEN "EBADMSG" ELSE "OK"
      BY <2>1, <3>1, <3>2, Bases DEF Requested
    <3>4. CASE ret # "OK"
      BY <3>3, <3>4
    <3>5. CASE MarkerIn(page_cache)
      <4>1. PICK m \in marked : FirstPage(b) = FirstPage(m)
        BY <3>3, <3>5 DEF MarkerIn
      <4>2. b \in Nat /\ m \in Nat
        BY <2>1, <3>1, <3>2, BlockOfPage, GeometryAssumption DEF TypeOK, Blocks
      <4> QED BY <4>1, <4>2, FirstPageOfOne
    <3> QED BY <3>1, <3>4, <3>5
  <2>3. CASE ~SkipBlock
    <3>1. skipped' = skipped \/ skipped' = {}
      BY <2>3 DEF Next, Driver, CallAny, Call, CallReadPage0, LoadInit, InitDie,
         InitDone, ReadPage, ReadPageToCache, PollReady, PollTimeout, Reset,
         GetEccStatus, ReadPageCache, LoopDone, LoopExceeds, LoopRead,
         BlockIsGood, DataRead, DataFailed, Copy, Page0Ready, Page0Timeout,
         ChipReady, load
    <3> QED BY <3>1
  <2> QED BY <2>2, <2>3
<1>2. Spec => [][A]_vars
  BY <1>1, Inductive, PTL DEF Spec
<1> QED BY <1>2 DEF SkipsForAReason

-----------------------------------------------------------------------------
(* The image: LoadsTheImage, and every step of the driver is one of         *)
(* ImageLoad, for every geometry and every flash.                          *)

-----------------------------------------------------------------------------
(* ImageLoad!IsByte for a load from ad that has skipped the blocks sk.     *)
ByteOf(ad, sk, i, a) ==
  /\ BlockOf(a) >= BlockOf(ad) /\ BlockOf(a) \notin sk
  /\ a % EraseSize = ((ad % EraseSize) + i) % EraseSize
  /\ Cardinality((BlockOf(ad) .. BlockOf(a) - 1) \ sk)
       = ((ad % EraseSize) + i) \div EraseSize

(* ImageLoad has its own instance of the operators of FiniteSets. *)
LEMMA SameCardinality ==
  ASSUME NEW S
  PROVE  Image!Cardinality(S) = Cardinality(S)
BY DEF Image!Cardinality, Cardinality

(* ByteOf is what the abstract specification calls IsByte. *)
LEMMA IsByteIsByteOf ==
  /\ \A i, a : Image!IsByte(i, a) <=> ByteOf(addr, skipped, i, a)
  /\ \A i, a : Image!IsByte(i, a)' <=> ByteOf(addr', skipped', i, a)
<1> USE DEF Image!IsByte, Image!BlockOf, Image!FirstBlock, Image!Position,
            ByteOf, BlockOf
<1>1. ASSUME NEW i, NEW a
      PROVE  Image!IsByte(i, a) <=> ByteOf(addr, skipped, i, a)
  BY SameCardinality
<1>2. ASSUME NEW i, NEW a
      PROVE  Image!IsByte(i, a)' <=> ByteOf(addr', skipped', i, a)
  BY SameCardinality
<1> QED BY <1>1, <1>2

LEMMA Blockwise ==
  ASSUME NEW a \in Nat
  PROVE  /\ EraseSize \in Nat \ {0}
         /\ BlockOf(a) \in Nat /\ a % EraseSize \in 0 .. EraseSize - 1
         /\ a = EraseSize * BlockOf(a) + (a % EraseSize)
<1>1. EraseSize \in Nat \ {0}
  BY Geometry
<1> QED BY <1>1, DivMod DEF BlockOf

(* Going on within a block, and to the beginning of the next one. *)
LEMMA WithinBlock ==
  ASSUME NEW b \in Nat \ {0}, NEW a \in Nat, NEW k \in Nat, (a % b) + k < b
  PROVE  (a + k) \div b = a \div b /\ (a + k) % b = (a % b) + k
<1> DEFINE q == a \div b  r == a % b
<1>1. q \in Nat /\ r \in 0 .. b - 1 /\ a = b * q + r
  BY DivMod
<1>2. r + k \in 0 .. b - 1 /\ a + k = b * q + (r + k)
  BY <1>1
<1> HIDE DEF q, r
<1>3. (b * q + (r + k)) \div b = q /\ (b * q + (r + k)) % b = r + k
  BY <1>1, <1>2, DivModOfSum
<1> QED BY <1>2, <1>3 DEF q, r

LEMMA NextBlock ==
  ASSUME NEW b \in Nat \ {0}, NEW a \in Nat, NEW k \in Nat, (a % b) + k = b
  PROVE  (a + k) \div b = (a \div b) + 1 /\ (a + k) % b = 0
<1> DEFINE q == a \div b  r == a % b
<1>1. q \in Nat /\ r \in 0 .. b - 1 /\ a = b * q + r
  BY DivMod
<1>2. a + k = b * (q + 1) /\ q + 1 \in Nat
  BY <1>1
<1> HIDE DEF q, r
<1>3. (b * (q + 1)) \div b = q + 1 /\ (b * (q + 1)) % b = 0
  BY <1>1, <1>2, Multiple
<1> QED BY <1>2, <1>3 DEF q, r

(* A chunk does not reach beyond its block. *)
LEMMA ChunkFits ==
  ASSUME NEW a \in Nat, NEW n \in Nat, n <= WriteSize - (a % WriteSize)
  PROVE  (a % EraseSize) + n <= EraseSize
<1> DEFINE w == WriteSize  p == PagesPerBlock  c == (a % EraseSize)
           q == c \div w
<1>1. w \in Nat \ {0} /\ p \in Nat \ {0} /\ EraseSize = w * p
  BY Geometry, GeometryAssumption
<1>2. c \in Nat /\ c < w * p /\ a = (w * p) * BlockOf(a) + c
  <2>1. c \in 0 .. EraseSize - 1 /\ a = EraseSize * BlockOf(a) + c
    BY Blockwise
  <2> HIDE DEF w, p, c
  <2> QED BY <1>1, <2>1, Blockwise
<1>3. BlockOf(a) \in Nat
  BY Blockwise
<1>4. q \in Nat /\ c % w \in 0 .. w - 1 /\ c = w * q + (c % w)
  <2> HIDE DEF c, w
  <2> QED BY <1>1, <1>2, DivMod
<1> DEFINE m == p * BlockOf(a)
<1>5. m \in Nat /\ a = w * (m + q) + (c % w)
  <2> HIDE DEF w, p, c, q
  <2>1. (w * p) * BlockOf(a) = w * (p * BlockOf(a)) /\ p * BlockOf(a) \in Nat
    BY <1>1, <1>3
  <2> QED BY <1>1, <1>2, <1>3, <1>4, <2>1
<1>6. a % w = c % w
  <2> HIDE DEF w, m, q, c
  <2>1. m + q \in Nat
    BY <1>4, <1>5
  <2> QED BY <1>1, <1>4, <1>5, <2>1, DivModOfSum
<1>7. q < p
  <2> HIDE DEF w, p, c, q
  <2> SUFFICES ASSUME q >= p PROVE FALSE
    BY <1>1, <1>4
  <2>1. w * q >= w * p
    BY <1>1, <1>4
  <2> QED BY <1>1, <1>2, <1>4, <2>1
<1>8. w * q + w <= w * p
  <2> HIDE DEF w, p, c, q
  <2>1. q + 1 <= p /\ w * (q + 1) <= w * p
    BY <1>1, <1>4, <1>7
  <2> QED BY <1>1, <1>4, <2>1
<1>9. n <= w - (c % w)
  BY <1>6
<1> HIDE DEF w, p, c, q, m
<1> QED BY <1>1, <1>2, <1>4, <1>8, <1>9 DEF c

-----------------------------------------------------------------------------
(* How the image is continued in a block and behind one.                   *)

(* Skipping a block leaves the bytes before it where they are. *)
LEMMA ByteStays ==
  ASSUME NEW ad \in Nat, NEW sk, NEW b \in Nat, NEW i \in Nat, NEW a \in Nat,
         ByteOf(ad, sk, i, a), BlockOf(a) < b
  PROVE  ByteOf(ad, sk \cup {b}, i, a)
<1>1. BlockOf(a) \in Nat /\ BlockOf(ad) \in Nat
  BY Blockwise
<1>2. (BlockOf(ad) .. BlockOf(a) - 1) \ (sk \cup {b})
        = (BlockOf(ad) .. BlockOf(a) - 1) \ sk
  BY <1>1
<1>3. BlockOf(a) \notin sk \cup {b}
  BY <1>1 DEF ByteOf
<1> QED BY <1>2, <1>3 DEF ByteOf

LEMMA BlockIsNat ==
  ASSUME NEW a \in Nat
  PROVE  BlockOf(a) \in Nat
BY Blockwise

LEMMA SkipToIsNext ==
  ASSUME NEW o \in Nat
  PROVE  /\ SkipTo(o) \in Nat /\ SkipTo(o) = o + EraseSize
         /\ BlockOf(SkipTo(o)) = BlockOf(o) + 1
         /\ SkipTo(o) % EraseSize = o % EraseSize
<1> DEFINE e == EraseSize  q == BlockOf(o)  r == o % EraseSize
<1>1. e \in Nat \ {0} /\ q \in Nat /\ r \in 0 .. e - 1 /\ o = e * q + r
  BY Blockwise
<1>2. SkipTo(o) = o + e
  BY <1>1 DEF SkipTo, BlockBase
<1>3. o + e = e * (q + 1) + r /\ q + 1 \in Nat
  <2> HIDE DEF e, q, r
  <2> QED BY <1>1
<1>4. (e * (q + 1) + r) \div e = q + 1 /\ (e * (q + 1) + r) % e = r
  <2> HIDE DEF e, q, r
  <2> QED BY <1>1, <1>3, DivModOfSum
<1> QED BY <1>1, <1>2, <1>3, <1>4 DEF BlockOf

(* The byte looked for in the block skipped is looked for in the next one. *)
LEMMA ByteMovesOn ==
  ASSUME NEW ad \in Nat, NEW sk, NEW p \in Nat, NEW o \in Nat,
         ByteOf(ad, sk, p, o), sk \subseteq BlockOf(ad) .. BlockOf(o) - 1
  PROVE  /\ ByteOf(ad, sk \cup {BlockOf(o)}, p, SkipTo(o))
         /\ sk \cup {BlockOf(o)} \subseteq BlockOf(ad) .. BlockOf(SkipTo(o)) - 1
<1> DEFINE f == BlockOf(ad)  b == BlockOf(o)
<1>1. f \in Nat /\ b \in Nat /\ b >= f
  BY Blockwise DEF ByteOf
<1>2. BlockOf(SkipTo(o)) = b + 1 /\ SkipTo(o) % EraseSize = o % EraseSize
  BY SkipToIsNext
<1>3. (f .. (b + 1) - 1) \ (sk \cup {b}) = (f .. b - 1) \ sk
  BY <1>1
<1>4. b + 1 \notin sk \cup {b} /\ sk \cup {b} \subseteq f .. (b + 1) - 1
  <2>1. sk \subseteq f .. b - 1
    OBVIOUS
  <2> HIDE DEF f, b
  <2> QED BY <1>1, <2>1
<1>5. b + 1 >= f
  BY <1>1
<1>6. /\ Cardinality((f .. b - 1) \ sk) = ((ad % EraseSize) + p) \div EraseSize
      /\ o % EraseSize = ((ad % EraseSize) + p) % EraseSize
  BY DEF ByteOf
<1> HIDE DEF f, b
<1> QED BY <1>2, <1>3, <1>4, <1>5, <1>6 DEF ByteOf, f, b

LEMMA SameBlock ==
  ASSUME NEW o \in Nat, NEW k \in Nat, (o % EraseSize) + k < EraseSize
  PROVE  BlockOf(o + k) = BlockOf(o) /\ (o + k) % EraseSize = (o % EraseSize) + k
BY Blockwise, WithinBlock DEF BlockOf

LEMMA BlockBehind ==
  ASSUME NEW o \in Nat, NEW k \in Nat, (o % EraseSize) + k = EraseSize
  PROVE  BlockOf(o + k) = BlockOf(o) + 1 /\ (o + k) % EraseSize = 0
BY Blockwise, NextBlock DEF BlockOf

LEMMA ByteInBlock ==
  ASSUME NEW ad, NEW sk, NEW p, NEW o, NEW k,
         ad \in Nat, p \in Nat, o \in Nat, k \in Nat,
         ByteOf(ad, sk, p, o), (o % EraseSize) + k < EraseSize
  PROVE  ByteOf(ad, sk, p + k, o + k)
<1> DEFINE e == EraseSize  t == (ad % EraseSize) + p
<1>1. e \in Nat \ {0} /\ t \in Nat /\ t + k = (ad % EraseSize) + (p + k)
  <2>1. e \in Nat \ {0} /\ ad % EraseSize \in Nat
    BY Blockwise
  <2> QED BY <2>1
<1>2. (o + k) \div e = o \div e /\ (o + k) % e = (o % e) + k
  BY <1>1, WithinBlock
<1>3. o % e = t % e
  BY DEF ByteOf
<1>4. (t + k) \div e = t \div e /\ (t + k) % e = (t % e) + k
  <2>1. (t % e) + k < e
    BY <1>3
  <2> HIDE DEF e, t
  <2> QED BY <1>1, <2>1, WithinBlock
<1>5. BlockOf(o + k) = BlockOf(o)
  BY <1>2 DEF BlockOf
<1>6. (o + k) % e = ((ad % e) + (p + k)) % e
  BY <1>1, <1>2, <1>3, <1>4
<1>7. ((ad % e) + (p + k)) \div e = ((ad % e) + p) \div e
  BY <1>1, <1>4
<1> QED BY <1>5, <1>6, <1>7 DEF ByteOf

LEMMA ByteBehindBlock ==
  ASSUME NEW ad, NEW sk, NEW p, NEW o, NEW k,
         ad \in Nat, p \in Nat, o \in Nat, k \in Nat,
         ByteOf(ad, sk, p, o), sk \subseteq BlockOf(ad) .. BlockOf(o) - 1,
         (o % EraseSize) + k = EraseSize
  PROVE  ByteOf(ad, sk, p + k, o + k)
<1> DEFINE e == EraseSize  t == (ad % EraseSize) + p  f == BlockOf(ad)  b == BlockOf(o)
<1>1. e \in Nat \ {0} /\ t \in Nat /\ t + k = (ad % EraseSize) + (p + k)
  <2>1. e \in Nat \ {0} /\ ad % EraseSize \in Nat
    BY Blockwise
  <2> QED BY <2>1
<1>2. (o + k) \div e = (o \div e) + 1 /\ (o + k) % e = 0
  BY <1>1, NextBlock
<1>3. o % e = t % e
  BY DEF ByteOf
<1>4. (t + k) \div e = (t \div e) + 1 /\ (t + k) % e = 0
  <2>1. (t % e) + k = e
    BY <1>3
  <2> HIDE DEF e, t
  <2> QED BY <1>1, <2>1, NextBlock
<1>5. BlockOf(o + k) = b + 1
  BY <1>2 DEF BlockOf
<1>6. f \in Nat /\ b \in Nat /\ b >= f /\ b \notin sk
  BY Blockwise DEF ByteOf
<1>7. (f .. (b + 1) - 1) \ sk = ((f .. b - 1) \ sk) \cup {b}
  <2> HIDE DEF f, b
  <2> QED BY <1>6
<1>8. IsFiniteSet((f .. b - 1) \ sk)
  <2>1. IsFiniteSet(f .. b - 1)
    BY <1>6, FS_Interval
  <2> QED BY <2>1, FS_Subset
<1>9. Cardinality((f .. (b + 1) - 1) \ sk) = Cardinality((f .. b - 1) \ sk) + 1
  <2>1. b \notin (f .. b - 1) \ sk
    BY <1>6
  <2> HIDE DEF f, b
  <2> QED BY <1>7, <1>8, <2>1, FS_AddElement
<1>10. Cardinality((f .. (b + 1) - 1) \ sk) = ((ad % EraseSize) + (p + k)) \div e
  BY <1>1, <1>4, <1>9 DEF ByteOf
<1>11. (o + k) % e = ((ad % e) + (p + k)) % e
  BY <1>1, <1>2, <1>4
<1>12. b + 1 \notin sk /\ b + 1 >= f
  BY <1>6
<1> QED BY <1>2, <1>5, <1>10, <1>11, <1>12 DEF ByteOf

-----------------------------------------------------------------------------
(* The invariant.                                                          *)

(* The load is at the place of the next byte, and has skipped blocks it    *)
(* has left behind.                                                        *)
Located ==
  /\ ByteOf(addr, skipped, ptr, off)
  /\ skipped \subseteq BlockOf(addr) .. BlockOf(off) - 1

(* No byte comes from a block that may still be skipped. *)
Arrived ==
  \A i \in 0 .. ptr - 1 :
    /\ buff[i] \in Nat /\ ByteOf(addr, skipped, i, buff[i])
    /\ BlockOf(buff[i]) <= BlockOf(off)
    /\ NeedsCheck(off) => BlockOf(buff[i]) < BlockOf(off)

Waiting == \A i \in ptr .. want - 1 : buff[i] = Untouched

(* A read is for a check if one is due, and there is something to load. *)
Underway ==
  /\ (pc \in Reading \/ (pc \in {"reset", "init"} /\ site # "none"))
       => /\ size > 0
          /\ site = "check" => NeedsCheck(off)
          /\ site = "data" => ~check_bad
  /\ pc = "copy" => size > 0 /\ ~check_bad /\ off < chipsize

(* Before the first load there is nothing to be loaded. *)
Complete ==
  /\ pc = "start" \/ (pc = "init" /\ site = "none") => want = 0
  /\ pc \in {"idle", "page0"} /\ ret = "OK" => ptr = want

Loaded == Located /\ Arrived /\ Waiting /\ Underway /\ Complete

ImageInv == IInv /\ (~page0_hung => Loaded)

LEMMA LoadedInit == Init => Loaded
<1> SUFFICES ASSUME Init PROVE Loaded
  OBVIOUS
<1> USE DEF Init
<1>1. Located
  <2>1. ByteOf(0, {}, 0, 0)
    <3>1. EraseSize \in Nat \ {0}
      BY Geometry
    <3>2. 0 \div EraseSize = 0 /\ 0 % EraseSize = 0
      BY <3>1
    <3>3. (0 .. 0 - 1) \ {} = {}
      OBVIOUS
    <3> QED BY <3>2, <3>3, FS_EmptySet DEF ByteOf, BlockOf
  <2> QED BY <2>1 DEF Located
<1>2. Arrived /\ Waiting
  BY DEF Arrived, Waiting
<1>3. Underway /\ Complete
  BY DEF Underway, Complete, Reading, Asked
<1> QED BY <1>1, <1>2, <1>3 DEF Loaded

(* What the other steps leave alone. *)
LEMMA Elsewhere ==
  ASSUME [AnyStep]_vars, ~AnyCall, ~SkipBlock, ~Copy
  PROVE  UNCHANGED <<off, ptr, addr, want, size, buff, skipped>>
BY DEF AnyStep, Driver, CallReadPage0, LoadInit, InitDie, InitDone, ReadPage,
       ReadPageToCache, PollReady, PollTimeout, Reset, GetEccStatus,
       ReadPageCache, LoopDone, LoopExceeds, LoopRead, BlockIsGood, DataRead,
       DataFailed, Page0Ready, Page0Timeout, ChipReady, vars, call, load

LEMMA UnderwayStep ==
  ASSUME TypeOK, Control, Checked, Underway, [AnyStep]_vars
  PROVE  Underway'
<1> USE DEF Underway, chipsize, Reading, Asked, NeedsCheck, call, load, globals, chip, flash
<1>1. CASE AnyCall \/ CallReadPage0
  BY <1>1 DEF AnyCall, Call, CallReadPage0
<1>2. CASE LoadInit
  BY <1>2 DEF LoadInit, Control
<1>3. CASE InitDie \/ InitDone \/ Reset
  BY <1>3 DEF InitDie, InitDone, Reset
<1>4. CASE ReadPage \/ ReadPageToCache
  BY <1>4 DEF ReadPage, ReadPageToCache
<1>5. CASE PollReady \/ PollTimeout \/ GetEccStatus \/ ReadPageCache
  BY <1>5 DEF PollReady, PollTimeout, GetEccStatus, ReadPageCache
<1>6. CASE LoopDone \/ LoopExceeds \/ DataFailed
  BY <1>6 DEF LoopDone, LoopExceeds, DataFailed, Return
<1>7. CASE LoopRead
  BY <1>7 DEF LoopRead, TypeOK
<1>8. CASE SkipBlock \/ Copy
  BY <1>8 DEF SkipBlock, Copy
<1>9. CASE BlockIsGood \/ DataRead
  BY <1>9 DEF BlockIsGood, DataRead, Checked
<1>10. CASE Page0Ready \/ Page0Timeout \/ ChipReady \/ UNCHANGED vars
  BY <1>10 DEF Page0Ready, Page0Timeout, ChipReady, vars
<1> QED BY <1>1, <1>2, <1>3, <1>4, <1>5, <1>6, <1>7, <1>8, <1>9, <1>10
        DEF AnyStep, Driver

LEMMA CompleteStep ==
  ASSUME TypeOK, Control, Requested, Complete, [AnyStep]_vars
  PROVE  Complete'
<1> USE DEF Complete, call, load, globals, chip, flash
<1>1. CASE AnyCall \/ CallReadPage0
  BY <1>1 DEF AnyCall, Call, CallReadPage0
<1>2. CASE LoadInit
  BY <1>2 DEF LoadInit, Control
<1>3. CASE InitDie \/ Reset
  BY <1>3 DEF InitDie, Reset, Control
<1>4. CASE InitDone
  BY <1>4 DEF InitDone, TypeOK
<1>5. CASE ReadPage \/ ReadPageToCache
  BY <1>5 DEF ReadPage, ReadPageToCache
<1>6. CASE PollReady \/ PollTimeout \/ GetEccStatus \/ ReadPageCache
  BY <1>6 DEF PollReady, PollTimeout, GetEccStatus, ReadPageCache
<1>7. CASE LoopDone
  BY <1>7 DEF LoopDone, Return, TypeOK
<1>8. CASE LoopExceeds \/ LoopRead
  BY <1>8 DEF LoopExceeds, LoopRead, Return
<1>9. CASE DataFailed
  BY <1>9 DEF DataFailed, Return
<1>10. CASE SkipBlock \/ BlockIsGood \/ DataRead \/ Copy
  BY <1>10 DEF SkipBlock, BlockIsGood, DataRead, Copy
<1>11. CASE Page0Ready \/ Page0Timeout \/ ChipReady \/ UNCHANGED vars
  BY <1>11 DEF Page0Ready, Page0Timeout, ChipReady, vars
<1> QED BY <1>1, <1>2, <1>3, <1>4, <1>5, <1>6, <1>7, <1>8, <1>9, <1>10, <1>11
        DEF AnyStep, Driver

(* What a call sets up. *)
LEMMA CallStep ==
  ASSUME TypeOK, AnyCall
  PROVE  Located' /\ Arrived' /\ Waiting'
<1>1. PICK a \in Nat, n \in Nat : Call(a, n)
  BY DEF AnyCall
<1>2. /\ a \in Nat /\ n \in Nat
      /\ addr' = a /\ want' = n /\ off' = a /\ ptr' = 0 /\ skipped' = {}
      /\ buff' = [i \in 0 .. n - 1 |-> Untouched]
  BY <1>1 DEF Call
<1>3. ByteOf(a, {}, 0, a)
  <2>1. /\ BlockOf(a) \in Nat /\ a % EraseSize \in 0 .. EraseSize - 1
        /\ EraseSize \in Nat \ {0}
    BY <1>2, Blockwise
  <2>2. ((a % EraseSize) + 0) \div EraseSize = 0
        /\ ((a % EraseSize) + 0) % EraseSize = a % EraseSize
    BY <2>1
  <2>3. (BlockOf(a) .. BlockOf(a) - 1) \ {} = {}
    BY <2>1
  <2>4. Cardinality((BlockOf(a) .. BlockOf(a) - 1) \ {}) = 0
    BY <2>3, FS_EmptySet
  <2> QED BY <2>1, <2>2, <2>4 DEF ByteOf
<1> QED BY <1>2, <1>3 DEF Located, Arrived, Waiting

(* What a skip leaves of it. *)
LEMMA SkipStep ==
  ASSUME TypeOK, Located, Arrived, Waiting, Underway, SkipBlock
  PROVE  Located' /\ Arrived' /\ Waiting'
<1> DEFINE b == BlockOf(off)  o == SkipTo(off)
<1>1. /\ addr' = addr /\ want' = want /\ ptr' = ptr /\ buff' = buff
      /\ off' = o /\ skipped' = skipped \cup {b}
      /\ NeedsCheck(off)
  BY DEF SkipBlock, call, Underway, Reading
<1>2. off \in Nat /\ addr \in Nat /\ ptr \in Nat /\ b \in Nat
  BY Blockwise DEF TypeOK
<1>3. ByteOf(addr, skipped \cup {b}, ptr, o)
      /\ skipped \cup {b} \subseteq BlockOf(addr) .. BlockOf(o) - 1
  BY <1>2, ByteMovesOn DEF Located
<1>4. BlockOf(o) = b + 1
  BY <1>2, SkipToIsNext
<1>5. ASSUME NEW i \in 0 .. ptr - 1
      PROVE  /\ buff[i] \in Nat /\ ByteOf(addr, skipped \cup {b}, i, buff[i])
             /\ BlockOf(buff[i]) < BlockOf(o)
  <2>1. /\ buff[i] \in Nat /\ ByteOf(addr, skipped, i, buff[i])
        /\ BlockOf(buff[i]) < b
    BY <1>1 DEF Arrived
  <2>2. i \in Nat /\ BlockOf(buff[i]) \in Nat
    BY <1>2, <2>1, BlockIsNat
  <2>3. ByteOf(addr, skipped \cup {b}, i, buff[i])
    BY <1>2, <2>1, <2>2, ByteStays
  <2> QED BY <1>2, <1>4, <2>1, <2>2, <2>3
<1>6. Located'
  BY <1>1, <1>3 DEF Located, BlockOf, ByteOf
<1>7. Arrived'
  <2> SUFFICES ASSUME NEW i \in 0 .. ptr - 1
               PROVE  /\ buff[i] \in Nat
                      /\ ByteOf(addr, skipped \cup {b}, i, buff[i])
                      /\ BlockOf(buff[i]) <= BlockOf(o)
                      /\ BlockOf(buff[i]) < BlockOf(o)
    BY <1>1 DEF Arrived, ByteOf, BlockOf
  <2>1. BlockOf(o) \in Nat /\ BlockOf(buff[i]) \in Nat
    BY <1>2, <1>4, <1>5, BlockIsNat
  <2>2. /\ buff[i] \in Nat /\ ByteOf(addr, skipped \cup {b}, i, buff[i])
        /\ BlockOf(buff[i]) < BlockOf(o)
    BY <1>5
  <2>3. BlockOf(buff[i]) <= BlockOf(o)
    <3> HIDE DEF b, o
    <3> QED BY <2>1, <2>2
  <2> QED BY <2>2, <2>3
<1>8. Waiting'
  BY <1>1 DEF Waiting
<1> QED BY <1>6, <1>7, <1>8

(* A range under two names of its end. *)
LEMMA RangeTo ==
  ASSUME NEW a \in Nat, NEW n \in Nat, NEW b, b = a + n
  PROVE  a .. b - 1 = a .. a + n - 1
OBVIOUS

(* What a copy adds to it. *)
LEMMA CopyStep ==
  ASSUME TypeOK, Checked, Located, Arrived, Waiting, Underway, Copy
  PROVE  /\ Located' /\ Arrived' /\ Waiting'
         /\ ptr < ptr' /\ ptr' <= want
         /\ \A i \in ptr .. ptr' - 1 : BlockOf(buff'[i]) = BlockOf(off)
         /\ \A i \in 0 .. want - 1 : i \notin ptr .. ptr' - 1 => buff'[i] = buff[i]
<1> DEFINE n == Chunk(off)  e == EraseSize
           byte(i) == CacheByte((off % WriteSize) + (i - ptr))
<1>1. /\ off \in Nat /\ addr \in Nat /\ ptr \in Nat /\ size \in Nat /\ want \in Nat
      /\ n \in Nat /\ n <= size /\ n <= WriteSize - (off % WriteSize)
      /\ ptr + n <= want
  BY GeometryAssumption DEF Chunk, TypeOK
<1>10. off \in Nat /\ addr \in Nat /\ ptr \in Nat /\ n \in Nat
  BY <1>1
<1>2. /\ addr' = addr /\ want' = want /\ ptr' = ptr + n /\ off' = off + n
      /\ skipped' = skipped /\ check_bad' = FALSE
      /\ page_cache = PageOf(off)
  BY DEF Copy, call, Underway, Checked
<1>3. \A i \in 0 .. want - 1 :
        buff'[i] = IF i \in ptr .. ptr + n - 1 THEN byte(i) ELSE buff[i]
  <2>1. DOMAIN buff = 0 .. want - 1
    BY DEF TypeOK
  <2>2. buff' = [i \in DOMAIN buff |->
                  IF i \in ptr .. ptr + n - 1 THEN byte(i) ELSE buff[i]]
    BY DEF Copy
  <2> HIDE DEF n, byte
  <2> QED BY <2>1, <2>2
<1>4. (off % e) + n <= e /\ e \in Nat \ {0} /\ off % e \in 0 .. e - 1
  BY <1>1, ChunkFits, Blockwise
<1>5. ASSUME NEW i \in ptr .. ptr + n - 1
      PROVE  /\ byte(i) = off + (i - ptr) /\ byte(i) \in Nat
             /\ ByteOf(addr, skipped, i, byte(i)) /\ BlockOf(byte(i)) = BlockOf(off)
  <2> DEFINE k == i - ptr
  <2>1. k \in Nat /\ k < n /\ i = ptr + k /\ (off % e) + k < e
    <3> HIDE DEF n
    <3> QED BY <1>1, <1>4
  <2>2. byte(i) = off + k
    <3>1. page_cache \in Nat /\ page_cache # NoPage
      BY <1>1, <1>2, BlockOfPage DEF NoPage
    <3>2. off = WriteSize * page_cache + (off % WriteSize)
          /\ off % WriteSize \in Nat /\ WriteSize \in Nat
      <4>1. WriteSize \in Nat \ {0} /\ off \in Nat
        BY <1>1, GeometryAssumption
      <4>2. off % WriteSize \in Nat /\ off = WriteSize * (off \div WriteSize) + (off % WriteSize)
        BY <4>1, DivMod
      <4> QED BY <1>2, <4>1, <4>2 DEF PageOf
    <3>3. byte(i) = page_cache * WriteSize + ((off % WriteSize) + k)
      BY <3>1 DEF CacheByte
    <3>4. page_cache * WriteSize = WriteSize * page_cache
      BY <3>1, <3>2
    <3> HIDE DEF k, byte
    <3> QED BY <2>1, <3>1, <3>2, <3>3, <3>4
  <2>3. ByteOf(addr, skipped, ptr, off)
    BY DEF Located
  <2> HIDE DEF k, byte, n
  <2>4. ByteOf(addr, skipped, ptr + k, off + k)
    BY <1>10, <2>1, <2>3, ByteInBlock
  <2>6. BlockOf(off + k) = BlockOf(off)
    BY <1>10, <2>1, SameBlock
  <2>5. off + k \in Nat
    BY <1>1, <2>1
  <2> QED BY <2>1, <2>2, <2>4, <2>5, <2>6 DEF k
<1> HIDE DEF n, byte
<1>6. /\ ByteOf(addr, skipped, ptr + n, off + n)
      /\ skipped \subseteq BlockOf(addr) .. BlockOf(off + n) - 1
      /\ \/ BlockOf(off + n) = BlockOf(off) /\ (off + n) % e # 0
         \/ BlockOf(off + n) = BlockOf(off) + 1
         \/ n = 0 /\ BlockOf(off + n) = BlockOf(off)
  <2>1. ByteOf(addr, skipped, ptr, off)
        /\ skipped \subseteq BlockOf(addr) .. BlockOf(off) - 1
    BY DEF Located
  <2>2. BlockOf(addr) \in Nat /\ BlockOf(off) \in Nat
    BY <1>1, BlockIsNat
  <2>3. CASE (off % e) + n < e
    <3>1. ByteOf(addr, skipped, ptr + n, off + n)
      BY <1>10, <2>1, <2>3, ByteInBlock
    <3>2. BlockOf(off + n) = BlockOf(off) /\ (off + n) % e = (off % e) + n
      BY <1>10, <2>3, SameBlock
    <3>3. n # 0 => (off + n) % e # 0
      <4> HIDE DEF e
      <4> QED BY <1>1, <1>4, <3>2
    <3> QED BY <2>1, <3>1, <3>2, <3>3
  <2>4. CASE (off % e) + n = e
    <3>1. ByteOf(addr, skipped, ptr + n, off + n)
      BY <1>10, <2>1, <2>4, ByteBehindBlock
    <3>3. BlockOf(off + n) = BlockOf(off) + 1
      BY <1>10, <2>4, BlockBehind
    <3>2. skipped \subseteq BlockOf(addr) .. BlockOf(off + n) - 1
      BY <2>1, <2>2, <3>3
    <3> QED BY <3>1, <3>2, <3>3
  <2> HIDE DEF e
  <2> QED BY <1>1, <1>4, <2>3, <2>4
<1>7. Located'
  BY <1>2, <1>6 DEF Located, ByteOf, BlockOf
<1>11. n > 0
  BY <1>1, GeometryAssumption DEF Copy, Underway, n, Chunk
<1>8. Arrived'
  <2>1. /\ BlockOf(off) \in Nat /\ BlockOf(off + n) \in Nat
    BY <1>1, BlockIsNat
  <2>2. n > 0
    BY <1>11
  <2>4. NeedsCheck(off)' <=> (off + n) % EraseSize = 0
    BY <1>2 DEF NeedsCheck
  <2>5. /\ addr' = addr /\ ptr' = ptr + n /\ off' = off + n /\ skipped' = skipped
    BY <1>2
  <2> SUFFICES ASSUME NEW i \in (0 .. ptr - 1)'
               PROVE  /\ (buff[i] \in Nat)' /\ ByteOf(addr, skipped, i, buff[i])'
                      /\ (BlockOf(buff[i]) <= BlockOf(off))'
                      /\ (NeedsCheck(off) => BlockOf(buff[i]) < BlockOf(off))'
    BY DEF Arrived
  <2>6. i \in 0 .. ptr + n - 1
    BY <1>10, <2>5
  <2>3. /\ buff'[i] \in Nat /\ ByteOf(addr, skipped, i, buff'[i])
        /\ BlockOf(buff'[i]) \in Nat /\ BlockOf(buff'[i]) <= BlockOf(off)
    <3>1. CASE i \in ptr .. ptr + n - 1
      <4>1. buff'[i] = byte(i)
        BY <1>1, <1>3, <2>6, <3>1
      <4> QED BY <1>5, <2>1, <3>1, <4>1
    <3>2. CASE i \notin ptr .. ptr + n - 1
      <4>1. i \in 0 .. ptr - 1 /\ buff'[i] = buff[i]
        BY <1>1, <1>3, <2>6, <3>2
      <4>2. /\ buff[i] \in Nat /\ ByteOf(addr, skipped, i, buff[i])
            /\ BlockOf(buff[i]) <= BlockOf(off)
        BY <4>1 DEF Arrived
      <4> QED BY <4>1, <4>2, BlockIsNat
    <3> QED BY <3>1, <3>2
  <2>7. NeedsCheck(off)' => BlockOf(buff'[i]) < BlockOf(off + n)
    BY <1>6, <2>1, <2>2, <2>3, <2>4
  <2>8. BlockOf(buff'[i]) <= BlockOf(off + n)
    BY <1>6, <2>1, <2>3
  <2>9. BlockOf(buff[i])' = BlockOf(buff'[i]) /\ BlockOf(off)' = BlockOf(off + n)
    BY <2>5 DEF BlockOf
  <2>10. ByteOf(addr, skipped, i, buff[i])'
    BY <2>3, <2>5 DEF ByteOf, BlockOf
  <2> QED BY <2>3, <2>7, <2>8, <2>9, <2>10
<1>9. Waiting'
  <2> SUFFICES ASSUME NEW i \in ptr + n .. want - 1
               PROVE  buff'[i] = Untouched
    BY <1>2 DEF Waiting
  <2>1. i \in 0 .. want - 1 /\ i \in ptr .. want - 1 /\ i \notin ptr .. ptr + n - 1
    BY <1>1
  <2> QED BY <1>3, <2>1 DEF Waiting
<1>12. ptr < ptr' /\ ptr' <= want
  BY <1>1, <1>2, <1>11
<1>16. ptr' = ptr + n
  BY <1>2
<1>15. ptr .. ptr' - 1 = ptr .. ptr + n - 1
  BY <1>1, <1>16, RangeTo
<1>13. \A i \in 0 .. want - 1 : i \notin ptr .. ptr' - 1 => buff'[i] = buff[i]
  <2> SUFFICES ASSUME NEW i \in 0 .. want - 1, i \notin ptr .. ptr + n - 1
               PROVE  buff'[i] = buff[i]
    BY <1>15, Zenon
  <2> QED BY <1>3
<1>14. \A i \in ptr .. ptr' - 1 : BlockOf(buff'[i]) = BlockOf(off)
  <2> SUFFICES ASSUME NEW i \in ptr .. ptr + n - 1
               PROVE  BlockOf(buff'[i]) = BlockOf(off)
    BY <1>15, Zenon
  <2>1. i \in 0 .. want - 1
    BY <1>1
  <2>2. buff'[i] = byte(i)
    BY <1>3, <2>1
  <2> QED BY <1>5, <2>2
<1> QED BY <1>7, <1>8, <1>9, <1>12, <1>13, <1>14

(* The check of a block opens it. *)
LEMMA OtherStep ==
  ASSUME TypeOK, Located, Arrived, Waiting, [AnyStep]_vars, ~AnyCall, ~SkipBlock, ~Copy
  PROVE  Located' /\ Arrived' /\ Waiting'
<1>1. UNCHANGED <<off, ptr, addr, want, buff, skipped>>
  BY Elsewhere
<1>2. check_bad' => check_bad
  BY DEF AnyStep, Driver, CallReadPage0, LoadInit, InitDie, InitDone, ReadPage,
       ReadPageToCache, PollReady, PollTimeout, Reset, GetEccStatus,
       ReadPageCache, LoopDone, LoopExceeds, LoopRead, BlockIsGood, DataRead,
       DataFailed, Page0Ready, Page0Timeout, ChipReady, vars, load
<1>3. Located'
  BY <1>1 DEF Located, ByteOf, BlockOf
<1>4. Waiting'
  BY <1>1 DEF Waiting
<1>5. Arrived'
  <2>1. NeedsCheck(off)' => NeedsCheck(off)
    BY <1>1, <1>2 DEF NeedsCheck
  <2> SUFFICES ASSUME NEW i \in 0 .. ptr - 1
               PROVE  /\ buff[i] \in Nat /\ ByteOf(addr, skipped, i, buff[i])
                      /\ BlockOf(buff[i]) <= BlockOf(off)
                      /\ NeedsCheck(off) => BlockOf(buff[i]) < BlockOf(off)
    BY <1>1, <2>1 DEF Arrived, ByteOf, BlockOf
  <2> QED BY DEF Arrived
<1> QED BY <1>3, <1>4, <1>5

LEMMA ImageStep == ImageInv /\ [AnyStep]_vars => ImageInv'
<1> SUFFICES ASSUME ImageInv, [AnyStep]_vars PROVE ImageInv'
  OBVIOUS
<1>1. IInv /\ IInv' /\ TypeOK /\ Control
  BY IInvStep DEF ImageInv, IInv
<1>2. ASSUME ~page0_hung' PROVE Loaded'
  <2>1. ~page0_hung
    BY <1>1, <1>2, HungStays DEF TypeOK
  <2>2. /\ Requested /\ Checked /\ Located /\ Arrived /\ Waiting /\ Underway
        /\ Complete
    BY <1>1, <2>1 DEF ImageInv, IInv, Healthy, Loaded
  <2>3. Located' /\ Arrived' /\ Waiting'
    BY <1>1, <2>2, CallStep, SkipStep, CopyStep, OtherStep
  <2>4. Underway' /\ Complete'
    BY <1>1, <2>2, UnderwayStep, CompleteStep
  <2> QED BY <2>3, <2>4 DEF Loaded
<1> QED BY <1>1, <1>2 DEF ImageInv

(* The strengthened invariant of the load holds in every state of the driver. *)
THEOREM ImageInvHolds == Spec => []ImageInv
<1>1. Init => ImageInv
  BY IInvInit, LoadedInit DEF ImageInv
<1>2. ImageInv /\ [Next]_vars => ImageInv'
  BY ImageStep, StepIsAny
<1> QED BY <1>1, <1>2, PTL DEF Spec

(* spi_nand_load_skip_bad fills the destination with a prefix of the image, *)
(* and with all of it when it returns 0.                                   *)
THEOREM ImageIsLoaded == Spec => []LoadsTheImage
<1>1. ImageInv => LoadsTheImage
  BY IsByteIsByteOf DEF ImageInv, Loaded, Arrived, Waiting, Complete, LoadsTheImage
<1> QED BY <1>1, ImageInvHolds, PTL

-----------------------------------------------------------------------------
(* Every step of the driver is one of ImageLoad.                           *)

(* Steps inside a load, which ImageLoad does not tell apart. *)
LEMMA WorkingSteps ==
  ASSUME TypeOK, Control, AnyStep, ~AnyCall, ~CallReadPage0, ~LoadInit, ~InitDie,
         ~InitDone, ~LoopDone, ~LoopExceeds, ~DataFailed, ~SkipBlock, ~Copy,
         ~Page0Ready, ~Page0Timeout, ~ChipReady
  PROVE  Image!Work
<1> USE DEF Loading, Control, Asked, call, load, globals, flash
<1>1. UNCHANGED <<off, ptr, addr, want, size, buff, skipped>>
  BY Elsewhere
<1>2. Loading /\ Loading'
  BY DEF AnyStep, Driver, ReadPage, ReadPageToCache, PollReady, PollTimeout, Reset,
         GetEccStatus, ReadPageCache, LoopRead, BlockIsGood, DataRead
<1>3. UNCHANGED <<spi_nand_chip, marked, page0_hung>>
  BY DEF AnyStep, Driver, ReadPage, ReadPageToCache, PollReady, PollTimeout, Reset,
         GetEccStatus, ReadPageCache, LoopRead, BlockIsGood, DataRead
<1> HIDE DEF Loading
<1>4. Loading' = Loading
  BY <1>2
<1> QED BY <1>1, <1>2, <1>3, <1>4 DEF Image!Work

(* Steps it does not see at all. *)
LEMMA UnseenSteps ==
  ASSUME TypeOK, Control,
         \/ CallReadPage0 \/ InitDie \/ InitDone \/ Page0Ready \/ ChipReady
         \/ UNCHANGED vars
  PROVE  UNCHANGED Image!vars
<1> USE DEF call, load, globals, flash, vars
<1>1. UNCHANGED <<ret, addr, want, buff, ptr, skipped, spi_nand_chip, marked, page0_hung>>
  BY DEF CallReadPage0, InitDie, InitDone, Page0Ready, ChipReady
<1>2. Loading <=> Loading'
  BY DEF CallReadPage0, InitDie, InitDone, Page0Ready, ChipReady, Loading, TypeOK
<1>3. Loading' = Loading
  <2>1. Loading \in BOOLEAN /\ Loading' \in BOOLEAN
    BY DEF Loading
  <2> HIDE DEF Loading
  <2> QED BY <1>2, <2>1
<1> QED BY <1>1, <1>3 DEF Image!vars

LEMMA LoadInitIsProbe ==
  ASSUME TypeOK, Control, Complete, LoadInit
  PROVE  Image!Probe
<1>1. ~Loading /\ ~Loading' /\ want = 0
  BY DEF LoadInit, Loading, Complete, Control
<1>2. UNCHANGED <<addr, want, buff, ptr, skipped, marked, page0_hung>>
  BY DEF LoadInit, call, load, flash
<1>3. Loading' = Loading
  <2>1. Loading \in BOOLEAN /\ Loading' \in BOOLEAN
    BY DEF Loading
  <2> QED BY <1>1, <2>1
<1> QED BY <1>1, <1>2, <1>3 DEF Image!Probe

LEMMA CallIsStart ==
  ASSUME TypeOK, AnyCall
  PROVE  Image!Start
<1>1. PICK a \in Nat, n \in Nat : Call(a, n)
  BY DEF AnyCall
<1>2. a \in Nat /\ n \in Nat
  BY <1>1
<1>3. ~Loading /\ Loading'
  BY <1>1 DEF Call, Loading
<1>4. /\ addr' = a /\ want' = n /\ ptr' = 0 /\ skipped' = {}
      /\ buff' = [i \in 0 .. n - 1 |-> Untouched]
      /\ UNCHANGED <<spi_nand_chip, marked, page0_hung>>
  BY <1>1 DEF Call, globals, flash
<1> QED BY <1>2, <1>3, <1>4 DEF Image!Start

(* The block of an address below chipsize is one of the chip's. *)
LEMMA BlockOfChip ==
  ASSUME NEW a \in Nat, a < FlashSize
  PROVE  BlockOf(a) \in Blocks
<1> DEFINE e == EraseSize  n == BlocksPerDie * NDies
<1>1. e \in Nat \ {0} /\ n \in Nat /\ FlashSize = e * n
  <2>1. e \in Nat \ {0} /\ BlocksPerDie \in Nat /\ NDies \in Nat
    BY Geometry, GeometryAssumption
  <2>2. FlashSize = (e * BlocksPerDie) * NDies
    BY DEF FlashSize, DieSize
  <2> HIDE DEF e
  <2> QED BY <2>1, <2>2
<1>2. a \div e \in 0 .. n - 1
  <2> HIDE DEF e, n
  <2> QED BY <1>1
<1> QED BY <1>2 DEF BlockOf, Blocks

LEMMA SkipIsSkip ==
  ASSUME TypeOK, Control, Checked, Located, Arrived, Underway, SkipBlock
  PROVE  Image!Skip
<1> DEFINE b == BlockOf(off)
<1>1. /\ UNCHANGED <<addr, want, buff, ptr, spi_nand_chip, marked, page0_hung>>
      /\ skipped' = skipped \cup {b}
      /\ Loading /\ Loading' /\ NeedsCheck(off) /\ size > 0
  BY DEF SkipBlock, call, globals, flash, Loading, Underway, Reading
<1>2. off < FlashSize /\ spi_nand_chip /\ off \in Nat /\ ptr \in Nat
  BY DEF SkipBlock, Checked, Reading, Control, chipsize, TypeOK
<1>3. ptr < want
  BY <1>1 DEF TypeOK
<1>4. b \in Blocks
  BY <1>2, BlockOfChip
<1>5. Image!IsNextBlock(b)
  <2>1. off % EraseSize = Image!Position(ptr) % EraseSize
    BY DEF Located, ByteOf, Image!Position
  <2>2. off = b * EraseSize + (off % EraseSize)
    <3>1. /\ off = EraseSize * b + (off % EraseSize)
          /\ EraseSize \in Nat /\ b \in Nat
      BY <1>2, Blockwise
    <3>2. EraseSize * b = b * EraseSize
      BY <3>1
    <3> QED BY <3>1, <3>2
  <2>3. Image!IsByte(ptr, off)
    BY IsByteIsByteOf DEF Located
  <2> HIDE DEF b
  <2> QED BY <2>1, <2>2, <2>3 DEF Image!IsNextBlock
<1>6. \A i \in 0 .. ptr - 1 : Image!BlockOf(buff[i]) # b
  <2> SUFFICES ASSUME NEW i \in 0 .. ptr - 1 PROVE Image!BlockOf(buff[i]) # b
    OBVIOUS
  <2>1. BlockOf(buff[i]) < b /\ buff[i] \in Nat
    BY <1>1 DEF Arrived
  <2>2. BlockOf(buff[i]) \in Nat /\ b \in Nat
    BY <1>2, <2>1, BlockIsNat
  <2>3. Image!BlockOf(buff[i]) = BlockOf(buff[i])
    BY DEF Image!BlockOf, BlockOf
  <2> HIDE DEF b
  <2> QED BY <2>1, <2>2, <2>3
<1>7. Loading' = Loading
  <2> HIDE DEF b
  <2> QED BY <1>1
<1> HIDE DEF b
<1> QED BY <1>1, <1>2, <1>3, <1>4, <1>5, <1>6, <1>7 DEF Image!Skip

(* The upper end of a range does not depend on where it starts. *)
LEMMA InRange ==
  ASSUME NEW a \in Nat, NEW b \in Nat, NEW i \in a .. b - 1
  PROVE  i \in 0 .. b - 1
OBVIOUS

LEMMA CopyIsDeliver ==
  ASSUME TypeOK, TypeOK', Checked, Copied', Located, Arrived, Waiting, Underway, Copy
  PROVE  Image!Deliver
<1>1. /\ Arrived' /\ ptr < ptr' /\ ptr' <= want
      /\ \A i \in ptr .. ptr' - 1 : BlockOf(buff'[i]) = BlockOf(off)
      /\ \A i \in 0 .. want - 1 : i \notin ptr .. ptr' - 1 => buff'[i] = buff[i]
  BY CopyStep
<1>2. /\ UNCHANGED <<addr, want, skipped, spi_nand_chip, marked, page0_hung>>
      /\ Loading /\ Loading'
  BY DEF Copy, call, globals, flash, Loading
<1>3. DOMAIN buff = 0 .. want - 1 /\ DOMAIN buff' = 0 .. want - 1
      /\ ptr \in Nat /\ ptr' \in Nat
  BY <1>2 DEF TypeOK
<1>4. BlockOf(off) \in Blocks /\ spi_nand_chip
  <2>1. off \in Nat /\ off < FlashSize /\ spi_nand_chip
    BY DEF Copy, Underway, chipsize, TypeOK
  <2> QED BY <2>1, BlockOfChip
<1>5. ASSUME NEW i \in ptr .. ptr' - 1
      PROVE  Image!IsByte(i, buff'[i]) /\ Image!BlockOf(buff'[i]) \in Blocks \ marked
  <2>1. i \in (0 .. ptr - 1)'
    <3>1. ptr \in Nat /\ ptr' \in Nat /\ i \in ptr .. ptr' - 1
      BY <1>3
    <3>2. i \in 0 .. ptr' - 1
      BY <3>1, InRange
    <3> QED BY <3>2
  <2>2. ByteOf(addr, skipped, i, buff'[i])
    <3>1. ByteOf(addr, skipped, i, buff[i])'
      BY <1>1, <2>1 DEF Arrived
    <3> QED BY <1>2, <3>1 DEF ByteOf, BlockOf
  <2>3. Image!IsByte(i, buff'[i])
    BY <2>2, IsByteIsByteOf
  <2>4. BlockOf(buff'[i]) \notin marked
    <3>1. (BlockOf(buff[i]) \notin marked)'
      BY <2>1 DEF Copied
    <3> QED BY <1>2, <3>1 DEF BlockOf
  <2>5. Image!BlockOf(buff'[i]) = BlockOf(off) /\ BlockOf(buff'[i]) = BlockOf(off)
    BY <1>1 DEF Image!BlockOf, BlockOf
  <2> QED BY <1>4, <2>3, <2>4, <2>5
<1>6. \A i \in DOMAIN buff :
        IF i \in ptr .. ptr' - 1
        THEN /\ Image!IsByte(i, buff'[i])
             /\ Image!BlockOf(buff'[i]) \in (IF spi_nand_chip THEN Blocks ELSE {}) \ marked
        ELSE buff'[i] = buff[i]
  BY <1>1, <1>3, <1>4, <1>5
<1>7. Loading' = Loading
  <2>1. Loading \in BOOLEAN /\ Loading' \in BOOLEAN
    BY DEF Loading
  <2> HIDE DEF Loading
  <2> QED BY <1>2, <2>1
<1> HIDE DEF Loading
<1> QED BY <1>1, <1>2, <1>3, <1>6, <1>7 DEF Image!Deliver

(* -EIO: the blocks that are left do not hold the image. *)
LEMMA NoRoom ==
  ASSUME TypeOK, Located, LoopExceeds
  PROVE  Image!Position(want) > Image!Room
<1> DEFINE e == EraseSize  f == BlockOf(addr)  b == BlockOf(off)
           k == Cardinality((f .. b - 1) \ skipped)
           blocks == IF spi_nand_chip THEN Blocks ELSE {}
           left == {c \in blocks \ skipped : c >= f}
           t == (addr % e) + ptr
<1>1. /\ off \in Nat /\ addr \in Nat /\ ptr \in Nat /\ want \in Nat /\ ptr < want
      /\ off >= chipsize
  BY DEF LoopExceeds, Exceeds, TypeOK
<1>2. /\ e \in Nat \ {0} /\ f \in Nat /\ b \in Nat /\ addr % e \in Nat
      /\ t \in Nat
  <2>1. e \in Nat \ {0} /\ f \in Nat /\ b \in Nat /\ addr % e \in 0 .. e - 1
    BY <1>1, Blockwise
  <2> HIDE DEF e
  <2> QED BY <1>1, <2>1
<1>3. k = t \div e
  BY DEF Located, ByteOf
<1>4. IsFiniteSet((f .. b - 1) \ skipped)
  <2>1. IsFiniteSet(f .. b - 1)
    BY <1>2, FS_Interval
  <2> QED BY <2>1, FS_Subset
<1>5. left \subseteq (f .. b - 1) \ skipped
  <2>1. CASE spi_nand_chip
    <3> DEFINE n == BlocksPerDie * NDies
    <3>1. off >= e * n /\ n \in Nat
      <4>1. e \in Nat \ {0} /\ BlocksPerDie \in Nat /\ NDies \in Nat
        BY Geometry, GeometryAssumption
      <4>2. FlashSize = (e * BlocksPerDie) * NDies /\ off >= FlashSize
        BY <1>1, <2>1 DEF FlashSize, DieSize, chipsize
      <4>3. (e * BlocksPerDie) * NDies = e * (BlocksPerDie * NDies)
        <5> HIDE DEF e
        <5> QED BY <4>1
      <4> QED BY <4>1, <4>2, <4>3
    <3>2. b >= n
      <4>1. off = e * b + (off % e) /\ off % e \in 0 .. e - 1
        BY <1>1, Blockwise
      <4> HIDE DEF e, n, b
      <4> SUFFICES ASSUME b < n PROVE FALSE
        BY <1>2, <3>1
      <4>2. b + 1 <= n /\ e * (b + 1) <= e * n
        BY <1>2, <3>1
      <4>3. e * (b + 1) = e * b + e
        BY <1>2
      <4> QED BY <1>1, <1>2, <3>1, <4>1, <4>2, <4>3
    <3>3. left = {c \in (0 .. n - 1) \ skipped : c >= f}
      BY <2>1 DEF Blocks
    <3> HIDE DEF n, b, f, left
    <3> QED BY <1>2, <3>1, <3>2, <3>3
  <2>2. CASE ~spi_nand_chip
    BY <2>2
  <2> QED BY <2>1, <2>2 DEF TypeOK
<1>6. Cardinality(left) <= k /\ Cardinality(left) \in Nat /\ k \in Nat
  BY <1>4, <1>5, FS_Subset, FS_CardinalityType
<1>7. e * Cardinality(left) <= t
  <2> DEFINE m == Cardinality(left)
  <2>1. m <= k /\ m \in Nat /\ k \in Nat
    BY <1>6
  <2> HIDE DEF m, k, e, t
  <2>2. e * m <= e * k
    BY <1>2, <2>1
  <2>3. t = e * (t \div e) + (t % e) /\ t % e \in 0 .. e - 1
    BY <1>2, DivMod
  <2>4. e * k <= t
    BY <1>2, <1>3, <2>1, <2>3
  <2> QED BY <1>2, <2>1, <2>2, <2>4 DEF m
<1>8. Image!Room = e * Cardinality(left)
  BY SameCardinality DEF Image!Room, Image!FirstBlock, Image!BlockOf, BlockOf
<1>9. Image!Position(want) = (addr % e) + want
  BY DEF Image!Position
<1>10. t < (addr % e) + want
  BY <1>1, <1>2
<1>11. e * Cardinality(left) \in Nat
  BY <1>2, <1>6
<1> HIDE DEF e, left
<1> QED BY <1>1, <1>2, <1>7, <1>8, <1>9, <1>10, <1>11

LEMMA ReturnIsFinish ==
  ASSUME TypeOK, Requested, Located, LoopDone \/ LoopExceeds \/ DataFailed
  PROVE  Image!Finish
<1> USE DEF call, load, globals, flash, Return
<1>1. UNCHANGED <<addr, want, buff, ptr, skipped, spi_nand_chip, marked, page0_hung>>
  BY DEF LoopDone, LoopExceeds, DataFailed
<1>2. Loading /\ ~Loading'
  BY DEF LoopDone, LoopExceeds, DataFailed, Loading
<1>3. \/ ret' = "OK" /\ ptr = want
      \/ ret' = "EIO" /\ Image!Position(want) > Image!Room
      \/ ret' = "ETIMEDOUT"
  <2>1. CASE LoopDone
    BY <2>1 DEF LoopDone, TypeOK
  <2>2. CASE LoopExceeds
    <3>1. ret' = "EIO"
      BY <2>2 DEF LoopExceeds
    <3> QED BY <2>2, <3>1, NoRoom
  <2>3. CASE DataFailed
    BY <2>3 DEF DataFailed, Requested
  <2> QED BY <2>1, <2>2, <2>3
<1> HIDE DEF Loading
<1> QED BY <1>1, <1>2, <1>3 DEF Image!Finish

LEMMA StepIsImageStep ==
  ASSUME ImageInv, [AnyStep]_vars
  PROVE  Image!Next \/ UNCHANGED Image!vars
<1>1. TypeOK /\ Control /\ ImageInv' /\ TypeOK'
  BY ImageStep DEF ImageInv, IInv
<1>2. CASE page0_hung'
  BY <1>2 DEF Image!Next, Image!Disclaim
<1>3. CASE ~page0_hung'
  <2>1. ~page0_hung
    BY <1>1, <1>3, HungStays
  <2>2. /\ Requested /\ Checked /\ Located /\ Arrived /\ Waiting /\ Underway
        /\ Complete
    BY <1>1, <2>1 DEF ImageInv, IInv, Healthy, Loaded
  <2>3. Copied'
    BY <1>1, <1>3 DEF ImageInv, IInv, Healthy
  <2>4. ~Page0Timeout
    BY <1>3 DEF Page0Timeout
  <2>5. CASE AnyCall
    BY <1>1, <2>5, CallIsStart DEF Image!Next
  <2>6. CASE LoadInit
    BY <1>1, <2>2, <2>6, LoadInitIsProbe DEF Image!Next
  <2>7. CASE \/ CallReadPage0 \/ InitDie \/ InitDone \/ Page0Ready \/ ChipReady
             \/ UNCHANGED vars
    BY <1>1, <2>7, UnseenSteps
  <2>8. CASE SkipBlock
    BY <1>1, <2>2, <2>8, SkipIsSkip DEF Image!Next
  <2>9. CASE Copy
    BY <1>1, <2>2, <2>3, <2>9, CopyIsDeliver DEF Image!Next
  <2>10. CASE LoopDone \/ LoopExceeds \/ DataFailed
    BY <1>1, <2>2, <2>10, ReturnIsFinish DEF Image!Next
  <2>11. CASE /\ AnyStep /\ ~AnyCall /\ ~CallReadPage0 /\ ~LoadInit /\ ~InitDie
              /\ ~InitDone /\ ~LoopDone /\ ~LoopExceeds /\ ~DataFailed
              /\ ~SkipBlock /\ ~Copy /\ ~Page0Ready /\ ~ChipReady
    BY <1>1, <2>4, <2>11, WorkingSteps DEF Image!Next
  <2> QED BY <2>5, <2>6, <2>7, <2>8, <2>9, <2>10, <2>11
<1> QED BY <1>2, <1>3

(* The driver implements ImageLoad: blocks are left out whole, before any  *)
(* byte of them is used, -EIO is returned only when the image does not fit *)
(* in what is left, and 0 only when all of it has arrived.                 *)
THEOREM LoadIsAsPromised == Spec => LoadsAsPromised
<1>1. Init => Image!Init
  <2> SUFFICES ASSUME Init PROVE Image!Init
    OBVIOUS
  <2>1. Loading = FALSE
    BY DEF Init, Loading
  <2> QED BY <2>1 DEF Init, Image!Init
<1>2. ImageInv /\ [Next]_vars => [Image!Next]_(Image!vars)
  BY StepIsImageStep, StepIsAny
<1> QED BY <1>1, <1>2, ImageInvHolds, PTL DEF Spec, LoadsAsPromised, Image!Spec

-----------------------------------------------------------------------------
(* Stage2Main: what stage 3 is entered with.  The invariants above hold of  *)
(* every step main takes; what is added here follows main's statements.    *)

LEMMA HeaderIsNat ==
  ASSUME MTypeOK
  PROVE  /\ stage3_offset \in Nat /\ hdr.size \in Nat /\ HeaderLength \in Nat
         /\ HdrSize \in Nat /\ HdrSize > 0 /\ PayloadAddress \in Nat
<1>1. stage3_offset \in Nat /\ hdr.size \in Nat
  BY HeaderAssumption DEF MTypeOK
<1>2. HdrSize \in Nat /\ HdrSize > 0 /\ HeaderLength \in Nat
  BY HeaderAssumption DEF HeaderLength
<1> QED BY <1>1, <1>2 DEF PayloadAddress

(* A step of main is one of the driver's, or leaves it alone. *)
LEMMA MainStep == MTypeOK /\ [MNext]_allvars => [AnyStep]_vars
<1> SUFFICES ASSUME MTypeOK, [MNext]_allvars PROVE [AnyStep]_vars
  OBVIOUS
<1>1. CASE LoadHeader
  BY <1>1, HeaderIsNat DEF LoadHeader, AnyStep, AnyCall
<1>2. CASE LoadPayload
  BY <1>2, HeaderIsNat DEF LoadPayload, AnyStep, AnyCall
<1>3. CASE RestorePage0
  BY <1>3 DEF RestorePage0, AnyStep
<1>4. CASE DriverRuns \/ ChipRuns
  BY <1>4 DEF DriverRuns, ChipRuns, AnyStep
<1>5. CASE ReadHeader \/ RejectHeader \/ CheckPayload \/ Unpack \/ EnterStage3
  BY <1>5 DEF ReadHeader, RejectHeader, CheckPayload, Unpack, EnterStage3
<1>6. CASE UNCHANGED allvars
  BY <1>6 DEF allvars
<1> QED BY <1>1, <1>2, <1>3, <1>4, <1>5, <1>6 DEF MNext, Main

LEMMA MTypeStep == MTypeOK /\ [MNext]_allvars => MTypeOK'
<1> SUFFICES ASSUME MTypeOK, [MNext]_allvars PROVE MTypeOK'
  OBVIOUS
<1> USE DEF MTypeOK, mainvars, allvars
<1>1. TypeOK'
  BY MainStep, TypeStep
<1>2. CASE LoadHeader \/ LoadPayload \/ RestorePage0 \/ RejectHeader
           \/ CheckPayload \/ Unpack \/ EnterStage3
  BY <1>1, <1>2 DEF LoadHeader, LoadPayload, RestorePage0, RejectHeader,
       CheckPayload, Unpack, EnterStage3
<1>3. CASE ReadHeader
  BY <1>1, <1>3, HeaderAssumption DEF ReadHeader
<1>4. CASE DriverRuns
  BY <1>1, <1>4 DEF DriverRuns
<1>5. CASE ChipRuns \/ UNCHANGED allvars
  BY <1>1, <1>5 DEF ChipRuns
<1> QED BY <1>2, <1>3, <1>4, <1>5 DEF MNext, Main

-----------------------------------------------------------------------------
(* The invariant.                                                          *)

(* A load that has returned without an error has copied everything, an     *)
(* uncorrectable page is no result of it, and without a chip it copies     *)
(* nothing.                                                                *)
Returned ==
  /\ pc \in {"start", "init"} /\ site = "none" => ret = "OK" /\ size = 0
  /\ pc \in {"idle", "page0"} => ret # "EBADMSG" /\ (ret = "OK" => size = 0)
  /\ ~spi_nand_chip => ptr = 0 /\ pc # "copy"

(* Where the driver can be at each statement of main. *)
Waits ==
  /\ stage = "init" => pc \in {"start", "init", "idle"} /\ site = "none"
  /\ stage \in {"header", "payload"} => pc \notin {"start", "page0"}
  /\ stage \in {"header_loaded", "payload_loaded"} => pc \in {"idle", "page0"}
  /\ stage \in {"dispatch", "unpack", "enter", "stage3", "halt"} => pc = "idle"

(* Which call of the driver is the last one, and what is known of it. *)
Called ==
  /\ stage \in {"header", "header_loaded"} => addr = stage3_offset /\ want = HdrSize
  /\ stage = "dispatch" => spi_nand_chip
  /\ stage \in {"payload", "payload_loaded", "unpack", "enter", "stage3"}
       => spi_nand_chip /\ Accepted /\ addr = PayloadAddress /\ want = hdr.size
  /\ stage \in {"unpack", "enter", "stage3"} => size = 0

(* Page 0 is asked for behind every load, of a chip that listens. *)
Restored ==
  stage \in {"header_loaded", "dispatch", "payload_loaded", "unpack", "enter",
             "stage3", "halt"}
    => /\ chip_pa = chip_die * PagesPerDie
       /\ ~chip_busy => chip_reg[<<chip_die, 0>>] = chip_pa

MInv == /\ MTypeOK /\ ImageInv /\ Returned /\ Waits /\ Called
        /\ ~page0_hung => Restored

LEMMA MInvInit == MInit => MInv
<1> SUFFICES ASSUME MInit PROVE MInv
  OBVIOUS
<1>1. Init
  BY DEF MInit
<1>2. ImageInv /\ TypeOK
  BY <1>1, IInvInit, LoadedInit, TypeInit DEF ImageInv
<1>3. MTypeOK
  BY <1>2, HeaderAssumption DEF MInit, MTypeOK
<1>4. Returned
  BY <1>1 DEF Init, Returned
<1>5. Waits /\ Called /\ Restored
  BY <1>1 DEF MInit, Init, Waits, Called, Restored
<1> QED BY <1>2, <1>3, <1>4, <1>5 DEF MInv

LEMMA ReturnedStep ==
  ASSUME TypeOK, Control, Returned, [AnyStep]_vars
  PROVE  Returned'
<1> USE DEF Returned, Control, Asked, call, load, globals, chip, flash
<1>1. CASE AnyCall
  BY <1>1 DEF AnyCall, Call
<1>2. CASE CallReadPage0 \/ Page0Ready \/ Page0Timeout \/ ChipReady
  BY <1>2 DEF CallReadPage0, Page0Ready, Page0Timeout, ChipReady
<1>3. CASE LoadInit
  BY <1>3 DEF LoadInit
<1>4. CASE InitDie \/ InitDone
  BY <1>4 DEF InitDie, InitDone
<1>5. CASE ReadPage \/ ReadPageToCache \/ PollReady \/ PollTimeout
  BY <1>5 DEF ReadPage, ReadPageToCache, PollReady, PollTimeout
<1>6. CASE Reset \/ GetEccStatus \/ ReadPageCache
  BY <1>6 DEF Reset, GetEccStatus, ReadPageCache
<1>7. CASE LoopDone \/ LoopExceeds \/ LoopRead
  BY <1>7 DEF LoopDone, LoopExceeds, LoopRead, Return
<1>8. CASE SkipBlock \/ BlockIsGood \/ DataRead \/ DataFailed
  BY <1>8 DEF SkipBlock, BlockIsGood, DataRead, DataFailed, Return
<1>9. CASE Copy
  <2>1. /\ spi_nand_chip /\ UNCHANGED spi_nand_chip /\ pc' = "loop"
    BY <1>9 DEF Copy
  <2> QED BY <2>1
<1>10. CASE UNCHANGED vars
  BY <1>10 DEF vars
<1> QED BY <1>1, <1>2, <1>3, <1>4, <1>5, <1>6, <1>7, <1>8, <1>9, <1>10
        DEF AnyStep, Driver

(* What main can tell of a step of the driver. *)
LEMMA DriverSteps ==
  ASSUME Driver
  PROVE  /\ pc # "idle" /\ pc' \notin {"start", "page0"}
         /\ pc = "page0" => pc' = "idle"
         /\ pc \in {"start", "init"} /\ site = "none"
              => pc' \in {"init", "idle"} /\ site' = "none"
         /\ pc # "start" => UNCHANGED spi_nand_chip
         /\ UNCHANGED <<addr, want>>
<1> USE DEF call, load, globals
<1>1. CASE LoadInit \/ InitDie \/ InitDone \/ ReadPage \/ ReadPageToCache
  BY <1>1 DEF LoadInit, InitDie, InitDone, ReadPage, ReadPageToCache
<1>2. CASE PollReady \/ PollTimeout \/ Reset \/ GetEccStatus \/ ReadPageCache
  BY <1>2 DEF PollReady, PollTimeout, Reset, GetEccStatus, ReadPageCache
<1>3. CASE LoopDone \/ LoopExceeds \/ LoopRead \/ SkipBlock \/ BlockIsGood
  BY <1>3 DEF LoopDone, LoopExceeds, LoopRead, SkipBlock, BlockIsGood, Return
<1>4. CASE DataRead \/ DataFailed \/ Copy \/ Page0Ready \/ Page0Timeout
  BY <1>4 DEF DataRead, DataFailed, Copy, Page0Ready, Page0Timeout, Return
<1> QED BY <1>1, <1>2, <1>3, <1>4 DEF Driver

LEMMA WaitsStep ==
  ASSUME MTypeOK, Waits, [MNext]_allvars
  PROVE  Waits'
<1> USE DEF Waits
<1>1. CASE LoadHeader \/ LoadPayload
  BY <1>1 DEF LoadHeader, LoadPayload, Call
<1>2. CASE RestorePage0
  BY <1>2 DEF RestorePage0, CallReadPage0
<1>3. CASE ReadHeader \/ RejectHeader \/ CheckPayload \/ Unpack \/ EnterStage3
  BY <1>3 DEF ReadHeader, RejectHeader, CheckPayload, Unpack, EnterStage3, vars
<1>4. CASE DriverRuns
  BY <1>4, DriverSteps DEF DriverRuns
<1>5. CASE ChipRuns \/ UNCHANGED allvars
  BY <1>5 DEF ChipRuns, ChipReady, mainvars, allvars, vars
<1> QED BY <1>1, <1>2, <1>3, <1>4, <1>5 DEF MNext, Main

LEMMA CalledStep ==
  ASSUME MTypeOK, Control, Returned, Waits, Called, [MNext]_allvars
  PROVE  Called'
<1> USE DEF Called
<1>1. CASE LoadHeader
  BY <1>1 DEF LoadHeader, Call
<1>2. CASE LoadPayload
  <2>1. /\ stage = "dispatch" /\ stage' = "payload" /\ Accepted
        /\ addr' = PayloadAddress /\ want' = hdr.size
        /\ UNCHANGED <<stage3_offset, hdr, spi_nand_chip>>
    BY <1>2 DEF LoadPayload, Call, globals
  <2> QED BY <2>1 DEF Accepted, PayloadAddress, HeaderLength
<1>3. CASE RestorePage0
  BY <1>3 DEF RestorePage0, CallReadPage0, call, load, globals, Accepted,
       PayloadAddress, HeaderLength
<1>4. CASE ReadHeader
  <2>1. /\ stage = "header_loaded" /\ pc = "idle" /\ UNCHANGED <<vars, stage3_offset>>
        /\ stage' = "halt" \/ (stage' = "dispatch" /\ ret \in {"OK", "EBADMSG"})
    BY <1>4 DEF ReadHeader, Failed
  <2>2. CASE stage' = "dispatch"
    <3>1. size = 0 /\ want = HdrSize /\ ptr + size = want
      BY <2>1, <2>2 DEF Returned, MTypeOK, TypeOK
    <3>3. ptr \in Nat /\ HdrSize \in Nat /\ HdrSize > 0
      BY HeaderIsNat DEF MTypeOK, TypeOK
    <3>4. ptr # 0
      BY <3>1, <3>3
    <3>2. spi_nand_chip
      BY <3>4 DEF Returned
    <3> QED BY <2>1, <2>2, <3>2 DEF vars, globals
  <2> QED BY <2>1, <2>2
<1>5. CASE CheckPayload
  <2>1. /\ stage = "payload_loaded" /\ pc = "idle"
        /\ UNCHANGED <<vars, stage3_offset, hdr>>
        /\ \/ stage' = "halt"
           \/ stage' \in {"enter", "unpack"} /\ ret \in {"OK", "EBADMSG"}
    BY <1>5 DEF CheckPayload, Failed
  <2> QED BY <2>1 DEF Returned, vars, call, load, globals, Accepted,
       PayloadAddress, HeaderLength
<1>6. CASE RejectHeader \/ Unpack \/ EnterStage3
  BY <1>6 DEF RejectHeader, Unpack, EnterStage3, vars, call, load, globals,
       Accepted, PayloadAddress, HeaderLength
<1>7. CASE DriverRuns
  <2>1. /\ pc # "idle" /\ UNCHANGED <<addr, want, stage, stage3_offset, hdr>>
        /\ pc # "start" => UNCHANGED spi_nand_chip
    BY <1>7, DriverSteps DEF DriverRuns
  <2>2. Accepted' = Accepted /\ PayloadAddress' = PayloadAddress
    BY <2>1 DEF Accepted, PayloadAddress, HeaderLength
  <2>3. CASE stage \in {"header", "header_loaded"}
    BY <2>1, <2>3
  <2>4. CASE stage \in {"payload", "payload_loaded"}
    <3>1. UNCHANGED spi_nand_chip
      BY <2>1, <2>4 DEF Waits
    <3> QED BY <2>1, <2>2, <2>4, <3>1
  <2>5. CASE stage \in {"dispatch", "unpack", "enter", "stage3"}
    BY <2>1, <2>5 DEF Waits
  <2>6. CASE stage \in {"init", "halt"}
    BY <2>1, <2>6
  <2> QED BY <2>3, <2>4, <2>5, <2>6 DEF MTypeOK
<1>8. CASE ChipRuns \/ UNCHANGED allvars
  BY <1>8 DEF ChipRuns, ChipReady, mainvars, allvars, vars, call, load, globals,
       Accepted, PayloadAddress, HeaderLength
<1> QED BY <1>1, <1>2, <1>3, <1>4, <1>5, <1>6, <1>7, <1>8 DEF MNext, Main

(* Page 0 of a die lies in its first register. *)
LEMMA RegisterOfPage0 ==
  ASSUME NEW d \in Dies
  PROVE  RegisterOf(d * PagesPerDie) = <<d, 0>>
<1> DEFINE n == PagesPerDie
<1>1. n \in Nat \ {0} /\ d \in Nat
  BY Geometry DEF Dies
<1>2. d * n = n * d
  BY <1>1
<1>3. (d * n) \div n = d /\ (d * n) % n = 0
  <2> HIDE DEF n
  <2> QED BY <1>1, <1>2, Multiple
<1>4. (0 \div PagesPerBlock) % Planes = 0
  BY GeometryAssumption
<1> HIDE DEF n
<1> QED BY <1>3, <1>4 DEF RegisterOf, n

LEMMA RestoredStep ==
  ASSUME MTypeOK, Listening, Waits, Restored, [MNext]_allvars
  PROVE  Restored'
<1> USE DEF Restored
<1>1. CASE LoadHeader \/ LoadPayload
  BY <1>1 DEF LoadHeader, LoadPayload
<1>2. CASE RestorePage0
  <2>1. PageRead(0) /\ ~chip_busy
    BY <1>2 DEF RestorePage0, CallReadPage0, Listening, MTypeOK, TypeOK
  <2>2. /\ chip_busy' /\ chip_pa' = chip_die * PagesPerDie + 0
        /\ chip_die' = chip_die
    BY <2>1 DEF PageRead
  <2>3. chip_die * PagesPerDie + 0 = chip_die * PagesPerDie
    <3> DEFINE n == PagesPerDie
    <3>1. n \in Nat /\ chip_die \in Nat
      BY Geometry DEF MTypeOK, TypeOK, Dies
    <3> HIDE DEF n
    <3>2. chip_die * n \in Nat
      BY <3>1
    <3>3. chip_die * n + 0 = chip_die * n
      BY <3>2
    <3> QED BY <3>3 DEF n
  <2>4. chip_pa' = chip_die' * PagesPerDie
    BY <2>2, <2>3
  <2> QED BY <2>2, <2>4
<1>3. CASE ReadHeader \/ RejectHeader \/ CheckPayload \/ Unpack \/ EnterStage3
  BY <1>3 DEF ReadHeader, RejectHeader, CheckPayload, Unpack, EnterStage3, vars,
       chip
<1>4. CASE DriverRuns
  <2>1. CASE stage \in {"header_loaded", "payload_loaded"}
    <3>1. pc = "page0" /\ Driver
      BY <1>4, <2>1, DriverSteps DEF DriverRuns, Waits
    <3>2. Page0Ready \/ Page0Timeout
      BY <3>1 DEF Driver, LoadInit, InitDie, InitDone, ReadPage,
           ReadPageToCache, PollReady, PollTimeout, Reset, GetEccStatus,
           ReadPageCache, LoopDone, LoopExceeds, LoopRead, SkipBlock,
           BlockIsGood, DataRead, DataFailed, Copy
    <3>3. UNCHANGED chip
      BY <3>2 DEF Page0Ready, Page0Timeout
    <3> QED BY <2>1, <3>3 DEF chip
  <2>2. CASE stage \notin {"header_loaded", "payload_loaded"}
    BY <1>4, <2>2, DriverSteps DEF DriverRuns, Waits
  <2> QED BY <2>1, <2>2
<1>5. CASE ChipRuns
  <2>1. /\ stage' = stage /\ UNCHANGED <<chip_die, chip_pa>>
        /\ chip_reg' = [chip_reg EXCEPT ![RegisterOf(chip_pa)] = chip_pa]
    BY <1>5 DEF ChipRuns, ChipReady, mainvars
  <2>4. chip_die \in Dies /\ DOMAIN chip_reg = Registers
    BY DEF MTypeOK, TypeOK
  <2>5. 0 \in 0 .. Planes - 1
    BY GeometryAssumption
  <2>2. /\ chip_die \in Dies /\ <<chip_die, 0>> \in Registers
        /\ DOMAIN chip_reg = Registers
    BY <2>4, <2>5 DEF Registers
  <2>3. chip_pa = chip_die * PagesPerDie => RegisterOf(chip_pa) = <<chip_die, 0>>
    BY <2>2, RegisterOfPage0
  <2> QED BY <2>1, <2>2, <2>3
<1>6. CASE UNCHANGED allvars
  BY <1>6 DEF mainvars, allvars, vars, chip
<1> QED BY <1>1, <1>2, <1>3, <1>4, <1>5, <1>6 DEF MNext, Main

LEMMA MInvStep == MInv /\ [MNext]_allvars => MInv'
<1> SUFFICES ASSUME MInv, [MNext]_allvars PROVE MInv'
  OBVIOUS
<1>1. /\ MTypeOK /\ ImageInv /\ IInv /\ TypeOK /\ Control
      /\ Returned /\ Waits /\ Called
  BY DEF MInv, ImageInv, IInv
<1>2. [AnyStep]_vars
  BY <1>1, MainStep
<1>3. MTypeOK'
  BY <1>1, MTypeStep
<1>4. ImageInv'
  BY <1>1, <1>2, ImageStep
<1>5. Returned' /\ Waits' /\ Called'
  BY <1>1, <1>2, ReturnedStep, WaitsStep, CalledStep
<1>6. ASSUME ~page0_hung' PROVE Restored'
  <2>1. ~page0_hung
    BY <1>1, <1>2, <1>6, HungStays
  <2>2. Listening /\ Restored
    BY <1>1, <2>1 DEF MInv, IInv, Healthy
  <2> QED BY <1>1, <2>2, RestoredStep
<1> QED BY <1>3, <1>4, <1>5, <1>6 DEF MInv

(* The driver's invariants hold for the calls of main, and main's own.     *)
THEOREM MainInvHolds == MSpec => []MInv
<1>1. MInit => MInv
  BY MInvInit
<1>2. MInv /\ [MNext]_allvars => MInv'
  BY MInvStep
<1> QED BY <1>1, <1>2, PTL DEF MSpec

(* main's variables keep their types through all its calls of the driver,  *)
(* whatever the chip and the flash answer.                                 *)
THEOREM MainTypes == MSpec => []MTypeOK
<1>1. MInv => MTypeOK
  BY DEF MInv
<1> QED BY <1>1, MainInvHolds, PTL

(* stage2_main enters stage 3 only with all the bytes that an accepted     *)
(* header announces, read from a chip it knows.                            *)
THEOREM WholePayloadIsEntered == MSpec => []EntersWithWholePayload
<1>1. MInv => EntersWithWholePayload
  BY DEF MInv, MTypeOK, TypeOK, Called, EntersWithWholePayload
<1> QED BY <1>1, MainInvHolds, PTL

(* stage2_main leaves page 0 in the page register of an idle chip, where   *)
(* the boot ROM will look for it after a reset.                            *)
THEOREM Page0IsRestored == MSpec => []Page0IsBack
<1>1. MInv => Page0IsBack
  BY DEF MInv, ImageInv, IInv, Healthy, Listening, Waits, Restored, Page0IsBack,
       MTypeOK, TypeOK
<1> QED BY <1>1, MainInvHolds, PTL

-----------------------------------------------------------------------------
(* Which blocks a load leaves out.                                         *)

(* The block at off has passed its check. *)
Passed ==
  \/ pc \in Reading /\ site = "data"
  \/ pc = "loop" /\ ~NeedsCheck(off)
  \/ pc = "copy"

FirstPageRead == Passed => FirstPage(BlockOf(off)) \notin uncorr

(* The unusable blocks, and no others, are left out of what has been read. *)
LeftOut ==
  /\ skipped \subseteq Unusable
  /\ \A b \in BlockOf(addr) .. BlockOf(off) - 1 : b \in Unusable => b \in skipped
  /\ \A i \in 0 .. ptr - 1 : FirstPage(BlockOf(buff[i])) \notin uncorr

TimeoutIsNoted == ret = "ETIMEDOUT" => timed_out

FollowInv ==
  MInv /\ TimeoutIsNoted
  /\ (~page0_hung /\ ~timed_out => FirstPageRead /\ LeftOut)

LEMMA FlashStays == [AnyStep]_vars => UNCHANGED <<marked, uncorr, Unusable>>
<1> SUFFICES ASSUME [AnyStep]_vars PROVE UNCHANGED <<marked, uncorr, Unusable>>
  OBVIOUS
<1>1. UNCHANGED <<marked, uncorr>>
  BY DEF AnyStep, Driver, AnyCall, Call, CallReadPage0, LoadInit, InitDie,
       InitDone, ReadPage, ReadPageToCache, PollReady, PollTimeout, Reset,
       GetEccStatus, ReadPageCache, LoopDone, LoopExceeds, LoopRead, SkipBlock,
       BlockIsGood, DataRead, DataFailed, Copy, Page0Ready, Page0Timeout,
       ChipReady, vars, flash
<1> QED BY <1>1 DEF Unusable, FirstPage

(* Where a copy ends: in the block it was made from or at the next one.    *)
LEMMA CopyMoves ==
  ASSUME TypeOK, Underway, Copy
  PROVE  /\ off' = off + Chunk(off) /\ off' \in Nat /\ pc' = "loop"
         /\ UNCHANGED <<addr, skipped>>
         /\ \/ BlockOf(off') = BlockOf(off)
            \/ BlockOf(off') = BlockOf(off) + 1 /\ NeedsCheck(off)'
<1> DEFINE n == Chunk(off)  e == EraseSize
<1>1. /\ off \in Nat /\ off' = off + n /\ pc' = "loop" /\ UNCHANGED <<addr, skipped>>
  BY DEF Copy, TypeOK, call
<1>2. n \in Nat /\ n <= WriteSize - (off % WriteSize)
  BY GeometryAssumption DEF Chunk, TypeOK
<1> HIDE DEF n
<1>3. (off % e) + n <= e /\ e \in Nat \ {0} /\ off % e \in 0 .. e - 1
  BY <1>1, <1>2, ChunkFits, Blockwise
<1>4. CASE (off % e) + n < e
  BY <1>1, <1>2, <1>4, SameBlock DEF n
<1>5. CASE (off % e) + n = e
  <2>1. BlockOf(off + n) = BlockOf(off) + 1 /\ (off + n) % e = 0
    BY <1>1, <1>2, <1>5, BlockBehind
  <2>2. NeedsCheck(off)'
    BY <1>1, <2>1 DEF NeedsCheck
  <2> QED BY <1>1, <1>2, <2>1, <2>2 DEF n
<1>6. (off % e) + n < e \/ (off % e) + n = e
  <2> HIDE DEF e
  <2> QED BY <1>2, <1>3
<1> QED BY <1>4, <1>5, <1>6

LEMMA FirstPageStep ==
  ASSUME TypeOK, Control, Requested, Checked, Underway, FirstPageRead,
         [AnyStep]_vars, ret # "ETIMEDOUT"
  PROVE  FirstPageRead'
<1> USE DEF FirstPageRead, Passed, Reading, Asked, call, load, globals
<1>1. UNCHANGED uncorr
  BY FlashStays
<1>2. CASE AnyCall \/ SkipBlock
  <2>1. pc' = "loop" /\ check_bad' = TRUE
    BY <1>2 DEF AnyCall, Call, SkipBlock
  <2> QED BY <2>1 DEF NeedsCheck
<1>3. CASE CallReadPage0 \/ Page0Ready \/ Page0Timeout \/ LoadInit
  BY <1>3 DEF CallReadPage0, Page0Ready, Page0Timeout, LoadInit
<1>4. CASE InitDie \/ InitDone \/ Reset \/ PollTimeout
  BY <1>4 DEF InitDie, InitDone, Reset, PollTimeout, Control
<1>5. CASE ReadPage \/ ReadPageToCache \/ PollReady \/ GetEccStatus
           \/ ReadPageCache
  <2>1. UNCHANGED <<off, site>> /\ pc \in Reading
    BY <1>5 DEF ReadPage, ReadPageToCache, PollReady, GetEccStatus, ReadPageCache
  <2>2. pc' \in Reading
    BY <1>5 DEF ReadPage, ReadPageToCache, PollReady, GetEccStatus, ReadPageCache
  <2> QED BY <1>1, <2>1, <2>2 DEF BlockOf
<1>6. CASE LoopDone \/ LoopExceeds \/ DataFailed
  BY <1>6 DEF LoopDone, LoopExceeds, DataFailed, Return
<1>7. CASE LoopRead
  <2>1. UNCHANGED off /\ pc' = "read" /\ (site' = "data" => ~NeedsCheck(off))
    BY <1>7 DEF LoopRead
  <2> QED BY <1>1, <1>7, <2>1 DEF LoopRead, BlockOf
<1>8. CASE BlockIsGood
  <2>1. FirstPage(BlockOf(off)) \notin uncorr
    BY <1>8, CheckIsSound DEF BlockIsGood
  <2>2. UNCHANGED off
    BY <1>8 DEF BlockIsGood
  <2> QED BY <1>1, <2>1, <2>2 DEF BlockOf
<1>9. CASE DataRead
  <2>1. UNCHANGED off /\ pc = "return" /\ site = "data"
    BY <1>9 DEF DataRead
  <2> QED BY <1>1, <2>1 DEF BlockOf
<1>10. CASE Copy
  <2>1. FirstPage(BlockOf(off)) \notin uncorr
    BY <1>10 DEF Copy
  <2>2. /\ pc' = "loop"
        /\ BlockOf(off') = BlockOf(off) \/ NeedsCheck(off)'
    BY <1>10, CopyMoves
  <2> QED BY <1>1, <2>1, <2>2 DEF BlockOf
<1>11. CASE ChipReady \/ UNCHANGED vars
  <2>1. UNCHANGED <<off, pc, site, check_bad>>
    BY <1>11 DEF ChipReady, vars
  <2> QED BY <1>1, <2>1 DEF BlockOf, NeedsCheck
<1> QED BY <1>2, <1>3, <1>4, <1>5, <1>6, <1>7, <1>8, <1>9, <1>10, <1>11
        DEF AnyStep, Driver

(* Without a timeout a block is skipped because it is unusable.            *)
LEMMA SkippedIsUnusable ==
  ASSUME TypeOK, Requested, Checked, SkipBlock, ret # "ETIMEDOUT"
  PROVE  BlockOf(off) \in Unusable
<1>1. pc = "return" /\ site = "check" /\ (ret # "OK" \/ MarkerIn(page_cache))
  BY DEF SkipBlock
<1>7. off \in Nat /\ off < chipsize /\ curr_addr = BlockBase(off)
  BY <1>1 DEF Checked, Reading, TypeOK
<1>2. /\ off \in Nat /\ curr_addr = BlockBase(off) /\ off < FlashSize
  BY <1>7, Geometry DEF chipsize
<1>3. BlockOf(off) \in Blocks /\ BlockOf(off) \in Nat
  BY <1>2, BlockOfChip, BlockIsNat
<1>4. /\ page_cache = FirstPage(BlockOf(off))
      /\ ret = IF page_cache \in uncorr THEN "EBADMSG" ELSE "OK"
  <2>1. PageOf(BlockBase(off)) = FirstPage(BlockOf(off))
    BY <1>2, Bases
  <2>2. /\ page_cache = PageOf(curr_addr)
        /\ ret = IF page_cache \in uncorr THEN "EBADMSG" ELSE "OK"
    BY <1>1 DEF Requested
  <2> QED BY <1>2, <2>1, <2>2
<1>5. CASE ret # "OK"
  BY <1>3, <1>4, <1>5 DEF Unusable
<1>6. CASE MarkerIn(page_cache)
  <2>1. PICK m \in marked : FirstPage(BlockOf(off)) = FirstPage(m)
    BY <1>4, <1>6 DEF MarkerIn
  <2>2. m \in Nat
    BY <2>1, GeometryAssumption DEF TypeOK, Blocks
  <2>3. BlockOf(off) = m
    BY <1>3, <2>1, <2>2, FirstPageOfOne
  <2> QED BY <1>3, <2>1, <2>3 DEF Unusable
<1> QED BY <1>1, <1>5, <1>6

(* Ranges of indices. *)
LEMMA ShorterRange ==
  ASSUME NEW q \in Nat, NEW w \in Nat, q <= w, NEW i \in 0 .. q - 1
  PROVE  i \in 0 .. w - 1
OBVIOUS

LEMMA RangeBefore ==
  ASSUME NEW p \in Nat, NEW q \in Nat, p < q, NEW i \in 0 .. q - 1,
         i \notin p .. q - 1
  PROVE  i \in 0 .. p - 1
OBVIOUS

LEMMA LeftOutStep ==
  ASSUME ImageInv, Healthy, Loaded, FirstPageRead, LeftOut, [AnyStep]_vars,
         ret # "ETIMEDOUT"
  PROVE  LeftOut'
<1>1. /\ TypeOK /\ Requested /\ Checked /\ Located /\ Arrived /\ Waiting
      /\ Underway /\ TypeOK'
  BY ImageStep DEF ImageInv, IInv, Healthy, Loaded
<1>2. UNCHANGED <<marked, uncorr, Unusable>>
  BY FlashStays
<1>3. /\ off \in Nat /\ addr \in Nat /\ ptr \in Nat
      /\ BlockOf(off) \in Nat /\ BlockOf(addr) \in Nat
  BY <1>1, BlockIsNat DEF TypeOK
<1>4. CASE AnyCall
  <2>1. PICK a \in Nat, n \in Nat : Call(a, n)
    BY <1>4 DEF AnyCall
  <2>2. addr' = a /\ off' = a /\ ptr' = 0 /\ skipped' = {} /\ BlockOf(a) \in Nat
    BY <2>1, BlockIsNat DEF Call
  <2>3. /\ BlockOf(addr)' = BlockOf(a) /\ BlockOf(off)' = BlockOf(a)
    BY <2>2 DEF BlockOf
  <2>4. (BlockOf(addr) .. BlockOf(off) - 1)' = {}
    BY <2>2, <2>3
  <2>5. (0 .. ptr - 1)' = {}
    BY <2>2
  <2> QED BY <2>2, <2>4, <2>5 DEF LeftOut
<1>5. CASE SkipBlock
  <2>1. /\ off' = SkipTo(off) /\ skipped' = skipped \cup {BlockOf(off)}
        /\ UNCHANGED <<addr, ptr, buff>>
    BY <1>5 DEF SkipBlock, call
  <2>2. BlockOf(off)' = BlockOf(off) + 1 /\ BlockOf(addr)' = BlockOf(addr)
    <3>1. BlockOf(SkipTo(off)) = BlockOf(off) + 1
      BY <1>3, SkipToIsNext
    <3> QED BY <2>1, <3>1 DEF BlockOf
  <2>3. BlockOf(off) \in Unusable
    BY <1>1, <1>5, SkippedIsUnusable
  <2>4. (skipped \subseteq Unusable)'
    BY <1>2, <2>1, <2>3 DEF LeftOut
  <2>5. ASSUME NEW b \in BlockOf(addr) .. BlockOf(off), b \in Unusable
        PROVE  b \in skipped'
    <3>1. b = BlockOf(off) \/ b \in BlockOf(addr) .. BlockOf(off) - 1
      BY <1>3
    <3> QED BY <2>1, <2>5, <3>1 DEF LeftOut
  <2>6. BlockOf(off)' - 1 = BlockOf(off)
    BY <1>3, <2>2
  <2>7. (\A i \in 0 .. ptr - 1 : FirstPage(BlockOf(buff[i])) \notin uncorr)'
    BY <1>2, <2>1 DEF LeftOut, FirstPage, BlockOf
  <2>8. (\A b \in BlockOf(addr) .. BlockOf(off) - 1 : b \in Unusable => b \in skipped)'
    <3>1. (BlockOf(addr) .. BlockOf(off) - 1)' = BlockOf(addr) .. BlockOf(off)
      BY <2>2, <2>6, Zenon
    <3> SUFFICES ASSUME NEW b \in BlockOf(addr) .. BlockOf(off), b \in Unusable
                 PROVE  b \in skipped'
      BY <1>2, <3>1
    <3> QED BY <2>5
  <2> QED BY <2>4, <2>7, <2>8 DEF LeftOut
<1>6. CASE Copy
  <2>1. /\ ptr < ptr' /\ ptr' <= want
        /\ \A i \in ptr .. ptr' - 1 : BlockOf(buff'[i]) = BlockOf(off)
        /\ \A i \in 0 .. want - 1 : i \notin ptr .. ptr' - 1 => buff'[i] = buff[i]
    BY <1>1, <1>6, CopyStep
  <2>2. /\ UNCHANGED <<addr, skipped>>
        /\ BlockOf(off') = BlockOf(off) \/ BlockOf(off') = BlockOf(off) + 1
    BY <1>1, <1>6, CopyMoves
  <2>3. FirstPage(BlockOf(off)) \notin uncorr /\ BlockOf(off) \notin Unusable
    BY <1>1, <1>6 DEF Copy, FirstPageRead, Passed, Checked, Unusable
  <2>4. BlockOf(addr)' = BlockOf(addr) /\ BlockOf(off)' = BlockOf(off')
    BY <2>2 DEF BlockOf
  <2>5. ASSUME NEW b \in BlockOf(addr) .. BlockOf(off') - 1, b \in Unusable
        PROVE  b \in skipped
    <3>1. b = BlockOf(off) \/ b \in BlockOf(addr) .. BlockOf(off) - 1
      BY <1>3, <2>2
    <3> QED BY <2>3, <2>5, <3>1 DEF LeftOut
  <2> PICK q \in Nat : q = ptr'
    BY <1>1 DEF TypeOK
  <2>10. want \in Nat /\ q <= want /\ ptr < q
    BY <1>1, <2>1 DEF TypeOK
  <2>6. ASSUME NEW i \in 0 .. q - 1
        PROVE  FirstPage(BlockOf(buff'[i])) \notin uncorr
    <3>1. i \in 0 .. want - 1
      BY <2>10, ShorterRange
    <3>2. CASE i \in ptr .. q - 1
      BY <2>1, <2>3, <3>2
    <3>3. CASE i \notin ptr .. q - 1
      <4>1. i \in 0 .. ptr - 1
        BY <1>3, <2>10, <3>3, RangeBefore
      <4>2. buff'[i] = buff[i]
        BY <2>1, <3>1, <3>3
      <4> QED BY <4>1, <4>2 DEF LeftOut
    <3> QED BY <3>2, <3>3
  <2>7. (\A i \in 0 .. ptr - 1 : FirstPage(BlockOf(buff[i])) \notin uncorr)'
    BY <1>2, <2>6 DEF FirstPage, BlockOf
  <2>8. (\A b \in BlockOf(addr) .. BlockOf(off) - 1 : b \in Unusable => b \in skipped)'
    BY <1>2, <2>2, <2>4, <2>5
  <2>9. (skipped \subseteq Unusable)'
    BY <1>2, <2>2 DEF LeftOut
  <2> QED BY <2>7, <2>8, <2>9 DEF LeftOut
<1>7. CASE ~AnyCall /\ ~SkipBlock /\ ~Copy
  <2>1. UNCHANGED <<off, ptr, addr, buff, skipped>>
    BY <1>7, Elsewhere
  <2> QED BY <1>2, <2>1 DEF LeftOut, FirstPage, BlockOf
<1> QED BY <1>4, <1>5, <1>6, <1>7

LEMMA TimeoutStep ==
  ASSUME TypeOK, TimeoutIsNoted, [MNext]_allvars
  PROVE  TimeoutIsNoted' /\ (timed_out \in BOOLEAN /\ timed_out => timed_out')
<1> USE DEF TimeoutIsNoted
<1>1. CASE LoadHeader \/ LoadPayload
  BY <1>1 DEF LoadHeader, LoadPayload, Call
<1>2. CASE RestorePage0
  BY <1>2 DEF RestorePage0, CallReadPage0
<1>3. CASE ReadHeader \/ RejectHeader \/ CheckPayload \/ Unpack \/ EnterStage3
  BY <1>3 DEF ReadHeader, RejectHeader, CheckPayload, Unpack, EnterStage3, vars
<1>4. CASE DriverRuns
  <2>1. timed_out' = (timed_out \/ (pc = "poll" /\ pc' = "reset")) /\ Driver
    BY <1>4 DEF DriverRuns
  <2>2. ret' = "ETIMEDOUT" => ret = "ETIMEDOUT" \/ (pc = "poll" /\ pc' = "reset")
    BY <2>1 DEF Driver, LoadInit, InitDie, InitDone, ReadPage, ReadPageToCache,
         PollReady, PollTimeout, Reset, GetEccStatus, ReadPageCache, LoopDone,
         LoopExceeds, LoopRead, SkipBlock, BlockIsGood, DataRead, DataFailed,
         Copy, Page0Ready, Page0Timeout, Return
  <2> QED BY <2>1, <2>2
<1>5. CASE ChipRuns \/ UNCHANGED allvars
  BY <1>5 DEF ChipRuns, ChipReady, mainvars, allvars, vars
<1> QED BY <1>1, <1>2, <1>3, <1>4, <1>5 DEF MNext, Main

LEMMA FollowStep == FollowInv /\ [MNext]_allvars => FollowInv'
<1> SUFFICES ASSUME FollowInv, [MNext]_allvars PROVE FollowInv'
  OBVIOUS
<1>1. /\ MInv /\ MTypeOK /\ ImageInv /\ IInv /\ TypeOK /\ Control
      /\ timed_out \in BOOLEAN /\ TimeoutIsNoted
  BY DEF FollowInv, MInv, MTypeOK, ImageInv, IInv
<1>2. [AnyStep]_vars
  BY <1>1, MainStep
<1>3. MInv' /\ TimeoutIsNoted' /\ (timed_out => timed_out')
  BY <1>1, MInvStep, TimeoutStep
<1>4. ASSUME ~page0_hung', ~timed_out' PROVE FirstPageRead' /\ LeftOut'
  <2>1. ~page0_hung /\ ~timed_out /\ ret # "ETIMEDOUT"
    BY <1>1, <1>2, <1>3, <1>4, HungStays DEF TimeoutIsNoted
  <2>2. /\ FirstPageRead /\ LeftOut /\ Healthy /\ Loaded
        /\ Requested /\ Checked /\ Underway
    BY <1>1, <2>1 DEF FollowInv, ImageInv, IInv, Healthy, Loaded
  <2>3. FirstPageRead'
    BY <1>1, <1>2, <2>1, <2>2, FirstPageStep
  <2>4. LeftOut'
    BY <1>1, <1>2, <2>1, <2>2, LeftOutStep
  <2> QED BY <2>3, <2>4
<1> QED BY <1>3, <1>4 DEF FollowInv

LEMMA FollowInit == MInit => FollowInv
<1> SUFFICES ASSUME MInit PROVE FollowInv
  OBVIOUS
<1>1. MInv /\ Init
  BY MInvInit DEF MInit
<1>2. TimeoutIsNoted /\ FirstPageRead
  BY <1>1 DEF Init, TimeoutIsNoted, FirstPageRead, Passed, Reading, Asked
<1>3. LeftOut
  <2>1. BlockOf(off) \in Nat /\ off = addr /\ ptr = 0 /\ skipped = {}
    BY <1>1, BlockIsNat DEF Init
  <2>2. BlockOf(addr) .. BlockOf(off) - 1 = {}
    BY <2>1
  <2> QED BY <2>1, <2>2 DEF LeftOut
<1> QED BY <1>1, <1>2, <1>3 DEF FollowInv

LEMMA ReadableIsByteOf ==
  \A i, a : Readable3!IsByte(i, a) <=> ByteOf(stage3_offset, Unusable, i, a)
<1>1. \A S : Readable3!Cardinality(S) = Cardinality(S)
  BY DEF Readable3!Cardinality, Cardinality
<1> QED BY <1>1 DEF Readable3!IsByte, Readable3!BlockOf, Readable3!FirstBlock,
                    Readable3!Position, ByteOf, BlockOf

(* The bytes of a load from the block of s are those of the image at s:    *)
(* every call leaves the same blocks out.                                  *)
LEMMA ImageByte ==
  ASSUME TypeOK, LeftOut, Arrived, Copied, NEW s \in Nat, NEW k \in Nat,
         addr = s + k, (s % EraseSize) + k < EraseSize, NEW i \in 0 .. ptr - 1
  PROVE  ByteOf(s, Unusable, k + i, buff[i])
<1> DEFINE e == EraseSize  a == buff[i]  b == BlockOf(a)
<1>1. i \in Nat /\ e \in Nat \ {0} /\ s % e \in 0 .. e - 1
  BY Blockwise
<1>2. BlockOf(addr) = BlockOf(s) /\ addr % e = (s % e) + k
  BY SameBlock
<1>3. /\ a \in Nat /\ ByteOf(addr, skipped, i, a) /\ b <= BlockOf(off)
      /\ b \notin marked /\ FirstPage(b) \notin uncorr
  BY DEF Arrived, Copied, LeftOut
<1>4. b \in Nat /\ b \notin Unusable /\ BlockOf(off) \in Nat /\ BlockOf(s) \in Nat
  BY <1>3, BlockIsNat DEF Unusable, TypeOK
<1>5. (BlockOf(s) .. b - 1) \ skipped = (BlockOf(s) .. b - 1) \ Unusable
  <2>1. \A c \in BlockOf(s) .. BlockOf(off) - 1 : c \in Unusable => c \in skipped
    BY <1>2 DEF LeftOut
  <2>2. skipped \subseteq Unusable
    BY DEF LeftOut
  <2>3. BlockOf(s) .. b - 1 \subseteq BlockOf(s) .. BlockOf(off) - 1
    <3> HIDE DEF b
    <3> QED BY <1>3, <1>4
  <2> QED BY <2>1, <2>2, <2>3
<1>6. ((s % e) + k) + i = (s % e) + (k + i)
  <2> HIDE DEF e
  <2> QED BY <1>1
<1>7. /\ b >= BlockOf(s)
      /\ a % e = ((s % e) + (k + i)) % e
      /\ Cardinality((BlockOf(s) .. b - 1) \ Unusable) = ((s % e) + (k + i)) \div e
  BY <1>2, <1>3, <1>5, <1>6 DEF ByteOf
<1> QED BY <1>4, <1>7 DEF ByteOf

(* What stage2_main unpacks and enters is the continuation of the header,  *)
(* although the two loads skip blocks independently of each other.         *)
THEOREM PayloadIsBehindHeader == MSpec => []PayloadFollowsHeader
<1>1. MInit => FollowInv
  BY FollowInit
<1>2. FollowInv /\ [MNext]_allvars => FollowInv'
  BY FollowStep
<1>3. FollowInv => PayloadFollowsHeader
  <2> SUFFICES ASSUME FollowInv, stage \in {"unpack", "enter", "stage3"},
                      HeaderEndsInItsBlock, ~timed_out, ~page0_hung,
                      NEW i \in 0 .. want - 1
               PROVE  Readable3!IsByte(HeaderLength + i, buff[i])
    BY DEF PayloadFollowsHeader
  <2>1. MTypeOK /\ LeftOut /\ Arrived /\ Copied /\ Called
    BY DEF FollowInv, MInv, ImageInv, IInv, Healthy, Loaded
  <2>2. addr = PayloadAddress /\ size = 0
    BY <2>1 DEF Called
  <2>3. TypeOK /\ ptr = want
    BY <2>1, <2>2 DEF MTypeOK, TypeOK
  <2>4. /\ stage3_offset \in Nat /\ HeaderLength \in Nat
        /\ addr = stage3_offset + HeaderLength
        /\ (stage3_offset % EraseSize) + HeaderLength < EraseSize
    BY <2>1, <2>2, HeaderIsNat DEF PayloadAddress, HeaderEndsInItsBlock
  <2>5. ByteOf(stage3_offset, Unusable, HeaderLength + i, buff[i])
    BY <2>1, <2>3, <2>4, ImageByte
  <2> QED BY <2>5, ReadableIsByteOf
<1> QED BY <1>1, <1>2, <1>3, PTL DEF MSpec

-----------------------------------------------------------------------------
(* Why main halts.                                                         *)

NoFit == Image!Position(want) > Image!Room

(* What a load returned, of a chip that listens: -EIO only when the image  *)
(* does not fit in the blocks left, -ENODEV only without a chip.           *)
ResultKnown ==
  /\ ret # "EINVAL" /\ (ret = "ENODEV" => ~spi_nand_chip)
  /\ pc \in {"idle", "page0"} /\ ret = "EIO" => NoFit

LEMMA NoFitStays ==
  ASSUME UNCHANGED <<addr, want, skipped, spi_nand_chip>>
  PROVE  NoFit' <=> NoFit
BY DEF NoFit, Image!Position, Image!Room, Image!FirstBlock, Image!BlockOf

LEMMA ResultStep ==
  ASSUME TypeOK, Control, Requested, Located, Returned, ResultKnown,
         [AnyStep]_vars
  PROVE  ResultKnown'
<1> USE DEF ResultKnown, call, load, globals
<1>1. CASE AnyCall
  BY <1>1 DEF AnyCall, Call
<1>2. CASE CallReadPage0 \/ Page0Ready \/ Page0Timeout \/ ChipReady \/ UNCHANGED vars
  <2>1. UNCHANGED <<addr, want, skipped, spi_nand_chip, ret>>
    BY <1>2 DEF CallReadPage0, Page0Ready, Page0Timeout, ChipReady, vars
  <2>2. pc' \in {"idle", "page0"} => pc \in {"idle", "page0"}
    BY <1>2 DEF CallReadPage0, Page0Ready, Page0Timeout, ChipReady, vars
  <2> QED BY <2>1, <2>2, NoFitStays
<1>3. CASE LoadInit
  BY <1>3 DEF LoadInit, Control, Returned
<1>4. CASE InitDie \/ InitDone
  <2>1. UNCHANGED <<addr, want, skipped, spi_nand_chip, ret>>
    BY <1>4 DEF InitDie, InitDone
  <2>2. pc' \in {"idle", "page0"} => pc = "init" /\ site = "none"
    BY <1>4 DEF InitDie, InitDone
  <2> QED BY <2>1, <2>2 DEF Returned
<1>5. CASE ReadPage
  <2>1. UNCHANGED ret
    BY <1>5, ReadIsReadable DEF ReadPage
  <2> QED BY <1>5, <2>1 DEF ReadPage
<1>6. CASE ReadPageToCache \/ PollReady \/ PollTimeout \/ Reset
  BY <1>6 DEF ReadPageToCache, PollReady, PollTimeout, Reset
<1>7. CASE GetEccStatus \/ ReadPageCache
  BY <1>7 DEF GetEccStatus, ReadPageCache
<1>8. CASE LoopExceeds
  <2>1. NoFit
    BY <1>8, NoRoom DEF NoFit
  <2>2. UNCHANGED <<addr, want, skipped, spi_nand_chip>> /\ ret' = "EIO"
    BY <1>8 DEF LoopExceeds, Return
  <2> QED BY <2>1, <2>2, NoFitStays
<1>9. CASE LoopDone
  BY <1>9 DEF LoopDone, Return
<1>10. CASE LoopRead \/ SkipBlock \/ BlockIsGood \/ DataRead \/ Copy
  BY <1>10 DEF LoopRead, SkipBlock, BlockIsGood, DataRead, Copy
<1>11. CASE DataFailed
  BY <1>11 DEF DataFailed, Return, Requested
<1> QED BY <1>1, <1>2, <1>3, <1>4, <1>5, <1>6, <1>7, <1>8, <1>9, <1>10, <1>11
        DEF AnyStep, Driver

(* An image that does not fit in the unmarked blocks from its first one on. *)
Full(n) ==
  (stage3_offset % EraseSize) + n
    > EraseSize * Cardinality({b \in Blocks \ marked : b >= BlockOf(stage3_offset)})

LEMMA NoFitIsFull ==
  ASSUME TypeOK, LeftOut, NoFit, spi_nand_chip, uncorr = {},
         stage3_offset \in Nat, NEW k \in Nat, addr = stage3_offset + k,
         (stage3_offset % EraseSize) + k < EraseSize
  PROVE  Full(k + want)
<1> DEFINE e == EraseSize  s == stage3_offset
           left == {b \in Blocks \ skipped : b >= BlockOf(s)}
           good == {b \in Blocks \ marked : b >= BlockOf(s)}
<1>1. BlockOf(addr) = BlockOf(s) /\ addr % e = (s % e) + k
  BY SameBlock
<1>2. e \in Nat \ {0} /\ s % e \in 0 .. e - 1 /\ want \in Nat
  BY Blockwise DEF TypeOK
<1>3. good \subseteq left
  BY DEF LeftOut, Unusable
<1>4. IsFiniteSet(left)
  <2>1. BlocksPerDie * NDies - 1 \in Int
    BY GeometryAssumption
  <2>2. IsFiniteSet(Blocks)
    BY <2>1, FS_Interval DEF Blocks
  <2> QED BY <2>2, FS_Subset
<1>5. /\ Cardinality(good) <= Cardinality(left)
      /\ Cardinality(good) \in Nat /\ Cardinality(left) \in Nat
  BY <1>3, <1>4, FS_Subset, FS_CardinalityType
<1>6. Image!Room = e * Cardinality(left)
  BY <1>1, SameCardinality DEF Image!Room, Image!FirstBlock, Image!BlockOf, BlockOf
<1>7. ((s % e) + k) + want > e * Cardinality(left)
  BY <1>1, <1>6 DEF NoFit, Image!Position
<1>8. (s % e) + (k + want) > e * Cardinality(good)
  <2> DEFINE m == Cardinality(good)  l == Cardinality(left)
  <2>1. m \in Nat /\ l \in Nat /\ m <= l
    BY <1>5
  <2> HIDE DEF m, l, e
  <2>2. e * m <= e * l /\ e * m \in Nat /\ e * l \in Nat
    BY <1>2, <2>1
  <2>3. s % e \in Nat
    BY <1>2
  <2> HIDE DEF s
  <2> QED BY <1>2, <1>7, <2>2, <2>3 DEF m, l
<1> QED BY <1>8 DEF Full

LEMMA WrittenIsByteOf ==
  \A i, a : Written!IsByte(i, a) <=> ByteOf(stage3_offset, marked, i, a)
<1>1. \A S : Written!Cardinality(S) = Cardinality(S)
  BY DEF Written!Cardinality, Cardinality
<1> QED BY <1>1 DEF Written!IsByte, Written!BlockOf, Written!FirstBlock,
                    Written!Position, ByteOf, BlockOf

(* Without a bad page a whole load brings what was written. *)
LEMMA WholeIsIntact ==
  ASSUME TypeOK, LeftOut, Arrived, Copied, ptr = want, uncorr = {},
         stage3_offset \in Nat, NEW k \in Nat, addr = stage3_offset + k,
         (stage3_offset % EraseSize) + k < EraseSize
  PROVE  Intact(k)
<1>1. Unusable = marked
  BY DEF Unusable, TypeOK
<1> SUFFICES ASSUME NEW i \in 0 .. ptr - 1
             PROVE  Written!IsByte(k + i, buff[i]) /\ PageOf(buff[i]) \notin uncorr
  BY DEF Intact, TypeOK
<1>2. ByteOf(stage3_offset, marked, k + i, buff[i])
  BY <1>1, ImageByte
<1> QED BY <1>2, WrittenIsByteOf

LEMMA FullGrows ==
  ASSUME stage3_offset \in Nat, NEW n \in Nat, NEW m \in Nat, n <= m, Full(n)
  PROVE  Full(m)
<1> DEFINE r == stage3_offset % EraseSize
           good == {b \in Blocks \ marked : b >= BlockOf(stage3_offset)}
           c == EraseSize * Cardinality(good)
<1>1. r \in Nat
  <2>1. EraseSize \in Nat \ {0} /\ r \in 0 .. EraseSize - 1
    BY Blockwise
  <2> HIDE DEF r
  <2> QED BY <2>1
<1>2. c \in Nat
  <2>1. BlocksPerDie * NDies - 1 \in Int
    BY GeometryAssumption
  <2>2. IsFiniteSet(good)
    <3>1. IsFiniteSet(Blocks)
      BY <2>1, FS_Interval DEF Blocks
    <3> QED BY <3>1, FS_Subset
  <2>3. Cardinality(good) \in Nat /\ EraseSize \in Nat
    BY <2>2, FS_CardinalityType, Geometry
  <2> HIDE DEF good
  <2> QED BY <2>3
<1>3. r + n > c
  BY DEF Full
<1> HIDE DEF r, c
<1>4. r + m > c
  BY <1>1, <1>2, <1>3
<1> QED BY <1>4 DEF Full, r, c

(* The header is the one that was written, as long as nothing goes wrong. *)
HeaderKnown ==
  stage \in {"init", "header", "header_loaded"} \/ Undisturbed => hdr = image_header

NotRefused ==
  /\ stage = "halt" /\ spi_nand_chip /\ HeaderEndsInItsBlock
  /\ HdrSize <= HeaderLength + image_header.size
  /\ Undisturbed
  => ~Accepted \/ Full(HeaderLength + image_header.size)

HaltInv == /\ FollowInv /\ HeaderKnown /\ NotRefused
           /\ ~page0_hung => ResultKnown

(* What holds when main looks at the result of a load nothing disturbed. *)
LEMMA AtResult ==
  ASSUME HaltInv, Undisturbed, pc = "idle"
  PROVE  /\ TypeOK /\ LeftOut /\ Arrived /\ Copied
         /\ Failed /\ spi_nand_chip => NoFit
         /\ ~Failed => ptr = want
<1>1. /\ MTypeOK /\ TypeOK /\ Returned /\ TimeoutIsNoted /\ ResultKnown
      /\ LeftOut /\ Arrived /\ Copied
  BY DEF HaltInv, Undisturbed, FollowInv, MInv, ImageInv, IInv, Healthy, Loaded, MTypeOK
<1>2. ret \in Errors /\ ret # "ETIMEDOUT"
  BY <1>1 DEF TypeOK, TimeoutIsNoted, Undisturbed
<1>3. Failed /\ spi_nand_chip => NoFit
  BY <1>1, <1>2 DEF Failed, ResultKnown, Errors
<1>4. ~Failed => size = 0
  BY <1>1 DEF Failed, Returned
<1> QED BY <1>1, <1>3, <1>4 DEF TypeOK

LEMMA OffsetInBlock ==
  ASSUME MTypeOK
  PROVE  /\ stage3_offset \in Nat /\ stage3_offset = stage3_offset + 0
         /\ (stage3_offset % EraseSize) + 0 < EraseSize
<1>1. stage3_offset \in Nat
  BY HeaderIsNat
<1>2. EraseSize \in Nat \ {0} /\ stage3_offset % EraseSize \in 0 .. EraseSize - 1
  BY <1>1, Blockwise
<1> QED BY <1>1, <1>2

LEMMA HeaderResult ==
  ASSUME HaltInv, Undisturbed, stage = "header_loaded", pc = "idle"
  PROVE  /\ ~Failed => Intact(0)
         /\ Failed /\ spi_nand_chip => Full(HdrSize)
<1>1. MTypeOK /\ Called
  BY DEF HaltInv, FollowInv, MInv
<1>2. /\ addr = stage3_offset /\ want = HdrSize /\ uncorr = {} /\ HdrSize \in Nat
      /\ addr = stage3_offset + 0
  BY <1>1, HeaderIsNat, OffsetInBlock DEF Called, Undisturbed
<1>3. ~Failed => Intact(0)
  BY <1>1, <1>2, AtResult, OffsetInBlock, WholeIsIntact
<1>4. Failed /\ spi_nand_chip => Full(0 + want)
  BY <1>1, <1>2, AtResult, OffsetInBlock, NoFitIsFull
<1>5. 0 + want = HdrSize
  BY <1>2
<1> QED BY <1>3, <1>4, <1>5

LEMMA PayloadResult ==
  ASSUME HaltInv, Undisturbed, HeaderEndsInItsBlock, pc = "idle",
         stage \in {"payload_loaded", "unpack"}
  PROVE  /\ ptr = want => Intact(HeaderLength)
         /\ Failed /\ spi_nand_chip => Full(HeaderLength + hdr.size)
<1>1. MTypeOK /\ Called
  BY DEF HaltInv, FollowInv, MInv
<1>2. /\ addr = stage3_offset + HeaderLength /\ want = hdr.size /\ uncorr = {}
      /\ stage3_offset \in Nat /\ HeaderLength \in Nat
      /\ (stage3_offset % EraseSize) + HeaderLength < EraseSize
  BY <1>1, HeaderIsNat DEF Called, Undisturbed, PayloadAddress, HeaderEndsInItsBlock
<1>3. ptr = want => Intact(HeaderLength)
  BY <1>2, AtResult, WholeIsIntact
<1>4. Failed /\ spi_nand_chip => Full(HeaderLength + want)
  BY <1>2, AtResult, NoFitIsFull
<1> QED BY <1>2, <1>3, <1>4

LEMMA KnownStep ==
  ASSUME HaltInv, [MNext]_allvars
  PROVE  HeaderKnown'
<1>1. MTypeOK /\ TypeOK /\ TimeoutIsNoted /\ timed_out \in BOOLEAN /\ Called
  BY DEF HaltInv, FollowInv, MInv, MTypeOK
<1>2. [AnyStep]_vars
  BY <1>1, MainStep
<1>3. Undisturbed' => Undisturbed
  BY <1>1, <1>2, FlashStays, HungStays, TimeoutStep DEF Undisturbed
<1> USE DEF HeaderKnown
<1>4. CASE ReadHeader
  <2> SUFFICES ASSUME Undisturbed' PROVE hdr' = image_header'
    BY <1>4 DEF ReadHeader
  <2>1. /\ Undisturbed /\ stage = "header_loaded" /\ pc = "idle"
        /\ hdr = image_header /\ image_header' = image_header
    BY <1>3, <1>4 DEF ReadHeader, HaltInv
  <2>2. ~Failed => Intact(0)
    BY <2>1, HeaderResult
  <2> QED BY <1>4, <2>1, <2>2 DEF ReadHeader
<1>5. CASE LoadHeader \/ LoadPayload \/ RestorePage0 \/ RejectHeader
           \/ CheckPayload \/ Unpack \/ EnterStage3
  <2>1. /\ hdr' = hdr /\ image_header' = image_header
        /\ stage' \in {"init", "header", "header_loaded"}
             => stage \in {"init", "header", "header_loaded"}
    BY <1>5 DEF LoadHeader, LoadPayload, RestorePage0, RejectHeader,
         CheckPayload, Unpack, EnterStage3
  <2> QED BY <1>3, <2>1 DEF HaltInv
<1>6. CASE DriverRuns \/ ChipRuns \/ UNCHANGED allvars
  <2>1. UNCHANGED <<hdr, image_header, stage>>
    BY <1>6 DEF DriverRuns, ChipRuns, mainvars, allvars
  <2> QED BY <1>3, <2>1 DEF HaltInv
<1> QED BY <1>4, <1>5, <1>6 DEF MNext, Main

LEMMA NotRefusedStep ==
  ASSUME HaltInv, [MNext]_allvars
  PROVE  NotRefused'
<1>1. /\ MTypeOK /\ TypeOK /\ TimeoutIsNoted /\ timed_out \in BOOLEAN
      /\ Waits /\ Called /\ HeaderKnown
  BY DEF HaltInv, FollowInv, MInv, MTypeOK
<1>2. [AnyStep]_vars
  BY <1>1, MainStep
<1>3. Undisturbed' => Undisturbed
  BY <1>1, <1>2, FlashStays, HungStays, TimeoutStep DEF Undisturbed
<1>4. marked' = marked /\ stage3_offset' = stage3_offset /\ image_header' = image_header
  BY <1>2, FlashStays DEF MNext, Main, LoadHeader, RestorePage0, ReadHeader,
       LoadPayload, RejectHeader, CheckPayload, Unpack, EnterStage3, DriverRuns,
       ChipRuns, mainvars, allvars
<1>5. stage3_offset \in Nat /\ HdrSize \in Nat /\ HeaderLength \in Nat
      /\ hdr.size \in Nat
  BY <1>1, HeaderIsNat
<1> SUFFICES ASSUME stage' = "halt", spi_nand_chip', HeaderEndsInItsBlock',
                    (HdrSize <= HeaderLength + image_header.size)', Undisturbed'
             PROVE  (~Accepted \/ Full(HeaderLength + image_header.size))'
  BY DEF NotRefused
<1>6. hdr' = hdr => /\ Accepted' = Accepted /\ HeaderLength' = HeaderLength
                    /\ HeaderEndsInItsBlock /\ HdrSize <= HeaderLength + image_header.size
  BY <1>4 DEF Accepted, HeaderLength, HeaderEndsInItsBlock
<1>7. ASSUME hdr' = hdr, ~Accepted \/ Full(HeaderLength + image_header.size)
      PROVE  (~Accepted \/ Full(HeaderLength + image_header.size))'
  BY <1>4, <1>6, <1>7 DEF Full, BlockOf
<1>8. CASE ReadHeader
  <2>1. /\ stage = "header_loaded" /\ pc = "idle" /\ Failed /\ hdr' = hdr
        /\ spi_nand_chip /\ hdr = image_header
    BY <1>1, <1>3, <1>8 DEF ReadHeader, vars, globals, HeaderKnown
  <2>2. Full(HdrSize)
    BY <1>3, <2>1, HeaderResult
  <2>3. HdrSize <= HeaderLength + image_header.size
    BY <1>6, <2>1
  <2>4. HeaderLength + image_header.size \in Nat
    BY <1>5, <2>1
  <2>5. Full(HeaderLength + image_header.size)
    BY <1>5, <2>2, <2>3, <2>4, FullGrows
  <2> QED BY <1>7, <2>1, <2>5
<1>9. CASE RejectHeader
  BY <1>7, <1>9 DEF RejectHeader
<1>10. CASE CheckPayload
  <2>1. /\ stage = "payload_loaded" /\ pc = "idle" /\ Failed /\ hdr' = hdr
        /\ spi_nand_chip
    BY <1>10 DEF CheckPayload, vars, globals
  <2>2. hdr = image_header
    BY <1>1, <1>3 DEF HeaderKnown
  <2>3. Full(HeaderLength + hdr.size)
    BY <1>3, <1>6, <2>1, PayloadResult
  <2> QED BY <1>7, <2>1, <2>2, <2>3
<1>11. CASE Unpack
  <2>1. /\ stage = "unpack" /\ pc = "idle" /\ hdr' = hdr
        /\ ~(Intact(HeaderLength) /\ hdr = image_header)
    BY <1>1, <1>11 DEF Unpack, Waits
  <2>2. ptr = want
    BY <1>1, <2>1 DEF Called, TypeOK
  <2>3. Intact(HeaderLength)
    BY <1>3, <1>6, <2>1, <2>2, PayloadResult
  <2> QED BY <1>1, <1>3, <2>1, <2>3 DEF HeaderKnown
<1>12. CASE LoadHeader \/ LoadPayload \/ RestorePage0 \/ EnterStage3
  BY <1>12 DEF LoadHeader, LoadPayload, RestorePage0, EnterStage3
<1>13. CASE DriverRuns \/ ChipRuns \/ UNCHANGED allvars
  <2>1. stage = "halt" /\ hdr' = hdr /\ ~DriverRuns
    BY <1>1, <1>13, DriverSteps DEF DriverRuns, ChipRuns, mainvars, allvars, Waits
  <2>2. spi_nand_chip
    BY <1>13, <2>1 DEF ChipRuns, ChipReady, globals, allvars, vars
  <2>3. ~Accepted \/ Full(HeaderLength + image_header.size)
    BY <1>3, <1>6, <2>1, <2>2 DEF HaltInv, NotRefused
  <2> QED BY <1>7, <2>1, <2>3
<1> QED BY <1>8, <1>9, <1>10, <1>11, <1>12, <1>13 DEF MNext, Main

LEMMA HaltStep == HaltInv /\ [MNext]_allvars => HaltInv'
<1> SUFFICES ASSUME HaltInv, [MNext]_allvars PROVE HaltInv'
  OBVIOUS
<1>1. /\ FollowInv /\ MTypeOK /\ IInv /\ ImageInv /\ TypeOK /\ Control /\ Returned
  BY DEF HaltInv, FollowInv, MInv, ImageInv, IInv
<1>2. [AnyStep]_vars
  BY <1>1, MainStep
<1>3. FollowInv' /\ HeaderKnown' /\ NotRefused'
  BY <1>1, FollowStep, KnownStep, NotRefusedStep
<1>4. ASSUME ~page0_hung' PROVE ResultKnown'
  <2>1. ~page0_hung
    BY <1>1, <1>2, <1>4, HungStays
  <2>2. ResultKnown /\ Requested /\ Located
    BY <1>1, <2>1 DEF HaltInv, ImageInv, IInv, Healthy, Loaded
  <2> QED BY <1>1, <1>2, <2>2, ResultStep
<1> QED BY <1>3, <1>4 DEF HaltInv

(* stage2_main does not halt on an image that lies on good pages, was      *)
(* written with a header it knows, and fits in the flash.                  *)
THEOREM GoodImageIsStarted == MSpec => []GoodImageStarts
<1>1. MInit => HaltInv
  <2> SUFFICES ASSUME MInit PROVE HaltInv
    OBVIOUS
  <2>1. FollowInv
    BY FollowInit
  <2>2. HeaderKnown /\ NotRefused /\ ResultKnown
    BY DEF MInit, Init, HeaderKnown, NotRefused, ResultKnown
  <2> QED BY <2>1, <2>2 DEF HaltInv
<1>2. HaltInv /\ [MNext]_allvars => HaltInv'
  BY HaltStep
<1>3. HaltInv => GoodImageStarts
  <2> SUFFICES ASSUME HaltInv, stage = "halt", spi_nand_chip,
                      HeaderEndsInItsBlock, Undisturbed, Accepted,
                      HdrSize <= HeaderLength + image_header.size
               PROVE  (stage3_offset % EraseSize) + HeaderLength + image_header.size
                        > EraseSize * Cardinality({b \in Blocks \ marked :
                                                     b >= BlockOf(stage3_offset)})
    BY DEF GoodImageStarts
  <2> DEFINE r == stage3_offset % EraseSize
             c == EraseSize * Cardinality({b \in Blocks \ marked :
                                             b >= BlockOf(stage3_offset)})
  <2>1. r + (HeaderLength + image_header.size) > c
    BY DEF HaltInv, NotRefused, Full
  <2>2. /\ r \in Nat /\ HeaderLength \in Nat /\ image_header.size \in Nat
    <3>1. MTypeOK
      BY DEF HaltInv, FollowInv, MInv
    <3>2. image_header.size \in Nat
      BY <3>1, HeaderAssumption DEF MTypeOK
    <3>3. stage3_offset \in Nat /\ HeaderLength \in Nat
      BY <3>1, HeaderIsNat
    <3>4. EraseSize \in Nat \ {0} /\ r \in 0 .. EraseSize - 1
      BY <3>3, Blockwise
    <3> HIDE DEF r
    <3> QED BY <3>2, <3>3, <3>4
  <2> HIDE DEF r, c
  <2>3. (r + HeaderLength) + image_header.size = r + (HeaderLength + image_header.size)
    BY <2>2
  <2> QED BY <2>1, <2>3 DEF r, c
<1> QED BY <1>1, <1>2, <1>3, PTL DEF MSpec
=============================================================================
