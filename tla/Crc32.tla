-------------------------------- MODULE Crc32 --------------------------------
(***************************************************************************)
(* crc32, which decides whether the header of a U-Boot image is right: a   *)
(* table with the remainder of every byte, looked up for one byte of the   *)
(* buffer after the other.  A word is the set of the places where it has a *)
(* one; a byte has ByteBits places and the sum SumBits.                    *)
(***************************************************************************)
EXTENDS Integers, Sequences

CONSTANTS
  ByteBits,               \* 8
  SumBits,                \* 32
  Powers,                 \* the exponents of the polynomial, below SumBits
  Unroll,                 \* bytes a turn of the first loop takes, 8
  Buffers                 \* what may be summed up

Byte == 0 .. ByteBits - 1
Ones == 0 .. SumBits - 1

ASSUME SumAssumption ==
  /\ ByteBits \in Nat \ {0} /\ SumBits \in Nat /\ SumBits >= ByteBits
  /\ Powers \subseteq 0 .. SumBits - 1 /\ Unroll \in Nat \ {0}
  /\ Buffers \subseteq Seq(SUBSET Byte)

VARIABLES
  sum_pc,
  crc_table,
  crc, ptr,               \* the sum and the bytes taken
  data                    \* the buffer

sum == <<sum_pc, crc_table, crc, ptr, data>>

Xor(c, e) == (c \ e) \cup (e \ c)
ShiftRight(c, n) == {i - n : i \in {j \in c : j >= n}}

-----------------------------------------------------------------------------
(* The polynomial with its bits reversed. *)
Poly == {SumBits - 1 - k : k \in Powers}

(* A bit is taken out at the low end. *)
Step(c) == IF 0 \in c THEN Xor(Poly, ShiftRight(c, 1)) ELSE ShiftRight(c, 1)

(* What k bits make of c, those of a byte taken out one by one. *)
Steps(c) == LET s[k \in 0 .. ByteBits] == IF k = 0 THEN c ELSE Step(s[k - 1]) IN s

(* make_crc32_table *)
MakeTable ==
  /\ sum_pc = "table"
  /\ crc_table' = [n \in SUBSET Byte |-> Steps(n)[ByteBits]]
  /\ sum_pc' = "call"
  /\ UNCHANGED <<crc, ptr, data>>

(* Mutated: the sum is not shifted. *)
Do1Unshifted(c, byte) == Xor(crc_table[Xor(c, byte) \cap Byte], c)
Do1(c, byte) == Xor(crc_table[Xor(c, byte) \cap Byte], ShiftRight(c, ByteBits))

Call ==
  /\ sum_pc = "call"
  /\ crc' = Xor(crc, Ones) /\ ptr' = 0 /\ sum_pc' = "blocks"
  /\ UNCHANGED <<crc_table, data>>

Left == Len(data) - ptr

(* Unroll bytes, or one. *)
Sum(n) ==
  LET c[k \in 0 .. n] == IF k = 0 THEN crc ELSE Do1(c[k - 1], data[ptr + k])
  IN c[n]

Blocks ==
  /\ sum_pc = "blocks"
  /\ IF Left >= Unroll
     THEN crc' = Sum(Unroll) /\ ptr' = ptr + Unroll /\ UNCHANGED sum_pc
     ELSE sum_pc' = "rest" /\ UNCHANGED <<crc, ptr>>
  /\ UNCHANGED <<crc_table, data>>

Rest ==
  /\ sum_pc = "rest"
  /\ IF Left > 0
     THEN crc' = Sum(1) /\ ptr' = ptr + 1 /\ UNCHANGED sum_pc
     ELSE crc' = Xor(crc, Ones) /\ sum_pc' = "done" /\ UNCHANGED ptr
  /\ UNCHANGED <<crc_table, data>>

-----------------------------------------------------------------------------
SumInit ==
  /\ sum_pc = "table" /\ crc_table = [n \in SUBSET Byte |-> {}]
  /\ crc = {} /\ ptr = 0 /\ data \in Buffers

SumNext == MakeTable \/ Call \/ Blocks \/ Rest

SumSpec == SumInit /\ [][SumNext]_sum

-----------------------------------------------------------------------------
(* The division by the polynomial, bit by bit: the bits of the buffer, the *)
(* low one of each byte first, are added to the sum at its low end.        *)
Bit(j) == IF (j - 1) % ByteBits \in data[1 + ((j - 1) \div ByteBits)] THEN {0} ELSE {}

Remainder ==
  LET c[j \in 0 .. Len(data) * ByteBits] ==
        IF j = 0 THEN Ones ELSE Step(Xor(c[j - 1], Bit(j)))
  IN c

(* Table and loops make the sum that the polynomial defines, of a buffer   *)
(* of any length.                                                          *)
SumIsRight == sum_pc = "done" => crc = Xor(Remainder[Len(data) * ByteBits], Ones)
=============================================================================
