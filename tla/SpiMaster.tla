------------------------------ MODULE SpiMaster ------------------------------
(***************************************************************************)
(* The transfers of src/mt7621/spi.c beside the controller that carries    *)
(* them out.  A transfer is cut into chunks as large as the controller's   *)
(* registers: an opcode register, sent from its most significant byte in   *)
(* use downwards, and a row of data registers, sent and filled from the    *)
(* least significant byte upwards.                                         *)
(*                                                                         *)
(* Bytes are named: k is the k-th byte written while the chip is selected, *)
(* -k the k-th byte of the chip's answer, 0 a byte of a cleared register.  *)
(***************************************************************************)
EXTENDS Integers, Sequences

CONSTANTS WordBytes,             \* of a register
          FifoBytes,             \* of all data registers, MT7621_RX_FIFO_LEN
          WriteLens, ReadLens    \* arguments of spi_write and spi_read

ASSUME LengthAssumption ==
  /\ WordBytes \in Nat \ {0} /\ FifoBytes \in Nat \ {0} /\ FifoBytes % WordBytes = 0
  /\ WriteLens \subseteq Nat /\ ReadLens \subseteq Nat

VARIABLES
  spi_pc,                     \* the function being executed
  cs,                     \* SPI_CS_POLAR_REG
  len, chunk,             \* bytes left, bytes of the chunk under way
  op_addr, dido,          \* registers, byte by byte from the least significant
  cmd_cnt, mosi_cnt, miso_cnt,   \* SPI_MOREBUF_REG in bytes
  busy, moved,            \* SPI_MASTER_BUSY, bytes of the chunk moved
  wire, buf,              \* what the chip was sent, what spi_read returned
  written, asked          \* history: bytes written, bytes asked for

counts    == <<cmd_cnt, mosi_cnt, miso_cnt>>
registers == <<op_addr, counts>>
sofar     == <<written, asked>>
spi       == <<spi_pc, cs, len, chunk, registers, dido, busy, moved, wire, buf, sofar>>

OpBytes   == 0 .. WordBytes - 1
DidoBytes == 0 .. FifoBytes - 1
Min(a, b) == IF a < b THEN a ELSE b

-----------------------------------------------------------------------------
(* The controller moves the chunk byte by byte: command, out, in. *)

Controller ==
  /\ busy
  /\ moved' = moved + 1
  /\ busy' = (moved' < cmd_cnt + mosi_cnt + miso_cnt)
  /\ \/ /\ moved < cmd_cnt
        /\ wire' = Append(wire, op_addr[cmd_cnt - 1 - moved]) /\ UNCHANGED dido
     \/ /\ cmd_cnt <= moved /\ moved < cmd_cnt + mosi_cnt
        /\ wire' = Append(wire, dido[moved - cmd_cnt]) /\ UNCHANGED dido
     \/ /\ cmd_cnt + mosi_cnt <= moved
        /\ dido' = [dido EXCEPT ![moved - cmd_cnt - mosi_cnt] =
                      - (Len(buf) + moved + 1 - cmd_cnt - mosi_cnt)]
        /\ UNCHANGED wire
  /\ UNCHANGED <<spi_pc, cs, len, chunk, registers, buf, sofar>>

-----------------------------------------------------------------------------
(* The driver's operations: spi_en, spi_write, spi_read, spi_dis. *)

Enable ==
  /\ spi_pc = "idle" /\ ~cs
  /\ cs' = TRUE /\ wire' = <<>> /\ buf' = <<>> /\ written' = 0 /\ asked' = 0
  /\ UNCHANGED <<spi_pc, len, chunk, registers, dido, busy, moved>>

CallWrite(n) ==
  /\ spi_pc = "idle" /\ cs /\ written = 0 /\ asked = 0
  /\ spi_pc' = "write" /\ len' = n /\ written' = n
  /\ UNCHANGED <<cs, chunk, registers, dido, busy, moved, wire, buf, asked>>

CallRead(n) ==
  /\ spi_pc = "idle" /\ cs /\ asked = 0
  /\ spi_pc' = "read" /\ len' = n /\ asked' = n
  /\ UNCHANGED <<cs, chunk, registers, dido, busy, moved, wire, buf, written>>

Disable ==
  /\ spi_pc = "idle" /\ cs
  /\ cs' = FALSE
  /\ UNCHANGED <<spi_pc, len, chunk, registers, dido, busy, moved, wire, buf, sofar>>

Start == busy' = TRUE /\ moved' = 0

TxLen(n) == Min(n, FifoBytes + WordBytes)

(* The opcode register after byte first and its n - 1 followers were       *)
(* shifted in.  Mutated: as many shifts as the register has bytes.         *)
OpcodeFromTheTop(first, n) ==
  [s \in OpBytes |-> IF WordBytes - 1 - s < n THEN first + WordBytes - 1 - s ELSE 0]
Opcode(first, n) == [s \in OpBytes |-> IF s < n THEN first + n - 1 - s ELSE 0]

(* The data registers after n bytes from first on; the last register       *)
(* written is cleared behind them, the others keep what they had.          *)
DataOut(first, n) ==
  [j \in DidoBytes |-> IF j < n THEN first + j
                       ELSE IF j \div WordBytes <= (n - 1) \div WordBytes THEN 0
                       ELSE dido[j]]

WriteChunk ==
  /\ spi_pc = "write" /\ len # 0
  /\ LET first  == written - len + 1
         opcode == Min(TxLen(len), WordBytes)
         data   == TxLen(len) - opcode
     IN  /\ chunk' = TxLen(len)
         /\ op_addr' = Opcode(first, opcode)
         /\ dido' = DataOut(first + opcode, data)
         /\ cmd_cnt' = opcode /\ mosi_cnt' = data /\ miso_cnt' = 0
  /\ Start /\ spi_pc' = "write_wait"
  /\ UNCHANGED <<cs, len, wire, buf, sofar>>

ReadChunk ==
  /\ spi_pc = "read" /\ len # 0
  /\ chunk' = Min(len, FifoBytes)
  /\ cmd_cnt' = 0 /\ mosi_cnt' = 0 /\ miso_cnt' = chunk'
  /\ Start /\ spi_pc' = "read_wait"
  /\ UNCHANGED <<cs, len, op_addr, dido, wire, buf, sofar>>

(* Mutated: the driver does not wait. *)
DoneAtOnce   == TRUE
Done == ~busy

WriteDone ==
  /\ spi_pc = "write_wait" /\ Done
  /\ len' = len - chunk /\ spi_pc' = "write"
  /\ UNCHANGED <<cs, chunk, registers, dido, busy, moved, wire, buf, sofar>>

DataIn(n) == [k \in 1 .. n |-> dido[k - 1]]

ReadDone ==
  /\ spi_pc = "read_wait" /\ Done
  /\ buf' = buf \o DataIn(chunk)
  /\ len' = len - chunk /\ spi_pc' = "read"
  /\ UNCHANGED <<cs, chunk, registers, dido, busy, moved, wire, sofar>>

Return ==
  /\ spi_pc \in {"write", "read"} /\ len = 0
  /\ spi_pc' = "idle"
  /\ UNCHANGED <<cs, len, chunk, registers, dido, busy, moved, wire, buf, sofar>>

-----------------------------------------------------------------------------
SpiInit ==
  /\ spi_pc = "idle" /\ cs = FALSE /\ len = 0 /\ chunk = 0
  /\ op_addr = [s \in OpBytes |-> 0] /\ dido = [j \in DidoBytes |-> 0]
  /\ cmd_cnt = 0 /\ mosi_cnt = 0 /\ miso_cnt = 0 /\ busy = FALSE /\ moved = 0
  /\ wire = <<>> /\ buf = <<>> /\ written = 0 /\ asked = 0

Driver == WriteChunk \/ ReadChunk \/ WriteDone \/ ReadDone \/ Return

SpiNext ==
  \/ Controller \/ Driver \/ Enable \/ Disable
  \/ \E n \in WriteLens : CallWrite(n)
  \/ \E n \in ReadLens : CallRead(n)

SpiSpec == SpiInit /\ [][SpiNext]_spi

-----------------------------------------------------------------------------
SpiTypeOK ==
  /\ spi_pc \in {"idle", "write", "write_wait", "read", "read_wait"}
  /\ cs \in BOOLEAN /\ len \in Nat /\ chunk \in Nat
  /\ op_addr \in [OpBytes -> Int] /\ dido \in [DidoBytes -> Int]
  /\ cmd_cnt \in 0 .. WordBytes /\ mosi_cnt \in 0 .. FifoBytes
  /\ miso_cnt \in 0 .. FifoBytes
  /\ busy \in BOOLEAN /\ moved \in Nat
  /\ wire \in Seq(Int) /\ buf \in Seq(Int) /\ written \in Nat /\ asked \in Nat

(* The chip is sent the bytes of the buffer in order, none twice and none  *)
(* left over from before, and all of them by the time spi_write returns.   *)
SendsTheBuffer ==
  /\ wire = [k \in 1 .. Len(wire) |-> k] /\ Len(wire) <= written
  /\ spi_pc \in {"idle", "read"} => Len(wire) = written

(* spi_read returns the chip's answer in order, and all that was asked for. *)
ReadsTheAnswer ==
  /\ buf = [k \in 1 .. Len(buf) |-> - k]
  /\ spi_pc \in {"idle", "write"} => Len(buf) = asked

(* A transfer moves the right bytes, both ways. *)
TransfersAreRight == SendsTheBuffer /\ ReadsTheAnswer

(* No register changes under the controller, and the chip stays selected.  *)
LeavesTheControllerAlone == [][busy => UNCHANGED <<registers, cs>>]_spi
=============================================================================
