------------------------------ MODULE Padutil ------------------------------
(***************************************************************************)
(* tools/padutil.c: a file is copied and filled up to a multiple of a      *)
(* size.  Files are sequences of bytes; Faults says which calls of the C   *)
(* library may fail.  Writes are buffered, so that what fwrite took may    *)
(* still be lost when the file is closed, which nobody looks at.           *)
(***************************************************************************)
EXTENDS Integers, Sequences

CONSTANTS BuffSize,       \* sizeof(buff)
          Word,           \* 2^32
          Faults          \* subset of {"open", "read", "write", "close"}

ASSUME PadutilAssumption ==
  /\ BuffSize \in Nat \ {0} /\ Word \in Nat \ {0}
  /\ Faults \subseteq {"open", "read", "write", "close"}

VARIABLES
  run,                    \* the statement of process_file, or the exit code
  align_size, max_size,
  input,                  \* content of the input file
  exists, output,         \* the output file
  input_file_size, padding_size, padsize,
  fault                   \* history: what failed, if anything

options == <<align_size, max_size, input>>
sizes   == <<input_file_size, padding_size, padsize>>
file    == <<exists, output>>
padvars == <<run, options, file, sizes, fault>>

Fill  == <<"fill">>
Fills(n) == [i \in 1 .. n |-> Fill]
Smaller(a, b) == IF a < b THEN a ELSE b

Exited == {"exit0", "exit1"}

(* fclose and remove.  Mutated: the file is left there. *)
KeepOutput   == UNCHANGED file
RemoveOutput == exists' = FALSE /\ output' = <<>>

-----------------------------------------------------------------------------
(* parse_arg; a maximum that is not given is 0.  there is the file that is *)
(* to be written.                                                          *)
Invoke(content, align, max, there) ==
  /\ run \in Exited
  /\ align_size' = align % Word /\ max_size' = max % Word /\ input' = content
  /\ exists' = there.exists /\ output' = there.content
  /\ input_file_size' = 0 /\ padding_size' = 0 /\ padsize' = 0
  /\ IF align_size' <= 1 THEN run' = "exit1" /\ fault' = "option"
                         ELSE run' = "open"  /\ fault' = "none"

OpenFails ==
  /\ run = "open" /\ "open" \in Faults
  /\ run' = "exit1" /\ fault' = "open"
  /\ UNCHANGED <<options, file, sizes>>

Open ==
  /\ run = "open"
  /\ exists' = TRUE /\ output' = <<>>
  /\ run' = "copy"
  /\ UNCHANGED <<options, sizes, fault>>

Left == Len(input) - input_file_size

Copy ==
  /\ run = "copy" /\ Left > 0
  /\ LET n == Smaller(Left, BuffSize)
     IN  /\ output' = output \o SubSeq(input, input_file_size + 1, input_file_size + n)
         /\ input_file_size' = (input_file_size + n) % Word
  /\ UNCHANGED <<run, options, exists, padding_size, padsize, fault>>

(* exit(1) with what was written so far. *)
ReadFails ==
  /\ run = "copy" /\ "read" \in Faults
  /\ run' = "exit1" /\ fault' = "read"
  /\ UNCHANGED <<options, file, sizes>>

WriteFails ==
  /\ "write" \in Faults
  /\ \/ run = "copy" /\ Left > 0
     \/ run = "pad" /\ padsize < padding_size
  /\ RemoveOutput /\ run' = "exit1"
  /\ UNCHANGED <<options, sizes, fault>>

Padding(size) == IF size % align_size = 0 THEN 0 ELSE align_size - (size % align_size)

TooLarge(size, padding) == max_size # 0 /\ (size + padding) % Word > max_size

PadSize ==
  /\ run = "copy" /\ Left = 0
  /\ padding_size' = IF align_size = 0 THEN 0 ELSE Padding(input_file_size)
  /\ IF TooLarge(input_file_size, padding_size')
     THEN RemoveOutput /\ run' = "exit1"
     ELSE UNCHANGED file /\ run' = "pad"
  /\ UNCHANGED <<options, input_file_size, padsize, fault>>

Chunk == Smaller(padding_size - padsize, BuffSize)

Pad ==
  /\ run = "pad" /\ padsize < padding_size
  /\ output' = output \o Fills(Chunk) /\ padsize' = padsize + Chunk
  /\ UNCHANGED <<run, options, exists, input_file_size, padding_size, fault>>

Close ==
  /\ run = "pad" /\ padsize >= padding_size
  /\ run' = "exit0"
  /\ UNCHANGED <<options, file, sizes, fault>>

(* The last bytes written are lost; one stands for them. *)
CloseFails ==
  /\ run = "pad" /\ padsize >= padding_size /\ "close" \in Faults
  /\ output' = SubSeq(output, 1, Len(output) - 1)
  /\ run' = "exit0" /\ fault' = "close"
  /\ UNCHANGED <<options, exists, sizes>>

Padutil == \/ OpenFails \/ Open \/ Copy \/ ReadFails \/ WriteFails \/ PadSize
           \/ Pad \/ Close \/ CloseFails

-----------------------------------------------------------------------------
PadTypeOK ==
  /\ run \in Exited \cup {"open", "copy", "pad"}
  /\ align_size \in 0 .. Word - 1 /\ max_size \in 0 .. Word - 1
  /\ exists \in BOOLEAN /\ fault \in {"none", "option"} \cup Faults
  /\ input_file_size \in 0 .. Word - 1 /\ padding_size \in 0 .. Word - 1
  /\ padsize \in 0 .. padding_size

(* What the file is to be. *)
Padded(content, align) == content \o Fills((align - (Len(content) % align)) % align)

(* A run that succeeds leaves the whole file, filled up, within its        *)
(* maximum; one that fails once it has begun to write leaves none that     *)
(* could be taken for it.  Two failures the code does not look after are   *)
(* excepted: that of a read, which leaves what was copied, and that of     *)
(* fclose, which loses the end.  With a wrong option, or a file that does  *)
(* not open, nothing has been written: an earlier build's file stays.      *)
OutputIsWholeOrGone ==
  /\ run = "exit0" /\ fault # "close" =>
       /\ exists /\ output = Padded(input, align_size)
       /\ max_size # 0 => Len(output) <= max_size
  /\ run = "exit1" /\ fault \notin {"option", "open", "read"} => ~exists
=============================================================================
