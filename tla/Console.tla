------------------------------- MODULE Console -------------------------------
(***************************************************************************)
(* What stage 2 shows: printf and puts, and the UART that sends their      *)
(* characters one by one beside the processor.  Numbers are those below    *)
(* UintLimit, and a format is a sequence of characters without its end.    *)
(***************************************************************************)
EXTENDS PowerOf, Sequences

CONSTANTS
  UintLimit,              \* 2^32
  TmpDec, TmpHex,         \* sizes of tmpbuf, 12 and 9
  Formats,                \* what printf may be asked for
  Strings,                \* what puts, or a %s, may be given
  Values                  \* what %u and %x may be given

ASSUME ConsoleAssumption ==
  /\ UintLimit \in Nat \ {0} /\ Values \subseteq 0 .. UintLimit - 1
  /\ TmpDec \in Nat \ {0} /\ UintLimit <= PowerOf(10)[TmpDec]
  /\ TmpHex \in Nat \ {0} /\ UintLimit <= PowerOf(16)[TmpHex]
  /\ Formats \subseteq Seq(STRING) /\ Strings \subseteq Seq(STRING)

VARIABLES
  con_pc,
  puts,                   \* whether puts runs, or printf
  str, pos,               \* the format or string, and the place in it
  width, zeropfx,
  value, base, tmpbuf,    \* of the conversion of a number
  pending,                \* characters given to putc and not yet written
  thr, tsr,               \* the UART's holding and shift register
  line,                   \* history: what the line has carried
  meant,                  \* history: what the format stands for so far
  broken                  \* history: a per cent sign was asked for

given == <<puts, str>>
conv == <<width, zeropfx, value, base, tmpbuf>>
uart == <<thr, tsr, line>>
con == <<con_pc, given, pos, conv, pending, uart, meant, broken>>

Digits == <<"0", "1", "2", "3", "4", "5", "6", "7", "8", "9", "a", "b", "c", "d", "e", "f">>
DigitValue(c) == IF c = "2" THEN 2 ELSE 0        \* of the digits Formats has
IsDigit(c) == c \in {"0", "2"}

At(p) == IF p <= Len(str) THEN str[p] ELSE "end"

-----------------------------------------------------------------------------
(* What is to be seen. *)

Numeral(v, b) ==
  LET p == PowerOf(b)
      k == CHOOSE n \in 1 .. UintLimit : v < p[n] /\ (n = 1 \/ v >= p[n - 1])
  IN [j \in 1 .. k |-> Digits[((v \div p[k - j]) % b) + 1]]

Filled(s, c, w) == [j \in 1 .. (IF w > Len(s) THEN w - Len(s) ELSE 0) |-> c] \o s

-----------------------------------------------------------------------------
(* putc and serial_putc: a character is written when the UART has sent the *)
(* one before.                                                             *)

Writing == con_pc # "done" /\ pending # <<>>

Putc ==
  /\ Writing /\ thr = <<>> /\ tsr = <<>>
  /\ thr' = <<Head(pending)>> /\ pending' = Tail(pending)
  /\ UNCHANGED <<con_pc, given, pos, conv, tsr, line, meant, broken>>

(* The UART on its own. *)
Shift ==
  /\ \/ thr # <<>> /\ tsr = <<>> /\ tsr' = thr /\ thr' = <<>> /\ UNCHANGED line
     \/ tsr # <<>> /\ line' = line \o tsr /\ tsr' = <<>> /\ UNCHANGED thr
  /\ UNCHANGED <<con_pc, given, pos, conv, pending, meant, broken>>

Put(s) == pending' = s /\ meant' = meant \o s

(* A line feed goes out behind a carriage return, unless the format has    *)
(* one there or, beginning with the line feed, goes on behind it.          *)
NeedsCR ==
  /\ str[pos] = "LF"
  /\ puts \/ (IF pos > 1 THEN str[pos - 1] # "CR" ELSE At(pos + 1) = "end")

Plain ==
  /\ con_pc = "scan" /\ pending = <<>> /\ pos <= Len(str) /\ (puts \/ str[pos] # "%")
  /\ Put((IF NeedsCR THEN <<"CR">> ELSE <<>>) \o <<str[pos]>>)
  /\ pos' = pos + 1
  /\ UNCHANGED <<con_pc, given, conv, uart, broken>>

Finish ==
  /\ con_pc = "scan" /\ pending = <<>> /\ pos > Len(str)
  /\ con_pc' = IF pos = Len(str) + 1 THEN "done" ELSE "lost"
  /\ UNCHANGED <<given, pos, conv, pending, uart, meant, broken>>

(* A width is a 0 and the digits that follow, if any do. *)
WidthEnd(p) == CHOOSE q \in p .. Len(str) + 1 :
                 ~IsDigit(At(q)) /\ \A k \in p .. q - 1 : IsDigit(str[k])
WidthValue(p) ==
  LET w[q \in p - 1 .. Len(str)] ==
        IF q = p - 1 THEN 0 ELSE (w[q - 1] * 10 + DigitValue(str[q])) % UintLimit
  IN w[WidthEnd(p) - 1]

Percent ==
  /\ con_pc = "scan" /\ pending = <<>> /\ ~puts /\ pos <= Len(str) /\ str[pos] = "%"
  /\ IF At(pos + 1) = "0" /\ IsDigit(At(pos + 2))
     THEN zeropfx' = TRUE /\ width' = WidthValue(pos + 2) /\ pos' = WidthEnd(pos + 2)
     ELSE /\ zeropfx' = FALSE /\ width' = 0
          /\ pos' = IF At(pos + 1) = "0" THEN pos + 2 ELSE pos + 1
  /\ con_pc' = "convert"
  /\ UNCHANGED <<given, value, base, tmpbuf, pending, uart, meant, broken>>

Padding == IF zeropfx THEN "0" ELSE "SP"

Unsigned ==
  /\ con_pc = "convert" /\ At(pos) \in {"u", "x"}
  /\ value' \in Values /\ base' = (IF At(pos) = "u" THEN 10 ELSE 16)
  /\ tmpbuf' = <<>> /\ con_pc' = "digits"
  /\ meant' = meant \o Filled(Numeral(value', base'), Padding, width)
  /\ UNCHANGED <<given, pos, width, zeropfx, pending, uart, broken>>

(* print_fmt_one; the padding first, as long as there is too little.       *)
PrintFmtOne(s) == pending' = Filled(s, Padding, width)

(* uintptr_to_dec and _to_hex: the digits come low end first, one at least *)
(* for a zero, and are turned round.  Mutated: none for a zero.            *)
DigitsLeftNone == value # 0
DigitsLeft == value # 0 \/ tmpbuf = <<>>

ToDigits ==
  /\ con_pc = "digits"
  /\ IF DigitsLeft
     THEN /\ tmpbuf' = Append(tmpbuf, Digits[(value % base) + 1])
          /\ value' = value \div base /\ UNCHANGED <<con_pc, pos, pending>>
     ELSE /\ PrintFmtOne([j \in 1 .. Len(tmpbuf) |-> tmpbuf[Len(tmpbuf) + 1 - j]])
          /\ con_pc' = "scan" /\ pos' = pos + 1 /\ UNCHANGED <<tmpbuf, value>>
  /\ UNCHANGED <<given, width, zeropfx, base, uart, meant, broken>>

Text ==
  /\ con_pc = "convert" /\ At(pos) = "s"
  /\ \E s \in Strings : PrintFmtOne(s) /\ meant' = meant \o Filled(s, Padding, width)
  /\ pos' = pos + 1 /\ con_pc' = "scan"
  /\ UNCHANGED <<given, conv, uart, broken>>

(* The place is moved on twice, and what follows the sign is not seen.     *)
Sign ==
  /\ con_pc = "convert" /\ At(pos) = "%"
  /\ Put(<<"%">>) /\ pos' = pos + 2 /\ broken' = TRUE /\ con_pc' = "scan"
  /\ UNCHANGED <<given, conv, uart>>

Other ==
  /\ con_pc = "convert" /\ At(pos) \notin {"u", "x", "s", "%"}
  /\ IF At(pos) = "end"
     THEN Put(<<"%">>) /\ UNCHANGED pos
     ELSE Put(<<"%", str[pos]>>) /\ pos' = pos + 1
  /\ con_pc' = "scan"
  /\ UNCHANGED <<given, conv, uart, broken>>

-----------------------------------------------------------------------------
ConInit ==
  /\ con_pc = "scan" /\ pos = 1
  /\ puts \in BOOLEAN /\ str \in (IF puts THEN Strings ELSE Formats)
  /\ width = 0 /\ zeropfx = FALSE /\ value = 0 /\ base = 10 /\ tmpbuf = <<>>
  /\ pending = <<>> /\ thr = <<>> /\ tsr = <<>>
  /\ line = <<>> /\ meant = <<>> /\ broken = FALSE

ConNext ==
  \/ Putc \/ Shift \/ Plain \/ Finish \/ Percent \/ Unsigned \/ ToDigits \/ Text
  \/ Sign \/ Other

ConSpec == ConInit /\ [][ConNext]_con

-----------------------------------------------------------------------------
(* Every character meant goes out once and in its place: numbers with all  *)
(* of their digits and none in front, filled up to the width, and none is  *)
(* written over another that the UART still has.  Not held beyond a "%%",  *)
(* which no format of the loader has: the character behind it is left out. *)
ShowsWhatIsMeant ==
  /\ ~broken /\ con_pc # "digits" => line \o tsr \o thr \o pending = meant
  /\ Len(tmpbuf) <= (IF base = 10 THEN TmpDec ELSE TmpHex)
=============================================================================
