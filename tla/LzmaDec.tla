------------------------------ MODULE LzmaDec ------------------------------
(***************************************************************************)
(* lzma_uncompress, as main.c of stage 2 calls it, and the LZMA decoder    *)
(* below it, at the level of the stream's symbols.  What the range decoder *)
(* makes of the next bytes is a choice: a symbol and the number of bytes   *)
(* it takes, at most Required of them.  The bytes of a symbol are taken    *)
(* before each of its bits, so the last one may be left to the next symbol *)
(* (late), or to the NORMALIZE behind the loop.                            *)
(*                                                                         *)
(* The dictionary is the destination itself and is never rewound, so that  *)
(* dicPos is processedPos as well.  LzmaDecode hands over all of its input *)
(* in one call, so that tempBuf is empty whenever the loop of DecodeToDic  *)
(* is entered: the branch for a filled one, which only a caller that feeds *)
(* the decoder piece by piece reaches, is left out.                        *)
(***************************************************************************)
EXTENDS Integers, Sequences

CONSTANTS
  PropsSize,              \* LZMA_PROPS_SIZE, 5
  SizeField,              \* sizeof(uint64_t)
  RcInitSize,             \* RC_INIT_SIZE, 5
  Required,               \* LZMA_REQUIRED_INPUT_MAX, 20
  MatchMinLen,            \* kMatchMinLen, 2
  MatchSpecLenStart,      \* kMatchSpecLenStart, 274
  DicMin,                 \* LZMA_DIC_MIN, 4096
  Word,                   \* 2^32
  CompSizes,              \* sizes a stage-3 header may announce
  OutSizes, DicSizes,     \* sizes a stream may announce
  Distances, Lengths      \* distances and lengths, less 1 and MatchMinLen

ASSUME StreamAssumption ==
  /\ PropsSize \in Nat /\ SizeField \in Nat /\ RcInitSize \in Nat
  /\ Required \in Nat /\ MatchMinLen \in Nat \ {0} /\ DicMin \in Nat \ {0}
  /\ Word \in Nat \ {0} /\ CompSizes \subseteq 0 .. Word - 1
  /\ OutSizes \subseteq 0 .. Word - 1 /\ DicSizes \subseteq 0 .. Word - 1
  /\ Distances \subseteq Nat /\ Lengths \subseteq Nat /\ MatchSpecLenStart \in Nat
  /\ \A l \in Lengths : MatchMinLen + l < MatchSpecLenStart

VARIABLES
  pc, ret,
  comp_size, too_large, unsupported, real_decomp_size,  \* what is unpacked
  srcLen,                 \* *srcLen of LzmaDecode
  buf,                    \* bytes of the source taken
  late,                   \* whether the last symbol left one to be taken
  dicPos, dicSize, checkDicSize, remainLen, reps,
  dic,                    \* per byte of the destination, where it stems from
  limit, bufLimit,
  next,                   \* the symbol TryDummy has seen
  meant,                  \* history: what the symbols decoded stand for
  misjudged               \* history: a distance was, or was not, refused wrongly

input == <<comp_size, too_large, unsupported, real_decomp_size, dicSize>>
local == <<limit, bufLimit, next>>
out   == <<dicPos, dic, reps, meant>>
vars  == <<pc, ret, input, srcLen, buf, late, checkDicSize, remainLen, local, out,
           misjudged>>

dicBufSize == real_decomp_size
Positions  == 0 .. dicBufSize - 1
Unwritten  == -1
NoSymbol   == [kind |-> "none", dist |-> 0, len |-> 0, n |-> 0, late |-> 0]

(* dist of a "rep" is its index, len of an "end" is not looked at. *)
Symbols ==
  {s \in [kind : {"literal", "shortrep"}, dist : {0}, len : {0}, n : 0 .. Required, late : 0 .. 1]
         \cup [kind : {"match"}, dist : Distances, len : Lengths, n : 0 .. Required, late : 0 .. 1]
         \cup [kind : {"rep"}, dist : 0 .. 3, len : Lengths, n : 0 .. Required, late : 0 .. 1]
         \cup [kind : {"end"}, dist : {0}, len : {0, 1}, n : 0 .. Required, late : 0 .. 1]
     : s.late <= s.n}

-----------------------------------------------------------------------------
(* What the stream means, whatever the decoder does: each byte is named by *)
(* the position of the literal it stems from, a match repeats the bytes    *)
(* from its distance on, those it makes itself included.                   *)

Repeated(d, n) ==
  meant \o [j \in 1 .. n |-> meant[Len(meant) - d + 1 + ((j - 1) % d)]]

Least(a, b) == IF a < b THEN a ELSE b

(* A match must not begin before the output or the dictionary does. *)
Meaningful(d) == d <= Len(meant) /\ d <= dicSize

-----------------------------------------------------------------------------
Return(r) == pc' = "done" /\ ret' = r

(* What precedes the stream's size is taken off. *)
SourceLength == (comp_size - PropsSize) % Word

(* LzmaProps_Decode *)
DicSize(n) == IF n < DicMin THEN DicMin ELSE n

(* lzma_uncompress up to the loop of LzmaDec_DecodeToDic. *)
Uncompress ==
  /\ pc = "start"
  /\ srcLen' = IF too_large THEN srcLen ELSE SourceLength
  /\ IF too_large THEN Return("ENOTSUPP")
     ELSE IF srcLen' < RcInitSize THEN Return("INPUT_EOF")
     ELSE IF unsupported THEN Return("UNSUPPORTED")
     ELSE pc' = "flush" /\ UNCHANGED ret
  /\ UNCHANGED <<input, buf, late, checkDicSize, remainLen, local, out, misjudged>>

(* The first byte of a stream is 0. *)
InitRc ==
  /\ pc = "flush"
  /\ buf' = RcInitSize
  /\ \/ Return("DATA")
     \/ pc' = "check" /\ UNCHANGED ret
  /\ UNCHANGED <<input, srcLen, late, checkDicSize, remainLen, local, out, misjudged>>

Full == dicPos >= dicBufSize

(* The condition of the while loop: an end mark was decoded. *)
FinishWithMark ==
  /\ pc = "check" /\ remainLen = MatchSpecLenStart
  /\ \E code \in {0, 1} : Return(IF code = 0 THEN "OK" ELSE "DATA")
  /\ UNCHANGED <<input, srcLen, buf, late, checkDicSize, remainLen, local, out, misjudged>>

(* Full, and nothing, or an unfinished match, is left of the last symbol:  *)
(* the code of a stream without an end mark is 0 now.                      *)
FinishFull ==
  /\ pc = "check" /\ remainLen # MatchSpecLenStart /\ Full
  /\ Return(IF remainLen = 0 THEN "OK" ELSE "DATA")
  /\ UNCHANGED <<input, srcLen, buf, late, checkDicSize, remainLen, local, out, misjudged>>

IsMatch(s) == s.kind \in {"match", "end"}

(* Mutated: a byte is kept back too few. *)
BufLimitPast == srcLen - Required + 1
BufLimit == srcLen - Required

(* TryDummy looks at the next symbol where its bytes may be missing or it  *)
(* must be an end mark; elsewhere as many symbols are decoded as are sure  *)
(* to be there.                                                            *)
TryDummy ==
  /\ pc = "check" /\ remainLen # MatchSpecLenStart
  /\ Full => remainLen = 0
  /\ srcLen - buf < Required \/ Full
  /\ \E s \in Symbols :
       IF s.n > srcLen - buf
       THEN Return("INPUT_EOF") /\ UNCHANGED local
       ELSE IF Full /\ ~IsMatch(s)
       THEN Return("DATA") /\ UNCHANGED local
       ELSE /\ next' = s /\ bufLimit' = buf
            /\ pc' = "real2" /\ UNCHANGED <<ret, limit>>
  /\ UNCHANGED <<input, srcLen, buf, late, checkDicSize, remainLen, out, misjudged>>

EnoughInput ==
  /\ pc = "check" /\ remainLen # MatchSpecLenStart
  /\ ~Full /\ srcLen - buf >= Required
  /\ next' = NoSymbol /\ bufLimit' = BufLimit
  /\ pc' = "real2"
  /\ UNCHANGED <<ret, input, srcLen, buf, late, checkDicSize, remainLen, limit, out,
                 misjudged>>

-----------------------------------------------------------------------------
(* LzmaDec_DecodeReal2: while the dictionary has not been filled once, not *)
(* past the place where it has.                                            *)
Limit2 == IF checkDicSize = 0 THEN Least(dicBufSize, dicSize) ELSE dicBufSize

DecodeReal2 ==
  /\ pc = "real2"
  /\ limit' = Limit2 /\ pc' = "real"
  /\ UNCHANGED <<ret, input, srcLen, buf, late, checkDicSize, remainLen,
                 bufLimit, next, out, misjudged>>

(* LzmaDec_DecodeReal, one turn of its loop at a time. *)
Decodes(kind) == {s \in IF next = NoSymbol THEN Symbols ELSE {next} : s.kind = kind}

(* The bytes taken when a symbol was decoded, but for its late one. *)
Taken(s) == buf + late + s.n - s.late

(* The end of a turn, with len bytes of the symbol not yet written. *)
Turn(s, len) ==
  /\ remainLen' = len
  /\ IF dicPos' < limit /\ Taken(s) < bufLimit
     THEN buf' = Taken(s) /\ late' = s.late /\ UNCHANGED pc
     ELSE buf' = Taken(s) + s.late /\ late' = 0 /\ pc' = "rem"
  /\ UNCHANGED ret

Fail(s) ==
  /\ buf' = Taken(s) /\ late' = s.late /\ Return("DATA")
  /\ UNCHANGED <<remainLen, out>>

(* Whether a distance was taken for what it is. *)
Judged(d, accepted) == misjudged' = (misjudged \/ accepted # Meaningful(d))

Literal(s) ==
  /\ dic' = [dic EXCEPT ![dicPos] = dicPos]
  /\ dicPos' = dicPos + 1
  /\ meant' = Append(meant, Len(meant))
  /\ Turn(s, 0) /\ UNCHANGED <<reps, misjudged>>

(* Where a byte rep0 behind position p lies in the dictionary. *)
Source(p, rep0) == (p - rep0) + (IF p < rep0 THEN dicBufSize ELSE 0)

(* n bytes are copied one after the other, later ones from earlier ones.   *)
(* Mutated: all at once.                                                   *)
CopiedAtOnce(rep0, n) ==
  [p \in Positions |-> IF p \in dicPos .. dicPos + n - 1 THEN dic[Source(p, rep0)] ELSE dic[p]]
Copied(rep0, n) ==
  LET c[p \in Positions] ==
        IF p \notin dicPos .. dicPos + n - 1 THEN dic[p]
        ELSE IF Source(p, rep0) < p THEN c[Source(p, rep0)] ELSE dic[Source(p, rep0)]
  IN c

(* The first symbol cannot repeat anything. *)
Nothing == checkDicSize = 0 /\ dicPos = 0

ShortRep(s) ==
  IF Nothing THEN Fail(s) /\ Judged(reps[0], FALSE)
  ELSE /\ dic' = Copied(reps[0], 1) /\ dicPos' = dicPos + 1
       /\ meant' = Repeated(reps[0], 1)
       /\ Turn(s, 0) /\ UNCHANGED reps /\ Judged(reps[0], TRUE)

(* Mutated: a distance that reaches the byte before the first. *)
TooFarPast(d) == IF checkDicSize = 0 THEN d > dicPos ELSE d > checkDicSize
TooFar(d) == IF checkDicSize = 0 THEN d >= dicPos ELSE d >= checkDicSize

(* reps with the i-th, or a new distance, in front. *)
Rotated(i) == [j \in 0 .. 3 |-> IF j = 0 THEN reps[i] ELSE IF j <= i THEN reps[j - 1] ELSE reps[j]]
Pushed(d)  == [j \in 0 .. 3 |-> IF j = 0 THEN d + 1 ELSE reps[j - 1]]

(* A match is written up to the limit and the rest left to WriteRem. *)
Copy(s, r) ==
  LET len == s.len + MatchMinLen
      n   == Least(limit - dicPos, len)
  IN  /\ Judged(r[0], TRUE)
      /\ IF limit = dicPos THEN Fail(s)
         ELSE /\ reps' = r
              /\ dic' = Copied(r[0], n) /\ dicPos' = dicPos + n
              /\ meant' = Repeated(r[0], len)
              /\ Turn(s, len - n)

Match(s) ==
  IF TooFar(s.dist) THEN Fail(s) /\ Judged(s.dist + 1, FALSE)
                    ELSE Copy(s, Pushed(s.dist))
Rep(s) ==
  IF Nothing THEN Fail(s) /\ Judged(reps[s.dist], FALSE)
             ELSE Copy(s, Rotated(s.dist))

EndMark(s) ==
  /\ remainLen' = MatchSpecLenStart + s.len
  /\ buf' = Taken(s) + s.late /\ late' = 0 /\ pc' = "rem"
  /\ UNCHANGED <<ret, out, misjudged>>

DecodeReal ==
  /\ pc = "real"
  /\ \/ \E s \in Decodes("literal")  : Literal(s)
     \/ \E s \in Decodes("shortrep") : ShortRep(s)
     \/ \E s \in Decodes("rep")      : Rep(s)
     \/ \E s \in Decodes("match")    : Match(s)
     \/ \E s \in Decodes("end")      : EndMark(s)
  /\ UNCHANGED <<input, srcLen, checkDicSize, local>>

(* Behind DecodeReal: LzmaDec_WriteRem and the loop of DecodeReal2.        *)
Rest == IF remainLen < MatchSpecLenStart THEN Least(dicBufSize - dicPos, remainLen) ELSE 0

(* Any end mark ends the stream.  Mutated: only one of the least length. *)
MarkedAsIs == remainLen
Marked == MatchSpecLenStart

WriteRem ==
  /\ pc = "rem"
  /\ dic' = Copied(reps[0], Rest) /\ dicPos' = dicPos + Rest
  /\ checkDicSize' = IF dicPos' >= dicSize THEN dicSize ELSE checkDicSize
  /\ IF remainLen >= MatchSpecLenStart
     THEN remainLen' = Marked /\ pc' = "check"
     ELSE /\ remainLen' = remainLen - Rest
          /\ pc' = IF dicPos' < dicBufSize /\ buf < bufLimit THEN "real2" ELSE "check"
  /\ UNCHANGED <<ret, input, srcLen, buf, late, reps, meant, local, misjudged>>

-----------------------------------------------------------------------------
Init ==
  /\ pc = "start" /\ ret = "none"
  /\ comp_size \in CompSizes /\ too_large \in BOOLEAN /\ unsupported \in BOOLEAN
  /\ real_decomp_size \in OutSizes
  /\ \E n \in DicSizes : dicSize = DicSize(n)
  /\ srcLen = 0 /\ buf = 0 /\ late = 0
  /\ dicPos = 0 /\ checkDicSize = 0 /\ remainLen = 0
  /\ reps = [i \in 0 .. 3 |-> 1]
  /\ dic = [p \in Positions |-> Unwritten]
  /\ limit = 0 /\ bufLimit = 0 /\ next = NoSymbol
  /\ meant = <<>> /\ misjudged = FALSE

Next == \/ Uncompress \/ InitRc \/ FinishWithMark \/ FinishFull \/ TryDummy
        \/ EnoughInput \/ DecodeReal2 \/ DecodeReal \/ WriteRem

Spec == Init /\ [][Next]_vars /\ WF_vars(Next)

-----------------------------------------------------------------------------
TypeOK ==
  /\ pc \in {"start", "flush", "check", "real2", "real", "rem", "done"}
  /\ ret \in {"none", "OK", "DATA", "INPUT_EOF", "UNSUPPORTED", "ENOTSUPP"}
  /\ comp_size \in 0 .. Word - 1 /\ real_decomp_size \in 0 .. Word - 1
  /\ too_large \in BOOLEAN /\ unsupported \in BOOLEAN
  /\ srcLen \in 0 .. Word - 1 /\ buf \in Nat /\ late \in 0 .. 1
  /\ dicPos \in Nat /\ dicSize \in Nat \ {0} /\ checkDicSize \in {0, dicSize}
  /\ remainLen \in Nat /\ reps \in [0 .. 3 -> Nat \ {0}]
  /\ limit \in Nat /\ bufLimit \in Int /\ next \in Symbols \cup {NoSymbol}

(* The decoder writes to no byte behind the destination, reads none behind *)
(* the source it was told of, which ends as many bytes behind the payload  *)
(* as the size field is long, and repeats no byte that is not yet written. *)
StaysInItsBuffers ==
  /\ dicPos <= dicBufSize
  /\ pc # "done" => buf + late <= srcLen
  /\ buf <= srcLen
  /\ comp_size >= PropsSize => PropsSize + buf <= comp_size
  /\ dicPos > 0 => \A i \in 0 .. 3 : reps[i] <= dicPos

(* What is in the destination is what the stream means, at every moment    *)
(* and wherever matches were cut: nothing is left out, and nothing at all  *)
(* when the stream is accepted.                                            *)
WritesWhatIsMeant ==
  /\ \A p \in 0 .. dicPos - 1 : dic[p] = meant[p + 1]
  /\ remainLen < MatchSpecLenStart => dicPos + remainLen = Len(meant)
  /\ ret = "OK" => dicPos = Len(meant)

(* A distance is refused if and only if it leads out of what was written,  *)
(* or out of the dictionary the stream was made with.                      *)
DistancesAreJudgedRight == ~misjudged

(* The decoder comes to an end, whatever the bytes are. *)
UnpackEnds == <>(pc = "done")
=============================================================================
