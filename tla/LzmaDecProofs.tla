---------------------------- MODULE LzmaDecProofs ----------------------------
(***************************************************************************)
(* For any stream, of any sizes, and any constants of the format: the LZMA *)
(* decoder reads no byte behind its source and writes none behind its      *)
(* destination, never repeats a byte it has not written, and makes of the  *)
(* stream the bytes that it means.                                         *)
(***************************************************************************)
EXTENDS LzmaDec, SequenceTheorems, WellFoundedInduction, TLAPS

Started == pc \notin {"start", "flush"}

(* The bytes taken, and the one still to be taken, are the source's.       *)
InputKept ==
  /\ buf + late <= srcLen
  /\ comp_size >= PropsSize => PropsSize + srcLen <= comp_size
  /\ pc \notin {"real", "done"} => late = 0
  /\ pc = "start" => srcLen = 0
  /\ ~Started => buf = 0
  /\ pc = "flush" => RcInitSize <= srcLen

(* The symbols decoded next are there: the one TryDummy has seen, or, as   *)
(* long as bufLimit is not reached, any.                                   *)
Fed ==
  /\ pc \in {"real2", "real"} =>
       /\ next = NoSymbol => buf + late + Required <= srcLen
       /\ next # NoSymbol => buf + late + next.n <= srcLen
  /\ pc \in {"real2", "real", "rem"} =>
       /\ next = NoSymbol => bufLimit = srcLen - Required
       /\ next # NoSymbol => bufLimit <= buf

(* There is room for the next symbol, unless it is one that is refused if  *)
(* there is none; and the dictionary is known to be full when it is.       *)
Refusable == next # NoSymbol /\ IsMatch(next)

OutputKept ==
  /\ dicPos <= dicBufSize
  /\ pc \notin {"real", "rem", "done"} /\ checkDicSize = 0 => dicPos < dicSize
  /\ checkDicSize # 0 => dicSize <= dicPos
  /\ pc = "real2" => dicPos < dicBufSize \/ Refusable
  /\ pc = "real" => /\ dicPos <= limit /\ limit <= dicBufSize
                    /\ dicPos < limit \/ Refusable

(* A distance kept is the initial one, or lies in what is written. *)
RepsKept == \A i \in 0 .. 3 : reps[i] = 1 \/ reps[i] <= dicPos

IInv == TypeOK /\ InputKept /\ Fed /\ OutputKept /\ RepsKept

-----------------------------------------------------------------------------
(* What a symbol is made of. *)
LEMMA SymbolType ==
  ASSUME NEW s \in Symbols
  PROVE  /\ s.n \in Nat /\ s.n <= Required /\ s.late \in 0 .. 1 /\ s.late <= s.n
         /\ s.dist \in Nat /\ s.len \in Nat /\ s # NoSymbol
         /\ s.kind = "rep" => s.dist \in 0 .. 3
<1>1. /\ PropsSize \in Nat /\ Required \in Nat /\ Distances \subseteq Nat
      /\ Lengths \subseteq Nat
  BY StreamAssumption
<1>2. s.late <= s.n
  BY DEF Symbols
<1>3. \/ s \in [kind : {"literal", "shortrep"}, dist : {0}, len : {0}, n : 0 .. Required, late : 0 .. 1]
      \/ s \in [kind : {"match"}, dist : Distances, len : Lengths, n : 0 .. Required, late : 0 .. 1]
      \/ s \in [kind : {"rep"}, dist : 0 .. 3, len : Lengths, n : 0 .. Required, late : 0 .. 1]
      \/ s \in [kind : {"end"}, dist : {0}, len : {0, 1}, n : 0 .. Required, late : 0 .. 1]
  BY DEF Symbols
<1>4. s.n \in 0 .. Required /\ s.late \in 0 .. 1
  BY <1>3
<1>5. s.kind \in {"literal", "shortrep", "match", "rep", "end"}
  BY <1>3
<1>6. s.dist \in Nat /\ s.len \in Nat /\ (s.kind = "rep" => s.dist \in 0 .. 3)
  <2>1. CASE s \in [kind : {"literal", "shortrep"}, dist : {0}, len : {0}, n : 0 .. Required, late : 0 .. 1]
    BY <2>1
  <2>2. CASE s \in [kind : {"match"}, dist : Distances, len : Lengths, n : 0 .. Required, late : 0 .. 1]
    <3>1. s.kind = "match" /\ s.dist \in Distances /\ s.len \in Lengths
      BY <2>2
    <3>. QED
      BY <1>1, <3>1
  <2>3. CASE s \in [kind : {"rep"}, dist : 0 .. 3, len : Lengths, n : 0 .. Required, late : 0 .. 1]
    <3>1. s.dist \in 0 .. 3 /\ s.len \in Lengths
      BY <2>3
    <3>2. s.dist \in Nat
      BY <3>1
    <3>3. s.len \in Nat
      BY <1>1, <3>1
    <3>. QED
      BY <3>1, <3>2, <3>3
  <2>4. CASE s \in [kind : {"end"}, dist : {0}, len : {0, 1}, n : 0 .. Required, late : 0 .. 1]
    BY <2>4
  <2>. QED
    BY <1>3, <2>1, <2>2, <2>3, <2>4
<1>7. s # NoSymbol
  BY <1>5 DEF NoSymbol
<1>. QED
  BY <1>1, <1>2, <1>4, <1>6, <1>7

(* The bytes of the symbol decoded are there. *)
LEMMA SymbolIsThere ==
  ASSUME TypeOK, InputKept, Fed, pc = "real", NEW kind, NEW s \in Decodes(kind)
  PROVE  /\ s \in Symbols /\ s.kind = kind
         /\ Taken(s) \in Nat /\ Taken(s) + s.late <= srcLen
         /\ next # NoSymbol => s = next /\ bufLimit <= Taken(s)
<1>1. s \in Symbols /\ s.kind = kind /\ (next # NoSymbol => s = next)
  BY DEF Decodes, TypeOK
<1>2. /\ s.n \in Nat /\ s.n <= Required /\ s.late \in 0 .. 1 /\ s.late <= s.n
      /\ Required \in Nat
  BY <1>1, SymbolType, StreamAssumption
<1>3. buf \in Nat /\ late \in 0 .. 1 /\ srcLen \in Int /\ bufLimit \in Int
  BY DEF TypeOK
<1>4. Taken(s) \in Nat /\ buf <= Taken(s) /\ Taken(s) + s.late = buf + late + s.n
  BY <1>2, <1>3 DEF Taken
<1>5. CASE next = NoSymbol
  <2>1. buf + late + Required <= srcLen
    BY <1>5 DEF Fed
  <2>. QED
    BY <1>1, <1>2, <1>3, <1>4, <1>5, <2>1
<1>6. CASE next # NoSymbol
  <2>1. buf + late + s.n <= srcLen /\ bufLimit <= buf
    BY <1>1, <1>6 DEF Fed
  <2>. QED
    BY <1>1, <1>2, <1>3, <1>4, <2>1
<1>. QED
  BY <1>5, <1>6

(* The end of a turn keeps what was shown of the input. *)
LEMMA TurnKeeps ==
  ASSUME TypeOK, InputKept, Fed, pc = "real", NEW kind, NEW s \in Decodes(kind),
         NEW len \in Nat, Turn(s, len), UNCHANGED <<input, srcLen, checkDicSize, local>>
  PROVE  /\ InputKept' /\ Fed' /\ buf' \in Nat /\ late' \in 0 .. 1 /\ remainLen' = len
         /\ ret' = ret
         /\ pc' = "rem" \/ (pc' = "real" /\ dicPos' < limit)
<1>1. /\ s \in Symbols /\ Taken(s) \in Nat /\ Taken(s) + s.late <= srcLen
      /\ next # NoSymbol => s = next /\ bufLimit <= Taken(s)
  BY SymbolIsThere
<1>2. s.late \in 0 .. 1 /\ Required \in Nat
  BY <1>1, SymbolType, StreamAssumption
<1>3. srcLen \in Int /\ bufLimit \in Int
  BY DEF TypeOK
<1>4. /\ srcLen' = srcLen /\ comp_size' = comp_size /\ bufLimit' = bufLimit
      /\ next' = next /\ remainLen' = len /\ ret' = ret
  BY DEF Turn, input, local
<1>5. CASE dicPos' < limit /\ Taken(s) < bufLimit
  <2>1. buf' = Taken(s) /\ late' = s.late /\ pc' = "real"
    BY <1>5 DEF Turn
  <2>2. next = NoSymbol
    BY <1>1, <1>3, <1>5
  <2>3. bufLimit = srcLen - Required
    BY <2>2 DEF Fed
  <2>4. InputKept'
    BY <1>1, <1>4, <2>1 DEF InputKept, Started
  <2>5. Fed'
    BY <1>1, <1>2, <1>3, <1>4, <1>5, <2>1, <2>2, <2>3 DEF Fed
  <2>. QED
    BY <1>1, <1>2, <1>4, <1>5, <2>1, <2>4, <2>5
<1>6. CASE ~(dicPos' < limit /\ Taken(s) < bufLimit)
  <2>1. buf' = Taken(s) + s.late /\ late' = 0 /\ pc' = "rem"
    BY <1>6 DEF Turn
  <2>2. InputKept'
    BY <1>1, <1>2, <1>4, <2>1 DEF InputKept, Started
  <2>3. next = NoSymbol => bufLimit = srcLen - Required
    BY DEF Fed
  <2>4. Fed'
    BY <1>1, <1>2, <1>3, <1>4, <2>1, <2>3 DEF Fed
  <2>. QED
    BY <1>1, <1>2, <1>4, <2>1, <2>2, <2>4
<1>. QED
  BY <1>5, <1>6

(* A symbol that is refused. *)
LEMMA FailKeeps ==
  ASSUME IInv, pc = "real", NEW kind, NEW s \in Decodes(kind),
         Fail(s), UNCHANGED <<input, srcLen, checkDicSize, local>>
  PROVE  IInv'
<1> USE DEF IInv
<1>1. /\ s \in Symbols /\ Taken(s) \in Nat /\ Taken(s) + s.late <= srcLen
  BY SymbolIsThere
<1>2. s.late \in 0 .. 1
  BY <1>1, SymbolType
<1>3. buf' = Taken(s) /\ late' = s.late /\ pc' = "done" /\ ret' = "DATA"
  BY DEF Fail, Return
<1>4. TypeOK'
  BY <1>1, <1>2, <1>3 DEF TypeOK, Fail, out, input, local
<1>5. InputKept' /\ Fed'
  BY <1>1, <1>3 DEF InputKept, Fed, Started, input
<1>6. OutputKept' /\ RepsKept'
  BY <1>3 DEF OutputKept, RepsKept, Fail, out, input, dicBufSize
<1>. QED
  BY <1>4, <1>5, <1>6

(* A symbol that writes up to n bytes, and keeps distances that lie in     *)
(* what was written.                                                       *)
LEMMA WriteKeeps ==
  ASSUME IInv, pc = "real", NEW kind, NEW s \in Decodes(kind),
         NEW len \in Nat, Turn(s, len), UNCHANGED <<input, srcLen, checkDicSize, local>>,
         dicPos' \in Nat, dicPos < dicPos', dicPos' <= limit,
         reps' \in [0 .. 3 -> Nat \ {0}],
         \A i \in 0 .. 3 : reps'[i] = 1 \/ reps'[i] <= dicPos
  PROVE  IInv'
<1> USE DEF IInv
<1>1. /\ InputKept' /\ Fed' /\ buf' \in Nat /\ late' \in 0 .. 1 /\ remainLen' = len
      /\ ret' = ret
      /\ pc' = "rem" \/ (pc' = "real" /\ dicPos' < limit)
  BY TurnKeeps
<1>2. TypeOK'
  BY <1>1 DEF TypeOK, input, local
<1>3. OutputKept'
  <2>1. /\ limit' = limit /\ dicSize' = dicSize /\ checkDicSize' = checkDicSize
        /\ dicBufSize' = dicBufSize /\ limit <= dicBufSize
        /\ limit \in Nat /\ dicBufSize \in Nat /\ dicPos \in Nat /\ dicSize \in Nat
    BY DEF input, local, OutputKept, dicBufSize, TypeOK
  <2>2. checkDicSize # 0 => dicSize <= dicPos
    BY DEF OutputKept
  <2>. QED
    BY <1>1, <2>1, <2>2 DEF OutputKept
<1>4. RepsKept'
  BY <1>2 DEF RepsKept, TypeOK
<1>. QED
  BY <1>1, <1>2, <1>3, <1>4

-----------------------------------------------------------------------------
(* Where a literal or a single byte is decoded there is room for it. *)
LEMMA RoomForOne ==
  ASSUME IInv, pc = "real", NEW kind \in {"literal", "shortrep", "rep"},
         NEW s \in Decodes(kind)
  PROVE  dicPos < limit
<1>1. s.kind = kind /\ (next # NoSymbol => s = next)
  BY SymbolIsThere DEF IInv
<1>2. kind \notin {"match", "end"}
  OBVIOUS
<1>3. ~Refusable
  BY <1>1, <1>2 DEF Refusable, IsMatch
<1>. QED
  BY <1>3 DEF IInv, OutputKept

LEMMA LeastOf ==
  ASSUME NEW a \in Nat, NEW c \in Nat
  PROVE  Least(a, c) \in Nat /\ Least(a, c) <= a /\ Least(a, c) <= c
         /\ (a > 0 /\ c > 0 => Least(a, c) > 0)
BY DEF Least

(* A match keeps the invariant if its distances lie in what was written. *)
LEMMA CopyKeeps ==
  ASSUME IInv, pc = "real", NEW kind, NEW s \in Decodes(kind),
         NEW r \in [0 .. 3 -> Nat \ {0}],
         \A i \in 0 .. 3 : r[i] = 1 \/ r[i] <= dicPos,
         Copy(s, r), UNCHANGED <<input, srcLen, checkDicSize, local>>
  PROVE  IInv'
<1>1. s \in Symbols
  BY SymbolIsThere DEF IInv
<1>2. s.len \in Nat /\ MatchMinLen \in Nat \ {0}
  BY <1>1, SymbolType, StreamAssumption
<1>3. limit \in Nat /\ dicPos \in Nat /\ dicPos <= limit
  BY DEF IInv, TypeOK, OutputKept
<1>4. CASE limit = dicPos
  <2>1. Fail(s)
    BY <1>4 DEF Copy
  <2>. QED
    BY <2>1, FailKeeps
<1>5. CASE limit # dicPos
  <2> DEFINE len == s.len + MatchMinLen
             n   == Least(limit - dicPos, len)
  <2>1. /\ reps' = r /\ dicPos' = dicPos + n /\ Turn(s, len - n)
    BY <1>5 DEF Copy
  <2>2. len \in Nat /\ len > 0 /\ limit - dicPos \in Nat /\ limit - dicPos > 0
    BY <1>2, <1>3, <1>5
  <2>3. n \in Nat /\ n <= limit - dicPos /\ n <= len /\ n > 0
    <3> HIDE DEF len
    <3>. QED
      BY <2>2, LeastOf
  <2> HIDE DEF len, n
  <2>4. /\ dicPos' \in Nat /\ dicPos < dicPos' /\ dicPos' <= limit
        /\ len - n \in Nat
    BY <1>3, <2>1, <2>2, <2>3
  <2>. QED
    BY <2>1, <2>4, WriteKeeps
<1>. QED
  BY <1>4, <1>5

LEMMA LiteralKeeps ==
  ASSUME IInv, pc = "real", NEW s \in Decodes("literal"), Literal(s),
         UNCHANGED <<input, srcLen, checkDicSize, local>>
  PROVE  IInv'
<1>1. dicPos' = dicPos + 1 /\ reps' = reps /\ Turn(s, 0)
  BY DEF Literal
<1>2. dicPos < limit /\ dicPos \in Nat /\ limit \in Nat
  BY RoomForOne DEF IInv, TypeOK
<1>3. dicPos' \in Nat /\ dicPos < dicPos' /\ dicPos' <= limit
  BY <1>1, <1>2
<1>4. /\ reps' \in [0 .. 3 -> Nat \ {0}]
      /\ \A i \in 0 .. 3 : reps'[i] = 1 \/ reps'[i] <= dicPos
  BY <1>1 DEF IInv, TypeOK, RepsKept
<1>. QED
  BY <1>1, <1>3, <1>4, WriteKeeps

LEMMA ShortRepKeeps ==
  ASSUME IInv, pc = "real", NEW s \in Decodes("shortrep"), ShortRep(s),
         UNCHANGED <<input, srcLen, checkDicSize, local>>
  PROVE  IInv'
<1>1. CASE Nothing
  <2>1. Fail(s)
    BY <1>1 DEF ShortRep
  <2>. QED
    BY <2>1, FailKeeps
<1>2. CASE ~Nothing
  <2>1. dicPos' = dicPos + 1 /\ reps' = reps /\ Turn(s, 0)
    BY <1>2 DEF ShortRep
  <2>2. dicPos < limit /\ dicPos \in Nat /\ limit \in Nat
    BY RoomForOne DEF IInv, TypeOK
  <2>3. dicPos' \in Nat /\ dicPos < dicPos' /\ dicPos' <= limit
    BY <2>1, <2>2
  <2>4. /\ reps' \in [0 .. 3 -> Nat \ {0}]
        /\ \A i \in 0 .. 3 : reps'[i] = 1 \/ reps'[i] <= dicPos
    BY <2>1 DEF IInv, TypeOK, RepsKept
  <2>. QED
    BY <2>1, <2>3, <2>4, WriteKeeps
<1>. QED
  BY <1>1, <1>2

LEMMA RepKeeps ==
  ASSUME IInv, pc = "real", NEW s \in Decodes("rep"), Rep(s),
         UNCHANGED <<input, srcLen, checkDicSize, local>>
  PROVE  IInv'
<1>1. CASE Nothing
  <2>1. Fail(s)
    BY <1>1 DEF Rep
  <2>. QED
    BY <2>1, FailKeeps
<1>2. CASE ~Nothing
  <2>1. Copy(s, Rotated(s.dist))
    BY <1>2 DEF Rep
  <2>2. s.dist \in 0 .. 3
    <3>1. s \in Symbols /\ s.kind = "rep"
      BY SymbolIsThere DEF IInv
    <3>. QED
      BY <3>1, SymbolType
  <2>3. \A j \in 0 .. 3 : j # 0 => j - 1 \in 0 .. 3
    OBVIOUS
  <2>4. reps \in [0 .. 3 -> Nat \ {0}] /\ \A i \in 0 .. 3 : reps[i] = 1 \/ reps[i] <= dicPos
    BY DEF IInv, TypeOK, RepsKept
  <2>5. /\ Rotated(s.dist) \in [0 .. 3 -> Nat \ {0}]
        /\ \A i \in 0 .. 3 : Rotated(s.dist)[i] = 1 \/ Rotated(s.dist)[i] <= dicPos
    BY <2>2, <2>3, <2>4 DEF Rotated
  <2>. QED
    BY <2>1, <2>5, CopyKeeps
<1>. QED
  BY <1>1, <1>2

LEMMA MatchKeeps ==
  ASSUME IInv, pc = "real", NEW s \in Decodes("match"), Match(s),
         UNCHANGED <<input, srcLen, checkDicSize, local>>
  PROVE  IInv'
<1>1. CASE TooFar(s.dist)
  <2>1. Fail(s)
    BY <1>1 DEF Match
  <2>. QED
    BY <2>1, FailKeeps
<1>2. CASE ~TooFar(s.dist)
  <2>1. Copy(s, Pushed(s.dist))
    BY <1>2 DEF Match
  <2>2. s.dist \in Nat
    <3>1. s \in Symbols
      BY SymbolIsThere DEF IInv
    <3>. QED
      BY <3>1, SymbolType
  <2>3. s.dist + 1 \in Nat \ {0} /\ s.dist + 1 <= dicPos
    <3>1. /\ dicPos \in Nat /\ checkDicSize \in {0, dicSize} /\ dicSize \in Nat
          /\ checkDicSize # 0 => dicSize <= dicPos
      BY DEF IInv, TypeOK, OutputKept
    <3>. QED
      BY <1>2, <2>2, <3>1 DEF TooFar
  <2>4. \A j \in 0 .. 3 : j # 0 => j - 1 \in 0 .. 3
    OBVIOUS
  <2>5. reps \in [0 .. 3 -> Nat \ {0}] /\ \A i \in 0 .. 3 : reps[i] = 1 \/ reps[i] <= dicPos
    BY DEF IInv, TypeOK, RepsKept
  <2>6. /\ Pushed(s.dist) \in [0 .. 3 -> Nat \ {0}]
        /\ \A i \in 0 .. 3 : Pushed(s.dist)[i] = 1 \/ Pushed(s.dist)[i] <= dicPos
    BY <2>3, <2>4, <2>5 DEF Pushed
  <2>. QED
    BY <2>1, <2>6, CopyKeeps
<1>. QED
  BY <1>1, <1>2

(* An end mark writes nothing and leaves the loop. *)
LEMMA EndMarkKeeps ==
  ASSUME IInv, pc = "real", NEW s \in Decodes("end"), EndMark(s),
         UNCHANGED <<input, srcLen, checkDicSize, local>>
  PROVE  IInv'
<1> USE DEF IInv
<1>1. /\ s \in Symbols /\ Taken(s) \in Nat /\ Taken(s) + s.late <= srcLen
      /\ next # NoSymbol => bufLimit <= Taken(s)
  BY SymbolIsThere
<1>2. s.late \in 0 .. 1 /\ s.len \in Nat /\ MatchSpecLenStart \in Nat
  BY <1>1, SymbolType, StreamAssumption
<1>3. /\ remainLen' = MatchSpecLenStart + s.len /\ buf' = Taken(s) + s.late
      /\ late' = 0 /\ pc' = "rem" /\ ret' = ret
      /\ dicPos' = dicPos /\ reps' = reps
  BY DEF EndMark, out
<1>4. /\ comp_size' = comp_size /\ too_large' = too_large /\ unsupported' = unsupported
      /\ real_decomp_size' = real_decomp_size /\ dicSize' = dicSize
      /\ limit' = limit /\ bufLimit' = bufLimit /\ next' = next
      /\ srcLen' = srcLen /\ checkDicSize' = checkDicSize
  BY DEF input, local
<1>5. buf' \in Nat /\ remainLen' \in Nat
  BY <1>1, <1>2, <1>3
<1>6. TypeOK'
  BY <1>3, <1>4, <1>5 DEF TypeOK
<1>7. InputKept'
  BY <1>1, <1>3, <1>4, <1>5 DEF InputKept, Started
<1>8. Fed'
  <2>1. next = NoSymbol => bufLimit = srcLen - Required
    BY DEF Fed
  <2>2. bufLimit \in Int
    BY DEF TypeOK
  <2>. QED
    BY <1>1, <1>2, <1>3, <1>4, <2>1, <2>2 DEF Fed
<1>9. OutputKept' /\ RepsKept'
  BY <1>3, <1>4 DEF OutputKept, RepsKept, dicBufSize
<1>. QED
  BY <1>6, <1>7, <1>8, <1>9

LEMMA DecodeRealKeeps ==
  ASSUME IInv, DecodeReal
  PROVE  IInv'
<1>1. pc = "real" /\ UNCHANGED <<input, srcLen, checkDicSize, local>>
  BY DEF DecodeReal
<1>2. \/ \E s \in Decodes("literal")  : Literal(s)
      \/ \E s \in Decodes("shortrep") : ShortRep(s)
      \/ \E s \in Decodes("rep")      : Rep(s)
      \/ \E s \in Decodes("match")    : Match(s)
      \/ \E s \in Decodes("end")      : EndMark(s)
  BY DEF DecodeReal
<1>3. CASE \E s \in Decodes("literal") : Literal(s)
  BY <1>1, <1>3, LiteralKeeps
<1>4. CASE \E s \in Decodes("shortrep") : ShortRep(s)
  BY <1>1, <1>4, ShortRepKeeps
<1>5. CASE \E s \in Decodes("rep") : Rep(s)
  BY <1>1, <1>5, RepKeeps
<1>6. CASE \E s \in Decodes("match") : Match(s)
  BY <1>1, <1>6, MatchKeeps
<1>7. CASE \E s \in Decodes("end") : EndMark(s)
  BY <1>1, <1>7, EndMarkKeeps
<1>. QED
  BY <1>2, <1>3, <1>4, <1>5, <1>6, <1>7

-----------------------------------------------------------------------------
(* The loops around it. *)
LEMMA InitIInv ==
  ASSUME Init
  PROVE  IInv
<1>1. /\ pc = "start" /\ ret = "none" /\ srcLen = 0 /\ buf = 0 /\ late = 0
      /\ dicPos = 0 /\ checkDicSize = 0 /\ remainLen = 0
      /\ limit = 0 /\ bufLimit = 0 /\ next = NoSymbol
      /\ too_large \in BOOLEAN /\ unsupported \in BOOLEAN
  BY DEF Init
<1>2. Word \in Nat \ {0} /\ comp_size \in 0 .. Word - 1 /\ real_decomp_size \in 0 .. Word - 1
  BY StreamAssumption DEF Init
<1>3. dicSize \in Nat \ {0}
  <2>1. PICK n \in DicSizes : dicSize = DicSize(n)
    BY DEF Init
  <2>2. n \in Nat /\ DicMin \in Nat \ {0}
    BY <2>1, StreamAssumption
  <2>. QED
    BY <2>1, <2>2 DEF DicSize
<1>4. reps = [i \in 0 .. 3 |-> 1]
  BY DEF Init
<1>5. TypeOK
  BY <1>1, <1>2, <1>3, <1>4 DEF TypeOK
<1>6. InputKept
  BY <1>1, <1>2, StreamAssumption DEF InputKept, Started
<1>7. Fed
  BY <1>1 DEF Fed
<1>8. OutputKept
  BY <1>1, <1>2, <1>3 DEF OutputKept, dicBufSize
<1>9. RepsKept
  BY <1>4 DEF RepsKept
<1>. QED
  BY <1>5, <1>6, <1>7, <1>8, <1>9 DEF IInv

(* Where the function returns nothing has to be kept but what holds. *)
LEMMA ReturnKeeps ==
  ASSUME IInv, NEW r \in {"OK", "DATA", "INPUT_EOF"}, Return(r),
         UNCHANGED <<input, srcLen, buf, late, checkDicSize, remainLen, local, out>>,
         pc # "start"
  PROVE  IInv'
<1> USE DEF IInv
<1>1. pc' = "done" /\ ret' = r
  BY DEF Return
<1>2. TypeOK'
  BY <1>1 DEF TypeOK, input, local, out
<1>3. InputKept' /\ Fed'
  BY <1>1 DEF InputKept, Fed, Started, input
<1>4. OutputKept' /\ RepsKept'
  BY <1>1 DEF OutputKept, RepsKept, dicBufSize, input, out
<1>. QED
  BY <1>2, <1>3, <1>4

LEMMA UncompressKeeps ==
  ASSUME IInv, Uncompress
  PROVE  IInv'
<1> USE DEF IInv
<1>1. /\ pc = "start" /\ srcLen = 0 /\ buf = 0 /\ late = 0
  BY DEF Uncompress, InputKept, Started
<1>2. UNCHANGED <<input, buf, late, checkDicSize, remainLen, local, out>>
  BY DEF Uncompress
<1>3. /\ pc' \in {"flush", "done"}
      /\ ret' \in {"none", "OK", "DATA", "INPUT_EOF", "UNSUPPORTED", "ENOTSUPP"}
      /\ pc' = "flush" => ~(srcLen' < RcInitSize)
  BY DEF Uncompress, Return, TypeOK
<1>4. /\ srcLen' \in 0 .. Word - 1
      /\ comp_size >= PropsSize => PropsSize + srcLen' <= comp_size
  <2>1. /\ comp_size \in 0 .. Word - 1 /\ PropsSize \in Nat /\ Word \in Nat \ {0}
    BY StreamAssumption DEF TypeOK
  <2>2. CASE too_large
    BY <1>1, <2>1, <2>2 DEF Uncompress
  <2>3. CASE ~too_large
    <3>1. srcLen' = (comp_size - PropsSize) % Word
      BY <2>3 DEF Uncompress, SourceLength
    <3>2. srcLen' \in 0 .. Word - 1
      BY <2>1, <3>1
    <3>3. CASE comp_size >= PropsSize
      <4> DEFINE x == comp_size - PropsSize
      <4>1. x \in Nat /\ x < Word
        BY <2>1, <3>3
      <4>2. x % Word = x
        <5> HIDE DEF x
        <5>. QED
          BY <2>1, <4>1
      <4>. QED
        BY <2>1, <3>1, <3>2, <4>2
    <3>. QED
      BY <3>2, <3>3
  <2>. QED
    BY <2>2, <2>3
<1>5. TypeOK'
  BY <1>2, <1>3, <1>4 DEF TypeOK, input, local, out
<1>6. InputKept'
  <2>1. RcInitSize \in Nat
    BY StreamAssumption
  <2>. QED
    BY <1>1, <1>2, <1>3, <1>4, <2>1 DEF InputKept, Started, input
<1>7. Fed'
  BY <1>3 DEF Fed
<1>8. OutputKept' /\ RepsKept'
  BY <1>1, <1>2, <1>3 DEF OutputKept, RepsKept, dicBufSize, input, out
<1>. QED
  BY <1>5, <1>6, <1>7, <1>8

LEMMA InitRcKeeps ==
  ASSUME IInv, InitRc
  PROVE  IInv'
<1> USE DEF IInv
<1>1. /\ pc = "flush" /\ buf' = RcInitSize /\ pc' \in {"check", "done"}
      /\ ret' \in {ret, "DATA"} /\ late = 0
  BY DEF InitRc, Return, InputKept
<1>2. UNCHANGED <<input, srcLen, late, checkDicSize, remainLen, local, out>>
  BY DEF InitRc
<1>3. RcInitSize \in Nat
  BY StreamAssumption
<1>4. TypeOK'
  BY <1>1, <1>2, <1>3 DEF TypeOK, input, local, out
<1>5. InputKept' /\ Fed'
  BY <1>1, <1>2, <1>3 DEF InputKept, Fed, Started, input
<1>6. OutputKept' /\ RepsKept'
  BY <1>1, <1>2 DEF OutputKept, RepsKept, dicBufSize, input, out
<1>. QED
  BY <1>4, <1>5, <1>6

LEMMA TryDummyKeeps ==
  ASSUME IInv, TryDummy
  PROVE  IInv'
<1>1. PICK s \in Symbols :
         IF s.n > srcLen - buf
         THEN Return("INPUT_EOF") /\ UNCHANGED local
         ELSE IF Full /\ ~IsMatch(s)
         THEN Return("DATA") /\ UNCHANGED local
         ELSE /\ next' = s /\ bufLimit' = buf
              /\ pc' = "real2" /\ UNCHANGED <<ret, limit>>
  BY DEF TryDummy
<1>2. /\ pc = "check"
      /\ UNCHANGED <<input, srcLen, buf, late, checkDicSize, remainLen, out>>
  BY DEF TryDummy
<1>3. CASE s.n > srcLen - buf
  BY <1>1, <1>2, <1>3, ReturnKeeps
<1>4. CASE ~(s.n > srcLen - buf) /\ Full /\ ~IsMatch(s)
  BY <1>1, <1>2, <1>4, ReturnKeeps
<1>5. CASE ~(s.n > srcLen - buf) /\ ~(Full /\ ~IsMatch(s))
  <2> USE DEF IInv
  <2>1. next' = s /\ bufLimit' = buf /\ pc' = "real2" /\ ret' = ret /\ limit' = limit
    BY <1>1, <1>5
  <2>2. s # NoSymbol /\ s.n \in Nat
    BY SymbolType
  <2>3. late = 0 /\ buf \in Nat /\ srcLen \in Int
    BY <1>2 DEF InputKept, TypeOK
  <2>4. TypeOK'
    BY <1>2, <2>1, <2>3 DEF TypeOK, input, out
  <2>5. InputKept'
    BY <1>2, <2>1 DEF InputKept, Started, input
  <2>6. Fed'
    <3>1. buf + late + s.n <= srcLen
      BY <1>5, <2>2, <2>3
    <3>. QED
      BY <1>2, <2>1, <2>2, <2>3, <3>1 DEF Fed
  <2>7. OutputKept'
    <3>1. dicPos < dicBufSize \/ IsMatch(s)
      BY <1>5 DEF Full, TypeOK, dicBufSize
    <3>2. Refusable' <=> IsMatch(s)
      BY <2>1, <2>2 DEF Refusable, IsMatch
    <3>. QED
      BY <1>2, <2>1, <3>1, <3>2 DEF OutputKept, dicBufSize, input, out
  <2>8. RepsKept'
    BY <1>2 DEF RepsKept, out
  <2>. QED
    BY <2>4, <2>5, <2>6, <2>7, <2>8
<1>. QED
  BY <1>3, <1>4, <1>5

LEMMA EnoughInputKeeps ==
  ASSUME IInv, EnoughInput
  PROVE  IInv'
<1> USE DEF IInv
<1>1. /\ pc = "check" /\ ~Full /\ srcLen - buf >= Required
      /\ next' = NoSymbol /\ bufLimit' = srcLen - Required /\ pc' = "real2"
      /\ ret' = ret /\ limit' = limit
      /\ UNCHANGED <<input, srcLen, buf, late, checkDicSize, remainLen, out>>
  BY DEF EnoughInput, BufLimit
<1>2. late = 0 /\ buf \in Nat /\ srcLen \in Nat /\ Required \in Nat
  BY <1>1, StreamAssumption DEF InputKept, TypeOK
<1>3. TypeOK'
  BY <1>1, <1>2 DEF TypeOK, input, out
<1>4. InputKept' /\ Fed'
  BY <1>1, <1>2 DEF InputKept, Fed, Started, input
<1>5. OutputKept' /\ RepsKept'
  <2>1. dicPos < dicBufSize
    BY <1>1 DEF Full, TypeOK, dicBufSize
  <2>. QED
    BY <1>1, <2>1 DEF OutputKept, RepsKept, dicBufSize, input, out
<1>. QED
  BY <1>3, <1>4, <1>5

LEMMA DecodeReal2Keeps ==
  ASSUME IInv, DecodeReal2
  PROVE  IInv'
<1> USE DEF IInv
<1>1. /\ pc = "real2" /\ limit' = Limit2 /\ pc' = "real"
      /\ UNCHANGED <<ret, input, srcLen, buf, late, checkDicSize, remainLen,
                     bufLimit, next, out>>
  BY DEF DecodeReal2
<1>2. /\ dicPos \in Nat /\ dicSize \in Nat /\ dicBufSize \in Nat
      /\ dicPos <= dicBufSize
      /\ checkDicSize = 0 => dicPos < dicSize
      /\ dicPos < dicBufSize \/ Refusable
  BY <1>1 DEF TypeOK, OutputKept, dicBufSize
<1>3. /\ Limit2 \in Nat /\ dicPos <= Limit2 /\ Limit2 <= dicBufSize
      /\ dicPos < Limit2 \/ Refusable
  BY <1>2 DEF Limit2, Least
<1>4. TypeOK'
  BY <1>1, <1>3 DEF TypeOK, input, out
<1>5. InputKept' /\ Fed'
  BY <1>1 DEF InputKept, Fed, Started, input
<1>6. Refusable' <=> Refusable
  BY <1>1 DEF Refusable, IsMatch
<1>7. OutputKept' /\ RepsKept'
  BY <1>1, <1>3, <1>6 DEF OutputKept, RepsKept, dicBufSize, input, out
<1>. QED
  BY <1>4, <1>5, <1>7

LEMMA WriteRemKeeps ==
  ASSUME IInv, WriteRem
  PROVE  IInv'
<1> USE DEF IInv
<1>1. /\ pc = "rem" /\ dicPos' = dicPos + Rest
      /\ checkDicSize' = IF dicPos' >= dicSize THEN dicSize ELSE checkDicSize
      /\ UNCHANGED <<ret, input, srcLen, buf, late, reps, local>>
  BY DEF WriteRem
<1>2. /\ dicPos \in Nat /\ dicSize \in Nat \ {0} /\ dicBufSize \in Nat
      /\ dicPos <= dicBufSize /\ remainLen \in Nat /\ MatchSpecLenStart \in Nat
      /\ checkDicSize \in {0, dicSize}
      /\ checkDicSize # 0 => dicSize <= dicPos
  BY StreamAssumption DEF TypeOK, OutputKept, dicBufSize
<1>3. Rest \in Nat /\ dicPos + Rest <= dicBufSize /\ Rest <= remainLen
  BY <1>2 DEF Rest, Least
<1>4. remainLen' \in Nat /\ pc' \in {"real2", "check"}
  BY <1>2, <1>3 DEF WriteRem, Marked
<1>5. pc' = "real2" => dicPos' < dicBufSize /\ buf < bufLimit
  BY DEF WriteRem
<1>6. /\ dicPos' \in Nat /\ dicPos <= dicPos' /\ dicPos' <= dicBufSize
      /\ checkDicSize' \in {0, dicSize}
      /\ checkDicSize' = 0 => dicPos' < dicSize
      /\ checkDicSize' # 0 => dicSize <= dicPos'
  BY <1>1, <1>2, <1>3
<1>7. TypeOK'
  BY <1>1, <1>4, <1>6 DEF TypeOK, input, local
<1>8. InputKept'
  BY <1>1, <1>4 DEF InputKept, Started, input
<1>9. Fed'
  <2>1. /\ buf \in Nat /\ bufLimit \in Int /\ srcLen \in Int /\ late = 0
        /\ Required \in Nat
    BY <1>1, StreamAssumption DEF TypeOK, InputKept
  <2>2. /\ next = NoSymbol => bufLimit = srcLen - Required
        /\ next # NoSymbol => bufLimit <= buf
    BY <1>1 DEF Fed
  <2>3. pc' = "real2" => next = NoSymbol /\ buf + late + Required <= srcLen
    BY <1>5, <2>1, <2>2
  <2>4. /\ next' = next /\ bufLimit' = bufLimit /\ buf' = buf /\ late' = late
        /\ srcLen' = srcLen
    BY <1>1 DEF local
  <2>. QED
    BY <1>4, <2>2, <2>3, <2>4 DEF Fed
<1>10. OutputKept'
  <2>1. dicBufSize' = dicBufSize /\ dicSize' = dicSize
    BY <1>1 DEF input, dicBufSize
  <2>. QED
    BY <1>4, <1>5, <1>6, <2>1 DEF OutputKept
<1>11. RepsKept'
  BY <1>1, <1>2, <1>6 DEF RepsKept, TypeOK
<1>. QED
  BY <1>7, <1>8, <1>9, <1>10, <1>11

-----------------------------------------------------------------------------
LEMMA NextIInv ==
  ASSUME IInv, [Next]_vars
  PROVE  IInv'
<1>1. CASE Uncompress
  BY <1>1, UncompressKeeps
<1>2. CASE InitRc
  BY <1>2, InitRcKeeps
<1>3. CASE FinishWithMark
  <2>1. \E r \in {"OK", "DATA"} : Return(r)
    BY <1>3 DEF FinishWithMark
  <2>2. /\ pc = "check"
        /\ UNCHANGED <<input, srcLen, buf, late, checkDicSize, remainLen, local, out>>
    BY <1>3 DEF FinishWithMark
  <2>. QED
    BY <2>1, <2>2, ReturnKeeps
<1>4. CASE FinishFull
  <2>1. \E r \in {"OK", "DATA"} : Return(r)
    BY <1>4 DEF FinishFull
  <2>2. /\ pc = "check"
        /\ UNCHANGED <<input, srcLen, buf, late, checkDicSize, remainLen, local, out>>
    BY <1>4 DEF FinishFull
  <2>. QED
    BY <2>1, <2>2, ReturnKeeps
<1>5. CASE TryDummy
  BY <1>5, TryDummyKeeps
<1>6. CASE EnoughInput
  BY <1>6, EnoughInputKeeps
<1>7. CASE DecodeReal2
  BY <1>7, DecodeReal2Keeps
<1>8. CASE DecodeReal
  BY <1>8, DecodeRealKeeps
<1>9. CASE WriteRem
  BY <1>9, WriteRemKeeps
<1>10. CASE UNCHANGED vars
  <2>1. TypeOK'
    BY <1>10 DEF IInv, TypeOK, vars, input, local, out
  <2>2. InputKept' /\ Fed'
    BY <1>10 DEF IInv, InputKept, Started, Fed, vars, input, local, out
  <2>3. OutputKept' /\ RepsKept'
    BY <1>10 DEF IInv, OutputKept, RepsKept, Refusable, IsMatch, dicBufSize, vars,
                 input, local, out
  <2>. QED
    BY <2>1, <2>2, <2>3 DEF IInv
<1>. QED
  BY <1>1, <1>2, <1>3, <1>4, <1>5, <1>6, <1>7, <1>8, <1>9, <1>10 DEF Next

LEMMA Inductive == Spec => []IInv
<1>1. Init => IInv
  BY InitIInv
<1>2. IInv /\ [Next]_vars => IInv'
  BY NextIInv
<1>. QED
  BY <1>1, <1>2, PTL DEF Spec

(* Every value stays in its range: lengths and positions wrap nowhere. *)
THEOREM TypeCorrect == Spec => []TypeOK
<1>1. IInv => TypeOK
  BY DEF IInv
<1>. QED
  BY <1>1, Inductive, PTL

(* The decoder writes to no byte behind the destination, takes none behind *)
(* the source, and repeats none that is not written yet: for every stream, *)
(* one cut short and one that lies about its sizes included.               *)
THEOREM NoByteIsBeyond == Spec => []StaysInItsBuffers
<1>1. IInv => StaysInItsBuffers
  <2> SUFFICES ASSUME IInv
               PROVE  StaysInItsBuffers
    OBVIOUS
  <2>1. /\ dicPos <= dicBufSize /\ dicPos \in Nat /\ buf \in Nat /\ late \in 0 .. 1
        /\ srcLen \in Nat /\ comp_size \in Nat /\ PropsSize \in Nat
    BY StreamAssumption DEF IInv, OutputKept, TypeOK
  <2>2. buf + late <= srcLen /\ (comp_size >= PropsSize => PropsSize + srcLen <= comp_size)
    BY DEF IInv, InputKept
  <2>3. \A i \in 0 .. 3 : reps[i] \in Nat /\ (reps[i] = 1 \/ reps[i] <= dicPos)
    BY DEF IInv, RepsKept, TypeOK
  <2>4. dicPos > 0 => \A i \in 0 .. 3 : reps[i] <= dicPos
    BY <2>1, <2>3
  <2>. QED
    BY <2>1, <2>2, <2>4 DEF StaysInItsBuffers
<1>. QED
  BY <1>1, Inductive, PTL

-----------------------------------------------------------------------------
(* Distances: what the stream means is as long as what is written and what *)
(* is still to be written of a match together, so that the comparison with *)
(* dicPos, or with the dictionary's size once that much is written, is the *)
(* right one.                                                              *)
Left == IF remainLen < MatchSpecLenStart THEN remainLen ELSE 0

Meaning ==
  /\ meant \in Seq(Nat)
  /\ pc # "done" => Len(meant) = dicPos + Left
  /\ pc \in {"start", "flush", "real2", "real"} => remainLen = 0
  /\ pc = "check" => remainLen \in {0, MatchSpecLenStart} \/ dicPos = dicBufSize
  /\ pc = "real" => checkDicSize # 0 \/ limit <= dicSize
  /\ \A i \in 0 .. 3 : reps[i] <= dicSize
  /\ misjudged = FALSE

LEMMA RepeatedIs ==
  ASSUME meant \in Seq(Nat), NEW d \in Nat \ {0}, d <= Len(meant), NEW n \in Nat
  PROVE  Repeated(d, n) \in Seq(Nat) /\ Len(Repeated(d, n)) = Len(meant) + n
<1> DEFINE tail == [j \in 1 .. n |-> meant[Len(meant) - d + 1 + ((j - 1) % d)]]
<1>1. Len(meant) \in Nat
  OBVIOUS
<1>2. ASSUME NEW j \in 1 .. n
      PROVE  meant[Len(meant) - d + 1 + ((j - 1) % d)] \in Nat
  <2> DEFINE m == (j - 1) % d
  <2>1. m \in 0 .. d - 1
    OBVIOUS
  <2>2. Len(meant) - d + 1 + m \in 1 .. Len(meant)
    <3> HIDE DEF m
    <3>. QED
      BY <1>1, <2>1
  <2> HIDE DEF m
  <2>3. meant[Len(meant) - d + 1 + m] \in Nat
    BY <2>2
  <2>. QED
    BY <2>3 DEF m
<1>3. tail \in [1 .. n -> Nat]
  BY <1>2
<1>4. tail \in Seq(Nat) /\ Len(tail) = n
  <2> HIDE DEF tail
  <2>. QED
    BY <1>3
<1>5. Repeated(d, n) = meant \o tail
  BY DEF Repeated
<1>6. /\ meant \o tail \in Seq(Nat)
      /\ Len(meant \o tail) = Len(meant) + Len(tail)
  <2> HIDE DEF tail
  <2>. QED
    BY <1>4, ConcatProperties
<1> HIDE DEF tail
<1>. QED
  BY <1>4, <1>5, <1>6

(* What may be repeated, in terms of the decoder. *)
LEMMA MeaningfulIs ==
  ASSUME IInv, Meaning, pc = "real", NEW d \in Nat
  PROVE  /\ Meaningful(d) <=> d <= dicPos /\ d <= dicSize
         /\ Len(meant) = dicPos
<1>1. Len(meant) = dicPos
  <2>1. Left = 0
    BY DEF Meaning, Left
  <2>. QED
    BY <2>1 DEF Meaning, IInv, TypeOK
<1>. QED
  BY <1>1 DEF Meaningful

LEMMA FailMeans ==
  ASSUME IInv, Meaning, pc = "real", NEW s, NEW d \in Nat, Fail(s), Judged(d, FALSE),
         ~(d <= dicPos /\ d <= dicSize), UNCHANGED <<input, srcLen, checkDicSize, local>>
  PROVE  Meaning'
<1>1. pc' = "done" /\ meant' = meant /\ reps' = reps /\ dicSize' = dicSize
  BY DEF Fail, Return, out, input
<1>2. misjudged' = FALSE
  <2>1. ~Meaningful(d)
    BY MeaningfulIs
  <2>2. misjudged = FALSE
    BY DEF Meaning
  <2>3. misjudged' = (misjudged \/ FALSE # Meaningful(d))
    BY DEF Judged
  <2>4. Meaningful(d) = FALSE
    BY <2>1 DEF Meaningful
  <2>. QED
    BY <2>2, <2>3, <2>4
<1>. QED
  BY <1>1, <1>2 DEF Meaning

(* What is accepted was written. *)
LEMMA AcceptMeans ==
  ASSUME IInv, Meaning, pc = "real", NEW d \in Nat, d <= dicPos, d <= dicSize,
         Judged(d, TRUE)
  PROVE  /\ misjudged' = FALSE
         /\ meant \in Seq(Nat) /\ Len(meant) \in Nat /\ d <= Len(meant)
<1>1. Meaningful(d) /\ Len(meant) = dicPos
  BY MeaningfulIs
<1>2. misjudged = FALSE /\ meant \in Seq(Nat)
  BY DEF Meaning
<1>3. misjudged' = (misjudged \/ TRUE # Meaningful(d))
  BY DEF Judged
<1>4. misjudged' = FALSE
  BY <1>1, <1>2, <1>3 DEF Meaningful
<1>. QED
  BY <1>1, <1>2, <1>4 DEF IInv, TypeOK

(* A turn that writes n bytes of the len + n that its symbol stands for. *)
LEMMA TurnMeans ==
  ASSUME IInv, Meaning, pc = "real", NEW s, NEW n \in Nat, NEW len \in Nat,
         Turn(s, len), dicPos' = dicPos + n, len # 0 => dicPos' = limit,
         len = 0 \/ len < MatchSpecLenStart,
         meant' \in Seq(Nat), Len(meant') = Len(meant) + n + len,
         reps' \in [0 .. 3 -> Nat \ {0}], \A i \in 0 .. 3 : reps'[i] <= dicSize,
         misjudged' = FALSE, UNCHANGED <<input, srcLen, checkDicSize, local>>
  PROVE  Meaning'
<1>1. /\ dicPos \in Nat /\ Len(meant) = dicPos /\ limit \in Nat
      /\ MatchSpecLenStart \in Nat
  BY MeaningfulIs, StreamAssumption DEF IInv, TypeOK
<1>2. /\ remainLen' = len /\ limit' = limit /\ dicSize' = dicSize
      /\ checkDicSize' = checkDicSize
      /\ pc' = "rem" \/ (pc' = pc /\ dicPos' < limit)
  BY DEF Turn, local, input
<1>3. Left' = len
  BY <1>1, <1>2 DEF Left
<1>4. Len(meant') = dicPos' + Left'
  BY <1>1, <1>3
<1>5. pc' = "real" => remainLen' = 0
  BY <1>1, <1>2
<1>6. pc' = "real" => checkDicSize' # 0 \/ limit' <= dicSize'
  BY <1>2 DEF Meaning
<1>7. pc' \in {"rem", "real"}
  BY <1>2
<1>. QED
  BY <1>2, <1>4, <1>5, <1>6, <1>7 DEF Meaning

LEMMA LiteralMeans ==
  ASSUME IInv, Meaning, pc = "real", NEW s, Literal(s),
         UNCHANGED <<input, srcLen, checkDicSize, local>>
  PROVE  Meaning'
<1>1. /\ dicPos' = dicPos + 1 /\ meant' = Append(meant, Len(meant)) /\ Turn(s, 0)
      /\ reps' = reps /\ misjudged' = misjudged
  BY DEF Literal
<1>2. meant' \in Seq(Nat) /\ Len(meant') = Len(meant) + 1 + 0
  BY <1>1 DEF Meaning
<1>3. /\ reps' \in [0 .. 3 -> Nat \ {0}] /\ \A i \in 0 .. 3 : reps'[i] <= dicSize
      /\ misjudged' = FALSE
  BY <1>1 DEF Meaning, IInv, TypeOK
<1>. QED
  BY <1>1, <1>2, <1>3, TurnMeans

(* A kept distance may be repeated unless nothing is written. *)
LEMMA KeptMeans ==
  ASSUME IInv, Meaning, pc = "real", NEW i \in 0 .. 3
  PROVE  /\ reps[i] \in Nat \ {0}
         /\ Nothing => ~(reps[i] <= dicPos /\ reps[i] <= dicSize)
         /\ ~Nothing => reps[i] <= dicPos /\ reps[i] <= dicSize
<1>1. /\ reps[i] \in Nat \ {0} /\ reps[i] <= dicSize /\ dicPos \in Nat
      /\ dicSize \in Nat \ {0} /\ (reps[i] = 1 \/ reps[i] <= dicPos)
      /\ (checkDicSize # 0 => dicSize <= dicPos)
  BY DEF IInv, TypeOK, RepsKept, Meaning, OutputKept
<1>. QED
  BY <1>1 DEF Nothing

LEMMA ShortRepMeans ==
  ASSUME IInv, Meaning, pc = "real", NEW s, ShortRep(s),
         UNCHANGED <<input, srcLen, checkDicSize, local>>
  PROVE  Meaning'
<1>1. /\ reps[0] \in Nat \ {0}
      /\ Nothing => ~(reps[0] <= dicPos /\ reps[0] <= dicSize)
      /\ ~Nothing => reps[0] <= dicPos /\ reps[0] <= dicSize
  BY KeptMeans
<1>2. CASE Nothing
  BY <1>1, <1>2, FailMeans DEF ShortRep
<1>3. CASE ~Nothing
  <2>1. /\ dicPos' = dicPos + 1 /\ meant' = Repeated(reps[0], 1) /\ Turn(s, 0)
        /\ reps' = reps /\ Judged(reps[0], TRUE)
    BY <1>3 DEF ShortRep
  <2>2. /\ misjudged' = FALSE
        /\ meant \in Seq(Nat) /\ Len(meant) \in Nat /\ reps[0] <= Len(meant)
    BY <1>1, <1>3, <2>1, AcceptMeans
  <2>3. meant \in Seq(Nat) /\ reps[0] <= Len(meant) /\ Len(meant) \in Nat
    BY <2>2
  <2>4. meant' \in Seq(Nat) /\ Len(meant') = Len(meant) + 1 + 0
    BY <1>1, <2>1, <2>3, RepeatedIs
  <2>5. reps' \in [0 .. 3 -> Nat \ {0}] /\ \A i \in 0 .. 3 : reps'[i] <= dicSize
    BY <2>1 DEF Meaning, IInv, TypeOK
  <2>. QED
    BY <2>1, <2>2, <2>4, <2>5, TurnMeans
<1>. QED
  BY <1>2, <1>3

(* The length of a match. *)
LEMMA LengthIs ==
  ASSUME NEW s \in Symbols, s.kind \in {"match", "rep"}
  PROVE  /\ s.len \in Nat /\ MatchMinLen \in Nat /\ MatchSpecLenStart \in Nat
         /\ s.len + MatchMinLen < MatchSpecLenStart
<1>1. s.len \in Lengths
  BY DEF Symbols
<1>2. Lengths \subseteq Nat /\ MatchMinLen \in Nat /\ MatchSpecLenStart \in Nat
  BY StreamAssumption
<1>3. MatchMinLen + s.len < MatchSpecLenStart
  BY <1>1, StreamAssumption
<1>4. s.len \in Nat
  BY <1>1, <1>2
<1>. QED
  BY <1>2, <1>3, <1>4

LEMMA CopyMeans ==
  ASSUME IInv, Meaning, pc = "real", NEW s \in Symbols, s.kind \in {"match", "rep"},
         NEW r \in [0 .. 3 -> Nat \ {0}], \A i \in 0 .. 3 : r[i] <= dicSize,
         r[0] <= dicPos,
         Copy(s, r), UNCHANGED <<input, srcLen, checkDicSize, local>>
  PROVE  Meaning'
<1>1. /\ s.len \in Nat /\ MatchMinLen \in Nat /\ MatchSpecLenStart \in Nat
      /\ s.len + MatchMinLen < MatchSpecLenStart
  BY LengthIs
<1>2. /\ limit \in Nat /\ dicPos \in Nat /\ dicPos <= limit /\ Len(meant) = dicPos
      /\ r[0] \in Nat \ {0} /\ r[0] <= dicSize /\ meant \in Seq(Nat)
  <2>1. Len(meant) = dicPos
    BY MeaningfulIs
  <2>. QED
    BY <2>1 DEF IInv, TypeOK, OutputKept, Meaning
<1>3. misjudged' = FALSE
  <2>1. Judged(r[0], TRUE)
    BY DEF Copy
  <2>. QED
    BY <1>2, <2>1, AcceptMeans
<1>4. CASE limit = dicPos
  <2>1. Fail(s)
    BY <1>4 DEF Copy
  <2>2. pc' = "done" /\ meant' = meant /\ reps' = reps /\ dicSize' = dicSize
    BY <2>1 DEF Fail, Return, out, input
  <2>. QED
    BY <1>3, <2>2 DEF Meaning
<1>5. CASE limit # dicPos
  <2> DEFINE len == s.len + MatchMinLen
             n   == Least(limit - dicPos, len)
  <2>1. /\ reps' = r /\ dicPos' = dicPos + n /\ Turn(s, len - n)
        /\ meant' = Repeated(r[0], len)
    BY <1>5 DEF Copy
  <2>2. len \in Nat /\ limit - dicPos \in Nat /\ len < MatchSpecLenStart
    BY <1>1, <1>2
  <2>3. n \in Nat /\ n <= limit - dicPos /\ n <= len
    <3> HIDE DEF len
    <3>. QED
      BY <2>2, LeastOf
  <2>4. n = len \/ n = limit - dicPos
    BY DEF Least
  <2>5. meant' \in Seq(Nat) /\ Len(meant') = Len(meant) + len
    <3> HIDE DEF len
    <3>. QED
      BY <1>2, <2>1, <2>2, RepeatedIs
  <2> HIDE DEF len, n
  <2>6. /\ len - n \in Nat /\ (len - n # 0 => dicPos' = limit)
        /\ (len - n = 0 \/ len - n < MatchSpecLenStart)
        /\ Len(meant') = Len(meant) + n + (len - n)
    BY <1>1, <1>2, <2>1, <2>2, <2>3, <2>4, <2>5
  <2>. QED
    BY <1>3, <2>1, <2>3, <2>5, <2>6, TurnMeans
<1>. QED
  BY <1>4, <1>5

LEMMA RepMeans ==
  ASSUME IInv, Meaning, pc = "real", NEW s \in Decodes("rep"), Rep(s),
         UNCHANGED <<input, srcLen, checkDicSize, local>>
  PROVE  Meaning'
<1>1. s \in Symbols /\ s.kind = "rep" /\ s.dist \in 0 .. 3
  <2>1. s \in Symbols /\ s.kind = "rep"
    BY SymbolIsThere DEF IInv
  <2>. QED
    BY <2>1, SymbolType
<1>2. /\ reps[s.dist] \in Nat \ {0}
      /\ Nothing => ~(reps[s.dist] <= dicPos /\ reps[s.dist] <= dicSize)
      /\ ~Nothing => reps[s.dist] <= dicPos /\ reps[s.dist] <= dicSize
  BY <1>1, KeptMeans
<1>3. CASE Nothing
  <2>1. Fail(s) /\ Judged(reps[s.dist], FALSE)
    BY <1>3 DEF Rep
  <2>. QED
    BY <1>2, <1>3, <2>1, FailMeans
<1>4. CASE ~Nothing
  <2>1. Copy(s, Rotated(s.dist))
    BY <1>4 DEF Rep
  <2>2. \A j \in 0 .. 3 : j # 0 => j - 1 \in 0 .. 3
    OBVIOUS
  <2>3. reps \in [0 .. 3 -> Nat \ {0}] /\ \A i \in 0 .. 3 : reps[i] <= dicSize
    BY DEF IInv, TypeOK, Meaning
  <2>4. /\ Rotated(s.dist) \in [0 .. 3 -> Nat \ {0}]
        /\ \A i \in 0 .. 3 : Rotated(s.dist)[i] <= dicSize
        /\ Rotated(s.dist)[0] = reps[s.dist]
    BY <1>1, <2>2, <2>3 DEF Rotated
  <2>. QED
    BY <1>1, <1>2, <1>4, <2>1, <2>4, CopyMeans
<1>. QED
  BY <1>3, <1>4

LEMMA MatchMeans ==
  ASSUME IInv, Meaning, pc = "real", NEW s \in Decodes("match"), Match(s),
         UNCHANGED <<input, srcLen, checkDicSize, local>>
  PROVE  Meaning'
<1>1. s \in Symbols /\ s.kind = "match" /\ s.dist \in Nat
  <2>1. s \in Symbols /\ s.kind = "match"
    BY SymbolIsThere DEF IInv
  <2>. QED
    BY <2>1, SymbolType
<1>2. /\ dicPos \in Nat /\ dicSize \in Nat \ {0} /\ checkDicSize \in {0, dicSize}
      /\ limit \in Nat /\ dicPos <= limit
      /\ checkDicSize # 0 => dicSize <= dicPos
      /\ checkDicSize # 0 \/ limit <= dicSize
  BY DEF IInv, TypeOK, OutputKept, Meaning
<1>3. /\ s.dist + 1 \in Nat \ {0}
      /\ TooFar(s.dist) => ~(s.dist + 1 <= dicPos /\ s.dist + 1 <= dicSize)
      /\ ~TooFar(s.dist) => s.dist + 1 <= dicPos /\ s.dist + 1 <= dicSize
  BY <1>1, <1>2 DEF TooFar
<1>4. CASE TooFar(s.dist)
  <2>1. Fail(s) /\ Judged(s.dist + 1, FALSE)
    BY <1>4 DEF Match
  <2>. QED
    BY <1>3, <1>4, <2>1, FailMeans
<1>5. CASE ~TooFar(s.dist)
  <2>1. Copy(s, Pushed(s.dist))
    BY <1>5 DEF Match
  <2>2. \A j \in 0 .. 3 : j # 0 => j - 1 \in 0 .. 3
    OBVIOUS
  <2>3. reps \in [0 .. 3 -> Nat \ {0}] /\ \A i \in 0 .. 3 : reps[i] <= dicSize
    BY DEF IInv, TypeOK, Meaning
  <2>4. /\ Pushed(s.dist) \in [0 .. 3 -> Nat \ {0}]
        /\ \A i \in 0 .. 3 : Pushed(s.dist)[i] <= dicSize
        /\ Pushed(s.dist)[0] = s.dist + 1
    BY <1>3, <1>5, <2>2, <2>3 DEF Pushed
  <2>. QED
    BY <1>1, <1>3, <1>5, <2>1, <2>4, CopyMeans
<1>. QED
  BY <1>4, <1>5

LEMMA DecodeRealMeans ==
  ASSUME IInv, Meaning, DecodeReal
  PROVE  Meaning'
<1>1. pc = "real" /\ UNCHANGED <<input, srcLen, checkDicSize, local>>
  BY DEF DecodeReal
<1>2. \/ \E s \in Decodes("literal")  : Literal(s)
      \/ \E s \in Decodes("shortrep") : ShortRep(s)
      \/ \E s \in Decodes("rep")      : Rep(s)
      \/ \E s \in Decodes("match")    : Match(s)
      \/ \E s \in Decodes("end")      : EndMark(s)
  BY DEF DecodeReal
<1>3. CASE \E s \in Decodes("literal") : Literal(s)
  BY <1>1, <1>3, LiteralMeans
<1>4. CASE \E s \in Decodes("shortrep") : ShortRep(s)
  BY <1>1, <1>4, ShortRepMeans
<1>5. CASE \E s \in Decodes("rep") : Rep(s)
  BY <1>1, <1>5, RepMeans
<1>6. CASE \E s \in Decodes("match") : Match(s)
  BY <1>1, <1>6, MatchMeans
<1>7. CASE \E s \in Decodes("end") : EndMark(s)
  <2>1. PICK s \in Decodes("end") : EndMark(s)
    BY <1>7
  <2>2. s \in Symbols
    BY <1>1, SymbolIsThere DEF IInv
  <2>3. s.len \in Nat /\ MatchSpecLenStart \in Nat
    BY <2>2, SymbolType, StreamAssumption
  <2>4. /\ remainLen' = MatchSpecLenStart + s.len /\ pc' = "rem" /\ dicPos' = dicPos
        /\ reps' = reps /\ meant' = meant /\ dicSize' = dicSize /\ misjudged' = misjudged
    BY <1>1, <2>1 DEF EndMark, out, input
  <2>5. Left' = 0
    BY <2>3, <2>4 DEF Left
  <2>6. Len(meant) = dicPos /\ dicPos \in Nat
    BY <1>1, MeaningfulIs DEF IInv, TypeOK
  <2>. QED
    BY <2>4, <2>5, <2>6 DEF Meaning
<1>. QED
  BY <1>2, <1>3, <1>4, <1>5, <1>6, <1>7

LEMMA WriteRemMeans ==
  ASSUME IInv, Meaning, WriteRem
  PROVE  Meaning'
<1>1. /\ pc = "rem" /\ dicPos' = dicPos + Rest
      /\ remainLen' = (IF remainLen >= MatchSpecLenStart THEN MatchSpecLenStart
                                                         ELSE remainLen - Rest)
      /\ pc' \in {"real2", "check"}
      /\ pc' = "real2" => remainLen < MatchSpecLenStart /\ dicPos' < dicBufSize
      /\ UNCHANGED <<input, reps, meant, misjudged>>
  BY StreamAssumption DEF WriteRem, Marked, IInv, TypeOK
<1>2. /\ dicPos \in Nat /\ dicBufSize \in Nat /\ dicPos <= dicBufSize
      /\ remainLen \in Nat /\ MatchSpecLenStart \in Nat
      /\ Len(meant) = dicPos + Left
  BY <1>1, StreamAssumption DEF IInv, TypeOK, OutputKept, dicBufSize, Meaning
<1>3. CASE remainLen >= MatchSpecLenStart
  <2>1. Rest = 0 /\ remainLen' = MatchSpecLenStart /\ pc' = "check"
    BY <1>1, <1>2, <1>3 DEF Rest
  <2>2. Left' = 0 /\ Left = 0
    BY <1>2, <1>3, <2>1 DEF Left
  <2>. QED
    BY <1>1, <1>2, <2>1, <2>2 DEF Meaning, input
<1>4. CASE remainLen < MatchSpecLenStart
  <2>1. Rest \in Nat /\ (Rest = remainLen \/ dicPos + Rest = dicBufSize) /\ Rest <= remainLen
    BY <1>2, <1>4 DEF Rest, Least
  <2>2. remainLen' = remainLen - Rest
    BY <1>1, <1>2, <1>4
  <2>3. Left' = remainLen - Rest /\ Left = remainLen
    BY <1>2, <1>4, <2>1, <2>2 DEF Left
  <2>4. dicBufSize' = dicBufSize /\ dicSize' = dicSize
    BY <1>1 DEF dicBufSize, input
  <2>5. remainLen' = 0 \/ dicPos' = dicBufSize'
    BY <1>1, <1>2, <2>1, <2>2, <2>4
  <2>6. Len(meant') = dicPos' + Left'
    BY <1>1, <1>2, <2>1, <2>3
  <2>7. pc' = "real2" => remainLen' = 0
    BY <1>1, <1>2, <2>4, <2>5
  <2>. QED
    BY <1>1, <2>4, <2>5, <2>6, <2>7 DEF Meaning
<1>. QED
  BY <1>2, <1>3, <1>4

LEMMA NextMeans ==
  ASSUME IInv, Meaning, [Next]_vars
  PROVE  Meaning'
<1> DEFINE Kept == UNCHANGED <<dicSize, real_decomp_size, remainLen, dicPos, reps, meant, misjudged>>
<1>1. CASE Uncompress \/ InitRc
  <2>1. /\ pc \in {"start", "flush"} /\ pc' \in {"flush", "check", "done"} /\ Kept
    BY <1>1 DEF Uncompress, InitRc, Return, input, out
  <2>2. Left' = Left
    BY <2>1 DEF Left
  <2>. QED
    BY <2>1, <2>2 DEF Meaning
<1>2. CASE FinishWithMark \/ FinishFull
  <2>1. /\ pc' = "done" /\ Kept
    BY <1>2 DEF FinishWithMark, FinishFull, Return, input, out
  <2>. QED
    BY <2>1 DEF Meaning
<1>3. CASE TryDummy \/ EnoughInput
  <2>1. /\ pc = "check" /\ remainLen # MatchSpecLenStart /\ (Full => remainLen = 0)
        /\ pc' \in {"real2", "done"} /\ Kept
    <3>1. CASE TryDummy
      BY <3>1 DEF TryDummy, Return, input, out
    <3>2. CASE EnoughInput
      BY <3>2 DEF EnoughInput, input, out
    <3>. QED
      BY <1>3, <3>1, <3>2
  <2>2. remainLen = 0
    <3>1. dicBufSize \in Nat
      BY DEF dicBufSize, IInv, TypeOK
    <3>. QED
      BY <2>1, <3>1 DEF Meaning, Full
  <2>3. Left' = Left
    BY <2>1 DEF Left
  <2>. QED
    BY <2>1, <2>2, <2>3 DEF Meaning
<1>4. CASE DecodeReal2
  <2>1. /\ pc = "real2" /\ pc' = "real" /\ limit' = Limit2 /\ checkDicSize' = checkDicSize
        /\ Kept
    BY <1>4 DEF DecodeReal2, input, out
  <2>2. Left' = Left
    BY <2>1 DEF Left
  <2>3. checkDicSize = 0 => Limit2 <= dicSize
    BY DEF Limit2, Least, IInv, TypeOK, dicBufSize
  <2>. QED
    BY <2>1, <2>2, <2>3 DEF Meaning
<1>5. CASE DecodeReal
  BY <1>5, DecodeRealMeans
<1>6. CASE WriteRem
  BY <1>6, WriteRemMeans
<1>7. CASE UNCHANGED vars
  BY <1>7 DEF Meaning, Left, vars, input, local, out, dicBufSize
<1>. QED
  BY <1>1, <1>2, <1>3, <1>4, <1>5, <1>6, <1>7 DEF Next

LEMMA MeaningHolds == Spec => []Meaning
<1>1. Init => Meaning
  <2> SUFFICES ASSUME Init
               PROVE  Meaning
    OBVIOUS
  <2>1. /\ meant = <<>> /\ dicPos = 0 /\ remainLen = 0 /\ pc = "start"
        /\ reps = [i \in 0 .. 3 |-> 1] /\ misjudged = FALSE
    BY DEF Init
  <2>2. dicSize \in Nat \ {0}
    BY InitIInv DEF IInv, TypeOK
  <2>3. Left = 0
    BY <2>1 DEF Left
  <2>. QED
    BY <2>1, <2>2, <2>3 DEF Meaning
<1>2. IInv /\ Meaning /\ [Next]_vars => Meaning'
  BY NextMeans
<1>. QED
  BY <1>1, <1>2, Inductive, PTL DEF Spec

(* A distance is refused if and only if it leads out of what was written,  *)
(* or out of the dictionary: for every stream and dictionary.              *)
THEOREM OnlyBadDistancesAreRefused == Spec => []DistancesAreJudgedRight
<1>1. Meaning => DistancesAreJudgedRight
  BY DEF Meaning, DistancesAreJudgedRight
<1>. QED
  BY <1>1, MeaningHolds, PTL

-----------------------------------------------------------------------------
(* The bytes.  Those written are those meant; those of a match that are    *)
(* still to be written repeat what lies the kept distance before them.     *)
Repeats(m, from, to, d) == \A q \in from + 1 .. to : m[q] = m[q - d]

Written ==
  /\ DOMAIN dic = Positions /\ dic = [p \in Positions |-> dic[p]]
  /\ \A p \in 0 .. dicPos - 1 : dic[p] = meant[p + 1]
  /\ Left # 0 => reps[0] <= dicPos /\ Repeats(meant, dicPos, dicPos + Left, reps[0])
  /\ remainLen < MatchSpecLenStart => dicPos + remainLen = Len(meant)
  /\ ret = "OK" => pc = "done" /\ dicPos = Len(meant)

(* The order of the naturals is well founded. *)
Before == OpToRel(<, Nat)

LEMMA Smallest ==
  ASSUME NEW T, T \subseteq Nat, T # {}
  PROVE  \E x \in T : \A y \in T : x <= y
<1>1. IsWellFoundedOn(Before, Nat)
  BY NatLessThanWellFounded DEF Before
<1>2. PICK x \in T : \A y \in T : ~(<<y, x>> \in Before)
  BY <1>1, WFMin
<1>3. ASSUME NEW y \in T
      PROVE  x <= y
  <2>1. x \in Nat /\ y \in Nat /\ ~(<<y, x>> \in Before)
    BY <1>2
  <2>2. <<y, x>> \in Before <=> y < x
    BY <2>1 DEF OpToRel, Before
  <2> QED BY <2>1, <2>2
<1> QED BY <1>3

(* The copying loop: if m repeats itself at the distance r where it copies *)
(* to, and was there before, it is there afterwards.                       *)
LEMMA CopiedIs ==
  ASSUME dicPos \in Nat, dicBufSize \in Nat, NEW n \in Nat, dicPos + n <= dicBufSize,
         NEW r \in Nat \ {0}, n # 0 => r <= dicPos, NEW m,
         \A p \in 0 .. dicPos - 1 : dic[p] = m[p + 1],
         Repeats(m, dicPos, dicPos + n, r)
  PROVE  /\ DOMAIN Copied(r, n) = Positions
         /\ Copied(r, n) = [p \in Positions |-> Copied(r, n)[p]]
         /\ \A p \in 0 .. dicPos + n - 1 : Copied(r, n)[p] = m[p + 1]
<1> DEFINE D == dicPos .. dicPos + n - 1
           F(c) == [p \in Positions |->
                      IF p \notin dicPos .. dicPos + n - 1 THEN dic[p]
                      ELSE IF Source(p, r) < p THEN c[Source(p, r)] ELSE dic[Source(p, r)]]
           h0 == [p \in Positions |-> IF p \in D THEN m[p + 1] ELSE dic[p]]
<1>1. ASSUME NEW p \in D
      PROVE  /\ Source(p, r) = p - r /\ p - r \in Nat /\ p - r < p
             /\ p \in Positions /\ p - r \in Positions /\ m[p + 1] = m[(p - r) + 1]
  <2>1. p \in Nat /\ dicPos <= p /\ p < dicPos + n /\ n # 0 /\ r <= dicPos
    OBVIOUS
  <2>2. Source(p, r) = p - r
    BY <2>1 DEF Source
  <2>3. p + 1 \in dicPos + 1 .. dicPos + n /\ (p + 1) - r = (p - r) + 1
    BY <2>1
  <2>4. m[p + 1] = m[(p + 1) - r]
    BY <2>3 DEF Repeats
  <2>5. p \in Positions /\ p - r \in Positions
    BY <2>1 DEF Positions
  <2> QED BY <2>1, <2>2, <2>3, <2>4, <2>5
<1>2. \A c : \A p \in D : F(c)[p] = c[p - r]
  BY <1>1
<1>3. \A c : \A p \in Positions \ D : F(c)[p] = dic[p]
  OBVIOUS
<1>4. \A p \in 0 .. dicPos - 1 : p \in Positions \ D
  BY DEF Positions
<1>5. \A c : DOMAIN F(c) = Positions /\ F(c) = [p \in Positions |-> F(c)[p]]
  OBVIOUS
<1>6. Copied(r, n) = CHOOSE c : c = F(c)
  BY DEF Copied
<1> HIDE DEF F
<1>7. h0 = F(h0)
  <2>1. ASSUME NEW p \in Positions
        PROVE  h0[p] = F(h0)[p]
    <3>1. CASE p \in D
      <4>1. F(h0)[p] = h0[p - r] /\ h0[p] = m[p + 1] /\ p - r \in Positions
        BY <1>1, <1>2, <3>1
      <4>2. CASE p - r \in D
        BY <1>1, <3>1, <4>1, <4>2
      <4>3. CASE p - r \notin D
        <5>1. p - r \in 0 .. dicPos - 1
          BY <1>1, <3>1, <4>3
        <5>2. h0[p - r] = dic[p - r]
          BY <4>1, <4>3
        <5> QED BY <1>1, <3>1, <4>1, <5>1, <5>2
      <4> QED BY <4>2, <4>3
    <3>2. CASE p \notin D
      BY <1>3, <3>2
    <3> QED BY <3>1, <3>2
  <2>2. h0 = [p \in Positions |-> h0[p]]
    OBVIOUS
  <2>3. F(h0) = [p \in Positions |-> F(h0)[p]]
    BY <1>5
  <2> HIDE DEF h0
  <2> QED BY <2>1, <2>2, <2>3
<1> HIDE DEF h0
<1> DEFINE c == Copied(r, n)
<1>8. c = F(c)
  BY <1>6, <1>7
<1> HIDE DEF c
<1>9. DOMAIN c = Positions /\ c = [p \in Positions |-> c[p]]
  BY <1>5, <1>8
<1>10. /\ \A p \in D : c[p] = c[p - r]
       /\ \A p \in 0 .. dicPos - 1 : c[p] = dic[p]
  <2>1. \A p \in D : c[p] = c[p - r]
    BY <1>2, <1>8
  <2>2. \A p \in 0 .. dicPos - 1 : c[p] = dic[p]
    BY <1>3, <1>4, <1>8
  <2> QED BY <2>1, <2>2
<1>11. \A p \in 0 .. dicPos + n - 1 : c[p] = m[p + 1]
  <2> DEFINE T == {p \in 0 .. dicPos + n - 1 : c[p] # m[p + 1]}
  <2> SUFFICES ASSUME T # {} PROVE FALSE
    OBVIOUS
  <2>1. T \subseteq Nat
    OBVIOUS
  <2> HIDE DEF T
  <2>2. PICK x \in T : \A y \in T : x <= y
    BY <2>1, Smallest
  <2>3. x \in 0 .. dicPos + n - 1 /\ c[x] # m[x + 1]
    BY DEF T
  <2>4. CASE x \in D
    <3>1. c[x] = c[x - r] /\ m[x + 1] = m[(x - r) + 1] /\ x - r \in Nat /\ x - r < x
      BY <1>1, <1>10, <2>4
    <3>2. x - r \in 0 .. dicPos + n - 1
      BY <2>3, <3>1
    <3>3. x - r \in T
      BY <2>3, <3>1, <3>2 DEF T
    <3>4. x <= x - r
      BY <2>2, <3>3
    <3> QED BY <2>3, <3>1, <3>4
  <2>5. CASE x \notin D
    <3>1. x \in 0 .. dicPos - 1
      BY <2>3, <2>5
    <3> QED BY <1>10, <2>3, <3>1
  <2> QED BY <2>4, <2>5
<1> QED BY <1>9, <1>11 DEF c

LEMMA DivMod ==
  ASSUME NEW n \in Nat, NEW a \in Nat \ {0}
  PROVE  /\ n \div a \in Nat /\ n % a \in 0 .. a - 1
         /\ n = a * (n \div a) + (n % a)
OBVIOUS

LEMMA ModOfSum ==
  ASSUME NEW a \in Nat \ {0}, NEW q \in Nat, NEW r \in 0 .. a - 1
  PROVE  (a * q + r) % a = r
OBVIOUS

LEMMA TurnTaken ==
  ASSUME NEW a \in Nat \ {0}, NEW y \in Nat, y - a \in Nat
  PROVE  (y - a) % a = y % a
<1> DEFINE z == y - a  q == z \div a  r == z % a
<1>1. q \in Nat /\ r \in 0 .. a - 1 /\ z = a * q + r
  BY DivMod
<1>2. y = z + a
  OBVIOUS
<1> HIDE DEF q, r, z
<1>3. y = a * (q + 1) + r /\ q + 1 \in Nat
  BY <1>1, <1>2
<1>4. (a * (q + 1) + r) % a = r
  BY <1>1, <1>3, ModOfSum
<1> QED BY <1>3, <1>4 DEF r, z

(* What a repetition adds repeats what lies the distance before. *)
LEMMA RepetitionIs ==
  ASSUME meant \in Seq(Nat), NEW d \in Nat \ {0}, d <= Len(meant), NEW n \in Nat
  PROVE  /\ \A q \in 1 .. Len(meant) : Repeated(d, n)[q] = meant[q]
         /\ Repeats(Repeated(d, n), Len(meant), Len(meant) + n, d)
<1> DEFINE tail == [j \in 1 .. n |-> meant[Len(meant) - d + 1 + ((j - 1) % d)]]
           l == Len(meant)
<1>1. l \in Nat
  OBVIOUS
<1>2. ASSUME NEW j \in 1 .. n
      PROVE  meant[l - d + 1 + ((j - 1) % d)] \in Nat
  <2> DEFINE k == (j - 1) % d
  <2>1. k \in 0 .. d - 1
    OBVIOUS
  <2> HIDE DEF k
  <2>2. l - d + 1 + k \in 1 .. Len(meant)
    BY <1>1, <2>1
  <2>3. meant[l - d + 1 + k] \in Nat
    BY <2>2
  <2> QED BY <2>3 DEF k
<1>3. tail \in [1 .. n -> Nat]
  BY <1>2
<1>4. tail \in Seq(Nat) /\ Len(tail) = n
  <2> HIDE DEF tail
  <2> QED BY <1>3
<1>5. \A j \in 1 .. n : tail[j] = meant[l - d + 1 + ((j - 1) % d)]
  OBVIOUS
<1>6. Repeated(d, n) = meant \o tail
  BY DEF Repeated
<1> DEFINE m == Repeated(d, n)
<1>7. /\ \A q \in 1 .. l : m[q] = meant[q]
      /\ \A q \in l + 1 .. l + n : m[q] = tail[q - l]
  <2> HIDE DEF tail
  <2>1. /\ Len(meant \o tail) = Len(meant) + Len(tail)
        /\ \A i \in 1 .. Len(meant) + Len(tail) :
             (meant \o tail)[i] = IF i <= Len(meant) THEN meant[i] ELSE tail[i - Len(meant)]
    BY <1>4, ConcatProperties
  <2> QED BY <1>1, <1>4, <1>6, <2>1
<1> HIDE DEF tail, m
<1>8. ASSUME NEW q \in l + 1 .. l + n
      PROVE  m[q] = m[q - d]
  <2>1. q - l \in 1 .. n /\ m[q] = meant[l - d + 1 + (((q - l) - 1) % d)]
    BY <1>1, <1>5, <1>7
  <2>2. CASE q - l <= d
    <3>1. ((q - l) - 1) % d = (q - l) - 1
      <4> DEFINE y == (q - l) - 1
      <4>1. y \in 0 .. d - 1
        BY <1>1, <2>1, <2>2
      <4> HIDE DEF y
      <4>2. (d * 0 + y) % d = y /\ d * 0 + y = y
        BY <4>1, ModOfSum
      <4> QED BY <4>2 DEF y
    <3>2. l - d + 1 + ((q - l) - 1) = q - d /\ q - d \in 1 .. l
      BY <1>1, <2>1, <2>2
    <3> QED BY <1>7, <2>1, <3>1, <3>2
  <2>3. CASE ~(q - l <= d)
    <3>1. q - d \in l + 1 .. l + n /\ (q - d) - l \in 1 .. n
          /\ ((q - d) - l) - 1 = ((q - l) - 1) - d
      BY <1>1, <2>1, <2>3
    <3>2. m[q - d] = meant[l - d + 1 + ((((q - d) - l) - 1) % d)]
      BY <1>5, <1>7, <3>1
    <3>3. (((q - l) - 1) - d) % d = ((q - l) - 1) % d
      <4>1. (q - l) - 1 \in Nat /\ ((q - l) - 1) - d \in Nat
        BY <1>1, <2>1, <2>3
      <4> DEFINE y == (q - l) - 1
      <4> HIDE DEF y
      <4>2. (y - d) % d = y % d
        BY <4>1, TurnTaken DEF y
      <4> QED BY <4>2 DEF y
    <3> QED BY <2>1, <3>1, <3>2, <3>3
  <2> QED BY <2>2, <2>3
<1> QED BY <1>7, <1>8 DEF Repeats, m

(* A symbol that is refused writes nothing. *)
LEMMA FailWrites ==
  ASSUME Written, pc = "real", NEW s, Fail(s),
         UNCHANGED <<input, srcLen, checkDicSize, local>>
  PROVE  Written'
<1>1. /\ UNCHANGED <<remainLen, dicPos, dic, reps, meant, real_decomp_size>>
      /\ ret' = "DATA"
  BY DEF Fail, Return, out, input
<1>. QED
  BY <1>1 DEF Written, Left, Positions, dicBufSize

(* A turn after which the first n bytes of the symbol are those meant, and *)
(* the others repeat what precedes them.                                   *)
LEMMA TurnWrites ==
  ASSUME IInv, Written, pc = "real", NEW s, NEW len \in Nat, Turn(s, len),
         UNCHANGED <<input, srcLen, checkDicSize, local>>,
         len = 0 \/ len < MatchSpecLenStart,
         DOMAIN dic' = Positions, dic' = [p \in Positions |-> dic'[p]],
         \A p \in 0 .. dicPos' - 1 : dic'[p] = meant'[p + 1],
         len # 0 => reps'[0] <= dicPos' /\ Repeats(meant', dicPos', dicPos' + len, reps'[0]),
         dicPos' + len = Len(meant')
  PROVE  Written'
<1>1. remainLen' = len /\ ret' = ret /\ ret # "OK" /\ real_decomp_size' = real_decomp_size
  BY DEF Turn, Written, input
<1>2. Positions' = Positions
  BY <1>1 DEF Positions, dicBufSize
<1>3. Left' = len
  BY <1>1, StreamAssumption DEF Left
<1>. QED
  BY <1>1, <1>2, <1>3 DEF Written

(* What holds of the places when a symbol is decoded. *)
LEMMA PlacesAre ==
  ASSUME IInv, Meaning, Written, pc = "real"
  PROVE  /\ dicPos \in Nat /\ limit \in Nat /\ dicBufSize \in Nat /\ dicPos <= limit
         /\ limit <= dicBufSize /\ Len(meant) = dicPos /\ meant \in Seq(Nat)
         /\ \A p \in 0 .. dicPos - 1 : dic[p] = meant[p + 1]
<1>1. Len(meant) = dicPos
  BY MeaningfulIs
<1>2. \A p \in 0 .. dicPos - 1 : dic[p] = meant[p + 1]
  BY DEF Written
<1>. QED
  BY <1>1, <1>2 DEF IInv, TypeOK, OutputKept, Meaning, dicBufSize

LEMMA LiteralWrites ==
  ASSUME IInv, Meaning, Written, pc = "real", NEW s \in Decodes("literal"), Literal(s),
         UNCHANGED <<input, srcLen, checkDicSize, local>>
  PROVE  Written'
<1>1. /\ dicPos' = dicPos + 1 /\ meant' = Append(meant, Len(meant)) /\ Turn(s, 0)
      /\ dic' = [dic EXCEPT ![dicPos] = dicPos]
  BY DEF Literal
<1>2. /\ dicPos \in Nat /\ dicBufSize \in Nat /\ Len(meant) = dicPos /\ meant \in Seq(Nat)
      /\ dicPos < dicBufSize
  BY PlacesAre, RoomForOne
<1>3. dicPos \in Positions
  BY <1>2 DEF Positions
<1>4. DOMAIN dic = Positions
  BY DEF Written
<1>5. DOMAIN dic' = Positions /\ dic' = [p \in Positions |-> dic'[p]]
  BY <1>1, <1>4
<1>6. dic'[dicPos] = dicPos /\ \A p \in Positions : p # dicPos => dic'[p] = dic[p]
  BY <1>1, <1>3, <1>4
<1>7. /\ meant'[dicPos + 1] = dicPos /\ Len(meant') = dicPos + 1
      /\ \A p \in 0 .. dicPos - 1 : meant'[p + 1] = meant[p + 1]
  BY <1>1, <1>2
<1>8. \A p \in 0 .. dicPos' - 1 : dic'[p] = meant'[p + 1]
  <2>. TAKE p \in 0 .. dicPos' - 1
  <2>1. CASE p = dicPos
    BY <1>6, <1>7, <2>1
  <2>2. CASE p # dicPos
    <3>1. p \in 0 .. dicPos - 1 /\ p \in Positions
      BY <1>1, <1>2, <2>2 DEF Positions
    <3>. QED
      BY <1>6, <1>7, <2>2, <3>1 DEF Written
  <2>. QED
    BY <2>1, <2>2
<1>9. dicPos' + 0 = Len(meant') /\ 0 \in Nat
  BY <1>1, <1>2, <1>7
<1>. QED
  BY <1>1, <1>5, <1>8, <1>9, TurnWrites

(* A repetition of len bytes, of which n are written. *)
LEMMA RepetitionWrites ==
  ASSUME IInv, Meaning, Written, pc = "real", NEW s,
         UNCHANGED <<input, srcLen, checkDicSize, local>>,
         NEW d \in Nat \ {0}, d <= dicPos, NEW len \in Nat, NEW n \in Nat,
         n <= len, dicPos + n <= dicBufSize,
         len - n = 0 \/ len - n < MatchSpecLenStart,
         dic' = Copied(d, n), dicPos' = dicPos + n, meant' = Repeated(d, len),
         reps'[0] = d, Turn(s, len - n)
  PROVE  Written'
<1> DEFINE m == Repeated(d, len)
<1>1. /\ dicPos \in Nat /\ dicBufSize \in Nat /\ Len(meant) = dicPos /\ meant \in Seq(Nat)
      /\ \A p \in 0 .. dicPos - 1 : dic[p] = meant[p + 1]
  BY PlacesAre
<1>2. /\ Len(m) = Len(meant) + len
      /\ \A q \in 1 .. Len(meant) : m[q] = meant[q]
      /\ Repeats(m, Len(meant), Len(meant) + len, d)
  BY <1>1, RepeatedIs, RepetitionIs
<1>3. m = meant'
  OBVIOUS
<1> HIDE DEF m
<1>4. \A p \in 0 .. dicPos - 1 : dic[p] = m[p + 1]
  <2>1. \A p \in 0 .. dicPos - 1 : p + 1 \in 1 .. dicPos
    BY <1>1
  <2>. QED
    BY <1>1, <1>2, <2>1
<1>5. Repeats(m, dicPos, dicPos + n, d) /\ Repeats(m, dicPos + n, dicPos + len, d)
  BY <1>1, <1>2 DEF Repeats
<1>6. /\ DOMAIN Copied(d, n) = Positions
      /\ Copied(d, n) = [p \in Positions |-> Copied(d, n)[p]]
      /\ \A p \in 0 .. dicPos + n - 1 : Copied(d, n)[p] = m[p + 1]
  BY <1>1, <1>4, <1>5, CopiedIs
<1>7. DOMAIN dic' = Positions /\ dic' = [p \in Positions |-> dic'[p]]
  BY <1>6
<1>8. \A p \in 0 .. dicPos' - 1 : dic'[p] = meant'[p + 1]
  <2>1. dicPos' = dicPos + n /\ dic' = Copied(d, n)
    OBVIOUS
  <2>2. \A p \in 0 .. dicPos' - 1 : Copied(d, n)[p] = m[p + 1]
    <3>1. ASSUME NEW p \in 0 .. dicPos' - 1
          PROVE  Copied(d, n)[p] = m[p + 1]
      <4>1. dicPos' \in Nat
        BY <1>1, <2>1
      <4>2. p \in 0 .. dicPos + n - 1
        BY <1>1, <2>1, <4>1
      <4>. QED
        BY <1>6, <4>2
    <3>. QED
      BY <3>1
  <2>3. \A p \in 0 .. dicPos' - 1 : dic'[p] = m[p + 1]
    BY <2>1, <2>2
  <2>. QED
    BY <1>3, <2>3
<1>9. /\ reps'[0] <= dicPos' /\ dicPos' + (len - n) = dicPos + len /\ len - n \in Nat
      /\ dicPos' + (len - n) = Len(meant')
  <2>1. dicPos' = dicPos + n /\ reps'[0] = d /\ Len(meant') = dicPos + len
    BY <1>1, <1>2, <1>3
  <2>2. d <= dicPos + n /\ (dicPos + n) + (len - n) = dicPos + len /\ len - n \in Nat
    BY <1>1
  <2>3. dicPos' + (len - n) = dicPos + len
    BY <2>1, <2>2
  <2>. QED
    BY <2>1, <2>2, <2>3
<1>10. Repeats(meant', dicPos', dicPos' + (len - n), reps'[0])
  BY <1>3, <1>5, <1>9
<1>. QED
  BY <1>7, <1>8, <1>9, <1>10, TurnWrites

LEMMA ShortRepWrites ==
  ASSUME IInv, Meaning, Written, pc = "real", NEW s \in Decodes("shortrep"), ShortRep(s),
         UNCHANGED <<input, srcLen, checkDicSize, local>>
  PROVE  Written'
<1>1. CASE Nothing
  BY <1>1, FailWrites DEF ShortRep
<1>2. CASE ~Nothing
  <2>1. /\ dicPos' = dicPos + 1 /\ meant' = Repeated(reps[0], 1) /\ Turn(s, 0)
        /\ reps' = reps /\ dic' = Copied(reps[0], 1)
    BY <1>2 DEF ShortRep
  <2>2. reps[0] \in Nat \ {0} /\ reps[0] <= dicPos
    BY <1>2, KeptMeans
  <2>3. dicPos + 1 <= dicBufSize
    <3>1. dicPos < limit
      BY RoomForOne
    <3>. QED
      BY <3>1, PlacesAre
  <2>4. 1 \in Nat /\ 1 - 1 = 0 /\ reps'[0] = reps[0]
    BY <2>1
  <2>. QED
    BY <2>1, <2>2, <2>3, <2>4, RepetitionWrites
<1>. QED
  BY <1>1, <1>2

LEMMA CopyWrites ==
  ASSUME IInv, Meaning, Written, pc = "real", NEW s \in Symbols,
         s.kind \in {"match", "rep"}, NEW r \in [0 .. 3 -> Nat \ {0}], r[0] <= dicPos,
         Copy(s, r), UNCHANGED <<input, srcLen, checkDicSize, local>>
  PROVE  Written'
<1>1. /\ s.len \in Nat /\ MatchMinLen \in Nat /\ MatchSpecLenStart \in Nat
      /\ s.len + MatchMinLen < MatchSpecLenStart
  BY LengthIs
<1>2. CASE limit = dicPos
  BY <1>2, FailWrites DEF Copy
<1>3. CASE limit # dicPos
  <2> DEFINE len == s.len + MatchMinLen
             n   == Least(limit - dicPos, len)
  <2>1. /\ reps' = r /\ dicPos' = dicPos + n /\ Turn(s, len - n)
        /\ meant' = Repeated(r[0], len) /\ dic' = Copied(r[0], n)
    BY <1>3 DEF Copy
  <2>2. len \in Nat /\ limit - dicPos \in Nat /\ len < MatchSpecLenStart
    BY <1>1, PlacesAre
  <2>3. n \in Nat /\ n <= limit - dicPos /\ n <= len
    <3> HIDE DEF len
    <3>. QED
      BY <2>2, LeastOf
  <2> HIDE DEF len, n
  <2>4. dicPos + n <= dicBufSize
    BY <2>3, PlacesAre
  <2>5. len - n < MatchSpecLenStart
    BY <1>1, <2>2, <2>3
  <2>6. r[0] \in Nat \ {0} /\ reps'[0] = r[0]
    BY <2>1
  <2>. QED
    BY <2>1, <2>2, <2>3, <2>4, <2>5, <2>6, RepetitionWrites
<1>. QED
  BY <1>2, <1>3

LEMMA RepWrites ==
  ASSUME IInv, Meaning, Written, pc = "real", NEW s \in Decodes("rep"), Rep(s),
         UNCHANGED <<input, srcLen, checkDicSize, local>>
  PROVE  Written'
<1>1. s \in Symbols /\ s.kind = "rep" /\ s.dist \in 0 .. 3
  <2>1. s \in Symbols /\ s.kind = "rep"
    BY SymbolIsThere DEF IInv
  <2>. QED
    BY <2>1, SymbolType
<1>2. CASE Nothing
  BY <1>2, FailWrites DEF Rep
<1>3. CASE ~Nothing
  <2>1. Copy(s, Rotated(s.dist))
    BY <1>3 DEF Rep
  <2>2. reps[s.dist] <= dicPos
    BY <1>1, <1>3, KeptMeans
  <2>3. \A j \in 0 .. 3 : j # 0 => j - 1 \in 0 .. 3
    OBVIOUS
  <2>4. reps \in [0 .. 3 -> Nat \ {0}]
    BY DEF IInv, TypeOK
  <2>5. /\ Rotated(s.dist) \in [0 .. 3 -> Nat \ {0}]
        /\ Rotated(s.dist)[0] = reps[s.dist]
    BY <1>1, <2>3, <2>4 DEF Rotated
  <2>. QED
    BY <1>1, <2>1, <2>2, <2>5, CopyWrites
<1>. QED
  BY <1>2, <1>3

LEMMA MatchWrites ==
  ASSUME IInv, Meaning, Written, pc = "real", NEW s \in Decodes("match"), Match(s),
         UNCHANGED <<input, srcLen, checkDicSize, local>>
  PROVE  Written'
<1>1. s \in Symbols /\ s.kind = "match" /\ s.dist \in Nat
  <2>1. s \in Symbols /\ s.kind = "match"
    BY SymbolIsThere DEF IInv
  <2>. QED
    BY <2>1, SymbolType
<1>2. CASE TooFar(s.dist)
  BY <1>2, FailWrites DEF Match
<1>3. CASE ~TooFar(s.dist)
  <2>1. Copy(s, Pushed(s.dist))
    BY <1>3 DEF Match
  <2>2. s.dist + 1 <= dicPos /\ s.dist + 1 \in Nat \ {0}
    <3>1. /\ dicPos \in Nat /\ dicSize \in Nat \ {0} /\ checkDicSize \in {0, dicSize}
          /\ checkDicSize # 0 => dicSize <= dicPos
      BY DEF IInv, TypeOK, OutputKept
    <3>. QED
      BY <1>1, <1>3, <3>1 DEF TooFar
  <2>3. \A j \in 0 .. 3 : j # 0 => j - 1 \in 0 .. 3
    OBVIOUS
  <2>4. reps \in [0 .. 3 -> Nat \ {0}]
    BY DEF IInv, TypeOK
  <2>5. /\ Pushed(s.dist) \in [0 .. 3 -> Nat \ {0}]
        /\ Pushed(s.dist)[0] = s.dist + 1
    BY <2>2, <2>3, <2>4 DEF Pushed
  <2>. QED
    BY <1>1, <2>1, <2>2, <2>5, CopyWrites
<1>. QED
  BY <1>2, <1>3

LEMMA DecodeRealWrites ==
  ASSUME IInv, Meaning, Written, DecodeReal
  PROVE  Written'
<1>1. pc = "real" /\ UNCHANGED <<input, srcLen, checkDicSize, local>>
  BY DEF DecodeReal
<1>2. \/ \E s \in Decodes("literal")  : Literal(s)
      \/ \E s \in Decodes("shortrep") : ShortRep(s)
      \/ \E s \in Decodes("rep")      : Rep(s)
      \/ \E s \in Decodes("match")    : Match(s)
      \/ \E s \in Decodes("end")      : EndMark(s)
  BY DEF DecodeReal
<1>3. CASE \E s \in Decodes("literal") : Literal(s)
  BY <1>1, <1>3, LiteralWrites
<1>4. CASE \E s \in Decodes("shortrep") : ShortRep(s)
  BY <1>1, <1>4, ShortRepWrites
<1>5. CASE \E s \in Decodes("rep") : Rep(s)
  BY <1>1, <1>5, RepWrites
<1>6. CASE \E s \in Decodes("match") : Match(s)
  BY <1>1, <1>6, MatchWrites
<1>7. CASE \E s \in Decodes("end") : EndMark(s)
  <2>1. PICK s \in Decodes("end") : EndMark(s)
    BY <1>7
  <2>2. s \in Symbols
    BY <1>1, SymbolIsThere DEF IInv
  <2>3. s.len \in Nat /\ MatchSpecLenStart \in Nat
    BY <2>2, SymbolType, StreamAssumption
  <2>4. /\ remainLen' = MatchSpecLenStart + s.len /\ ret' = ret
        /\ UNCHANGED <<dicPos, dic, meant, real_decomp_size>>
    BY <1>1, <2>1 DEF EndMark, out, input
  <2>5. Left' = 0 /\ ~(remainLen' < MatchSpecLenStart) /\ ret # "OK"
    BY <1>1, <2>3, <2>4 DEF Left, Written
  <2>6. Positions' = Positions
    BY <2>4 DEF Positions, dicBufSize
  <2>. QED
    BY <2>4, <2>5, <2>6 DEF Written
<1>. QED
  BY <1>2, <1>3, <1>4, <1>5, <1>6, <1>7

LEMMA WriteRemWrites ==
  ASSUME IInv, Meaning, Written, WriteRem
  PROVE  Written'
<1>1. /\ pc = "rem" /\ dicPos' = dicPos + Rest /\ dic' = Copied(reps[0], Rest)
      /\ remainLen' = (IF remainLen >= MatchSpecLenStart THEN MatchSpecLenStart
                                                         ELSE remainLen - Rest)
      /\ UNCHANGED <<real_decomp_size, reps, meant, ret>> /\ ret # "OK"
  BY StreamAssumption DEF WriteRem, Marked, IInv, TypeOK, Written, input
<1>2. /\ dicPos \in Nat /\ dicBufSize \in Nat /\ dicPos <= dicBufSize
      /\ remainLen \in Nat /\ MatchSpecLenStart \in Nat /\ reps[0] \in Nat \ {0}
      /\ \A p \in 0 .. dicPos - 1 : dic[p] = meant[p + 1]
  <2>1. \A p \in 0 .. dicPos - 1 : dic[p] = meant[p + 1]
    BY DEF Written
  <2>. QED
    BY <1>1, <2>1, StreamAssumption DEF IInv, TypeOK, OutputKept, dicBufSize
<1>3. Rest \in Nat /\ Rest <= Left /\ dicPos + Rest <= dicBufSize /\ Left \in Nat
  BY <1>2 DEF Rest, Left, Least
<1>4. /\ Rest # 0 => reps[0] <= dicPos
      /\ Repeats(meant, dicPos, dicPos + Rest, reps[0])
      /\ Left # Rest => /\ reps[0] <= dicPos + Rest
                        /\ Repeats(meant, dicPos + Rest, dicPos + Left, reps[0])
  BY <1>2, <1>3 DEF Written, Repeats
<1>5. /\ DOMAIN Copied(reps[0], Rest) = Positions
      /\ Copied(reps[0], Rest) = [p \in Positions |-> Copied(reps[0], Rest)[p]]
      /\ \A p \in 0 .. dicPos + Rest - 1 : Copied(reps[0], Rest)[p] = meant[p + 1]
  BY <1>2, <1>3, <1>4, CopiedIs
<1>6. Positions' = Positions
  BY <1>1 DEF Positions, dicBufSize
<1>7. /\ DOMAIN dic' = Positions' /\ dic' = [p \in Positions' |-> dic'[p]]
      /\ \A p \in 0 .. dicPos' - 1 : dic'[p] = meant'[p + 1]
  <2>1. \A c : c = [p \in Positions |-> Copied(reps[0], Rest)[p]]
                 => DOMAIN c = Positions /\ c = [p \in Positions |-> c[p]]
    OBVIOUS
  <2>2. DOMAIN dic' = Positions /\ dic' = [p \in Positions |-> dic'[p]]
    BY <1>1, <1>5, <2>1
  <2>3. \A p \in 0 .. dicPos' - 1 : dic'[p] = meant'[p + 1]
    <3>1. \A p \in 0 .. dicPos' - 1 : Copied(reps[0], Rest)[p] = meant[p + 1]
      BY <1>1, <1>2, <1>3, <1>5
    <3>2. dic' = Copied(reps[0], Rest) /\ meant' = meant
      BY <1>1
    <3>. QED
      BY <3>1, <3>2
  <2>. QED
    BY <1>6, <2>2, <2>3
<1>8. /\ Left' = Left - Rest /\ dicPos' + Left' = dicPos + Left
      /\ remainLen' < MatchSpecLenStart => /\ remainLen < MatchSpecLenStart
                                           /\ remainLen' = remainLen - Rest
  BY <1>1, <1>2, <1>3 DEF Left, Rest
<1>9. remainLen' < MatchSpecLenStart => dicPos' + remainLen' = Len(meant')
  BY <1>1, <1>2, <1>3, <1>8 DEF Written
<1>10. Left' # 0 => /\ reps'[0] <= dicPos'
                    /\ Repeats(meant', dicPos', dicPos' + Left', reps'[0])
  BY <1>1, <1>2, <1>3, <1>4, <1>8
<1>. QED
  BY <1>1, <1>7, <1>9, <1>10 DEF Written

LEMMA NextWrites ==
  ASSUME IInv, Meaning, Written, [Next]_vars
  PROVE  Written'
<1> DEFINE Kept == UNCHANGED <<real_decomp_size, remainLen, dicPos, dic, reps, meant>>
<1>1. CASE Kept /\ (ret' # "OK" \/ UNCHANGED <<ret, pc>>)
  BY <1>1 DEF Written, Left, Positions, dicBufSize
<1>2. CASE Uncompress \/ InitRc
  <2>1. Kept /\ (ret' = ret \/ ret' \in {"ENOTSUPP", "INPUT_EOF", "UNSUPPORTED", "DATA"})
        /\ pc # "done"
    BY <1>2 DEF Uncompress, InitRc, Return, input, out
  <2>2. ret' # "OK"
    BY <2>1 DEF Written
  <2>. QED
    BY <1>1, <2>1, <2>2
<1>3. CASE FinishWithMark \/ FinishFull
  <2>1. Kept /\ pc = "check" /\ pc' = "done"
        /\ (ret' = "OK" => remainLen \in {0, MatchSpecLenStart})
    BY <1>3 DEF FinishWithMark, FinishFull, Return, input, out
  <2>2. ret' = "OK" => dicPos = Len(meant)
    <3>1. dicPos \in Nat /\ Len(meant) = dicPos + Left /\ MatchSpecLenStart \in Nat
      BY <2>1, StreamAssumption DEF Meaning, IInv, TypeOK
    <3>2. remainLen \in {0, MatchSpecLenStart} => Left = 0
      BY <3>1 DEF Left
    <3>. QED
      BY <2>1, <3>1, <3>2
  <2>. QED
    BY <2>1, <2>2 DEF Written, Left, Positions, dicBufSize
<1>4. CASE TryDummy \/ EnoughInput \/ DecodeReal2
  <2>1. Kept /\ (ret' = ret \/ ret' \in {"INPUT_EOF", "DATA"}) /\ pc # "done"
    <3>1. CASE TryDummy
      BY <3>1 DEF TryDummy, Return, input, out
    <3>2. CASE EnoughInput \/ DecodeReal2
      BY <3>2 DEF EnoughInput, DecodeReal2, input, out
    <3>. QED
      BY <1>4, <3>1, <3>2
  <2>2. ret' # "OK"
    BY <2>1 DEF Written
  <2>. QED
    BY <1>1, <2>1, <2>2
<1>5. CASE DecodeReal
  BY <1>5, DecodeRealWrites
<1>6. CASE WriteRem
  BY <1>6, WriteRemWrites
<1>7. CASE UNCHANGED vars
  BY <1>1, <1>7 DEF vars, input, out
<1>. QED
  BY <1>2, <1>3, <1>4, <1>5, <1>6, <1>7 DEF Next

LEMMA InitWrites == Init => Written
<1> SUFFICES ASSUME Init
             PROVE  Written
  OBVIOUS
<1>1. /\ meant = <<>> /\ dicPos = 0 /\ remainLen = 0 /\ ret = "none"
      /\ dic = [p \in Positions |-> Unwritten]
  BY DEF Init
<1>2. Left = 0 /\ Len(meant) = 0
  BY <1>1 DEF Left
<1>. QED
  BY <1>1, <1>2 DEF Written

(* What is in the destination is what the stream means, byte for byte and  *)
(* wherever matches were cut, and all of it if the stream is accepted: for *)
(* every stream, output and dictionary.                                    *)
THEOREM BytesAreThoseMeant == Spec => []WritesWhatIsMeant
<1>1. IInv /\ Meaning /\ Written /\ [Next]_vars => Written'
  BY NextWrites
<1>2. Written => WritesWhatIsMeant
  BY DEF Written, WritesWhatIsMeant
<1>. QED
  BY <1>1, <1>2, InitWrites, MeaningHolds, Inductive, PTL DEF Spec
=============================================================================
