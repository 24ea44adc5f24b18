--------------------------- MODULE ImageBuildProofs ---------------------------
(***************************************************************************)
(* Proofs about ImageBuild and the padutil it runs, for stages of any      *)
(* length, any page sizes and any size of padutil's buffer.                *)
(***************************************************************************)
EXTENDS ImageBuild, SequenceTheorems, TLAPS

Bytes == (Nat \X Stages \X Nat) \cup {Fill, "payload"}

(* A stage is given to padutil as it was linked. *)
IsAsked ==
  make = "run" => /\ input = bin[stage] /\ max_size = Maximum(stage)
                  /\ align_size = PAGESIZE

IsRunning == run \in {"open", "copy", "pad"} => make = "run" /\ fault = "none"

IsCopying ==
  /\ run = "open" => input_file_size = 0
  /\ run \in {"open", "copy"} => padsize = 0
  /\ run = "copy" =>
       /\ exists /\ input_file_size <= Len(input) /\ Len(output) = input_file_size
       /\ \A i \in 1 .. input_file_size : output[i] = input[i]

IsPadding ==
  run = "pad" =>
    /\ exists /\ Len(output) = Len(input) + padsize /\ padsize <= padding_size
    /\ padding_size = (align_size - (Len(input) % align_size)) % align_size
    /\ \A i \in 1 .. Len(input) : output[i] = input[i]
    /\ \A i \in Len(input) + 1 .. Len(output) : output[i] = Fill
    /\ max_size # 0 => Len(input) + padding_size <= max_size

(* A padded stage, once it is made, unless its end was lost. *)
IsPadded(st) ==
  /\ pad[st].exists /\ pad[st].content = Padded(bin[st], PAGESIZE)
  /\ st = 1 => Len(pad[st].content) <= PAGESIZE

ArePadded ==
  ~lost => /\ make \in {"pad", "run"} /\ stage = 2 => IsPadded(1)
           /\ make \in {"cat", "made"} => IsPadded(1) /\ IsPadded(2)

IsMade == make = "made" => image = CatFinal

BuildTypeOK ==
  /\ make \in {"none", "pad", "run", "cat", "made", "failed"} /\ stage \in Stages
  /\ lost \in BOOLEAN /\ builds \in Nat
  /\ run \in Exited \cup {"open", "copy", "pad"}
  /\ input \in Seq(Bytes) /\ output \in Seq(Bytes)
  /\ align_size \in Nat /\ max_size \in Nat
  /\ bin \in [Stages -> Seq(Bytes)] /\ image \in Seq(Bytes)
  /\ pad \in [Stages -> [exists : BOOLEAN, content : Seq(Bytes)]]
  /\ payload \in {<<>>, Payload}

(* What was configured for the build under way. *)
IsConfigured ==
  make # "none" =>
    /\ PAGESIZE \in PageSizes /\ Len(bin[1]) \in Lengths1 /\ Len(bin[2]) \in Lengths2
    /\ __stage3_offset
         = PAGESIZE + RoundUp(RoundUp(Len(bin[2]), LinkAlign), PAGESIZE)

BuildInv ==
  /\ BuildTypeOK /\ PadTypeOK /\ OutputIsWholeOrGone /\ IsConfigured
  /\ IsAsked /\ IsRunning /\ IsCopying /\ IsPadding /\ ArePadded /\ IsMade

-----------------------------------------------------------------------------
(* Rounding up.                                                            *)

LEMMA DivMod ==
  ASSUME NEW n \in Nat, NEW a \in Nat \ {0}
  PROVE  /\ n \div a \in Nat /\ n % a \in 0 .. a - 1
         /\ n = a * (n \div a) + (n % a)
OBVIOUS

LEMMA ModOfSum ==
  ASSUME NEW a \in Nat \ {0}, NEW q \in Nat, NEW r \in 0 .. a - 1
  PROVE  (a * q + r) % a = r
OBVIOUS

LEMMA PaddingIs ==
  ASSUME NEW n \in Nat, NEW a \in Nat \ {0}
  PROVE  /\ (a - (n % a)) % a = IF n % a = 0 THEN 0 ELSE a - (n % a)
         /\ (a - (n % a)) % a \in 0 .. a - 1
<1> DEFINE r == n % a
<1>1. r \in 0 .. a - 1
  BY DivMod
<1> HIDE DEF r
<1>2. CASE r = 0
  <2>1. a % a = 0
    <3>1. (a * 1 + 0) % a = 0
      <4>1. 1 \in Nat /\ 0 \in 0 .. a - 1
        OBVIOUS
      <4> QED BY <4>1, ModOfSum
    <3> QED BY <3>1
  <2> QED BY <1>2, <2>1 DEF r
<1>3. CASE r # 0
  <2>1. a - r \in 0 .. a - 1 /\ 0 \in Nat
    BY <1>1, <1>3
  <2>2. (a * 0 + (a - r)) % a = a - r
    BY <2>1, ModOfSum
  <2>3. (a - r) % a = a - r
    BY <2>1, <2>2
  <2> QED BY <1>3, <2>1, <2>3 DEF r
<1> QED BY <1>2, <1>3

(* RoundUp yields the next multiple. *)
LEMMA RoundUpIs ==
  ASSUME NEW n \in Nat, NEW a \in Nat \ {0}
  PROVE  \E k \in Nat : RoundUp(n, a) = a * k /\ a * k - a < n /\ n <= a * k
<1> DEFINE q == n \div a  r == n % a  m == (a - (n % a)) % a
<1>1. q \in Nat /\ r \in 0 .. a - 1 /\ n = a * q + r
  BY DivMod
<1>2. m = IF r = 0 THEN 0 ELSE a - r
  BY PaddingIs
<1>3. RoundUp(n, a) = n + m
  BY DEF RoundUp
<1> HIDE DEF q, r, m
<1>4. CASE r = 0
  BY <1>1, <1>2, <1>3, <1>4
<1>5. CASE r # 0
  <2>1. n + m = a * (q + 1) /\ q + 1 \in Nat
    BY <1>1, <1>2, <1>5
  <2>2. a * (q + 1) - a < n /\ n <= a * (q + 1)
    BY <1>1, <1>5
  <2> QED BY <1>3, <2>1, <2>2
<1> QED BY <1>4, <1>5

LEMMA NextMultiple ==
  ASSUME NEW n \in Nat, NEW a \in Nat \ {0}, NEW k \in Nat,
         a * k - a < n, n <= a * k
  PROVE  RoundUp(n, a) = a * k
<1>1. PICK j \in Nat : RoundUp(n, a) = a * j /\ a * j - a < n /\ n <= a * j
  BY RoundUpIs
<1>2. a * j < a * (k + 1) /\ a * k < a * (j + 1)
  BY <1>1
<1>3. j < k + 1
  <2> SUFFICES ASSUME k + 1 <= j PROVE FALSE
    OBVIOUS
  <2>1. a * (k + 1) <= a * j
    OBVIOUS
  <2> QED BY <1>2, <2>1
<1>4. k < j + 1
  <2> SUFFICES ASSUME j + 1 <= k PROVE FALSE
    OBVIOUS
  <2>1. a * (j + 1) <= a * k
    OBVIOUS
  <2> QED BY <1>2, <2>1
<1>5. j = k
  BY <1>3, <1>4
<1> QED BY <1>1, <1>5

(* Rounding up to the alignment of the sections first changes nothing.     *)
LEMMA RoundUpTwice ==
  ASSUME NEW n \in Nat, NEW b \in Nat \ {0}, NEW a \in Nat \ {0}, a % b = 0
  PROVE  RoundUp(RoundUp(n, b), a) = RoundUp(n, a)
<1> DEFINE c == a \div b
<1>1. c \in Nat /\ a = b * c + (a % b)
  BY DivMod
<1>2. a = b * c
  BY <1>1
<1> HIDE DEF c
<1>3. PICK j \in Nat : RoundUp(n, b) = b * j /\ b * j - b < n /\ n <= b * j
  BY RoundUpIs
<1>4. PICK k \in Nat : RoundUp(n, a) = a * k /\ a * k - a < n /\ n <= a * k
  BY RoundUpIs
<1> DEFINE e == c * k
<1>5. e \in Nat /\ a * k = b * e
  BY <1>1, <1>2
<1> HIDE DEF e
<1>6. b * j < b * (e + 1)
  BY <1>3, <1>4, <1>5
<1>7. j <= e
  <2> SUFFICES ASSUME e + 1 <= j PROVE FALSE
    BY <1>5
  <2>1. b * (e + 1) <= b * j
    BY <1>5
  <2> QED BY <1>5, <1>6, <2>1
<1>8. b * j <= b * e
  BY <1>5, <1>7
<1> DEFINE m == b * j
<1>9. m \in Nat /\ RoundUp(n, b) = m
  BY <1>3
<1>10. a * k - a < m /\ m <= a * k
  BY <1>3, <1>4, <1>5, <1>8
<1> HIDE DEF m
<1>11. RoundUp(m, a) = a * k
  BY <1>9, <1>10, NextMultiple
<1> QED BY <1>4, <1>9, <1>11

-----------------------------------------------------------------------------
(* Sequences of bytes. *)

LEMMA FillsAre ==
  ASSUME NEW n \in Nat
  PROVE  /\ Fills(n) \in Seq(Bytes) /\ Len(Fills(n)) = n
         /\ \A i \in 1 .. n : Fills(n)[i] = Fill
BY DEF Fills, Bytes

LEMMA PaddedIs ==
  ASSUME NEW s \in Seq(Bytes), NEW a \in Nat \ {0}
  PROVE  /\ Padded(s, a) \in Seq(Bytes)
         /\ Len(Padded(s, a)) = Len(s) + ((a - (Len(s) % a)) % a)
         /\ \A i \in 1 .. Len(s) : Padded(s, a)[i] = s[i]
         /\ \A i \in Len(s) + 1 .. Len(Padded(s, a)) : Padded(s, a)[i] = Fill
<1> DEFINE n == (a - (Len(s) % a)) % a
<1>1. Len(s) \in Nat
  BY LenProperties
<1>2. n \in Nat
  BY <1>1, PaddingIs
<1>3. Padded(s, a) = s \o Fills(n)
  BY DEF Padded
<1> HIDE DEF n
<1>4. Fills(n) \in Seq(Bytes) /\ Len(Fills(n)) = n
      /\ \A i \in 1 .. n : Fills(n)[i] = Fill
  BY <1>2, FillsAre
<1>5. /\ Padded(s, a) \in Seq(Bytes)
      /\ Len(Padded(s, a)) = Len(s) + n
      /\ \A i \in 1 .. Len(s) + n : Padded(s, a)[i] =
           IF i <= Len(s) THEN s[i] ELSE Fills(n)[i - Len(s)]
  BY <1>3, <1>4, ConcatProperties
<1>6. \A i \in 1 .. Len(s) : Padded(s, a)[i] = s[i]
  BY <1>1, <1>2, <1>5
<1>7. ASSUME NEW i \in Len(s) + 1 .. Len(s) + n
      PROVE  Padded(s, a)[i] = Fill
  <2>1. i \in 1 .. Len(s) + n /\ ~(i <= Len(s)) /\ i - Len(s) \in 1 .. n
    BY <1>1, <1>2
  <2>2. Padded(s, a)[i] = Fills(n)[i - Len(s)]
    BY <1>5, <2>1
  <2> QED BY <1>4, <2>1, <2>2
<1> QED BY <1>5, <1>6, <1>7 DEF n

-----------------------------------------------------------------------------
(* padutil.                                                                *)

(* What the rest of the invariant says while padutil runs. *)
LEMMA Running ==
  ASSUME BuildInv, make = "run"
  PROVE  /\ align_size \in Nat \ {0} /\ align_size = PAGESIZE /\ PAGESIZE \in PageSizes
         /\ input \in Seq(Bytes) /\ output \in Seq(Bytes) /\ input = bin[stage]
         /\ Len(input) \in Nat /\ Word \in Nat /\ Len(input) + align_size < Word
         /\ max_size \in Nat /\ BuffSize \in Nat \ {0}
<1>1. input = bin[stage] /\ align_size = PAGESIZE /\ PAGESIZE \in PageSizes
      /\ Len(bin[1]) \in Lengths1 /\ Len(bin[2]) \in Lengths2 /\ stage \in {1, 2}
      /\ input \in Seq(Bytes) /\ output \in Seq(Bytes) /\ max_size \in Nat
  BY DEF BuildInv, IsAsked, IsConfigured, BuildTypeOK, Stages
<1>2. Len(input) \in Lengths1 \cup Lengths2
  BY <1>1
<1>3. PAGESIZE \in Nat \ {0} /\ Len(input) + PAGESIZE < Word /\ Len(input) \in Nat
  BY <1>1, <1>2, BuildAssumption
<1> QED BY <1>1, <1>3, PadutilAssumption

(* A step of padutil keeps the build's part of the invariant. *)
LEMMA RunsInv ==
  ASSUME BuildInv, make = "run", UNCHANGED <<config, makevars, options>>,
         run' \in Exited \cup {"open", "copy", "pad"}, output' \in Seq(Bytes),
         PadTypeOK', OutputIsWholeOrGone', IsRunning', IsCopying', IsPadding'
  PROVE  BuildInv'
<1>1. UNCHANGED <<PAGESIZE, payload, bin, __stage3_offset, make, stage, pad, image,
                  builds, lost, align_size, max_size, input>>
  BY DEF config, makevars, options
<1>2. BuildTypeOK'
  BY <1>1 DEF BuildInv, BuildTypeOK
<1>3. IsConfigured' /\ IsAsked'
  BY <1>1 DEF BuildInv, IsConfigured, IsAsked, RoundUp, Maximum
<1>4. ArePadded' /\ IsMade'
  BY <1>1 DEF BuildInv, ArePadded, IsPadded, IsMade, CatFinal
<1> QED BY <1>2, <1>3, <1>4 DEF BuildInv

LEMMA OpenInv ==
  ASSUME BuildInv, make = "run", Open, UNCHANGED <<config, makevars>>
  PROVE  BuildInv'
<1>1. /\ run = "open" /\ run' = "copy" /\ exists' = TRUE /\ output' = <<>>
      /\ UNCHANGED <<align_size, max_size, input, input_file_size, padding_size, padsize,
                     fault>>
  BY DEF Open, options, sizes
<1>2. PadTypeOK /\ fault = "none"
  BY <1>1 DEF BuildInv, IsRunning
<1>3. input \in Seq(Bytes) /\ Len(input) \in Nat
  BY Running
<1>4. <<>> \in Seq(Bytes) /\ Len(<<>>) = 0
  BY EmptySeq
<1>5. PadTypeOK' /\ OutputIsWholeOrGone' /\ IsRunning' /\ IsPadding'
  BY <1>1, <1>2 DEF PadTypeOK, OutputIsWholeOrGone, IsRunning, IsPadding, makevars,
     Exited
<1>6. IsCopying'
  <2>1. input_file_size = 0 /\ padsize = 0
    BY <1>1 DEF BuildInv, IsCopying
  <2> QED BY <1>1, <1>3, <1>4, <2>1 DEF IsCopying
<1>7. UNCHANGED options
  BY <1>1 DEF options
<1> QED BY <1>1, <1>4, <1>5, <1>6, <1>7, RunsInv

LEMMA CopyInv ==
  ASSUME BuildInv, make = "run", Copy, UNCHANGED <<config, makevars>>
  PROVE  BuildInv'
<1> DEFINE N == Len(input)  s == input_file_size  n == Smaller(N - s, BuffSize)
           piece == SubSeq(input, s + 1, s + n)
<1>1. /\ run = "copy" /\ N - s > 0 /\ output' = output \o piece
      /\ s' = (s + n) % Word
      /\ UNCHANGED <<run, align_size, max_size, input, exists, padding_size, padsize,
                     fault>>
  BY DEF Copy, Left, options
<1>2. PadTypeOK /\ fault = "none" /\ padsize = 0 /\ exists = TRUE
  BY <1>1 DEF BuildInv, IsRunning, IsCopying, PadTypeOK
<1>3. input \in Seq(Bytes) /\ output \in Seq(Bytes) /\ N \in Nat /\ Word \in Nat
      /\ N < Word /\ BuffSize \in Nat \ {0} /\ align_size \in Nat \ {0}
  <2>1. N + align_size < Word /\ N \in Nat /\ Word \in Nat /\ align_size \in Nat \ {0}
    BY Running
  <2>2. N < Word
    BY <2>1
  <2> QED BY <2>1, <2>2, Running
<1>4. s \in Nat /\ s <= N /\ Len(output) = s /\ \A i \in 1 .. s : output[i] = input[i]
  BY <1>1, <1>2 DEF BuildInv, IsCopying, PadTypeOK
<1> HIDE DEF N, s
<1>5. n \in Nat /\ n > 0 /\ s + n <= N /\ s + n \in Nat
  BY <1>1, <1>3, <1>4 DEF Smaller
<1> HIDE DEF n
<1>6. s' = s + n
  <2>1. (s + n) % Word = s + n
    BY <1>3, <1>5
  <2> QED BY <1>1, <2>1
<1>7. \A i \in s + 1 .. s + n : input[i] \in Bytes
  BY <1>3, <1>4, <1>5, LenProperties DEF N
<1>8. /\ piece \in Seq(Bytes) /\ Len(piece) = n
      /\ \A i \in 1 .. n : piece[i] = input[s + i]
  <2>1. s + 1 \in Int /\ s + n \in Int /\ s + 1 <= s + n
    BY <1>4, <1>5
  <2>2. /\ piece \in Seq(Bytes) /\ Len(piece) = (s + n) - (s + 1) + 1
        /\ \A i \in 1 .. (s + n) - (s + 1) + 1 : piece[i] = input[(s + 1) + i - 1]
    BY <1>7, <2>1, SubSeqProperties
  <2>3. (s + n) - (s + 1) + 1 = n
    BY <1>4, <1>5
  <2>4. \A i \in 1 .. n : (s + 1) + i - 1 = s + i
    BY <1>4, <1>5
  <2> QED BY <2>2, <2>3, <2>4
<1> HIDE DEF piece
<1>9. /\ output' \in Seq(Bytes) /\ Len(output') = s + n
      /\ \A i \in 1 .. s + n : output'[i] =
            IF i <= s THEN output[i] ELSE piece[i - s]
  <2> DEFINE both == output \o piece
  <2>1. /\ both \in Seq(Bytes) /\ Len(both) = Len(output) + Len(piece)
        /\ \A i \in 1 .. Len(output) + Len(piece) : both[i] =
              IF i <= Len(output) THEN output[i] ELSE piece[i - Len(output)]
    BY <1>3, <1>8, ConcatProperties
  <2>2. output' = both
    BY <1>1
  <2> HIDE DEF both
  <2> QED BY <1>4, <1>8, <2>1, <2>2
<1>10. \A i \in 1 .. s + n : output'[i] = input[i]
  <2> SUFFICES ASSUME NEW i \in 1 .. s + n PROVE output'[i] = input[i]
    OBVIOUS
  <2>1. CASE i <= s
    BY <1>4, <1>5, <1>9, <2>1
  <2>2. CASE ~(i <= s)
    <3>1. i - s \in 1 .. n /\ s + (i - s) = i
      BY <1>4, <1>5, <2>2
    <3>2. piece[i - s] = input[s + (i - s)]
      BY <1>8, <3>1
    <3> QED BY <1>9, <2>2, <3>1, <3>2
  <2> QED BY <2>1, <2>2
<1>11. IsCopying'
  BY <1>1, <1>2, <1>5, <1>6, <1>9, <1>10 DEF IsCopying, N, s
<1>12. PadTypeOK'
  <2>1. s' \in 0 .. Word - 1
    BY <1>3, <1>5, <1>6
  <2> QED BY <1>1, <1>2, <2>1 DEF PadTypeOK, s
<1>13. OutputIsWholeOrGone' /\ IsRunning' /\ IsPadding'
  BY <1>1, <1>2 DEF OutputIsWholeOrGone, IsRunning, IsPadding, makevars
<1>14. UNCHANGED options
  BY <1>1 DEF options
<1> QED BY <1>1, <1>9, <1>11, <1>12, <1>13, <1>14, RunsInv

LEMMA PadSizeInv ==
  ASSUME BuildInv, make = "run", PadSize, UNCHANGED <<config, makevars>>
  PROVE  BuildInv'
<1> DEFINE N == Len(input)  m == (align_size - (N % align_size)) % align_size
<1>1. /\ align_size \in Nat \ {0} /\ input \in Seq(Bytes) /\ output \in Seq(Bytes)
      /\ N \in Nat /\ Word \in Nat /\ N + align_size < Word /\ max_size \in Nat
  BY Running
<1>2. /\ run = "copy" /\ N - input_file_size = 0
      /\ padding_size' = IF align_size = 0 THEN 0 ELSE Padding(input_file_size)
      /\ IF TooLarge(input_file_size, padding_size')
         THEN exists' = FALSE /\ output' = <<>> /\ run' = "exit1"
         ELSE UNCHANGED <<exists, output>> /\ run' = "pad"
      /\ UNCHANGED <<align_size, max_size, input, input_file_size, padsize, fault>>
  BY DEF PadSize, Left, RemoveOutput, file, options
<1>3. PadTypeOK /\ fault = "none" /\ padsize = 0 /\ exists = TRUE
  BY <1>2 DEF BuildInv, IsRunning, IsCopying, PadTypeOK
<1>4. Len(output) = N /\ (\A i \in 1 .. N : output[i] = input[i]) /\ input_file_size = N
  <2>1. input_file_size \in Nat
    BY <1>3 DEF PadTypeOK
  <2>2. input_file_size = N
    BY <1>1, <1>2, <2>1
  <2> QED BY <1>2, <2>2 DEF BuildInv, IsCopying
<1>5. padding_size' = m /\ m \in 0 .. align_size - 1
  <2>1. m = (IF N % align_size = 0 THEN 0 ELSE align_size - (N % align_size))
        /\ m \in 0 .. align_size - 1
    BY <1>1, PaddingIs
  <2> QED BY <1>1, <1>2, <1>4, <2>1 DEF Padding
<1> HIDE DEF m
<1>6. m < Word /\ (N + m) % Word = N + m
  <2>1. N + m < Word /\ N + m \in Nat /\ m < Word
    BY <1>1, <1>5
  <2> HIDE DEF N
  <2> QED BY <1>1, <2>1
<1>7. <<>> \in Seq(Bytes)
  BY EmptySeq
<1>8. PadTypeOK'
  <2>1. padding_size' \in 0 .. Word - 1 /\ 0 \in 0 .. padding_size'
    BY <1>1, <1>5, <1>6
  <2> QED BY <1>2, <1>3, <2>1 DEF PadTypeOK, Exited
<1>9. CASE TooLarge(input_file_size, padding_size')
  <2>1. exists' = FALSE /\ output' = <<>> /\ run' = "exit1"
    BY <1>2, <1>9
  <2>2. OutputIsWholeOrGone' /\ IsRunning' /\ IsCopying' /\ IsPadding'
    BY <2>1 DEF OutputIsWholeOrGone, IsRunning, IsCopying, IsPadding
  <2>3. UNCHANGED options /\ run' \in Exited
    BY <1>2, <2>1 DEF options, Exited
  <2> QED BY <1>7, <1>8, <2>1, <2>2, <2>3, RunsInv
<1>10. CASE ~TooLarge(input_file_size, padding_size')
  <2>1. UNCHANGED <<exists, output>> /\ run' = "pad"
    BY <1>2, <1>10
  <2>2. max_size # 0 => N + m <= max_size
    BY <1>1, <1>4, <1>5, <1>6, <1>10 DEF TooLarge
  <2>3. IsPadding'
    <3>1. Len(output') = Len(input') + padsize' /\ padsize' <= padding_size'
      BY <1>1, <1>2, <1>3, <1>4, <1>5, <2>1
    <3>2. padding_size' = (align_size' - (Len(input') % align_size')) % align_size'
      BY <1>2, <1>5 DEF m
    <3>3. \A i \in Len(input') + 1 .. Len(output') : output'[i] = Fill
      BY <1>1, <1>2, <1>4, <2>1
    <3> QED BY <1>2, <1>3, <1>4, <1>5, <2>1, <2>2, <3>1, <3>2, <3>3 DEF IsPadding
  <2>4. OutputIsWholeOrGone' /\ IsRunning' /\ IsCopying'
    BY <1>2, <1>3, <2>1 DEF OutputIsWholeOrGone, IsRunning, IsCopying, makevars
  <2>5. UNCHANGED options
    BY <1>2 DEF options
  <2> QED BY <1>1, <1>8, <2>1, <2>3, <2>4, <2>5, RunsInv
<1> QED BY <1>9, <1>10

LEMMA PadInv ==
  ASSUME BuildInv, make = "run", Pad, UNCHANGED <<config, makevars>>
  PROVE  BuildInv'
<1> DEFINE N == Len(input)  old == padsize
           n == Smaller(padding_size - old, BuffSize)
<1>1. /\ run = "pad" /\ old < padding_size /\ output' = output \o Fills(n)
      /\ padsize' = old + n
      /\ UNCHANGED <<run, align_size, max_size, input, exists, input_file_size,
                     padding_size, fault>>
  BY DEF Pad, Chunk, options
<1>2. /\ PadTypeOK /\ fault = "none" /\ exists = TRUE
      /\ padding_size \in Nat /\ old \in Nat
  BY <1>1 DEF BuildInv, IsRunning, IsPadding, PadTypeOK
<1>3. /\ output \in Seq(Bytes) /\ N \in Nat /\ BuffSize \in Nat \ {0}
  BY Running
<1>4. /\ Len(output) = N + old /\ \A i \in 1 .. N : output[i] = input[i]
      /\ \A i \in N + 1 .. N + old : output[i] = Fill
  BY <1>1 DEF BuildInv, IsPadding
<1> HIDE DEF N, old
<1>5. n \in Nat /\ n > 0 /\ old + n <= padding_size
  BY <1>1, <1>2, <1>3 DEF Smaller
<1> HIDE DEF n
<1>6. /\ Fills(n) \in Seq(Bytes) /\ Len(Fills(n)) = n
      /\ \A i \in 1 .. n : Fills(n)[i] = Fill
  BY <1>5, FillsAre
<1>7. /\ output' \in Seq(Bytes) /\ Len(output') = N + old + n
      /\ \A i \in 1 .. N + old + n : output'[i] =
            IF i <= N + old THEN output[i] ELSE Fills(n)[i - (N + old)]
  <2> DEFINE more == Fills(n)  both == output \o more
  <2>1. more \in Seq(Bytes) /\ Len(more) = n
    BY <1>6
  <2>2. output' = both
    BY <1>1
  <2> HIDE DEF more
  <2>3. /\ both \in Seq(Bytes) /\ Len(both) = Len(output) + Len(more)
        /\ \A i \in 1 .. Len(output) + Len(more) : both[i] =
              IF i <= Len(output) THEN output[i] ELSE more[i - Len(output)]
    BY <1>3, <2>1, ConcatProperties
  <2> HIDE DEF both
  <2>4. /\ output' \in Seq(Bytes) /\ Len(output') = N + old + n
        /\ \A i \in 1 .. N + old + n : output'[i] =
              IF i <= N + old THEN output[i] ELSE more[i - (N + old)]
    BY <1>4, <2>1, <2>2, <2>3
  <2> QED BY <2>4 DEF more
<1>8. \A i \in 1 .. N : output'[i] = input[i]
  BY <1>2, <1>3, <1>4, <1>5, <1>7
<1>9. \A i \in N + 1 .. N + old + n : output'[i] = Fill
  <2> SUFFICES ASSUME NEW i \in N + 1 .. N + old + n PROVE output'[i] = Fill
    OBVIOUS
  <2>1. i \in 1 .. N + old + n
    BY <1>2, <1>3, <1>5
  <2>2. CASE i <= N + old
    BY <1>2, <1>3, <1>4, <1>7, <2>1, <2>2
  <2>3. CASE ~(i <= N + old)
    <3>1. i - (N + old) \in 1 .. n
      BY <1>2, <1>3, <1>5, <2>3
    <3> QED BY <1>6, <1>7, <2>1, <2>3, <3>1
  <2> QED BY <2>2, <2>3
<1>10. padsize' \in 0 .. padding_size /\ N + old + n = N + (old + n)
  BY <1>1, <1>2, <1>3, <1>5
<1>11. IsPadding'
  <2>1. Len(input') = N /\ Len(output') = N + padsize'
    BY <1>1, <1>7, <1>10 DEF N
  <2>2. \A i \in Len(input') + 1 .. Len(output') : output'[i] = Fill
    BY <1>1, <1>9, <1>10, <2>1
  <2>3. \A i \in 1 .. Len(input') : output'[i] = input'[i]
    BY <1>1, <1>8, <2>1
  <2>4. padding_size' = (align_size' - (Len(input') % align_size')) % align_size'
        /\ (max_size' # 0 => Len(input') + padding_size' <= max_size')
    BY <1>1 DEF BuildInv, IsPadding
  <2>5. padsize' <= padding_size'
    BY <1>1, <1>2, <1>10
  <2> QED BY <1>1, <1>2, <2>1, <2>2, <2>3, <2>4, <2>5 DEF IsPadding
<1>12. PadTypeOK'
  BY <1>1, <1>2, <1>10 DEF PadTypeOK
<1>13. OutputIsWholeOrGone' /\ IsRunning' /\ IsCopying'
  BY <1>1, <1>2 DEF OutputIsWholeOrGone, IsRunning, IsCopying, makevars
<1>14. UNCHANGED options
  BY <1>1 DEF options
<1> QED BY <1>1, <1>7, <1>11, <1>12, <1>13, <1>14, RunsInv

(* A run that succeeds has written the whole file. *)
LEMMA CloseInv ==
  ASSUME BuildInv, make = "run", Close, UNCHANGED <<config, makevars>>
  PROVE  BuildInv'
<1> DEFINE whole == Padded(input, align_size)
<1>1. /\ run = "pad" /\ padsize >= padding_size /\ run' = "exit0"
      /\ UNCHANGED <<align_size, max_size, input, exists, output, input_file_size,
                     padding_size, padsize, fault>>
  BY DEF Close, options, file, sizes
<1>2. /\ PadTypeOK /\ exists = TRUE /\ padding_size \in Nat /\ padsize \in Nat
      /\ padsize <= padding_size
  BY <1>1 DEF BuildInv, IsPadding, PadTypeOK
<1>3. /\ output \in Seq(Bytes) /\ input \in Seq(Bytes) /\ align_size \in Nat \ {0}
      /\ Len(input) \in Nat /\ max_size \in Nat
  BY Running
<1>4. padsize = padding_size
  BY <1>1, <1>2
<1>5. /\ Len(output) = Len(input) + padding_size
      /\ padding_size = (align_size - (Len(input) % align_size)) % align_size
      /\ \A i \in 1 .. Len(input) : output[i] = input[i]
      /\ \A i \in Len(input) + 1 .. Len(output) : output[i] = Fill
      /\ max_size # 0 => Len(input) + padding_size <= max_size
  BY <1>1, <1>4 DEF BuildInv, IsPadding
<1>6. /\ whole \in Seq(Bytes)
      /\ Len(whole) = Len(input) + ((align_size - (Len(input) % align_size)) % align_size)
      /\ \A i \in 1 .. Len(input) : whole[i] = input[i]
      /\ \A i \in Len(input) + 1 .. Len(whole) : whole[i] = Fill
  BY <1>3, PaddedIs
<1> HIDE DEF whole
<1>7. Len(whole) = Len(output)
  BY <1>5, <1>6
<1>8. \A i \in 1 .. Len(output) : output[i] = whole[i]
  <2> SUFFICES ASSUME NEW i \in 1 .. Len(output) PROVE output[i] = whole[i]
    OBVIOUS
  <2>1. Len(output) \in Nat
    BY <1>2, <1>3, <1>5
  <2>2. i \in 1 .. Len(input) \/ i \in Len(input) + 1 .. Len(output)
    BY <1>3, <2>1
  <2> QED BY <1>5, <1>6, <1>7, <2>2
<1>9. output = whole
  BY <1>3, <1>6, <1>7, <1>8, SeqEqual
<1>10. OutputIsWholeOrGone'
  <2>1. output' = Padded(input', align_size')
    BY <1>1, <1>9 DEF whole
  <2>2. max_size' # 0 => Len(output') <= max_size'
    BY <1>1, <1>5
  <2> QED BY <1>1, <1>2, <2>1, <2>2 DEF OutputIsWholeOrGone
<1>11. PadTypeOK'
  BY <1>1, <1>2 DEF PadTypeOK, Exited
<1>12. IsRunning' /\ IsCopying' /\ IsPadding'
  BY <1>1 DEF IsRunning, IsCopying, IsPadding
<1>13. UNCHANGED options /\ run' \in Exited /\ output' \in Seq(Bytes)
  BY <1>1, <1>3 DEF options, Exited
<1> QED BY <1>10, <1>11, <1>12, <1>13, RunsInv

(* One that fails has removed the file, but for the two excepted.          *)
LEMMA FailsInv ==
  ASSUME BuildInv, make = "run", OpenFails \/ ReadFails \/ WriteFails \/ CloseFails,
         UNCHANGED <<config, makevars>>
  PROVE  BuildInv'
<1>1. PadTypeOK /\ output \in Seq(Bytes)
  BY Running DEF BuildInv
<1>2. UNCHANGED <<align_size, max_size, input, input_file_size, padding_size, padsize>>
  BY DEF OpenFails, ReadFails, WriteFails, CloseFails, options, sizes
<1>3. UNCHANGED options /\ IsRunning' /\ IsCopying' /\ IsPadding' /\ run' \in Exited
  BY <1>2 DEF OpenFails, ReadFails, WriteFails, CloseFails, options, IsRunning, IsCopying,
     IsPadding, Exited
<1>4. /\ run' \in Exited /\ fault' \in {"none", "option"} \cup Faults
      /\ exists' \in BOOLEAN
  <2>1. fault \in {"none", "option"} \cup Faults /\ exists \in BOOLEAN
    BY <1>1 DEF PadTypeOK
  <2> QED BY <1>3, <2>1 DEF OpenFails, ReadFails, WriteFails, CloseFails, RemoveOutput,
        file
<1>5. PadTypeOK'
  BY <1>1, <1>2, <1>4 DEF PadTypeOK
<1>6. OutputIsWholeOrGone'
  BY DEF OutputIsWholeOrGone, OpenFails, ReadFails, WriteFails, CloseFails, RemoveOutput
<1>7. output' \in Seq(Bytes)
  <2>1. CASE CloseFails
    <3> DEFINE n == Len(output) - 1
    <3>1. output' = SubSeq(output, 1, n)
      BY <2>1 DEF CloseFails
    <3>2. Len(output) \in Nat /\ \A i \in 1 .. Len(output) : output[i] \in Bytes
      BY <1>1, LenProperties
    <3>3. n \in Int /\ 1 \in Int /\ \A i \in 1 .. n : output[i] \in Bytes
      BY <3>2
    <3> HIDE DEF n
    <3> QED BY <3>1, <3>3, SubSeqProperties
  <2>2. CASE OpenFails \/ ReadFails \/ WriteFails
    <3>1. output' = output \/ output' = <<>>
      BY <2>2 DEF OpenFails, ReadFails, WriteFails, RemoveOutput, file
    <3> QED BY <1>1, <3>1, EmptySeq
  <2> QED BY <2>1, <2>2
<1> QED BY <1>3, <1>5, <1>6, <1>7, RunsInv

-----------------------------------------------------------------------------
(* make.                                                                   *)

LEMMA LinkedAre ==
  ASSUME NEW st \in Stages, NEW n \in Nat, builds' \in Nat
  PROVE  Linked(st, n) \in Seq(Bytes) /\ Len(Linked(st, n)) = n
<1>1. \A i \in 1 .. n : <<builds', st, i>> \in Bytes
  BY DEF Bytes
<1> QED BY <1>1 DEF Linked

LEMMA InitInv == Init => BuildInv
<1> SUFFICES ASSUME Init PROVE BuildInv
  OBVIOUS
<1>1. <<>> \in Seq(Bytes)
  BY EmptySeq
<1>2. BuildTypeOK
  BY <1>1 DEF Init, BuildTypeOK, Stages, Exited, NoFile
<1>3. PadTypeOK
  <2>1. 0 \in 0 .. Word - 1 /\ 0 \in 0 .. 0
    BY PadutilAssumption
  <2> QED BY <2>1 DEF Init, PadTypeOK, Exited
<1> QED BY <1>2, <1>3 DEF Init, BuildInv, OutputIsWholeOrGone, IsConfigured, IsAsked,
        IsRunning, IsCopying, IsPadding, ArePadded, IsMade

LEMMA MakeInv == BuildInv /\ Make => BuildInv'
<1> SUFFICES ASSUME BuildInv, Make PROVE BuildInv'
  OBVIOUS
<1>1. /\ make \in Ended /\ builds' = builds + 1 /\ make' = "pad" /\ stage' = 1
      /\ lost' = FALSE /\ PAGESIZE' \in PageSizes /\ payload' \in {<<>>, Payload}
      /\ UNCHANGED <<run, align_size, max_size, input, exists, output, input_file_size,
                     padding_size, padsize, fault, pad, image>>
  BY DEF Make, padvars, options, file, sizes
<1>2. PICK n1 \in Lengths1, n2 \in Lengths2 :
        /\ bin' = [st \in Stages |-> Linked(st, IF st = 1 THEN n1 ELSE n2)]
        /\ __stage3_offset' = Stage3Offset(n2)
  BY DEF Make
<1>3. n1 \in Nat /\ n2 \in Nat /\ builds' \in Nat
  BY <1>1, BuildAssumption DEF BuildInv, BuildTypeOK
<1>4. /\ bin'[1] \in Seq(Bytes) /\ Len(bin'[1]) = n1
      /\ bin'[2] \in Seq(Bytes) /\ Len(bin'[2]) = n2
  BY <1>2, <1>3, LinkedAre DEF Stages
<1>5. bin' \in [Stages -> Seq(Bytes)]
  <2>1. DOMAIN bin' = {1, 2} /\ bin' = [st \in {1, 2} |-> bin'[st]]
    BY <1>2 DEF Stages
  <2> QED BY <1>4, <2>1 DEF Stages
<1>6. run \in Exited
  BY <1>1 DEF BuildInv, BuildTypeOK, IsRunning, Ended, Exited
<1>7. IsConfigured'
  BY <1>1, <1>2, <1>4 DEF IsConfigured, Stage3Offset, RoundUp
<1>8. BuildTypeOK'
  BY <1>1, <1>3, <1>5 DEF BuildInv, BuildTypeOK, Stages
<1>9. PadTypeOK' /\ OutputIsWholeOrGone'
  BY <1>1 DEF BuildInv, PadTypeOK, OutputIsWholeOrGone, Padded
<1>10. IsAsked' /\ IsRunning' /\ IsCopying' /\ IsPadding' /\ ArePadded' /\ IsMade'
  BY <1>1, <1>6 DEF IsAsked, IsRunning, IsCopying, IsPadding, ArePadded, IsMade, Exited
<1> QED BY <1>7, <1>8, <1>9, <1>10 DEF BuildInv

LEMMA PagePadInv == BuildInv /\ PagePad => BuildInv'
<1> SUFFICES ASSUME BuildInv, PagePad PROVE BuildInv'
  OBVIOUS
<1>1. /\ make = "pad" /\ make' = "run"
      /\ UNCHANGED <<PAGESIZE, payload, bin, __stage3_offset, stage, pad, image, builds,
                     lost>>
  BY DEF PagePad, config
<1>2. /\ align_size' = PAGESIZE % Word /\ max_size' = Maximum(stage) % Word
      /\ input' = bin[stage]
      /\ exists' = pad[stage].exists /\ output' = pad[stage].content
      /\ input_file_size' = 0 /\ padding_size' = 0 /\ padsize' = 0
      /\ IF align_size' <= 1 THEN run' = "exit1" /\ fault' = "option"
                             ELSE run' = "open"  /\ fault' = "none"
  BY DEF PagePad, Invoke
<1>3. PAGESIZE \in Nat /\ PAGESIZE > 1 /\ PAGESIZE < Word /\ Word \in Nat \ {0}
  BY <1>1, BuildAssumption, PadutilAssumption DEF BuildInv, IsConfigured
<1>4. align_size' = PAGESIZE /\ max_size' = Maximum(stage) /\ max_size' \in 0 .. Word - 1
  BY <1>2, <1>3 DEF Maximum
<1>5. run' = "open" /\ fault' = "none"
  BY <1>2, <1>3, <1>4
<1>6. /\ stage \in Stages /\ bin[stage] \in Seq(Bytes)
      /\ pad[stage].exists \in BOOLEAN /\ pad[stage].content \in Seq(Bytes)
  BY DEF BuildInv, BuildTypeOK
<1>7. BuildTypeOK'
  <2>1. align_size' \in Nat /\ max_size' \in Nat
    BY <1>3, <1>4
  <2>2. input' \in Seq(Bytes) /\ output' \in Seq(Bytes)
    BY <1>2, <1>6
  <2> QED BY <1>1, <1>5, <2>1, <2>2 DEF BuildInv, BuildTypeOK
<1>8. PadTypeOK'
  BY <1>2, <1>3, <1>4, <1>5, <1>6 DEF PadTypeOK
<1>9. IsConfigured'
  BY <1>1 DEF BuildInv, IsConfigured, RoundUp
<1>10. IsAsked'
  BY <1>1, <1>2, <1>4 DEF IsAsked, Maximum
<1>11. OutputIsWholeOrGone' /\ IsRunning' /\ IsCopying' /\ IsPadding' /\ IsMade'
  BY <1>1, <1>2, <1>5 DEF OutputIsWholeOrGone, IsRunning, IsCopying, IsPadding, IsMade
<1>12. ArePadded'
  BY <1>1 DEF BuildInv, ArePadded, IsPadded
<1> QED BY <1>7, <1>8, <1>9, <1>10, <1>11, <1>12 DEF BuildInv

(* A padded file is taken over as padutil has left it. *)
LEMMA PagePadDoneInv == BuildInv /\ PagePadDone => BuildInv'
<1> SUFFICES ASSUME BuildInv, PagePadDone PROVE BuildInv'
  OBVIOUS
<1>1. /\ make = "run" /\ run \in Exited
      /\ pad' = [pad EXCEPT ![stage] = [exists |-> exists, content |-> output]]
      /\ lost' = (lost \/ fault = "close")
      /\ UNCHANGED <<run, align_size, max_size, input, exists, output, input_file_size,
                     padding_size, padsize, fault, PAGESIZE, payload, bin,
                     __stage3_offset, image, builds>>
  BY DEF PagePadDone, padvars, options, file, sizes, config
<1>2. IF run = "exit1" THEN make' = "failed" /\ stage' = stage
      ELSE IF stage = 1 THEN make' = "pad" /\ stage' = 2
      ELSE make' = "cat" /\ stage' = stage
  BY DEF PagePadDone
<1>3. /\ PadTypeOK /\ OutputIsWholeOrGone /\ stage \in {1, 2} /\ lost \in BOOLEAN
      /\ pad \in [Stages -> [exists : BOOLEAN, content : Seq(Bytes)]]
      /\ exists \in BOOLEAN /\ output \in Seq(Bytes)
  BY DEF BuildInv, BuildTypeOK, PadTypeOK, Stages
<1>4. pad'[stage].exists = exists /\ pad'[stage].content = output
      /\ \A st \in {1, 2} : st # stage => pad'[st] = pad[st]
  BY <1>1, <1>3 DEF Stages
<1>5. BuildTypeOK'
  <2>1. pad' \in [Stages -> [exists : BOOLEAN, content : Seq(Bytes)]]
    BY <1>1, <1>3
  <2>2. make' \in {"pad", "cat", "failed"} /\ stage' \in Stages
    BY <1>2, <1>3 DEF Stages
  <2>3. lost' \in BOOLEAN
    BY <1>1, <1>3
  <2> QED BY <1>1, <2>1, <2>2, <2>3 DEF BuildInv, BuildTypeOK
<1>6. PadTypeOK' /\ OutputIsWholeOrGone'
  BY <1>1, <1>3 DEF PadTypeOK, OutputIsWholeOrGone, Padded
<1>7. IsConfigured'
  BY <1>1 DEF BuildInv, IsConfigured, RoundUp
<1>8. IsAsked' /\ IsRunning' /\ IsCopying' /\ IsPadding' /\ IsMade'
  BY <1>1, <1>2 DEF IsAsked, IsRunning, IsCopying, IsPadding, IsMade, Exited
<1>9. ArePadded'
  <2> SUFFICES ASSUME lost' = FALSE, run = "exit0"
               PROVE  /\ make' \in {"pad", "run"} /\ stage' = 2 => IsPadded(1)'
                      /\ make' \in {"cat", "made"} => IsPadded(1)' /\ IsPadded(2)'
    BY <1>1, <1>2, <1>3 DEF ArePadded, Exited
  <2>1. lost = FALSE /\ fault # "close"
    BY <1>1, <1>3
  <2>2. /\ exists = TRUE /\ output = Padded(input, align_size)
        /\ max_size # 0 => Len(output) <= max_size
    BY <1>3, <2>1 DEF OutputIsWholeOrGone
  <2>3. input = bin[stage] /\ max_size = Maximum(stage) /\ align_size = PAGESIZE
        /\ PAGESIZE > 0
    <3>1. PAGESIZE \in Nat \ {0}
      BY <1>1, Running
    <3> QED BY <1>1, <3>1 DEF BuildInv, IsAsked
  <2>4. CASE stage = 1
    <3>1. IsPadded(1)'
      <4>1. Len(output) <= PAGESIZE
        BY <2>2, <2>3, <2>4 DEF Maximum
      <4>2. pad'[1].exists = TRUE /\ pad'[1].content = Padded(bin'[1], PAGESIZE')
        BY <1>1, <1>4, <2>2, <2>3, <2>4
      <4> QED BY <1>1, <1>4, <2>4, <4>1, <4>2 DEF IsPadded
    <3> QED BY <1>2, <2>4, <3>1
  <2>5. CASE stage = 2
    <3>1. IsPadded(1)
      BY <1>1, <2>1, <2>5 DEF BuildInv, ArePadded
    <3>2. IsPadded(1)'
      BY <1>1, <1>4, <2>5, <3>1 DEF IsPadded
    <3>3. IsPadded(2)'
      <4>1. pad'[2].exists = TRUE /\ pad'[2].content = Padded(bin'[2], PAGESIZE')
        BY <1>1, <1>4, <2>2, <2>3, <2>5
      <4> QED BY <4>1 DEF IsPadded
    <3> QED BY <3>2, <3>3
  <2> QED BY <1>3, <2>4, <2>5
<1> QED BY <1>5, <1>6, <1>7, <1>8, <1>9 DEF BuildInv

LEMMA CatInv == BuildInv /\ (Cat \/ CatFails) => BuildInv'
<1> SUFFICES ASSUME BuildInv, Cat \/ CatFails PROVE BuildInv'
  OBVIOUS
<1>1. /\ make = "cat" /\ make' \in {"made", "failed"}
      /\ make' = "made" => image' = CatFinal
      /\ UNCHANGED <<run, align_size, max_size, input, exists, output, input_file_size,
                     padding_size, padsize, fault, PAGESIZE, payload, bin,
                     __stage3_offset, stage, pad, builds, lost>>
  BY DEF Cat, CatFails, padvars, options, file, sizes, config
<1>2. /\ pad[1].content \in Seq(Bytes) /\ pad[2].content \in Seq(Bytes)
      /\ payload \in Seq(Bytes)
  <2>1. <<>> \in Seq(Bytes) /\ Payload \in Seq(Bytes)
    BY EmptySeq DEF Payload, Bytes
  <2> QED BY <2>1 DEF BuildInv, BuildTypeOK, Stages
<1>3. image' \in Seq(Bytes)
  <2>1. CatFinal \in Seq(Bytes)
    BY <1>2, ConcatProperties DEF CatFinal
  <2> QED BY <1>2, <2>1 DEF Cat, CatFails
<1>4. BuildTypeOK'
  BY <1>1, <1>3 DEF BuildInv, BuildTypeOK
<1>5. PadTypeOK' /\ OutputIsWholeOrGone'
  BY <1>1 DEF BuildInv, PadTypeOK, OutputIsWholeOrGone, Padded
<1>6. IsConfigured'
  BY <1>1 DEF BuildInv, IsConfigured, RoundUp
<1>7. IsAsked' /\ IsRunning' /\ IsCopying' /\ IsPadding'
  BY <1>1 DEF BuildInv, IsAsked, IsRunning, IsCopying, IsPadding
<1>8. ArePadded' /\ IsMade'
  BY <1>1 DEF BuildInv, ArePadded, IsPadded, IsMade, CatFinal
<1> QED BY <1>4, <1>5, <1>6, <1>7, <1>8 DEF BuildInv

LEMMA NextInv == BuildInv /\ [Next]_allvars => BuildInv'
<1> SUFFICES ASSUME BuildInv, [Next]_allvars PROVE BuildInv'
  OBVIOUS
<1>1. CASE Make
  BY <1>1, MakeInv
<1>2. CASE PagePad
  BY <1>2, PagePadInv
<1>3. CASE Runs
  <2>1. make = "run" /\ Padutil /\ UNCHANGED <<config, makevars>>
    BY <1>3 DEF Runs
  <2> QED BY <2>1, OpenInv, CopyInv, PadSizeInv, PadInv, CloseInv, FailsInv DEF Padutil
<1>4. CASE PagePadDone
  BY <1>4, PagePadDoneInv
<1>5. CASE Cat \/ CatFails
  BY <1>5, CatInv
<1>6. CASE UNCHANGED allvars
  <2>1. UNCHANGED <<run, align_size, max_size, input, exists, output, input_file_size,
                    padding_size, padsize, fault, PAGESIZE, payload, bin,
                    __stage3_offset, make, stage, pad, image, builds, lost>>
    BY <1>6 DEF allvars, padvars, options, file, sizes, config, makevars
  <2>2. BuildTypeOK' /\ PadTypeOK' /\ OutputIsWholeOrGone' /\ IsConfigured'
    BY <2>1 DEF BuildInv, BuildTypeOK, PadTypeOK, OutputIsWholeOrGone, IsConfigured,
       RoundUp, Padded
  <2>3. IsAsked' /\ IsRunning' /\ IsCopying' /\ IsPadding'
    BY <2>1 DEF BuildInv, IsAsked, IsRunning, IsCopying, IsPadding, Maximum
  <2>4. ArePadded' /\ IsMade'
    BY <2>1 DEF BuildInv, ArePadded, IsPadded, IsMade, CatFinal
  <2> QED BY <2>2, <2>3, <2>4 DEF BuildInv
<1> QED BY <1>1, <1>2, <1>3, <1>4, <1>5, <1>6 DEF Next

THEOREM BuildInvHolds == Spec => []BuildInv
<1> QED BY InitInv, NextInv, PTL DEF Spec

(* padutil keeps its types, in whatever order builds and failures come.    *)
THEOREM PadTypes == Spec => []PadTypeOK
<1>1. BuildInv => PadTypeOK
  BY DEF BuildInv
<1> QED BY <1>1, BuildInvHolds, PTL

(* process_file of padutil.c. *)
THEOREM OutputIsNeverPartial == Spec => []OutputIsWholeOrGone
<1>1. BuildInv => OutputIsWholeOrGone
  BY DEF BuildInv
<1> QED BY <1>1, BuildInvHolds, PTL

(* cat_final: the image of a build that succeeds, for any stages.          *)
THEOREM ImageIsInPlace == Spec => []StagesAreInPlace
<1>1. BuildInv => StagesAreInPlace
  <2> SUFFICES ASSUME BuildInv, make = "made", ~lost
               PROVE  /\ Len(bin[1]) <= PAGESIZE
                      /\ Len(image) = __stage3_offset + Len(payload)
                      /\ \A i \in DOMAIN bin[1] : image[i] = bin[1][i]
                      /\ \A i \in DOMAIN bin[2] : image[PAGESIZE + i] = bin[2][i]
                      /\ \A i \in DOMAIN payload :
                           image[__stage3_offset + i] = payload[i]
    BY DEF StagesAreInPlace
  <2> DEFINE b1 == bin[1]  b2 == bin[2]  P == PAGESIZE  m == RoundUp(Len(b2), P)
             p1 == pad[1].content  p2 == pad[2].content
  <2>1. /\ b1 \in Seq(Bytes) /\ b2 \in Seq(Bytes) /\ payload \in Seq(Bytes)
        /\ p1 \in Seq(Bytes) /\ p2 \in Seq(Bytes)
    <3>1. <<>> \in Seq(Bytes) /\ Payload \in Seq(Bytes)
      BY EmptySeq DEF Payload, Bytes
    <3> QED BY <3>1 DEF BuildInv, BuildTypeOK, Stages
  <2>2. P \in PageSizes /\ Len(b1) \in Lengths1 /\ Len(b2) \in Lengths2
        /\ __stage3_offset = P + RoundUp(RoundUp(Len(b2), LinkAlign), P)
    BY DEF BuildInv, IsConfigured
  <2>3. /\ P \in Nat \ {0} /\ P % LinkAlign = 0 /\ LinkAlign \in Nat \ {0}
        /\ Len(b1) \in Nat \ {0} /\ Len(b2) \in Nat
    BY <2>2, BuildAssumption
  <2>4. p1 = Padded(b1, P) /\ p2 = Padded(b2, P) /\ Len(p1) <= P
    BY DEF BuildInv, ArePadded, IsPadded
  <2>5. image = p1 \o p2 \o payload
    BY DEF BuildInv, IsMade, CatFinal
  <2>6. __stage3_offset = P + m
    <3>1. RoundUp(RoundUp(Len(b2), LinkAlign), P) = RoundUp(Len(b2), P)
      BY <2>3, RoundUpTwice
    <3> QED BY <2>2, <3>1
  <2> HIDE DEF b1, b2, P, p1, p2
  <2>7. /\ Len(p1) = RoundUp(Len(b1), P)
        /\ \A i \in 1 .. Len(b1) : p1[i] = b1[i]
    BY <2>1, <2>3, <2>4, PaddedIs DEF RoundUp
  <2>8. /\ Len(p2) = m
        /\ \A i \in 1 .. Len(b2) : p2[i] = b2[i]
    BY <2>1, <2>3, <2>4, PaddedIs DEF RoundUp
  <2>9. Len(p1) = P /\ Len(b1) <= P
    <3>1. PICK k \in Nat : Len(p1) = P * k /\ P * k - P < Len(b1) /\ Len(b1) <= P * k
      BY <2>3, <2>7, RoundUpIs
    <3>2. k # 0
      BY <2>3, <3>1
    <3>3. k < 2
      <4> SUFFICES ASSUME 2 <= k PROVE FALSE
        BY <3>1
      <4>1. P * 2 <= P * k
        BY <2>3, <3>1
      <4> QED BY <2>3, <2>4, <3>1, <4>1
    <3>4. k = 1
      BY <3>1, <3>2, <3>3
    <3> QED BY <2>3, <2>4, <3>1, <3>4
  <2>10. m \in Nat /\ Len(b2) <= m
    <3>1. PICK k \in Nat : m = P * k /\ Len(b2) <= P * k
      BY <2>3, RoundUpIs
    <3> HIDE DEF m
    <3> QED BY <2>3, <3>1
  <2> HIDE DEF m
  <2> DEFINE both == p1 \o p2
  <2>11. /\ both \in Seq(Bytes) /\ Len(both) = P + m
         /\ \A i \in 1 .. P + m : both[i] = IF i <= P THEN p1[i] ELSE p2[i - P]
    BY <2>1, <2>8, <2>9, ConcatProperties
  <2>12. image = both \o payload
    BY <2>5
  <2> HIDE DEF both
  <2> DEFINE L == Len(payload)
  <2>13. L \in Nat /\ DOMAIN payload = 1 .. L
    BY <2>1, LenProperties
  <2>14. /\ Len(image) = P + m + L
         /\ \A i \in 1 .. P + m + L : image[i] =
              IF i <= P + m THEN both[i] ELSE payload[i - (P + m)]
    BY <2>1, <2>11, <2>12, ConcatProperties
  <2> HIDE DEF L
  <2>15. DOMAIN b1 = 1 .. Len(b1) /\ DOMAIN b2 = 1 .. Len(b2)
    BY <2>1, LenProperties
  <2>16. ASSUME NEW i \in 1 .. Len(b1)
         PROVE  image[i] = b1[i]
    <3>1. i \in 1 .. P + m + L /\ i <= P + m /\ i \in 1 .. P + m /\ i <= P
      BY <2>3, <2>9, <2>10, <2>13
    <3> QED BY <2>7, <2>11, <2>14, <3>1
  <2>17. ASSUME NEW i \in 1 .. Len(b2)
         PROVE  image[P + i] = b2[i]
    <3>1. /\ P + i \in 1 .. P + m + L /\ P + i <= P + m /\ P + i \in 1 .. P + m
          /\ ~(P + i <= P) /\ (P + i) - P = i
      BY <2>3, <2>10, <2>13
    <3>2. image[P + i] = both[P + i] /\ both[P + i] = p2[(P + i) - P]
      BY <2>11, <2>14, <3>1
    <3> QED BY <2>8, <3>1, <3>2
  <2>18. ASSUME NEW i \in 1 .. L
         PROVE  image[P + m + i] = payload[i]
    <3>1. /\ P + m + i \in 1 .. P + m + L /\ ~(P + m + i <= P + m)
          /\ (P + m + i) - (P + m) = i
      BY <2>3, <2>10, <2>13
    <3> QED BY <2>14, <3>1
  <2> QED BY <2>6, <2>9, <2>13, <2>14, <2>15, <2>16, <2>17, <2>18 DEF b1, b2, P, L
<1> QED BY <1>1, BuildInvHolds, PTL
=============================================================================
