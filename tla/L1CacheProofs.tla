--------------------------- MODULE L1CacheProofs ---------------------------
(***************************************************************************)
(* For every size of line and memory: the loops of L1Cache treat exactly   *)
(* the lines of their range, lose no store, and leave nothing stale behind.*)
(***************************************************************************)
EXTENDS L1Cache, TLAPS


(* Only stage 2 stores through the data cache. *)
Stage1Clean == stage = 1 => \A l \in Lines : d[l].state # "dirty"

RangeFits == pc # "run" =>
  /\ base + size <= LineSize * LineCount /\ base < LineSize * LineCount
  /\ a1 = StopLine(base, size)

Fresh(l) == /\ mem[l] = last[l]
            /\ InI(l) => i[l].val = last[l]
            /\ InD(l) => d[l].val = last[l]

Treated(l) == pc = "enter" \/ (pc \in {"first", "second"} /\ l < a0)

TreatedAreFresh == \A l \in Lines : InRange(l) /\ Treated(l) => Fresh(l)

(* The line at hand, between its two cache operations. *)
HalfTreated == pc = "second" =>
  /\ mem[a0] = last[a0]
  /\ stage = 2 => (InD(a0) => d[a0].val = last[a0])
  /\ stage = 1 => (InI(a0) => i[a0].val = last[a0])

IInv == /\ TypeOK /\ NoStoreIsLost /\ Stage1Clean /\ RangeFits
        /\ LoopStaysInRange /\ TreatedAreFresh /\ HalfTreated

(* Lines and addresses: what the masks of the code compute. *)
LEMMA LineOf ==
  ASSUME NEW L \in Nat \ {0}, NEW C \in Nat \ {0}, NEW x \in Nat, x < L * C
  PROVE  x \div L \in 0 .. C - 1
<1> DEFINE q == x \div L
<1>1. q \in Int /\ L * q <= x /\ x < L * q + L
  OBVIOUS
<1>2. 0 <= q
  <2>1. SUFFICES ASSUME q <= -1 PROVE FALSE
    BY <1>1
  <2>2. L * q <= L * (-1)
    BY <1>1, <2>1
  <2>. QED
    BY <1>1, <2>2
<1>3. q <= C - 1
  <2>1. SUFFICES ASSUME C <= q PROVE FALSE
    BY <1>1
  <2>2. L * C <= L * q
    BY <1>1, <2>1
  <2>. QED
    BY <1>1, <2>2
<1>. QED
  BY <1>1, <1>2, <1>3

LEMMA NextLine ==
  ASSUME NEW L \in Nat \ {0}, NEW x \in Int
  PROVE  (x + L) \div L = (x \div L) + 1
<1> DEFINE q == x \div L
<1> DEFINE r == (x + L) \div L
<1>1. q \in Int /\ L * q <= x /\ x < L * q + L
  OBVIOUS
<1>2. r \in Int /\ L * r <= x + L /\ x + L < L * r + L
  OBVIOUS
<1>3. L * (r - 1) < L * (q + 1) /\ L * q < L * r
  BY <1>1, <1>2
<1>4. r - 1 < q + 1
  <2>1. SUFFICES ASSUME q + 1 <= r - 1 PROVE FALSE
    BY <1>1, <1>2
  <2>2. L * (q + 1) <= L * (r - 1)
    BY <1>1, <1>2, <2>1
  <2>. QED
    BY <1>1, <1>2, <1>3, <2>2
<1>5. q < r
  <2>1. SUFFICES ASSUME r <= q PROVE FALSE
    BY <1>1, <1>2
  <2>2. L * r <= L * q
    BY <1>1, <1>2, <2>1
  <2>. QED
    BY <1>1, <1>2, <1>3, <2>2
<1>. QED
  BY <1>1, <1>2, <1>4, <1>5

(* The loop's bounds, for a range that is not empty. *)
LEMMA RangeOfLines ==
  ASSUME NEW b \in Nat, NEW n \in Nat, n > 0, b + n <= LineSize * LineCount
  PROVE  /\ b \div LineSize \in Lines /\ (b + n - 1) \div LineSize \in Lines
         /\ b \div LineSize <= (b + n - 1) \div LineSize
         /\ StopLine(b, n) = (((b + n - 1) \div LineSize) + 1) % LineCount
<1>1. LineSize \in Nat \ {0} /\ LineCount \in Nat \ {0}
  BY SizeAssumption
<1>2. b \div LineSize \in Lines
  <2>1. b < LineSize * LineCount
    BY <1>1
  <2>. QED
    BY <1>1, <2>1, LineOf DEF Lines
<1>3. (b + n - 1) \div LineSize \in Lines
  <2> DEFINE x == b + n - 1
  <2>1. x \in Nat /\ x < LineSize * LineCount
    BY <1>1
  <2> HIDE DEF x
  <2>2. x \div LineSize \in 0 .. LineCount - 1
    BY <1>1, <2>1, LineOf
  <2>. QED
    BY <2>2 DEF x, Lines
<1>4. b \div LineSize <= (b + n - 1) \div LineSize
  <2> DEFINE p == b \div LineSize
  <2> DEFINE q == (b + n - 1) \div LineSize
  <2>1. p \in Int /\ LineSize * p <= b
    BY <1>1
  <2>2. q \in Int /\ b + n - 1 < LineSize * q + LineSize
    BY <1>1
  <2>3. SUFFICES ASSUME q + 1 <= p PROVE FALSE
    BY <2>1, <2>2
  <2>4. LineSize * (q + 1) <= LineSize * p
    BY <1>1, <2>1, <2>2, <2>3
  <2>. QED
    BY <1>1, <2>1, <2>2, <2>4
<1>5. b + n + LineSize - 1 = (b + n - 1) + LineSize
  BY <1>1
<1>6. (b + n + LineSize - 1) \div LineSize = ((b + n - 1) \div LineSize) + 1
  <2> DEFINE x == b + n - 1
  <2>1. x \in Int
    OBVIOUS
  <2> HIDE DEF x
  <2>2. (x + LineSize) \div LineSize = (x \div LineSize) + 1
    BY <1>1, <2>1, NextLine
  <2>. QED
    BY <1>5, <2>2 DEF x
<1>. QED
  BY <1>2, <1>3, <1>4, <1>6 DEF StopLine

LEMMA InitIInv == Init => IInv
<1>1. SUFFICES ASSUME Init PROVE IInv
  OBVIOUS
<1>2. LineSize \in Nat \ {0} /\ LineCount \in Nat \ {0} /\ MaxStores \in Nat
  BY SizeAssumption
<1>3. TypeOK
  BY <1>1, <1>2 DEF Init, TypeOK, Lines, Values, Absent
<1>. QED
  BY <1>1, <1>2, <1>3
     DEF Init, IInv, NoStoreIsLost, Stage1Clean, RangeFits, LoopStaysInRange,
         TreatedAreFresh, Treated, HalfTreated, Lines, Absent

(* Each of the seven kinds of step keeps the invariant. *)
LEMMA HardwareStep == IInv /\ Hardware => IInv'
<1>1. SUFFICES ASSUME IInv, NEW l \in Lines,
                      FetchD(l) \/ EvictD(l) \/ FetchI(l) \/ EvictI(l)
               PROVE  IInv'
  BY DEF Hardware
<1>2. UNCHANGED <<pc, stage, loop, last>>
  BY <1>1 DEF FetchD, EvictD, FetchI, EvictI
<1>3. mem[l] \in Values /\ d[l].val \in Values /\ last[l] \in Values
  BY <1>1 DEF IInv, TypeOK
<1>4. d[l].state = "dirty" => d[l].val = last[l]
  BY <1>1 DEF IInv, NoStoreIsLost
<1>5. d[l].state # "dirty" => mem[l] = last[l]
  BY <1>1 DEF IInv, NoStoreIsLost
<1>6. TypeOK'
  <2> DEFINE DLine == [state : {"absent", "clean", "dirty"}, val : Values]
             ILine == [state : {"absent", "clean"}, val : Values]
  <2>1. 0 \in Values
    BY SizeAssumption DEF Values
  <2>2. Absent \in DLine /\ Absent \in ILine
    BY <2>1 DEF Absent
  <2>3. Held("clean", mem[l]) \in DLine /\ Held("clean", mem[l]) \in ILine
    BY <1>3 DEF Held
  <2>4. /\ mem \in [Lines -> Values] /\ d \in [Lines -> DLine]
        /\ i \in [Lines -> ILine]
    BY <1>1 DEF IInv, TypeOK
  <2>5. \/ mem' = mem \/ mem' = [mem EXCEPT ![l] = d[l].val]
    BY <1>1 DEF FetchD, EvictD, FetchI, EvictI, WriteBack
  <2>6. \/ d' = d \/ d' = [d EXCEPT ![l] = Absent]
        \/ d' = [d EXCEPT ![l] = Held("clean", mem[l])]
    BY <1>1 DEF FetchD, EvictD, FetchI, EvictI
  <2>7. \/ i' = i \/ i' = [i EXCEPT ![l] = Absent]
        \/ i' = [i EXCEPT ![l] = Held("clean", mem[l])]
    BY <1>1 DEF FetchD, EvictD, FetchI, EvictI
  <2> HIDE DEF DLine, ILine
  <2>8. mem' \in [Lines -> Values]
    BY <1>3, <2>4, <2>5
  <2>9. d' \in [Lines -> DLine]
    BY <2>2, <2>3, <2>4, <2>6
  <2>10. i' \in [Lines -> ILine]
    BY <2>2, <2>3, <2>4, <2>7
  <2>. QED
    BY <1>1, <1>2, <2>8, <2>9, <2>10 DEF IInv, TypeOK, loop, DLine, ILine
<1>7. NoStoreIsLost'
  <2>1. ASSUME NEW k \in Lines
        PROVE  (last[k] = IF d[k].state = "dirty" THEN d[k].val ELSE mem[k])'
    <3>1. last[k] = IF d[k].state = "dirty" THEN d[k].val ELSE mem[k]
      BY <1>1 DEF IInv, NoStoreIsLost
    <3>2. CASE FetchD(l)
      BY <1>1, <1>2, <3>1, <3>2 DEF IInv, TypeOK, FetchD, Held, InD
    <3>3. CASE EvictD(l)
      BY <1>1, <1>2, <3>1, <3>3 DEF IInv, TypeOK, EvictD, Absent, WriteBack
    <3>4. CASE FetchI(l) \/ EvictI(l)
      BY <1>2, <3>1, <3>4 DEF FetchI, EvictI
    <3>. QED
      BY <1>1, <3>2, <3>3, <3>4
  <2>. QED
    BY <2>1 DEF NoStoreIsLost
<1>8. Stage1Clean'
  BY <1>1, <1>2
     DEF IInv, TypeOK, Stage1Clean, FetchD, EvictD, FetchI, EvictI, Held, Absent
<1>9. RangeFits' /\ LoopStaysInRange'
  BY <1>1, <1>2 DEF IInv, RangeFits, LoopStaysInRange, InRange, StopLine, loop
<1>10. ASSUME NEW k \in Lines
       PROVE  /\ mem[k] = last[k] => mem'[k] = last'[k]
              /\ mem[k] = last[k] /\ (InD(k) => d[k].val = last[k])
                   => (InD(k)' => d'[k].val = last'[k])
              /\ mem[k] = last[k] /\ (InI(k) => i[k].val = last[k])
                   => (InI(k)' => i'[k].val = last'[k])
  BY <1>1, <1>2, <1>4, <1>10
     DEF IInv, TypeOK, FetchD, EvictD, FetchI, EvictI, WriteBack, Held, Absent,
         InD, InI
<1>11. TreatedAreFresh'
  <2>1. \A k \in Lines : Fresh(k) => Fresh(k)'
    BY <1>10 DEF Fresh
  <2>2. \A k \in Lines : InRange(k)' <=> InRange(k)
    BY <1>2 DEF InRange, loop
  <2>3. \A k \in Lines : Treated(k)' <=> Treated(k)
    BY <1>2 DEF Treated, loop
  <2>. QED
    BY <1>1, <2>1, <2>2, <2>3 DEF IInv, TreatedAreFresh
<1>12. HalfTreated'
  <2>1. a0 \in Lines
    BY <1>1 DEF IInv, TypeOK
  <2>. QED
    BY <1>1, <1>2, <1>10, <2>1 DEF IInv, HalfTreated, loop
<1>. QED
  BY <1>6, <1>7, <1>8, <1>9, <1>11, <1>12 DEF IInv

LEMMA StoreStep ==
  ASSUME IInv, NEW l \in Lines, Store(l)
  PROVE  IInv'
<1>1. pc = "run" /\ UNCHANGED <<pc, stage, loop, i>>
  BY DEF Store
<1>2. last[l] \in Values /\ last[l] + 1 \in Values
  BY SizeAssumption DEF IInv, TypeOK, Store, Values
<1>3. TypeOK'
  BY <1>1, <1>2 DEF IInv, TypeOK, Store, Held, loop
<1>4. stage \in {1, 2}
  BY DEF IInv, TypeOK
<1>5. NoStoreIsLost'
  BY <1>1, <1>4 DEF IInv, TypeOK, NoStoreIsLost, Stage1Clean, Store, Held
<1>6. Stage1Clean'
  BY <1>1 DEF IInv, TypeOK, Stage1Clean, Store
<1>. QED
  BY <1>1, <1>3, <1>5, <1>6
     DEF IInv, RangeFits, LoopStaysInRange, TreatedAreFresh, Treated, HalfTreated

LEMMA CallStep ==
  ASSUME IInv, NEW b \in Bases, NEW n \in Sizes, CallRange(b, n)
  PROVE  IInv'
<1>1. /\ b \in Nat /\ n \in Nat
      /\ b + n <= LineSize * LineCount /\ b < LineSize * LineCount
  BY RangeAssumption
<1>2. LineSize \in Nat \ {0} /\ LineCount \in Nat \ {0}
  BY SizeAssumption
<1>3. /\ base' = b /\ size' = n /\ a0' = b \div LineSize
      /\ a1' = StopLine(b, n) /\ pc' = "first"
      /\ UNCHANGED <<stage, mem, d, i, last>>
  BY DEF CallRange, FirstLine, cache
<1>4. b \div LineSize \in Lines
  BY <1>1, <1>2, LineOf DEF Lines
<1>5. StopLine(b, n) \in Lines
  <2>1. (b + n + LineSize - 1) \div LineSize \in Int
    BY <1>1, <1>2
  <2>. QED
    BY <1>2, <2>1 DEF StopLine, Lines
<1>6. TypeOK'
  BY <1>1, <1>3, <1>4, <1>5 DEF IInv, TypeOK
<1>7. NoStoreIsLost' /\ Stage1Clean'
  BY <1>3 DEF IInv, NoStoreIsLost, Stage1Clean
<1>8. RangeFits'
  BY <1>1, <1>3 DEF RangeFits, StopLine
<1>9. LoopStaysInRange'
  BY <1>1, <1>3, RangeOfLines DEF LoopStaysInRange, InRange
<1>10. TreatedAreFresh'
  <2> DEFINE f == b \div LineSize
  <2>1. f \in Int
    BY <1>1, <1>2
  <2>2. \A k \in Lines : InRange(k)' => f <= k
    BY <1>3 DEF InRange
  <2>3. \A k \in Lines : Treated(k)' => k < f
    BY <1>3 DEF Treated
  <2> HIDE DEF f
  <2>4. \A k \in Lines : ~(InRange(k)' /\ Treated(k)')
    BY <2>1, <2>2, <2>3 DEF Lines
  <2>. QED
    BY <2>4 DEF TreatedAreFresh
<1>11. HalfTreated'
  BY <1>3 DEF HalfTreated
<1>. QED
  BY <1>6, <1>7, <1>8, <1>9, <1>10, <1>11 DEF IInv

LEMMA FirstOpStep == IInv /\ FirstOp => IInv'
<1>1. SUFFICES ASSUME IInv, FirstOp PROVE IInv'
  OBVIOUS
<1>2. pc = "first" /\ pc' = "second" /\ UNCHANGED <<stage, loop, last>>
  BY <1>1 DEF FirstOp
<1>3. a0 \in Lines /\ stage \in {1, 2}
  BY <1>1 DEF IInv, TypeOK
<1>4. mem[a0] \in Values /\ d[a0].val \in Values
  BY <1>1, <1>3 DEF IInv, TypeOK
<1>5. /\ d[a0].state = "dirty" => d[a0].val = last[a0]
      /\ d[a0].state # "dirty" => mem[a0] = last[a0]
  BY <1>1, <1>3 DEF IInv, NoStoreIsLost
<1>6. \/ stage = 1 /\ i' = [i EXCEPT ![a0] = Absent] /\ UNCHANGED <<mem, d>>
      \/ /\ stage = 2 /\ mem' = WriteBack(a0)
         /\ d' = [d EXCEPT ![a0] = Absent] /\ UNCHANGED i
  BY <1>1, <1>3 DEF FirstOp, CacheOp, FlushOps, InvalidateOps, WriteBackD, DropI
<1>7. TypeOK'
  <2>1. 0 \in Values
    BY SizeAssumption DEF Values
  <2>2. CASE stage = 1
    BY <1>1, <1>2, <1>6, <2>1, <2>2 DEF IInv, TypeOK, Absent, loop
  <2>3. CASE stage = 2
    <3>1. mem' = mem \/ mem' = [mem EXCEPT ![a0] = d[a0].val]
      BY <1>6, <2>3 DEF WriteBack
    <3>2. mem' \in [Lines -> Values]
      BY <1>1, <1>4, <3>1 DEF IInv, TypeOK
    <3>3. d' = [d EXCEPT ![a0] = Absent] /\ UNCHANGED i
      BY <1>6, <2>3
    <3>4. Absent \in [state : {"absent", "clean", "dirty"}, val : Values]
      BY <2>1 DEF Absent
    <3>5. d' \in [Lines -> [state : {"absent", "clean", "dirty"}, val : Values]]
      BY <1>1, <3>3, <3>4 DEF IInv, TypeOK
    <3>. QED
      BY <1>1, <1>2, <3>2, <3>3, <3>5 DEF IInv, TypeOK, loop
  <2>. QED
    BY <1>3, <2>2, <2>3
<1>8. NoStoreIsLost'
  BY <1>1, <1>2, <1>3, <1>5, <1>6
     DEF IInv, TypeOK, NoStoreIsLost, WriteBack, Absent
<1>9. Stage1Clean'
  BY <1>1, <1>2, <1>6 DEF IInv, Stage1Clean
<1>10. RangeFits' /\ LoopStaysInRange'
  BY <1>1, <1>2 DEF IInv, RangeFits, LoopStaysInRange, InRange, StopLine, loop
<1>11. TreatedAreFresh'
  <2>1. ASSUME NEW k \in Lines, Fresh(k)
        PROVE  Fresh(k)'
    BY <1>1, <1>2, <1>3, <1>5, <1>6, <2>1
       DEF IInv, TypeOK, Fresh, InD, InI, WriteBack, Absent
  <2>. QED
    BY <1>1, <1>2, <2>1 DEF IInv, TreatedAreFresh, Treated, InRange, loop
<1>12. HalfTreated'
  <2>1. CASE stage = 1
    <3>1. mem[a0] = last[a0]
      BY <1>1, <1>3, <1>5, <2>1 DEF IInv, Stage1Clean
    <3>. QED
      BY <1>1, <1>2, <1>3, <1>6, <2>1, <3>1
         DEF IInv, TypeOK, HalfTreated, InI, Absent, loop
  <2>2. CASE stage = 2
    BY <1>1, <1>2, <1>3, <1>5, <1>6, <2>2
       DEF IInv, TypeOK, HalfTreated, InD, WriteBack, Absent, loop
  <2>. QED
    BY <1>3, <2>1, <2>2
<1>. QED
  BY <1>7, <1>8, <1>9, <1>10, <1>11, <1>12 DEF IInv

LEMMA SecondOpStep == IInv /\ SecondOp => IInv'
<1>1. SUFFICES ASSUME IInv, SecondOp PROVE IInv'
  OBVIOUS
<1>2. /\ pc = "second" /\ a0' = (a0 + 1) % LineCount
      /\ pc' = IF a0' = a1 THEN "enter" ELSE "first"
      /\ UNCHANGED <<stage, base, size, a1, last, mem>>
  BY <1>1 DEF SecondOp, CacheOp, FlushOps, InvalidateOps, DropI, DropD
<1>3. /\ a0 \in Lines /\ stage \in {1, 2} /\ LineCount \in Nat \ {0}
      /\ LineSize \in Nat \ {0} /\ base \in Nat /\ size \in Nat /\ a1 \in Lines
  BY <1>1, SizeAssumption DEF IInv, TypeOK
<1>4. \/ stage = 1 /\ d' = [d EXCEPT ![a0] = Absent] /\ UNCHANGED i
      \/ stage = 2 /\ i' = [i EXCEPT ![a0] = Absent] /\ UNCHANGED d
  BY <1>1, <1>3 DEF SecondOp, CacheOp, FlushOps, InvalidateOps, DropI, DropD
<1>5. a0' \in Lines
  BY <1>2, <1>3 DEF Lines
<1>6. TypeOK'
  <2>1. 0 \in Values
    BY SizeAssumption DEF Values
  <2>. QED
    BY <1>1, <1>2, <1>4, <1>5, <2>1 DEF IInv, TypeOK, Absent
<1>7. NoStoreIsLost'
  BY <1>1, <1>2, <1>3, <1>4 DEF IInv, TypeOK, NoStoreIsLost, Stage1Clean, Absent
<1>8. Stage1Clean'
  BY <1>1, <1>2, <1>4 DEF IInv, TypeOK, Stage1Clean, Absent
<1>9. RangeFits'
  BY <1>1, <1>2 DEF IInv, RangeFits, StopLine
<1>10. ASSUME NEW k \in Lines, k = a0 \/ Fresh(k)
       PROVE  Fresh(k)'
  <2>1. CASE k = a0
    <3>1. /\ mem[a0] = last[a0]
          /\ stage = 2 => (InD(a0) => d[a0].val = last[a0])
          /\ stage = 1 => (InI(a0) => i[a0].val = last[a0])
      BY <1>1, <1>2 DEF IInv, HalfTreated
    <3>2. CASE stage = 1
      BY <1>1, <1>2, <1>3, <1>4, <2>1, <3>1, <3>2
         DEF IInv, TypeOK, Fresh, InD, InI, Absent
    <3>3. CASE stage = 2
      BY <1>1, <1>2, <1>3, <1>4, <2>1, <3>1, <3>3
         DEF IInv, TypeOK, Fresh, InD, InI, Absent
    <3>. QED
      BY <1>3, <3>2, <3>3
  <2>2. CASE Fresh(k) /\ k # a0
    BY <1>1, <1>2, <1>3, <1>4, <2>2
       DEF IInv, TypeOK, Fresh, InD, InI, Absent
  <2>. QED
    BY <1>10, <2>1, <2>2
<1>11. LoopStaysInRange' /\ TreatedAreFresh'
  <2>1. CASE size = 0
    BY <1>2, <2>1 DEF LoopStaysInRange, TreatedAreFresh, InRange
  <2>2. CASE size > 0
    <3> DEFINE f == base \div LineSize
               e == (base + size - 1) \div LineSize
    <3>1. /\ f \in Lines /\ e \in Lines /\ f <= e
          /\ a1 = (e + 1) % LineCount
      BY <1>1, <1>2, <1>3, <2>2, RangeOfLines DEF IInv, RangeFits
    <3>2. f <= a0 /\ a0 <= e
      BY <1>1, <1>2, <2>2 DEF IInv, LoopStaysInRange, InRange
    <3>3. \A k \in Lines : InRange(k) <=> f <= k /\ k <= e
      BY <2>2 DEF InRange
    <3>4. \A k \in Lines : InRange(k)' <=> f <= k /\ k <= e
      BY <1>2, <2>2 DEF InRange
    <3>5. InRange(a0)' <=> f <= a0' /\ a0' <= e
      BY <1>2, <2>2 DEF InRange
    <3> HIDE DEF f, e
    <3>6. \A k \in Lines : InRange(k) /\ k < a0 => Fresh(k)
      BY <1>1, <1>2 DEF IInv, TreatedAreFresh, Treated
    <3>7. CASE a0 = e
      <4>1. pc' = "enter"
        BY <1>2, <3>1, <3>7
      <4>2. \A k \in Lines : InRange(k)' => k = a0 \/ Fresh(k)
        BY <1>3, <3>1, <3>3, <3>4, <3>6, <3>7 DEF Lines
      <4>. QED
        BY <1>10, <4>1, <4>2 DEF LoopStaysInRange, TreatedAreFresh
    <3>8. CASE a0 < e
      <4>1. a0' = a0 + 1 /\ a0' <= e
        BY <1>2, <1>3, <3>1, <3>8 DEF Lines
      <4>2. a0' # a1
        BY <1>3, <3>1, <3>8, <4>1 DEF Lines
      <4>3. pc' = "first"
        BY <1>2, <4>2
      <4>4. \A k \in Lines : InRange(k)' /\ k < a0' => k = a0 \/ Fresh(k)
        BY <1>3, <3>1, <3>3, <3>4, <3>6, <4>1 DEF Lines
      <4>5. TreatedAreFresh'
        BY <1>10, <4>3, <4>4 DEF TreatedAreFresh, Treated
      <4>6. f <= a0'
        BY <1>3, <3>1, <3>2, <4>1 DEF Lines
      <4>. QED
        BY <3>5, <4>1, <4>5, <4>6 DEF LoopStaysInRange
    <3>. QED
      BY <1>3, <3>1, <3>2, <3>7, <3>8 DEF Lines
  <2>. QED
    BY <1>3, <2>1, <2>2
<1>12. HalfTreated'
  BY <1>2 DEF HalfTreated
<1>. QED
  BY <1>6, <1>7, <1>8, <1>9, <1>11, <1>12 DEF IInv

(* The strengthened invariant holds in every reachable state.              *)
THEOREM Inductive == Spec => []IInv
<1>1. IInv /\ [Next]_vars => IInv'
  <2>1. SUFFICES ASSUME IInv, [Next]_vars PROVE IInv'
    OBVIOUS
  <2>2. CASE UNCHANGED vars
    BY <2>1, <2>2
       DEF IInv, TypeOK, NoStoreIsLost, Stage1Clean, RangeFits, StopLine,
           LoopStaysInRange, InRange, TreatedAreFresh, Treated, Fresh, InI, InD,
           HalfTreated, vars, loop, cache
  <2>3. CASE Next
    BY <2>1, <2>3, HardwareStep, StoreStep, CallStep, FirstOpStep, SecondOpStep
       DEF Next, Loop
  <2>. QED
    BY <2>1, <2>2, <2>3
<1>. QED
  BY <1>1, InitIInv, PTL DEF Spec

(* Every variable keeps its type. *)
THEOREM TypeCorrect == Spec => []TypeOK
<1>1. IInv => TypeOK
  BY DEF IInv
<1>. QED
  BY <1>1, Inductive, PTL

(* The code that is entered is the code that was stored: for every range,  *)
(* whatever the caches fetch and evict while the loop runs.                *)
THEOREM LoadedCodeIsEntered == Spec => []EntersWhatWasStored
<1>1. IInv => EntersWhatWasStored
  BY DEF IInv, EntersWhatWasStored, TreatedAreFresh, Treated, Fresh
<1>. QED
  BY <1>1, Inductive, PTL

(* Neither loop loses a store, in its range or beside it. *)
THEOREM StoresAreKept == Spec => []NoStoreIsLost
<1>1. IInv => NoStoreIsLost
  BY DEF IInv
<1>. QED
  BY <1>1, Inductive, PTL

(* The loops touch no line outside a range that is not empty. *)
THEOREM RangeIsKept == Spec => []LoopStaysInRange
<1>1. IInv => LoopStaysInRange
  BY DEF IInv
<1>. QED
  BY <1>1, Inductive, PTL
=============================================================================
