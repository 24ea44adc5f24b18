-------------------------- MODULE Stage2EntryProofs --------------------------
(***************************************************************************)
(* Proofs about Stage2Entry, for any program, caches of any size and any   *)
(* number of stores: nothing the caches do on their own shows the program  *)
(* a stale word, and no line stays locked.  The invariant says of each     *)
(* level of the memory when it is up to date: when no level above it holds *)
(* the line dirty.                                                         *)
(***************************************************************************)
EXTENDS Stage2Entry, TLAPS

(* A copy in L1 is always up to date; it is only made of one that is. *)
L1IsFresh ==
  \A w \in Program : InL1(LineOf(w)) => l1[LineOf(w)].data[Offset(w)] = last[w]

L2IsFresh ==
  \A w \in Program :
    l1[LineOf(w)].state # "dirty" /\ InL2(LineOf(w)) =>
      l2[LineOf(w)].data[Offset(w)] = last[w]

(* A locked line is never written back, so that the DRAM says nothing.     *)
DramIsFresh ==
  \A w \in Program :
    l1[LineOf(w)].state # "dirty" /\ l2[LineOf(w)].state \in {"absent", "clean"} =>
      dram[w] = last[w]

(* While the program runs from the L2 cache its lines stay there. *)
IsLocked ==
  pc \in {"clear_bss", "pre_init", "copy", "set_uncached"} =>
    \A l \in ProgramLines : l2[l].state = "locked"

(* From the copy on the DRAM holds the words before a0, then all of them.  *)
IsCopied ==
  \A w \in Program :
    \/ pc = "copy" /\ w < a0
    \/ pc \in {"set_uncached", "drop", "set_cached"}
    => dram[w] = last[w]

(* No line comes back while the lines are dropped, and none is dirty then. *)
IsDropped ==
  /\ \A l \in Lines :
       /\ pc = "drop" /\ l < a0 => l2[l].state = "absent"
       /\ pc = "set_cached" => l2[l].state = "absent"
       /\ pc = "stage2_main" => l2[l].state # "locked"
  /\ pc = "drop" => \A l \in ProgramLines : l2[l].state \in {"absent", "locked"}

(* Where the loops are, and how KSEG0 is accessed meanwhile. *)
IsAt ==
  /\ kseg0 = IF pc \in {"drop", "set_cached"} THEN "uncached" ELSE "cached"
  /\ pc = "clear_bss" => BssStart <= a0 /\ a0 <= ProgEnd
  /\ pc \in {"pre_init", "set_uncached"} => a0 = 0
  /\ pc = "copy" => a0 < ProgEnd
  /\ pc = "drop" => a0 < L2Lines

EntryInv ==
  /\ TypeOK /\ L1IsFresh /\ L2IsFresh /\ DramIsFresh
  /\ IsLocked /\ IsCopied /\ IsDropped /\ IsAt

-----------------------------------------------------------------------------
(* Words and lines. *)

Data == [0 .. LineWords - 1 -> 0 .. MaxStores + 1]

LEMMA DivMod ==
  ASSUME NEW a \in Nat, NEW b \in Nat \ {0}
  PROVE  /\ a \div b \in Nat /\ a % b \in 0 .. b - 1
         /\ a = b * (a \div b) + (a % b)
OBVIOUS

LEMMA WordIn ==
  ASSUME NEW w \in Words
  PROVE  /\ LineOf(w) \in Lines /\ Offset(w) \in 0 .. LineWords - 1
         /\ LineOf(w) * LineWords + Offset(w) = w
<1> DEFINE n == LineWords  q == w \div n  r == w % n
<1>1. n \in Nat \ {0} /\ L2Lines \in Nat \ {0} /\ w \in 0 .. n * L2Lines - 1
  BY ProgramAssumption DEF Words
<1>2. n * L2Lines \in Nat /\ w \in Nat
  BY <1>1
<1>3. w = n * q + r /\ q \in Nat /\ r \in 0 .. n - 1
  BY <1>1, <1>2, DivMod
<1> HIDE DEF n, q, r
<1>4. q < L2Lines
  <2> SUFFICES ASSUME L2Lines <= q PROVE FALSE
    BY <1>1, <1>3
  <2>1. n * L2Lines <= n * q
    BY <1>1, <1>3
  <2>2. w < n * L2Lines
    BY <1>1, <1>2
  <2> QED BY <1>1, <1>2, <1>3, <2>1, <2>2
<1>5. q \in 0 .. L2Lines - 1 /\ q * n + r = w
  BY <1>1, <1>3, <1>4
<1> QED BY <1>3, <1>5 DEF LineOf, Offset, Lines, n, q, r

LEMMA WordOf ==
  ASSUME NEW l \in Lines, NEW o \in 0 .. LineWords - 1
  PROVE  l * LineWords + o \in Words
<1> DEFINE n == LineWords
<1>1. n \in Nat \ {0} /\ L2Lines \in Nat \ {0} /\ l \in Nat /\ l + 1 <= L2Lines
      /\ o \in 0 .. n - 1
  BY ProgramAssumption DEF Lines
<1> HIDE DEF n
<1>2. n * (l + 1) <= n * L2Lines /\ n * (l + 1) = l * n + n /\ l * n \in Nat
      /\ n * L2Lines \in Nat
  BY <1>1
<1>3. l * n + o \in 0 .. n * L2Lines - 1
  BY <1>1, <1>2
<1> QED BY <1>3 DEF Words, n

LEMMA ProgramIn ==
  /\ Program \subseteq Words /\ ProgramLines \subseteq Lines
  /\ \A w \in Program : LineOf(w) \in ProgramLines
<1>1. ProgEnd \in 1 .. LineWords * L2Lines /\ LineWords * L2Lines \in Nat
  BY ProgramAssumption
<1>2. Program \subseteq Words
  <2> DEFINE m == LineWords * L2Lines
  <2> HIDE DEF m
  <2>1. ProgEnd \in 1 .. m /\ m \in Nat
    BY <1>1 DEF m
  <2>2. 0 .. ProgEnd - 1 \subseteq 0 .. m - 1
    BY <2>1
  <2> QED BY <2>2 DEF Program, Words, m
<1> QED BY <1>2, WordIn DEF ProgramLines

LEMMA CacheLineType ==
  ASSUME NEW S, NEW s, NEW f
  PROVE  Held(s, f) \in CacheLine(S) <=> s \in S /\ f \in Data
BY DEF Held, CacheLine, Data

LEMMA AbsentType == Absent.state = "absent" /\ Absent.data \in Data
<1>1. MaxStores \in Nat /\ LineWords \in Nat
  BY ProgramAssumption
<1>2. 0 \in 0 .. MaxStores + 1
  BY <1>1
<1> QED BY <1>2 DEF Absent, Data

LEMMA LineTypes ==
  ASSUME TypeOK, NEW l \in Lines
  PROVE  /\ DramLine(l) \in Data /\ BehindL1(l) \in Data /\ CachedLine(l) \in Data
         /\ l1[l].data \in Data /\ l2[l].data \in Data
         /\ l1[l].state \in {"absent", "clean", "dirty"}
         /\ l2[l].state \in {"absent", "locked", "clean", "dirty"}
<1>1. l1[l] \in CacheLine({"absent", "clean", "dirty"})
      /\ l2[l] \in CacheLine({"absent", "locked", "clean", "dirty"})
  BY DEF TypeOK
<1>2. l1[l].data \in Data /\ l2[l].data \in Data
  BY <1>1 DEF CacheLine, Data
<1>3. l1[l].state \in {"absent", "clean", "dirty"}
      /\ l2[l].state \in {"absent", "locked", "clean", "dirty"}
  BY <1>1 DEF CacheLine
<1>4. DramLine(l) \in Data
  <2>1. \A o \in 0 .. LineWords - 1 : dram[l * LineWords + o] \in 0 .. MaxStores + 1
    BY WordOf DEF TypeOK
  <2> QED BY <2>1 DEF DramLine, Data
<1> QED BY <1>2, <1>3, <1>4 DEF BehindL1, CachedLine

LEMMA DramWord ==
  ASSUME NEW w \in Words
  PROVE  DramLine(LineOf(w))[Offset(w)] = dram[w]
BY WordIn DEF DramLine

LEMMA DramWithType ==
  ASSUME TypeOK, NEW l \in Lines, NEW f \in Data
  PROVE  /\ DramWith(l, f) \in [Words -> 0 .. MaxStores + 1]
         /\ \A w \in Words : DramWith(l, f)[w] =
              IF LineOf(w) = l THEN f[Offset(w)] ELSE dram[w]
<1>1. \A w \in Words : Offset(w) \in 0 .. LineWords - 1
  BY WordIn
<1> QED BY <1>1 DEF DramWith, TypeOK, Data

-----------------------------------------------------------------------------
(* What the memory does.                                                   *)

Fresh == L1IsFresh /\ L2IsFresh /\ DramIsFresh

MemoryType ==
  /\ l1 \in [Lines -> CacheLine({"absent", "clean", "dirty"})]
  /\ l2 \in [Lines -> CacheLine({"absent", "locked", "clean", "dirty"})]
  /\ dram \in [Words -> 0 .. MaxStores + 1]

(* The line a word would be fetched from is up to date.                    *)
LEMMA BehindIsFresh ==
  ASSUME TypeOK, Fresh, NEW w \in Program, l1[LineOf(w)].state # "dirty"
  PROVE  BehindL1(LineOf(w))[Offset(w)] = last[w]
<1>1. w \in Words /\ LineOf(w) \in Lines
  BY ProgramIn, WordIn
<1>2. CASE InL2(LineOf(w))
  BY <1>2 DEF Fresh, L2IsFresh, BehindL1
<1>3. CASE ~InL2(LineOf(w))
  <2>1. dram[w] = last[w]
    BY <1>3 DEF Fresh, DramIsFresh, InL2
  <2> QED BY <1>1, <1>3, <2>1, DramWord DEF BehindL1
<1> QED BY <1>2, <1>3

LEMMA CachedIsFresh ==
  ASSUME TypeOK, Fresh, NEW w \in Program
  PROVE  CachedLine(LineOf(w))[Offset(w)] = last[w]
<1>1. CASE InL1(LineOf(w))
  BY <1>1 DEF Fresh, L1IsFresh, CachedLine
<1>2. CASE ~InL1(LineOf(w))
  BY <1>2, BehindIsFresh DEF InL1, CachedLine
<1> QED BY <1>1, <1>2

LEMMA FetchL1Step ==
  ASSUME TypeOK, Fresh, NEW l \in Lines, FetchL1(l), last' = last
  PROVE  Fresh' /\ MemoryType'
<1>1. l1' = [l1 EXCEPT ![l] = Held("clean", BehindL1(l))] /\ ~InL1(l)
      /\ l2' = l2 /\ dram' = dram
  BY DEF FetchL1
<1>2. l1 \in [Lines -> CacheLine({"absent", "clean", "dirty"})]
  BY DEF TypeOK
<1>3. l1'[l].state = "clean" /\ l1'[l].data = BehindL1(l)
  BY <1>1, <1>2 DEF Held
<1>4. \A k \in Lines : k # l => l1'[k] = l1[k]
  BY <1>1, <1>2
<1>5. MemoryType'
  <2>1. Held("clean", BehindL1(l)) \in CacheLine({"absent", "clean", "dirty"})
    BY LineTypes, CacheLineType
  <2> QED BY <1>1, <1>2, <2>1 DEF TypeOK, MemoryType
<1>6. ASSUME NEW w \in Program
      PROVE  /\ InL1(LineOf(w))' => l1'[LineOf(w)].data[Offset(w)] = last[w]
             /\ l1'[LineOf(w)].state # "dirty" => l1[LineOf(w)].state # "dirty"
  <2>1. LineOf(w) \in Lines
    BY ProgramIn, WordIn
  <2>2. CASE LineOf(w) = l
    <3>1. l1[l].state # "dirty"
      BY <1>1 DEF InL1
    <3> QED BY <1>3, <2>2, <3>1, BehindIsFresh
  <2>3. CASE LineOf(w) # l
    BY <1>4, <2>1, <2>3 DEF InL1, Fresh, L1IsFresh
  <2> QED BY <2>2, <2>3
<1>7. Fresh'
  BY <1>1, <1>6 DEF Fresh, L1IsFresh, L2IsFresh, DramIsFresh, InL2
<1> QED BY <1>5, <1>7

LEMMA EvictL1Step ==
  ASSUME TypeOK, Fresh, NEW l \in Lines, EvictL1(l), last' = last
  PROVE  /\ Fresh' /\ MemoryType'
         /\ \A k \in Lines : l2'[k].state = "locked" <=> l2[k].state = "locked"
         /\ \A k \in Lines : l2'[k].state = "absent" <=> l2[k].state = "absent"
         /\ \A w \in Program : dram'[w] # dram[w] => dram'[w] = last[w]
<1>1. l1' = [l1 EXCEPT ![l] = Absent] /\ InL1(l)
  BY DEF EvictL1
<1>2. l1 \in [Lines -> CacheLine({"absent", "clean", "dirty"})]
      /\ l2 \in [Lines -> CacheLine({"absent", "locked", "clean", "dirty"})]
      /\ dram \in [Words -> 0 .. MaxStores + 1]
  BY DEF TypeOK
<1>3. l1'[l].state = "absent" /\ \A k \in Lines : k # l => l1'[k] = l1[k]
  BY <1>1, <1>2, AbsentType
<1>4. l1' \in [Lines -> CacheLine({"absent", "clean", "dirty"})]
  <2>1. Absent \in CacheLine({"absent", "clean", "dirty"})
    BY AbsentType DEF Absent, CacheLine, Data
  <2> QED BY <1>1, <1>2, <2>1
<1>5. \A w \in Program : w \in Words /\ LineOf(w) \in Lines
  BY ProgramIn, WordIn
<1>6. \A w \in Program : LineOf(w) = l => l1[l].data[Offset(w)] = last[w]
  BY <1>1 DEF Fresh, L1IsFresh
<1>7. L1IsFresh'
  BY <1>3, <1>5 DEF Fresh, L1IsFresh, InL1
<1>8. CASE l1[l].state = "clean" /\ UNCHANGED <<l2, dram>>
  <2>1. \A w \in Program : l1'[LineOf(w)].state # "dirty"
                              => l1[LineOf(w)].state # "dirty"
    BY <1>3, <1>5, <1>8
  <2>2. Fresh'
    BY <1>7, <1>8, <2>1 DEF Fresh, L2IsFresh, DramIsFresh, InL2
  <2> QED BY <1>2, <1>4, <1>8, <2>2 DEF MemoryType
<1>9. CASE /\ l1[l].state = "dirty" /\ InL2(l)
           /\ l2' = [l2 EXCEPT ![l] = Held(IF @.state = "locked" THEN "locked" ELSE "dirty",
                                           l1[l].data)]
           /\ UNCHANGED dram
  <2> DEFINE s == IF l2[l].state = "locked" THEN "locked" ELSE "dirty"
  <2>1. l2' = [l2 EXCEPT ![l] = Held(s, l1[l].data)]
    BY <1>9
  <2>2. s \in {"locked", "dirty"} /\ (s = "locked" <=> l2[l].state = "locked")
    OBVIOUS
  <2> HIDE DEF s
  <2>3. l2'[l].state = s /\ l2'[l].data = l1[l].data
        /\ \A k \in Lines : k # l => l2'[k] = l2[k]
    BY <1>2, <2>1 DEF Held
  <2>4. l2' \in [Lines -> CacheLine({"absent", "locked", "clean", "dirty"})]
    <3>1. Held(s, l1[l].data) \in CacheLine({"absent", "locked", "clean", "dirty"})
      BY <2>2, LineTypes, CacheLineType
    <3> QED BY <1>2, <2>1, <3>1
  <2>5. L2IsFresh'
    <3> SUFFICES ASSUME NEW w \in Program, l1'[LineOf(w)].state # "dirty",
                        InL2(LineOf(w))'
                 PROVE  l2'[LineOf(w)].data[Offset(w)] = last[w]
      BY DEF L2IsFresh
    <3>1. CASE LineOf(w) = l
      BY <1>6, <2>3, <3>1
    <3>2. CASE LineOf(w) # l
      BY <1>3, <1>5, <2>3, <3>2 DEF Fresh, L2IsFresh, InL2
    <3> QED BY <3>1, <3>2
  <2>6. DramIsFresh'
    <3> SUFFICES ASSUME NEW w \in Program, l1'[LineOf(w)].state # "dirty",
                        l2'[LineOf(w)].state \in {"absent", "clean"}
                 PROVE  dram'[w] = last[w]
      BY DEF DramIsFresh
    <3>1. LineOf(w) # l
      BY <2>2, <2>3
    <3> QED BY <1>3, <1>5, <1>9, <2>3, <3>1 DEF Fresh, DramIsFresh
  <2>7. \A k \in Lines : /\ l2'[k].state = "locked" <=> l2[k].state = "locked"
                         /\ l2'[k].state = "absent" <=> l2[k].state = "absent"
    BY <1>9, <2>2, <2>3 DEF InL2
  <2> QED BY <1>2, <1>4, <1>7, <1>9, <2>4, <2>5, <2>6, <2>7 DEF MemoryType, Fresh
<1>10. CASE /\ l1[l].state = "dirty" /\ ~InL2(l)
            /\ dram' = DramWith(l, l1[l].data) /\ UNCHANGED l2
  <2>1. l1[l].data \in Data
    BY LineTypes
  <2>2. dram' \in [Words -> 0 .. MaxStores + 1]
        /\ \A w \in Words : dram'[w] = IF LineOf(w) = l THEN l1[l].data[Offset(w)]
                                       ELSE dram[w]
    BY <1>10, <2>1, DramWithType
  <2>3. L2IsFresh'
    <3> SUFFICES ASSUME NEW w \in Program, l1'[LineOf(w)].state # "dirty",
                        InL2(LineOf(w))
                 PROVE  l2[LineOf(w)].data[Offset(w)] = last[w]
      BY <1>10 DEF L2IsFresh, InL2
    <3>1. LineOf(w) # l
      BY <1>10
    <3> QED BY <1>3, <1>5, <3>1 DEF Fresh, L2IsFresh
  <2>4. \A w \in Program : LineOf(w) = l => dram'[w] = last[w]
    BY <1>5, <1>6, <2>2
  <2>5. DramIsFresh'
    <3> SUFFICES ASSUME NEW w \in Program, l1'[LineOf(w)].state # "dirty",
                        l2[LineOf(w)].state \in {"absent", "clean"}
                 PROVE  dram'[w] = last[w]
      BY <1>10 DEF DramIsFresh
    <3>1. CASE LineOf(w) = l
      BY <2>4, <3>1
    <3>2. CASE LineOf(w) # l
      BY <1>3, <1>5, <2>2, <3>2 DEF Fresh, DramIsFresh
    <3> QED BY <3>1, <3>2
  <2>6. \A w \in Program : dram'[w] # dram[w] => dram'[w] = last[w]
    BY <1>5, <2>2, <2>4
  <2> QED BY <1>2, <1>4, <1>7, <1>10, <2>2, <2>3, <2>5, <2>6 DEF MemoryType, Fresh
<1> QED BY <1>8, <1>9, <1>10 DEF EvictL1

LEMMA FetchL2Step ==
  ASSUME TypeOK, Fresh, NEW l \in Lines, FetchL2(l), last' = last
  PROVE  Fresh' /\ MemoryType'
<1>1. l2' = [l2 EXCEPT ![l] = Held("clean", DramLine(l))] /\ ~InL2(l)
      /\ l1' = l1 /\ dram' = dram
  BY DEF FetchL2
<1>2. l1 \in [Lines -> CacheLine({"absent", "clean", "dirty"})]
      /\ l2 \in [Lines -> CacheLine({"absent", "locked", "clean", "dirty"})]
      /\ dram \in [Words -> 0 .. MaxStores + 1]
  BY DEF TypeOK
<1>3. l2'[l].state = "clean" /\ l2'[l].data = DramLine(l)
      /\ \A k \in Lines : k # l => l2'[k] = l2[k]
  BY <1>1, <1>2 DEF Held
<1>4. MemoryType'
  <2>1. Held("clean", DramLine(l)) \in CacheLine({"absent", "locked", "clean", "dirty"})
    BY LineTypes, CacheLineType
  <2> QED BY <1>1, <1>2, <2>1 DEF MemoryType
<1>5. \A w \in Program : w \in Words /\ LineOf(w) \in Lines
  BY ProgramIn, WordIn
<1>6. l2[l].state = "absent"
  BY <1>1 DEF InL2
<1>7. L2IsFresh'
  <2> SUFFICES ASSUME NEW w \in Program, l1[LineOf(w)].state # "dirty",
                      InL2(LineOf(w))'
               PROVE  l2'[LineOf(w)].data[Offset(w)] = last[w]
    BY <1>1 DEF L2IsFresh
  <2>1. CASE LineOf(w) = l
    <3>1. dram[w] = last[w]
      BY <1>6, <2>1 DEF Fresh, DramIsFresh
    <3> QED BY <1>3, <1>5, <2>1, <3>1, DramWord
  <2>2. CASE LineOf(w) # l
    BY <1>3, <1>5, <2>2 DEF Fresh, L2IsFresh, InL2
  <2> QED BY <2>1, <2>2
<1>8. DramIsFresh'
  <2> SUFFICES ASSUME NEW w \in Program, l1[LineOf(w)].state # "dirty",
                      l2'[LineOf(w)].state \in {"absent", "clean"}
               PROVE  dram[w] = last[w]
    BY <1>1 DEF DramIsFresh
  <2>1. l2[LineOf(w)].state \in {"absent", "clean"}
    BY <1>3, <1>5, <1>6
  <2> QED BY <2>1 DEF Fresh, DramIsFresh
<1>9. L1IsFresh'
  BY <1>1 DEF Fresh, L1IsFresh, InL1
<1> QED BY <1>4, <1>7, <1>8, <1>9 DEF Fresh

LEMMA EvictL2Step ==
  ASSUME TypeOK, Fresh, NEW l \in Lines, EvictL2(l), last' = last
  PROVE  /\ Fresh' /\ MemoryType'
         /\ \A k \in Lines : k # l => l2'[k] = l2[k]
         /\ l2'[l].state = "absent"
<1>1. l2' = [l2 EXCEPT ![l] = Absent] /\ l2[l].state \in {"clean", "dirty"}
      /\ l1' = l1
      /\ dram' = IF l2[l].state = "dirty" THEN DramWith(l, l2[l].data) ELSE dram
  BY DEF EvictL2
<1>2. l1 \in [Lines -> CacheLine({"absent", "clean", "dirty"})]
      /\ l2 \in [Lines -> CacheLine({"absent", "locked", "clean", "dirty"})]
      /\ dram \in [Words -> 0 .. MaxStores + 1]
  BY DEF TypeOK
<1>3. l2'[l].state = "absent" /\ \A k \in Lines : k # l => l2'[k] = l2[k]
  BY <1>1, <1>2, AbsentType
<1>4. \A w \in Program : w \in Words /\ LineOf(w) \in Lines
  BY ProgramIn, WordIn
<1>5. l2[l].data \in Data
  BY LineTypes
<1>6. dram' \in [Words -> 0 .. MaxStores + 1]
      /\ \A w \in Words : LineOf(w) # l => dram'[w] = dram[w]
  BY <1>1, <1>2, <1>5, DramWithType
<1>7. MemoryType'
  <2>1. Absent \in CacheLine({"absent", "locked", "clean", "dirty"})
    BY AbsentType DEF Absent, CacheLine, Data
  <2> QED BY <1>1, <1>2, <1>6, <2>1 DEF MemoryType
<1>8. L1IsFresh'
  BY <1>1 DEF Fresh, L1IsFresh, InL1
<1>9. L2IsFresh'
  BY <1>1, <1>3, <1>4 DEF Fresh, L2IsFresh, InL2
<1>10. DramIsFresh'
  <2> SUFFICES ASSUME NEW w \in Program, l1[LineOf(w)].state # "dirty",
                      l2'[LineOf(w)].state \in {"absent", "clean"}
               PROVE  dram'[w] = last[w]
    BY <1>1 DEF DramIsFresh
  <2>1. CASE LineOf(w) # l
    BY <1>3, <1>4, <1>6, <2>1 DEF Fresh, DramIsFresh
  <2>2. CASE LineOf(w) = l /\ l2[l].state = "dirty"
    <3>1. l2[l].data[Offset(w)] = last[w]
      BY <2>2 DEF Fresh, L2IsFresh, InL2
    <3>2. dram'[w] = l2[l].data[Offset(w)]
      BY <1>1, <1>4, <1>5, <2>2, DramWithType
    <3> QED BY <3>1, <3>2
  <2>3. CASE LineOf(w) = l /\ l2[l].state = "clean"
    BY <1>1, <2>3 DEF Fresh, DramIsFresh
  <2> QED BY <1>1, <2>1, <2>2, <2>3
<1> QED BY <1>3, <1>7, <1>8, <1>9, <1>10 DEF Fresh

(* A store makes its line dirty in L1, and the word the last one stored.   *)
LEMMA StoreStep ==
  ASSUME TypeOK, Fresh, NEW v \in Program, StoreCached(v)
  PROVE  /\ Fresh' /\ MemoryType' /\ last' \in [Words -> Values]
         /\ kseg0' = kseg0 /\ l2' = l2 /\ dram' = dram
<1> DEFINE l == LineOf(v)
<1>1. v \in Words /\ l \in Lines /\ Offset(v) \in 0 .. LineWords - 1
  BY ProgramIn, WordIn
<1>2. /\ last[v] < MaxStores /\ last' = [last EXCEPT ![v] = @ + 1]
      /\ l1' = [l1 EXCEPT ![l] =
                  Held("dirty", [CachedLine(l) EXCEPT ![Offset(v)] = last'[v]])]
      /\ kseg0' = kseg0 /\ l2' = l2 /\ dram' = dram
  BY DEF StoreCached
<1>3. l1 \in [Lines -> CacheLine({"absent", "clean", "dirty"})]
      /\ l2 \in [Lines -> CacheLine({"absent", "locked", "clean", "dirty"})]
      /\ dram \in [Words -> 0 .. MaxStores + 1] /\ last \in [Words -> Values]
  BY DEF TypeOK
<1>4. last' \in [Words -> Values] /\ last'[v] \in 0 .. MaxStores + 1
      /\ \A w \in Words : w # v => last'[w] = last[w]
  <2>1. MaxStores \in Nat
    BY ProgramAssumption
  <2>2. last[v] + 1 \in Values
    BY <1>1, <1>2, <1>3, <2>1 DEF Values
  <2>3. last' \in [Words -> Values] /\ last'[v] = last[v] + 1
    BY <1>1, <1>2, <1>3, <2>2
  <2> QED BY <1>2, <1>3, <2>1, <2>2, <2>3 DEF Values
<1> DEFINE f == [CachedLine(l) EXCEPT ![Offset(v)] = last'[v]]
<1>5. CachedLine(l) \in Data
  BY <1>1, LineTypes
<1>6. f \in Data /\ f[Offset(v)] = last'[v]
      /\ \A o \in 0 .. LineWords - 1 : o # Offset(v) => f[o] = CachedLine(l)[o]
  BY <1>1, <1>4, <1>5 DEF Data
<1> HIDE DEF f
<1>7. l1' = [l1 EXCEPT ![l] = Held("dirty", f)]
  BY <1>2 DEF f
<1>8. l1'[l].state = "dirty" /\ l1'[l].data = f
      /\ \A k \in Lines : k # l => l1'[k] = l1[k]
  BY <1>1, <1>3, <1>7 DEF Held
<1>9. MemoryType'
  <2>1. Held("dirty", f) \in CacheLine({"absent", "clean", "dirty"})
    BY <1>6, CacheLineType
  <2> QED BY <1>2, <1>3, <1>7, <2>1 DEF MemoryType
<1>10. \A w \in Program : /\ w \in Words /\ LineOf(w) \in Lines
                          /\ Offset(w) \in 0 .. LineWords - 1
  BY ProgramIn, WordIn
<1>11. \A w \in Program : LineOf(w) = l /\ Offset(w) = Offset(v) => w = v
  BY <1>1, <1>10, WordIn
<1>12. L1IsFresh'
  <2> SUFFICES ASSUME NEW w \in Program, InL1(LineOf(w))'
               PROVE  l1'[LineOf(w)].data[Offset(w)] = last'[w]
    BY DEF L1IsFresh
  <2>1. CASE LineOf(w) # l
    BY <1>4, <1>8, <1>10, <2>1 DEF Fresh, L1IsFresh, InL1
  <2>2. CASE w = v
    BY <1>6, <1>8, <2>2
  <2>3. CASE LineOf(w) = l /\ w # v
    <3>1. f[Offset(w)] = CachedLine(l)[Offset(w)]
      BY <1>6, <1>10, <1>11, <2>3
    <3>2. CachedLine(LineOf(w))[Offset(w)] = last[w]
      BY CachedIsFresh
    <3> QED BY <1>4, <1>8, <1>10, <2>3, <3>1, <3>2
  <2> QED BY <2>1, <2>2, <2>3
<1>13. \A w \in Program : l1'[LineOf(w)].state # "dirty" =>
          /\ l1[LineOf(w)].state # "dirty" /\ last'[w] = last[w]
  BY <1>4, <1>8, <1>10
<1>14. L2IsFresh' /\ DramIsFresh'
  BY <1>2, <1>13 DEF Fresh, L2IsFresh, DramIsFresh, InL2
<1> QED BY <1>2, <1>4, <1>9, <1>12, <1>14 DEF Fresh

(* A word is moved: it is the last one stored, in L1 and in the DRAM.      *)
LEMMA MoveStep ==
  ASSUME TypeOK, Fresh, NEW v \in Program, Move(v), last' = last, l2' = l2
  PROVE  /\ Fresh' /\ MemoryType'
         /\ dram'[v] = last[v] /\ \A w \in Words : w # v => dram'[w] = dram[w]
<1> DEFINE l == LineOf(v)
<1>1. v \in Words /\ l \in Lines /\ Offset(v) \in 0 .. LineWords - 1
  BY ProgramIn, WordIn
<1>2. l1 \in [Lines -> CacheLine({"absent", "clean", "dirty"})]
      /\ l2 \in [Lines -> CacheLine({"absent", "locked", "clean", "dirty"})]
      /\ dram \in [Words -> 0 .. MaxStores + 1] /\ last \in [Words -> Values]
  BY DEF TypeOK
<1>3. l1' = [l1 EXCEPT ![l] = IF InL1(l) THEN @ ELSE Held("clean", BehindL1(l))]
      /\ dram' = [dram EXCEPT ![v] = CachedLine(l)[Offset(v)]]
  BY DEF Move
<1>4. CachedLine(l)[Offset(v)] = last[v]
  BY CachedIsFresh
<1>5. last[v] \in 0 .. MaxStores + 1
  <2>1. MaxStores \in Nat /\ last[v] \in 0 .. MaxStores
    BY <1>1, <1>2, ProgramAssumption DEF Values
  <2> QED BY <2>1
<1>6. dram' \in [Words -> 0 .. MaxStores + 1] /\ dram'[v] = last[v]
      /\ \A w \in Words : w # v => dram'[w] = dram[w]
  BY <1>1, <1>2, <1>3, <1>4, <1>5
<1>7. \A k \in Lines : k # l => l1'[k] = l1[k]
  BY <1>2, <1>3
<1>8. l1'[l] = IF InL1(l) THEN l1[l] ELSE Held("clean", BehindL1(l))
  BY <1>1, <1>2, <1>3
<1>9. l1' \in [Lines -> CacheLine({"absent", "clean", "dirty"})]
  <2>1. Held("clean", BehindL1(l)) \in CacheLine({"absent", "clean", "dirty"})
    BY <1>1, LineTypes, CacheLineType
  <2>2. l1[l] \in CacheLine({"absent", "clean", "dirty"})
    BY <1>1, <1>2
  <2> QED BY <1>2, <1>3, <2>1, <2>2
<1>10. \A w \in Program : w \in Words /\ LineOf(w) \in Lines
  BY ProgramIn, WordIn
<1>11. l1[l].state # "dirty" => l1'[l].state # "dirty"
  BY <1>8 DEF Held
<1>12. l1'[l].state # "dirty" => l1[l].state # "dirty"
  BY <1>8 DEF Held, InL1
<1>13. \A w \in Program : l1'[LineOf(w)].state # "dirty"
                             => l1[LineOf(w)].state # "dirty"
  BY <1>7, <1>10, <1>12
<1>14. L1IsFresh'
  <2> SUFFICES ASSUME NEW w \in Program, InL1(LineOf(w))'
               PROVE  l1'[LineOf(w)].data[Offset(w)] = last[w]
    BY DEF L1IsFresh
  <2>1. CASE LineOf(w) # l
    BY <1>7, <1>10, <2>1 DEF Fresh, L1IsFresh, InL1
  <2>2. CASE LineOf(w) = l /\ InL1(l)
    BY <1>8, <2>2 DEF Fresh, L1IsFresh
  <2>3. CASE LineOf(w) = l /\ ~InL1(l)
    <3>1. l1[LineOf(w)].state # "dirty"
      BY <2>3 DEF InL1
    <3>2. BehindL1(LineOf(w))[Offset(w)] = last[w]
      BY <3>1, BehindIsFresh
    <3> QED BY <1>8, <2>3, <3>2 DEF Held
  <2> QED BY <2>1, <2>2, <2>3
<1>15. L2IsFresh'
  BY <1>13 DEF Fresh, L2IsFresh, InL2
<1>16. DramIsFresh'
  <2> SUFFICES ASSUME NEW w \in Program, l1'[LineOf(w)].state # "dirty",
                      l2[LineOf(w)].state \in {"absent", "clean"}
               PROVE  dram'[w] = last[w]
    BY DEF DramIsFresh
  <2>1. CASE w = v
    BY <1>6, <2>1
  <2>2. CASE w # v
    BY <1>6, <1>10, <1>13, <2>2 DEF Fresh, DramIsFresh
  <2> QED BY <2>1, <2>2
<1> QED BY <1>2, <1>6, <1>9, <1>14, <1>15, <1>16 DEF MemoryType, Fresh

-----------------------------------------------------------------------------
(* The invariant, action by action.                                        *)

LEMMA Sizes ==
  /\ LineWords \in Nat \ {0} /\ L2Lines \in Nat \ {0} /\ MaxStores \in Nat \ {0}
  /\ BssStart \in Nat /\ ProgEnd \in Nat /\ BssStart <= ProgEnd /\ 1 <= ProgEnd
  /\ LineWords * L2Lines \in Nat /\ ProgEnd <= LineWords * L2Lines
  /\ L2Lines <= LineWords * L2Lines
<1>1. LineWords \in Nat \ {0} /\ L2Lines \in Nat \ {0} /\ MaxStores \in Nat \ {0}
      /\ BssStart \in Nat /\ BssStart <= ProgEnd
      /\ ProgEnd \in 1 .. LineWords * L2Lines
  BY ProgramAssumption
<1>2. LineWords * L2Lines \in Nat /\ L2Lines <= LineWords * L2Lines
  BY <1>1
<1> QED BY <1>1, <1>2

LEMMA EntryInit == Init => EntryInv
<1> SUFFICES ASSUME Init PROVE EntryInv
  OBVIOUS
<1>1. \A l \in Lines : l1[l] = Absent
  BY DEF Init
<1>2. \A l \in Lines : l2[l] = IF l \in ProgramLines THEN Held("locked", Absent.data)
                               ELSE Absent
  BY DEF Init
<1>3. \A w \in Words : last[w] = 0
  BY DEF Init
<1>4. \A o \in 0 .. LineWords - 1 : Absent.data[o] = 0
  BY DEF Absent
<1>5. \A w \in Program : /\ w \in Words /\ LineOf(w) \in Lines
                         /\ LineOf(w) \in ProgramLines
                         /\ Offset(w) \in 0 .. LineWords - 1
  BY ProgramIn, WordIn
<1>6. TypeOK
  <2>1. Absent \in CacheLine({"absent", "clean", "dirty"})
        /\ Absent \in CacheLine({"absent", "locked", "clean", "dirty"})
    BY AbsentType DEF Absent, CacheLine, Data
  <2>2. Held("locked", Absent.data) \in CacheLine({"absent", "locked", "clean", "dirty"})
    BY AbsentType, CacheLineType
  <2>3. MaxStores + 1 \in 0 .. MaxStores + 1 /\ 0 \in Values
    BY Sizes DEF Values
  <2>4. l1 \in [Lines -> CacheLine({"absent", "clean", "dirty"})]
    BY <2>1 DEF Init
  <2>5. l2 \in [Lines -> CacheLine({"absent", "locked", "clean", "dirty"})]
    BY <2>1, <2>2 DEF Init
  <2>6. dram \in [Words -> 0 .. MaxStores + 1] /\ last \in [Words -> Values]
    BY <2>3 DEF Init
  <2>7. a0 \in Nat /\ a0 <= LineWords * L2Lines
    BY Sizes DEF Init
  <2> QED BY <2>4, <2>5, <2>6, <2>7 DEF Init, TypeOK
<1>7. L1IsFresh
  BY <1>1, <1>5, AbsentType DEF L1IsFresh, InL1
<1>8. L2IsFresh
  BY <1>2, <1>3, <1>4, <1>5 DEF L2IsFresh, Held
<1>9. DramIsFresh
  BY <1>2, <1>5 DEF DramIsFresh, Held
<1>10. IsLocked
  BY <1>2, ProgramIn DEF IsLocked, Held
<1>11. IsCopied /\ IsDropped /\ IsAt
  <2>1. pc = "clear_bss" /\ kseg0 = "cached" /\ a0 = BssStart
    BY DEF Init
  <2> QED BY <2>1, Sizes DEF IsCopied, IsDropped, IsAt
<1> QED BY <1>6, <1>7, <1>8, <1>9, <1>10, <1>11 DEF EntryInv

(* The caches on their own, whatever the program is at. *)
LEMMA HardwareInv == EntryInv /\ Hardware => EntryInv'
<1> SUFFICES ASSUME EntryInv, Hardware PROVE EntryInv'
  OBVIOUS
<1>1. pc' = pc /\ a0' = a0 /\ kseg0' = kseg0 /\ last' = last
  BY DEF Hardware
<1>2. PICK l \in ProgramLines : FetchL1(l) \/ EvictL1(l) \/ FetchL2(l) \/ EvictL2(l)
  BY DEF Hardware
<1>3. TypeOK /\ Fresh /\ l \in Lines
  BY ProgramIn DEF EntryInv, Fresh
<1>4. \A w \in Program : w \in Words /\ LineOf(w) \in ProgramLines
  BY ProgramIn
<1>5. ASSUME Fresh', MemoryType', IsLocked', IsCopied', IsDropped'
      PROVE  EntryInv'
  <2>1. TypeOK'
    BY <1>1, <1>3, <1>5 DEF TypeOK, MemoryType
  <2>2. IsAt'
    BY <1>1 DEF EntryInv, IsAt
  <2> QED BY <1>5, <2>1, <2>2 DEF EntryInv, Fresh
<1>6. CASE FetchL1(l)
  <2>1. Fresh' /\ MemoryType'
    BY <1>1, <1>3, <1>6, FetchL1Step
  <2>2. l2' = l2 /\ dram' = dram
    BY <1>6 DEF FetchL1
  <2>3. IsLocked' /\ IsCopied' /\ IsDropped'
    BY <1>1, <2>2 DEF EntryInv, IsLocked, IsCopied, IsDropped
  <2> QED BY <1>5, <2>1, <2>3
<1>7. CASE EvictL1(l)
  <2>1. Fresh' /\ MemoryType'
    BY <1>1, <1>3, <1>7, EvictL1Step
  <2>2. /\ \A k \in Lines : l2'[k].state = "locked" <=> l2[k].state = "locked"
        /\ \A k \in Lines : l2'[k].state = "absent" <=> l2[k].state = "absent"
        /\ \A w \in Program : dram'[w] # dram[w] => dram'[w] = last[w]
    BY <1>1, <1>3, <1>7, EvictL1Step
  <2>3. IsLocked'
    BY <1>1, <2>2, ProgramIn DEF EntryInv, IsLocked
  <2>4. IsCopied'
    BY <1>1, <2>2 DEF EntryInv, IsCopied
  <2>5. IsDropped'
    BY <1>1, <2>2, ProgramIn DEF EntryInv, IsDropped
  <2> QED BY <1>5, <2>1, <2>3, <2>4, <2>5
<1>8. CASE FetchL2(l)
  <2>1. Fresh' /\ MemoryType'
    BY <1>1, <1>3, <1>8, FetchL2Step
  <2>2. kseg0 = "cached" /\ l2[l].state = "absent" /\ dram' = dram
        /\ l2' = [l2 EXCEPT ![l] = Held("clean", DramLine(l))]
    BY <1>8 DEF FetchL2, InL2
  <2>3. pc \notin {"drop", "set_cached"}
    BY <2>2 DEF EntryInv, IsAt
  <2>4. pc \notin {"clear_bss", "pre_init", "copy", "set_uncached"}
    BY <2>2 DEF EntryInv, IsLocked
  <2>5. \A k \in Lines : l2'[k].state # "locked" \/ l2'[k].state = l2[k].state
    BY <1>3, <2>2 DEF TypeOK, Held
  <2>6. IsLocked' /\ IsCopied'
    BY <1>1, <2>3, <2>4, <2>2 DEF EntryInv, IsLocked, IsCopied
  <2>7. IsDropped'
    BY <1>1, <2>3, <2>5 DEF EntryInv, IsDropped
  <2> QED BY <1>5, <2>1, <2>6, <2>7
<1>9. CASE EvictL2(l)
  <2>1. Fresh' /\ MemoryType'
    BY <1>1, <1>3, <1>9, EvictL2Step
  <2>2. l2'[l].state = "absent" /\ \A k \in Lines : k # l => l2'[k] = l2[k]
    BY <1>1, <1>3, <1>9, EvictL2Step
  <2>3. l2[l].state \in {"clean", "dirty"}
    BY <1>9 DEF EvictL2
  <2>4. pc \notin {"clear_bss", "pre_init", "copy", "set_uncached"}
    BY <2>3 DEF EntryInv, IsLocked
  <2>5. pc \notin {"drop", "set_cached"}
    BY <1>3, <2>3 DEF EntryInv, IsDropped
  <2>6. IsLocked' /\ IsCopied'
    BY <1>1, <2>4, <2>5 DEF IsLocked, IsCopied
  <2>7. IsDropped'
    BY <1>1, <2>2, <2>5 DEF EntryInv, IsDropped
  <2> QED BY <1>5, <2>1, <2>6, <2>7
<1> QED BY <1>2, <1>6, <1>7, <1>8, <1>9

(* A store is made while the lines are locked or when none is left so.     *)
LEMMA StoreInv ==
  ASSUME EntryInv, NEW v \in Program, StoreCached(v),
         pc \in {"clear_bss", "pre_init", "stage2_main"}, pc' = pc,
         a0' \in Nat, a0' <= LineWords * L2Lines,
         pc = "clear_bss" => BssStart <= a0' /\ a0' <= ProgEnd,
         pc = "pre_init" => a0' = 0
  PROVE  EntryInv'
<1>1. TypeOK /\ Fresh
  BY DEF EntryInv, Fresh
<1>2. Fresh' /\ MemoryType'
  BY <1>1, StoreStep
<1>3. last' \in [Words -> Values] /\ kseg0' = kseg0 /\ l2' = l2 /\ dram' = dram
  BY <1>1, StoreStep
<1>4. TypeOK'
  BY <1>1, <1>2, <1>3 DEF TypeOK, MemoryType
<1>5. IsLocked' /\ IsDropped'
  BY <1>3 DEF EntryInv, IsLocked, IsDropped
<1>6. IsCopied' /\ IsAt'
  BY <1>3 DEF EntryInv, IsCopied, IsAt
<1> QED BY <1>2, <1>4, <1>5, <1>6 DEF EntryInv, Fresh

(* A step that leaves the memory alone. *)
LEMMA QuietInv ==
  ASSUME EntryInv, UNCHANGED <<l1, l2, dram, last>>,
         pc' \in {"pre_init", "copy", "drop", "stage2_main"},
         kseg0' \in {"cached", "uncached"},
         a0' \in Nat, a0' <= LineWords * L2Lines,
         IsLocked', IsCopied', IsDropped', IsAt'
  PROVE  EntryInv'
<1>1. TypeOK'
  BY DEF EntryInv, TypeOK
<1>2. L1IsFresh' /\ L2IsFresh' /\ DramIsFresh'
  BY DEF EntryInv, L1IsFresh, L2IsFresh, DramIsFresh, InL1, InL2
<1> QED BY <1>1, <1>2 DEF EntryInv

LEMMA NextInv == EntryInv /\ [Next]_vars => EntryInv'
<1> SUFFICES ASSUME EntryInv, [Next]_vars PROVE EntryInv'
  OBVIOUS
<1>1. TypeOK /\ Fresh /\ IsAt
  BY DEF EntryInv, Fresh
<1>2. CASE Hardware
  BY <1>2, HardwareInv
<1>3. CASE ClearBss
  <2>1. pc = "clear_bss" /\ a0 \in Nat /\ BssStart <= a0 /\ a0 <= ProgEnd
    BY <1>1, <1>3 DEF ClearBss, IsAt, TypeOK
  <2>2. CASE a0 >= ProgEnd
    <3>1. pc' = "pre_init" /\ a0' = 0 /\ UNCHANGED <<memory, last>>
      BY <1>3, <2>2 DEF ClearBss
    <3>2. UNCHANGED <<kseg0, l1, l2, dram, last>>
      BY <3>1 DEF memory
    <3>3. IsLocked' /\ IsCopied' /\ IsDropped' /\ IsAt'
      BY <1>1, <2>1, <3>1, <3>2 DEF EntryInv, IsLocked, IsCopied, IsDropped, IsAt
    <3>4. a0' \in Nat /\ a0' <= LineWords * L2Lines /\ kseg0 \in {"cached", "uncached"}
      BY <1>1, <3>1, Sizes DEF TypeOK
    <3> QED BY <3>1, <3>2, <3>3, <3>4, QuietInv
  <2>3. CASE ~(a0 >= ProgEnd)
    <3>1. StoreCached(a0) /\ a0' = a0 + 1 /\ pc' = pc
      BY <1>3, <2>3 DEF ClearBss
    <3>2. a0 \in Program /\ a0' \in Nat /\ a0' <= ProgEnd /\ BssStart <= a0'
      BY <2>1, <2>3, <3>1, Sizes DEF Program
    <3>3. a0' <= LineWords * L2Lines
      <4> DEFINE n == LineWords * L2Lines
      <4>1. n \in Nat /\ ProgEnd \in Nat /\ ProgEnd <= n
        BY Sizes
      <4> HIDE DEF n
      <4>2. a0' <= n
        BY <3>2, <4>1
      <4> QED BY <4>2 DEF n
    <3> QED BY <2>1, <3>1, <3>2, <3>3, StoreInv
  <2> QED BY <2>2, <2>3
<1>4. CASE DramcInit
  <2>1. pc = "pre_init" /\ pc' = "copy" /\ a0' = 0 /\ UNCHANGED <<memory, last>>
    BY <1>4 DEF DramcInit
  <2>2. UNCHANGED <<kseg0, l1, l2, dram, last>>
    BY <2>1 DEF memory
  <2>3. IsLocked' /\ IsCopied' /\ IsDropped' /\ IsAt'
    <3>1. \A w \in Program : ~(w < 0)
      BY Sizes DEF Program
    <3>2. IsLocked' /\ IsDropped'
      BY <2>1, <2>2 DEF EntryInv, IsLocked, IsDropped
    <3>3. IsCopied'
      BY <2>1, <3>1 DEF IsCopied
    <3>4. IsAt'
      BY <1>1, <2>1, <2>2, Sizes DEF IsAt
    <3> QED BY <3>2, <3>3, <3>4
  <2>4. a0' \in Nat /\ a0' <= LineWords * L2Lines /\ kseg0 \in {"cached", "uncached"}
    BY <1>1, <2>1, Sizes DEF TypeOK
  <2> QED BY <2>1, <2>2, <2>3, <2>4, QuietInv
<1>5. CASE CopyWord
  <2>1. pc = "copy" /\ Move(a0) /\ UNCHANGED <<kseg0, l2, last>>
        /\ IF a0 + 1 = ProgEnd THEN pc' = "set_uncached" /\ a0' = 0
           ELSE pc' = pc /\ a0' = a0 + 1
    BY <1>5 DEF CopyWord, CopyStop
  <2>2. a0 \in Nat /\ a0 < ProgEnd /\ kseg0 = "cached"
    BY <1>1, <2>1 DEF TypeOK, IsAt
  <2>3. a0 \in Program
    BY <2>2, Sizes DEF Program
  <2>4. Fresh' /\ MemoryType'
    BY <1>1, <2>1, <2>3, MoveStep
  <2>5. dram'[a0] = last[a0] /\ \A w \in Words : w # a0 => dram'[w] = dram[w]
    BY <1>1, <2>1, <2>3, MoveStep
  <2>6. pc' \in {"copy", "set_uncached"} /\ a0' \in Nat /\ a0' <= ProgEnd
        /\ (pc' = "copy" => a0' = a0 + 1 /\ a0' < ProgEnd)
        /\ (pc' = "set_uncached" => a0 + 1 = ProgEnd)
    BY <2>1, <2>2, Sizes
  <2>7. TypeOK'
    <3>1. a0' <= LineWords * L2Lines
      <4> DEFINE n == LineWords * L2Lines
      <4>1. n \in Nat /\ ProgEnd \in Nat /\ ProgEnd <= n
        BY Sizes
      <4> HIDE DEF n
      <4>2. a0' <= n
        BY <2>6, <4>1
      <4> QED BY <4>2 DEF n
    <3> QED BY <1>1, <2>1, <2>4, <2>6, <3>1 DEF TypeOK, MemoryType
  <2>8. IsLocked' /\ IsDropped' /\ IsAt'
    BY <1>1, <2>1, <2>2, <2>6 DEF EntryInv, IsLocked, IsDropped, IsAt
  <2>9. IsCopied'
    <3> SUFFICES ASSUME NEW w \in Program,
                        (pc' = "copy" /\ w < a0') \/ pc' = "set_uncached"
                 PROVE  dram'[w] = last[w]
      BY <2>1, <2>6 DEF IsCopied
    <3>1. w \in Nat /\ w < ProgEnd /\ w \in Words
      BY ProgramIn, Sizes DEF Program
    <3>2. w < a0 \/ w = a0
      BY <2>2, <2>6, <3>1
    <3>3. w < a0 => dram[w] = last[w]
      BY <2>1 DEF EntryInv, IsCopied
    <3> QED BY <2>2, <2>5, <3>1, <3>2, <3>3
  <2> QED BY <2>4, <2>7, <2>8, <2>9 DEF EntryInv, Fresh
<1>6. CASE SetUncached
  <2>1. pc = "set_uncached" /\ kseg0' = "uncached" /\ pc' = "drop"
        /\ UNCHANGED <<a0, l1, l2, dram, last>>
    BY <1>6 DEF SetUncached
  <2>2. a0 = 0
    BY <1>1, <2>1 DEF IsAt
  <2>3. IsLocked' /\ IsCopied' /\ IsAt'
    BY <1>1, <2>1, <2>2, Sizes DEF EntryInv, IsLocked, IsCopied, IsAt
  <2>4. IsDropped'
    <3>1. \A l \in Lines : ~(l < a0)
      BY <2>2, Sizes DEF Lines
    <3> QED BY <2>1, <3>1 DEF EntryInv, IsLocked, IsDropped
  <2>5. a0' \in Nat /\ a0' <= LineWords * L2Lines
    BY <1>1, <2>1 DEF TypeOK
  <2> QED BY <2>1, <2>3, <2>4, <2>5, QuietInv
<1>7. CASE DropL2Line
  <2>1. pc = "drop" /\ l2' = [l2 EXCEPT ![a0] = Absent] /\ a0' = a0 + 1
        /\ pc' = (IF a0 + 1 = L2Lines THEN "set_cached" ELSE "drop")
        /\ UNCHANGED <<kseg0, l1, dram, last>>
    BY <1>7 DEF DropL2Line, DropStop
  <2>2. a0 \in Nat /\ a0 < L2Lines /\ kseg0 = "uncached" /\ a0 \in Lines
    BY <1>1, <2>1, Sizes DEF TypeOK, IsAt, Lines
  <2>3. l2'[a0].state = "absent" /\ \A l \in Lines : l # a0 => l2'[l] = l2[l]
    BY <1>1, <2>1, <2>2, AbsentType DEF TypeOK
  <2>4. Absent \in CacheLine({"absent", "locked", "clean", "dirty"})
    BY AbsentType DEF Absent, CacheLine, Data
  <2>5. l2' \in [Lines -> CacheLine({"absent", "locked", "clean", "dirty"})]
    BY <1>1, <2>1, <2>4 DEF TypeOK
  <2>6. a0' \in Nat /\ a0' <= LineWords * L2Lines /\ a0' <= L2Lines
    <3> DEFINE n == LineWords * L2Lines
    <3>1. n \in Nat /\ L2Lines \in Nat /\ L2Lines <= n
      BY Sizes
    <3> HIDE DEF n
    <3>2. a0' \in Nat /\ a0' <= n /\ a0' <= L2Lines
      BY <2>1, <2>2, <3>1
    <3> QED BY <3>2 DEF n
  <2>7. TypeOK'
    BY <1>1, <2>1, <2>5, <2>6 DEF TypeOK
  <2>8. \A w \in Program : dram[w] = last[w]
    BY <2>1 DEF EntryInv, IsCopied
  <2>9. \A w \in Program : LineOf(w) \in Lines
    BY ProgramIn, WordIn
  <2>10. L1IsFresh' /\ DramIsFresh' /\ IsCopied'
    BY <1>1, <2>1, <2>8 DEF Fresh, L1IsFresh, DramIsFresh, IsCopied, InL1
  <2>11. L2IsFresh'
    BY <1>1, <2>1, <2>3, <2>9 DEF Fresh, L2IsFresh, InL2
  <2>12. IsLocked' /\ IsAt'
    BY <1>1, <2>1, <2>2, Sizes DEF IsLocked, IsAt
  <2>13. IsDropped'
    <3>1. \A l \in Lines : l \in Nat /\ l < L2Lines
      BY Sizes DEF Lines
    <3>2. \A l \in Lines : l < a0' => l2'[l].state = "absent"
      <4> SUFFICES ASSUME NEW l \in Lines, l < a0' PROVE l2'[l].state = "absent"
        OBVIOUS
      <4>1. l < a0 \/ l = a0
        BY <2>1, <2>2, <3>1
      <4>2. l < a0 => l2[l].state = "absent"
        BY <2>1 DEF EntryInv, IsDropped
      <4> QED BY <2>2, <2>3, <4>1, <4>2
    <3>3. pc' = "set_cached" => a0' = L2Lines
      BY <2>1
    <3>4. \A l \in ProgramLines : l2'[l].state \in {"absent", "locked"}
      BY <2>1, <2>3, ProgramIn DEF EntryInv, IsDropped
    <3> QED BY <2>1, <3>1, <3>2, <3>3, <3>4 DEF IsDropped
  <2> QED BY <2>7, <2>10, <2>11, <2>12, <2>13 DEF EntryInv
<1>8. CASE SetCached
  <2>1. pc = "set_cached" /\ kseg0' = "cached" /\ pc' = "stage2_main"
        /\ UNCHANGED <<a0, l1, l2, dram, last>>
    BY <1>8 DEF SetCached
  <2>2. IsLocked' /\ IsCopied' /\ IsDropped' /\ IsAt'
    BY <1>1, <2>1 DEF EntryInv, IsLocked, IsCopied, IsDropped, IsAt
  <2>3. a0' \in Nat /\ a0' <= LineWords * L2Lines
    BY <1>1, <2>1 DEF TypeOK
  <2> QED BY <2>1, <2>2, <2>3, QuietInv
<1>9. ASSUME NEW w \in Program, SetVariable(w)
      PROVE  EntryInv'
  <2>1. pc \in {"pre_init", "stage2_main"} /\ StoreCached(w) /\ UNCHANGED <<pc, a0>>
    BY <1>9 DEF SetVariable
  <2>2. a0' \in Nat /\ a0' <= LineWords * L2Lines
    BY <1>1, <2>1 DEF TypeOK
  <2>3. pc # "clear_bss" /\ (pc = "pre_init" => a0' = 0)
    BY <1>1, <2>1 DEF IsAt
  <2> QED BY <2>1, <2>2, <2>3, StoreInv
<1>10. CASE UNCHANGED vars
  <2>1. UNCHANGED <<pc, a0, kseg0, l1, l2, dram, last>>
    BY <1>10 DEF vars, memory
  <2> QED BY <2>1 DEF EntryInv, TypeOK, L1IsFresh, L2IsFresh, DramIsFresh, IsLocked,
          IsCopied, IsDropped, IsAt, InL1, InL2
<1> QED
  BY <1>2, <1>3, <1>4, <1>5, <1>6, <1>7, <1>8, <1>9, <1>10 DEF Next, Code

THEOREM EntryInvHolds == Spec => []EntryInv
<1> QED BY EntryInit, NextInv, PTL DEF Spec

(* mt7621_stage2_entry and self_solidify: whatever a word of the program is *)
(* read through, it is the one loaded or stored last.                      *)
THEOREM ProgramAlwaysSurvives == Spec => []ProgramSurvives
<1>1. EntryInv => ProgramSurvives
  <2> SUFFICES ASSUME EntryInv, NEW w \in Program PROVE Seen(w) = last[w]
    BY DEF ProgramSurvives
  <2>1. CASE kseg0 = "cached"
    <3>1. TypeOK /\ Fresh
      BY DEF EntryInv, Fresh
    <3>2. CachedLine(LineOf(w))[Offset(w)] = last[w]
      BY <3>1, CachedIsFresh
    <3> QED BY <2>1, <3>2 DEF Seen
  <2>2. CASE kseg0 # "cached"
    <3>1. pc \in {"drop", "set_cached"}
      BY <2>2 DEF EntryInv, IsAt
    <3>2. dram[w] = last[w]
      BY <3>1 DEF EntryInv, IsCopied
    <3> QED BY <2>2, <3>2 DEF Seen
  <2> QED BY <2>1, <2>2
<1> QED BY <1>1, EntryInvHolds, PTL

(* The loop over the L2 tags drops every line of the cache, and nothing    *)
(* locks one again.                                                        *)
THEOREM NothingEverStaysLocked == Spec => []NothingStaysLocked
<1>1. EntryInv => NothingStaysLocked
  BY DEF EntryInv, IsDropped, NothingStaysLocked
<1> QED BY <1>1, EntryInvHolds, PTL

(* The registers and both caches keep their types. *)
THEOREM EntryTypes == Spec => []TypeOK
<1>1. EntryInv => TypeOK
  BY DEF EntryInv
<1> QED BY <1>1, EntryInvHolds, PTL
=============================================================================
