---------------------------- MODULE LeavesProofs ----------------------------
(***************************************************************************)
(* What the parts of the loader that work each by itself do, for every     *)
(* value of the constants: the powers of a number, on which most of it     *)
(* rests, the timers, the memory probe and the pool, the arithmetic, the   *)
(* SPI master, the checksum and the console, and at the end the model in   *)
(* which one of them runs.                                                 *)
(***************************************************************************)
EXTENDS Leaves, WellFoundedInduction, SequenceTheorems, TLAPS

-----------------------------------------------------------------------------
(* Induction over the naturals, stated for sets: the order of the numbers  *)
(* is well founded, so that a set of them has a least element.             *)

Before == OpToRel(<, Nat)

LEMMA BeforeIs == \A x, y \in Nat : <<y, x>> \in Before <=> y < x
BY DEF OpToRel, Before

LEMMA BeforeWellFounded == IsWellFoundedOn(Before, Nat)
BY NatLessThanWellFounded DEF Before

LEMMA Least ==
  ASSUME NEW T, T \subseteq Nat, T # {}
  PROVE  \E x \in T : \A y \in T : x <= y
<1>1. \E x \in T : \A y \in T : ~(<<y, x>> \in Before)
  BY BeforeWellFounded, WFMin
<1>2. PICK x \in T : \A y \in T : ~(<<y, x>> \in Before)
  BY <1>1
<1>3. ASSUME NEW y \in T
      PROVE  x <= y
  <2>1. x \in Nat /\ y \in Nat /\ ~(<<y, x>> \in Before)
    BY <1>2
  <2>2. ~(y < x)
    BY <2>1, BeforeIs
  <2> QED BY <2>1, <2>2
<1> QED BY <1>3

LEMMA SetInduction ==
  ASSUME NEW S, 0 \in S, \A n \in Nat : n \in S => n + 1 \in S
  PROVE  Nat \subseteq S
<1> DEFINE T == Nat \ S
<1> SUFFICES ASSUME T # {} PROVE FALSE
  OBVIOUS
<1>1. PICK x \in T : \A y \in T : x <= y
  BY Least
<1>2. x \in Nat /\ x # 0
  OBVIOUS
<1>3. x - 1 \in Nat /\ ~(x <= x - 1)
  BY <1>2
<1>4. x - 1 \in S
  BY <1>1, <1>3
<1>5. (x - 1) + 1 \in S
  BY <1>3, <1>4
<1> QED BY <1>2, <1>5

-----------------------------------------------------------------------------
(* The powers of a number: what the recursion means, and that it exists. *)

IsPow(f, m, x) == \A n \in 0 .. m : f[n] = IF n = 0 THEN 1 ELSE x * f[n - 1]

LEMMA PowsExist == \A x \in Nat : \A m \in Nat : \E f : IsPow(f, m, x)
<1> SUFFICES ASSUME NEW x \in Nat PROVE \A m \in Nat : \E f : IsPow(f, m, x)
  OBVIOUS
<1> DEFINE S == {m \in Nat : \E f : IsPow(f, m, x)}
<1>1. 0 \in S
  <2>1. IsPow([n \in {0} |-> 1], 0, x)
    BY DEF IsPow
  <2> QED BY <2>1
<1>2. ASSUME NEW m \in Nat, m \in S
      PROVE  m + 1 \in S
  <2>1. PICK f : IsPow(f, m, x)
    BY <1>2
  <2> DEFINE g == [n \in 0 .. m + 1 |-> IF n = m + 1 THEN x * f[m] ELSE f[n]]
  <2>2. IsPow(g, m + 1, x)
    <3> SUFFICES ASSUME NEW n \in 0 .. m + 1
                 PROVE  g[n] = IF n = 0 THEN 1 ELSE x * g[n - 1]
      BY DEF IsPow
    <3>1. CASE n = m + 1
      <4>1. n - 1 = m /\ m \in 0 .. m + 1 /\ m # m + 1 /\ n # 0
        BY <3>1
      <4> QED BY <3>1, <4>1
    <3>2. CASE n # m + 1
      <4>1. n \in 0 .. m /\ (n # 0 => n - 1 \in 0 .. m + 1 /\ n - 1 # m + 1)
        BY <3>2
      <4>2. f[n] = IF n = 0 THEN 1 ELSE x * f[n - 1]
        BY <2>1, <4>1 DEF IsPow
      <4> QED BY <3>2, <4>1, <4>2
    <3> QED BY <3>1, <3>2
  <2> QED BY <2>2
<1> HIDE DEF S
<1>3. Nat \subseteq S
  BY <1>1, <1>2, SetInduction
<1> QED BY <1>3 DEF S

LEMMA PowsAgree ==
  ASSUME NEW x \in Nat, NEW f, NEW g, NEW m \in Nat, IsPow(f, m, x),
         NEW k \in Nat, IsPow(g, k, x)
  PROVE  \A n \in Nat : n <= m /\ n <= k => f[n] = g[n]
<1> DEFINE S == {n \in Nat : n <= m /\ n <= k => f[n] = g[n]}
<1>1. 0 \in S
  BY DEF IsPow
<1>2. ASSUME NEW n \in Nat, n \in S
      PROVE  n + 1 \in S
  <2> SUFFICES ASSUME n + 1 <= m, n + 1 <= k PROVE f[n + 1] = g[n + 1]
    OBVIOUS
  <2>1. f[n] = g[n]
    BY <1>2
  <2>2. n + 1 \in 0 .. m /\ n + 1 \in 0 .. k /\ n + 1 # 0 /\ (n + 1) - 1 = n
    OBVIOUS
  <2>3. f[n + 1] = x * f[n] /\ g[n + 1] = x * g[n]
    BY <2>2 DEF IsPow
  <2> QED BY <2>1, <2>3
<1> HIDE DEF S
<1>3. Nat \subseteq S
  BY <1>1, <1>2, SetInduction
<1> QED BY <1>3 DEF S

LEMMA PowerIs ==
  ASSUME NEW x \in Nat
  PROVE  /\ PowerOf(x)[0] = 1
         /\ \A n \in Nat : PowerOf(x)[n + 1] = x * PowerOf(x)[n]
<1> DEFINE F(f) == [n \in Nat |-> IF n = 0 THEN 1 ELSE x * f[n - 1]]
           piece(n) == CHOOSE f : IsPow(f, n, x)
           whole == [n \in Nat |-> piece(n)[n]]
<1>1. \A n \in Nat : IsPow(piece(n), n, x)
  BY PowsExist
<1> HIDE DEF piece
<1>2. ASSUME NEW n \in Nat
      PROVE  whole[n] = IF n = 0 THEN 1 ELSE x * whole[n - 1]
  <2>1. n \in 0 .. n /\ piece(n)[n] = IF n = 0 THEN 1 ELSE x * piece(n)[n - 1]
    BY <1>1 DEF IsPow
  <2>2. CASE n = 0
    BY <2>1, <2>2
  <2>3. CASE n # 0
    <3>1. n - 1 \in Nat /\ n - 1 <= n
      BY <2>3
    <3> DEFINE m == n - 1
    <3>2. m \in Nat /\ m <= n /\ m <= m /\ IsPow(piece(n), n, x) /\ IsPow(piece(m), m, x)
      BY <1>1, <3>1
    <3> HIDE DEF m
    <3>3. piece(n)[m] = piece(m)[m]
      BY <3>2, PowsAgree
    <3>4. whole[m] = piece(m)[m]
      BY <3>2
    <3> QED BY <2>1, <2>3, <3>3, <3>4 DEF m
  <2> QED BY <2>2, <2>3
<1> HIDE DEF whole
<1>3. whole = F(whole)
  <2>1. DOMAIN whole = Nat /\ whole = [n \in Nat |-> whole[n]]
    BY DEF whole
  <2> QED BY <1>2, <2>1
<1> DEFINE p == PowerOf(x)
<1>4. p = CHOOSE f : f = F(f)
  BY DEF PowerOf
<1> HIDE DEF F, p
<1>5. p = F(p)
  BY <1>3, <1>4
<1>6. \A n \in Nat : F(p)[n] = IF n = 0 THEN 1 ELSE x * p[n - 1]
  BY DEF F
<1>7. \A n \in Nat : p[n] = IF n = 0 THEN 1 ELSE x * p[n - 1]
  BY <1>5, <1>6
<1>8. ASSUME NEW n \in Nat
      PROVE  p[n + 1] = x * p[n]
  <2>1. n + 1 \in Nat /\ n + 1 # 0 /\ (n + 1) - 1 = n
    OBVIOUS
  <2> QED BY <1>7, <2>1
<1>9. p[0] = 1
  BY <1>7
<1> QED BY <1>8, <1>9 DEF p

(* The powers of a number are positive, and of one above 1 they grow. *)
LEMMA PowerGrows ==
  ASSUME NEW x \in Nat, x > 1
  PROVE  /\ \A n \in Nat : PowerOf(x)[n] \in Nat \ {0}
         /\ \A n \in Nat : PowerOf(x)[n] < PowerOf(x)[n + 1]
         /\ \A n \in Nat : n < PowerOf(x)[n]
<1> DEFINE p == PowerOf(x)
<1>0. p[0] = 1 /\ \A n \in Nat : p[n + 1] = x * p[n]
  BY PowerIs
<1> HIDE DEF p
<1> DEFINE S == {n \in Nat : p[n] \in Nat \ {0} /\ n < p[n]}
<1>1. 0 \in S
  BY <1>0
<1>2. ASSUME NEW n \in Nat, p[n] \in Nat \ {0}
      PROVE  p[n + 1] \in Nat /\ p[n + 1] >= 2 * p[n]
  <2> DEFINE y == p[n]
  <2>1. p[n + 1] = x * y /\ y \in Nat \ {0}
    BY <1>0, <1>2
  <2> HIDE DEF y
  <2>2. x * y \in Nat /\ x * y >= 2 * y
    BY <2>1
  <2> QED BY <2>1, <2>2 DEF y
<1>3. ASSUME NEW n \in Nat, n \in S
      PROVE  n + 1 \in S
  BY <1>2, <1>3
<1> HIDE DEF S
<1>4. Nat \subseteq S
  BY <1>1, <1>3, SetInduction
<1>5. \A n \in Nat : p[n] \in Nat \ {0} /\ n < p[n]
  BY <1>4 DEF S
<1>6. \A n \in Nat : p[n] < p[n + 1]
  BY <1>2, <1>5
<1> QED BY <1>5, <1>6 DEF p

LEMMA PowIs ==
  /\ Pow2[0] = 1
  /\ \A n \in Nat : Pow2[n + 1] = 2 * Pow2[n]
BY PowerIs DEF Pow2

LEMMA PowNat == \A n \in Nat : Pow2[n] \in Nat \ {0}
BY PowerGrows DEF Pow2

LEMMA PowSum == \A m, n \in Nat : Pow2[m + n] = Pow2[m] * Pow2[n]
<1> SUFFICES ASSUME NEW m \in Nat PROVE \A n \in Nat : Pow2[m + n] = Pow2[m] * Pow2[n]
  OBVIOUS
<1> DEFINE S == {n \in Nat : Pow2[m + n] = Pow2[m] * Pow2[n]}
<1>1. 0 \in S
  BY PowIs, PowNat
<1>2. ASSUME NEW n \in Nat, n \in S
      PROVE  n + 1 \in S
  <2>1. Pow2[m + n] = Pow2[m] * Pow2[n]
    BY <1>2
  <2>2. Pow2[(m + n) + 1] = 2 * Pow2[m + n] /\ Pow2[n + 1] = 2 * Pow2[n]
    BY PowIs
  <2>3. m + (n + 1) = (m + n) + 1
    OBVIOUS
  <2>4. Pow2[m] \in Nat /\ Pow2[n] \in Nat
    BY PowNat
  <2>5. Pow2[m] * (2 * Pow2[n]) = 2 * (Pow2[m] * Pow2[n])
    BY <2>4
  <2>6. Pow2[m + (n + 1)] = Pow2[m] * Pow2[n + 1]
    BY <2>1, <2>2, <2>3, <2>5
  <2> QED BY <2>6
<1> HIDE DEF S
<1>3. Nat \subseteq S
  BY <1>1, <1>2, SetInduction
<1> QED BY <1>3 DEF S

LEMMA PowGrows == \A m, n \in Nat : m < n => Pow2[m] < Pow2[n]
<1> SUFFICES ASSUME NEW m \in Nat, NEW n \in Nat, m < n PROVE Pow2[m] < Pow2[n]
  OBVIOUS
<1> DEFINE k == n - m - 1
<1>1. k \in Nat /\ n = m + (k + 1)
  OBVIOUS
<1> HIDE DEF k
<1>2. Pow2[n] = Pow2[m] * Pow2[k + 1] /\ Pow2[k + 1] = 2 * Pow2[k]
  <2>1. k + 1 \in Nat
    BY <1>1
  <2>2. Pow2[m + (k + 1)] = Pow2[m] * Pow2[k + 1]
    BY <2>1, PowSum
  <2>3. Pow2[k + 1] = 2 * Pow2[k]
    BY <1>1, PowIs
  <2> QED BY <1>1, <2>2, <2>3
<1>3. Pow2[m] \in Nat \ {0} /\ Pow2[k] \in Nat \ {0}
  BY <1>1, PowNat
<1>4. 1 <= Pow2[k] /\ Pow2[m] * (2 * Pow2[k]) = 2 * (Pow2[m] * Pow2[k])
  BY <1>3
<1>5. Pow2[m] * 1 <= Pow2[m] * Pow2[k]
  BY <1>3, <1>4
<1>6. Pow2[m] * Pow2[k] \in Nat /\ Pow2[m] * 1 = Pow2[m]
  BY <1>3
<1>7. Pow2[n] = 2 * (Pow2[m] * Pow2[k])
  BY <1>2, <1>4
<1>8. Pow2[m] * Pow2[k] < Pow2[n]
  BY <1>5, <1>6, <1>7, <1>3
<1> QED BY <1>3, <1>5, <1>6, <1>7, <1>8

-----------------------------------------------------------------------------
(* The timers. *)

(* While a loop of stage 2 runs, the last count read is the counter's, and *)
(* the end, or the start, is that of the call.                             *)
Running == pc \in {"delay", "poll"}

Measured == Running => /\ stage = 2
                       /\ ticks_lo = Counter(now)
                       /\ Ticks - first = now - start

Called == /\ pc = "delay" => tmo = Usec(first) + usec
          /\ pc = "poll"  => tmo = Usec(first)

FirstStage == pc \in {"while_greater", "while_less"} => stage = 1

Pending == pc # "idle" => result = "none"

(* What the last call returned, in terms of the counter it read. *)
Lasted == /\ stage = 2 /\ result = "delayed"
                => (now - start) * UsecNum > (usec - 1) * TickNum
          /\ result = "timedout" => (now - start) * UsecNum > TIMEOUT * TickNum

TimerInv == TypeOK /\ FirstStage /\ Pending /\ Measured /\ Called
        /\ Lasted /\ WaitsNoLonger

-----------------------------------------------------------------------------
(* The counter a step of less than one turn later, and the turn it shows.  *)
LEMMA CounterMoves ==
  ASSUME NEW n \in Nat, NEW g \in 1 .. Modulus
  PROVE  /\ Counter(n) \in 0 .. Modulus - 1
         /\ Counter(n + g) \in 0 .. Modulus - 1
         /\ Counter(n + g) <= Counter(n) => Counter(n + g) = Counter(n) + g - Modulus
         /\ Counter(n + g) > Counter(n) => Counter(n + g) = Counter(n) + g
<1>1. Modulus \in Nat \ {0}
  BY GapAssumption
<1> DEFINE a == n % Modulus
           z == (n + g) % Modulus
           p == n \div Modulus
           q == (n + g) \div Modulus
<1>2. /\ a \in 0 .. Modulus - 1 /\ z \in 0 .. Modulus - 1
      /\ p \in Int /\ q \in Int
      /\ n = Modulus * p + a /\ n + g = Modulus * q + z
  BY <1>1
<1> HIDE DEF a, z, p, q
<1>3. Modulus * (q - p) = g + a - z /\ Modulus * (q - p) = Modulus * q - Modulus * p
  BY <1>1, <1>2
<1>4. q - p = 0 \/ q - p = 1
  <2>1. q - p \in Int
    BY <1>2
  <2>2. -Modulus < Modulus * (q - p) /\ Modulus * (q - p) < 2 * Modulus
    BY <1>1, <1>2, <1>3
  <2>3. CASE q - p <= -1
    BY <1>1, <2>1, <2>2, <2>3
  <2>4. CASE q - p >= 2
    BY <1>1, <2>1, <2>2, <2>4
  <2>. QED
    BY <2>1, <2>3, <2>4
<1>5. z = a + g \/ z = a + g - Modulus
  BY <1>1, <1>2, <1>3, <1>4
<1>. QED
  BY <1>1, <1>2, <1>5 DEF Counter, a, z

(* What the counter shows is below its modulus. *)
LEMMA CounterType ==
  ASSUME NEW n \in Nat
  PROVE  Counter(n) \in 0 .. Modulus - 1
<1>1. Modulus \in Nat \ {0}
  BY GapAssumption
<1>. QED
  BY <1>1 DEF Counter

(* A reading less than one turn after the last adds the ticks gone by.     *)
LEMMA TicksAdvance ==
  ASSUME TypeOK, NEW g \in LoopGaps, now' = now + g, ticks_lo = Counter(now), GetTicks
  PROVE  /\ ticks_hi' \in Nat /\ ticks_lo' \in 0 .. Modulus - 1
         /\ ticks_lo' = Counter(now') /\ Ticks' = Ticks + g
<1>1. Modulus \in Nat \ {0} /\ g \in 1 .. Modulus
  BY GapAssumption
<1>2. now \in Nat /\ ticks_hi \in Nat /\ ticks_lo \in 0 .. Modulus - 1
  BY DEF TypeOK
<1>3. ticks_lo' = Counter(now + g)
  BY DEF GetTicks
<1>4. CASE Counter(now + g) <= Counter(now)
  <2>1. ticks_hi' = ticks_hi + 1 /\ ticks_lo' = ticks_lo + g - Modulus
    BY <1>1, <1>2, <1>3, <1>4, CounterMoves DEF GetTicks, Wrapped
  <2>2. (ticks_hi + 1) * Modulus = ticks_hi * Modulus + Modulus
    BY <1>1, <1>2
  <2>. QED
    BY <1>1, <1>2, <1>3, <2>1, <2>2, CounterMoves DEF Ticks
<1>5. CASE ~(Counter(now + g) <= Counter(now))
  <2>1. ticks_hi' = ticks_hi /\ ticks_lo' = ticks_lo + g
    BY <1>1, <1>2, <1>3, <1>5, CounterMoves DEF GetTicks, Wrapped
  <2>. QED
    BY <1>1, <1>2, <1>3, <2>1, CounterMoves DEF Ticks
<1>. QED
  BY <1>4, <1>5

(* Two readings that differ by u microseconds are more than u - 1 of them   *)
(* apart ...                                                               *)
LEMMA UsecApart ==
  ASSUME NEW t \in Nat, NEW s \in Nat, NEW u \in Int, Usec(t) >= Usec(s) + u
  PROVE  (t - s) * UsecNum > (u - 1) * TickNum
<1>1. UsecNum \in Nat \ {0} /\ TickNum \in Nat \ {0}
  BY RateAssumption
<1> DEFINE a == t * UsecNum
           z == s * UsecNum
           x == a \div TickNum
           y == z \div TickNum
<1>2. a \in Nat /\ z \in Nat /\ (t - s) * UsecNum = a - z
  BY <1>1
<1> HIDE DEF a, z
<1>3. /\ x \in Int /\ y \in Int
      /\ x * TickNum <= a /\ z < y * TickNum + TickNum
  BY <1>1, <1>2
<1>4. x >= y + u
  BY DEF Usec, a, z
<1> HIDE DEF x, y
<1>5. (x - (y + u)) * TickNum >= 0
  BY <1>1, <1>3, <1>4
<1>6. (x - (y + u)) * TickNum = x * TickNum - y * TickNum - u * TickNum
  BY <1>1, <1>3
<1>7. (u - 1) * TickNum = u * TickNum - TickNum
  BY <1>1
<1>. QED
  BY <1>1, <1>2, <1>3, <1>5, <1>6, <1>7

(* ... and less than u + 1. *)
LEMMA UsecNear ==
  ASSUME NEW t \in Nat, NEW s \in Nat, NEW u \in Int, Usec(t) <= Usec(s) + u
  PROVE  (t - s) * UsecNum < (u + 1) * TickNum
<1>1. UsecNum \in Nat \ {0} /\ TickNum \in Nat \ {0}
  BY RateAssumption
<1> DEFINE a == t * UsecNum
           z == s * UsecNum
           x == a \div TickNum
           y == z \div TickNum
<1>2. a \in Nat /\ z \in Nat /\ (t - s) * UsecNum = a - z
  BY <1>1
<1> HIDE DEF a, z
<1>3. /\ x \in Int /\ y \in Int
      /\ a < x * TickNum + TickNum /\ y * TickNum <= z
  BY <1>1, <1>2
<1>4. x <= y + u
  BY DEF Usec, a, z
<1> HIDE DEF x, y
<1>5. ((y + u) - x) * TickNum >= 0
  BY <1>1, <1>3, <1>4
<1>6. ((y + u) - x) * TickNum = y * TickNum + u * TickNum - x * TickNum
  BY <1>1, <1>3
<1>7. (u + 1) * TickNum = u * TickNum + TickNum
  BY <1>1
<1>. QED
  BY <1>1, <1>2, <1>3, <1>5, <1>6, <1>7

(* tick_to_usec keeps natural numbers natural. *)
LEMMA UsecType ==
  ASSUME NEW t \in Nat
  PROVE  Usec(t) \in Nat
<1>1. UsecNum \in Nat \ {0} /\ TickNum \in Nat \ {0}
  BY RateAssumption
<1>2. t * UsecNum \in Nat
  BY <1>1
<1>. QED
  BY <1>1, <1>2 DEF Usec

-----------------------------------------------------------------------------
(* TimerInv holds at reset. *)
LEMMA TimerInvInit == Init => TimerInv
<1> SUFFICES ASSUME Init PROVE TimerInv
  OBVIOUS
<1>1. Modulus \in Nat \ {0}
  BY GapAssumption
<1>2. TypeOK
  BY <1>1 DEF Init, TypeOK
<1>. QED
  BY <1>2 DEF Init, TimerInv, FirstStage, Pending, Measured, Running, Called, Lasted,
     WaitsNoLonger

(* What beginning a call of stage 2 leaves for its loop. *)
LEMMA CallMeasures ==
  ASSUME TypeOK, Call2
  PROVE  /\ stage' = 2 /\ now' \in Nat /\ start' = now' /\ result' = "none"
         /\ ticks_hi' \in Nat /\ ticks_lo' \in 0 .. Modulus - 1
         /\ ticks_lo' = Counter(now') /\ first' = Ticks' /\ first' \in Nat
         /\ t_expire' = t_expire
<1>1. Modulus \in Nat \ {0} /\ \A g \in IdleGaps : g \in Nat
  BY GapAssumption
<1>2. now' \in Nat
  BY <1>1 DEF Call2, Begin, Passes, TypeOK
<1>3. ticks_hi' \in Nat /\ ticks_lo' = Counter(now')
  BY DEF Call2, GetTicks, TypeOK
<1>4. Counter(now') \in 0 .. Modulus - 1
  BY <1>2, CounterType
<1>5. ticks_lo' \in 0 .. Modulus - 1
  BY <1>3, <1>4
<1>6. Ticks' = ticks_hi' * Modulus + ticks_lo'
  BY DEF Ticks
<1>7. Ticks' \in Nat
  BY <1>1, <1>3, <1>5, <1>6
<1>. QED
  BY <1>2, <1>3, <1>5, <1>7 DEF Call2, Begin

(* A reading in a loop of stage 2 keeps the measure. *)
LEMMA LoopMeasures ==
  ASSUME TypeOK, Measured, Running, Passes(LoopGaps), GetTicks, UNCHANGED history
  PROVE  /\ now' \in Nat /\ ticks_hi' \in Nat /\ ticks_lo' \in 0 .. Modulus - 1
         /\ ticks_lo' = Counter(now') /\ Ticks' - first = now' - start
         /\ Ticks' \in Nat
<1>1. PICK g \in LoopGaps : now' = now + g
  BY DEF Passes
<1>2. Modulus \in Nat \ {0} /\ g \in Nat
  BY GapAssumption
<1>3. /\ ticks_hi' \in Nat /\ ticks_lo' \in 0 .. Modulus - 1
      /\ ticks_lo' = Counter(now') /\ Ticks' = Ticks + g
  BY <1>1, TicksAdvance DEF Measured
<1>4. Ticks \in Nat /\ now \in Nat /\ first \in Nat /\ start \in Nat
  BY <1>2 DEF TypeOK, Ticks
<1>. QED
  BY <1>1, <1>2, <1>3, <1>4 DEF Measured

(* Every step keeps TimerInv. *)
LEMMA TimerInvNext == TimerInv /\ [Next]_vars => TimerInv'
<1> SUFFICES ASSUME TimerInv, [Next]_vars PROVE TimerInv'
  OBVIOUS
<1> USE DEF TimerInv
<1>0. /\ Modulus \in Nat \ {0}
      /\ \A g \in LoopGaps : g \in Nat
      /\ \A g \in IdleGaps : g \in Nat
  BY GapAssumption
<1>1. ASSUME NEW u \in Usecs, Udelay1(u) PROVE TimerInv'
  <2>1. now' \in Nat
    BY <1>0, <1>1 DEF Udelay1, Begin, Passes, TypeOK
  <2>2. Counter(now') \in 0 .. Modulus - 1
    BY <2>1, CounterType
  <2>3. u * TicksPerUsec \in Nat /\ u * TicksPerUsec < Modulus /\ u \in Nat
    BY <1>0, RateAssumption
  <2>4. t_expire' \in 0 .. Modulus - 1
    <3> DEFINE c == Counter(now')
               w == u * TicksPerUsec
    <3> HIDE DEF c, w
    <3>1. t_expire' = IF Modulus - 1 - c < w THEN w - (Modulus - 1 - c) ELSE c + w
      BY <1>1 DEF Udelay1, Expire, c, w
    <3>2. c \in 0 .. Modulus - 1 /\ w \in Nat /\ w < Modulus
      BY <2>2, <2>3 DEF c, w
    <3>. QED
      BY <1>0, <3>1, <3>2
  <2>5. /\ pc' \in {"while_greater", "while_less"} /\ stage = 1 /\ stage' = 1
        /\ start' = now' /\ first' = 0 /\ usec' = u /\ result' = "none"
        /\ ticks_hi' = ticks_hi /\ ticks_lo' = ticks_lo /\ tmo' = tmo
    BY <1>1 DEF Udelay1, Begin, ticks
  <2>6. TypeOK'
    BY <2>1, <2>3, <2>4, <2>5 DEF TypeOK
  <2>. QED
    BY <2>5, <2>6 DEF FirstStage, Pending, Measured, Called, Lasted, WaitsNoLonger, Running
<1>2. CASE Wait1
  <2>1. now' \in Nat
    BY <1>0, <1>2 DEF Wait1, Passes, TypeOK
  <2>2. /\ stage = 1 /\ stage' = 1 /\ t_expire' = t_expire /\ tmo' = tmo /\ usec' = usec
        /\ ticks_hi' = ticks_hi /\ ticks_lo' = ticks_lo /\ start' = start /\ first' = first
    BY <1>2 DEF Wait1, FirstStage, ticks, history
  <2>3. \/ pc' = pc /\ pc \in {"while_greater", "while_less"} /\ result' = "none"
        \/ pc' = "idle" /\ result' = "delayed"
    BY <1>2 DEF Wait1, Pending
  <2>4. TypeOK'
    BY <2>1, <2>2, <2>3 DEF TypeOK
  <2>. QED
    BY <2>2, <2>3, <2>4 DEF FirstStage, Pending, Measured, Called, Lasted, WaitsNoLonger, Running
<1>3. CASE EnterStage2
  <2>1. TypeOK'
    BY <1>0, <1>3 DEF EnterStage2, TypeOK, ticks, history
  <2>. QED
    BY <1>3, <2>1 DEF EnterStage2, FirstStage, Pending, Measured, Called, Lasted, WaitsNoLonger, Running
<1>4. ASSUME NEW u \in Usecs, Udelay2(u) PROVE TimerInv'
  <2>1. u \in Nat /\ Call2
    BY <1>4, RateAssumption DEF Udelay2
  <2>2. tmo' = Usec(first') + u /\ usec' = u /\ pc' = "delay"
    BY <1>4, <2>1, CallMeasures DEF Udelay2, End
  <2>3. Usec(first') \in Nat
    BY <2>1, CallMeasures, UsecType
  <2>4. TypeOK'
    BY <2>1, <2>2, <2>3, CallMeasures DEF TypeOK
  <2>5. Measured'
    BY <2>1, CallMeasures DEF Measured
  <2>6. Called'
    BY <2>2 DEF Called, Usec
  <2>7. WaitsNoLonger'
    <3>1. UsecNum \in Nat /\ TickNum \in Nat /\ TIMEOUT + 1 \in Nat \ {0} /\ TickNum # 0
      BY RateAssumption
    <3>2. (now' - start') * UsecNum = 0
      BY <2>1, <3>1, CallMeasures
    <3>3. usec' * TickNum >= 0 /\ (TIMEOUT + 1) * TickNum > 0
      BY <2>1, <2>2, <3>1
    <3>. QED
      BY <3>2, <3>3 DEF WaitsNoLonger
  <2>. QED
    BY <2>1, <2>2, <2>4, <2>5, <2>6, <2>7, CallMeasures DEF FirstStage, Pending, Lasted
<1>5. CASE CallPoll
  <2>1. Call2
    BY <1>5 DEF CallPoll
  <2>2. tmo' = Usec(first') /\ usec' = 0 /\ pc' = "poll"
    BY <1>5, <2>1, CallMeasures DEF CallPoll
  <2>3. Usec(first') \in Nat
    BY <2>1, CallMeasures, UsecType
  <2>4. TypeOK'
    BY <2>1, <2>2, <2>3, CallMeasures DEF TypeOK
  <2>5. Measured'
    BY <2>1, CallMeasures DEF Measured
  <2>6. Called'
    BY <2>2 DEF Called, Usec
  <2>7. WaitsNoLonger'
    <3>1. UsecNum \in Nat /\ TickNum \in Nat /\ TIMEOUT + 1 \in Nat \ {0} /\ TickNum # 0
      BY RateAssumption
    <3>2. (now' - start') * UsecNum = 0
      BY <2>1, <3>1, CallMeasures
    <3>3. usec' * TickNum >= 0 /\ (TIMEOUT + 1) * TickNum > 0
      BY <2>1, <2>2, <3>1
    <3>. QED
      BY <3>2, <3>3 DEF WaitsNoLonger
  <2>. QED
    BY <2>1, <2>2, <2>4, <2>5, <2>6, <2>7, CallMeasures DEF FirstStage, Pending, Lasted
<1>6. CASE PollReady
  <2>1. TypeOK'
    BY <1>6 DEF PollReady, TypeOK, ticks, history
  <2>. QED
    BY <1>6, <2>1 DEF PollReady, FirstStage, Pending, Measured, Called, Lasted, WaitsNoLonger, Running
<1>7. ASSUME Wait2 \/ PollAgain PROVE TimerInv'
  <2>1. /\ Running /\ Passes(LoopGaps) /\ GetTicks /\ UNCHANGED history
        /\ stage' = stage /\ t_expire' = t_expire /\ tmo' = tmo /\ usec' = usec
        /\ start' = start /\ first' = first
    BY <1>7 DEF Wait2, PollAgain, Running, history
  <2>2. stage = 2 /\ usec \in Nat /\ first \in Nat /\ TIMEOUT \in Nat
    BY <2>1, RateAssumption DEF Measured, TypeOK
  <2>3. Ticks' \in Nat /\ Ticks' - first = now' - start
    BY <2>1, LoopMeasures
  <2>4. \/ /\ pc' = pc /\ result' = result
           /\ pc = "delay" => Usec(Ticks') <= Usec(first) + (usec - 1)
           /\ pc = "poll" => Usec(Ticks') <= Usec(first) + TIMEOUT
        \/ pc' = "idle" /\ result' = "delayed" /\ Usec(Ticks') >= Usec(first) + usec
        \/ pc' = "idle" /\ result' = "timedout" /\ Usec(Ticks') >= Usec(first) + (TIMEOUT + 1)
    <3>1. Usec(Ticks') \in Nat /\ Usec(first) \in Nat
      BY <2>2, <2>3, UsecType
    <3>2. CASE Wait2
      <4>1. pc = "delay" /\ tmo = Usec(first) + usec
        BY <3>2 DEF Wait2, Called
      <4>2. \/ pc' = pc /\ result' = result /\ Usec(Ticks') < tmo
            \/ pc' = "idle" /\ result' = "delayed" /\ ~(Usec(Ticks') < tmo)
        BY <3>2 DEF Wait2
      <4>. QED
        BY <2>2, <3>1, <4>1, <4>2
    <3>3. CASE PollAgain
      <4>1. pc = "poll" /\ tmo = Usec(first)
        BY <3>3 DEF PollAgain, Called
      <4>2. \/ pc' = pc /\ result' = result /\ ~(Usec(Ticks') - tmo > TIMEOUT)
            \/ pc' = "idle" /\ result' = "timedout" /\ Usec(Ticks') - tmo > TIMEOUT
        BY <3>3 DEF PollAgain, Expired
      <4>. QED
        BY <2>2, <3>1, <4>1, <4>2
    <3>. QED
      BY <1>7, <3>2, <3>3
  <2>5. TypeOK'
    BY <2>1, <2>4, LoopMeasures DEF TypeOK
  <2>6. Measured' /\ Called' /\ FirstStage' /\ Pending'
    BY <2>1, <2>2, <2>4, LoopMeasures
       DEF Measured, Called, FirstStage, Pending, Running, Usec
  <2>7. Lasted'
    <3>1. CASE pc' = pc /\ result' = result
      BY <2>1, <3>1 DEF Lasted, Pending, Running
    <3>2. CASE pc' = "idle" /\ result' = "delayed" /\ Usec(Ticks') >= Usec(first) + usec
      <4>1. (Ticks' - first) * UsecNum > (usec - 1) * TickNum
        BY <2>2, <2>3, <3>2, UsecApart
      <4>. QED
        BY <2>1, <2>3, <3>2, <4>1 DEF Lasted
    <3>3. CASE pc' = "idle" /\ result' = "timedout" /\ Usec(Ticks') >= Usec(first) + (TIMEOUT + 1)
      <4>1. (Ticks' - first) * UsecNum > (TIMEOUT + 1 - 1) * TickNum
        BY <2>2, <2>3, <3>3, UsecApart
      <4>2. TIMEOUT + 1 - 1 = TIMEOUT
        BY <2>2
      <4>. QED
        BY <2>1, <2>3, <3>3, <4>1, <4>2 DEF Lasted
    <3>. QED
      BY <2>4, <3>1, <3>2, <3>3
  <2>8. WaitsNoLonger'
    <3>1. CASE pc' = pc /\ pc = "delay" /\ Usec(Ticks') <= Usec(first) + (usec - 1)
      <4>1. (Ticks' - first) * UsecNum < (usec - 1 + 1) * TickNum
        BY <2>2, <2>3, <3>1, UsecNear
      <4>2. usec - 1 + 1 = usec
        BY <2>2
      <4>3. (Ticks' - first) * UsecNum < usec * TickNum
        BY <4>1, <4>2
      <4>4. usec * TickNum \in Int /\ (Ticks' - first) * UsecNum \in Int
        <5>1. TickNum \in Nat /\ UsecNum \in Nat
          BY RateAssumption
        <5>. QED
          BY <2>2, <2>3, <5>1
      <4>5. (Ticks' - first) * UsecNum <= usec * TickNum
        BY <4>3, <4>4
      <4>. QED
        BY <2>1, <2>3, <3>1, <4>5 DEF WaitsNoLonger
    <3>2. CASE pc' = pc /\ pc = "poll" /\ Usec(Ticks') <= Usec(first) + TIMEOUT
      <4>1. (Ticks' - first) * UsecNum < (TIMEOUT + 1) * TickNum
        BY <2>2, <2>3, <3>2, UsecNear
      <4>. QED
        BY <2>1, <2>3, <3>2, <4>1 DEF WaitsNoLonger
    <3>. QED
      BY <2>1, <2>4, <3>1, <3>2 DEF WaitsNoLonger, Running
  <2>. QED
    BY <2>5, <2>6, <2>7, <2>8
<1>8. CASE UNCHANGED vars
  <2>1. TypeOK'
    BY <1>8 DEF vars, ticks, history, TypeOK
  <2>2. Ticks' = Ticks
    BY <1>8 DEF vars, ticks, Ticks
  <2>. QED
    BY <1>8, <2>1, <2>2 DEF vars, ticks, history, FirstStage, Pending, Measured, Called,
       Lasted, WaitsNoLonger, Running, Counter, Usec
<1>. QED
  BY <1>1, <1>2, <1>3, <1>4, <1>5, <1>6, <1>7, <1>8 DEF Next

(* TimerInv holds in every state. *)
THEOREM TimerInvHolds == Spec => []TimerInv
<1>. QED
  BY TimerInvInit, TimerInvNext, PTL DEF Spec

-----------------------------------------------------------------------------
(* udelay and the poll keep their variables in range, whatever the width of *)
(* the counter.                                                             *)
THEOREM TypeCorrect == Spec => []TypeOK
<1>1. TimerInv => TypeOK
  BY DEF TimerInv
<1>. QED
  BY <1>1, TimerInvHolds, PTL

(* get_ticks misses no turn of the counter inside a call and counts none    *)
(* that was not: what it adds up is the time since the call began.          *)
THEOREM ElapsedMeasured == Spec => []ElapsedIsRight
<1>1. TimerInv => ElapsedIsRight
  BY DEF TimerInv, Measured, Running, ElapsedIsRight
<1>. QED
  BY <1>1, TimerInvHolds, PTL

-----------------------------------------------------------------------------
(* Stage 1.  A loop of udelay waits for the count at its end, or, when the *)
(* end lies behind the wrap, for a count that does not come before it.     *)
Waiting1 ==
  pc \in {"while_greater", "while_less"} =>
    /\ start <= now
    /\ pc = "while_less" => t_expire = Counter(start) + usec * TicksPerUsec
    /\ pc = "while_greater" => t_expire <= Counter(start)

UdelayInv == Waiting1 /\ DelayLasts1

(* Within a turn the counter shows the time gone by. *)
LEMMA SameTurn ==
  ASSUME NEW m \in Nat, NEW n \in Nat, m \div Modulus = n \div Modulus
  PROVE  n - m = Counter(n) - Counter(m)
<1>1. Modulus \in Nat \ {0}
  BY GapAssumption
<1> DEFINE a == m % Modulus
           z == n % Modulus
           p == Modulus * (m \div Modulus)
<1>2. m = p + a /\ p \in Int /\ a \in Int
  BY <1>1
<1>3. n = p + z /\ z \in Int
  BY <1>1
<1> HIDE DEF p, a, z
<1>4. n - m = z - a
  BY <1>2, <1>3
<1>. QED
  BY <1>4 DEF Counter, a, z

(* Every step keeps UdelayInv. *)
LEMMA UdelayInvNext == TimerInv /\ UdelayInv /\ [Next]_vars => UdelayInv'
<1> SUFFICES ASSUME TypeOK, FirstStage, Pending, Measured, UdelayInv, [Next]_vars PROVE UdelayInv'
  BY DEF TimerInv
<1>0. /\ Modulus \in Nat \ {0}
      /\ \A g \in LoopGaps : g \in Nat \ {0}
      /\ \A g \in IdleGaps : g \in Nat
  BY GapAssumption
<1>1. ASSUME NEW u \in Usecs, Udelay1(u) PROVE UdelayInv'
  <2>1. now' \in Nat /\ start' = now' /\ usec' = u /\ result' = "none"
    BY <1>0, <1>1 DEF Udelay1, Begin, Passes, TypeOK
  <2>2. u * TicksPerUsec \in Nat /\ u * TicksPerUsec < Modulus
    BY <1>0, RateAssumption
  <2> DEFINE c == Counter(now')
             e == u * TicksPerUsec
  <2>3. c \in 0 .. Modulus - 1
    BY <2>1, CounterType
  <2> HIDE DEF c
  <2>4. IF Modulus - 1 - c < e
        THEN t_expire' = e - (Modulus - 1 - c) /\ pc' = "while_greater"
        ELSE t_expire' = c + e /\ pc' = "while_less"
    BY <1>1 DEF Udelay1, Expire, c
  <2>5. c = Counter(start')
    BY <2>1 DEF c
  <2> HIDE DEF e
  <2>6. Waiting1'
    <3>1. CASE Modulus - 1 - c < e
      <4>1. t_expire' <= c
        BY <1>0, <2>2, <2>3, <2>4, <3>1 DEF e
      <4>. QED
        BY <2>1, <2>4, <2>5, <3>1, <4>1 DEF Waiting1
    <3>2. CASE ~(Modulus - 1 - c < e)
      BY <2>1, <2>4, <2>5, <3>2 DEF Waiting1, e
    <3>. QED
      BY <3>1, <3>2
  <2>. QED
    BY <2>1, <2>6 DEF UdelayInv, DelayLasts1
<1>2. CASE Wait1
  <2>1. PICK g \in LoopGaps : now' = now + g
    BY <1>2 DEF Wait1, Passes
  <2>2. /\ start' = start /\ usec' = usec /\ t_expire' = t_expire
        /\ now \in Nat /\ start \in Nat /\ start <= now /\ now' \in Nat /\ start < now'
    BY <1>0, <1>2, <2>1 DEF Wait1, TypeOK, UdelayInv, Waiting1, history
  <2>3. Waiting1'
    <3>1. pc' = pc \/ pc' = "idle"
      BY <1>2 DEF Wait1
    <3>2. Counter(start') = Counter(start)
      BY <2>2 DEF Counter
    <3>. QED
      BY <2>2, <3>1, <3>2 DEF UdelayInv, Waiting1
  <2>4. ASSUME result' = "delayed", start \div Modulus = now' \div Modulus
        PROVE  now' - start >= usec * TicksPerUsec
    <3>1. now' - start = Counter(now') - Counter(start)
      BY <2>2, <2>4, SameTurn
    <3>2. Counter(now') \in 0 .. Modulus - 1 /\ Counter(start) \in 0 .. Modulus - 1
      BY <2>2, CounterType
    <3>3. usec * TicksPerUsec \in Int
      BY RateAssumption DEF TypeOK
    <3>4. ~(IF pc = "while_greater" THEN Counter(now') > t_expire ELSE Counter(now') < t_expire)
      BY <1>2, <2>4 DEF Wait1, Pending
    <3>5. CASE pc = "while_greater"
      <4>1. t_expire <= Counter(start) /\ t_expire \in Int
        BY <3>5, <1>0 DEF UdelayInv, Waiting1, TypeOK
      <4>. QED
        BY <1>0, <2>2, <3>1, <3>2, <3>4, <3>5, <4>1
    <3>6. CASE pc = "while_less"
      <4>1. t_expire = Counter(start) + usec * TicksPerUsec
        BY <3>6 DEF UdelayInv, Waiting1
      <4>. QED
        BY <1>0, <3>1, <3>2, <3>3, <3>4, <3>6, <4>1
    <3>. QED
      BY <1>2, <3>5, <3>6 DEF Wait1
  <2>. QED
    BY <2>2, <2>3, <2>4 DEF UdelayInv, DelayLasts1
<1>3. CASE EnterStage2
  BY <1>3 DEF EnterStage2, UdelayInv, Waiting1, DelayLasts1
<1>4. ASSUME NEW u \in Usecs, Udelay2(u) PROVE UdelayInv'
  BY <1>4 DEF Udelay2, Call2, UdelayInv, Waiting1, DelayLasts1
<1>5. CASE CallPoll
  BY <1>5 DEF CallPoll, Call2, UdelayInv, Waiting1, DelayLasts1
<1>6. CASE PollReady
  BY <1>6 DEF PollReady, UdelayInv, Waiting1, DelayLasts1
<1>7. ASSUME Wait2 \/ PollAgain PROVE UdelayInv'
  <2>1. stage = 2 /\ stage' = stage /\ pc' \notin {"while_greater", "while_less"}
    BY <1>7 DEF Wait2, PollAgain, Measured, Running
  <2>. QED
    BY <2>1 DEF UdelayInv, Waiting1, DelayLasts1
<1>8. CASE UNCHANGED vars
  BY <1>8 DEF vars, history, UdelayInv, Waiting1, DelayLasts1, Counter
<1>. QED
  BY <1>1, <1>2, <1>3, <1>4, <1>5, <1>6, <1>7, <1>8 DEF Next

(* No udelay is short: in stage 1 unless the counter wraps meanwhile, in   *)
(* stage 2 by a microsecond at most.                                       *)
THEOREM NoDelayIsShort == Spec => []DelaysLast
<1>1. Init => UdelayInv
  BY DEF Init, UdelayInv, Waiting1, DelayLasts1
<1>2. TimerInv /\ UdelayInv => DelaysLast
  BY DEF TimerInv, Lasted, UdelayInv, DelaysLast, DelayLasts2
<1>. QED
  BY <1>1, <1>2, TimerInvHolds, UdelayInvNext, PTL DEF Spec

(* spi_nand_poll does not give a chip up before its time. *)
THEOREM TimeoutIsNotEarly == Spec => []NoEarlyTimeout
<1>1. TimerInv => NoEarlyTimeout
  BY DEF TimerInv, Lasted, NoEarlyTimeout
<1>. QED
  BY <1>1, TimerInvHolds, PTL

(* Neither udelay nor the poll of a chip that never gets ready goes on      *)
(* after its time.                                                          *)
THEOREM WaitsAreBounded == Spec => []WaitsNoLonger
<1>1. TimerInv => WaitsNoLonger
  BY DEF TimerInv
<1>. QED
  BY <1>1, TimerInvHolds, PTL

-----------------------------------------------------------------------------
(* Quotient and rest. *)

LEMMA DivMod ==
  ASSUME NEW x \in Nat, NEW y \in Nat \ {0}
  PROVE  /\ x \div y \in Nat /\ x % y \in 0 .. y - 1
         /\ x = y * (x \div y) + (x % y)
OBVIOUS

LEMMA DivModOfSum ==
  ASSUME NEW y \in Nat \ {0}, NEW q \in Nat, NEW r \in 0 .. y - 1
  PROVE  (y * q + r) \div y = q /\ (y * q + r) % y = r
OBVIOUS

LEMMA ModBelow ==
  ASSUME NEW y \in Nat \ {0}, NEW r \in 0 .. y - 1
  PROVE  r % y = r /\ r \div y = 0
OBVIOUS

LEMMA ModSelf ==
  ASSUME NEW y \in Nat \ {0}
  PROVE  y % y = 0
OBVIOUS

LEMMA Multiple ==
  ASSUME NEW y \in Nat \ {0}, NEW q \in Nat
  PROVE  (y * q) \div y = q /\ (y * q) % y = 0
OBVIOUS

-----------------------------------------------------------------------------
(* A power of two less than another is at most its half. *)
LEMMA PowTwice ==
  ASSUME NEW m \in Nat, NEW n \in Nat, Pow2[m] < Pow2[n]
  PROVE  2 * Pow2[m] <= Pow2[n]
<1>1. Pow2[m] \in Nat /\ Pow2[n] \in Nat /\ m + 1 \in Nat
  BY PowNat
<1>2. Pow2[m + 1] = 2 * Pow2[m]
  BY PowIs
<1>3. CASE n <= m
  <2>1. n = m \/ n < m
    BY <1>3
  <2>2. CASE n < m
    <3>1. Pow2[n] < Pow2[m]
      BY <2>2, PowGrows
    <3> QED BY <1>1, <3>1
  <2> QED BY <1>1, <2>1, <2>2
<1>4. CASE n = m + 1
  BY <1>1, <1>2, <1>4
<1>5. CASE m + 1 < n
  <2>1. Pow2[m + 1] < Pow2[n]
    BY <1>1, <1>5, PowGrows
  <2> QED BY <1>1, <1>2, <2>1
<1> QED BY <1>3, <1>4, <1>5

(* From the third on they are offsets of words. *)
LEMMA PowWord ==
  ASSUME NEW n \in Nat, n >= 3
  PROVE  Pow2[n] \in Nat /\ Pow2[n] >= 8 /\ Pow2[n] % 4 = 0
<1>1. Pow2[0 + 1] = 2 * Pow2[0] /\ Pow2[1 + 1] = 2 * Pow2[1] /\ Pow2[2 + 1] = 2 * Pow2[2]
  BY PowIs
<1>2. Pow2[0] = 1 /\ 0 + 1 = 1 /\ 1 + 1 = 2 /\ 2 + 1 = 3
  BY PowIs
<1>3. Pow2[3] = 8
  BY <1>1, <1>2
<1>4. n - 3 \in Nat /\ n = 3 + (n - 3)
  OBVIOUS
<1>5. Pow2[3 + (n - 3)] = Pow2[3] * Pow2[n - 3]
  BY <1>4, PowSum
<1>6. Pow2[n - 3] \in Nat \ {0}
  BY <1>4, PowNat
<1> DEFINE x == Pow2[n - 3]
<1>7. Pow2[n] = 8 * x /\ x \in Nat \ {0}
  BY <1>3, <1>4, <1>5, <1>6
<1> HIDE DEF x
<1>8. 8 * x \in Nat /\ 8 * x >= 8 /\ (8 * x) % 4 = 0
  BY <1>7
<1> QED BY <1>7, <1>8

-----------------------------------------------------------------------------
(* The memory probe.  The place that is tried lies in the memory there is, *)
(* or at the very end of it, where it is the first word again.             *)

IsPower(x) == \E n \in Nat : n >= 3 /\ x = Pow2[n]

LEMMA Powers2 ==
  /\ Limit \in Nat /\ IsPower(Limit) /\ Base \in Nat
  /\ \A r \in RealSizes : r \in Nat /\ IsPower(r)
<1>1. IsPower(Limit)
  BY SizeAssumption DEF IsPower
<1>2. ASSUME NEW r \in RealSizes
      PROVE  r \in Nat /\ IsPower(r)
  <2>1. IsPower(r)
    BY SizeAssumption DEF IsPower
  <2> QED BY <2>1, PowWord DEF IsPower
<1> QED BY <1>1, <1>2, SizeAssumption

Found == IF real >= Limit THEN Limit ELSE real

Touched ==
  IF mem_pc \in {"write_ptr", "compare", "restore_ptr"} THEN {0, CellAt(size)}
  ELSE IF mem_pc \in {"loop", "backup_ptr", "write_base", "restore_base"} THEN {0}
  ELSE {}

IsKept ==
  /\ \A c \in Cells \ Touched : mem[c] = before[c]
  /\ mem_pc # "start" => orig_base = before[0]
  /\ mem_pc \in {"write_base", "write_ptr", "compare", "restore_ptr"} /\ CellAt(size) # 0
       => orig_ptr = before[CellAt(size)]

IsTried ==
  /\ mem_pc # "start" => addrbit \in Nat /\ addrbit >= 3
  /\ mem_pc = "loop" => Pow2[addrbit] <= real /\ Pow2[addrbit] <= Limit
  /\ mem_pc \in {"backup_ptr", "write_base", "write_ptr", "compare", "restore_ptr"} =>
       size = Pow2[addrbit] /\ size <= real /\ size < Limit
  /\ mem_pc = "write_ptr" => mem[0] = off
  /\ mem_pc = "compare" => mem[0] = IF size = real THEN - off - 1 ELSE off
  /\ mem_pc = "restore_ptr" => size < real
  /\ mem_pc \in {"restore_base", "returned"} => size = Found

IsMemory ==
  /\ real \in RealSizes /\ DOMAIN mem = Cells /\ mem = [c \in Cells |-> mem[c]]
  /\ DOMAIN before = Cells
  /\ mem_pc \in Probing \cup {"returned", "set", "pool", "table", "no_chip", "page_cache",
                              "payload", "unpack"}

ProbeInv == IsMemory /\ IsKept /\ IsTried /\ SizeIsRight

LEMMA CellTried ==
  ASSUME IsMemory, NEW n \in Nat, n >= 3, Pow2[n] <= real
  PROVE  /\ Pow2[n] \in Nat \ {0} /\ 0 \in Cells /\ CellAt(Pow2[n]) \in Cells
         /\ CellAt(Pow2[n]) = IF Pow2[n] = real THEN 0 ELSE Pow2[n]
<1>1. real \in Nat /\ real >= 8 /\ Pow2[n] \in Nat /\ Pow2[n] >= 8 /\ Pow2[n] % 4 = 0
  BY Powers2, PowWord DEF IsMemory, IsPower
<1> DEFINE x == Pow2[n]
<1> HIDE DEF x
<1>2. x \in Nat /\ x >= 8 /\ x <= real /\ x % 4 = 0
  BY <1>1 DEF x
<1>3. x % real = IF x = real THEN 0 ELSE x
  <2>1. CASE x = real
    BY <1>1, <2>1, ModSelf
  <2>2. CASE x # real
    <3>1. x \in 0 .. real - 1 /\ real \in Nat \ {0}
      BY <1>1, <1>2, <2>2
    <3> QED BY <2>2, <3>1, ModBelow
  <2> QED BY <2>1, <2>2
<1>4. 0 \in Cells
  BY <1>1 DEF Cells
<1>5. x # real => x \in Cells
  BY <1>1, <1>2 DEF Cells
<1> QED BY <1>1, <1>2, <1>3, <1>4, <1>5 DEF CellAt, x

(* The cell tried in the middle of a turn. *)
LEMMA CellNow ==
  ASSUME ProbeInv,
         mem_pc \in {"backup_ptr", "write_base", "write_ptr", "compare", "restore_ptr"}
  PROVE  /\ size \in Nat \ {0} /\ 0 \in Cells /\ CellAt(size) \in Cells
         /\ CellAt(size) = IF size = real THEN 0 ELSE size
         /\ off \in Nat
<1>1. /\ IsMemory /\ addrbit \in Nat /\ addrbit >= 3 /\ size = Pow2[addrbit]
      /\ Pow2[addrbit] <= real
  BY DEF ProbeInv, IsTried
<1>2. /\ size \in Nat \ {0} /\ 0 \in Cells /\ CellAt(size) \in Cells
      /\ CellAt(size) = IF size = real THEN 0 ELSE size
  BY <1>1, CellTried
<1> QED BY <1>2, Powers2 DEF off

LEMMA ProbeInvInit == ProbeInit => ProbeInv
<1> SUFFICES ASSUME ProbeInit PROVE ProbeInv
  OBVIOUS
<1>1. PICK v, w \in Words : mem = [c \in Cells |-> IF c = 0 THEN v ELSE w]
  BY DEF ProbeInit
<1>2. real \in RealSizes /\ mem_pc = "start" /\ before = mem
  BY DEF ProbeInit
<1>3. IsMemory
  BY <1>1, <1>2 DEF IsMemory, Probing
<1> QED BY <1>2, <1>3 DEF ProbeInv, IsKept, IsTried, SizeIsRight

LEMMA ProbeInvNext == ProbeInv /\ ProbeNext => ProbeInv'
<1> SUFFICES ASSUME ProbeInv, ProbeNext PROVE ProbeInv'
  OBVIOUS
<1>0. /\ real \in RealSizes /\ real \in Nat /\ Limit \in Nat /\ IsPower(real) /\ IsPower(Limit)
      /\ DOMAIN mem = Cells /\ DOMAIN before = Cells /\ 0 \in Cells /\ Base \in Nat
  <2>1. real \in RealSizes /\ DOMAIN mem = Cells /\ DOMAIN before = Cells
    BY DEF ProbeInv, IsMemory
  <2>2. real >= 8 /\ real \in Nat
    BY <2>1, Powers2, PowWord DEF IsPower
  <2> QED BY <2>1, <2>2, Powers2 DEF Cells
<1>1. CASE BackupBase
  <2>1. /\ mem_pc = "start" /\ mem_pc' = "loop" /\ orig_base' = mem[0] /\ addrbit' = 3
        /\ UNCHANGED <<real, mem, before, size>>
    BY <1>1 DEF BackupBase
  <2>2. Cells' = Cells
    BY <2>1 DEF Cells
  <2>3. IsMemory'
    BY <2>1, <2>2 DEF ProbeInv, IsMemory, Probing
  <2>4. \A c \in Cells : mem[c] = before[c]
    BY <2>1 DEF ProbeInv, IsKept, Touched
  <2>5. IsKept'
    BY <1>0, <2>1, <2>2, <2>4 DEF IsKept, Touched
  <2>6. Pow2[3] <= real /\ Pow2[3] <= Limit
    <3>1. ASSUME NEW n \in Nat, n >= 3 PROVE Pow2[3] <= Pow2[n]
      <4>1. CASE n = 3
        <5>1. Pow2[3] \in Nat
          BY PowNat
        <5> QED BY <4>1, <5>1
      <4>2. CASE n # 3
        <5>1. Pow2[3] < Pow2[n]
          BY <3>1, <4>2, PowGrows
        <5>2. Pow2[3] \in Nat /\ Pow2[n] \in Nat
          BY PowNat
        <5> QED BY <5>1, <5>2
      <4> QED BY <4>1, <4>2
    <3> QED BY <1>0, <3>1 DEF IsPower
  <2>7. IsTried'
    BY <2>1, <2>6 DEF IsTried
  <2>8. SizeIsRight'
    BY <2>1 DEF SizeIsRight
  <2> QED BY <2>3, <2>5, <2>7, <2>8 DEF ProbeInv
<1>2. CASE Loop
  <2>1. /\ mem_pc = "loop" /\ mem_pc' \in {"restore_base", "backup_ptr"}
        /\ UNCHANGED <<real, mem, before, addrbit, orig_base, orig_ptr>>
    BY <1>2 DEF Loop
  <2>2. Cells' = Cells
    BY <2>1 DEF Cells
  <2>3. IsMemory'
    BY <2>1, <2>2 DEF ProbeInv, IsMemory, Probing
  <2>4. \A c \in Cells \ {0} : mem[c] = before[c]
    BY <2>1 DEF ProbeInv, IsKept, Touched
  <2>5. IsKept'
    BY <1>0, <2>1, <2>2, <2>4 DEF ProbeInv, IsKept, Touched
  <2>6. addrbit \in Nat /\ addrbit >= 3 /\ Pow2[addrbit] <= real /\ Pow2[addrbit] <= Limit
    BY <2>1 DEF ProbeInv, IsTried
  <2>7. Pow2[addrbit] \in Nat
    BY <2>6, PowNat
  <2>8. IsTried'
    <3>1. CASE Pow2[addrbit] >= Limit
      <4>1. mem_pc' = "restore_base" /\ size' = Limit /\ real >= Limit
        BY <1>0, <1>2, <2>6, <2>7, <3>1 DEF Loop, ReachesLimit
      <4> QED BY <2>1, <2>6, <4>1 DEF IsTried, Found
    <3>2. CASE ~(Pow2[addrbit] >= Limit)
      <4>1. mem_pc' = "backup_ptr" /\ size' = Pow2[addrbit] /\ Pow2[addrbit] < Limit
        BY <1>0, <1>2, <2>6, <2>7, <3>2 DEF Loop, ReachesLimit
      <4> QED BY <2>1, <2>6, <4>1 DEF IsTried
    <3> QED BY <3>1, <3>2
  <2>9. SizeIsRight'
    BY <2>1 DEF SizeIsRight
  <2> QED BY <2>3, <2>5, <2>8, <2>9 DEF ProbeInv
<1>3. CASE BackupPtr
  <2>1. /\ mem_pc = "backup_ptr" /\ mem_pc' = "write_base" /\ orig_ptr' = mem[CellAt(size)]
        /\ UNCHANGED <<real, mem, before, addrbit, orig_base, size>>
    BY <1>3 DEF BackupPtr
  <2>2. Cells' = Cells /\ CellAt(size)' = CellAt(size) /\ CellAt(size) \in Cells
    BY <2>1, CellNow DEF Cells, CellAt
  <2>3. IsMemory'
    BY <2>1, <2>2 DEF ProbeInv, IsMemory, Probing
  <2>4. \A c \in Cells \ {0} : mem[c] = before[c]
    BY <2>1 DEF ProbeInv, IsKept, Touched
  <2>5. IsKept'
    BY <1>0, <2>1, <2>2, <2>4 DEF ProbeInv, IsKept, Touched
  <2>6. IsTried'
    BY <2>1 DEF ProbeInv, IsTried
  <2>7. SizeIsRight'
    BY <2>1 DEF SizeIsRight
  <2> QED BY <2>3, <2>5, <2>6, <2>7 DEF ProbeInv
<1>4. CASE WriteBase
  <2>1. /\ mem_pc = "write_base" /\ mem_pc' = "write_ptr" /\ mem' = [mem EXCEPT ![0] = off]
        /\ UNCHANGED <<real, before, addrbit, orig_base, orig_ptr, size>>
    BY <1>4 DEF WriteBase, sizing
  <2>2. Cells' = Cells /\ CellAt(size)' = CellAt(size) /\ CellAt(size) \in Cells /\ off' = off
    BY <2>1, CellNow DEF Cells, CellAt, off
  <2>3. IsMemory'
    BY <1>0, <2>1, <2>2 DEF IsMemory, Probing
  <2>4. \A c \in Cells \ {0} : mem[c] = before[c]
    BY <2>1 DEF ProbeInv, IsKept, Touched
  <2>5. IsKept'
    BY <1>0, <2>1, <2>2, <2>4 DEF ProbeInv, IsKept, Touched
  <2>6. IsTried'
    BY <1>0, <2>1, <2>2 DEF ProbeInv, IsTried
  <2>7. SizeIsRight'
    BY <2>1 DEF SizeIsRight
  <2> QED BY <2>3, <2>5, <2>6, <2>7 DEF ProbeInv
<1>5. CASE WritePtr
  <2>1. /\ mem_pc = "write_ptr" /\ mem_pc' = "compare"
        /\ mem' = [mem EXCEPT ![CellAt(size)] = - off - 1]
        /\ UNCHANGED <<real, before, addrbit, orig_base, orig_ptr, size>>
    BY <1>5 DEF WritePtr, sizing, PtrWord
  <2>2. /\ Cells' = Cells /\ CellAt(size)' = CellAt(size) /\ CellAt(size) \in Cells
        /\ off' = off /\ CellAt(size) = IF size = real THEN 0 ELSE size
        /\ size # 0
    BY <2>1, CellNow DEF Cells, CellAt, off
  <2>3. IsMemory'
    BY <1>0, <2>1, <2>2 DEF IsMemory, Probing
  <2>4. \A c \in Cells \ {0, CellAt(size)} : mem[c] = before[c]
    BY <2>1 DEF ProbeInv, IsKept, Touched
  <2>5. IsKept'
    BY <1>0, <2>1, <2>2, <2>4 DEF ProbeInv, IsKept, Touched
  <2>6. mem[0] = off
    BY <2>1 DEF ProbeInv, IsTried
  <2>7. mem'[0] = IF size = real THEN - off - 1 ELSE off
    BY <1>0, <2>1, <2>2, <2>6
  <2>8. IsTried'
    BY <2>1, <2>2, <2>7 DEF ProbeInv, IsTried
  <2>9. SizeIsRight'
    BY <2>1 DEF SizeIsRight
  <2> QED BY <2>3, <2>5, <2>8, <2>9 DEF ProbeInv
<1>6. CASE Compare
  <2>1. /\ mem_pc = "compare" /\ mem_pc' = IF mem[0] # off THEN "restore_base" ELSE "restore_ptr"
        /\ UNCHANGED <<real, mem, before, addrbit, orig_base, orig_ptr, size>>
    BY <1>6 DEF Compare
  <2>2. /\ Cells' = Cells /\ CellAt(size)' = CellAt(size) /\ CellAt(size) \in Cells
        /\ off' = off /\ CellAt(size) = IF size = real THEN 0 ELSE size
        /\ size \in Nat /\ off \in Nat
    BY <2>1, CellNow DEF Cells, CellAt, off
  <2>3. IsMemory'
    BY <2>1, <2>2 DEF ProbeInv, IsMemory, Probing
  <2>4. \A c \in Cells \ {0, CellAt(size)} : mem[c] = before[c]
    BY <2>1 DEF ProbeInv, IsKept, Touched
  <2>5. /\ size = Pow2[addrbit] /\ size <= real /\ size < Limit
        /\ mem[0] = IF size = real THEN - off - 1 ELSE off
    BY <2>1 DEF ProbeInv, IsTried
  <2>6. mem_pc' = IF size = real THEN "restore_base" ELSE "restore_ptr"
    BY <2>1, <2>2, <2>5
  <2>7. IsKept'
    BY <1>0, <2>1, <2>2, <2>4, <2>6 DEF ProbeInv, IsKept, Touched
  <2>8. IsTried'
    BY <1>0, <2>1, <2>2, <2>5, <2>6 DEF ProbeInv, IsTried, Found
  <2>9. SizeIsRight'
    BY <2>1 DEF SizeIsRight
  <2> QED BY <2>3, <2>7, <2>8, <2>9 DEF ProbeInv
<1>7. CASE RestorePtr
  <2>1. /\ mem_pc = "restore_ptr" /\ mem_pc' = "loop"
        /\ mem' = [mem EXCEPT ![CellAt(size)] = orig_ptr] /\ addrbit' = addrbit + 1
        /\ UNCHANGED <<real, before, orig_base, orig_ptr, size>>
    BY <1>7 DEF RestorePtr, PtrRestored
  <2>2. /\ Cells' = Cells /\ CellAt(size)' = CellAt(size) /\ CellAt(size) \in Cells
        /\ CellAt(size) = (IF size = real THEN 0 ELSE size) /\ size \in Nat \ {0}
    <3>1. /\ CellAt(size) \in Cells /\ size \in Nat \ {0}
          /\ CellAt(size) = IF size = real THEN 0 ELSE size
      BY <2>1, CellNow
    <3>2. Cells' = Cells /\ CellAt(size)' = CellAt(size)
      BY <2>1 DEF Cells, CellAt
    <3> QED BY <3>1, <3>2
  <2>3. IsMemory'
    BY <1>0, <2>1, <2>2 DEF IsMemory, Probing
  <2>4. \A c \in Cells \ {0, CellAt(size)} : mem[c] = before[c]
    BY <2>1 DEF ProbeInv, IsKept, Touched
  <2>5. /\ addrbit \in Nat /\ addrbit >= 3
        /\ size = Pow2[addrbit] /\ size < real /\ size < Limit
    BY <2>1 DEF ProbeInv, IsTried
  <2>6. CellAt(size) = size /\ orig_ptr = before[CellAt(size)]
    <3>1. CellAt(size) = size
      BY <1>0, <2>2, <2>5
    <3>2. CellAt(size) # 0
      BY <2>2, <3>1
    <3> QED BY <2>1, <3>1, <3>2 DEF ProbeInv, IsKept
  <2>7. IsKept'
    BY <1>0, <2>1, <2>2, <2>4, <2>6 DEF ProbeInv, IsKept, Touched
  <2>8. 2 * Pow2[addrbit] <= real /\ 2 * Pow2[addrbit] <= Limit
    BY <1>0, <2>5, PowTwice DEF IsPower
  <2>9. Pow2[addrbit + 1] = 2 * Pow2[addrbit]
    BY <2>5, PowIs
  <2>10. IsTried'
    BY <2>1, <2>5, <2>8, <2>9 DEF IsTried
  <2>11. SizeIsRight'
    BY <2>1 DEF SizeIsRight
  <2> QED BY <2>3, <2>7, <2>10, <2>11 DEF ProbeInv
<1>8. CASE RestoreBase
  <2>1. /\ mem_pc = "restore_base" /\ mem_pc' = "returned"
        /\ mem' = [mem EXCEPT ![0] = orig_base]
        /\ UNCHANGED <<real, before, orig_base, orig_ptr, addrbit, size>>
    BY <1>8 DEF RestoreBase, sizing, BaseRestored
  <2>2. Cells' = Cells /\ Found' = Found
    BY <2>1 DEF Cells, Found
  <2>3. IsMemory'
    BY <1>0, <2>1, <2>2 DEF IsMemory, Probing
  <2>4. \A c \in Cells \ {0} : mem[c] = before[c]
    BY <2>1 DEF ProbeInv, IsKept, Touched
  <2>5. orig_base = before[0]
    BY <2>1 DEF ProbeInv, IsKept
  <2>6. IsKept'
    BY <1>0, <2>1, <2>2, <2>4, <2>5 DEF IsKept, Touched
  <2>7. IsTried'
    BY <2>1, <2>2 DEF ProbeInv, IsTried
  <2>8. SizeIsRight'
    BY <2>1 DEF SizeIsRight
  <2> QED BY <2>3, <2>6, <2>7, <2>8 DEF ProbeInv
<1>9. CASE SetMeminfo
  <2>1. /\ mem_pc = "returned" /\ mem_pc' = "set"
        /\ memsize' = IF size = Limit THEN Limit - IoSize ELSE size
        /\ UNCHANGED <<real, mem, before, orig_base, orig_ptr, addrbit, size>>
    BY <1>9 DEF SetMeminfo, sizing
  <2>2. Cells' = Cells
    BY <2>1 DEF Cells
  <2>3. IsMemory'
    BY <2>1, <2>2 DEF ProbeInv, IsMemory, Probing
  <2>4. \A c \in Cells : mem[c] = before[c]
    BY <2>1 DEF ProbeInv, IsKept, Touched
  <2>5. IsKept'
    BY <1>0, <2>1, <2>2, <2>4 DEF ProbeInv, IsKept, Touched
  <2>6. IsTried'
    BY <2>1 DEF ProbeInv, IsTried
  <2>7. size = Found
    BY <2>1 DEF ProbeInv, IsTried
  <2>8. SizeIsRight'
    BY <1>0, <2>1, <2>7 DEF SizeIsRight, Found
  <2> QED BY <2>3, <2>5, <2>6, <2>8 DEF ProbeInv
<1> QED BY <1>1, <1>2, <1>3, <1>4, <1>5, <1>6, <1>7, <1>8, <1>9 DEF ProbeNext

-----------------------------------------------------------------------------
(* The pool.  As long as there was room, it goes down from the end of the  *)
(* memory that is there, and every block taken lies above its end.         *)

Top == MemBase + (IF real >= Limit THEN Limit - IoSize ELSE real)

IsAbove(bs, low) ==
  \A i \in DOMAIN bs :
    /\ bs[i].addr % Align = 0
    /\ low <= bs[i].addr /\ bs[i].addr + bs[i].size <= Top
    /\ \A j \in 1 .. i - 1 : bs[i].addr + bs[i].size <= bs[j].addr

Pooled == mem_pc \in {"pool", "table", "no_chip", "page_cache", "payload", "unpack"}

IsPooled ==
  /\ ~Pooled => blocks = <<>>
  /\ malloc_base \in Nat /\ malloc_base < Word
  /\ Pooled /\ roomy => MemBase <= malloc_base /\ malloc_base <= Top
  /\ roomy \in BOOLEAN
  /\ blocks \in Seq([addr : Nat, size : Nat])
  /\ roomy => IsAbove(blocks, malloc_base)

MemoryInv == ProbeInv /\ IsPooled

LEMMA Element ==
  ASSUME NEW S, NEW s \in Seq(S), NEW i \in DOMAIN s
  PROVE  s[i] \in S
OBVIOUS

(* A block below the others. *)
LEMMA BlockBelow ==
  ASSUME NEW bs \in Seq([addr : Nat, size : Nat]), NEW low \in Nat, IsAbove(bs, low),
         NEW low2 \in Nat, NEW n \in Nat, low2 % Align = 0, low2 + n <= low, low <= Top,
         Top \in Int
  PROVE  /\ Append(bs, [addr |-> low2, size |-> n]) \in Seq([addr : Nat, size : Nat])
         /\ IsAbove(Append(bs, [addr |-> low2, size |-> n]), low2)
<1> DEFINE blk == [addr |-> low2, size |-> n]
           more == Append(bs, blk)
<1>1. blk \in [addr : Nat, size : Nat] /\ blk.addr = low2 /\ blk.size = n
  OBVIOUS
<1> HIDE DEF blk
<1>2. /\ more \in Seq([addr : Nat, size : Nat]) /\ DOMAIN more = 1 .. Len(bs) + 1
      /\ Len(bs) \in Nat /\ DOMAIN bs = 1 .. Len(bs)
      /\ \A i \in 1 .. Len(bs) : more[i] = bs[i]
      /\ more[Len(bs) + 1] = blk
  BY <1>1
<1>3. \A i \in 1 .. Len(bs) : bs[i] \in [addr : Nat, size : Nat]
  BY <1>2, Element
<1> HIDE DEF more
<1>4. ASSUME NEW i \in DOMAIN more
      PROVE  /\ more[i].addr % Align = 0
             /\ low2 <= more[i].addr /\ more[i].addr + more[i].size <= Top
             /\ \A j \in 1 .. i - 1 : more[i].addr + more[i].size <= more[j].addr
  <2>1. CASE i \in 1 .. Len(bs)
    <3>1. /\ bs[i].addr % Align = 0
          /\ low <= bs[i].addr /\ bs[i].addr + bs[i].size <= Top
          /\ \A j \in 1 .. i - 1 : bs[i].addr + bs[i].size <= bs[j].addr
      BY <1>2, <2>1 DEF IsAbove
    <3>5. Len(bs) \in Nat
      BY <1>2
    <3>6. \A j \in 1 .. i - 1 : j \in 1 .. Len(bs)
      BY <2>1, <3>5
    <3>7. \A k \in 1 .. Len(bs) : more[k] = bs[k]
      BY <1>2
    <3>2. more[i] = bs[i] /\ \A j \in 1 .. i - 1 : more[j] = bs[j]
      BY <2>1, <3>6, <3>7, Zenon
    <3>3. bs[i].addr \in Nat
      BY <1>3, <2>1
    <3>4. low2 <= bs[i].addr
      BY <3>1, <3>3
    <3> QED BY <3>1, <3>2, <3>4
  <2>2. CASE i = Len(bs) + 1
    <3>1. more[i] = blk
      BY <1>2, <2>2
    <3>2. low2 + n <= Top
      OBVIOUS
    <3>3. ASSUME NEW j \in 1 .. i - 1
          PROVE  low2 + n <= more[j].addr
      <4>1. j \in 1 .. Len(bs) /\ more[j] = bs[j]
        BY <1>2, <2>2
      <4>2. bs[j].addr \in Nat
        BY <1>3, <4>1
      <4>3. low <= bs[j].addr
        BY <1>2, <4>1 DEF IsAbove
      <4> QED BY <4>1, <4>2, <4>3
    <3> QED BY <1>1, <3>1, <3>2, <3>3
  <2> QED BY <1>2, <2>1, <2>2
<1>5. IsAbove(more, low2)
  BY <1>4 DEF IsAbove
<1> QED BY <1>2, <1>5 DEF more, blk

(* What malloc does, from a pool that has not run out. *)
LEMMA MallocDoes ==
  ASSUME IsMemory, IsPooled, Pooled, NEW n \in Nat, Malloc(n),
         mem_pc' \in {"table", "page_cache", "payload", "unpack"}
  PROVE  IsPooled'
<1>1. /\ Word \in Nat \ {0} /\ Align \in Nat \ {0} /\ PtrSize \in Nat /\ MemBase \in Nat
      /\ Word % Align = 0
  BY PoolAssumption
<1>2. /\ malloc_base' = BaseBelow(n) /\ real' = real
      /\ blocks' = Append(blocks, [addr |-> malloc_base', size |-> n])
      /\ roomy' = (roomy /\ AtLeast(n) + Align <= malloc_base - MemBase)
  BY DEF Malloc
<1>3. AtLeast(n) \in Nat /\ n <= AtLeast(n)
  BY <1>1 DEF AtLeast
<1> DEFINE p == (malloc_base - AtLeast(n)) % Word
           q == p \div Align
           r == p % Align
<1>4. malloc_base \in Nat /\ malloc_base < Word
  BY DEF IsPooled
<1>5. p \in Nat /\ p < Word
  <2> DEFINE x == malloc_base - AtLeast(n)
  <2>1. x \in Int
    BY <1>3, <1>4
  <2> HIDE DEF x
  <2>2. x % Word \in 0 .. Word - 1
    BY <1>1, <2>1
  <2> QED BY <1>1, <2>2 DEF x
<1>6. malloc_base' = p - r
  BY <1>2 DEF BaseBelow
<1>7. q \in Nat /\ r \in 0 .. Align - 1 /\ p = Align * q + r
  <2> HIDE DEF p
  <2> QED BY <1>1, <1>5, DivMod
<1>8. malloc_base - AtLeast(n) >= 0 => p = malloc_base - AtLeast(n)
  <2> DEFINE x == malloc_base - AtLeast(n)
  <2>1. x >= 0 => x \in 0 .. Word - 1
    BY <1>1, <1>3, <1>4
  <2> HIDE DEF x
  <2>2. x >= 0 => x % Word = x
    BY <1>1, <2>1, ModBelow
  <2> QED BY <2>2 DEF x
<1> HIDE DEF p, q, r
<1>9. malloc_base' \in Nat /\ malloc_base' < Word /\ malloc_base' = Align * q
  <2>1. Align * q \in Nat
    BY <1>1, <1>7
  <2>2. p - r = Align * q
    BY <1>1, <1>7, <2>1
  <2> QED BY <1>1, <1>5, <1>6, <1>7, <2>1, <2>2
<1>10. malloc_base' % Align = 0
  BY <1>1, <1>7, <1>9, Multiple
<1>11. blocks \in Seq([addr : Nat, size : Nat]) /\ roomy \in BOOLEAN
  BY DEF IsPooled
<1>12. /\ blocks' \in Seq([addr : Nat, size : Nat])
       /\ roomy' \in BOOLEAN
  <2>1. [addr |-> malloc_base', size |-> n] \in [addr : Nat, size : Nat]
    BY <1>9
  <2>2. roomy' \in BOOLEAN
    BY <1>2, <1>11
  <2> QED BY <1>2, <1>11, <2>1, <2>2
<1>13. Top' = Top
  BY <1>2 DEF Top
<1>14. ASSUME roomy'
       PROVE  /\ MemBase <= malloc_base' /\ malloc_base' <= Top
              /\ IsAbove(blocks', malloc_base')
  <2>1. roomy /\ AtLeast(n) + Align <= malloc_base - MemBase
    BY <1>2, <1>14
  <2>2. MemBase <= malloc_base /\ malloc_base <= Top /\ IsAbove(blocks, malloc_base)
    BY <2>1 DEF IsPooled
  <2>3. /\ p = malloc_base - AtLeast(n) /\ malloc_base' <= p /\ p < malloc_base' + Align
        /\ malloc_base' + n <= malloc_base /\ MemBase <= malloc_base'
    BY <1>1, <1>3, <1>4, <1>5, <1>6, <1>7, <1>8, <2>1
  <2>4. Top \in Int
    <3>1. real \in Nat /\ Limit \in Nat /\ IoSize \in Nat /\ MemBase \in Nat
      BY Powers2, SizeAssumption, PoolAssumption DEF IsMemory
    <3> QED BY <3>1 DEF Top
  <2>5. malloc_base' <= Top
    BY <1>4, <1>9, <2>2, <2>3, <2>4
  <2> DEFINE low2 == malloc_base'
  <2>6. low2 \in Nat /\ low2 % Align = 0 /\ low2 + n <= malloc_base
    BY <1>9, <1>10, <2>3
  <2> HIDE DEF low2
  <2>7. IsAbove(Append(blocks, [addr |-> low2, size |-> n]), low2)
    BY <1>4, <1>11, <2>2, <2>4, <2>6, BlockBelow
  <2>8. IsAbove(blocks', malloc_base')
    BY <1>2, <2>7 DEF low2
  <2> QED BY <2>3, <2>5, <2>8
<1>15. roomy' => IsAbove(blocks, malloc_base)'
  BY <1>13, <1>14 DEF IsAbove
<1> QED BY <1>9, <1>12, <1>13, <1>14, <1>15 DEF IsPooled, Pooled

LEMMA MemoryInvInit == PoolInit => MemoryInv
<1> SUFFICES ASSUME PoolInit PROVE MemoryInv
  OBVIOUS
<1>1. ProbeInv
  BY ProbeInvInit DEF PoolInit
<1>2. mem_pc = "start" /\ malloc_base = 0 /\ blocks = <<>> /\ roomy = TRUE
  BY DEF PoolInit, ProbeInit
<1>3. ~Pooled
  BY <1>2 DEF Pooled
<1>4. IsAbove(blocks, malloc_base)
  BY <1>2 DEF IsAbove
<1>5. Word \in Nat \ {0}
  BY PoolAssumption
<1>6. blocks \in Seq([addr : Nat, size : Nat])
  BY <1>2
<1> QED BY <1>1, <1>2, <1>3, <1>4, <1>5, <1>6 DEF MemoryInv, IsPooled

(* In the pool's steps the memory stays. *)
LEMMA ProbeInvStays ==
  ASSUME ProbeInv, mem_pc \in {"set", "pool", "table", "page_cache", "payload"},
         UNCHANGED <<real, mem, sizing, memsize, before>>,
         mem_pc' \in {"pool", "table", "no_chip", "page_cache", "payload", "unpack"}
  PROVE  ProbeInv'
<1>1. Cells' = Cells
  BY DEF Cells
<1>2. IsMemory'
  BY <1>1 DEF ProbeInv, IsMemory
<1>3. \A c \in Cells : mem[c] = before[c]
  BY DEF ProbeInv, IsKept, Touched
<1>4. IsKept'
  BY <1>1, <1>3 DEF ProbeInv, IsKept, Touched, sizing
<1>5. IsTried'
  BY DEF ProbeInv, IsTried, sizing
<1> QED BY <1>2, <1>4, <1>5 DEF ProbeInv, SizeIsRight

LEMMA MemoryInvNext == MemoryInv /\ [PoolNext]_memvars => MemoryInv'
<1> SUFFICES ASSUME MemoryInv, [PoolNext]_memvars PROVE MemoryInv'
  OBVIOUS
<1>1. CASE Probe
  <2>1. ProbeInv'
    BY <1>1, ProbeInvNext DEF Probe, MemoryInv
  <2>2. ~Pooled /\ ~Pooled' /\ UNCHANGED pool
    BY <1>1 DEF Probe, ProbeNext, Pooled, BackupBase, Loop, BackupPtr, WriteBase, WritePtr,
       Compare, RestorePtr, RestoreBase, SetMeminfo
  <2>3. blocks = <<>> /\ blocks' = <<>> /\ roomy' = roomy /\ malloc_base' = malloc_base
    BY <2>2 DEF MemoryInv, IsPooled, pool
  <2>4. IsAbove(blocks, malloc_base)'
    BY <2>3 DEF IsAbove
  <2>5. IsPooled'
    BY <2>2, <2>3, <2>4 DEF MemoryInv, IsPooled
  <2> QED BY <2>1, <2>5 DEF MemoryInv
<1>2. CASE MallocInit
  <2>1. /\ mem_pc = "set" /\ mem_pc' = "pool" /\ malloc_base' = (MemBase + memsize) % Word
        /\ UNCHANGED <<real, mem, sizing, memsize, before, blocks, roomy>>
    BY <1>2 DEF MallocInit
  <2>2. ProbeInv'
    BY <2>1, ProbeInvStays DEF MemoryInv
  <2>3. memsize = (IF real >= Limit THEN Limit - IoSize ELSE real) /\ real \in RealSizes
    BY <2>1 DEF MemoryInv, ProbeInv, SizeIsRight, IsMemory
  <2>4. /\ real \in Nat /\ Limit \in Nat /\ IoSize \in 0 .. Limit /\ MemBase \in Nat
        /\ MemBase + Limit < Word /\ Word \in Nat \ {0}
    BY <2>3, Powers2, SizeAssumption, PoolAssumption
  <2>5. MemBase + memsize \in 0 .. Word - 1 /\ MemBase + memsize = Top
    BY <2>3, <2>4 DEF Top
  <2>6. malloc_base' = Top /\ Top \in 0 .. Word - 1 /\ MemBase <= Top
    <3> DEFINE x == MemBase + memsize
    <3>1. x \in 0 .. Word - 1
      BY <2>5
    <3> HIDE DEF x
    <3>2. x % Word = x
      BY <2>4, <3>1, ModBelow
    <3>3. MemBase <= Top
      BY <2>3, <2>4, <2>5
    <3> QED BY <2>1, <2>5, <3>2, <3>3 DEF x
  <2>7. Top' = Top
    BY <2>1 DEF Top
  <2>8. blocks = <<>> /\ blocks' = <<>> /\ roomy' \in BOOLEAN
    BY <2>1 DEF MemoryInv, IsPooled, Pooled
  <2>9. IsAbove(blocks, malloc_base)'
    BY <2>8 DEF IsAbove
  <2>10. malloc_base' \in Nat /\ malloc_base' < Word /\ malloc_base' <= Top
    BY <2>4, <2>6
  <2>11. blocks' \in Seq([addr : Nat, size : Nat])
    BY <2>8
  <2>12. IsPooled'
    BY <2>6, <2>7, <2>8, <2>9, <2>10, <2>11 DEF IsPooled
  <2> QED BY <2>2, <2>12 DEF MemoryInv
<1>3. ASSUME NEW n \in Nat, Malloc(n), mem_pc \in {"pool", "table", "page_cache", "payload"},
             mem_pc' \in {"table", "page_cache", "payload", "unpack"}
      PROVE  MemoryInv'
  <2>1. ProbeInv'
    BY <1>3, ProbeInvStays DEF MemoryInv, Malloc
  <2>2. IsPooled'
    BY <1>3, MallocDoes DEF MemoryInv, ProbeInv, Pooled
  <2> QED BY <2>1, <2>2 DEF MemoryInv
<1>4. CASE MallocTable
  <2>1. TableSize \in Nat
    BY PoolAssumption
  <2> QED BY <1>3, <1>4, <2>1 DEF MallocTable
<1>5. CASE MallocPayload
  <2>1. \A n \in PayloadSizes : n \in Nat
    BY PoolAssumption
  <2> QED BY <1>3, <1>5, <2>1 DEF MallocPayload
<1>6. CASE MallocProbs
  <2>1. \A n \in ProbsSizes : n \in Nat
    BY PoolAssumption
  <2> QED BY <1>3, <1>6, <2>1 DEF MallocProbs
<1>8. CASE MallocPageCache
  <2>1. \A n \in PageCacheSizes : n \in Nat
    BY PoolAssumption
  <2> QED BY <1>3, <1>8, <2>1 DEF MallocPageCache
<1>9. CASE UnknownChip
  <2>1. /\ mem_pc = "table" /\ mem_pc' = "no_chip"
        /\ UNCHANGED <<real, mem, sizing, memsize, before, malloc_base, blocks, roomy>>
    BY <1>9 DEF UnknownChip, pool
  <2>2. ProbeInv'
    BY <2>1, ProbeInvStays DEF MemoryInv
  <2>3. Top' = Top /\ Pooled /\ Pooled'
    BY <2>1 DEF Top, Pooled
  <2>4. IsAbove(blocks, malloc_base)' = IsAbove(blocks, malloc_base)
    BY <2>1, <2>3 DEF IsAbove
  <2>5. IsPooled'
    BY <2>1, <2>3, <2>4 DEF MemoryInv, IsPooled
  <2> QED BY <2>2, <2>5 DEF MemoryInv
<1>7. CASE UNCHANGED memvars
  <2>1. UNCHANGED <<mem_pc, real, mem, addrbit, size, orig_base, orig_ptr, memsize, before>>
    BY <1>7 DEF memvars, probe, sizing
  <2>2. UNCHANGED <<malloc_base, blocks, roomy>>
    BY <1>7 DEF memvars, pool
  <2>3. /\ Cells' = Cells /\ Found' = Found /\ CellAt(size)' = CellAt(size) /\ off' = off
        /\ Top' = Top
    BY <2>1 DEF Cells, Found, CellAt, off, Top
  <2>4. Touched' = Touched /\ Pooled' = Pooled
    BY <2>1, <2>3 DEF Touched, Pooled
  <2>5. IsAbove(blocks, malloc_base)' = IsAbove(blocks, malloc_base)
    BY <2>2, <2>3 DEF IsAbove
  <2>6. IsMemory' /\ IsKept'
    BY <2>1, <2>3, <2>4 DEF MemoryInv, ProbeInv, IsMemory, IsKept
  <2>7. IsTried' /\ SizeIsRight'
    BY <2>1, <2>3, <2>4 DEF MemoryInv, ProbeInv, IsTried, SizeIsRight
  <2>8. IsPooled'
    BY <2>2, <2>3, <2>4, <2>5 DEF MemoryInv, IsPooled
  <2> QED BY <2>6, <2>7, <2>8 DEF MemoryInv, ProbeInv
<1> QED BY <1>1, <1>2, <1>4, <1>5, <1>6, <1>7, <1>8, <1>9 DEF PoolNext

(* The probe's and the pool's invariant, for any sizes that are powers of   *)
(* two and anything the memory holds.                                      *)
THEOREM MemoryInvHolds == PoolSpec => []MemoryInv
<1> QED BY MemoryInvInit, MemoryInvNext, PTL DEF PoolSpec

LEMMA MemoryIs == MemoryInv => SizeIsRight /\ MemoryIsKept
<1>1. MemoryInv => SizeIsRight
  BY DEF MemoryInv, ProbeInv
<1>2. MemoryInv => MemoryIsKept
  BY DEF MemoryInv, ProbeInv, IsMemory, IsKept, Touched, MemoryIsKept, Probing
<1> QED BY <1>1, <1>2

(* get_mem_size finds the size there is, whatever is in the memory.        *)
THEOREM ProbeFindsTheSize == PoolSpec => []SizeIsRight
BY MemoryIs, MemoryInvHolds, PTL

(* get_mem_size leaves the memory as it was, the code that runs it too.    *)
THEOREM ProbeKeepsTheMemory == PoolSpec => []MemoryIsKept
BY MemoryIs, MemoryInvHolds, PTL

(* The blocks lie above one another, each within the memory. *)
LEMMA BlocksAre == MemoryInv => BlocksApart
<1> SUFFICES ASSUME MemoryInv, roomy, NEW i \in DOMAIN blocks
             PROVE  /\ blocks[i].addr % Align = 0
                    /\ MemBase <= blocks[i].addr
                    /\ blocks[i].addr + blocks[i].size <= Top
                    /\ \A j \in 1 .. i - 1 : blocks[i].addr + blocks[i].size <= blocks[j].addr
  BY DEF BlocksApart, Top
<1>1. IsAbove(blocks, malloc_base)
  BY DEF MemoryInv, IsPooled
<1>2. Pooled
  BY DEF MemoryInv, IsPooled
<1>3. MemBase <= malloc_base /\ malloc_base \in Nat
  BY <1>2 DEF MemoryInv, IsPooled
<1>4. malloc_base <= blocks[i].addr
  BY <1>1 DEF IsAbove
<1>5. blocks[i].addr \in Nat /\ MemBase \in Nat
  <2>1. blocks \in Seq([addr : Nat, size : Nat])
    BY DEF MemoryInv, IsPooled
  <2>2. blocks[i] \in [addr : Nat, size : Nat]
    BY <2>1, Element
  <2> QED BY <2>2, PoolAssumption
<1>6. MemBase <= blocks[i].addr
  BY <1>3, <1>4, <1>5
<1> QED BY <1>1, <1>6 DEF IsAbove

(* What malloc returns lies in memory that is there, and apart.            *)
THEOREM BlocksLieApart == PoolSpec => []BlocksApart
BY BlocksAre, MemoryInvHolds, PTL

LEMMA ProbeTypesInit == ProbeInit => ProbeInv /\ ProbeTypeOK
<1> SUFFICES ASSUME ProbeInit PROVE ProbeTypeOK
  BY ProbeInvInit
<1>1. IsMemory
  BY ProbeInvInit DEF ProbeInv
<1>2. mem_pc = "start" /\ addrbit = 0 /\ size = 0 /\ memsize = 0
  BY DEF ProbeInit
<1>3. PICK n \in 3 .. 29 : Limit = Pow2[n]
  BY SizeAssumption
<1>4. Limit \in Nat \ {0} /\ Pow2[0] = 1
  BY <1>3, PowNat, PowIs
<1> QED BY <1>1, <1>2, <1>4 DEF ProbeTypeOK, IsMemory, Probing

LEMMA ProbeInvKept ==
  ASSUME ProbeInv, UNCHANGED probe
  PROVE  ProbeInv'
<1>1. UNCHANGED <<mem_pc, real, mem, addrbit, size, orig_base, orig_ptr, memsize, before>>
  BY DEF probe, sizing
<1>2. Cells' = Cells /\ Found' = Found /\ CellAt(size)' = CellAt(size) /\ off' = off
  BY <1>1 DEF Cells, Found, CellAt, off
<1>3. Touched' = Touched
  BY <1>1, <1>2 DEF Touched
<1>4. IsMemory' /\ IsKept'
  BY <1>1, <1>2, <1>3 DEF ProbeInv, IsMemory, IsKept
<1>5. IsTried' /\ SizeIsRight'
  BY <1>1, <1>2 DEF ProbeInv, IsTried, SizeIsRight
<1> QED BY <1>4, <1>5 DEF ProbeInv

LEMMA ProbeTypesNext ==
  ProbeInv /\ ProbeTypeOK /\ [ProbeNext]_probe => ProbeInv' /\ ProbeTypeOK'
<1> SUFFICES ASSUME ProbeInv, ProbeTypeOK, [ProbeNext]_probe PROVE ProbeInv' /\ ProbeTypeOK'
  OBVIOUS
<1>1. ProbeInv'
  BY ProbeInvNext, ProbeInvKept
<1>2. IsMemory' /\ IsTried /\ IsTried'
  BY <1>1 DEF ProbeInv
<1>3. mem_pc' \in Probing \cup {"returned", "set"}
  BY DEF ProbeNext, BackupBase, Loop, BackupPtr, WriteBase, WritePtr, Compare, RestorePtr,
     RestoreBase, SetMeminfo, probe, Probing, ProbeTypeOK
<1>4. Limit \in Nat \ {0} /\ IoSize \in 0 .. Limit
  <2>1. PICK n \in 3 .. 29 : Limit = Pow2[n]
    BY SizeAssumption
  <2> QED BY <2>1, PowNat, SizeAssumption
<1>5. /\ addrbit \in Nat /\ Pow2[addrbit] < 2 * Limit /\ Pow2[addrbit] \in Nat
      /\ size \in 0 .. Limit /\ memsize \in 0 .. Limit
  BY PowNat DEF ProbeTypeOK
<1>6. addrbit' \in Nat /\ Pow2[addrbit'] < 2 * Limit
  <2>1. CASE BackupBase
    <3>1. addrbit' = 3 /\ mem_pc' = "loop"
      BY <2>1 DEF BackupBase
    <3>2. Pow2[addrbit'] <= Limit
      BY <1>2, <3>1 DEF IsTried
    <3>3. Pow2[addrbit'] \in Nat
      BY <3>1, PowNat
    <3> QED BY <1>4, <3>1, <3>2, <3>3
  <2>2. CASE RestorePtr
    <3>1. addrbit' = addrbit + 1 /\ mem_pc' = "loop"
      BY <2>2 DEF RestorePtr
    <3>2. Pow2[addrbit'] <= Limit
      BY <1>2, <3>1 DEF IsTried
    <3>3. addrbit' \in Nat /\ Pow2[addrbit'] \in Nat
      BY <1>5, <3>1, PowNat
    <3> QED BY <1>4, <3>2, <3>3
  <2>3. CASE addrbit' = addrbit
    BY <1>5, <2>3
  <2> QED BY <2>1, <2>2, <2>3 DEF ProbeNext, Loop, BackupPtr, WriteBase, WritePtr, Compare,
       RestoreBase, SetMeminfo, probe, sizing
<1>7. size' \in 0 .. Limit
  <2>1. CASE Loop
    <3>1. size' = Limit \/ (size' = Pow2[addrbit] /\ ~(Pow2[addrbit] >= Limit))
      BY <2>1 DEF Loop, ReachesLimit
    <3> QED BY <1>4, <1>5, <3>1
  <2>2. CASE size' = size
    BY <1>5, <2>2
  <2> QED BY <2>1, <2>2 DEF ProbeNext, BackupBase, BackupPtr, WriteBase, WritePtr, Compare,
       RestorePtr, RestoreBase, SetMeminfo, probe, sizing
<1>8. memsize' \in 0 .. Limit
  <2>1. CASE SetMeminfo
    <3>1. memsize' = IF size = Limit THEN Limit - IoSize ELSE size
      BY <2>1 DEF SetMeminfo
    <3> QED BY <1>4, <1>5, <3>1
  <2>2. CASE memsize' = memsize
    BY <1>5, <2>2
  <2> QED BY <2>1, <2>2 DEF ProbeNext, BackupBase, Loop, BackupPtr, WriteBase, WritePtr, Compare,
       RestorePtr, RestoreBase, probe
<1>9. ProbeTypeOK'
  BY <1>2, <1>3, <1>6, <1>7, <1>8 DEF ProbeTypeOK, IsMemory
<1> QED BY <1>1, <1>9

(* get_mem_size tries no address line past the window's end, and finds no  *)
(* more than the window holds.                                             *)
THEOREM ProbeTypes == ProbeSpec => []ProbeTypeOK
<1>1. ProbeSpec => [](ProbeInv /\ ProbeTypeOK)
  BY ProbeTypesInit, ProbeTypesNext, PTL DEF ProbeSpec
<1> QED BY <1>1, PTL

LEMMA PoolTypesNext == MemoryInv /\ MemoryInv' /\ PoolTypeOK /\ [PoolNext]_memvars => PoolTypeOK'
<1> SUFFICES ASSUME MemoryInv, MemoryInv', PoolTypeOK, [PoolNext]_memvars PROVE PoolTypeOK'
  OBVIOUS
<1>1. /\ malloc_base' \in Nat /\ malloc_base' < Word /\ roomy' \in BOOLEAN
      /\ blocks' \in Seq([addr : Nat, size : Nat]) /\ blocks \in Seq([addr : Nat, size : Nat])
  BY DEF MemoryInv, IsPooled
<1>2. Word \in Nat
  BY PoolAssumption
<1>3. malloc_base' \in 0 .. Word - 1
  BY <1>1, <1>2
<1>4. \A i \in DOMAIN blocks' : blocks'[i].size \in Nat
  <2> SUFFICES ASSUME NEW i \in DOMAIN blocks' PROVE blocks'[i].size \in Nat
    OBVIOUS
  <2>1. blocks'[i] \in [addr : Nat, size : Nat]
    BY <1>1, Element
  <2> QED BY <2>1
<1>5. \A i \in DOMAIN blocks' : blocks'[i].addr \in 0 .. Word - 1
  <2>1. CASE blocks' = blocks
    BY <2>1 DEF PoolTypeOK
  <2>2. ASSUME NEW n \in Nat, blocks' = Append(blocks, [addr |-> malloc_base', size |-> n])
        PROVE  \A i \in DOMAIN blocks' : blocks'[i].addr \in 0 .. Word - 1
    <3> DEFINE low == malloc_base'  more == blocks'
    <3>1. low \in 0 .. Word - 1 /\ more = Append(blocks, [addr |-> low, size |-> n])
      BY <1>3, <2>2
    <3> HIDE DEF low, more
    <3>2. low \in Nat /\ [addr |-> low, size |-> n] \in [addr : Nat, size : Nat]
      BY <1>2, <3>1
    <3>3. Len(more) = Len(blocks) + 1 /\ more[Len(blocks) + 1] = [addr |-> low, size |-> n]
          /\ (\A i \in 1 .. Len(blocks) : more[i] = blocks[i])
          /\ DOMAIN more = 1 .. Len(blocks) + 1
      BY <1>1, <3>1, <3>2
    <3>4. ASSUME NEW i \in DOMAIN more PROVE more[i].addr \in 0 .. Word - 1
      <4>1. CASE i = Len(blocks) + 1
        <5>1. more[i] = [addr |-> low, size |-> n]
          BY <3>3, <4>1
        <5> QED BY <3>1, <5>1
      <4>2. CASE i # Len(blocks) + 1
        <5>1. i \in DOMAIN blocks /\ more[i] = blocks[i]
          <6>1. Len(blocks) \in Nat /\ DOMAIN blocks = 1 .. Len(blocks)
            BY <1>1
          <6>2. i \in 1 .. Len(blocks)
            BY <3>3, <3>4, <4>2, <6>1
          <6> QED BY <3>3, <6>1, <6>2
        <5> QED BY <5>1 DEF PoolTypeOK
      <4> QED BY <4>1, <4>2
    <3> QED BY <3>4 DEF more
  <2>3. \A n \in Nat : Malloc(n) => blocks' = Append(blocks, [addr |-> malloc_base', size |-> n])
    BY DEF Malloc
  <2>4. /\ TableSize \in Nat /\ \A n \in PayloadSizes : n \in Nat
        /\ \A n \in ProbsSizes : n \in Nat
        /\ \A n \in PageCacheSizes : n \in Nat
    BY PoolAssumption
  <2>5. CASE \/ MallocTable \/ MallocPageCache \/ MallocPayload \/ MallocProbs
    <3>1. PICK n \in Nat : Malloc(n)
      BY <2>4, <2>5 DEF MallocTable, MallocPageCache, MallocPayload, MallocProbs
    <3> QED BY <2>2, <2>3, <3>1
  <2>6. CASE \/ Probe \/ MallocInit \/ UnknownChip \/ UNCHANGED memvars
    <3>1. blocks' = blocks
      BY <2>6 DEF Probe, MallocInit, UnknownChip, memvars, pool
    <3> QED BY <2>1, <3>1
  <2> QED BY <2>5, <2>6 DEF PoolNext
<1> QED BY <1>1, <1>3, <1>4, <1>5 DEF PoolTypeOK

(* malloc stays within the address space whether or not there is room: what *)
(* wraps below 0 comes out at the top as an address, not as an error.      *)
THEOREM PoolTypes == PoolSpec => []PoolTypeOK
<1>1. PoolInit => PoolTypeOK
  BY PoolAssumption DEF PoolInit, PoolTypeOK
<1> QED BY <1>1, PoolTypesNext, MemoryInvHolds, PTL DEF PoolSpec

-----------------------------------------------------------------------------
(* Division and shift. *)

LEMMA Assoc == \A x, y, z \in Int : x * (y * z) = (x * y) * z
OBVIOUS

LEMMA Distrib == \A x, y, z \in Int : x * (y + z) = x * y + x * z
OBVIOUS

LEMMA Swap == \A x, y \in Int : x * y = y * x /\ x * y \in Int
OBVIOUS

LEMMA NatTimes == \A x, y \in Nat : x * y \in Nat
OBVIOUS

LEMMA TimesGrows == \A x, y, z \in Nat : x <= y => x * z <= y * z
OBVIOUS

(* A quotient is known by its rest. *)
LEMMA QuotientIs ==
  ASSUME NEW x \in Nat, NEW y \in Nat \ {0}, NEW q \in Nat, NEW r \in 0 .. y - 1,
         x = y * q + r
  PROVE  x \div y = q /\ x % y = r
BY DivModOfSum

LEMMA Widths ==
  /\ Half \in Nat \ {0} /\ Full \in Nat \ {0} /\ Half <= Full
  /\ \E x \in Nat : Full = 2 * x /\ Full \div 2 = x
<1>1. Bits \in Nat /\ Bits # 0 /\ Bits - 1 \in Nat /\ (Bits - 1) + 1 = Bits
  BY BitsAssumption
<1>2. Half = 2 * Pow2[Bits - 1] /\ Pow2[Bits - 1] \in Nat \ {0}
  BY <1>1, PowIs, PowNat DEF Half
<1> DEFINE y == Pow2[Bits - 1]
<1>3. y \in Nat \ {0} /\ Half = 2 * y /\ Half \in Nat \ {0} /\ Half >= 1
  BY <1>2
<1> HIDE DEF y
<1>4. Full = Half * Half
  BY DEF Full
<1>5. Half * 1 <= Half * Half /\ Half * Half \in Nat
  BY <1>3
<1>6. (2 * y) * Half = 2 * (y * Half) /\ y * Half \in Nat
  BY <1>3
<1> DEFINE x == y * Half
<1>7. x \in Nat /\ Full = 2 * x
  BY <1>3, <1>4, <1>6
<1> HIDE DEF x
<1>8. Full \div 2 = x
  BY <1>7
<1> QED BY <1>3, <1>4, <1>5, <1>7, <1>8

AreAsked ==
  /\ num \in 0 .. Full - 1 /\ arg \in Nat
  /\ div_pc \in {"div", "reduce", "double", "subtract", "divided"} => arg \in 1 .. Half - 1
  /\ div_pc \in {"lshr", "shifted"} => arg < 2 * Bits

IsBegun ==
  div_pc = "reduce" => rem = num /\ b = arg /\ res = 0 /\ d = 1 /\ high = num \div Half

IsDoubled ==
  div_pc \in {"double", "subtract"} =>
    /\ rem \in Nat /\ res \in Nat /\ b \in Nat /\ b < Full
    /\ res * arg + rem = num /\ b = d * arg
    /\ \E k \in Nat : d = Pow2[k]

ArithInv ==
  /\ AreAsked /\ IsBegun /\ IsDoubled
  /\ div_pc = "subtract" => rem < 2 * b
  /\ div_pc = "divided" => res = num \div arg /\ ret = num % arg
  /\ ShiftsRight

LEMMA ReduceIs ==
  ASSUME num \in 0 .. Full - 1, arg \in 1 .. Half - 1, high = num \div Half, rem = num,
         high >= arg
  PROVE  LET h == high \div arg
         IN  /\ h * Half \in Nat /\ Reduced(h) \in Nat
             /\ (h * Half) * arg + Reduced(h) = num
<1> DEFINE h == high \div arg
           s == high % arg
           l == num % Half
<1>1. Half \in Nat \ {0} /\ Full \in Nat \ {0} /\ num \in Nat /\ arg \in Nat \ {0}
  BY Widths
<1>2. high \in Nat /\ l \in 0 .. Half - 1 /\ num = Half * high + l
  BY <1>1, DivMod
<1>3. h \in Nat /\ s \in 0 .. arg - 1 /\ high = arg * h + s
  BY <1>1, <1>2, DivMod
<1> HIDE DEF h, s, l
<1>4. high < Half
  <2> SUFFICES ASSUME high >= Half PROVE FALSE
    BY <1>1, <1>2
  <2>1. Half * Half <= Half * high
    BY <1>1, <1>2
  <2>2. num < Half * Half
    BY <1>1 DEF Full
  <2>3. Half * Half \in Nat /\ Half * high \in Nat
    BY <1>1, <1>2
  <2> QED BY <1>1, <1>2, <2>1, <2>2, <2>3
<1> DEFINE ha == h * arg
<1>5. ha \in Nat /\ ha = arg * h
  BY <1>1, <1>3
<1> HIDE DEF ha
<1>6. ha <= high /\ ha \in 0 .. Half - 1
  BY <1>1, <1>2, <1>3, <1>4, <1>5
<1>7. ha % Half = ha
  BY <1>1, <1>6, ModBelow
<1>8. ha * Half \in Nat /\ ha * Half <= high * Half /\ high * Half = Half * high
  BY <1>1, <1>2, <1>5, <1>6
<1> DEFINE x == num - ha * Half
<1>9. x \in 0 .. Full - 1 /\ x \in Nat
  BY <1>1, <1>2, <1>8
<1> HIDE DEF x
<1>10. x % Full = x
  BY <1>1, <1>9, ModBelow
<1>11. Reduced(h) = x
  BY <1>7, <1>10 DEF Reduced, ha, x
<1>12. (h * Half) * arg = ha * Half /\ h * Half \in Nat
  BY <1>1, <1>3 DEF ha
<1> HIDE DEF Reduced
<1>13. (h * Half) * arg + Reduced(h) = num
  BY <1>1, <1>8, <1>9, <1>11, <1>12 DEF x
<1> QED BY <1>9, <1>11, <1>12, <1>13 DEF h

(* A step of the subtraction, for a divisor doubled k times. *)
LEMMA SubtractIs ==
  ASSUME NEW k \in Nat, NEW x \in Nat, arg \in 1 .. Half - 1, NEW q \in Nat,
         x < 2 * (Pow2[k] * arg), NEW y \in Nat, NEW t \in Nat,
         IF x >= Pow2[k] * arg THEN y = x - Pow2[k] * arg /\ t = q + Pow2[k]
                               ELSE y = x /\ t = q
  PROVE  /\ t * arg + y = q * arg + x
         /\ y < Pow2[k] * arg
         /\ k = 0 => Pow2[k] \div 2 = 0 /\ Pow2[k] * arg = arg
         /\ k # 0 => /\ Pow2[k] \div 2 = Pow2[k - 1] /\ Pow2[k - 1] # 0
                     /\ (Pow2[k] * arg) \div 2 = Pow2[k - 1] * arg
                     /\ y < 2 * (Pow2[k - 1] * arg)
<1>1. arg \in Nat \ {0}
  BY Widths
<1> DEFINE e == Pow2[k]
           f == e * arg
<1>2. e \in Nat \ {0}
  BY PowNat
<1> HIDE DEF e
<1>3. f \in Nat
  BY <1>1, <1>2
<1>4. (q + e) * arg = q * arg + f
  BY <1>1, <1>2
<1>5. q * arg \in Nat
  BY <1>1
<1> HIDE DEF f
<1>6. IF x >= f THEN y = x - f /\ t = q + e ELSE y = x /\ t = q
  BY DEF e, f
<1>7. x < 2 * f
  BY DEF e, f
<1>8. t * arg + y = q * arg + x
  BY <1>3, <1>4, <1>5, <1>6
<1>9. y < f
  BY <1>3, <1>6, <1>7
<1>10. k = 0 => e \div 2 = 0 /\ f = arg
  <2> SUFFICES ASSUME k = 0 PROVE e \div 2 = 0 /\ f = arg
    OBVIOUS
  <2>1. e = 1
    BY PowIs DEF e
  <2> QED BY <1>1, <2>1 DEF f
<1>11. ASSUME k # 0
       PROVE  /\ e \div 2 = Pow2[k - 1] /\ Pow2[k - 1] # 0
              /\ f \div 2 = Pow2[k - 1] * arg
              /\ y < 2 * (Pow2[k - 1] * arg)
  <2> DEFINE g == Pow2[k - 1]
  <2>1. k - 1 \in Nat /\ (k - 1) + 1 = k
    BY <1>11
  <2>2. e = 2 * g /\ g \in Nat \ {0}
    BY <2>1, PowIs, PowNat DEF e
  <2> HIDE DEF g
  <2>3. e \div 2 = g
    BY <2>2
  <2> DEFINE ga == g * arg
  <2>4. ga \in Nat /\ f = 2 * ga
    BY <1>1, <2>2 DEF f
  <2> HIDE DEF ga
  <2>5. f \div 2 = ga /\ y < 2 * ga
    BY <1>9, <2>4
  <2> QED BY <2>2, <2>3, <2>5 DEF g, ga
<1> QED BY <1>8, <1>9, <1>10, <1>11 DEF e, f

(* Dividing twice is dividing by the product. *)
LEMMA DividedTwice ==
  ASSUME NEW x \in Nat, NEW y \in Nat \ {0}, NEW z \in Nat \ {0}
  PROVE  (x \div y) \div z = x \div (y * z)
<1> DEFINE q == x \div y  r == x % y  u == q \div z  v == q % z
<1>1. x = y * q + r /\ q \in Nat /\ r \in 0 .. y - 1
  BY DivMod
<1> HIDE DEF q, r
<1>2. q = z * u + v /\ u \in Nat /\ v \in 0 .. z - 1
  BY <1>1, DivMod
<1> HIDE DEF u, v
<1>3. y * z \in Nat \ {0}
  OBVIOUS
<1>4. x = (y * z) * u + (y * v + r)
  BY <1>1, <1>2
<1>5. y * v + r \in 0 .. y * z - 1
  <2>1. v + 1 <= z /\ v \in Nat
    BY <1>2
  <2>2. y * (v + 1) <= y * z /\ y * (v + 1) = y * v + y /\ y * v \in Nat
    BY <2>1
  <2> QED BY <1>1, <2>2
<1>6. x \div (y * z) = u
  <2> DEFINE n == y * z  w == y * v + r
  <2>1. n \in Nat \ {0} /\ x = n * u + w /\ w \in 0 .. n - 1 /\ u \in Nat
    BY <1>2, <1>3, <1>4, <1>5
  <2> HIDE DEF n, w
  <2>2. x \div n = u
    BY <2>1, QuotientIs
  <2> QED BY <2>2 DEF n
<1> QED BY <1>6 DEF u, q

(* The bits that the high half leaves to the low one. *)
LEMMA ShiftIs ==
  ASSUME num \in Nat, NEW s \in Nat, s < Bits
  PROVE  Shifted(s) = num \div Pow2[s] /\ Low \div Pow2[s] = (num % Half) \div Pow2[s]
<1> DEFINE p == Pow2[s]
           t == Pow2[Bits - s]
<1>1. Bits \in Nat /\ Bits - s \in Nat /\ s + (Bits - s) = Bits
  BY BitsAssumption
<1>2. p \in Nat \ {0} /\ t \in Nat \ {0} /\ Half = p * t
  BY <1>1, PowNat, PowSum DEF Half
<1> HIDE DEF p, t
<1> DEFINE hi == num \div Half
           lo == num % Half
           q == hi \div p
           r == hi % p
           l == lo \div p
           m == lo % p
<1>3. Half \in Nat \ {0}
  BY Widths
<1>4. hi \in Nat /\ lo \in 0 .. Half - 1 /\ num = Half * hi + lo
  BY <1>3, DivMod
<1> HIDE DEF hi, lo
<1>5. q \in Nat /\ r \in 0 .. p - 1 /\ hi = p * q + r
  BY <1>2, <1>4, DivMod
<1>6. l \in Nat /\ m \in 0 .. p - 1 /\ lo = p * l + m
  <2>1. lo \in Nat
    BY <1>3, <1>4
  <2> QED BY <1>2, <2>1, DivMod
<1> HIDE DEF q, r, l, m
<1>7. r * t \in 0 .. Half - 1
  <2>1. r + 1 <= p /\ r \in Nat
    BY <1>2, <1>5
  <2>2. (r + 1) * t <= p * t
    BY <1>2, <2>1
  <2>3. (r + 1) * t = r * t + t /\ r * t \in Nat
    BY <1>2, <2>1
  <2> QED BY <1>2, <2>2, <2>3
<1>8. hi * t = Half * q + r * t
  <2>1. (p * q + r) * t = (p * q) * t + r * t
    BY <1>2, <1>5
  <2>2. (p * q) * t = (p * t) * q
    BY <1>2, <1>5
  <2> QED BY <1>2, <1>5, <2>1, <2>2
<1>9. (hi * t) % Half = r * t
  <2> DEFINE rt == r * t
  <2>1. rt \in 0 .. Half - 1 /\ hi * t = Half * q + rt
    BY <1>7, <1>8
  <2> HIDE DEF rt
  <2>2. (Half * q + rt) % Half = rt
    BY <1>3, <1>5, <2>1, DivModOfSum
  <2> QED BY <2>1, <2>2 DEF rt
<1> DEFINE z == q * Half + r * t + l
<1>10. z \in Nat /\ num = p * z + m
  <2>1. Half * hi = Half * (p * q) + Half * r
    <3>1. Half * (p * q + r) = Half * (p * q) + Half * r
      BY <1>2, <1>3, <1>5
    <3> QED BY <1>5, <3>1
  <2>2. Half * (p * q) = p * (q * Half)
    BY <1>2, <1>3, <1>5
  <2>3. Half * r = p * (r * t)
    <3>1. (p * t) * r = p * (r * t)
      BY <1>2, <1>5
    <3> QED BY <1>2, <3>1
  <2> DEFINE x == q * Half  y == r * t
  <2>4. x \in Nat /\ y \in Nat
    BY <1>2, <1>3, <1>5, <1>7
  <2>5. Half * hi = p * x + p * y
    BY <2>1, <2>2, <2>3
  <2> HIDE DEF x, y
  <2>6. p * (x + y + l) = p * x + p * y + p * l /\ p * x \in Nat /\ p * y \in Nat /\ p * l \in Nat
    BY <1>2, <1>6, <2>4
  <2>7. num = p * (x + y + l) + m
    BY <1>2, <1>4, <1>6, <2>5, <2>6
  <2>8. x + y + l \in Nat
    BY <1>6, <2>4
  <2> QED BY <2>7, <2>8 DEF x, y
<1>11. Shifted(s) = z
  BY <1>9 DEF Shifted, High, Low, hi, lo, q, l, p, t
<1> HIDE DEF z
<1>12. num \div p = z
  BY <1>2, <1>6, <1>10, QuotientIs
<1> HIDE DEF Shifted
<1> QED BY <1>11, <1>12 DEF p, Low

LEMMA ArithInvInit == ArithInit => ArithInv
<1> SUFFICES ASSUME ArithInit PROVE ArithInv
  OBVIOUS
<1>1. /\ num \in 0 .. Full - 1
      /\ \/ div_pc = "div" /\ arg \in 1 .. Half - 1
         \/ div_pc = "lshr" /\ arg \in 0 .. 2 * Bits - 1
  BY DEF ArithInit
<1>2. Half \in Nat /\ Bits \in Nat
  BY Widths, BitsAssumption
<1>3. AreAsked
  BY <1>1, <1>2 DEF AreAsked
<1> QED BY <1>1, <1>3 DEF ArithInv, IsBegun, IsDoubled, ShiftsRight

LEMMA ArithInvNext == ArithInv /\ [ArithNext]_div => ArithInv'
<1> SUFFICES ASSUME ArithInv, [ArithNext]_div PROVE ArithInv'
  OBVIOUS
<1>0. /\ Half \in Nat \ {0} /\ Full \in Nat \ {0} /\ Bits \in Nat \ {0} /\ num \in Nat
      /\ num \in 0 .. Full - 1 /\ arg \in Nat
  BY Widths, BitsAssumption DEF ArithInv, AreAsked
<1>1. CASE Div64
  <2>1. /\ div_pc = "div" /\ div_pc' = "reduce" /\ UNCHANGED operands
        /\ rem' = num /\ b' = arg /\ res' = 0 /\ d' = 1 /\ high' = num \div Half
    BY <1>1 DEF Div64
  <2>2. num' = num /\ arg' = arg
    BY <2>1 DEF operands
  <2> QED BY <2>1, <2>2 DEF ArithInv, AreAsked, IsBegun, IsDoubled, ShiftsRight
<1>2. CASE Reduce
  <2>1. /\ div_pc = "reduce" /\ div_pc' = "double" /\ b' = b /\ d' = d
        /\ num' = num /\ arg' = arg
    BY <1>2 DEF Reduce, operands
  <2>2. /\ rem = num /\ b = arg /\ res = 0 /\ d = 1 /\ high = num \div Half
        /\ arg \in 1 .. Half - 1
    BY <2>1 DEF ArithInv, IsBegun, AreAsked
  <2>3. rem' \in Nat /\ res' \in Nat /\ res' * arg + rem' = num
    <3>1. CASE high >= arg
      <4> DEFINE h == high \div arg
      <4>1. res' = h * Half /\ rem' = Reduced(h)
        BY <1>2, <3>1 DEF Reduce
      <4> HIDE DEF Reduced
      <4>2. h * Half \in Nat /\ Reduced(h) \in Nat /\ (h * Half) * arg + Reduced(h) = num
        BY <1>0, <2>2, <3>1, ReduceIs
      <4> QED BY <4>1, <4>2
    <3>2. CASE ~(high >= arg)
      <4>1. res' = 0 /\ rem' = num
        BY <1>2, <2>2, <3>2 DEF Reduce
      <4> QED BY <1>0, <4>1
    <3> QED BY <3>1, <3>2
  <2>4. b' \in Nat /\ b' < Full /\ b' = d' * arg /\ d' = Pow2[0]
    <3>1. arg \in Nat /\ arg < Full /\ arg = 1 * arg
      BY <1>0, <2>2, Widths
    <3> QED BY <2>1, <2>2, <3>1, PowIs
  <2>5. IsDoubled'
    BY <2>1, <2>3, <2>4 DEF IsDoubled
  <2>6. AreAsked'
    BY <2>1 DEF ArithInv, AreAsked
  <2> QED BY <2>1, <2>5, <2>6 DEF ArithInv, IsBegun, ShiftsRight
<1>3. CASE Double
  <2>1. /\ div_pc = "double" /\ num' = num /\ arg' = arg /\ rem' = rem /\ res' = res
    BY <1>3 DEF Double, operands
  <2>2. /\ rem \in Nat /\ res \in Nat /\ b \in Nat /\ b < Full
        /\ res * arg + rem = num /\ b = d * arg /\ arg \in 1 .. Half - 1
    BY <2>1 DEF ArithInv, IsDoubled, AreAsked
  <2>3. PICK k \in Nat : d = Pow2[k]
    BY <2>1 DEF ArithInv, IsDoubled
  <2>4. d \in Nat \ {0} /\ k + 1 \in Nat /\ Pow2[k + 1] = 2 * d
    BY <2>3, PowIs, PowNat
  <2>5. PICK x \in Nat : Full = 2 * x /\ Full \div 2 = x
    BY Widths
  <2>6. AreAsked'
    BY <1>3, <2>1 DEF ArithInv, AreAsked, Double
  <2>7. d * arg >= d
    <3>1. d * 1 <= d * arg
      BY <2>2, <2>4, <1>0
    <3> QED BY <2>2, <2>4, <1>0, <3>1
  <2>8. CASE Doubles
    <3>1. b' = (b + b) % Full /\ d' = (d + d) % Full /\ div_pc' = div_pc
      BY <1>3, <2>8 DEF Double
    <3>2. b < x
      BY <2>5, <2>8 DEF Doubles
    <3>3. b + b \in 0 .. Full - 1 /\ d + d \in 0 .. Full - 1
      BY <2>2, <2>4, <2>5, <2>7, <3>2
    <3>4. b' = b + b /\ d' = d + d
      <4>1. (b + b) % Full = b + b
        BY <1>0, <3>3, ModBelow
      <4>2. (d + d) % Full = d + d
        BY <1>0, <3>3, ModBelow
      <4> QED BY <3>1, <4>1, <4>2
    <3>5. b' = d' * arg /\ b' \in Nat /\ b' < Full
      <4>1. (d + d) * arg = d * arg + d * arg
        BY <1>0, <2>4
      <4> QED BY <2>2, <3>3, <3>4, <4>1, <1>0
    <3>6. d' = Pow2[k + 1]
      BY <2>4, <3>4
    <3>7. IsDoubled'
      BY <2>1, <2>2, <2>4, <3>5, <3>6 DEF IsDoubled
    <3> QED BY <2>1, <2>6, <3>1, <3>7 DEF ArithInv, IsBegun, ShiftsRight
  <2>9. CASE ~Doubles
    <3>1. b' = b /\ d' = d /\ div_pc' = "subtract"
      BY <1>3, <2>9 DEF Double
    <3>2. IsDoubled'
      BY <2>1, <2>2, <2>3, <3>1 DEF IsDoubled
    <3>3. b > 0
      BY <1>0, <2>2, <2>4, <2>7
    <3>4. b >= x \/ b >= rem
      BY <2>2, <2>5, <2>9, <3>3 DEF Doubles
    <3>5. rem < Full
      <4>1. res * arg \in Nat
        BY <1>0, <2>2
      <4> QED BY <1>0, <2>2, <4>1
    <3>6. rem < 2 * b
      BY <2>2, <2>5, <3>3, <3>4, <3>5
    <3> QED BY <2>1, <2>6, <3>1, <3>2, <3>6 DEF ArithInv, IsBegun, ShiftsRight
  <2> QED BY <2>8, <2>9
<1>4. CASE Subtract
  <2>1. /\ div_pc = "subtract" /\ num' = num /\ arg' = arg
        /\ b' = b \div 2 /\ d' = d \div 2
        /\ d' # 0 => div_pc' = "subtract"
        /\ d' = 0 => div_pc' = "divided" /\ ret' = rem' % Half
    BY <1>4 DEF Subtract, operands
  <2>2. /\ rem \in Nat /\ res \in Nat /\ b \in Nat /\ b < Full /\ rem < 2 * b
        /\ res * arg + rem = num /\ b = d * arg /\ arg \in 1 .. Half - 1
    BY <2>1 DEF ArithInv, IsDoubled, AreAsked
  <2>3. PICK k \in Nat : d = Pow2[k]
    BY <2>1 DEF ArithInv, IsDoubled
  <2>4. d \in Nat
    BY <2>3, PowNat
  <2>5. IF rem >= b THEN rem' = rem - b /\ res' = res + d ELSE rem' = rem /\ res' = res
    <3>1. CASE rem >= b
      <4>1. rem' = rem - b /\ res' = (res + d) % Full
        BY <1>4, <3>1 DEF Subtract, Fits
      <4>2. (res + d) * arg = res * arg + d * arg /\ res * arg \in Nat /\ d * arg \in Nat
        BY <1>0, <2>2, <2>4
      <4>3. (res + d) * arg <= num
        BY <1>0, <2>2, <3>1, <4>2
      <4>4. (res + d) * 1 <= (res + d) * arg
        BY <1>0, <2>2, <2>4
      <4>5. res + d \in 0 .. Full - 1
        <5>1. res + d \in Nat /\ (res + d) * 1 = res + d
          BY <2>2, <2>4
        <5> QED BY <1>0, <2>2, <4>2, <4>3, <4>4, <5>1
      <4>6. (res + d) % Full = res + d
        BY <1>0, <4>5, ModBelow
      <4> QED BY <3>1, <4>1, <4>6
    <3>2. CASE ~(rem >= b)
      BY <1>4, <3>2 DEF Subtract, Fits
    <3> QED BY <3>1, <3>2
  <2>6. rem' \in Nat /\ res' \in Nat
    BY <2>2, <2>4, <2>5
  <2>7. /\ IF rem >= Pow2[k] * arg THEN rem' = rem - Pow2[k] * arg /\ res' = res + Pow2[k]
                                  ELSE rem' = rem /\ res' = res
        /\ rem < 2 * (Pow2[k] * arg)
    BY <2>2, <2>3, <2>5
  <2>8. /\ res' * arg + rem' = num
        /\ rem' < Pow2[k] * arg
        /\ k = 0 => Pow2[k] \div 2 = 0 /\ Pow2[k] * arg = arg
        /\ k # 0 => /\ Pow2[k] \div 2 = Pow2[k - 1] /\ Pow2[k - 1] # 0
                    /\ (Pow2[k] * arg) \div 2 = Pow2[k - 1] * arg
                    /\ rem' < 2 * (Pow2[k - 1] * arg)
    <3> DEFINE y == rem'  t == res'
    <3>1. y \in Nat /\ t \in Nat /\ k \in Nat /\ rem \in Nat /\ res \in Nat
      BY <2>2, <2>6
    <3>2. /\ IF rem >= Pow2[k] * arg THEN y = rem - Pow2[k] * arg /\ t = res + Pow2[k]
                                    ELSE y = rem /\ t = res
          /\ rem < 2 * (Pow2[k] * arg) /\ arg \in 1 .. Half - 1
      BY <2>2, <2>7
    <3> HIDE DEF y, t
    <3>3. /\ t * arg + y = res * arg + rem
          /\ y < Pow2[k] * arg
          /\ k = 0 => Pow2[k] \div 2 = 0 /\ Pow2[k] * arg = arg
          /\ k # 0 => /\ Pow2[k] \div 2 = Pow2[k - 1] /\ Pow2[k - 1] # 0
                      /\ (Pow2[k] * arg) \div 2 = Pow2[k - 1] * arg
                      /\ y < 2 * (Pow2[k - 1] * arg)
      BY <3>1, <3>2, SubtractIs
    <3> QED BY <2>2, <3>3 DEF y, t
  <2>9. CASE k = 0
    <3>1. d' = 0 /\ rem' < arg
      BY <2>1, <2>3, <2>8, <2>9
    <3>2. div_pc' = "divided" /\ ret' = rem' % Half
      BY <2>1, <3>1
    <3>3. rem' \in 0 .. Half - 1 /\ rem' \in 0 .. arg - 1 /\ arg \in Nat \ {0}
      BY <1>0, <2>2, <2>6, <3>1
    <3> DEFINE y == rem'  t == res'
    <3>4. y \in 0 .. Half - 1 /\ y \in 0 .. arg - 1 /\ t \in Nat /\ num = arg * t + y
      <4>1. t * arg = arg * t
        BY <1>0, <2>6
      <4> QED BY <2>6, <2>8, <3>3, <4>1
    <3> HIDE DEF y, t
    <3>5. y % Half = y
      BY <1>0, <3>4, ModBelow
    <3>6. num \div arg = t /\ num % arg = y
      BY <1>0, <3>3, <3>4, QuotientIs
    <3>7. res' = num \div arg /\ ret' = num % arg
      BY <3>2, <3>5, <3>6 DEF y, t
    <3>8. AreAsked'
      BY <2>1, <3>2 DEF ArithInv, AreAsked
    <3> QED BY <2>1, <3>2, <3>7, <3>8 DEF ArithInv, IsBegun, IsDoubled, ShiftsRight
  <2>10. CASE k # 0
    <3>1. d' = Pow2[k - 1] /\ d' # 0 /\ b' = d' * arg /\ rem' < 2 * b' /\ k - 1 \in Nat
      BY <2>1, <2>2, <2>3, <2>8, <2>10
    <3>2. b' \in Nat /\ b' < Full
      BY <1>0, <2>1, <2>2
    <3>3. div_pc' = "subtract"
      BY <2>1, <3>1
    <3>4. IsDoubled'
      BY <2>1, <2>6, <2>8, <3>1, <3>2, <3>3 DEF IsDoubled
    <3>5. AreAsked'
      BY <2>1, <3>3 DEF ArithInv, AreAsked
    <3> QED BY <2>1, <3>1, <3>3, <3>4, <3>5 DEF ArithInv, IsBegun, ShiftsRight
  <2> QED BY <2>9, <2>10
<1>5. CASE Lshr64
  <2>1. /\ div_pc = "lshr" /\ div_pc' = "shifted" /\ num' = num /\ arg' = arg
        /\ res' = IF High = 0 THEN Low \div Pow2[arg % Bits]
                  ELSE IF arg >= Bits THEN High \div Pow2[arg - Bits]
                  ELSE IF arg = 0 THEN num
                  ELSE Shifted(arg)
    BY <1>5 DEF Lshr64, operands
  <2>2. AreAsked'
    BY <2>1 DEF ArithInv, AreAsked
  <2>3. ASSUME ShiftIsDefined PROVE res' = num \div Pow2[arg]
    <3>1. CASE High = 0
      <4>3. arg \in 0 .. Bits - 1 /\ arg % Bits = arg
        BY <1>0, <2>3, <3>1, ModBelow DEF ShiftIsDefined
      <4>1. num = Half * (num \div Half) + (num % Half) /\ num % Half \in Nat
        BY <1>0, DivMod
      <4>2. num = Low
        BY <1>0, <3>1, <4>1 DEF High, Low
      <4> QED BY <2>1, <3>1, <4>2, <4>3
    <3>2. CASE High # 0 /\ arg >= Bits
      <4>1. arg - Bits \in Nat /\ Bits + (arg - Bits) = arg
        BY <1>0, <3>2
      <4>2. Pow2[Bits + (arg - Bits)] = Pow2[Bits] * Pow2[arg - Bits]
        BY <1>0, <4>1, PowSum
      <4>3. Pow2[arg - Bits] \in Nat \ {0}
        BY <4>1, PowNat
      <4> DEFINE z == Pow2[arg - Bits]
      <4>4. Pow2[arg] = Half * z /\ z \in Nat \ {0}
        BY <4>1, <4>2, <4>3 DEF Half
      <4>5. res' = (num \div Half) \div z
        BY <2>1, <3>2 DEF High
      <4> HIDE DEF z
      <4>6. (num \div Half) \div z = num \div (Half * z)
        BY <1>0, <4>4, DividedTwice
      <4> QED BY <4>4, <4>5, <4>6
    <3>3. CASE High # 0 /\ arg < Bits /\ arg = 0
      <4>1. Pow2[0] = 1 /\ num \div 1 = num
        BY <1>0, PowIs
      <4> QED BY <1>0, <2>1, <3>3, <4>1
    <3>4. CASE High # 0 /\ arg < Bits /\ arg # 0
      <4>1. Shifted(arg) = num \div Pow2[arg]
        BY <1>0, <3>4, ShiftIs
      <4>2. ~(arg >= Bits)
        BY <1>0, <3>4
      <4> HIDE DEF Shifted
      <4> QED BY <2>1, <3>4, <4>1, <4>2
    <3> QED BY <1>0, <3>1, <3>2, <3>3, <3>4
  <2>4. ShiftsRight'
    <3>1. ShiftIsDefined' = ShiftIsDefined
      BY <2>1 DEF ShiftIsDefined, High
    <3> QED BY <2>1, <2>3, <3>1 DEF ShiftsRight
  <2> QED BY <2>1, <2>2, <2>4 DEF ArithInv, IsBegun, IsDoubled
<1>6. CASE UNCHANGED div
  <2>1. UNCHANGED <<div_pc, num, arg, rem, b, res, d, high, ret>>
    BY <1>6 DEF div, operands, working
  <2> QED BY <2>1 DEF ArithInv, AreAsked, IsBegun, IsDoubled, ShiftsRight, ShiftIsDefined, High
<1> QED BY <1>1, <1>2, <1>3, <1>4, <1>5, <1>6 DEF ArithNext

(* The invariant of division and shift, for registers of any width.        *)
THEOREM ArithInvHolds == ArithSpec => []ArithInv
<1> QED BY ArithInvInit, ArithInvNext, PTL DEF ArithSpec

LEMMA ArithIs == ArithInv => DividesRight /\ ShiftsRight
BY DEF ArithInv, IsDoubled, DividesRight, Accounted

(* Quotient and rest are right, and no doubled divisor loses a bit.        *)
THEOREM DivisionIsRight == ArithSpec => []DividesRight
BY ArithIs, ArithInvHolds, PTL

(* The shift divides by the power of two, but for a number of one word     *)
(* shifted by a word or more, which __lshr64 is not made for.              *)
THEOREM ShiftIsRight == ArithSpec => []ShiftsRight
BY ArithIs, ArithInvHolds, PTL

(* Neither the quotient nor the rest exceeds what is divided. *)
LEMMA QuotientNoMore ==
  ASSUME NEW x \in Nat, NEW y \in Nat \ {0}, NEW t \in Nat, NEW r \in Nat, t * y + r = x
  PROVE  t <= x /\ r <= x
<1>1. t * 1 <= t * y /\ t * y \in Nat
  OBVIOUS
<1> QED BY <1>1

LEMMA DivNoMore ==
  ASSUME NEW x \in Nat, NEW y \in Nat \ {0}
  PROVE  x \div y \in Nat /\ x \div y <= x
<1> DEFINE q == x \div y
           r == x % y
<1>1. q \in Nat /\ r \in Nat /\ x = y * q + r
  BY DivMod
<1> HIDE DEF q, r
<1>2. q * y = y * q
  BY <1>1
<1>3. q * y + r = x
  BY <1>1, <1>2
<1>4. q <= x
  BY <1>1, <1>3, QuotientNoMore
<1> QED BY <1>1, <1>4 DEF q

LEMMA HighIsHalf ==
  ASSUME num \in 0 .. Full - 1
  PROVE  num \div Half \in 0 .. Half - 1
<1>1. Half \in Nat \ {0} /\ num \in Nat /\ num < Half * Half
  BY Widths DEF Full
<1> DEFINE q == num \div Half
           r == num % Half
<1>2. q \in Nat /\ r \in Nat /\ num = Half * q + r
  <2>1. Half \in Nat \ {0} /\ num \in Nat
    BY <1>1
  <2> HIDE DEF Half
  <2>2. q \in Nat /\ r \in 0 .. Half - 1 /\ num = Half * q + r
    BY <2>1, DivMod
  <2> QED BY <2>1, <2>2
<1> HIDE DEF q, r
<1>3. ~(q >= Half)
  <2> SUFFICES ASSUME q >= Half PROVE FALSE
    OBVIOUS
  <2>1. Half * Half <= Half * q /\ Half * q \in Nat /\ Half * Half \in Nat
    BY <1>1, <1>2
  <2> QED BY <1>1, <1>2, <2>1
<1> QED BY <1>1, <1>2, <1>3 DEF q

(* A count below twice a word's width is less than any word of that width. *)
LEMMA CountsFit == 2 * Bits <= Half
<1>1. Bits \in Nat \ {0} /\ Bits - 1 \in Nat /\ (Bits - 1) + 1 = Bits
  BY BitsAssumption
<1>2. Half = 2 * Pow2[Bits - 1]
  BY <1>1, PowIs DEF Half
<1>3. Pow2[Bits - 1] \in Nat /\ Bits - 1 < Pow2[Bits - 1]
  BY <1>1, PowerGrows DEF Pow2
<1> QED BY <1>1, <1>2, <1>3

LEMMA ArithTypesInit == ArithInit => ArithTypeOK
<1> SUFFICES ASSUME ArithInit PROVE ArithTypeOK
  OBVIOUS
<1>1. Half \in Nat \ {0} /\ Full \in Nat \ {0} /\ Bits \in Nat /\ 2 * Bits <= Half
  BY Widths, BitsAssumption, CountsFit
<1> QED BY <1>1 DEF ArithInit, ArithTypeOK

LEMMA ArithTypesNext == ArithTypeOK /\ ArithInv /\ ArithInv' /\ [ArithNext]_div => ArithTypeOK'
<1> SUFFICES ASSUME ArithTypeOK, ArithInv, ArithInv', [ArithNext]_div PROVE ArithTypeOK'
  OBVIOUS
<1>0. /\ Half \in Nat \ {0} /\ Full \in Nat \ {0} /\ Half <= Full /\ Full >= 2
      /\ num \in Nat /\ num \in 0 .. Full - 1 /\ arg \in Nat /\ arg \in 0 .. Half - 1
  BY Widths DEF ArithTypeOK
<1>1. CASE Div64
  <2>1. num \div Half \in 0 .. Half - 1
    BY <1>0, HighIsHalf
  <2>2. /\ div_pc' = "reduce" /\ num' = num /\ arg' = arg /\ ret' = ret
        /\ rem' = num /\ b' = arg /\ res' = 0 /\ d' = 1 /\ high' = num \div Half
    BY <1>1 DEF Div64, operands
  <2>3. b' \in 0 .. Full - 1 /\ d' \in 0 .. Full - 1 /\ res' \in 0 .. Full - 1
    BY <1>0, <2>2
  <2> QED BY <1>0, <2>1, <2>2, <2>3 DEF ArithTypeOK
<1>2. CASE Reduce
  <2>1. /\ div_pc = "reduce" /\ div_pc' = "double" /\ b' = b /\ d' = d
        /\ num' = num /\ arg' = arg /\ ret' = ret
    BY <1>2 DEF Reduce, operands
  <2>2. arg \in Nat \ {0}
    BY <1>0, <2>1 DEF ArithInv, AreAsked
  <2>3. rem' \in Nat /\ res' \in Nat /\ res' * arg + rem' = num
    BY <2>1 DEF ArithInv, IsDoubled
  <2>4. rem' <= num /\ res' <= num
    <3> DEFINE y == rem'  t == res'
    <3>1. y \in Nat /\ t \in Nat /\ t * arg + y = num
      BY <2>3
    <3> HIDE DEF y, t
    <3>2. t <= num /\ y <= num
      BY <1>0, <2>2, <3>1, QuotientNoMore
    <3> QED BY <3>2 DEF y, t
  <2>5. high' \in 0 .. Half - 1
    <3>1. high \in 0 .. Half - 1
      BY DEF ArithTypeOK
    <3>2. high' = high \/ high' = high \div arg
      BY <1>2 DEF Reduce
    <3>3. high \div arg \in Nat /\ high \div arg <= high
      BY <1>0, <2>2, <3>1, DivNoMore
    <3> QED BY <1>0, <3>1, <3>2, <3>3
  <2>6. rem' \in 0 .. Full - 1 /\ res' \in 0 .. Full - 1
    BY <1>0, <2>3, <2>4
  <2> QED BY <2>1, <2>5, <2>6 DEF ArithTypeOK
<1>3. CASE Double
  <2>1. /\ div_pc = "double" /\ div_pc' \in {"double", "subtract"} /\ UNCHANGED <<num, arg, rem, res, high, ret>>
    BY <1>3 DEF Double, operands
  <2>2. b' = b \/ b' = (b + b) % Full
    BY <1>3 DEF Double
  <2>3. d' = d \/ d' = (d + d) % Full
    BY <1>3 DEF Double
  <2>4. b \in 0 .. Full - 1 /\ d \in 0 .. Full - 1
    BY DEF ArithTypeOK
  <2>5. (b + b) % Full \in 0 .. Full - 1 /\ (d + d) % Full \in 0 .. Full - 1
    <3>1. b + b \in Nat /\ d + d \in Nat
      BY <1>0, <2>4
    <3> QED BY <1>0, <3>1, DivMod
  <2>6. b' \in 0 .. Full - 1 /\ d' \in 0 .. Full - 1
    BY <2>2, <2>3, <2>4, <2>5
  <2> QED BY <2>1, <2>6 DEF ArithTypeOK
<1>4. CASE Subtract
  <2>1. /\ div_pc = "subtract" /\ div_pc' \in {"subtract", "divided"}
        /\ UNCHANGED <<num, arg, high>> /\ b' = b \div 2 /\ d' = d \div 2
        /\ ret' = ret \/ ret' = rem' % Half
        /\ (rem' = rem /\ res' = res) \/ (rem >= b /\ rem' = rem - b /\ res' = (res + d) % Full)
    BY <1>4 DEF Subtract, operands, Fits
  <2>2. /\ b \in 0 .. Full - 1 /\ d \in 0 .. Full - 1 /\ rem \in 0 .. Full - 1
        /\ res \in 0 .. Full - 1 /\ ret \in 0 .. Half - 1
    BY DEF ArithTypeOK
  <2>3. b' \in 0 .. Full - 1 /\ d' \in 0 .. Full - 1
    BY <1>0, <2>1, <2>2
  <2>4. rem' \in 0 .. Full - 1
    BY <1>0, <2>1, <2>2
  <2>5. res' \in 0 .. Full - 1
    <3>1. res + d \in Nat
      BY <1>0, <2>2
    <3>2. (res + d) % Full \in 0 .. Full - 1
      BY <1>0, <3>1, DivMod
    <3> QED BY <2>1, <2>2, <3>2
  <2>6. ret' \in 0 .. Half - 1
    <3> DEFINE y == rem'
    <3>1. y \in Nat
      BY <1>0, <2>4
    <3> HIDE DEF y
    <3>2. y % Half \in 0 .. Half - 1
      BY <1>0, <3>1, DivMod
    <3> QED BY <2>1, <2>2, <3>2 DEF y
  <2> QED BY <2>1, <2>3, <2>4, <2>5, <2>6 DEF ArithTypeOK
<1>5. CASE Lshr64
  <2>1. /\ div_pc' = "shifted" /\ UNCHANGED <<num, arg, rem, b, d, high, ret>>
        /\ High = 0 => res' = Low \div Pow2[arg % Bits]
    BY <1>5 DEF Lshr64, operands
  <2>2. ASSUME ~ShiftIsDefined PROVE res' \in 0 .. Full - 1
    <3>1. High = 0 /\ Low \in 0 .. Half - 1 /\ arg % Bits \in Nat
      BY <1>0, <2>2, BitsAssumption, DivMod DEF ShiftIsDefined, Low
    <3>2. Low \div Pow2[arg % Bits] \in Nat /\ Low \div Pow2[arg % Bits] <= Low
      BY <1>0, <3>1, PowNat, DivNoMore
    <3> QED BY <1>0, <2>1, <3>1, <3>2, Widths
  <2>3. ASSUME ShiftIsDefined PROVE res' \in 0 .. Full - 1
    <3>1. ShiftIsDefined'
      BY <2>1, <2>3 DEF ShiftIsDefined, High
    <3>2. res' = num \div Pow2[arg]
      BY <2>1, <3>1 DEF ArithInv, ShiftsRight
    <3>3. num \div Pow2[arg] \in Nat /\ num \div Pow2[arg] <= num
      BY <1>0, PowNat, DivNoMore
    <3> QED BY <1>0, <3>2, <3>3
  <2>4. res' \in 0 .. Full - 1
    BY <2>2, <2>3
  <2> QED BY <2>1, <2>4 DEF ArithTypeOK
<1>6. CASE UNCHANGED div
  BY <1>6 DEF div, operands, working, ArithTypeOK
<1> QED BY <1>1, <1>2, <1>3, <1>4, <1>5, <1>6 DEF ArithNext

(* Every register of the division and the shift keeps to its width, the    *)
(* doubled divisor and the quotient that is put together included.         *)
THEOREM ArithTypes == ArithSpec => []ArithTypeOK
BY ArithTypesInit, ArithTypesNext, ArithInvHolds, PTL DEF ArithSpec

-----------------------------------------------------------------------------
(* The SPI master.  What has been sent and what was returned grow by the   *)
(* bytes that the chunk under way has moved.                               *)

UpTo(n)   == [k \in 1 .. n |-> k]
DownTo(n) == [k \in 1 .. n |-> - k]

LEMMA SentNext ==
  ASSUME NEW s \in Seq(Int), s = UpTo(Len(s))
  PROVE  /\ Append(s, Len(s) + 1) \in Seq(Int)
         /\ Append(s, Len(s) + 1) = UpTo(Len(Append(s, Len(s) + 1)))
         /\ Len(Append(s, Len(s) + 1)) = Len(s) + 1
<1> DEFINE t == Append(s, Len(s) + 1)
<1>1. /\ Len(s) \in Nat /\ t \in Seq(Int) /\ Len(t) = Len(s) + 1
      /\ \A k \in 1 .. Len(s) : t[k] = s[k]
      /\ t[Len(s) + 1] = Len(s) + 1
      /\ t = [k \in 1 .. Len(t) |-> t[k]]
  OBVIOUS
<1> HIDE DEF t
<1>2. \A k \in 1 .. Len(s) : s[k] = k
  BY DEF UpTo
<1>3. \A k \in 1 .. Len(t) : t[k] = k
  BY <1>1, <1>2
<1>4. t = UpTo(Len(t))
  BY <1>1, <1>3 DEF UpTo
<1> QED BY <1>1, <1>4 DEF t

AnswerOf(u, n, x) == \A k \in 1 .. n : u[k] = - (x + k)

LEMMA ReadNext ==
  ASSUME NEW s \in Seq(Int), s = DownTo(Len(s)), NEW n \in Nat, NEW u \in Seq(Int),
         Len(u) = n, AnswerOf(u, n, Len(s))
  PROVE  /\ s \o u \in Seq(Int) /\ s \o u = DownTo(Len(s \o u)) /\ Len(s \o u) = Len(s) + n
<1> DEFINE t == s \o u
<1>1. /\ Len(s) \in Nat /\ t \in Seq(Int) /\ Len(t) = Len(s) + n
      /\ t = [k \in 1 .. Len(t) |-> t[k]]
      /\ \A k \in 1 .. Len(t) : t[k] = IF k <= Len(s) THEN s[k] ELSE u[k - Len(s)]
  <2>1. Len(s) \in Nat /\ t \in Seq(Int) /\ Len(t) = Len(s) + n
    OBVIOUS
  <2>2. \A k \in 1 .. Len(s) + n : t[k] = IF k <= Len(s) THEN s[k] ELSE u[k - Len(s)]
    OBVIOUS
  <2> HIDE DEF t
  <2>3. t = [k \in 1 .. Len(t) |-> t[k]]
    BY <2>1
  <2> QED BY <2>1, <2>2, <2>3
<1> HIDE DEF t
<1>2. \A k \in 1 .. Len(s) : s[k] = - k
  BY DEF DownTo
<1>3. ASSUME NEW k \in 1 .. Len(t)
      PROVE  t[k] = - k
  <2>1. CASE k <= Len(s)
    BY <1>1, <1>2, <2>1
  <2>2. CASE ~(k <= Len(s))
    <3>1. k - Len(s) \in 1 .. n
      BY <1>1, <2>2
    <3>2. u[k - Len(s)] = - (Len(s) + (k - Len(s)))
      BY <3>1 DEF AnswerOf
    <3>3. - (Len(s) + (k - Len(s))) = - k
      BY <1>1
    <3> QED BY <1>1, <2>2, <3>2, <3>3
  <2> QED BY <2>1, <2>2
<1>4. t = DownTo(Len(t))
  BY <1>1, <1>3 DEF DownTo
<1> QED BY <1>1, <1>4 DEF t

Quiet == spi_pc \in {"idle", "write", "read"} => busy = FALSE

IsSent ==
  /\ wire = UpTo(Len(wire))
  /\ spi_pc \in {"write", "write_wait"} => len <= written
  /\ spi_pc \in {"idle", "read", "read_wait"} => Len(wire) = written
  /\ spi_pc = "write" => Len(wire) = written - len
  /\ spi_pc = "write_wait" => Len(wire) = written - len + moved

IsReturned ==
  /\ buf = DownTo(Len(buf))
  /\ spi_pc \in {"idle", "write", "write_wait"} => Len(buf) = asked
  /\ spi_pc \in {"read", "read_wait"} => len <= asked /\ Len(buf) = asked - len

IsWriting ==
  spi_pc = "write_wait" =>
    /\ chunk \in 1 .. len /\ chunk = cmd_cnt + mosi_cnt /\ miso_cnt = 0
    /\ moved <= chunk /\ (busy = TRUE <=> moved < chunk)
    /\ \A s \in 0 .. cmd_cnt - 1 : op_addr[s] = written - len + cmd_cnt - s
    /\ \A j \in 0 .. mosi_cnt - 1 : dido[j] = written - len + 1 + cmd_cnt + j

IsReading ==
  spi_pc = "read_wait" =>
    /\ chunk \in 1 .. len /\ cmd_cnt = 0 /\ mosi_cnt = 0 /\ miso_cnt = chunk
    /\ moved <= chunk /\ (busy = TRUE <=> moved < chunk)
    /\ \A j \in 0 .. moved - 1 : dido[j] = - (Len(buf) + j + 1)

SpiInv == SpiTypeOK /\ Quiet /\ IsSent /\ IsReturned /\ IsWriting /\ IsReading

LEMMA SpiInvInit == SpiInit => SpiInv
<1> SUFFICES ASSUME SpiInit PROVE SpiInv
  OBVIOUS
<1>1. /\ spi_pc = "idle" /\ cs = FALSE /\ len = 0 /\ chunk = 0
      /\ op_addr = [s \in OpBytes |-> 0] /\ dido = [j \in DidoBytes |-> 0]
      /\ cmd_cnt = 0 /\ mosi_cnt = 0 /\ miso_cnt = 0 /\ busy = FALSE /\ moved = 0
      /\ wire = <<>> /\ buf = <<>> /\ written = 0 /\ asked = 0
  BY DEF SpiInit
<1>2. WordBytes \in Nat /\ FifoBytes \in Nat
  BY LengthAssumption
<1>3. <<>> \in Seq(Int) /\ Len(<<>>) = 0
  OBVIOUS
<1>4. <<>> = UpTo(0) /\ <<>> = DownTo(0)
  BY DEF UpTo, DownTo
<1>5. SpiTypeOK
  <2>1. op_addr \in [OpBytes -> Int] /\ dido \in [DidoBytes -> Int]
    BY <1>1
  <2>2. wire \in Seq(Int) /\ buf \in Seq(Int)
    BY <1>1, <1>3
  <2>3. cs \in BOOLEAN /\ busy \in BOOLEAN
    BY <1>1
  <2>4. /\ spi_pc = "idle" /\ len \in Nat /\ chunk \in Nat /\ moved \in Nat
        /\ written \in Nat /\ asked \in Nat /\ cmd_cnt \in 0 .. WordBytes
        /\ mosi_cnt \in 0 .. FifoBytes /\ miso_cnt \in 0 .. FifoBytes
    BY <1>1, <1>2
  <2> QED BY <2>1, <2>2, <2>3, <2>4 DEF SpiTypeOK
<1> QED BY <1>1, <1>3, <1>4, <1>5 DEF SpiInv, Quiet, IsSent, IsReturned, IsWriting, IsReading

LEMMA ControllerKeeps == SpiInv /\ Controller => SpiInv'
<1> SUFFICES ASSUME SpiInv, Controller PROVE SpiInv'
  OBVIOUS
<1>1. /\ busy = TRUE /\ moved' = moved + 1 /\ busy' = (moved' < cmd_cnt + mosi_cnt + miso_cnt)
      /\ UNCHANGED <<spi_pc, cs, len, chunk, op_addr, cmd_cnt, mosi_cnt, miso_cnt, buf,
                     written, asked>>
  BY DEF Controller, registers, counts, sofar, SpiInv, SpiTypeOK
<1>2. /\ spi_pc \in {"write_wait", "read_wait"} /\ moved \in Nat /\ len \in Nat
      /\ written \in Nat /\ cmd_cnt \in 0 .. WordBytes /\ mosi_cnt \in 0 .. FifoBytes
      /\ miso_cnt \in 0 .. FifoBytes /\ WordBytes \in Nat /\ FifoBytes \in Nat
      /\ wire \in Seq(Int) /\ dido \in [DidoBytes -> Int] /\ Len(buf) \in Nat
  BY <1>1, LengthAssumption DEF SpiInv, SpiTypeOK, Quiet
<1>3. CASE spi_pc = "write_wait"
  <2>1. /\ chunk \in 1 .. len /\ chunk = cmd_cnt + mosi_cnt /\ miso_cnt = 0
        /\ moved < chunk
        /\ \A s \in 0 .. cmd_cnt - 1 : op_addr[s] = written - len + cmd_cnt - s
        /\ \A j \in 0 .. mosi_cnt - 1 : dido[j] = written - len + 1 + cmd_cnt + j
        /\ wire = UpTo(Len(wire)) /\ Len(wire) = written - len + moved
    BY <1>1, <1>3 DEF SpiInv, IsWriting, IsSent
  <2>2. dido' = dido /\ wire' = Append(wire, Len(wire) + 1)
    <3>1. CASE moved < cmd_cnt
      <4>1. cmd_cnt - 1 - moved \in 0 .. cmd_cnt - 1
        BY <1>2, <3>1
      <4>2. op_addr[cmd_cnt - 1 - moved] = written - len + cmd_cnt - (cmd_cnt - 1 - moved)
        BY <2>1, <4>1
      <4>3. op_addr[cmd_cnt - 1 - moved] = Len(wire) + 1
        BY <1>2, <2>1, <4>2
      <4>4. wire' = Append(wire, op_addr[cmd_cnt - 1 - moved]) /\ dido' = dido
        BY <1>2, <2>1, <3>1 DEF Controller
      <4> QED BY <4>3, <4>4
    <3>2. CASE ~(moved < cmd_cnt)
      <4>1. moved - cmd_cnt \in 0 .. mosi_cnt - 1
        BY <1>2, <2>1, <3>2
      <4>2. dido[moved - cmd_cnt] = written - len + 1 + cmd_cnt + (moved - cmd_cnt)
        BY <2>1, <4>1
      <4>3. dido[moved - cmd_cnt] = Len(wire) + 1
        BY <1>2, <2>1, <4>2
      <4>4. wire' = Append(wire, dido[moved - cmd_cnt]) /\ dido' = dido
        BY <1>2, <2>1, <3>2 DEF Controller
      <4> QED BY <4>3, <4>4
    <3> QED BY <3>1, <3>2
  <2>3. wire' \in Seq(Int) /\ wire' = UpTo(Len(wire')) /\ Len(wire') = Len(wire) + 1
    BY <1>2, <2>1, <2>2, SentNext
  <2>4. SpiTypeOK'
    BY <1>1, <1>2, <2>2, <2>3 DEF SpiInv, SpiTypeOK
  <2>5. Len(wire') = written - len + moved'
    BY <1>1, <1>2, <2>1, <2>3
  <2>6. IsSent'
    BY <1>1, <1>3, <2>1, <2>3, <2>5 DEF SpiInv, IsSent
  <2>7. moved' <= chunk /\ (busy' = TRUE <=> moved' < chunk)
    <3>1. moved' <= chunk /\ cmd_cnt + mosi_cnt + miso_cnt = chunk
      BY <1>1, <1>2, <2>1
    <3>2. busy' = (moved' < chunk)
      BY <1>1, <3>1
    <3> QED BY <3>1, <3>2
  <2>8. IsWriting'
    BY <1>1, <2>1, <2>2, <2>7 DEF IsWriting
  <2> QED BY <1>1, <1>3, <2>4, <2>6, <2>8 DEF SpiInv, Quiet, IsReturned, IsReading
<1>4. CASE spi_pc = "read_wait"
  <2>1. /\ chunk \in 1 .. len /\ cmd_cnt = 0 /\ mosi_cnt = 0 /\ miso_cnt = chunk
        /\ moved < chunk
        /\ \A j \in 0 .. moved - 1 : dido[j] = - (Len(buf) + j + 1)
    BY <1>1, <1>4 DEF SpiInv, IsReading
  <2>2. /\ dido' = [dido EXCEPT ![moved] = - (Len(buf) + moved + 1)] /\ wire' = wire
    <3>1. moved - cmd_cnt - mosi_cnt = moved
      BY <1>2, <2>1
    <3>2. Len(buf) + moved + 1 - cmd_cnt - mosi_cnt = Len(buf) + moved + 1
      BY <1>2, <2>1
    <3>3. ~(moved < cmd_cnt) /\ ~(moved < cmd_cnt + mosi_cnt)
      BY <1>2, <2>1
    <3>4. /\ dido' = [dido EXCEPT ![moved - cmd_cnt - mosi_cnt] =
                        - (Len(buf) + moved + 1 - cmd_cnt - mosi_cnt)]
          /\ wire' = wire
      BY <3>3 DEF Controller
    <3> QED BY <3>1, <3>2, <3>4
  <2>3. moved \in DidoBytes /\ - (Len(buf) + moved + 1) \in Int
    BY <1>2, <2>1 DEF DidoBytes
  <2>4. dido' \in [DidoBytes -> Int]
    BY <1>2, <2>2, <2>3
  <2>5. SpiTypeOK'
    BY <1>1, <1>2, <2>2, <2>4 DEF SpiInv, SpiTypeOK
  <2>6. ASSUME NEW j \in 0 .. moved
        PROVE  dido'[j] = - (Len(buf) + j + 1)
    <3>1. j \in DidoBytes
      BY <1>2, <2>3 DEF DidoBytes
    <3>2. CASE j = moved
      BY <1>2, <2>2, <2>3, <3>2
    <3>3. CASE j # moved
      <4>1. j \in 0 .. moved - 1
        BY <1>2, <3>3
      <4> QED BY <1>2, <2>1, <2>2, <3>1, <3>3, <4>1
    <3> QED BY <3>2, <3>3
  <2>7. moved' <= chunk /\ (busy' = TRUE <=> moved' < chunk) /\ moved' - 1 = moved
    <3>1. moved' <= chunk /\ cmd_cnt + mosi_cnt + miso_cnt = chunk /\ moved' - 1 = moved
      BY <1>1, <1>2, <2>1
    <3>2. busy' = (moved' < chunk)
      BY <1>1, <3>1
    <3> QED BY <3>1, <3>2
  <2>8. IsReading'
    BY <1>1, <2>1, <2>6, <2>7 DEF IsReading
  <2> QED BY <1>1, <1>4, <2>2, <2>5, <2>8 DEF SpiInv, Quiet, IsSent, IsReturned, IsWriting
<1> QED BY <1>2, <1>3, <1>4

(* A chunk to be sent, and what the opcode register has of it. *)
OpcodeOf(o, x, k) == \A s \in 0 .. k - 1 : o[s] = x + k - 1 - s

LEMMA ChunkOut ==
  ASSUME NEW n \in Nat \ {0}, NEW k \in Nat, NEW f \in Nat \ {0}, NEW x \in Int,
         k = Min(TxLen(n), WordBytes), f = TxLen(n), NEW o, o = Opcode(x, k)
  PROVE  /\ f \in 1 .. n /\ k \in 0 .. WordBytes /\ f - k \in 0 .. FifoBytes /\ k <= f
         /\ o \in [OpBytes -> Int]
         /\ OpcodeOf(o, x, k)
<1>1. WordBytes \in Nat \ {0} /\ FifoBytes \in Nat \ {0}
  BY LengthAssumption
<1>2. f = IF n < FifoBytes + WordBytes THEN n ELSE FifoBytes + WordBytes
  BY DEF TxLen, Min
<1>3. k = IF f < WordBytes THEN f ELSE WordBytes
  BY DEF TxLen, Min
<1>4. f \in 1 .. n /\ k \in 0 .. WordBytes /\ f - k \in 0 .. FifoBytes /\ k <= f
  BY <1>1, <1>2, <1>3
<1>5. o \in [OpBytes -> Int]
  <2>1. \A s \in OpBytes : (IF s < k THEN x + k - 1 - s ELSE 0) \in Int
    BY <1>1 DEF OpBytes
  <2> QED BY <2>1 DEF Opcode
<1>6. ASSUME NEW s \in 0 .. k - 1
      PROVE  o[s] = x + k - 1 - s
  <2>1. s \in OpBytes /\ s < k
    BY <1>1, <1>4 DEF OpBytes
  <2> QED BY <2>1 DEF Opcode
<1> QED BY <1>4, <1>5, <1>6 DEF OpcodeOf

LEMMA WriteChunkKeeps == SpiInv /\ WriteChunk => SpiInv'
<1> SUFFICES ASSUME SpiInv, WriteChunk PROVE SpiInv'
  OBVIOUS
<1> DEFINE x == written - len + 1
           k == Min(TxLen(len), WordBytes)
           f == TxLen(len)
           m == f - k
<1>1. /\ spi_pc = "write" /\ len # 0 /\ spi_pc' = "write_wait"
      /\ chunk' = f /\ op_addr' = Opcode(x, k) /\ dido' = DataOut(x + k, m)
      /\ cmd_cnt' = k /\ mosi_cnt' = m /\ miso_cnt' = 0
      /\ busy' = TRUE /\ moved' = 0
      /\ UNCHANGED <<cs, len, wire, buf, written, asked>>
  BY DEF WriteChunk, Start, sofar
<1>2. /\ len \in Nat \ {0} /\ written \in Nat /\ dido \in [DidoBytes -> Int]
      /\ WordBytes \in Nat \ {0} /\ FifoBytes \in Nat \ {0}
  BY <1>1, LengthAssumption DEF SpiInv, SpiTypeOK
<1>3. f \in Nat \ {0} /\ k \in Nat /\ x \in Int
  BY <1>2 DEF TxLen, Min
<1>4. k = Min(TxLen(len), WordBytes) /\ f = TxLen(len)
  OBVIOUS
<1> HIDE DEF k, f
<1> DEFINE o == Opcode(x, k)
<1>5. /\ f \in 1 .. len /\ k \in 0 .. WordBytes /\ m \in 0 .. FifoBytes /\ k <= f
      /\ o \in [OpBytes -> Int]
      /\ \A s \in 0 .. k - 1 : o[s] = x + k - 1 - s
  <2> HIDE DEF x
  <2>1. o = Opcode(x, k)
    OBVIOUS
  <2> HIDE DEF o
  <2>2. f \in 1 .. len /\ k \in 0 .. WordBytes /\ f - k \in 0 .. FifoBytes /\ k <= f
    BY <1>2, <1>3, <1>4, <2>1, ChunkOut
  <2>3. o \in [OpBytes -> Int]
    BY <1>2, <1>3, <1>4, <2>1, ChunkOut
  <2>4. OpcodeOf(o, x, k)
    BY <1>2, <1>3, <1>4, <2>1, ChunkOut
  <2>5. \A s \in 0 .. k - 1 : o[s] = x + k - 1 - s
    BY <2>4 DEF OpcodeOf
  <2> QED BY <2>2, <2>3, <2>5
<1>6. m \in Nat /\ f = k + m
  BY <1>3, <1>5
<1> HIDE DEF m
<1>7. DataOut(x + k, m) \in [DidoBytes -> Int]
  <2> DEFINE z == x + k
  <2>1. z \in Int
    BY <1>3
  <2> HIDE DEF z
  <2>2. \A j \in DidoBytes : j \in Int /\ dido[j] \in Int
    BY <1>2 DEF DidoBytes
  <2>3. DataOut(z, m) \in [DidoBytes -> Int]
    BY <2>1, <2>2 DEF DataOut
  <2> QED BY <2>3 DEF z
<1>8. ASSUME NEW j \in 0 .. m - 1
      PROVE  DataOut(x + k, m)[j] = x + k + j
  <2>1. j \in DidoBytes /\ j < m
    BY <1>2, <1>5, <1>6 DEF DidoBytes
  <2> QED BY <2>1 DEF DataOut
<1>9. SpiTypeOK'
  <2>1. busy' \in BOOLEAN
    BY <1>1
  <2>2. /\ chunk' \in Nat /\ cmd_cnt' \in 0 .. WordBytes /\ mosi_cnt' \in 0 .. FifoBytes
        /\ miso_cnt' \in 0 .. FifoBytes /\ moved' \in Nat
    BY <1>1, <1>2, <1>5, <1>3
  <2>3. op_addr' \in [OpBytes -> Int] /\ dido' \in [DidoBytes -> Int]
    BY <1>1, <1>5, <1>7
  <2> QED BY <1>1, <2>1, <2>2, <2>3 DEF SpiInv, SpiTypeOK
<1>10. len <= written /\ Len(wire) = written - len
  BY <1>1 DEF SpiInv, IsSent
<1>11. IsSent'
  BY <1>1, <1>2, <1>10 DEF SpiInv, IsSent
<1>12. ASSUME NEW s \in 0 .. k - 1
       PROVE  op_addr'[s] = written - len + k - s
  <2>1. op_addr'[s] = x + k - 1 - s
    BY <1>1, <1>5
  <2> QED BY <1>2, <1>3, <2>1
<1>13. ASSUME NEW j \in 0 .. m - 1
       PROVE  dido'[j] = written - len + 1 + k + j
  BY <1>1, <1>8
<1>14. chunk' \in 1 .. len /\ chunk' = k + m /\ moved' <= chunk' /\ (busy' = TRUE <=> moved' < chunk')
  <2>1. chunk' \in 1 .. len /\ moved' < chunk'
    BY <1>1, <1>2, <1>5
  <2> QED BY <1>1, <1>6, <2>1
<1>15. IsWriting'
  BY <1>1, <1>12, <1>13, <1>14 DEF IsWriting
<1> QED BY <1>1, <1>9, <1>11, <1>15 DEF SpiInv, Quiet, IsReturned, IsReading

LEMMA SpiInvNext == SpiInv /\ [SpiNext]_spi => SpiInv'
<1> SUFFICES ASSUME SpiInv, [SpiNext]_spi PROVE SpiInv'
  OBVIOUS
<1>0. /\ len \in Nat /\ written \in Nat /\ asked \in Nat /\ chunk \in Nat /\ moved \in Nat
      /\ wire \in Seq(Int) /\ buf \in Seq(Int) /\ busy \in BOOLEAN /\ cs \in BOOLEAN
      /\ dido \in [DidoBytes -> Int]
      /\ WordBytes \in Nat \ {0} /\ FifoBytes \in Nat \ {0}
  BY LengthAssumption DEF SpiInv, SpiTypeOK
<1>1. CASE Enable
  <2>1. /\ spi_pc = "idle" /\ spi_pc' = "idle" /\ cs' = TRUE /\ wire' = <<>> /\ buf' = <<>>
        /\ written' = 0 /\ asked' = 0
        /\ UNCHANGED <<len, chunk, op_addr, cmd_cnt, mosi_cnt, miso_cnt, dido, busy, moved>>
    BY <1>1 DEF Enable, registers, counts
  <2>2. wire' \in Seq(Int) /\ buf' \in Seq(Int) /\ Len(wire') = 0 /\ Len(buf') = 0
    BY <2>1
  <2>3. <<>> = UpTo(0) /\ <<>> = DownTo(0)
    BY DEF UpTo, DownTo
  <2>4. cs' \in BOOLEAN
    BY <2>1
  <2>5. SpiTypeOK'
    BY <2>1, <2>2, <2>4 DEF SpiInv, SpiTypeOK
  <2>6. IsSent' /\ IsReturned'
    BY <2>1, <2>2, <2>3 DEF IsSent, IsReturned
  <2> QED BY <2>1, <2>5, <2>6 DEF SpiInv, Quiet, IsWriting, IsReading
<1>2. ASSUME NEW n \in WriteLens, CallWrite(n) PROVE SpiInv'
  <2>1. /\ spi_pc = "idle" /\ written = 0 /\ asked = 0 /\ spi_pc' = "write" /\ len' = n
        /\ written' = n
        /\ UNCHANGED <<cs, chunk, op_addr, cmd_cnt, mosi_cnt, miso_cnt, dido, busy, moved,
                       wire, buf, asked>>
    BY <1>2 DEF CallWrite, registers, counts
  <2>2. n \in Nat /\ n - n = 0
    BY LengthAssumption
  <2>3. SpiTypeOK'
    BY <2>1, <2>2 DEF SpiInv, SpiTypeOK
  <2>4. IsSent' /\ IsReturned'
    BY <2>1, <2>2 DEF SpiInv, IsSent, IsReturned
  <2> QED BY <2>1, <2>3, <2>4 DEF SpiInv, Quiet, IsWriting, IsReading
<1>3. ASSUME NEW n \in ReadLens, CallRead(n) PROVE SpiInv'
  <2>1. /\ spi_pc = "idle" /\ asked = 0 /\ spi_pc' = "read" /\ len' = n /\ asked' = n
        /\ UNCHANGED <<cs, chunk, op_addr, cmd_cnt, mosi_cnt, miso_cnt, dido, busy, moved,
                       wire, buf, written>>
    BY <1>3 DEF CallRead, registers, counts
  <2>2. n \in Nat /\ n - n = 0 /\ n <= n
    BY LengthAssumption
  <2>3. SpiTypeOK'
    BY <2>1, <2>2 DEF SpiInv, SpiTypeOK
  <2>4. IsSent' /\ IsReturned'
    BY <2>1, <2>2 DEF SpiInv, IsSent, IsReturned
  <2> QED BY <2>1, <2>3, <2>4 DEF SpiInv, Quiet, IsWriting, IsReading
<1>4. CASE Disable
  <2>1. /\ spi_pc = "idle" /\ spi_pc' = "idle" /\ cs' = FALSE
        /\ UNCHANGED <<len, chunk, op_addr, cmd_cnt, mosi_cnt, miso_cnt, dido, busy, moved,
                       wire, buf, written, asked>>
    BY <1>4 DEF Disable, registers, counts, sofar
  <2>2. cs' \in BOOLEAN
    BY <2>1
  <2>3. SpiTypeOK'
    BY <2>1, <2>2 DEF SpiInv, SpiTypeOK
  <2> QED BY <2>1, <2>3 DEF SpiInv, Quiet, IsSent, IsReturned, IsWriting, IsReading
<1>5. CASE ReadChunk
  <2>1. /\ spi_pc = "read" /\ spi_pc' = "read_wait" /\ len # 0
        /\ chunk' = Min(len, FifoBytes) /\ cmd_cnt' = 0 /\ mosi_cnt' = 0 /\ miso_cnt' = chunk'
        /\ busy' = TRUE /\ moved' = 0
        /\ UNCHANGED <<cs, len, op_addr, dido, wire, buf, written, asked>>
    BY <1>5 DEF ReadChunk, Start, sofar
  <2>2. chunk' \in 1 .. len /\ chunk' \in 0 .. FifoBytes /\ moved' < chunk'
    BY <1>0, <2>1 DEF Min
  <2>3. SpiTypeOK'
    <3>1. busy' \in BOOLEAN
      BY <2>1
    <3>2. /\ chunk' \in Nat /\ cmd_cnt' \in 0 .. WordBytes /\ mosi_cnt' \in 0 .. FifoBytes
          /\ miso_cnt' \in 0 .. FifoBytes /\ moved' \in Nat
      BY <1>0, <2>1, <2>2
    <3> QED BY <2>1, <3>1, <3>2 DEF SpiInv, SpiTypeOK
  <2>4. moved' <= chunk' /\ (busy' = TRUE <=> moved' < chunk') /\ 0 .. moved' - 1 = {}
    <3>1. 0 .. moved' - 1 = {}
      BY <2>1
    <3> QED BY <1>0, <2>1, <2>2, <3>1
  <2>5. IsReading'
    BY <2>1, <2>2, <2>4 DEF IsReading
  <2> QED BY <2>1, <2>3, <2>5 DEF SpiInv, Quiet, IsSent, IsReturned, IsWriting
<1>6. CASE WriteDone
  <2>1. /\ spi_pc = "write_wait" /\ spi_pc' = "write" /\ busy = FALSE /\ len' = len - chunk
        /\ UNCHANGED <<cs, chunk, op_addr, cmd_cnt, mosi_cnt, miso_cnt, dido, busy, moved,
                       wire, buf, written, asked>>
    BY <1>0, <1>6 DEF WriteDone, Done, registers, counts, sofar
  <2>2. /\ chunk \in 1 .. len /\ moved <= chunk /\ (busy = TRUE <=> moved < chunk) /\ len <= written
        /\ Len(wire) = written - len + moved
    BY <2>1 DEF SpiInv, IsWriting, IsSent
  <2>3. moved = chunk
    BY <1>0, <2>1, <2>2
  <2>4. len' \in Nat /\ len' <= written /\ Len(wire) = written - len'
    BY <1>0, <2>1, <2>2, <2>3
  <2>5. SpiTypeOK'
    BY <2>1, <2>4 DEF SpiInv, SpiTypeOK
  <2> QED BY <2>1, <2>4, <2>5 DEF SpiInv, Quiet, IsSent, IsReturned, IsWriting, IsReading
<1>7. CASE ReadDone
  <2>1. /\ spi_pc = "read_wait" /\ spi_pc' = "read" /\ busy = FALSE /\ len' = len - chunk
        /\ buf' = buf \o DataIn(chunk)
        /\ UNCHANGED <<cs, chunk, op_addr, cmd_cnt, mosi_cnt, miso_cnt, dido, busy, moved,
                       wire, written, asked>>
    BY <1>0, <1>7 DEF ReadDone, Done, registers, counts, sofar
  <2>2. /\ chunk \in 1 .. len /\ moved <= chunk /\ (busy = TRUE <=> moved < chunk) /\ len <= asked
        /\ Len(buf) = asked - len /\ buf = DownTo(Len(buf)) /\ chunk \in 0 .. FifoBytes
        /\ \A j \in 0 .. moved - 1 : dido[j] = - (Len(buf) + j + 1)
    BY <2>1 DEF SpiInv, SpiTypeOK, IsReading, IsReturned
  <2>3. moved = chunk
    BY <1>0, <2>1, <2>2
  <2> DEFINE u == DataIn(chunk)
  <2>4. ASSUME NEW k \in 1 .. chunk
        PROVE  u[k] = - (Len(buf) + k) /\ u[k] \in Int
    <3>1. k - 1 \in 0 .. moved - 1 /\ k - 1 \in DidoBytes
      BY <1>0, <2>2, <2>3 DEF DidoBytes
    <3>2. u[k] = dido[k - 1]
      BY DEF DataIn
    <3>3. dido[k - 1] = - (Len(buf) + (k - 1) + 1)
      BY <2>2, <3>1
    <3> HIDE DEF u
    <3> QED BY <1>0, <3>2, <3>3
  <2>5. u \in Seq(Int) /\ Len(u) = chunk
    <3>1. u = [k \in 1 .. chunk |-> u[k]]
      BY DEF DataIn
    <3> HIDE DEF u
    <3>2. \A k \in 1 .. chunk : u[k] \in Int
      BY <2>4
    <3>3. u \in [1 .. chunk -> Int]
      BY <3>1, <3>2
    <3> QED BY <1>0, <3>3
  <2> HIDE DEF u
  <2>6. buf \o u \in Seq(Int) /\ buf \o u = DownTo(Len(buf \o u)) /\ Len(buf \o u) = Len(buf) + chunk
    <3>1. AnswerOf(u, chunk, Len(buf))
      BY <2>4 DEF AnswerOf
    <3>2. chunk \in Nat /\ buf \in Seq(Int) /\ buf = DownTo(Len(buf))
      BY <1>0, <2>2
    <3> QED BY <2>5, <3>1, <3>2, ReadNext
  <2>7. buf' \in Seq(Int) /\ buf' = DownTo(Len(buf')) /\ Len(buf') = Len(buf) + chunk
    BY <2>1, <2>6 DEF u
  <2>8. len' \in Nat /\ len' <= asked /\ Len(buf') = asked - len'
    BY <1>0, <2>1, <2>2, <2>7
  <2>9. SpiTypeOK'
    BY <2>1, <2>7, <2>8 DEF SpiInv, SpiTypeOK
  <2>10. IsReturned'
    BY <2>1, <2>7, <2>8 DEF IsReturned
  <2> QED BY <2>1, <2>9, <2>10 DEF SpiInv, Quiet, IsSent, IsWriting, IsReading
<1>8. CASE Return
  <2>1. /\ spi_pc \in {"write", "read"} /\ spi_pc' = "idle" /\ len = 0
        /\ UNCHANGED <<cs, len, chunk, op_addr, cmd_cnt, mosi_cnt, miso_cnt, dido, busy,
                       moved, wire, buf, written, asked>>
    BY <1>8 DEF Return, registers, counts, sofar
  <2>2. Len(wire) = written /\ Len(buf) = asked
    BY <1>0, <2>1 DEF SpiInv, IsSent, IsReturned
  <2>3. SpiTypeOK'
    BY <2>1 DEF SpiInv, SpiTypeOK
  <2>4. IsSent' /\ IsReturned'
    BY <2>1, <2>2 DEF SpiInv, IsSent, IsReturned
  <2> QED BY <2>1, <2>3, <2>4 DEF SpiInv, Quiet, IsWriting, IsReading
<1>9. CASE UNCHANGED spi
  <2>1. UNCHANGED <<spi_pc, cs, len, chunk, op_addr, cmd_cnt, mosi_cnt, miso_cnt, dido, busy,
                    moved, wire, buf, written, asked>>
    BY <1>9 DEF spi, registers, counts, sofar
  <2>2. SpiTypeOK'
    BY <2>1 DEF SpiInv, SpiTypeOK
  <2> QED BY <2>1, <2>2 DEF SpiInv, Quiet, IsSent, IsReturned, IsWriting, IsReading
<1> QED BY <1>1, <1>2, <1>3, <1>4, <1>5, <1>6, <1>7, <1>8, <1>9, ControllerKeeps,
           WriteChunkKeeps DEF SpiNext, Driver

(* The invariant of a transfer, for registers of any size and any lengths. *)
THEOREM SpiInvHolds == SpiSpec => []SpiInv
<1> QED BY SpiInvInit, SpiInvNext, PTL DEF SpiSpec

(* spi_write and spi_read keep their variables in range.                   *)
THEOREM SpiTypes == SpiSpec => []SpiTypeOK
<1>1. SpiInv => SpiTypeOK
  BY DEF SpiInv
<1> QED BY <1>1, SpiInvHolds, PTL

(* What has gone either way is what there was to be sent and to be had. *)
LEMMA TransfersAre == SpiInv => TransfersAreRight
<1> SUFFICES ASSUME SpiInv PROVE TransfersAreRight
  OBVIOUS
<1>1. /\ wire \in Seq(Int) /\ len \in Nat /\ written \in Nat /\ moved \in Nat
      /\ spi_pc \in {"idle", "write", "write_wait", "read", "read_wait"}
  BY DEF SpiInv, SpiTypeOK
<1>2. Len(wire) <= written
  <2>1. CASE spi_pc = "write"
    BY <1>1, <2>1 DEF SpiInv, IsSent
  <2>2. CASE spi_pc = "write_wait"
    <3>1. Len(wire) = written - len + moved /\ moved <= chunk /\ chunk \in 1 .. len
      BY <2>2 DEF SpiInv, IsSent, IsWriting
    <3> QED BY <1>1, <3>1
  <2>3. CASE spi_pc \in {"idle", "read", "read_wait"}
    BY <1>1, <2>3 DEF SpiInv, IsSent
  <2> QED BY <1>1, <2>1, <2>2, <2>3
<1>3. SendsTheBuffer
  BY <1>2 DEF SpiInv, IsSent, SendsTheBuffer, UpTo
<1>4. ReadsTheAnswer
  BY DEF SpiInv, IsReturned, ReadsTheAnswer, DownTo
<1> QED BY <1>3, <1>4 DEF TransfersAreRight

(* The chip is sent the buffer and the caller given its answer, cut into   *)
(* chunks wherever the registers end.                                      *)
THEOREM TransfersMoveTheBytes == SpiSpec => []TransfersAreRight
BY TransfersAre, SpiInvHolds, PTL

(* A busy controller runs on its own. *)
LEMMA ControllerStays == SpiInv /\ [SpiNext]_spi => [busy => UNCHANGED <<registers, cs>>]_spi
<1> SUFFICES ASSUME SpiInv, SpiNext, busy PROVE UNCHANGED <<registers, cs>>
  OBVIOUS
<1>1. spi_pc \in {"write_wait", "read_wait"}
  BY DEF SpiInv, SpiTypeOK, Quiet
<1>2. Controller
  BY <1>1 DEF SpiNext, Driver, Enable, Disable, CallWrite, CallRead, WriteChunk, ReadChunk,
     WriteDone, ReadDone, Return, Done
<1> QED BY <1>2 DEF Controller

(* The driver touches no register that the controller is working from.     *)
THEOREM ControllerIsLeftAlone == SpiSpec => LeavesTheControllerAlone
BY ControllerStays, SpiInvHolds, PTL DEF SpiSpec, LeavesTheControllerAlone

-----------------------------------------------------------------------------
(* The checksum.  A function defined by recursion over 0 .. n exists: g[k] *)
(* makes the k-th value of the one before.                                 *)

LEMMA RecursionExists ==
  ASSUME NEW S, NEW a \in S, NEW n \in Nat, NEW g \in [1 .. n -> [S -> S]]
  PROVE  \E f \in [0 .. n -> S] : f[0] = a /\ \A k \in 1 .. n : f[k] = g[k][f[k - 1]]
<1> DEFINE Good(f, m) == f \in [0 .. m -> S] /\ f[0] = a /\ \A k \in 1 .. m : f[k] = g[k][f[k - 1]]
           T == {m \in Nat : m <= n => \E f : Good(f, m)}
<1>1. 0 \in T
  <2> DEFINE f == [k \in 0 .. 0 |-> a]
  <2>1. f \in [0 .. 0 -> S] /\ f[0] = a /\ 1 .. 0 = {}
    OBVIOUS
  <2>2. Good(f, 0)
    BY <2>1
  <2> QED BY <2>2
<1>2. ASSUME NEW m \in Nat, m \in T
      PROVE  m + 1 \in T
  <2> SUFFICES ASSUME m + 1 <= n PROVE \E f : Good(f, m + 1)
    OBVIOUS
  <2>1. PICK f : Good(f, m)
    BY <1>2
  <2> DEFINE h == [k \in 0 .. m + 1 |-> IF k = m + 1 THEN g[m + 1][f[m]] ELSE f[k]]
  <2>2. f[m] \in S /\ m + 1 \in 1 .. n
    BY <2>1
  <2>3. g[m + 1] \in [S -> S]
    BY <2>2
  <2>4. g[m + 1][f[m]] \in S
    BY <2>2, <2>3
  <2>5. ASSUME NEW k \in 0 .. m + 1
        PROVE  h[k] \in S
    <3>1. CASE k = m + 1
      BY <2>4, <3>1
    <3>2. CASE k # m + 1
      <4>1. k \in 0 .. m
        BY <3>2
      <4> QED BY <2>1, <3>2, <4>1
    <3> QED BY <3>1, <3>2
  <2>6. h \in [0 .. m + 1 -> S]
    BY <2>5
  <2>7. h[0] = a
    BY <2>1
  <2>8. ASSUME NEW k \in 1 .. m + 1
        PROVE  h[k] = g[k][h[k - 1]]
    <3>1. k - 1 \in 0 .. m + 1 /\ k - 1 # m + 1 /\ k \in 0 .. m + 1
      OBVIOUS
    <3>2. h[k - 1] = f[k - 1]
      BY <3>1
    <3>3. CASE k = m + 1
      BY <3>2, <3>3
    <3>4. CASE k # m + 1
      <4>1. k \in 1 .. m
        BY <3>4
      <4>2. h[k] = f[k]
        BY <3>1, <3>4
      <4> QED BY <2>1, <3>2, <4>1, <4>2
    <3> QED BY <3>3, <3>4
  <2> HIDE DEF h
  <2> QED BY <2>6, <2>7, <2>8
<1> HIDE DEF T
<1>3. Nat \subseteq T
  BY <1>1, <1>2, SetInduction
<1>4. n \in T /\ n <= n
  BY <1>3
<1>5. \E f : Good(f, n)
  BY <1>4 DEF T
<1> QED BY <1>5

(* Places and words. *)
LEMMA Places ==
  /\ ByteBits \in Nat \ {0} /\ SumBits \in Nat /\ Byte \subseteq Ones
  /\ 0 \in Byte /\ Poly \in SUBSET Ones
  /\ \A i \in Ones : i \in Nat
<1>1. ByteBits \in Nat \ {0} /\ SumBits \in Nat /\ SumBits >= ByteBits
      /\ Powers \subseteq 0 .. SumBits - 1
  BY SumAssumption
<1>2. Byte \subseteq Ones /\ 0 \in Byte /\ \A i \in Ones : i \in Nat
  BY <1>1 DEF Byte, Ones
<1>3. Poly \in SUBSET Ones
  BY <1>1 DEF Poly, Ones
<1> QED BY <1>1, <1>2, <1>3

LEMMA XorIn ==
  ASSUME NEW c, NEW e
  PROVE  \A i : i \in Xor(c, e) <=> ~(i \in c <=> i \in e)
BY DEF Xor

LEMMA XorWords ==
  ASSUME NEW c \in SUBSET Ones, NEW e \in SUBSET Ones
  PROVE  Xor(c, e) \in SUBSET Ones
BY DEF Xor

LEMMA ShiftIn ==
  ASSUME NEW c \in SUBSET Ones, NEW n \in Nat
  PROVE  /\ ShiftRight(c, n) \in SUBSET Ones
         /\ \A i \in Ones : i \in ShiftRight(c, n) <=> i + n \in c
<1>1. SumBits \in Nat /\ \A i \in c : i \in 0 .. SumBits - 1
  BY Places DEF Ones
<1>2. ASSUME NEW i \in ShiftRight(c, n)
      PROVE  i \in Ones /\ i + n \in c
  <2>1. PICK j \in c : j >= n /\ i = j - n
    BY DEF ShiftRight
  <2>2. j \in 0 .. SumBits - 1
    BY <1>1
  <2>3. i \in 0 .. SumBits - 1 /\ i + n = j
    BY <1>1, <2>1, <2>2
  <2> QED BY <2>1, <2>3 DEF Ones
<1>3. ASSUME NEW i \in Ones, i + n \in c
      PROVE  i \in ShiftRight(c, n)
  <2>1. i \in Nat
    BY Places
  <2>2. i + n >= n /\ (i + n) - n = i
    BY <2>1
  <2> QED BY <1>3, <2>2 DEF ShiftRight
<1> QED BY <1>2, <1>3

LEMMA StepWord ==
  ASSUME NEW c \in SUBSET Ones
  PROVE  Step(c) \in SUBSET Ones
<1>1. ShiftRight(c, 1) \in SUBSET Ones
  BY ShiftIn
<1> QED BY <1>1, Places, XorWords DEF Step

LEMMA StepIn ==
  ASSUME NEW c \in SUBSET Ones, NEW i \in Ones
  PROVE  i \in Step(c) <=> ~((i + 1 \in c) <=> (0 \in c /\ i \in Poly))
<1>1. i \in ShiftRight(c, 1) <=> i + 1 \in c
  BY ShiftIn
<1>2. CASE 0 \in c
  <2>1. Step(c) = Xor(Poly, ShiftRight(c, 1))
    BY <1>2 DEF Step
  <2>2. i \in Xor(Poly, ShiftRight(c, 1)) <=> ~(i \in Poly <=> i \in ShiftRight(c, 1))
    BY XorIn
  <2> QED BY <1>1, <1>2, <2>1, <2>2
<1>3. CASE 0 \notin c
  BY <1>1, <1>3 DEF Step
<1> QED BY <1>2, <1>3

(* A step is linear, and only shifts what has no bit at the low end. *)
LEMMA StepXor ==
  ASSUME NEW c \in SUBSET Ones, NEW e \in SUBSET Ones, 0 \notin e
  PROVE  Step(Xor(c, e)) = Xor(Step(c), ShiftRight(e, 1))
<1> DEFINE x == Xor(c, e)
           y == Xor(Step(c), ShiftRight(e, 1))
<1>1. x \in SUBSET Ones
  BY XorWords
<1>2. Step(c) \in SUBSET Ones /\ ShiftRight(e, 1) \in SUBSET Ones
  BY StepWord, ShiftIn
<1>3. Step(x) \in SUBSET Ones /\ y \in SUBSET Ones
  <2>1. y \in SUBSET Ones
    BY <1>2, XorWords
  <2> HIDE DEF x
  <2> QED BY <1>1, <2>1, StepWord
<1>4. ASSUME NEW i \in Ones
      PROVE  i \in Step(x) <=> i \in y
  <2>1. i \in y <=> ~(i \in Step(c) <=> i \in ShiftRight(e, 1))
    BY XorIn
  <2>2. i \in ShiftRight(e, 1) <=> i + 1 \in e
    BY ShiftIn
  <2>3. i \in Step(c) <=> ~((i + 1 \in c) <=> (0 \in c /\ i \in Poly))
    BY StepIn
  <2>4. (i + 1 \in x <=> ~(i + 1 \in c <=> i + 1 \in e)) /\ (0 \in x <=> 0 \in c)
    BY XorIn
  <2> HIDE DEF x, y
  <2>5. i \in Step(x) <=> ~((i + 1 \in x) <=> (0 \in x /\ i \in Poly))
    BY <1>1, StepIn
  <2> QED BY <2>1, <2>2, <2>3, <2>4, <2>5
<1> HIDE DEF x, y
<1>5. Step(x) = y
  BY <1>3, <1>4
<1> QED BY <1>5 DEF x, y

(* The table's entries. *)
LEMMA StepsAre ==
  ASSUME NEW c \in SUBSET Ones
  PROVE  /\ Steps(c)[0] = c
         /\ \A k \in 1 .. ByteBits : Steps(c)[k] = Step(Steps(c)[k - 1])
         /\ \A k \in 0 .. ByteBits : Steps(c)[k] \in SUBSET Ones
<1> DEFINE F(f) == [k \in 0 .. ByteBits |-> IF k = 0 THEN c ELSE Step(f[k - 1])]
           W == SUBSET Ones
           n == ByteBits
           g == [k \in 1 .. n |-> [x \in W |-> Step(x)]]
<1>1. n \in Nat
  BY Places
<1>2. g \in [1 .. n -> [W -> W]]
  BY StepWord
<1>3. \A k \in 1 .. n : \A x \in W : g[k][x] = Step(x)
  OBVIOUS
<1>4. c \in W
  OBVIOUS
<1> HIDE DEF W, g, n
<1>5. PICK f \in [0 .. n -> W] : f[0] = c /\ \A k \in 1 .. n : f[k] = g[k][f[k - 1]]
  BY <1>1, <1>2, <1>4, RecursionExists
<1>6. ASSUME NEW k \in 0 .. n
      PROVE  f[k] = IF k = 0 THEN c ELSE Step(f[k - 1])
  <2>1. CASE k = 0
    BY <1>5, <2>1
  <2>2. CASE k # 0
    <3>1. k \in 1 .. n /\ k - 1 \in 0 .. n
      BY <1>1, <2>2
    <3>2. f[k - 1] \in W
      BY <3>1
    <3> QED BY <1>3, <1>5, <2>2, <3>1, <3>2
  <2> QED BY <2>1, <2>2
<1>7. f = F(f)
  <2>1. f = [k \in 0 .. n |-> f[k]]
    OBVIOUS
  <2> QED BY <1>6, <2>1 DEF n
<1>8. Steps(c) = CHOOSE h : h = F(h)
  BY DEF Steps
<1> HIDE DEF F
<1> DEFINE s == Steps(c)
<1>9. s = F(s)
  BY <1>7, <1>8
<1> HIDE DEF s
<1>10. \A k \in 0 .. n : F(s)[k] = IF k = 0 THEN c ELSE Step(s[k - 1])
  BY DEF F, n
<1>11. \A k \in 0 .. n : s[k] = IF k = 0 THEN c ELSE Step(s[k - 1])
  BY <1>9, <1>10
<1>12. s[0] = c
  BY <1>1, <1>11
<1>13. ASSUME NEW k \in 1 .. n
       PROVE  s[k] = Step(s[k - 1])
  <2>1. k \in 0 .. n /\ k # 0
    BY <1>1
  <2> QED BY <1>11, <2>1
<1> DEFINE T == {k \in Nat : k <= n => s[k] \in W}
<1>14. 0 \in T
  BY <1>4, <1>12
<1>15. ASSUME NEW k \in Nat, k \in T
       PROVE  k + 1 \in T
  <2> SUFFICES ASSUME k + 1 <= n PROVE s[k + 1] \in W
    OBVIOUS
  <2>1. k <= n /\ k + 1 \in 1 .. n /\ (k + 1) - 1 = k
    BY <1>1
  <2>2. s[k] \in W /\ s[k + 1] = Step(s[k])
    BY <1>13, <1>15, <2>1
  <2> QED BY <2>2, StepWord DEF W
<1> HIDE DEF T
<1>16. Nat \subseteq T
  BY <1>14, <1>15, SetInduction
<1>17. \A k \in 0 .. n : s[k] \in W
  <2> SUFFICES ASSUME NEW k \in 0 .. n PROVE s[k] \in W
    OBVIOUS
  <2>1. k \in Nat /\ k <= n
    BY <1>1
  <2>2. k \in T
    BY <1>16, <2>1
  <2> QED BY <2>1, <2>2 DEF T
<1> QED BY <1>12, <1>13, <1>17 DEF s, n, W

(* What the bits of a byte make of a sum: the table's entry of the places  *)
(* they meet, and the other places, moved.                                 *)
BitAt(k, e) == IF k \in e THEN {0} ELSE {}

LEMMA ByteSteps ==
  ASSUME NEW c \in SUBSET Ones, NEW e \in SUBSET Byte, NEW r, r[0] = c,
         \A k \in 1 .. ByteBits : r[k] = Step(Xor(r[k - 1], BitAt(k - 1, e)))
  PROVE  r[ByteBits] = Xor(Steps(Xor(c, e) \cap Byte)[ByteBits], ShiftRight(c, ByteBits))
<1> DEFINE x == Xor(c, e) \cap Byte
           m == e \cup (c \ Byte)
           u == Steps(x)
           n == ByteBits
<1>1. x \in SUBSET Byte /\ x \in SUBSET Ones /\ m \in SUBSET Ones /\ n \in Nat
  BY Places DEF Xor
<1>2. \A i : i \in x <=> (i \in Byte /\ ~(i \in c <=> i \in e))
  BY XorIn
<1>3. \A i : i \in m <=> (i \in e \/ (i \in c /\ i \notin Byte))
  OBVIOUS
<1> HIDE DEF x, m
<1>4. /\ u[0] = x
      /\ \A k \in 1 .. n : u[k] = Step(u[k - 1])
      /\ \A k \in 0 .. n : u[k] \in SUBSET Ones
  BY <1>1, StepsAre
<1> HIDE DEF u
<1> DEFINE T == {k \in Nat : k <= n => r[k] = Xor(u[k], ShiftRight(m, k))}
<1>5. 0 \in T
  <2>1. ASSUME NEW i \in Ones
        PROVE  i \in Xor(x, ShiftRight(m, 0)) <=> i \in c
    <3>1. i + 0 = i
      BY Places
    <3>2. i \in ShiftRight(m, 0) <=> i \in m
      BY <1>1, <3>1, ShiftIn
    <3>3. i \in Xor(x, ShiftRight(m, 0)) <=> ~(i \in x <=> i \in ShiftRight(m, 0))
      BY XorIn
    <3>4. i \in e => i \in Byte
      OBVIOUS
    <3> QED BY <1>2, <1>3, <3>2, <3>3, <3>4
  <2>2. Xor(x, ShiftRight(m, 0)) \in SUBSET Ones
    BY <1>1, ShiftIn, XorWords
  <2>3. Xor(x, ShiftRight(m, 0)) = c
    BY <2>1, <2>2
  <2> QED BY <1>4, <2>3
<1>6. ASSUME NEW k \in Nat, k \in T
      PROVE  k + 1 \in T
  <2> SUFFICES ASSUME k + 1 <= n PROVE r[k + 1] = Xor(u[k + 1], ShiftRight(m, k + 1))
    OBVIOUS
  <2>1. /\ k \in 0 .. n /\ k <= n /\ k + 1 \in 1 .. n /\ (k + 1) - 1 = k /\ k \in Byte
        /\ k + 1 \in Nat
    BY <1>1 DEF n, Byte
  <2> DEFINE s == ShiftRight(m, k)
             z == s \ {0}
             w == Xor(u[k], s)
  <2>2. r[k] = w
    BY <1>6, <2>1
  <2>3. r[k + 1] = Step(Xor(r[k], BitAt(k, e)))
    BY <2>1 DEF n
  <2>4. /\ s \in SUBSET Ones /\ z \in SUBSET Ones /\ u[k] \in SUBSET Ones /\ 0 \notin z
        /\ 0 \in Ones
    BY <1>1, <1>4, <2>1, ShiftIn, Places
  <2>5. 0 \in s <=> k \in e
    <3>1. 0 + k = k
      OBVIOUS
    <3>2. 0 \in s <=> k \in m
      BY <1>1, <2>4, <3>1, ShiftIn
    <3> QED BY <1>3, <2>1, <3>2
  <2>6. Xor(w, BitAt(k, e)) = Xor(u[k], z)
    <3>1. \A i : i \in w <=> ~(i \in u[k] <=> i \in s)
      BY XorIn
    <3>2. \A i : i \in Xor(u[k], z) <=> ~(i \in u[k] <=> i \in z)
      BY XorIn
    <3>3. \A i : i \in Xor(w, BitAt(k, e)) <=> ~(i \in w <=> i \in BitAt(k, e))
      BY XorIn
    <3>4. \A i : i \in BitAt(k, e) <=> (i = 0 /\ k \in e)
      BY DEF BitAt
    <3>5. \A i : i \in z <=> (i \in s /\ i # 0)
      OBVIOUS
    <3> HIDE DEF w, z, s
    <3>6. \A i : i \in Xor(w, BitAt(k, e)) <=> i \in Xor(u[k], z)
      BY <2>5, <3>1, <3>2, <3>3, <3>4, <3>5
    <3> QED BY <3>6 DEF Xor
  <2>7. Step(Xor(u[k], z)) = Xor(Step(u[k]), ShiftRight(z, 1))
    <3> HIDE DEF z
    <3> QED BY <2>4, StepXor
  <2>8. ShiftRight(z, 1) = ShiftRight(m, k + 1)
    <3>1. ShiftRight(z, 1) \in SUBSET Ones /\ ShiftRight(m, k + 1) \in SUBSET Ones
      BY <1>1, <2>1, <2>4, ShiftIn
    <3>2. ASSUME NEW i \in Ones
          PROVE  i \in ShiftRight(z, 1) <=> i \in ShiftRight(m, k + 1)
      <4>1. i \in ShiftRight(z, 1) <=> i + 1 \in z
        BY <2>4, ShiftIn
      <4>2. i \in ShiftRight(m, k + 1) <=> i + (k + 1) \in m
        BY <1>1, <2>1, ShiftIn
      <4>3. i \in Nat /\ i + 1 # 0 /\ i + (k + 1) = (i + 1) + k
        BY Places
      <4>4. i + 1 \in z <=> (i + 1) + k \in m
        <5>1. CASE i + 1 \in Ones
          <6>1. i + 1 \in s <=> (i + 1) + k \in m
            BY <1>1, <5>1, ShiftIn
          <6> QED BY <4>3, <6>1
        <5>2. CASE i + 1 \notin Ones
          <6>1. (i + 1) + k \notin Ones
            BY <4>3, <5>2, Places DEF Ones
          <6> QED BY <1>1, <2>4, <5>2, <6>1
        <5> QED BY <5>1, <5>2
      <4> QED BY <4>1, <4>2, <4>3, <4>4
    <3> HIDE DEF z
    <3> QED BY <3>1, <3>2
  <2>9. u[k + 1] = Step(u[k])
    BY <1>4, <2>1
  <2> HIDE DEF w, z, s
  <2> QED BY <2>2, <2>3, <2>6, <2>7, <2>8, <2>9
<1> HIDE DEF T
<1>7. Nat \subseteq T
  BY <1>5, <1>6, SetInduction
<1>8. n \in T /\ n <= n
  BY <1>1, <1>7
<1>9. r[n] = Xor(u[n], ShiftRight(m, n))
  BY <1>8 DEF T
<1>10. ShiftRight(m, n) = ShiftRight(c, n)
  <2>1. ShiftRight(m, n) \in SUBSET Ones /\ ShiftRight(c, n) \in SUBSET Ones
    BY <1>1, ShiftIn
  <2>2. ASSUME NEW i \in Ones
        PROVE  i \in ShiftRight(m, n) <=> i \in ShiftRight(c, n)
    <3>1. i \in ShiftRight(m, n) <=> i + n \in m
      BY <1>1, ShiftIn
    <3>2. i \in ShiftRight(c, n) <=> i + n \in c
      BY <1>1, ShiftIn
    <3>3. i + n \notin Byte
      BY <1>1, Places DEF Byte, n
    <3> QED BY <1>3, <3>1, <3>2, <3>3
  <2> QED BY <2>1, <2>2
<1> QED BY <1>9, <1>10 DEF n, u, x

(* The division by the polynomial. *)
LEMMA RemainderIs ==
  ASSUME data \in Seq(SUBSET Byte)
  PROVE  /\ Remainder[0] = Ones
         /\ \A j \in 1 .. Len(data) * ByteBits :
              Remainder[j] = Step(Xor(Remainder[j - 1], Bit(j)))
         /\ \A j \in 0 .. Len(data) * ByteBits : Remainder[j] \in SUBSET Ones
<1> DEFINE n == Len(data) * ByteBits
           F(f) == [j \in 0 .. n |-> IF j = 0 THEN Ones ELSE Step(Xor(f[j - 1], Bit(j)))]
           W == SUBSET Ones
           g == [j \in 1 .. n |-> [x \in W |-> Step(Xor(x, Bit(j)))]]
<1>1. n \in Nat
  <2>1. Len(data) \in Nat /\ ByteBits \in Nat
    BY Places
  <2> QED BY <2>1
<1>2. ASSUME NEW x \in W, NEW j \in 1 .. n
      PROVE  Step(Xor(x, Bit(j))) \in W
  <2>1. Bit(j) \in SUBSET Ones
    BY Places DEF Bit
  <2>2. Xor(x, Bit(j)) \in SUBSET Ones
    BY <2>1, XorWords
  <2> QED BY <2>2, StepWord
<1>3. g \in [1 .. n -> [W -> W]]
  BY <1>2
<1>4. \A k \in 1 .. n : \A x \in W : g[k][x] = Step(Xor(x, Bit(k)))
  OBVIOUS
<1>5. Ones \in W
  OBVIOUS
<1>6. Remainder = CHOOSE h : h = F(h)
  BY DEF Remainder
<1> HIDE DEF W, g, n
<1>7. PICK f \in [0 .. n -> W] : f[0] = Ones /\ \A k \in 1 .. n : f[k] = g[k][f[k - 1]]
  BY <1>1, <1>3, <1>5, RecursionExists
<1>8. ASSUME NEW k \in 0 .. n
      PROVE  f[k] = IF k = 0 THEN Ones ELSE Step(Xor(f[k - 1], Bit(k)))
  <2>1. CASE k = 0
    BY <1>7, <2>1
  <2>2. CASE k # 0
    <3>1. k \in 1 .. n /\ k - 1 \in 0 .. n
      BY <1>1, <2>2
    <3>2. f[k - 1] \in W
      BY <3>1
    <3> QED BY <1>4, <1>7, <2>2, <3>1, <3>2
  <2> QED BY <2>1, <2>2
<1>9. f = F(f)
  <2>1. f = [k \in 0 .. n |-> f[k]]
    OBVIOUS
  <2> QED BY <1>8, <2>1 DEF n
<1> HIDE DEF F
<1> DEFINE s == Remainder
<1>10. s = F(s)
  BY <1>6, <1>9
<1> HIDE DEF s
<1>11. \A k \in 0 .. n : F(s)[k] = IF k = 0 THEN Ones ELSE Step(Xor(s[k - 1], Bit(k)))
  BY DEF F, n
<1>12. \A k \in 0 .. n : s[k] = IF k = 0 THEN Ones ELSE Step(Xor(s[k - 1], Bit(k)))
  BY <1>10, <1>11
<1>13. s[0] = Ones
  BY <1>1, <1>12
<1>14. ASSUME NEW k \in 1 .. n
       PROVE  s[k] = Step(Xor(s[k - 1], Bit(k)))
  <2>1. k \in 0 .. n /\ k # 0
    BY <1>1
  <2> QED BY <1>12, <2>1
<1> DEFINE T == {k \in Nat : k <= n => s[k] \in W}
<1>15. 0 \in T
  BY <1>5, <1>13
<1>16. ASSUME NEW k \in Nat, k \in T
       PROVE  k + 1 \in T
  <2> SUFFICES ASSUME k + 1 <= n PROVE s[k + 1] \in W
    OBVIOUS
  <2>1. k <= n /\ k + 1 \in 1 .. n /\ (k + 1) - 1 = k
    BY <1>1
  <2>2. s[k] \in W /\ s[k + 1] = Step(Xor(s[k], Bit(k + 1)))
    BY <1>14, <1>16, <2>1
  <2> QED BY <1>2, <2>1, <2>2
<1> HIDE DEF T
<1>17. Nat \subseteq T
  BY <1>15, <1>16, SetInduction
<1>18. \A k \in 0 .. n : s[k] \in W
  <2> SUFFICES ASSUME NEW k \in 0 .. n PROVE s[k] \in W
    OBVIOUS
  <2>1. k \in Nat /\ k <= n
    BY <1>1
  <2>2. k \in T
    BY <1>17, <2>1
  <2> QED BY <2>1, <2>2 DEF T
<1> QED BY <1>13, <1>14, <1>18 DEF s, n, W

TableIsMade == crc_table = [n \in SUBSET Byte |-> Steps(n)[ByteBits]]

(* A byte is looked up in the table: the division gets on by its bits. *)
LEMMA LookUp ==
  ASSUME data \in Seq(SUBSET Byte), TableIsMade, NEW p \in Nat, p < Len(data)
  PROVE  /\ Remainder[p * ByteBits] \in SUBSET Ones
         /\ Do1(Remainder[p * ByteBits], data[p + 1]) = Remainder[(p + 1) * ByteBits]
         /\ Remainder[(p + 1) * ByteBits] \in SUBSET Ones
<1> DEFINE n == ByteBits
           o == p * ByteBits
           e == data[p + 1]
           c == Remainder[o]
           r == [k \in 0 .. n |-> Remainder[o + k]]
<1>1. n \in Nat \ {0} /\ Len(data) \in Nat /\ n = ByteBits
  BY Places
<1>2. /\ o \in Nat /\ (p + 1) * n = o + n /\ o + n <= Len(data) * n
      /\ Len(data) * n \in Nat /\ o = n * p
  <2>1. (p + 1) * n <= Len(data) * n
    BY <1>1
  <2> QED BY <1>1, <2>1
<1>3. e \in SUBSET Byte
  <2>1. p + 1 \in DOMAIN data
    BY <1>1
  <2> QED BY <2>1, Element
<1>4. c \in SUBSET Ones
  <2>1. o \in 0 .. Len(data) * n
    BY <1>1, <1>2
  <2> QED BY <2>1, RemainderIs
<1>5. r[0] = c
  <2>1. 0 \in 0 .. n /\ o + 0 = o
    BY <1>1, <1>2
  <2> QED BY <2>1
<1>6. ASSUME NEW k \in 1 .. n
      PROVE  r[k] = Step(Xor(r[k - 1], BitAt(k - 1, e)))
  <2>1. /\ k \in 0 .. n /\ k - 1 \in 0 .. n /\ k - 1 \in 0 .. n - 1 /\ k \in Nat
        /\ o + k \in 1 .. Len(data) * n /\ (o + k) - 1 = o + (k - 1) /\ (o + k) - 1 = n * p + (k - 1)
    BY <1>1, <1>2
  <2>2. r[k] = Remainder[o + k] /\ r[k - 1] = Remainder[o + (k - 1)]
    BY <2>1
  <2>3. Remainder[o + k] = Step(Xor(Remainder[(o + k) - 1], Bit(o + k)))
    BY <2>1, RemainderIs
  <2>4. Bit(o + k) = BitAt(k - 1, e)
    <3> DEFINE l == k - 1
    <3>1. l \in 0 .. n - 1 /\ (o + k) - 1 = n * p + l
      BY <2>1
    <3> HIDE DEF l
    <3>2. (n * p + l) \div n = p /\ (n * p + l) % n = l
      BY <1>1, <3>1, DivModOfSum
    <3>3. 1 + p = p + 1
      OBVIOUS
    <3> HIDE DEF o, n
    <3>4. ((o + k) - 1) \div ByteBits = p /\ ((o + k) - 1) % ByteBits = l
      BY <1>1, <3>1, <3>2
    <3>5. Bit(o + k) = IF l \in data[1 + p] THEN {0} ELSE {}
      BY <3>4 DEF Bit
    <3> QED BY <3>3, <3>5 DEF BitAt, l
  <2> HIDE DEF r, e, o
  <2> QED BY <2>1, <2>2, <2>3, <2>4
<1> HIDE DEF r, c, e
<1>7. r[n] = Xor(Steps(Xor(c, e) \cap Byte)[n], ShiftRight(c, n))
  BY <1>3, <1>4, <1>5, <1>6, ByteSteps
<1>8. r[n] = Remainder[(p + 1) * n]
  BY <1>1, <1>2 DEF r
<1>9. Do1(c, e) = r[n]
  <2>1. Xor(c, e) \cap Byte \in SUBSET Byte
    OBVIOUS
  <2>2. crc_table[Xor(c, e) \cap Byte] = Steps(Xor(c, e) \cap Byte)[n]
    BY <2>1 DEF TableIsMade
  <2> QED BY <1>7, <2>2 DEF Do1
<1>10. Remainder[(p + 1) * n] \in SUBSET Ones
  <2>1. (p + 1) * n \in 0 .. Len(data) * n
    BY <1>1, <1>2
  <2> QED BY <2>1, RemainderIs
<1> QED BY <1>4, <1>8, <1>9, <1>10 DEF c, e

(* A turn of either loop. *)
LEMMA SumIs ==
  ASSUME data \in Seq(SUBSET Byte), TableIsMade, ptr \in Nat, NEW n \in Nat,
         ptr + n <= Len(data), crc = Remainder[ptr * ByteBits], crc \in SUBSET Ones
  PROVE  Sum(n) = Remainder[(ptr + n) * ByteBits]
<1> DEFINE F(f) == [k \in 0 .. n |-> IF k = 0 THEN crc ELSE Do1(f[k - 1], data[ptr + k])]
<1> DEFINE f0 == [k \in 0 .. n |-> Remainder[(ptr + k) * ByteBits]]
<1>0. Len(data) \in Nat
  OBVIOUS
<1>1. ASSUME NEW k \in 0 .. n
      PROVE  f0[k] = IF k = 0 THEN crc ELSE Do1(f0[k - 1], data[ptr + k])
  <2>1. CASE k = 0
    <3>1. ptr + 0 = ptr
      OBVIOUS
    <3> QED BY <2>1, <3>1
  <2>2. CASE k # 0
    <3> DEFINE p == ptr + (k - 1)
    <3>1. p \in Nat /\ p < Len(data) /\ p + 1 = ptr + k /\ k - 1 \in 0 .. n
      BY <1>0, <2>2
    <3>2. f0[k - 1] = Remainder[p * ByteBits]
      BY <3>1
    <3> HIDE DEF p
    <3>3. Do1(Remainder[p * ByteBits], data[p + 1]) = Remainder[(p + 1) * ByteBits]
      BY <3>1, LookUp
    <3> QED BY <2>2, <3>1, <3>2, <3>3
  <2> QED BY <2>1, <2>2
<1>2. f0 = F(f0)
  BY <1>1
<1> HIDE DEF f0
<1>3. Sum(n) = (CHOOSE h : h = F(h))[n]
  BY DEF Sum
<1> HIDE DEF F
<1> DEFINE s == CHOOSE h : h = F(h)
<1>4. s = F(s)
  BY <1>2
<1> HIDE DEF s
<1>5. \A k \in 0 .. n : F(s)[k] = IF k = 0 THEN crc ELSE Do1(s[k - 1], data[ptr + k])
  BY DEF F
<1>6. \A k \in 0 .. n : s[k] = IF k = 0 THEN crc ELSE Do1(s[k - 1], data[ptr + k])
  BY <1>4, <1>5
<1> DEFINE T == {k \in Nat : k <= n => s[k] = Remainder[(ptr + k) * ByteBits]}
<1>7. 0 \in T
  <2>1. ptr + 0 = ptr /\ 0 \in 0 .. n
    OBVIOUS
  <2> QED BY <1>6, <2>1
<1>8. ASSUME NEW k \in Nat, k \in T
      PROVE  k + 1 \in T
  <2> SUFFICES ASSUME k + 1 <= n PROVE s[k + 1] = Remainder[(ptr + (k + 1)) * ByteBits]
    OBVIOUS
  <2> DEFINE p == ptr + k
  <2>1. /\ k <= n /\ k + 1 \in 0 .. n /\ k + 1 # 0 /\ (k + 1) - 1 = k
        /\ p \in Nat /\ p < Len(data) /\ p + 1 = ptr + (k + 1)
    BY <1>0
  <2>2. s[k] = Remainder[p * ByteBits] /\ s[k + 1] = Do1(s[k], data[ptr + (k + 1)])
    BY <1>6, <1>8, <2>1
  <2> HIDE DEF p
  <2>3. Do1(Remainder[p * ByteBits], data[p + 1]) = Remainder[(p + 1) * ByteBits]
    BY <2>1, LookUp
  <2> QED BY <2>1, <2>2, <2>3
<1> HIDE DEF T
<1>9. Nat \subseteq T
  BY <1>7, <1>8, SetInduction
<1>10. n \in T /\ n <= n
  BY <1>9
<1>11. s[n] = Remainder[(ptr + n) * ByteBits]
  BY <1>10 DEF T
<1> QED BY <1>3, <1>11 DEF s

SumInv ==
  /\ data \in Seq(SUBSET Byte)
  /\ sum_pc \in {"table", "call", "blocks", "rest", "done"}
  /\ sum_pc # "table" => TableIsMade
  /\ sum_pc \in {"table", "call"} => crc = {}
  /\ sum_pc \in {"blocks", "rest"} =>
       /\ ptr \in Nat /\ ptr <= Len(data)
       /\ crc = Remainder[ptr * ByteBits] /\ crc \in SUBSET Ones
  /\ SumIsRight

LEMMA SumInvNext == SumInv /\ [SumNext]_sum => SumInv'
<1> SUFFICES ASSUME SumInv, [SumNext]_sum PROVE SumInv'
  OBVIOUS
<1>0. /\ data \in Seq(SUBSET Byte) /\ Len(data) \in Nat /\ Unroll \in Nat /\ ByteBits \in Nat
      /\ data' = data
  BY SumAssumption DEF SumInv, SumNext, MakeTable, Call, Blocks, Rest, sum
<1>1. Remainder' = Remainder
  BY <1>0 DEF Remainder, Bit
<1>2. CASE MakeTable
  <2>1. /\ sum_pc = "table" /\ sum_pc' = "call" /\ crc' = crc
        /\ crc_table' = [n \in SUBSET Byte |-> Steps(n)[ByteBits]]
    BY <1>2 DEF MakeTable
  <2>2. TableIsMade'
    BY <2>1 DEF TableIsMade
  <2>3. crc' = {}
    BY <2>1 DEF SumInv
  <2> QED BY <1>0, <2>1, <2>2, <2>3 DEF SumInv, SumIsRight
<1>3. CASE Call
  <2>1. /\ sum_pc = "call" /\ sum_pc' = "blocks" /\ crc' = Xor(crc, Ones) /\ ptr' = 0
        /\ crc_table' = crc_table
    BY <1>3 DEF Call
  <2>2. TableIsMade'
    BY <2>1 DEF SumInv, TableIsMade
  <2>3. crc' = Ones
    BY <2>1 DEF SumInv, Xor
  <2>4. ptr' * ByteBits = 0 /\ ptr' \in Nat /\ ptr' <= Len(data')
    BY <1>0, <2>1
  <2>5. crc' = Remainder'[ptr' * ByteBits]
    BY <1>0, <1>1, <2>3, <2>4, RemainderIs
  <2> QED BY <1>0, <2>1, <2>2, <2>3, <2>4, <2>5 DEF SumInv, SumIsRight
<1>4. ASSUME NEW n \in Nat, sum_pc \in {"blocks", "rest"}, Left >= n, crc' = Sum(n),
             ptr' = ptr + n, sum_pc' = sum_pc, crc_table' = crc_table
      PROVE  SumInv'
  <2>1. /\ ptr \in Nat /\ ptr + n <= Len(data) /\ TableIsMade
        /\ crc = Remainder[ptr * ByteBits] /\ crc \in SUBSET Ones
    BY <1>0, <1>4 DEF SumInv, Left
  <2>2. Sum(n) = Remainder[(ptr + n) * ByteBits]
    BY <1>0, <2>1, SumIs
  <2>3. TableIsMade'
    BY <1>4, <2>1 DEF TableIsMade
  <2>4. crc' \in SUBSET Ones
    <3>1. (ptr + n) * ByteBits <= Len(data) * ByteBits /\ (ptr + n) * ByteBits \in Nat
          /\ Len(data) * ByteBits \in Nat
      <4> DEFINE m == ptr + n
      <4>1. m \in Nat /\ m <= Len(data)
        BY <2>1
      <4> HIDE DEF m
      <4>2. m * ByteBits <= Len(data) * ByteBits /\ m * ByteBits \in Nat /\ Len(data) * ByteBits \in Nat
        BY <1>0, <4>1
      <4> QED BY <4>2 DEF m
    <3>2. (ptr + n) * ByteBits \in 0 .. Len(data) * ByteBits
      BY <3>1
    <3> QED BY <1>0, <1>4, <2>2, <3>2, RemainderIs
  <2>5. ptr' \in Nat /\ ptr' <= Len(data') /\ crc' = Remainder'[ptr' * ByteBits]
    BY <1>0, <1>1, <1>4, <2>1, <2>2
  <2> QED BY <1>0, <1>4, <2>3, <2>4, <2>5 DEF SumInv, SumIsRight
<1>5. CASE Blocks
  <2>1. sum_pc = "blocks" /\ crc_table' = crc_table
    BY <1>5 DEF Blocks
  <2>2. CASE Left >= Unroll
    BY <1>0, <1>4, <1>5, <2>1, <2>2 DEF Blocks
  <2>3. CASE ~(Left >= Unroll)
    <3>1. sum_pc' = "rest" /\ crc' = crc /\ ptr' = ptr
      BY <1>5, <2>3 DEF Blocks
    <3>2. TableIsMade'
      BY <2>1 DEF SumInv, TableIsMade
    <3>3. /\ ptr \in Nat /\ ptr <= Len(data)
          /\ crc = Remainder[ptr * ByteBits] /\ crc \in SUBSET Ones
      BY <2>1 DEF SumInv
    <3> QED BY <1>0, <1>1, <3>1, <3>2, <3>3 DEF SumInv, SumIsRight
  <2> QED BY <2>2, <2>3
<1>6. CASE Rest
  <2>1. sum_pc = "rest" /\ crc_table' = crc_table
    BY <1>6 DEF Rest
  <2>2. CASE Left > 0
    <3>1. Left >= 1
      BY <1>0, <2>1, <2>2 DEF Left, SumInv
    <3>2. crc' = Sum(1) /\ ptr' = ptr + 1 /\ sum_pc' = sum_pc
      BY <1>6, <2>2 DEF Rest
    <3> QED BY <1>4, <2>1, <3>1, <3>2
  <2>3. CASE ~(Left > 0)
    <3>1. sum_pc' = "done" /\ crc' = Xor(crc, Ones)
      BY <1>6, <2>3 DEF Rest
    <3>2. ptr = Len(data) /\ crc = Remainder[ptr * ByteBits] /\ TableIsMade
      BY <1>0, <2>1, <2>3 DEF SumInv, Left
    <3>3. TableIsMade'
      BY <2>1, <3>2 DEF TableIsMade
    <3>4. crc' = Xor(Remainder'[Len(data') * ByteBits], Ones)
      BY <1>0, <1>1, <3>1, <3>2
    <3> QED BY <1>0, <3>1, <3>3, <3>4 DEF SumInv, SumIsRight
  <2> QED BY <2>2, <2>3
<1>7. CASE UNCHANGED sum
  <2>1. UNCHANGED <<sum_pc, crc_table, crc, ptr, data>>
    BY <1>7 DEF sum
  <2> QED BY <1>1, <2>1 DEF SumInv, SumIsRight, TableIsMade
<1> QED BY <1>2, <1>3, <1>5, <1>6, <1>7 DEF SumNext

LEMMA SumInvInit == SumInit => SumInv
<1> SUFFICES ASSUME SumInit PROVE SumInv
  OBVIOUS
<1>1. data \in Seq(SUBSET Byte)
  BY SumAssumption DEF SumInit
<1> QED BY <1>1 DEF SumInit, SumInv, SumIsRight

(* The invariant of crc32, for words of any width and any polynomial.      *)
THEOREM SumInvHolds == SumSpec => []SumInv
BY SumInvInit, SumInvNext, PTL DEF SumSpec

(* crc32 makes the sum that the division by the polynomial makes.          *)
THEOREM TheSumIsRight == SumSpec => []SumIsRight
<1>1. SumInv => SumIsRight
  BY DEF SumInv
<1> QED BY <1>1, SumInvHolds, PTL

-----------------------------------------------------------------------------
(* The console.  First the digits: the ones that are taken low end first   *)
(* are those of the number's places.                                       *)

LEMMA PowerMono ==
  ASSUME NEW x \in Nat, x > 1, NEW m \in Nat, NEW n \in Nat, m <= n
  PROVE  PowerOf(x)[m] <= PowerOf(x)[n]
<1> DEFINE p == PowerOf(x)
<1>1. \A i \in Nat : p[i] \in Nat /\ p[i] < p[i + 1]
  BY PowerGrows
<1> HIDE DEF p
<1> DEFINE S == {i \in Nat : p[m] <= p[m + i]}
<1>2. 0 \in S
  BY <1>1
<1>3. ASSUME NEW i \in Nat, i \in S
      PROVE  i + 1 \in S
  <2>1. m + i \in Nat /\ m + (i + 1) = (m + i) + 1
    OBVIOUS
  <2>2. p[m + i] < p[(m + i) + 1] /\ p[m + i] \in Nat /\ p[(m + i) + 1] \in Nat
        /\ p[m] \in Nat
    BY <1>1, <2>1
  <2>3. p[m] <= p[m + (i + 1)]
    BY <1>3, <2>1, <2>2
  <2> QED BY <2>3
<1> HIDE DEF S
<1>4. Nat \subseteq S
  BY <1>2, <1>3, SetInduction
<1>5. n - m \in Nat /\ m + (n - m) = n
  OBVIOUS
<1>6. n - m \in S
  BY <1>4, <1>5
<1> QED BY <1>5, <1>6 DEF S, p

(* A number of n places and no less. *)
HasPlaces(v, x, n) ==
  v < PowerOf(x)[n] /\ (n = 1 \/ v >= PowerOf(x)[n - 1])

LEMMA PlacesAre ==
  ASSUME NEW x \in Nat, x > 1, NEW v \in 0 .. UintLimit - 1, NEW n \in Nat \ {0},
         HasPlaces(v, x, n)
  PROVE  /\ n \in 1 .. UintLimit
         /\ \A k \in Nat \ {0} : HasPlaces(v, x, k) => k = n
<1> DEFINE p == PowerOf(x)
<1>0. UintLimit \in Nat
  BY ConsoleAssumption
<1>1. \A i \in Nat : p[i] \in Nat /\ i < p[i]
  BY PowerGrows
<1>2. \A i, j \in Nat : i <= j => p[i] <= p[j]
  BY PowerMono
<1>3. v < p[n] /\ (n = 1 \/ v >= p[n - 1]) /\ n - 1 \in Nat
  BY DEF HasPlaces
<1>4. \A k : HasPlaces(v, x, k) => v < p[k] /\ (k = 1 \/ v >= p[k - 1])
  BY DEF HasPlaces
<1> HIDE DEF p
<1>5. n \in 1 .. UintLimit
  BY <1>0, <1>1, <1>3
<1>6. ASSUME NEW k \in Nat \ {0}, HasPlaces(v, x, k)
      PROVE  k = n
  <2>1. v < p[k] /\ (k = 1 \/ v >= p[k - 1]) /\ k - 1 \in Nat
    BY <1>4, <1>6
  <2>2. ASSUME k < n PROVE FALSE
    <3>1. k <= n - 1 /\ n # 1
      BY <2>2
    <3>2. p[k] <= p[n - 1] /\ p[k] \in Nat /\ p[n - 1] \in Nat
      BY <1>1, <1>2, <1>3, <3>1
    <3> QED BY <1>3, <2>1, <3>1, <3>2
  <2>3. ASSUME n < k PROVE FALSE
    <3>1. n <= k - 1 /\ k # 1
      BY <2>3
    <3>2. p[n] <= p[k - 1] /\ p[n] \in Nat /\ p[k - 1] \in Nat
      BY <1>1, <1>2, <2>1, <3>1
    <3> QED BY <1>3, <2>1, <3>1, <3>2
  <2> QED BY <2>2, <2>3
<1> QED BY <1>5, <1>6

DigitAt(v, x, j) == Digits[((v \div PowerOf(x)[j]) % x) + 1]

LEMMA NumeralIs ==
  ASSUME NEW x \in Nat, x > 1, NEW v \in 0 .. UintLimit - 1, NEW n \in Nat \ {0},
         HasPlaces(v, x, n), NEW s, DOMAIN s = 1 .. n,
         \A j \in 1 .. n : s[j] = DigitAt(v, x, j - 1)
  PROVE  Numeral(v, x) = [j \in 1 .. n |-> s[n + 1 - j]]
<1> DEFINE p == PowerOf(x)
           k == CHOOSE i \in 1 .. UintLimit : v < p[i] /\ (i = 1 \/ v >= p[i - 1])
<1>1. n \in 1 .. UintLimit /\ v < p[n] /\ (n = 1 \/ v >= p[n - 1])
  BY PlacesAre DEF HasPlaces
<1>2. k \in 1 .. UintLimit /\ v < p[k] /\ (k = 1 \/ v >= p[k - 1])
  BY <1>1
<1>3. Numeral(v, x) = [j \in 1 .. k |-> Digits[((v \div p[k - j]) % x) + 1]]
  BY DEF Numeral
<1> HIDE DEF k
<1>4. k = n
  <2>1. HasPlaces(v, x, k)
    BY <1>2 DEF HasPlaces
  <2>2. k \in Nat \ {0}
    BY <1>2, ConsoleAssumption
  <2> QED BY <2>1, <2>2, PlacesAre
<1>5. ASSUME NEW j \in 1 .. n
      PROVE  s[n + 1 - j] = Digits[((v \div p[n - j]) % x) + 1]
  <2>1. n + 1 - j \in 1 .. n /\ (n + 1 - j) - 1 = n - j
    OBVIOUS
  <2>2. s[n + 1 - j] = DigitAt(v, x, n - j)
    BY <2>1
  <2> QED BY <2>2 DEF DigitAt
<1>6. Numeral(v, x) = [j \in 1 .. n |-> Digits[((v \div p[n - j]) % x) + 1]]
  BY <1>3, <1>4
<1> QED BY <1>5, <1>6

(* What is shown: the characters there are, with those that are not from   *)
(* the format or the string.                                               *)
Chars == STRING \cup {"0", "1", "2", "3", "4", "5", "6", "7", "8", "9", "a", "b", "c", "d",
                      "e", "f", "SP", "CR", "%"}

LEMMA DigitsAre == \A k \in 1 .. 16 : Digits[k] \in Chars
BY DEF Digits, Chars

LEMMA DigitIn ==
  ASSUME NEW v \in Nat, NEW x \in {10, 16}
  PROVE  Digits[(v % x) + 1] \in Chars
<1>1. (v % x) + 1 \in 1 .. 16
  OBVIOUS
<1> QED BY <1>1, DigitsAre

LEMMA PaddingIs == Padding \in Chars
BY DEF Padding, Chars

LEMMA FromChars ==
  ASSUME NEW s \in Seq(STRING)
  PROVE  s \in Seq(Chars)
<1>1. STRING \subseteq Chars
  BY DEF Chars
<1>2. s \in [1 .. Len(s) -> STRING] /\ Len(s) \in Nat
  OBVIOUS
<1>3. \A i \in 1 .. Len(s) : s[i] \in Chars
  BY <1>1, <1>2
<1>4. s \in [1 .. Len(s) -> Chars]
  BY <1>2, <1>3
<1> QED BY <1>2, <1>4

LEMMA FilledIs ==
  ASSUME NEW S, NEW s \in Seq(S), NEW c \in S, NEW n \in Nat
  PROVE  Filled(s, c, n) \in Seq(S)
<1> DEFINE m == IF n > Len(s) THEN n - Len(s) ELSE 0
           f == [j \in 1 .. m |-> c]
<1>1. m \in Nat
  OBVIOUS
<1> HIDE DEF m
<1>2. f \in [1 .. m -> S]
  OBVIOUS
<1>4. f \in Seq(S)
  <2> HIDE DEF f
  <2> QED BY <1>1, <1>2
<1>3. Filled(s, c, n) = f \o s
  BY DEF Filled, m
<1> HIDE DEF f
<1> QED BY <1>3, <1>4

Numbers == Nat

LEMMA NumbersExist ==
  ASSUME NEW n \in Nat, NEW g \in [1 .. n -> [Numbers -> Numbers]]
  PROVE  \E f \in [0 .. n -> Numbers] : f[0] = 0 /\ \A k \in 1 .. n : f[k] = g[k][f[k - 1]]
<1>1. 0 \in Numbers
  BY DEF Numbers
<1> QED BY <1>1, RecursionExists

(* A width is where the digits end, and a number. *)
LEMMA WidthIs ==
  ASSUME str \in Seq(STRING), NEW p \in Nat \ {0}, IsDigit(At(p))
  PROVE  WidthEnd(p) \in Nat \ {0} /\ WidthValue(p) \in Nat
<1> DEFINE n == Len(str)
           T == {q \in p .. n + 1 : ~IsDigit(At(q))}
           IsEnd(q) == ~IsDigit(At(q)) /\ \A k \in p .. q - 1 : IsDigit(str[k])
           e == CHOOSE q \in p .. n + 1 : IsEnd(q)
<1>1. n \in Nat
  OBVIOUS
<1>2. p <= n
  <2>1. CASE p <= Len(str)
    BY <2>1
  <2>2. CASE ~(p <= Len(str))
    BY <2>2 DEF At, IsDigit
  <2> QED BY <2>1, <2>2
<1>3. ~IsDigit(At(n + 1))
  <2>1. ~(n + 1 <= Len(str))
    BY <1>1
  <2> QED BY <2>1 DEF At, IsDigit
<1>4. \A k \in p .. n : At(k) = str[k]
  BY DEF At
<1>5. n + 1 \in T /\ T \subseteq Nat
  BY <1>1, <1>2, <1>3
<1>6. PICK q \in T : \A k \in T : q <= k
  BY <1>5, Least
<1>7. IsEnd(q)
  <2>1. ASSUME NEW k \in p .. q - 1
        PROVE  IsDigit(str[k])
    <3>1. q \in p .. n + 1 /\ k \in p .. n /\ k \in p .. n + 1 /\ ~(q <= k)
      BY <1>1, <1>5, <1>6
    <3>2. IsDigit(At(k))
      BY <1>6, <3>1
    <3> QED BY <1>4, <3>1, <3>2
  <2> QED BY <1>6, <2>1
<1>8. q \in p .. n + 1
  BY <1>6
<1>9. WidthEnd(p) = e
  BY DEF WidthEnd
<1> HIDE DEF IsEnd, T, n
<1>10. e \in p .. n + 1
  BY <1>7, <1>8
<1> HIDE DEF e
<1> DEFINE F(w) == [k \in p - 1 .. n |->
                      IF k = p - 1 THEN 0
                      ELSE (w[k - 1] * 10 + DigitValue(str[k])) % UintLimit]
           z == n - (p - 1)
           g == [k \in 1 .. z |->
                   [x \in Numbers |-> (x * 10 + DigitValue(str[k + (p - 1)])) % UintLimit]]
<1>11. z \in Nat
  BY <1>1, <1>2
<1>12. ASSUME NEW x \in Nat, NEW k
       PROVE  (x * 10 + DigitValue(str[k])) % UintLimit \in Nat
  <2>1. UintLimit \in Nat \ {0}
    BY ConsoleAssumption
  <2>2. DigitValue(str[k]) \in Nat
    BY DEF DigitValue
  <2> QED BY <2>1, <2>2
<1>13. g \in [1 .. z -> [Numbers -> Numbers]]
  BY <1>12 DEF Numbers
<1>14. \A k \in 1 .. z : \A x \in Numbers :
         g[k][x] = (x * 10 + DigitValue(str[k + (p - 1)])) % UintLimit
  OBVIOUS
<1> HIDE DEF g
<1>15. PICK f \in [0 .. z -> Numbers] : f[0] = 0 /\ \A k \in 1 .. z : f[k] = g[k][f[k - 1]]
  <2> HIDE DEF F, z
  <2> QED BY <1>11, <1>13, NumbersExist
<1> DEFINE w == [k \in p - 1 .. n |-> f[k - (p - 1)]]
<1>16. ASSUME NEW k \in p - 1 .. n
       PROVE  w[k] = IF k = p - 1 THEN 0
                     ELSE (w[k - 1] * 10 + DigitValue(str[k])) % UintLimit
  <2>1. CASE k = p - 1
    <3>1. k - (p - 1) = 0
      BY <2>1
    <3> QED BY <1>15, <2>1, <3>1
  <2>2. CASE k # p - 1
    <3>1. /\ k - (p - 1) \in 1 .. z /\ (k - (p - 1)) - 1 = (k - 1) - (p - 1)
          /\ (k - 1) - (p - 1) \in 0 .. z /\ k - 1 \in p - 1 .. n
          /\ (k - (p - 1)) + (p - 1) = k
      BY <1>1, <2>2
    <3> DEFINE i == k - (p - 1)
    <3>2. w[k] = f[i] /\ w[k - 1] = f[i - 1]
      BY <3>1
    <3>3. i \in 1 .. z /\ i - 1 \in 0 .. z /\ i + (p - 1) = k
      BY <3>1
    <3> HIDE DEF i, w, z
    <3>4. f[i - 1] \in Numbers /\ f[i] = g[i][f[i - 1]]
      BY <1>15, <3>3
    <3>5. f[i] = (f[i - 1] * 10 + DigitValue(str[i + (p - 1)])) % UintLimit
      BY <1>14, <3>3, <3>4
    <3>6. f[i] = (f[i - 1] * 10 + DigitValue(str[k])) % UintLimit
      BY <3>3, <3>5
    <3> QED BY <2>2, <3>2, <3>6
  <2> QED BY <2>1, <2>2
<1>17. w = F(w)
  <2>1. w = [k \in p - 1 .. n |-> w[k]]
    OBVIOUS
  <2> HIDE DEF w
  <2> QED BY <1>16, <2>1
<1> HIDE DEF w
<1> DEFINE v == CHOOSE h : h = F(h)
<1>18. WidthValue(p) = v[e - 1]
  BY <1>9 DEF WidthValue, n
<1> HIDE DEF F
<1>19. v = F(v)
  BY <1>17
<1> HIDE DEF v
<1>20. \A k \in p - 1 .. n :
         v[k] = IF k = p - 1 THEN 0 ELSE (v[k - 1] * 10 + DigitValue(str[k])) % UintLimit
  BY <1>19 DEF F
<1> DEFINE U == {i \in Nat : i <= z => v[(p - 1) + i] \in Nat}
<1>21. 0 \in U
  <2>1. (p - 1) + 0 = p - 1 /\ p - 1 \in p - 1 .. n
    BY <1>1, <1>2
  <2> QED BY <1>20, <2>1
<1>22. ASSUME NEW i \in Nat, i \in U
       PROVE  i + 1 \in U
  <2> SUFFICES ASSUME i + 1 <= z PROVE v[(p - 1) + (i + 1)] \in Nat
    OBVIOUS
  <2>1. /\ i <= z /\ (p - 1) + (i + 1) \in p - 1 .. n /\ (p - 1) + (i + 1) # p - 1
        /\ ((p - 1) + (i + 1)) - 1 = (p - 1) + i
    BY <1>1
  <2> DEFINE k == (p - 1) + (i + 1)
  <2>2. v[k - 1] \in Nat
    BY <1>22, <2>1
  <2>3. k \in p - 1 .. n /\ k # p - 1
    BY <2>1
  <2> HIDE DEF k
  <2>4. v[k] = (v[k - 1] * 10 + DigitValue(str[k])) % UintLimit
    BY <1>20, <2>3
  <2>5. v[k] \in Nat
    BY <1>12, <2>2, <2>4
  <2> QED BY <2>5 DEF k
<1> HIDE DEF U
<1>23. Nat \subseteq U
  BY <1>21, <1>22, SetInduction
<1>24. v[e - 1] \in Nat
  <2>1. (e - 1) - (p - 1) \in Nat /\ (e - 1) - (p - 1) <= z
        /\ (p - 1) + ((e - 1) - (p - 1)) = e - 1
    BY <1>1, <1>10
  <2>2. (e - 1) - (p - 1) \in U
    BY <1>23, <2>1
  <2> QED BY <2>1, <2>2 DEF U
<1>25. e \in Nat \ {0}
  BY <1>1, <1>10
<1> QED BY <1>9, <1>18, <1>24, <1>25

-----------------------------------------------------------------------------
(* The invariant.  All that was given to putc is on its way or on the      *)
(* line.                                                                   *)
ConTypes ==
  /\ con_pc \in {"scan", "convert", "digits", "done", "lost"}
  /\ str \in Seq(STRING)
  /\ pos \in Nat \ {0}
  /\ width \in Nat
  /\ base \in {10, 16}
  /\ tmpbuf \in Seq(Chars)
  /\ pending \in Seq(Chars) /\ thr \in Seq(Chars) /\ tsr \in Seq(Chars)
  /\ line \in Seq(Chars) /\ meant \in Seq(Chars)

Out == (line \o tsr) \o thr

(* Only between two conversions is anything still to be put.               *)
Waits == con_pc \in {"convert", "digits"} => pending = <<>>

Shown == con_pc # "digits" => Out \o pending = meant

(* Of the number v the digits at the low end are there.                    *)
IsTaken(v) ==
  /\ value = v \div PowerOf(base)[Len(tmpbuf)]
  /\ \A j \in 1 .. Len(tmpbuf) : tmpbuf[j] = DigitAt(v, base, j - 1)
  /\ Len(tmpbuf) > 1 => v >= PowerOf(base)[Len(tmpbuf) - 1]
  /\ meant = Out \o Filled(Numeral(v, base), Padding, width)

Converting == con_pc = "digits" => \E v \in 0 .. UintLimit - 1 : IsTaken(v)

TmpFits == Len(tmpbuf) <= (IF base = 10 THEN TmpDec ELSE TmpHex)

ConInv == ConTypes /\ Waits /\ Shown /\ Converting /\ TmpFits

LEMMA SomeChars == "SP" \in Chars /\ "CR" \in Chars /\ "%" \in Chars
BY DEF Chars

LEMMA Joined ==
  ASSUME NEW S, NEW x \in Seq(S), NEW y \in Seq(S)
  PROVE  x \o y \in Seq(S)
OBVIOUS

LEMMA JoinedThrice ==
  ASSUME NEW S, NEW x \in Seq(S), NEW y \in Seq(S), NEW z \in Seq(S)
  PROVE  (x \o y) \o z = x \o (y \o z)
BY ConcatAssociative

LEMMA JoinedEmpty ==
  ASSUME NEW S, NEW x \in Seq(S)
  PROVE  x \o <<>> = x /\ <<>> \o x = x
BY ConcatEmptySeq

LEMMA Singly ==
  ASSUME NEW S, NEW c \in S
  PROVE  <<c>> \in Seq(S)
OBVIOUS

LEMMA HeadAndTail ==
  ASSUME NEW S, NEW x \in Seq(S), x # <<>>
  PROVE  Head(x) \in S /\ Tail(x) \in Seq(S) /\ <<Head(x)>> \o Tail(x) = x
<1>1. Len(x) \in Nat \ {0} /\ Head(x) \in S /\ Tail(x) \in Seq(S)
  BY HeadTailProperties
<1>2. Len(Tail(x)) = Len(x) - 1 /\ \A i \in 1 .. Len(Tail(x)) : Tail(x)[i] = x[i + 1]
  BY HeadTailProperties
<1> DEFINE y == <<Head(x)>> \o Tail(x)
<1>3. <<Head(x)>> \in Seq(S) /\ Len(<<Head(x)>>) = 1 /\ <<Head(x)>>[1] = x[1]
  BY <1>1
<1>4. y \in Seq(S) /\ Len(y) = 1 + Len(Tail(x))
  BY <1>1, <1>3
<1>5. ASSUME NEW i \in 1 .. Len(x)
      PROVE  y[i] = x[i]
  <2>1. i \in 1 .. 1 + Len(Tail(x))
    BY <1>1, <1>2
  <2>2. y[i] = IF i <= 1 THEN <<Head(x)>>[i] ELSE Tail(x)[i - 1]
    BY <1>1, <1>3, <2>1, ConcatProperties
  <2>3. CASE i = 1
    BY <1>3, <2>2, <2>3
  <2>4. CASE i # 1
    <3>1. i - 1 \in 1 .. Len(Tail(x)) /\ (i - 1) + 1 = i
      BY <1>1, <1>2, <2>4
    <3> QED BY <1>2, <2>2, <2>4, <3>1
  <2> QED BY <2>3, <2>4
<1>6. y = x
  <2>1. Len(y) = Len(x)
    BY <1>1, <1>2, <1>4
  <2> HIDE DEF y
  <2> QED BY <1>4, <1>5, <2>1
<1> QED BY <1>1, <1>6

LEMMA OutIs == ConTypes => Out \in Seq(Chars)
<1> SUFFICES ASSUME ConTypes PROVE Out \in Seq(Chars)
  OBVIOUS
<1>1. line \o tsr \in Seq(Chars)
  BY Joined DEF ConTypes
<1> QED BY <1>1, Joined DEF ConTypes, Out

LEMMA ConInvInit == ConInit => ConInv
<1> SUFFICES ASSUME ConInit PROVE ConInv
  OBVIOUS
<1>1. str \in Seq(STRING)
  BY ConsoleAssumption DEF ConInit
<1>2. <<>> \in Seq(Chars)
  OBVIOUS
<1>3. ConTypes
  BY <1>1, <1>2 DEF ConInit, ConTypes
<1>4. <<>> \o <<>> = <<>>
  BY <1>2, JoinedEmpty
<1>5. Shown
  BY <1>4 DEF ConInit, Shown, Out
<1>6. TmpFits
  BY ConsoleAssumption DEF ConInit, TmpFits
<1> QED BY <1>3, <1>5, <1>6 DEF ConInit, ConInv, Waits, Converting

LEMMA ReverseIs ==
  ASSUME NEW S, NEW s \in Seq(S)
  PROVE  [j \in 1 .. Len(s) |-> s[Len(s) + 1 - j]] \in Seq(S)
<1> DEFINE n == Len(s)
           f == [j \in 1 .. n |-> s[n + 1 - j]]
<1>1. n \in Nat /\ \A i \in 1 .. n : s[i] \in S
  BY Element
<1>2. f \in [1 .. n -> S]
  <2>1. ASSUME NEW j \in 1 .. n
        PROVE  s[n + 1 - j] \in S
    <3>1. n + 1 - j \in 1 .. n
      BY <1>1
    <3> QED BY <1>1, <3>1
  <2> QED BY <2>1
<1> HIDE DEF f
<1>3. f \in Seq(S)
  BY <1>1, <1>2
<1> QED BY <1>3 DEF f

(* Characters that are put are on their way. *)
LEMMA PutShows ==
  ASSUME ConTypes, Shown, con_pc # "digits", pending = <<>>,
         NEW s \in Seq(Chars), pending' = s, meant' = meant \o s, UNCHANGED uart,
         con_pc' # "digits"
  PROVE  pending' \in Seq(Chars) /\ meant' \in Seq(Chars) /\ Shown'
<1>1. Out \in Seq(Chars)
  BY OutIs
<1>2. Out = meant
  BY <1>1, JoinedEmpty DEF Shown
<1>3. meant' \in Seq(Chars)
  BY Joined DEF ConTypes
<1>4. Out' = Out
  BY DEF Out, uart
<1> QED BY <1>2, <1>3, <1>4 DEF Shown

LEMMA PutcKeeps == ConInv /\ Putc => ConInv'
<1> SUFFICES ASSUME ConInv, Putc PROVE ConInv'
  OBVIOUS
<1>1. ConTypes /\ Waits /\ Shown /\ TmpFits
  BY DEF ConInv
<1>2. /\ pending # <<>> /\ thr = <<>> /\ tsr = <<>>
      /\ thr' = <<Head(pending)>> /\ pending' = Tail(pending)
      /\ UNCHANGED <<con_pc, given, pos, conv, tsr, line, meant, broken>>
  BY DEF Putc, Writing
<1>3. pending \in Seq(Chars) /\ line \in Seq(Chars)
  BY <1>1 DEF ConTypes
<1>4. Head(pending) \in Chars /\ Tail(pending) \in Seq(Chars)
      /\ <<Head(pending)>> \o Tail(pending) = pending
  BY <1>2, <1>3, HeadAndTail
<1>5. <<Head(pending)>> \in Seq(Chars)
  BY <1>4, Singly
<1>6. ConTypes'
  BY <1>1, <1>2, <1>4, <1>5 DEF ConTypes, given, conv
<1>7. con_pc \notin {"convert", "digits"}
  BY <1>1, <1>2 DEF Waits
<1>8. Shown'
  <2>1. Out = line /\ Out' = line \o <<Head(pending)>>
    <3>1. line \o <<>> = line
      BY <1>3, JoinedEmpty
    <3>2. Out = line
      BY <1>2, <3>1 DEF Out
    <3>3. Out' = (line \o <<>>) \o <<Head(pending)>>
      BY <1>2 DEF Out
    <3> QED BY <3>1, <3>2, <3>3
  <2>2. Out' \o Tail(pending) = line \o (<<Head(pending)>> \o Tail(pending))
    BY <1>3, <1>4, <1>5, <2>1, JoinedThrice
  <2>3. Out \o pending = meant
    BY <1>1, <1>7 DEF Shown
  <2> QED BY <1>2, <1>4, <2>1, <2>2, <2>3 DEF Shown
<1>9. Waits' /\ Converting'
  BY <1>2, <1>7 DEF Waits, Converting
<1>10. TmpFits'
  BY <1>1, <1>2 DEF TmpFits, conv
<1> QED BY <1>6, <1>8, <1>9, <1>10 DEF ConInv

LEMMA ShiftKeeps == ConInv /\ Shift => ConInv'
<1> SUFFICES ASSUME ConInv, Shift PROVE ConInv'
  OBVIOUS
<1>1. ConTypes /\ Waits /\ Shown /\ TmpFits /\ Converting
  BY DEF ConInv
<1>2. UNCHANGED <<con_pc, given, pos, conv, pending, meant, broken>>
  BY DEF Shift
<1>3. thr \in Seq(Chars) /\ tsr \in Seq(Chars) /\ line \in Seq(Chars) /\ <<>> \in Seq(Chars)
  BY <1>1 DEF ConTypes
<1>4. /\ thr' \in Seq(Chars) /\ tsr' \in Seq(Chars) /\ line' \in Seq(Chars)
      /\ Out' = Out
  <2>1. CASE thr # <<>> /\ tsr = <<>> /\ tsr' = thr /\ thr' = <<>> /\ UNCHANGED line
    <3>1. Out = (line \o <<>>) \o thr
      BY <2>1 DEF Out
    <3>2. Out' = (line \o thr) \o <<>>
      BY <2>1 DEF Out
    <3>3. line \o <<>> = line
      BY <1>3, JoinedEmpty
    <3>4. line \o thr \in Seq(Chars)
      BY <1>3, Joined
    <3>5. (line \o thr) \o <<>> = line \o thr
      BY <3>4, JoinedEmpty
    <3> QED BY <1>3, <2>1, <3>1, <3>2, <3>3, <3>5
  <2>2. CASE tsr # <<>> /\ line' = line \o tsr /\ tsr' = <<>> /\ UNCHANGED thr
    <3>1. line \o tsr \in Seq(Chars)
      BY <1>3, Joined
    <3>2. Out' = ((line \o tsr) \o <<>>) \o thr
      BY <2>2 DEF Out
    <3>3. (line \o tsr) \o <<>> = line \o tsr
      BY <3>1, JoinedEmpty
    <3> QED BY <1>3, <2>2, <3>1, <3>2, <3>3 DEF Out
  <2> QED BY <2>1, <2>2 DEF Shift
<1>5. ConTypes'
  BY <1>1, <1>2, <1>4 DEF ConTypes, given, conv
<1>6. Waits' /\ TmpFits'
  BY <1>1, <1>2 DEF Waits, TmpFits, conv
<1>7. Shown'
  BY <1>1, <1>2, <1>4 DEF Shown
<1>8. Converting'
  <2> SUFFICES ASSUME con_pc' = "digits" PROVE \E v \in 0 .. UintLimit - 1 : IsTaken(v)'
    BY DEF Converting
  <2>1. PICK v \in 0 .. UintLimit - 1 : IsTaken(v)
    BY <1>1, <1>2 DEF Converting
  <2>2. Padding' = Padding
    BY <1>2 DEF Padding, conv
  <2>3. /\ value' = value /\ base' = base /\ tmpbuf' = tmpbuf /\ width' = width
        /\ meant' = meant
    BY <1>2 DEF conv
  <2>4. IsTaken(v)'
    BY <1>4, <2>1, <2>2, <2>3 DEF IsTaken
  <2> QED BY <2>4
<1> QED BY <1>5, <1>6, <1>7, <1>8 DEF ConInv

LEMMA CharAt ==
  ASSUME str \in Seq(STRING), pos \in Nat \ {0}, pos <= Len(str)
  PROVE  str[pos] \in Chars
<1>1. pos \in DOMAIN str
  OBVIOUS
<1>2. str[pos] \in STRING
  BY <1>1, Element
<1> QED BY <1>2 DEF Chars

(* What a put leaves of the invariant but the types. *)
LEMMA PutKeeps ==
  ASSUME ConInv, con_pc \in {"scan", "convert"}, con_pc = "scan" => pending = <<>>,
         NEW s \in Seq(Chars), pending' = s, meant' = meant \o s,
         con_pc' = "scan", UNCHANGED <<given, conv, uart>>, pos' \in Nat \ {0}
  PROVE  ConInv'
<1>1. ConTypes /\ Waits /\ Shown /\ TmpFits /\ pending = <<>> /\ con_pc # "digits"
  BY DEF ConInv, Waits
<1>2. pending' \in Seq(Chars) /\ meant' \in Seq(Chars) /\ Shown'
  BY <1>1, PutShows
<1>3. ConTypes'
  BY <1>1, <1>2 DEF ConTypes, given, conv, uart
<1>4. Waits' /\ Converting'
  BY DEF Waits, Converting
<1>5. TmpFits'
  BY <1>1 DEF TmpFits, conv
<1> QED BY <1>2, <1>3, <1>4, <1>5 DEF ConInv

LEMMA PlainKeeps == ConInv /\ Plain => ConInv'
<1> SUFFICES ASSUME ConInv, Plain PROVE ConInv'
  OBVIOUS
<1> DEFINE s == (IF NeedsCR THEN <<"CR">> ELSE <<>>) \o <<str[pos]>>
<1>1. /\ con_pc = "scan" /\ pending = <<>> /\ pos <= Len(str)
      /\ pending' = s /\ meant' = meant \o s
      /\ pos' = pos + 1 /\ UNCHANGED <<con_pc, given, conv, uart, broken>>
  BY DEF Plain, Put
<1>2. str \in Seq(STRING) /\ pos \in Nat \ {0}
  BY DEF ConInv, ConTypes
<1>3. s \in Seq(Chars)
  <2>1. <<str[pos]>> \in Seq(Chars)
    BY <1>1, <1>2, CharAt, Singly
  <2>2. <<"CR">> \in Seq(Chars) /\ <<>> \in Seq(Chars)
    BY SomeChars, Singly
  <2>3. (IF NeedsCR THEN <<"CR">> ELSE <<>>) \in Seq(Chars)
    BY <2>2
  <2> DEFINE x == IF NeedsCR THEN <<"CR">> ELSE <<>>
             y == <<str[pos]>>
  <2> HIDE DEF x, y
  <2>4. x \in Seq(Chars) /\ y \in Seq(Chars)
    BY <2>1, <2>3 DEF x, y
  <2>5. x \o y \in Seq(Chars)
    BY <2>4, Joined
  <2> QED BY <2>5 DEF x, y
<1>4. con_pc' = "scan" /\ pos' \in Nat \ {0} /\ UNCHANGED <<given, conv, uart>>
  BY <1>1, <1>2
<1> HIDE DEF s
<1> QED BY <1>1, <1>3, <1>4, PutKeeps

LEMMA FinishKeeps == ConInv /\ Finish => ConInv'
<1> SUFFICES ASSUME ConInv, Finish PROVE ConInv'
  OBVIOUS
<1>1. /\ con_pc = "scan" /\ con_pc' \in {"done", "lost"}
      /\ UNCHANGED <<given, pos, conv, pending, uart, meant, broken>>
  BY DEF Finish
<1>2. ConTypes /\ Shown /\ TmpFits
  BY DEF ConInv
<1>3. ConTypes'
  BY <1>1, <1>2 DEF ConTypes, given, conv, uart
<1>4. Out' = Out
  BY <1>1 DEF Out, uart
<1>5. Shown' /\ Waits' /\ Converting'
  BY <1>1, <1>2, <1>4 DEF Shown, Waits, Converting
<1>6. TmpFits'
  BY <1>1, <1>2 DEF TmpFits, conv
<1> QED BY <1>3, <1>5, <1>6 DEF ConInv

LEMMA PercentKeeps == ConInv /\ Percent => ConInv'
<1> SUFFICES ASSUME ConInv, Percent PROVE ConInv'
  OBVIOUS
<1>1. /\ con_pc = "scan" /\ con_pc' = "convert" /\ pending = <<>>
      /\ UNCHANGED <<given, value, base, tmpbuf, pending, uart, meant, broken>>
  BY DEF Percent
<1>2. ConTypes /\ Shown /\ TmpFits
  BY DEF ConInv
<1>3. pos' \in Nat \ {0} /\ width' \in Nat
  <2>1. pos \in Nat \ {0} /\ str \in Seq(STRING)
    BY <1>2 DEF ConTypes
  <2> DEFINE p == pos + 2
  <2>2. p \in Nat \ {0}
    BY <2>1
  <2>3. CASE At(pos + 1) = "0" /\ IsDigit(At(p))
    <3>1. WidthEnd(p) \in Nat \ {0} /\ WidthValue(p) \in Nat
      <4> HIDE DEF p
      <4> QED BY <2>1, <2>2, <2>3, WidthIs
    <3> QED BY <2>3, <3>1 DEF Percent
  <2>4. CASE ~(At(pos + 1) = "0" /\ IsDigit(At(p)))
    <3>1. width' = 0 /\ pos' = IF At(pos + 1) = "0" THEN pos + 2 ELSE pos + 1
      BY <2>4 DEF Percent
    <3> QED BY <2>1, <3>1
  <2> QED BY <2>3, <2>4
<1>4. ConTypes'
  BY <1>1, <1>2, <1>3 DEF ConTypes, given, uart
<1>5. Out' = Out
  BY <1>1 DEF Out, uart
<1>6. Shown' /\ Waits' /\ Converting'
  BY <1>1, <1>2, <1>5 DEF Shown, Waits, Converting
<1>7. TmpFits'
  BY <1>1, <1>2 DEF TmpFits
<1> QED BY <1>4, <1>6, <1>7 DEF ConInv

LEMMA TextKeeps == ConInv /\ Text => ConInv'
<1> SUFFICES ASSUME ConInv, Text PROVE ConInv'
  OBVIOUS
<1>1. PICK s \in Strings : PrintFmtOne(s) /\ meant' = meant \o Filled(s, Padding, width)
  BY DEF Text
<1>2. /\ con_pc = "convert" /\ pos' = pos + 1 /\ con_pc' = "scan"
      /\ UNCHANGED <<given, conv, uart, broken>>
  BY DEF Text
<1>3. ConTypes
  BY DEF ConInv
<1>4. s \in Seq(Chars)
  BY ConsoleAssumption, FromChars
<1>5. Filled(s, Padding, width) \in Seq(Chars)
  BY <1>3, <1>4, FilledIs, PaddingIs DEF ConTypes
<1>6. pending' = Filled(s, Padding, width)
  BY <1>1 DEF PrintFmtOne
<1>7. pos' \in Nat \ {0}
  BY <1>2, <1>3 DEF ConTypes
<1> QED BY <1>1, <1>2, <1>5, <1>6, <1>7, PutKeeps

LEMMA SignKeeps == ConInv /\ Sign => ConInv'
<1> SUFFICES ASSUME ConInv, Sign PROVE ConInv'
  OBVIOUS
<1>1. /\ con_pc = "convert" /\ pending' = <<"%">> /\ meant' = meant \o <<"%">>
      /\ pos' = pos + 2 /\ con_pc' = "scan" /\ UNCHANGED <<given, conv, uart>>
  BY DEF Sign, Put
<1>2. pos' \in Nat \ {0}
  BY <1>1 DEF ConInv, ConTypes
<1>3. <<"%">> \in Seq(Chars)
  BY SomeChars, Singly
<1> QED BY <1>1, <1>2, <1>3, PutKeeps

LEMMA OtherKeeps == ConInv /\ Other => ConInv'
<1> SUFFICES ASSUME ConInv, Other PROVE ConInv'
  OBVIOUS
<1>1. con_pc = "convert" /\ con_pc' = "scan" /\ UNCHANGED <<given, conv, uart>>
  BY DEF Other
<1>2. pos \in Nat \ {0} /\ str \in Seq(STRING)
  BY DEF ConInv, ConTypes
<1>3. CASE At(pos) = "end"
  <2>1. pending' = <<"%">> /\ meant' = meant \o <<"%">> /\ pos' = pos
    BY <1>3 DEF Other, Put
  <2>2. <<"%">> \in Seq(Chars)
    BY SomeChars, Singly
  <2> QED BY <1>1, <1>2, <2>1, <2>2, PutKeeps
<1>4. CASE At(pos) # "end"
  <2> DEFINE s == <<"%", str[pos]>>
  <2>1. pending' = s /\ meant' = meant \o s /\ pos' = pos + 1
    BY <1>4 DEF Other, Put
  <2>2. pos <= Len(str)
    BY <1>4 DEF At
  <2>3. s \in Seq(Chars)
    BY <1>2, <2>2, CharAt, SomeChars
  <2>4. pos' \in Nat \ {0}
    BY <1>2, <2>1
  <2> HIDE DEF s
  <2> QED BY <1>1, <2>1, <2>3, <2>4, PutKeeps
<1> QED BY <1>3, <1>4

LEMMA DigitAtIs ==
  ASSUME NEW v \in Nat, NEW x \in {10, 16}, NEW j \in Nat
  PROVE  DigitAt(v, x, j) \in Chars
<1>1. x \in Nat /\ x > 1
  OBVIOUS
<1>2. PowerOf(x)[j] \in Nat \ {0}
  BY <1>1, PowerGrows
<1>3. v \div PowerOf(x)[j] \in Nat
  BY <1>2, DivMod
<1> QED BY <1>3, DigitIn DEF DigitAt

LEMMA NumeralExists ==
  ASSUME NEW v \in 0 .. UintLimit - 1, NEW x \in {10, 16}
  PROVE  Numeral(v, x) \in Seq(Chars)
<1> DEFINE p == PowerOf(x)
           T == {n \in Nat : n # 0 /\ v < p[n]}
<1>0. x \in Nat /\ x > 1 /\ v \in Nat
  BY ConsoleAssumption
<1>1. \A i \in Nat : p[i] \in Nat /\ i < p[i]
  BY <1>0, PowerGrows
<1> HIDE DEF p
<1>2. v + 1 \in T /\ T \subseteq Nat
  <2>1. v + 1 \in Nat /\ v + 1 # 0 /\ v < v + 1
    BY <1>0
  <2>2. v + 1 < p[v + 1] /\ p[v + 1] \in Nat
    BY <1>1, <2>1
  <2> QED BY <1>0, <2>1, <2>2
<1>3. PICK n \in T : \A k \in T : n <= k
  BY <1>2, Least
<1>4. n \in Nat \ {0} /\ v < p[n]
  BY <1>3
<1>5. n = 1 \/ v >= p[n - 1]
  <2> SUFFICES ASSUME n # 1, ~(v >= p[n - 1]) PROVE FALSE
    OBVIOUS
  <2>1. n - 1 \in Nat /\ n - 1 # 0 /\ ~(n <= n - 1)
    BY <1>4
  <2>2. p[n - 1] \in Nat
    BY <1>1, <2>1
  <2>3. v < p[n - 1]
    BY <1>0, <2>2
  <2>4. n - 1 \in T
    BY <2>1, <2>3
  <2> QED BY <1>3, <2>1, <2>4
<1>6. HasPlaces(v, x, n)
  BY <1>4, <1>5 DEF HasPlaces, p
<1> DEFINE s == [j \in 1 .. n |-> DigitAt(v, x, j - 1)]
<1>7. ASSUME NEW j \in 1 .. n
      PROVE  s[j] \in Chars /\ s[j] = DigitAt(v, x, j - 1)
  <2>1. j - 1 \in Nat
    BY <1>4
  <2> QED BY <1>0, <2>1, DigitAtIs
<1>8. DOMAIN s = 1 .. n /\ s \in [1 .. n -> Chars]
  BY <1>7
<1> HIDE DEF s
<1>9. s \in Seq(Chars) /\ Len(s) = n
  BY <1>4, <1>8
<1>10. Numeral(v, x) = [j \in 1 .. n |-> s[n + 1 - j]]
  BY <1>0, <1>4, <1>6, <1>7, <1>8, NumeralIs
<1>11. [j \in 1 .. Len(s) |-> s[Len(s) + 1 - j]] \in Seq(Chars)
  BY <1>9, ReverseIs
<1> QED BY <1>9, <1>10, <1>11

LEMMA UnsignedKeeps == ConInv /\ Unsigned => ConInv'
<1> SUFFICES ASSUME ConInv, Unsigned PROVE ConInv'
  OBVIOUS
<1>0. PICK v \in Values : v = value'
  BY DEF Unsigned
<1> DEFINE t == Filled(Numeral(v, base'), Padding, width)
<1>1. /\ con_pc = "convert" /\ base' \in {10, 16}
      /\ tmpbuf' = <<>> /\ con_pc' = "digits" /\ meant' = meant \o t
      /\ UNCHANGED <<given, pos, width, zeropfx, pending, uart, broken>>
  BY <1>0 DEF Unsigned
<1>2. ConTypes /\ Shown /\ pending = <<>>
  BY <1>1 DEF ConInv, Waits
<1>3. v \in 0 .. UintLimit - 1
  BY ConsoleAssumption
<1>4. t \in Seq(Chars)
  <2>1. Numeral(v, base') \in Seq(Chars)
    BY <1>1, <1>3, NumeralExists
  <2> QED BY <1>2, <2>1, FilledIs, PaddingIs DEF ConTypes
<1>5. meant' \in Seq(Chars)
  <2> HIDE DEF t
  <2> QED BY <1>1, <1>2, <1>4, Joined DEF ConTypes
<1>6. ConTypes'
  BY <1>1, <1>2, <1>5 DEF ConTypes, given, uart
<1>7. Out' = Out /\ Out = meant
  <2>1. Out \in Seq(Chars)
    BY <1>2, OutIs
  <2>2. Out = meant
    BY <1>1, <1>2, <2>1, JoinedEmpty DEF Shown
  <2> QED BY <1>1, <2>2 DEF Out, uart
<1>8. IsTaken(v)'
  <2>1. Len(tmpbuf') = 0 /\ base' \in Nat
    BY <1>1
  <2>2. PowerOf(base')[0] = 1
    BY <2>1, PowerIs
  <2>0. v \in Nat
    BY <1>3, ConsoleAssumption
  <2>3. v = v \div 1
    BY <2>0
  <2>4. Padding' = Padding /\ width' = width
    BY <1>1 DEF Padding
  <2>5. meant' = Out' \o Filled(Numeral(v, base'), Padding', width')
    BY <1>1, <1>7, <2>4
  <2>6. value' = v \div PowerOf(base')[Len(tmpbuf')]
    BY <1>0, <2>1, <2>2, <2>3
  <2> HIDE DEF t
  <2>7. /\ \A j \in 1 .. Len(tmpbuf') : tmpbuf'[j] = DigitAt(v, base', j - 1)
        /\ Len(tmpbuf') > 1 => v >= PowerOf(base')[Len(tmpbuf') - 1]
    BY <2>1
  <2> QED BY <2>5, <2>6, <2>7 DEF IsTaken
<1>9. Converting'
  BY <1>3, <1>8 DEF Converting
<1>10. Waits' /\ Shown'
  BY <1>1, <1>2 DEF Waits, Shown
<1>11. TmpFits'
  BY <1>1, ConsoleAssumption DEF TmpFits
<1> QED BY <1>6, <1>9, <1>10, <1>11 DEF ConInv

(* One more digit. *)
LEMMA DigitTaken ==
  ASSUME ConInv, con_pc = "digits", DigitsLeft, NEW v \in 0 .. UintLimit - 1, IsTaken(v),
         tmpbuf' = Append(tmpbuf, Digits[(value % base) + 1]), value' = value \div base,
         UNCHANGED <<con_pc, pos, pending>>,
         UNCHANGED <<given, width, zeropfx, base, uart, meant, broken>>
  PROVE  tmpbuf' \in Seq(Chars) /\ IsTaken(v)' /\ TmpFits'
<1> DEFINE n == Len(tmpbuf)
           p == PowerOf(base)
           c == Digits[(value % base) + 1]
<1>1. ConTypes /\ TmpFits
  BY DEF ConInv
<1>2. /\ base \in {10, 16} /\ tmpbuf \in Seq(Chars) /\ n \in Nat
      /\ v \in Nat /\ v < UintLimit /\ UintLimit \in Nat
  BY <1>1, ConsoleAssumption DEF ConTypes
<1>3. base \in Nat /\ base > 1 /\ base \in Nat \ {0}
  BY <1>2
<1>4. /\ \A i \in Nat : p[i] \in Nat \ {0}
      /\ \A i \in Nat : p[i + 1] = base * p[i]
  BY <1>3, PowerGrows, PowerIs
<1>5. /\ value = v \div p[n]
      /\ \A j \in 1 .. n : tmpbuf[j] = DigitAt(v, base, j - 1)
      /\ meant = Out \o Filled(Numeral(v, base), Padding, width)
  BY DEF IsTaken
<1>6. c = DigitAt(v, base, n)
  BY <1>5 DEF DigitAt
<1>7. c \in Chars
  BY <1>2, <1>6, DigitAtIs
<1> HIDE DEF c
<1>8. /\ tmpbuf' \in Seq(Chars) /\ Len(tmpbuf') = n + 1
      /\ \A i \in 1 .. n : tmpbuf'[i] = tmpbuf[i]
      /\ tmpbuf'[n + 1] = c
  BY <1>2, <1>7, AppendProperties DEF c
<1>9. value' = v \div p[n + 1]
  <2>1. p[n] \in Nat \ {0} /\ p[n + 1] = base * p[n]
    BY <1>2, <1>4
  <2> DEFINE m == p[n]
  <2>2. m \in Nat \ {0} /\ value' = (v \div m) \div base
    BY <1>5, <2>1
  <2> HIDE DEF m, p
  <2>3. (v \div m) \div base = v \div (m * base)
    BY <1>2, <1>3, <2>2, DividedTwice
  <2>4. m * base = base * m
    BY <1>3, <2>2
  <2> QED BY <2>1, <2>2, <2>3, <2>4 DEF m
<1>10. n > 0 => v >= p[n]
  <2> SUFFICES ASSUME n > 0, ~(v >= p[n]) PROVE FALSE
    OBVIOUS
  <2> DEFINE m == p[n]
  <2>1. m \in Nat \ {0}
    BY <1>2, <1>4
  <2> HIDE DEF p
  <2>2. v \in 0 .. m - 1
    BY <1>2, <2>1
  <2> HIDE DEF m
  <2>3. v \div m = 0
    BY <2>1, <2>2, ModBelow
  <2>4. value = 0
    BY <1>5, <2>3 DEF m
  <2>5. tmpbuf # <<>>
    BY <1>2
  <2> QED BY <2>4, <2>5 DEF DigitsLeft
<1>11. \A j \in 1 .. n + 1 : tmpbuf'[j] = DigitAt(v, base, j - 1)
  <2> SUFFICES ASSUME NEW j \in 1 .. n + 1 PROVE tmpbuf'[j] = DigitAt(v, base, j - 1)
    OBVIOUS
  <2>1. CASE j = n + 1
    <3>1. j - 1 = n
      BY <1>2, <2>1
    <3> QED BY <1>6, <1>8, <2>1, <3>1
  <2>2. CASE j # n + 1
    <3>1. j \in 1 .. n
      BY <1>2, <2>2
    <3> QED BY <1>5, <1>8, <3>1
  <2> QED BY <2>1, <2>2
<1>12. Padding' = Padding /\ Out' = Out /\ width' = width /\ base' = base /\ meant' = meant
  BY DEF Padding, Out, uart
<1>13. IsTaken(v)'
  <2>1. (n + 1) - 1 = n /\ (n + 1 > 1 => n > 0)
    BY <1>2
  <2>2. value' = v \div PowerOf(base')[Len(tmpbuf')]
    BY <1>8, <1>9, <1>12
  <2>3. \A j \in 1 .. Len(tmpbuf') : tmpbuf'[j] = DigitAt(v, base', j - 1)
    BY <1>8, <1>11, <1>12
  <2>4. Len(tmpbuf') > 1 => v >= PowerOf(base')[Len(tmpbuf') - 1]
    BY <1>8, <1>10, <1>12, <2>1
  <2>5. meant' = Out' \o Filled(Numeral(v, base'), Padding', width')
    BY <1>5, <1>12
  <2> QED BY <2>2, <2>3, <2>4, <2>5 DEF IsTaken
<1>14. TmpFits'
  <2> DEFINE m == IF base = 10 THEN TmpDec ELSE TmpHex
  <2>1. m \in Nat \ {0} /\ UintLimit <= p[m]
    BY <1>2, ConsoleAssumption
  <2> HIDE DEF m, p
  <2>2. n + 1 <= m
    <3>1. CASE n = 0
      BY <2>1, <3>1
    <3>2. CASE n # 0
      <4>1. v >= p[n]
        BY <1>2, <1>10, <3>2
      <4>5. p[n] \in Nat /\ p[m] \in Nat
        BY <1>2, <1>4, <2>1
      <4>2. p[n] < p[m]
        BY <1>2, <2>1, <4>1, <4>5
      <4>3. ASSUME m <= n PROVE p[m] <= p[n]
        BY <1>2, <1>3, <2>1, <4>3, PowerMono DEF p
      <4>4. ~(m <= n)
        BY <4>2, <4>3, <4>5
      <4> QED BY <1>2, <2>1, <4>4
    <3> QED BY <3>1, <3>2
  <2> QED BY <1>8, <1>12, <2>2 DEF TmpFits, m
<1> QED BY <1>8, <1>13, <1>14

(* The digits turned round are the number. *)
LEMMA DigitsDone ==
  ASSUME ConInv, con_pc = "digits", ~DigitsLeft, NEW v \in 0 .. UintLimit - 1, IsTaken(v)
  PROVE  [j \in 1 .. Len(tmpbuf) |-> tmpbuf[Len(tmpbuf) + 1 - j]] = Numeral(v, base)
<1> DEFINE n == Len(tmpbuf)
           p == PowerOf(base)
<1>1. ConTypes
  BY DEF ConInv
<1>2. /\ base \in {10, 16} /\ tmpbuf \in Seq(Chars) /\ n \in Nat /\ DOMAIN tmpbuf = 1 .. n
      /\ v \in Nat
  BY <1>1, ConsoleAssumption DEF ConTypes
<1>3. base \in Nat /\ base > 1
  BY <1>2
<1>4. value = 0 /\ n \in Nat \ {0}
  BY <1>2 DEF DigitsLeft
<1>5. /\ value = v \div p[n] /\ (n > 1 => v >= p[n - 1])
      /\ \A j \in 1 .. n : tmpbuf[j] = DigitAt(v, base, j - 1)
  BY DEF IsTaken
<1>6. p[n] \in Nat \ {0}
  BY <1>3, <1>4, PowerGrows
<1>7. v < p[n]
  <2> DEFINE m == p[n]
  <2>1. m \in Nat \ {0} /\ v \div m = 0
    BY <1>4, <1>5, <1>6
  <2> HIDE DEF m
  <2>2. v = m * (v \div m) + (v % m) /\ v % m \in 0 .. m - 1
    BY <1>2, <2>1, DivMod
  <2>3. v < m
    BY <1>2, <2>1, <2>2
  <2> QED BY <2>3 DEF m
<1>8. HasPlaces(v, base, n)
  <2>1. n = 1 \/ n > 1
    <3> HIDE DEF n
    <3> QED BY <1>4
  <2> QED BY <1>5, <1>7, <2>1 DEF HasPlaces
<1> QED BY <1>2, <1>3, <1>4, <1>5, <1>8, NumeralIs

LEMMA ToDigitsKeeps == ConInv /\ ToDigits => ConInv'
<1> SUFFICES ASSUME ConInv, ToDigits PROVE ConInv'
  OBVIOUS
<1>1. con_pc = "digits" /\ UNCHANGED <<given, width, zeropfx, base, uart, meant, broken>>
  BY DEF ToDigits
<1>2. ConTypes /\ Waits
  BY DEF ConInv
<1>3. PICK v \in 0 .. UintLimit - 1 : IsTaken(v)
  BY <1>1 DEF ConInv, Converting
<1>4. Out' = Out
  BY <1>1 DEF Out, uart
<1>5. CASE DigitsLeft
  <2>1. /\ tmpbuf' = Append(tmpbuf, Digits[(value % base) + 1])
        /\ value' = value \div base /\ UNCHANGED <<con_pc, pos, pending>>
    BY <1>5 DEF ToDigits
  <2>2. tmpbuf' \in Seq(Chars) /\ IsTaken(v)' /\ TmpFits'
    BY <1>1, <1>3, <1>5, <2>1, DigitTaken
  <2>3. ConTypes'
    BY <1>1, <1>2, <2>1, <2>2 DEF ConTypes, given, uart
  <2>4. Waits' /\ Shown'
    BY <1>1, <1>2, <2>1 DEF Waits, Shown
  <2>5. Converting'
    BY <2>2 DEF Converting
  <2> QED BY <2>2, <2>3, <2>4, <2>5 DEF ConInv
<1>6. CASE ~DigitsLeft
  <2> DEFINE s == [j \in 1 .. Len(tmpbuf) |-> tmpbuf[Len(tmpbuf) + 1 - j]]
             t == Filled(Numeral(v, base), Padding, width)
  <2>1. /\ PrintFmtOne(s) /\ con_pc' = "scan" /\ pos' = pos + 1
        /\ UNCHANGED <<tmpbuf, value>>
    BY <1>6 DEF ToDigits
  <2>2. s = Numeral(v, base)
    BY <1>1, <1>3, <1>6, DigitsDone
  <2>3. pending' = t
    BY <2>1, <2>2 DEF PrintFmtOne
  <2>4. Numeral(v, base) \in Seq(Chars)
    BY <1>2, NumeralExists DEF ConTypes
  <2>5. t \in Seq(Chars)
    BY <1>2, <2>4, FilledIs, PaddingIs DEF ConTypes
  <2>6. Out \o t = meant
    BY <1>3 DEF IsTaken
  <2> HIDE DEF s, t
  <2>7. ConTypes'
    BY <1>1, <1>2, <2>1, <2>3, <2>5 DEF ConTypes, given, uart
  <2>8. Shown'
    BY <1>1, <1>4, <2>3, <2>6 DEF Shown
  <2>9. Waits' /\ Converting'
    BY <2>1 DEF Waits, Converting
  <2>10. TmpFits'
    BY <1>1, <2>1 DEF ConInv, TmpFits
  <2> QED BY <2>7, <2>8, <2>9, <2>10 DEF ConInv
<1> QED BY <1>5, <1>6

LEMMA ConInvNext == ConInv /\ [ConNext]_con => ConInv'
<1>1. ConInv /\ UNCHANGED con => ConInv'
  <2> SUFFICES ASSUME ConInv, UNCHANGED con PROVE ConInv'
    OBVIOUS
  <2>1. UNCHANGED <<con_pc, given, pos, conv, pending, uart, meant, broken>>
    BY DEF con
  <2>2. ConTypes /\ Waits /\ Shown /\ Converting /\ TmpFits
    BY DEF ConInv
  <2>3. Out' = Out /\ Padding' = Padding
    BY <2>1 DEF Out, uart, Padding, conv
  <2>4. ConTypes'
    BY <2>1, <2>2 DEF ConTypes, given, conv, uart
  <2>5. Waits' /\ Shown' /\ TmpFits'
    BY <2>1, <2>2, <2>3 DEF Waits, Shown, TmpFits, conv
  <2>6. ASSUME NEW v \in 0 .. UintLimit - 1, IsTaken(v)
        PROVE  IsTaken(v)'
    <3>1. /\ value' = value /\ base' = base /\ tmpbuf' = tmpbuf /\ width' = width
          /\ meant' = meant
      BY <2>1 DEF conv
    <3> QED BY <2>3, <2>6, <3>1 DEF IsTaken
  <2>7. Converting'
    BY <2>1, <2>2, <2>6 DEF Converting
  <2> QED BY <2>4, <2>5, <2>7 DEF ConInv
<1> QED
  BY <1>1, PutcKeeps, ShiftKeeps, PlainKeeps, FinishKeeps, PercentKeeps, UnsignedKeeps,
     ToDigitsKeeps, TextKeeps, SignKeeps, OtherKeeps DEF ConNext

(* Whatever is printed: what was put is on its way, in its place. *)
THEOREM ConInvHolds == ConSpec => []ConInv
BY ConInvInit, ConInvNext, PTL DEF ConSpec

LEMMA ConsoleIs == ConInv => ShowsWhatIsMeant
<1> SUFFICES ASSUME ConInv PROVE ShowsWhatIsMeant
  OBVIOUS
<1>1. con_pc # "digits" => ((line \o tsr) \o thr) \o pending = meant
  BY DEF ConInv, Shown, Out
<1> QED BY <1>1 DEF ConInv, TmpFits, ShowsWhatIsMeant

(* Every character of a format and of what it asks for goes out once, in   *)
(* its place, the numbers with all of their digits, and tmpbuf is never    *)
(* too short for them, whatever is printed (printf, puts, putc).           *)
THEOREM ConsoleShows == ConSpec => []ShowsWhatIsMeant
BY ConsoleIs, ConInvHolds, PTL

-----------------------------------------------------------------------------
(* The model of all of them: the part that runs keeps its invariant, and   *)
(* the others are as they began.                                           *)
PartsInv ==
  /\ TimerInv /\ UdelayInv /\ SpiInv
  /\ IF part = "memory" THEN MemoryInv ELSE PoolAtRest
  /\ IF part = "arith" THEN ArithInv ELSE ArithAtRest
  /\ IF part = "sum" THEN SumInv ELSE SumAtRest
  /\ IF part = "console" THEN ConInv ELSE ConsoleAtRest

LEMMA PartsStep ==
  ASSUME [LNext]_leaves
  PROVE  /\ part' = part
         /\ [Next]_vars /\ [SpiNext]_spi
         /\ [PoolNext]_memvars /\ (part # "memory" => UNCHANGED memvars)
         /\ [ArithNext]_div /\ (part # "arith" => UNCHANGED div)
         /\ [SumNext]_sum /\ (part # "sum" => UNCHANGED sum)
         /\ [ConNext]_con /\ (part # "console" => UNCHANGED con)
BY DEF LNext, leaves

LEMMA PartsInvInit == LInit => PartsInv
<1> SUFFICES ASSUME LInit PROVE PartsInv
  OBVIOUS
<1>1. TimerInv /\ UdelayInv
  BY TimerInvInit DEF LInit, Init, UdelayInv, Waiting1, DelayLasts1
<1>2. SpiInv
  BY SpiInvInit DEF LInit
<1>3. IF part = "memory" THEN MemoryInv ELSE PoolAtRest
  BY MemoryInvInit DEF LInit
<1>4. IF part = "arith" THEN ArithInv ELSE ArithAtRest
  BY ArithInvInit DEF LInit
<1>5. IF part = "sum" THEN SumInv ELSE SumAtRest
  BY SumInvInit DEF LInit
<1>6. IF part = "console" THEN ConInv ELSE ConsoleAtRest
  BY ConInvInit DEF LInit
<1> QED BY <1>1, <1>2, <1>3, <1>4, <1>5, <1>6 DEF PartsInv

LEMMA PartsInvNext == PartsInv /\ [LNext]_leaves => PartsInv'
<1> SUFFICES ASSUME PartsInv, [LNext]_leaves PROVE PartsInv'
  OBVIOUS
<1>0. part' = part
  BY PartsStep
<1>1. TimerInv' /\ UdelayInv'
  <2>1. TimerInv /\ UdelayInv /\ [Next]_vars
    BY PartsStep DEF PartsInv
  <2> QED BY <2>1, TimerInvNext, UdelayInvNext
<1>2. SpiInv'
  <2>1. SpiInv /\ [SpiNext]_spi
    BY PartsStep DEF PartsInv
  <2> QED BY <2>1, SpiInvNext
<1>3. (IF part = "memory" THEN MemoryInv ELSE PoolAtRest)'
  <2>1. CASE part = "memory"
    <3>1. MemoryInv /\ [PoolNext]_memvars
      BY <2>1, PartsStep DEF PartsInv
    <3> QED BY <1>0, <2>1, <3>1, MemoryInvNext
  <2>2. CASE part # "memory"
    <3>1. PoolAtRest /\ UNCHANGED memvars
      BY <2>2, PartsStep DEF PartsInv
    <3>2. PoolAtRest'
      BY <3>1 DEF PoolAtRest, memvars, probe, sizing, pool
    <3> QED BY <1>0, <2>2, <3>2
  <2> QED BY <2>1, <2>2
<1>4. (IF part = "arith" THEN ArithInv ELSE ArithAtRest)'
  <2>1. CASE part = "arith"
    <3>1. ArithInv /\ [ArithNext]_div
      BY <2>1, PartsStep DEF PartsInv
    <3> QED BY <1>0, <2>1, <3>1, ArithInvNext
  <2>2. CASE part # "arith"
    <3>1. ArithAtRest /\ UNCHANGED div
      BY <2>2, PartsStep DEF PartsInv
    <3>2. ArithAtRest'
      BY <3>1 DEF ArithAtRest, div, operands, working
    <3> QED BY <1>0, <2>2, <3>2
  <2> QED BY <2>1, <2>2
<1>5. (IF part = "sum" THEN SumInv ELSE SumAtRest)'
  <2>1. CASE part = "sum"
    <3>1. SumInv /\ [SumNext]_sum
      BY <2>1, PartsStep DEF PartsInv
    <3> QED BY <1>0, <2>1, <3>1, SumInvNext
  <2>2. CASE part # "sum"
    <3>1. SumAtRest /\ UNCHANGED sum
      BY <2>2, PartsStep DEF PartsInv
    <3>2. SumAtRest'
      BY <3>1 DEF SumAtRest, sum
    <3> QED BY <1>0, <2>2, <3>2
  <2> QED BY <2>1, <2>2
<1>6. (IF part = "console" THEN ConInv ELSE ConsoleAtRest)'
  <2>1. CASE part = "console"
    <3>1. ConInv /\ [ConNext]_con
      BY <2>1, PartsStep DEF PartsInv
    <3> QED BY <1>0, <2>1, <3>1, ConInvNext
  <2>2. CASE part # "console"
    <3>1. ConsoleAtRest /\ UNCHANGED con
      BY <2>2, PartsStep DEF PartsInv
    <3>2. ConsoleAtRest'
      BY <3>1 DEF ConsoleAtRest, con, given, conv, uart
    <3> QED BY <1>0, <2>2, <3>2
  <2> QED BY <2>1, <2>2
<1> QED BY <1>1, <1>2, <1>3, <1>4, <1>5, <1>6 DEF PartsInv

(* What each part promises, whether it runs or not. *)
LEMMA PartsAreRight ==
  PartsInv => /\ ElapsedIsRight /\ DelaysLast /\ NoEarlyTimeout /\ WaitsNoLonger
              /\ TransfersAreRight /\ SizeIsRight /\ MemoryIsKept /\ BlocksApart
              /\ ArithmeticIsRight /\ ShowsWhatIsMeant
<1> SUFFICES ASSUME PartsInv
             PROVE  /\ ElapsedIsRight /\ DelaysLast /\ NoEarlyTimeout /\ WaitsNoLonger
                    /\ TransfersAreRight /\ SizeIsRight /\ MemoryIsKept /\ BlocksApart
                    /\ ArithmeticIsRight /\ ShowsWhatIsMeant
  OBVIOUS
<1>1. ElapsedIsRight /\ DelaysLast /\ NoEarlyTimeout /\ WaitsNoLonger
  BY DEF PartsInv, TimerInv, UdelayInv, Measured, Running, Lasted, ElapsedIsRight,
         DelaysLast, DelayLasts2, NoEarlyTimeout
<1>2. TransfersAreRight
  BY TransfersAre DEF PartsInv
<1>3. SizeIsRight /\ MemoryIsKept /\ BlocksApart
  <2>1. CASE part = "memory"
    BY <2>1, MemoryIs, BlocksAre DEF PartsInv
  <2>2. CASE part # "memory"
    <3>1. /\ mem_pc = "rest" /\ mem = <<>> /\ before = <<>> /\ blocks = <<>>
      BY <2>2 DEF PartsInv, PoolAtRest
    <3> QED BY <3>1 DEF SizeIsRight, MemoryIsKept, BlocksApart
  <2> QED BY <2>1, <2>2
<1>4. DividesRight /\ ShiftsRight
  <2>1. CASE part = "arith"
    BY <2>1, ArithIs DEF PartsInv
  <2>2. CASE part # "arith"
    <3>1. div_pc = "rest"
      BY <2>2 DEF PartsInv, ArithAtRest
    <3> QED BY <3>1 DEF DividesRight, ShiftsRight, Accounted
  <2> QED BY <2>1, <2>2
<1>5. SumIsRight
  <2>1. CASE part = "sum"
    BY <2>1 DEF PartsInv, SumInv
  <2>2. CASE part # "sum"
    BY <2>2 DEF PartsInv, SumAtRest, SumIsRight
  <2> QED BY <2>1, <2>2
<1>6. ShowsWhatIsMeant
  <2>1. CASE part = "console"
    BY <2>1, ConsoleIs DEF PartsInv
  <2>2. CASE part # "console"
    <3>1. /\ line = <<>> /\ tsr = <<>> /\ thr = <<>> /\ pending = <<>> /\ meant = <<>>
          /\ tmpbuf = <<>> /\ base = 10
      BY <2>2 DEF PartsInv, ConsoleAtRest
    <3> QED BY <3>1, ConsoleAssumption DEF ShowsWhatIsMeant
  <2> QED BY <2>1, <2>2
<1> QED BY <1>1, <1>2, <1>3, <1>4, <1>5, <1>6 DEF ArithmeticIsRight

(* Every part, whichever runs, keeps its promise for the timers, the SPI   *)
(* master, the memory, the arithmetic, the checksum and the console, and   *)
(* no register the controller works from is touched.                       *)
THEOREM PartsKeepTheirPromises ==
  LSpec => /\ []ElapsedIsRight /\ []DelaysLast /\ []NoEarlyTimeout /\ []WaitsNoLonger
           /\ []TransfersAreRight /\ LeavesTheControllerAlone
           /\ []SizeIsRight /\ []MemoryIsKept /\ []BlocksApart
           /\ []ArithmeticIsRight /\ []ShowsWhatIsMeant
<1>1. LSpec => []PartsInv
  BY PartsInvInit, PartsInvNext, PTL DEF LSpec
<1>2. PartsInv /\ [LNext]_leaves => [busy => UNCHANGED <<registers, cs>>]_spi
  <2> SUFFICES ASSUME PartsInv, [LNext]_leaves
               PROVE  [busy => UNCHANGED <<registers, cs>>]_spi
    OBVIOUS
  <2>1. SpiInv /\ [SpiNext]_spi
    BY PartsStep DEF PartsInv
  <2> QED BY <2>1, ControllerStays
<1> QED BY <1>1, <1>2, PartsAreRight, PTL DEF LSpec, LeavesTheControllerAlone
=============================================================================
