-------------------------- MODULE Stage1LoadProofs --------------------------
(***************************************************************************)
(* Proofs about Stage1Load: for any page, line and cache size, any header  *)
(* and any flash, stage 2 is entered whole and with the chip as it should  *)
(* be.  The core is that the lines of an image not larger than the cache   *)
(* have indices of their own, those behind its end on the last page too.   *)
(***************************************************************************)
EXTENDS Stage1Load, TLAPS

(* Quotients and remainders. *)
LEMMA DivMod ==
  ASSUME NEW a \in Nat, NEW b \in Nat \ {0}
  PROVE  /\ a \div b \in Nat /\ a % b \in 0 .. b - 1
         /\ a = b * (a \div b) + (a % b)
OBVIOUS

LEMMA DivModOfSum ==
  ASSUME NEW b \in Nat \ {0}, NEW q \in Nat, NEW r \in 0 .. b - 1
  PROVE  (b * q + r) \div b = q /\ (b * q + r) % b = r
OBVIOUS

LEMMA Multiple ==
  ASSUME NEW b \in Nat \ {0}, NEW q \in Nat
  PROVE  (b * q) \div b = q /\ (b * q) % b = 0
OBVIOUS

(* Multiples of n: a smaller one is smaller by n at least. *)
LEMMA Apart ==
  ASSUME NEW n \in Nat \ {0}, NEW a \in Nat, NEW b \in Nat,
         a % n = 0, b % n = 0, a < b
  PROVE  a + n <= b
<1> DEFINE i == a \div n  j == b \div n
<1>1. a = n * i /\ b = n * j /\ i \in Nat /\ j \in Nat
  BY DivMod
<1> HIDE DEF i, j
<1>2. i < j
  <2> SUFFICES ASSUME j <= i PROVE FALSE
    BY <1>1
  <2>1. n * j <= n * i
    BY <1>1
  <2> QED BY <1>1, <2>1
<1>3. i + 1 <= j
  BY <1>1, <1>2
<1>4. n * (i + 1) <= n * j /\ n * (i + 1) = n * i + n
  BY <1>1, <1>3
<1> QED BY <1>1, <1>4

LEMMA SumOfMultiples ==
  ASSUME NEW n \in Nat \ {0}, NEW a \in Nat, NEW b \in Nat, a % n = 0, b % n = 0
  PROVE  (a + b) % n = 0 /\ (a + b) \div n = (a \div n) + (b \div n)
<1> DEFINE i == a \div n  j == b \div n
<1>1. a = n * i /\ b = n * j /\ i \in Nat /\ j \in Nat
  BY DivMod
<1> HIDE DEF i, j
<1>2. a + b = n * (i + j) /\ i + j \in Nat
  BY <1>1
<1> QED BY <1>2, Multiple DEF i, j

LEMMA MultipleOfMultiple ==
  ASSUME NEW n \in Nat \ {0}, NEW m \in Nat \ {0}, NEW a \in Nat,
         m % n = 0, a % m = 0
  PROVE  a % n = 0
<1> DEFINE k == m \div n  q == a \div m
<1>1. m = n * k /\ a = m * q /\ k \in Nat /\ q \in Nat
  BY DivMod
<1> HIDE DEF k, q
<1>2. a = n * (k * q) /\ k * q \in Nat
  BY <1>1
<1> QED BY <1>2, Multiple

(* The next multiple of n. *)
LEMMA RoundedUp ==
  ASSUME NEW a \in Nat, NEW n \in Nat \ {0}
  PROVE  /\ UpTo(a, n) \in Nat /\ UpTo(a, n) % n = 0
         /\ a <= UpTo(a, n) /\ UpTo(a, n) < a + n
<1> DEFINE x == a + n - 1
<1>1. x \in Nat
  OBVIOUS
<1> HIDE DEF x
<1>2. x = n * (x \div n) + (x % n) /\ x \div n \in Nat /\ x % n \in 0 .. n - 1
  BY <1>1, DivMod
<1>3. x - (x % n) = n * (x \div n) /\ n * (x \div n) \in Nat
  BY <1>1, <1>2
<1>4. (n * (x \div n)) % n = 0
  BY <1>2, Multiple
<1>5. UpTo(a, n) = x - (x % n)
  BY DEF UpTo, DownTo, x
<1>6. a <= x - (x % n) /\ x - (x % n) < a + n
  BY <1>2 DEF x
<1> QED BY <1>3, <1>4, <1>5, <1>6

LEMMA RoundedDown ==
  ASSUME NEW a \in Nat, NEW n \in Nat \ {0}, a % n = 0
  PROVE  DownTo(a, n) = a
BY DEF DownTo

-----------------------------------------------------------------------------
(* Lines and their indices.                                                *)

LEMMA Sizes1 ==
  /\ PageSize \in Nat \ {0} /\ LineSize \in Nat \ {0} /\ L2Size \in Nat \ {0}
  /\ PageSize % LineSize = 0 /\ L2Size % PageSize = 0 /\ L2Size % LineSize = 0
BY GeometryAssumption, MultipleOfMultiple

LEMMA IndexOfLine ==
  ASSUME NEW k \in Nat
  PROVE  Index(LineSize * k) = k % (L2Size \div LineSize)
<1> DEFINE s == LineSize  l == L2Size \div LineSize  q == k \div l  r == k % l
<1>1. s \in Nat \ {0} /\ l \in Nat \ {0} /\ L2Size = s * l /\ L2Size \in Nat \ {0}
  <2>1. s \in Nat \ {0} /\ L2Size \in Nat \ {0} /\ L2Size % s = 0
    BY Sizes1
  <2>2. L2Size = s * l + (L2Size % s) /\ l \in Nat
    BY <2>1, DivMod
  <2>3. L2Size = s * l
    <3> HIDE DEF s, l
    <3> QED BY <2>1, <2>2
  <2>4. l # 0
    <3> HIDE DEF s, l
    <3> QED BY <2>1, <2>3
  <2> QED BY <2>1, <2>2, <2>3, <2>4
<1> HIDE DEF s, l
<1>2. k = l * q + r /\ q \in Nat /\ r \in 0 .. l - 1
  BY <1>1, DivMod
<1> HIDE DEF q, r
<1>3. s * k = L2Size * q + s * r
  <2>1. s * k = s * (l * q) + s * r
    BY <1>1, <1>2
  <2>2. s * (l * q) = (s * l) * q
    BY <1>1, <1>2
  <2> QED BY <1>1, <2>1, <2>2
<1>4. s * r \in 0 .. L2Size - 1
  <2>1. r + 1 <= l /\ r \in Nat
    BY <1>1, <1>2
  <2>2. s * (r + 1) <= s * l /\ s * (r + 1) = s * r + s /\ s * r \in Nat
    BY <1>1, <2>1
  <2> QED BY <1>1, <2>2
<1>5. (s * k) % L2Size = s * r
  <2> DEFINE x == s * r
  <2>1. s * k = L2Size * q + x /\ x \in 0 .. L2Size - 1
    BY <1>3, <1>4
  <2>2. L2Size \in Nat \ {0} /\ q \in Nat
    BY <1>1, <1>2
  <2> HIDE DEF x
  <2>3. (L2Size * q + x) % L2Size = x
    BY <2>1, <2>2, DivModOfSum
  <2> QED BY <2>1, <2>3 DEF x
<1>6. (s * r) \div s = r
  BY <1>1, <1>2, Multiple
<1> QED BY <1>5, <1>6 DEF Index, s, r, l

LEMMA SameRemainder ==
  ASSUME NEW n \in Nat \ {0}, NEW j \in Nat, NEW k \in Nat,
         j % n = k % n, j < k + n, k < j + n
  PROVE  j = k
<1> DEFINE p == j \div n  q == k \div n  r == j % n
<1>1. j = n * p + r /\ k = n * q + r /\ p \in Nat /\ q \in Nat /\ r \in Nat
  <2>1. j = n * p + r /\ p \in Nat /\ r \in 0 .. n - 1
    BY DivMod
  <2>2. k = n * q + (k % n) /\ q \in Nat
    BY DivMod
  <2> HIDE DEF p, q, r
  <2>3. k % n = r
    BY DEF r
  <2> QED BY <2>1, <2>2, <2>3
<1> HIDE DEF p, q, r
<1>2. ~(p < q)
  <2> SUFFICES ASSUME p < q PROVE FALSE
    OBVIOUS
  <2>1. p + 1 <= q
    BY <1>1
  <2>2. n * (p + 1) <= n * q /\ n * (p + 1) = n * p + n
    BY <1>1, <2>1
  <2> QED BY <1>1, <2>2
<1>3. ~(q < p)
  <2> SUFFICES ASSUME q < p PROVE FALSE
    OBVIOUS
  <2>1. q + 1 <= p
    BY <1>1
  <2>2. n * (q + 1) <= n * p /\ n * (q + 1) = n * q + n
    BY <1>1, <2>1
  <2> QED BY <1>1, <2>2
<1>4. p = q
  BY <1>1, <1>2, <1>3
<1> QED BY <1>1, <1>4

(* Two lines that are less than the cache apart have different indices. *)
LEMMA OneLinePerIndex ==
  ASSUME NEW a \in Nat, NEW b \in Nat, a % LineSize = 0, b % LineSize = 0,
         a < b + L2Size, b < a + L2Size, Index(a) = Index(b)
  PROVE  a = b
<1> DEFINE s == LineSize  l == L2Size \div LineSize  j == a \div s  k == b \div s
<1>1. s \in Nat \ {0} /\ L2Size \in Nat \ {0} /\ L2Size % s = 0
  BY Sizes1
<1>2. a = s * j /\ b = s * k /\ j \in Nat /\ k \in Nat
  <2>1. a = s * j + (a % s) /\ j \in Nat
    BY <1>1, DivMod
  <2>2. b = s * k + (b % s) /\ k \in Nat
    BY <1>1, DivMod
  <2>3. a % s = 0 /\ b % s = 0
    OBVIOUS
  <2> HIDE DEF s, j, k
  <2> QED BY <1>1, <2>1, <2>2, <2>3
<1>3. L2Size = s * l /\ l \in Nat
  <2>1. L2Size = s * l + (L2Size % s) /\ l \in Nat
    BY <1>1, DivMod
  <2> HIDE DEF s, l
  <2> QED BY <1>1, <2>1
<1>4. j % l = k % l
  BY <1>2, IndexOfLine
<1> HIDE DEF s, l, j, k
<1>5. j < k + l
  <2> SUFFICES ASSUME k + l <= j PROVE FALSE
    BY <1>2, <1>3
  <2>1. s * (k + l) <= s * j /\ s * (k + l) = s * k + s * l
    BY <1>1, <1>2, <1>3
  <2> QED BY <1>2, <1>3, <2>1 DEF s
<1>6. k < j + l
  <2> SUFFICES ASSUME j + l <= k PROVE FALSE
    BY <1>2, <1>3
  <2>1. s * (j + l) <= s * k /\ s * (j + l) = s * j + s * l
    BY <1>1, <1>2, <1>3
  <2> QED BY <1>2, <1>3, <2>1 DEF s
<1>7. l # 0
  BY <1>1, <1>3
<1> QED BY <1>2, <1>3, <1>4, <1>5, <1>6, <1>7, SameRemainder

(* The lines of a range that starts at one. *)
LEMMA LineInRange ==
  ASSUME NEW base \in Nat, base % LineSize = 0, NEW n \in Nat,
         NEW a \in LinesOf(base, n)
  PROVE  a \in Nat /\ a % LineSize = 0 /\ base <= a /\ a < base + n
<1> DEFINE s == LineSize  u == UpTo(base + n, s)
<1>1. s \in Nat \ {0} /\ base + n \in Nat
  BY Sizes1
<1>2. u \in Nat /\ u % s = 0 /\ u < base + n + s
  BY <1>1, RoundedUp
<1>3. DownTo(base, s) = base
  BY <1>1, RoundedDown
<1>4. a \in base .. u - 1 /\ a % s = 0
  BY <1>3 DEF LinesOf
<1> HIDE DEF s, u
<1>5. a \in Nat /\ base <= a /\ a < u
  BY <1>2, <1>4
<1>6. a + s <= u
  BY <1>1, <1>2, <1>4, <1>5, Apart
<1> QED BY <1>1, <1>2, <1>4, <1>5, <1>6 DEF s

(* The line at an address is in the page at that address, or behind it.    *)
LEMMA LineOfPage ==
  ASSUME NEW p \in Nat, p % PageSize = 0, NEW j \in 0 .. LinesPerPage - 1
  PROVE  /\ p + j * LineSize \in Nat /\ p + j * LineSize < p + PageSize
         /\ (p + j * LineSize) % LineSize = 0
         /\ PageAddress(p + j * LineSize) = PageAddress(p)
         /\ ((p + j * LineSize) % PageSize) \div LineSize = j
<1> DEFINE s == LineSize  g == PageSize  m == LinesPerPage  q == p \div g  x == j * s
<1>1. s \in Nat \ {0} /\ g \in Nat \ {0} /\ g % s = 0
  BY Sizes1
<1>2. g = s * m /\ m \in Nat
  <2>1. g = s * m + (g % s) /\ m \in Nat
    BY <1>1, DivMod DEF LinesPerPage
  <2> HIDE DEF s, g, m
  <2> QED BY <1>1, <2>1
<1>3. p = g * q /\ q \in Nat
  <2>1. p = g * q + (p % g) /\ q \in Nat
    BY <1>1, DivMod
  <2>2. p % g = 0
    OBVIOUS
  <2> HIDE DEF g, q
  <2> QED BY <1>1, <2>1, <2>2
<1>4. j \in Nat /\ j + 1 <= m
  BY <1>2
<1>5. x = s * j /\ x \in 0 .. g - 1
  <2> HIDE DEF s, g, m
  <2>1. s * (j + 1) <= s * m /\ s * (j + 1) = s * j + s /\ s * j \in Nat /\ x = s * j
    BY <1>1, <1>2, <1>4
  <2> HIDE DEF x
  <2> QED BY <1>1, <1>2, <2>1
<1>6. x % s = 0 /\ x \div s = j
  BY <1>1, <1>4, <1>5, Multiple
<1>7. (p + x) \div g = q /\ (p + x) % g = x
  <2> HIDE DEF g, q, x
  <2> QED BY <1>1, <1>3, <1>5, DivModOfSum
<1>8. p % s = 0
  BY <1>1, MultipleOfMultiple
<1>9. (p + x) % s = 0
  <2>1. x \in Nat
    BY <1>1, <1>5
  <2> HIDE DEF x
  <2> QED BY <1>1, <1>6, <1>8, <2>1, SumOfMultiples
<1>10. p + x \in Nat /\ p + x < p + g
  <2> HIDE DEF x, g
  <2> QED BY <1>1, <1>5
<1> QED BY <1>6, <1>7, <1>9, <1>10 DEF PageAddress

(* The other way round: a line of a page is one of its lines. *)
LEMMA LineNumber ==
  ASSUME NEW p \in Nat, p % LineSize = 0, NEW a \in Nat, a % LineSize = 0,
         p <= a, a < p + PageSize
  PROVE  \E j \in 0 .. LinesPerPage - 1 : a = p + j * LineSize
<1> DEFINE s == LineSize  g == PageSize  m == LinesPerPage
           i == p \div s  k == a \div s
<1>1. s \in Nat \ {0} /\ g \in Nat \ {0} /\ g % s = 0
  BY Sizes1
<1>2. g = s * m /\ m \in Nat
  <2>1. g = s * m + (g % s) /\ m \in Nat
    BY <1>1, DivMod DEF LinesPerPage
  <2> HIDE DEF s, g, m
  <2> QED BY <1>1, <2>1
<1>3. p = s * i /\ a = s * k /\ i \in Nat /\ k \in Nat
  <2>1. p = s * i + (p % s) /\ i \in Nat
    BY <1>1, DivMod
  <2>2. a = s * k + (a % s) /\ k \in Nat
    BY <1>1, DivMod
  <2>3. p % s = 0 /\ a % s = 0
    OBVIOUS
  <2> HIDE DEF s, i, k
  <2> QED BY <1>1, <2>1, <2>2, <2>3
<1>4. a < p + g
  OBVIOUS
<1> HIDE DEF s, g, m, i, k
<1>5. i <= k
  <2> SUFFICES ASSUME k + 1 <= i PROVE FALSE
    BY <1>3
  <2>1. s * (k + 1) <= s * i /\ s * (k + 1) = s * k + s
    BY <1>1, <1>3
  <2> QED BY <1>1, <1>3, <2>1
<1>6. k < i + m
  <2> SUFFICES ASSUME i + m <= k PROVE FALSE
    BY <1>2, <1>3
  <2>1. s * (i + m) <= s * k /\ s * (i + m) = s * i + s * m
    BY <1>1, <1>2, <1>3
  <2> QED BY <1>1, <1>2, <1>3, <1>4, <2>1
<1>7. k - i \in 0 .. m - 1
  BY <1>2, <1>3, <1>5, <1>6
<1>8. p + (k - i) * s = a
  <2>1. (k - i) * s = s * k - s * i
    BY <1>1, <1>3
  <2> QED BY <1>3, <2>1
<1> QED BY <1>7, <1>8 DEF s, m

(* Dividing twice is dividing by the product. *)
LEMMA DividedTwice ==
  ASSUME NEW a \in Nat, NEW p \in Nat \ {0}, NEW b \in Nat \ {0}
  PROVE  (a \div p) \div b = a \div (p * b)
<1> DEFINE q == a \div p  r == a % p  u == q \div b  v == q % b
<1>1. a = p * q + r /\ q \in Nat /\ r \in 0 .. p - 1
  BY DivMod
<1> HIDE DEF q, r
<1>2. q = b * u + v /\ u \in Nat /\ v \in 0 .. b - 1
  BY <1>1, DivMod
<1> HIDE DEF u, v
<1>3. p * b \in Nat \ {0}
  OBVIOUS
<1>4. a = (p * b) * u + (p * v + r)
  BY <1>1, <1>2
<1>5. p * v + r \in 0 .. p * b - 1
  <2>1. v + 1 <= b /\ v \in Nat
    BY <1>2
  <2>2. p * (v + 1) <= p * b /\ p * (v + 1) = p * v + p /\ p * v \in Nat
    BY <2>1
  <2> QED BY <1>1, <2>2
<1>6. a \div (p * b) = u
  <2> DEFINE n == p * b  x == p * v + r
  <2>1. n \in Nat \ {0} /\ a = n * u + x /\ x \in 0 .. n - 1 /\ u \in Nat
    BY <1>2, <1>3, <1>4, <1>5
  <2> HIDE DEF n, x
  <2>2. a \div n = u
    BY <2>1, DivModOfSum
  <2> QED BY <2>2 DEF n
<1> QED BY <1>6 DEF u, q

(* A larger address is not in an earlier page. *)
LEMMA PagesInOrder ==
  ASSUME NEW a \in Nat, NEW b \in Nat, a <= b
  PROVE  PageAddress(a) \in Nat /\ PageAddress(a) <= PageAddress(b)
<1> DEFINE g == PageSize  i == a \div g  j == b \div g
<1>1. g \in Nat \ {0}
  BY Sizes1
<1>2. a = g * i + (a % g) /\ i \in Nat /\ a % g \in 0 .. g - 1
  BY <1>1, DivMod
<1>3. b = g * j + (b % g) /\ j \in Nat /\ b % g \in 0 .. g - 1
  BY <1>1, DivMod
<1> HIDE DEF g, i, j
<1>4. i <= j
  <2> SUFFICES ASSUME j + 1 <= i PROVE FALSE
    BY <1>2, <1>3
  <2>1. g * (j + 1) <= g * i /\ g * (j + 1) = g * j + g
    BY <1>1, <1>2, <1>3
  <2> QED BY <1>1, <1>2, <1>3, <2>1
<1> QED BY <1>2, <1>4 DEF PageAddress, g, i, j

(* The column address names the register the page was loaded into. *)
LEMMA PlaneIsRegister ==
  ASSUME NEW a \in Nat
  PROVE  /\ (IF Planes = 1 THEN 0 ELSE PlaneBit(a)) = RegisterOf(PageAddress(a))
         /\ RegisterOf(PageAddress(a)) \in Registers /\ PlaneBit(a) \in 0 .. 1
<1>1. PageSize \in Nat \ {0} /\ PagesPerBlock \in Nat \ {0} /\ Planes \in {1, 2}
  BY GeometryAssumption
<1> DEFINE x == a \div (PageSize * PagesPerBlock)
<1>2. (a \div PageSize) \div PagesPerBlock = x
  BY <1>1, DividedTwice
<1>3. x \in Nat
  <2> DEFINE n == PageSize * PagesPerBlock
  <2>1. n \in Nat \ {0}
    BY <1>1
  <2> HIDE DEF n
  <2>2. a \div n \in Nat
    BY <2>1, DivMod
  <2> QED BY <2>2 DEF n
<1>4. RegisterOf(PageAddress(a)) = x % Planes /\ PlaneBit(a) = x % 2
  BY <1>2 DEF RegisterOf, PageAddress, PlaneBit
<1> HIDE DEF x
<1>5. x % 2 \in 0 .. 1 /\ x % 1 = 0
  BY <1>3
<1>6. CASE Planes = 1
  BY <1>4, <1>5, <1>6 DEF Registers
<1>7. CASE Planes = 2
  BY <1>4, <1>5, <1>7 DEF Registers
<1> QED BY <1>1, <1>6, <1>7

LEMMA RegisterOfPage0 == RegisterOf(0) = 0 /\ PageAddress(0) = 0
<1>1. PageSize \in Nat \ {0} /\ PagesPerBlock \in Nat \ {0} /\ Planes \in {1, 2}
  BY GeometryAssumption
<1>2. PageSize * 0 = 0 /\ PagesPerBlock * 0 = 0 /\ Planes * 0 = 0
  BY <1>1
<1>3. 0 \div PageSize = 0 /\ 0 \div PagesPerBlock = 0 /\ 0 % Planes = 0
  <2>1. 0 \div PageSize = 0
    BY <1>1, <1>2, Multiple
  <2>2. 0 \div PagesPerBlock = 0
    BY <1>1, <1>2, Multiple
  <2>3. 0 % Planes = 0
    BY <1>1
  <2> QED BY <2>1, <2>2, <2>3
<1> QED BY <1>3 DEF RegisterOf, PageAddress

-----------------------------------------------------------------------------
(* What a header may say, and where the copy of its image ends.            *)

LEMMA HeaderType ==
  ASSUME NEW h \in Headers
  PROVE  /\ h.loadaddr \in Nat /\ h.loadaddr % LineSize = 0
         /\ h.size \in Nat \ {0} /\ h.size <= L2Size
         /\ PageSize + h.size <= FlashPages * PageSize
<1>1. h.loadaddr \in LoadAddrs /\ h.size \in Sizes
  BY DEF Headers
<1>2. h.loadaddr \in Nat /\ h.loadaddr % LineSize = 0
  BY <1>1, ImageAssumption
<1>3. h.size \in 1 .. L2Size /\ L2Size \in Nat
  BY <1>1, ImageAssumption, GeometryAssumption
<1>4. PageSize + h.size <= FlashPages * PageSize
  BY <1>1, ImageAssumption
<1> QED BY <1>2, <1>3, <1>4

(* The end is within the cache and within the flash. *)
LEMMA EndOfImage ==
  ASSUME NEW h \in Headers
  PROVE  /\ EndOf(PageSize, h.size) \in Nat
         /\ EndOf(PageSize, h.size) % PageSize = 0
         /\ PageSize + h.size <= EndOf(PageSize, h.size)
         /\ EndOf(PageSize, h.size) <= PageSize + L2Size
         /\ EndOf(PageSize, h.size) <= FlashPages * PageSize
<1> DEFINE g == PageSize  n == h.size  e == UpTo(g + n, g)  f == FlashPages * g
<1>1. g \in Nat \ {0} /\ n \in Nat \ {0} /\ n <= L2Size /\ g + n <= f
      /\ L2Size \in Nat \ {0} /\ L2Size % g = 0 /\ FlashPages \in Nat
  BY HeaderType, Sizes1, GeometryAssumption
<1>2. e \in Nat /\ e % g = 0 /\ g + n <= e /\ e < g + n + g
  <2>1. g + n \in Nat /\ g \in Nat \ {0}
    BY <1>1
  <2> HIDE DEF g, n
  <2> QED BY <2>1, RoundedUp
<1>3. f \in Nat /\ f % g = 0
  <2>1. f = g * FlashPages
    BY <1>1
  <2> QED BY <1>1, <2>1, Multiple
<1>4. (g + L2Size) % g = 0
  <2>1. g % g = 0
    BY <1>1
  <2> QED BY <1>1, <2>1, SumOfMultiples
<1> HIDE DEF g, n, e, f
<1>5. e <= f
  <2> SUFFICES ASSUME f < e PROVE FALSE
    BY <1>2, <1>3
  <2>1. f + g <= e
    BY <1>1, <1>2, <1>3, Apart
  <2> QED BY <1>1, <1>2, <1>3, <2>1
<1>6. e <= g + L2Size
  <2> SUFFICES ASSUME g + L2Size < e PROVE FALSE
    BY <1>1, <1>2
  <2>1. (g + L2Size) + g <= e
    <3> DEFINE m == g + L2Size
    <3>1. m \in Nat /\ m % g = 0 /\ m < e
      BY <1>1, <1>4
    <3>2. e \in Nat /\ e % g = 0 /\ g \in Nat \ {0}
      BY <1>1, <1>2
    <3> HIDE DEF m
    <3>3. m + g <= e
      BY <3>1, <3>2, Apart
    <3> QED BY <3>3 DEF m
  <2> QED BY <1>1, <1>2, <2>1
<1> QED BY <1>1, <1>2, <1>5, <1>6 DEF EndOf, g, n, e, f

(* An address before the end of the flash is in one of its pages. *)
LEMMA PageOfAddress ==
  ASSUME NEW a \in Nat, a < FlashPages * PageSize
  PROVE  PageAddress(a) \in Pages
<1> DEFINE g == PageSize  q == a \div g
<1>1. g \in Nat \ {0} /\ FlashPages \in Nat
  BY GeometryAssumption
<1>2. a = g * q + (a % g) /\ q \in Nat /\ a % g \in 0 .. g - 1
  BY <1>1, DivMod
<1>3. a < FlashPages * g
  OBVIOUS
<1> HIDE DEF g, q
<1>4. q < FlashPages
  <2> SUFFICES ASSUME FlashPages <= q PROVE FALSE
    BY <1>1, <1>2
  <2>1. g * FlashPages <= g * q
    BY <1>1, <1>2
  <2> QED BY <1>1, <1>2, <1>3, <2>1
<1>5. q \in 0 .. FlashPages - 1
  BY <1>1, <1>2, <1>4
<1> QED BY <1>5 DEF PageAddress, Pages, q, g

(* There is a page 0, and there is a line in a page. *)
LEMMA PageZero ==
  ASSUME NEW h \in Headers
  PROVE  0 \in Pages /\ PageAddress(PageSize) \in Pages
<1>1. PageSize + h.size <= FlashPages * PageSize /\ h.size \in Nat \ {0}
  BY HeaderType
<1>2. PageSize \in Nat \ {0} /\ FlashPages \in Nat
  BY GeometryAssumption
<1>3. PageSize < FlashPages * PageSize /\ FlashPages * PageSize \in Nat
  BY <1>1, <1>2
<1>4. PageAddress(PageSize) \in Pages
  BY <1>2, <1>3, PageOfAddress
<1>5. 0 \in Pages
  BY <1>2, <1>3, PageOfAddress, RegisterOfPage0
<1> QED BY <1>4, <1>5

LEMMA LinesInPage == LinesPerPage \in Nat /\ 0 \in 0 .. LinesPerPage - 1
<1> DEFINE s == LineSize  g == PageSize  m == g \div s
<1>1. s \in Nat \ {0} /\ g \in Nat \ {0} /\ g % s = 0
  BY Sizes1
<1>2. g = s * m + (g % s) /\ m \in Nat
  BY <1>1, DivMod
<1> HIDE DEF s, g, m
<1>3. m # 0
  <2> SUFFICES ASSUME m = 0 PROVE FALSE
    OBVIOUS
  <2>1. s * m = 0
    BY <1>1
  <2> QED BY <1>1, <1>2, <2>1
<1>4. m \in Nat /\ 0 \in 0 .. m - 1
  BY <1>2, <1>3
<1> QED BY <1>4 DEF LinesPerPage, m, g, s

-----------------------------------------------------------------------------
(* The inductive invariant.                                                *)

(* A page as it comes from the flash with the ECC on. *)
Loaded(p) == [page |-> p, good |-> p \notin uncorr]

(* What was asked of the chip is what the next step reads. *)
Asked ==
  /\ pc = "load" => ~chip_busy
  /\ pc \notin {"start", "init"} => chip_ecc = TRUE
  /\ pc \in {"header", "data"} =>
       chip_pa = PageAddress(addr) /\ plane = PlaneBit(addr)
  /\ pc \in {"page0", "stage2"} => chip_pa = 0
  /\ pc \in {"header", "data", "page0", "stage2"} /\ ~chip_busy =>
       chip_reg[RegisterOf(chip_pa)] = Loaded(chip_pa)
  /\ pc = "stage2" => ~chip_busy

(* The copy is as far in the cache as in the flash. *)
Place ==
  /\ pc = "header" => addr = PageSize
  /\ pc = "data" =>
       /\ addr % PageSize = 0 /\ PageSize <= addr /\ addr < end
       /\ dstaddr = s2h.loadaddr + (addr - PageSize)
       /\ end = EndOf(PageSize, s2h.size)
  /\ pc \in {"page0", "stage2"} => s2h.loadaddr + s2h.size <= dstaddr

LineOfFlash(a) ==
  << Loaded(PageAddress(PageSize + (a - s2h.loadaddr))),
     ((a - s2h.loadaddr) % PageSize) \div LineSize >>

(* Every line of the image is locked, and filled when the copy is past it. *)
Copied ==
  pc \in {"data", "page0", "stage2"} =>
    /\ PageAddress(PageSize) \notin uncorr => s2h = image
    /\ \A a \in LinesOf(s2h.loadaddr, s2h.size) :
         /\ l2_tag[Index(a)] = a
         /\ a < dstaddr => l2_data[Index(a)] = LineOfFlash(a)

Stage1Inv == TypeOK /\ Asked /\ Place /\ Copied

-----------------------------------------------------------------------------
LEMMA InitStage1Inv == Init => Stage1Inv
<1> SUFFICES ASSUME Init PROVE Stage1Inv
  OBVIOUS
<1>1. image \in Headers /\ pc = "start" /\ uncorr \subseteq Pages
  BY DEF Init
<1>2. 0 \in Pages
  BY <1>1, PageZero
<1>3. 0 \in 0 .. LinesPerPage - 1
  BY LinesInPage
<1>4. TypeOK
  BY <1>1, <1>2, <1>3 DEF Init, TypeOK
<1>5. Asked /\ Place /\ Copied
  BY <1>1 DEF Asked, Place, Copied
<1> QED BY <1>4, <1>5 DEF Stage1Inv

(* An address of the copy is in the flash. *)
LEMMA CopyInFlash ==
  ASSUME TypeOK, Place, pc = "data"
  PROVE  /\ addr + PageSize \in Nat /\ (addr + PageSize) % PageSize = 0
         /\ addr + PageSize <= end
         /\ end <= PageSize + L2Size /\ end <= FlashPages * PageSize
         /\ PageSize + s2h.size <= end
         /\ (addr - PageSize) \in Nat /\ (addr - PageSize) % PageSize = 0
<1> DEFINE g == PageSize
<1>1. g \in Nat \ {0} /\ addr \in Nat /\ end \in Nat /\ s2h \in Headers
  BY Sizes1 DEF TypeOK
<1>2. addr % g = 0 /\ g <= addr /\ addr < end /\ end = EndOf(g, s2h.size)
  BY DEF Place
<1>3. end % g = 0 /\ end <= g + L2Size /\ end <= FlashPages * g /\ g + s2h.size <= end
  BY <1>1, <1>2, EndOfImage
<1>4. addr + g <= end
  <2> HIDE DEF g
  <2> QED BY <1>1, <1>2, <1>3, Apart
<1>5. g % g = 0
  BY <1>1
<1>6. (addr + g) % g = 0
  <2> HIDE DEF g
  <2> QED BY <1>1, <1>2, <1>5, SumOfMultiples
<1>7. (addr - g) % g = 0
  <2> DEFINE q == addr \div g
  <2>1. addr = g * q + (addr % g) /\ q \in Nat
    BY <1>1, DivMod
  <2> HIDE DEF q, g
  <2>2. addr = g * q /\ q # 0
    BY <1>1, <1>2, <2>1
  <2>3. addr - g = g * (q - 1) /\ q - 1 \in Nat
    BY <1>1, <2>1, <2>2
  <2> QED BY <1>1, <2>3, Multiple
<1> QED BY <1>1, <1>2, <1>3, <1>4, <1>6, <1>7

(* The page register read is the one the page was loaded into. *)
LEMMA WhatIsRead ==
  ASSUME TypeOK, Asked, pc \in {"header", "data"}, OipClear
  PROVE  CacheContent = Loaded(PageAddress(addr))
<1>1. addr \in Nat
  BY DEF TypeOK
<1>2. chip_pa = PageAddress(addr) /\ plane = PlaneBit(addr)
  BY DEF Asked
<1>3. chip_reg[RegisterOf(chip_pa)] = Loaded(chip_pa)
  BY DEF Asked, OipClear
<1>4. (IF Planes = 1 THEN 0 ELSE PlaneBit(addr)) = RegisterOf(PageAddress(addr))
  BY <1>1, PlaneIsRegister
<1> QED BY <1>2, <1>3, <1>4 DEF CacheContent

(* What the steps of the copy read and ask for is in the flash. *)
LEMMA NextPageType ==
  ASSUME TypeOK, Place, CopyPage
  PROVE  /\ addr' = addr + PageSize /\ addr' \in Nat /\ dstaddr' \in Nat
         /\ addr' < end => PageAddress(addr') \in Pages
         /\ PlaneBit(addr') \in 0 .. 1
<1>1. pc = "data" /\ addr' = addr + PageSize /\ dstaddr' = dstaddr + PageSize
  BY DEF CopyPage
<1>2. addr + PageSize \in Nat /\ end <= FlashPages * PageSize
  BY <1>1, CopyInFlash
<1>3. end \in Nat /\ dstaddr \in Nat /\ PageSize \in Nat /\ FlashPages \in Nat
  BY GeometryAssumption DEF TypeOK
<1>4. ASSUME addr' < end PROVE PageAddress(addr') \in Pages
  <2>1. addr' \in Nat /\ addr' < FlashPages * PageSize
    BY <1>1, <1>2, <1>3, <1>4
  <2> QED BY <2>1, PageOfAddress
<1>5. PlaneBit(addr + PageSize) \in 0 .. 1
  BY <1>2, PlaneIsRegister
<1> QED BY <1>1, <1>2, <1>3, <1>4, <1>5

LEMMA LockedLine ==
  ASSUME TypeOK', NEW i \in Indices, NEW a \in LockedAt(i)
  PROVE  a \in Nat /\ a % LineSize = 0 /\ Index(a) = i
         /\ s2h'.loadaddr <= a /\ a < s2h'.loadaddr + s2h'.size
<1>1. s2h' \in Headers
  BY DEF TypeOK
<1>2. s2h'.loadaddr \in Nat /\ s2h'.loadaddr % LineSize = 0 /\ s2h'.size \in Nat
  BY <1>1, HeaderType
<1>3. a \in LinesOf(s2h'.loadaddr, s2h'.size) /\ Index(a) = i
  BY DEF LockedAt
<1> QED BY <1>2, <1>3, LineInRange

LEMMA TypeStep1 ==
  ASSUME Stage1Inv, [Next]_vars
  PROVE  TypeOK'
<1> USE DEF Stage1Inv
<1>1. image \in Headers /\ image' = image
  BY DEF TypeOK, Next, Cpu, Start, SpiNandInit, LoadStage2, ReadHeader, CopyPage,
         EnterStage2, ChipReady, vars, flash
<1>2. 0 \in Pages /\ PageAddress(PageSize) \in Pages
  BY <1>1, PageZero
<1>3. CASE Start
  <2>1. BootCopy \in Nat
    BY GeometryAssumption
  <2> QED BY <1>3, <2>1 DEF TypeOK, Start, locals, chip, flash, l2
<1>4. CASE SpiNandInit
  BY <1>4 DEF TypeOK, SpiNandInit, locals, flash, l2
<1>5. CASE LoadStage2
  <2>1. PageSize \in Nat \ {0} /\ PageSize % PageSize = 0
    BY Sizes1
  <2>2. addr' = PageSize
    BY <1>5, <2>1, RoundedDown DEF LoadStage2, Stage2Offset
  <2>3. plane' \in 0 .. 1
    BY <1>5, <2>1, <2>2, PlaneIsRegister DEF LoadStage2
  <2>4. chip_busy' \in BOOLEAN /\ chip_pa' \in Pages
    BY <1>2, <1>5, <2>2 DEF LoadStage2, PageRead, TypeOK, chip
  <2>5. chip_ecc' = chip_ecc /\ chip_reg' = chip_reg
    BY <1>5 DEF LoadStage2, PageRead, chip
  <2> QED BY <1>5, <2>1, <2>2, <2>3, <2>4, <2>5 DEF TypeOK, LoadStage2, flash, l2
<1>6. CASE ReadHeader
  <2>1. s2h' \in Headers
    BY <1>1, <1>6 DEF ReadHeader
  <2>2. addr = PageSize
    BY <1>6 DEF ReadHeader, Place
  <2>3. end' \in Nat
    BY <1>6, <2>1, <2>2, EndOfImage DEF ReadHeader
  <2>4. s2h'.loadaddr \in Nat /\ s2h'.loadaddr % LineSize = 0 /\ s2h'.size \in Nat
    BY <2>1, HeaderType
  <2>5. dstaddr' \in Nat
    BY <1>6, <2>4 DEF ReadHeader
  <2>6. \A a \in LinesOf(s2h'.loadaddr, s2h'.size) : a \in Nat
    BY <2>4, LineInRange
  <2>7. \A i \in Indices : \A a \in LockedAt(i) : a \in Nat
    BY <2>6 DEF LockedAt
  <2>8. l2_tag' \in [Indices -> Nat \cup {NoTag, StaleTag}]
    <3>1. l2_tag' = [i \in Indices |-> IF LockedAt(i) = {} THEN l2_tag[i]
                                       ELSE CHOOSE a \in LockedAt(i) : TRUE]
      BY <1>6 DEF ReadHeader
    <3>2. ASSUME NEW i \in Indices
          PROVE  (IF LockedAt(i) = {} THEN l2_tag[i]
                  ELSE CHOOSE a \in LockedAt(i) : TRUE) \in Nat \cup {NoTag, StaleTag}
      <4>1. CASE LockedAt(i) = {}
        BY <4>1 DEF TypeOK
      <4>2. CASE LockedAt(i) # {}
        <5>1. (CHOOSE a \in LockedAt(i) : TRUE) \in LockedAt(i)
          BY <4>2
        <5> QED BY <4>2, <5>1, <2>7
      <4> QED BY <4>1, <4>2
    <3> QED BY <3>1, <3>2
  <2>9. l2_data' \in [Indices -> (Contents \cup {Nothing}) \X (0 .. LinesPerPage - 1)]
    <3>1. l2_data' = [i \in Indices |-> IF LockedAt(i) = {} THEN l2_data[i]
                                        ELSE <<Nothing, 0>>]
      BY <1>6 DEF ReadHeader
    <3>2. 0 \in 0 .. LinesPerPage - 1
      BY LinesInPage
    <3>3. ASSUME NEW i \in Indices
          PROVE  (IF LockedAt(i) = {} THEN l2_data[i] ELSE <<Nothing, 0>>)
                   \in (Contents \cup {Nothing}) \X (0 .. LinesPerPage - 1)
      BY <3>2 DEF TypeOK
    <3> QED BY <3>1, <3>3
  <2> QED BY <1>6, <2>1, <2>3, <2>5, <2>8, <2>9 DEF TypeOK, ReadHeader, chip, flash
<1>7. CASE CopyPage
  <2>1. /\ addr' = addr + PageSize /\ addr' \in Nat /\ dstaddr' \in Nat
        /\ addr' < end => PageAddress(addr') \in Pages
        /\ PlaneBit(addr') \in 0 .. 1
    BY <1>7, NextPageType
  <2>2. end \in Nat
    BY DEF TypeOK
  <2>3. pc' \in {"data", "page0"}
    BY <1>7 DEF CopyPage
  <2>4. plane' \in 0 .. 1
    BY <1>7, <2>1 DEF CopyPage, TypeOK
  <2>5. chip_busy' \in BOOLEAN /\ chip_pa' \in Pages
        /\ chip_ecc' = chip_ecc /\ chip_reg' = chip_reg
    <3>1. CASE addr' >= end
      BY <1>2, <1>7, <3>1 DEF CopyPage, RestorePage0, PageRead, TypeOK, chip
    <3>2. CASE ~(addr' >= end)
      <4>1. PageAddress(addr') \in Pages
        BY <2>1, <2>2, <3>2
      <4>2. PageRead(PageAddress(addr'))
        BY <1>7, <3>2 DEF CopyPage
      <4> DEFINE pa == PageAddress(addr')
      <4> HIDE DEF pa
      <4>3. pa \in Pages /\ PageRead(pa)
        BY <4>1, <4>2 DEF pa
      <4> QED BY <4>3 DEF PageRead, TypeOK, chip
    <3> QED BY <3>1, <3>2
  <2>6. l2_data' \in [Indices -> (Contents \cup {Nothing}) \X (0 .. LinesPerPage - 1)]
    <3>1. CacheContent \in Contents \cup {Nothing}
      <4>1. CacheContent = Loaded(PageAddress(addr))
        BY <1>7, WhatIsRead DEF CopyPage
      <4>2. addr < FlashPages * PageSize /\ addr \in Nat
        <5>1. end <= FlashPages * PageSize /\ pc = "data"
          BY <1>7, CopyInFlash DEF CopyPage
        <5>2. addr < end /\ addr \in Nat /\ FlashPages \in Nat /\ PageSize \in Nat
          BY <5>1, GeometryAssumption DEF Place, TypeOK
        <5> QED BY <2>2, <5>1, <5>2
      <4>3. PageAddress(addr) \in Pages
        BY <4>2, PageOfAddress
      <4> QED BY <4>1, <4>3 DEF Loaded, Contents
    <3>2. l2_data' = [i \in Indices |->
            LET k == {j \in 0 .. LinesPerPage - 1 :
                        Index(dstaddr + j * LineSize) = i}
            IN  IF k = {} THEN l2_data[i]
                ELSE <<CacheContent, CHOOSE j \in k : TRUE>>]
      BY <1>7 DEF CopyPage
    <3>3. ASSUME NEW i \in Indices
          PROVE  l2_data'[i] \in (Contents \cup {Nothing}) \X (0 .. LinesPerPage - 1)
      <4> DEFINE k == {j \in 0 .. LinesPerPage - 1 :
                         Index(dstaddr + j * LineSize) = i}
      <4>1. l2_data'[i] = IF k = {} THEN l2_data[i]
                          ELSE <<CacheContent, CHOOSE j \in k : TRUE>>
        BY <3>2
      <4>2. \A j \in k : j \in 0 .. LinesPerPage - 1
        OBVIOUS
      <4> HIDE DEF k
      <4>3. CASE k = {}
        BY <4>1, <4>3 DEF TypeOK
      <4>4. CASE k # {}
        <5>1. (CHOOSE j \in k : TRUE) \in k
          BY <4>4
        <5> QED BY <3>1, <4>1, <4>2, <4>4, <5>1
      <4> QED BY <4>3, <4>4
    <3> QED BY <3>2, <3>3
  <2> QED BY <1>7, <2>1, <2>3, <2>4, <2>5, <2>6 DEF TypeOK, CopyPage, flash
<1>8. CASE EnterStage2
  BY <1>8 DEF TypeOK, EnterStage2, locals, chip, flash, l2
<1>9. CASE ChipReady
  <2>1. [page |-> chip_pa, good |-> chip_ecc /\ chip_pa \notin uncorr] \in Contents
    BY DEF TypeOK, Contents
  <2> QED BY <1>9, <2>1 DEF TypeOK, ChipReady, locals, flash, l2
<1>10. CASE UNCHANGED vars
  BY <1>10 DEF TypeOK, vars, locals, chip, flash, l2
<1> QED BY <1>3, <1>4, <1>5, <1>6, <1>7, <1>8, <1>9, <1>10 DEF Next, Cpu

-----------------------------------------------------------------------------
LEMMA AskedStep ==
  ASSUME Stage1Inv, [Next]_vars
  PROVE  Asked'
<1> USE DEF Stage1Inv
<1>1. CASE Start
  BY <1>1 DEF Asked, Start, locals, chip, flash
<1>2. CASE SpiNandInit
  BY <1>2 DEF Asked, SpiNandInit, locals, flash
<1>3. CASE LoadStage2
  <2>1. PageSize \in Nat \ {0} /\ PageSize % PageSize = 0
    BY Sizes1
  <2>2. addr' = PageSize
    BY <1>3, <2>1, RoundedDown DEF LoadStage2, Stage2Offset
  <2>3. ~chip_busy /\ chip_ecc = TRUE
    BY <1>3 DEF LoadStage2, Asked
  <2>4. chip_busy' = TRUE /\ chip_pa' = PageAddress(addr') /\ chip_ecc' = TRUE
        /\ plane' = PlaneBit(addr') /\ pc' = "header"
    BY <1>3, <2>2, <2>3 DEF LoadStage2, PageRead
  <2> QED BY <2>4 DEF Asked
<1>4. CASE ReadHeader
  <2>1. pc = "header" /\ pc' = "data" /\ addr' = addr /\ plane' = plane
        /\ chip_busy' = chip_busy /\ chip_pa' = chip_pa /\ chip_reg' = chip_reg
        /\ chip_ecc' = chip_ecc /\ uncorr' = uncorr
    BY <1>4 DEF ReadHeader, chip, flash
  <2>2. chip_ecc = TRUE /\ chip_pa = PageAddress(addr) /\ plane = PlaneBit(addr)
    BY <2>1 DEF Asked
  <2>3. ~chip_busy => chip_reg[RegisterOf(chip_pa)] = Loaded(chip_pa)
    BY <2>1 DEF Asked
  <2>4. (chip_reg[RegisterOf(chip_pa)] = Loaded(chip_pa))' <=>
           (chip_reg[RegisterOf(chip_pa)] = Loaded(chip_pa))
    BY <2>1 DEF Loaded
  <2> QED BY <2>1, <2>2, <2>3, <2>4 DEF Asked
<1>5. CASE CopyPage
  <2>1. pc = "data" /\ ~chip_busy /\ chip_ecc = TRUE
    BY <1>5 DEF CopyPage, OipClear, Asked
  <2>2. CASE addr' >= end
    <3>1. chip_busy' = TRUE /\ chip_pa' = 0 /\ chip_ecc' = TRUE /\ pc' = "page0"
      BY <1>5, <2>1, <2>2 DEF CopyPage, RestorePage0, PageRead
    <3> QED BY <3>1 DEF Asked
  <2>3. CASE ~(addr' >= end)
    <3>1. PageRead(PageAddress(addr')) /\ plane' = PlaneBit(addr') /\ pc' = pc
      BY <1>5, <2>3 DEF CopyPage
    <3>2. chip_busy' = TRUE /\ chip_pa' = PageAddress(addr') /\ chip_ecc' = TRUE
      <4> DEFINE pa == PageAddress(addr')
      <4> HIDE DEF pa
      <4>1. PageRead(pa)
        BY <3>1 DEF pa
      <4>2. chip_busy' = TRUE /\ chip_pa' = pa /\ chip_ecc' = TRUE
        BY <2>1, <4>1 DEF PageRead
      <4> QED BY <4>2 DEF pa
    <3> QED BY <2>1, <3>1, <3>2 DEF Asked
  <2> QED BY <2>2, <2>3
<1>6. CASE EnterStage2
  <2>1. pc = "page0" /\ pc' = "stage2" /\ ~chip_busy
        /\ chip_busy' = chip_busy /\ chip_pa' = chip_pa /\ chip_reg' = chip_reg
        /\ chip_ecc' = chip_ecc /\ uncorr' = uncorr
    BY <1>6 DEF EnterStage2, OipClear, chip, flash
  <2>2. chip_ecc = TRUE /\ chip_pa = 0
        /\ chip_reg[RegisterOf(chip_pa)] = Loaded(chip_pa)
    BY <2>1 DEF Asked
  <2>3. (chip_reg[RegisterOf(chip_pa)] = Loaded(chip_pa))'
    BY <2>1, <2>2 DEF Loaded
  <2> QED BY <2>1, <2>2, <2>3 DEF Asked
<1>7. CASE ChipReady
  <2>1. chip_busy /\ pc' = pc /\ addr' = addr /\ plane' = plane
        /\ chip_pa' = chip_pa /\ chip_ecc' = chip_ecc /\ uncorr' = uncorr
    BY <1>7 DEF ChipReady, locals, flash
  <2>2. pc # "load" /\ pc # "stage2"
    BY <2>1 DEF Asked
  <2>3. ASSUME pc \in {"header", "data", "page0", "stage2"}
        PROVE  chip_reg'[RegisterOf(chip_pa)] = Loaded(chip_pa)
    <3>1. chip_ecc = TRUE
      BY <2>3 DEF Asked
    <3>2. RegisterOf(chip_pa) \in Registers
      <4>1. CASE pc \in {"header", "data"}
        <5>1. chip_pa = PageAddress(addr) /\ addr \in Nat
          BY <4>1 DEF Asked, TypeOK
        <5> QED BY <5>1, PlaneIsRegister
      <4>2. CASE pc \in {"page0", "stage2"}
        <5>1. chip_pa = 0
          BY <4>2 DEF Asked
        <5>2. Planes \in {1, 2}
          BY GeometryAssumption
        <5> QED BY <5>1, <5>2, RegisterOfPage0 DEF Registers
      <4> QED BY <2>3, <4>1, <4>2
    <3>3. chip_reg' = [chip_reg EXCEPT ![RegisterOf(chip_pa)] =
             [page |-> chip_pa, good |-> chip_ecc /\ chip_pa \notin uncorr]]
      BY <1>7 DEF ChipReady
    <3>4. chip_reg \in [Registers -> Contents \cup {Nothing}]
      BY DEF TypeOK
    <3>5. chip_reg'[RegisterOf(chip_pa)] =
             [page |-> chip_pa, good |-> chip_ecc /\ chip_pa \notin uncorr]
      BY <3>2, <3>3, <3>4
    <3>6. (chip_ecc /\ chip_pa \notin uncorr) = (chip_pa \notin uncorr)
      BY <3>1
    <3> QED BY <3>5, <3>6 DEF Loaded
  <2>4. (chip_reg[RegisterOf(chip_pa)] = Loaded(chip_pa))' <=>
           chip_reg'[RegisterOf(chip_pa)] = Loaded(chip_pa)
    BY <2>1 DEF Loaded
  <2> QED BY <2>1, <2>2, <2>3, <2>4 DEF Asked
<1>8. CASE UNCHANGED vars
  BY <1>8 DEF Asked, Loaded, vars, locals, chip, flash
<1> QED BY <1>1, <1>2, <1>3, <1>4, <1>5, <1>6, <1>7, <1>8 DEF Next, Cpu

LEMMA PlaceStep ==
  ASSUME Stage1Inv, [Next]_vars
  PROVE  Place'
<1> USE DEF Stage1Inv
<1>1. CASE Start \/ SpiNandInit
  BY <1>1 DEF Place, Start, SpiNandInit
<1>2. CASE LoadStage2
  <2>1. PageSize \in Nat \ {0} /\ PageSize % PageSize = 0
    BY Sizes1
  <2>2. addr' = PageSize /\ pc' = "header"
    BY <1>2, <2>1, RoundedDown DEF LoadStage2, Stage2Offset
  <2> QED BY <2>2 DEF Place
<1>3. CASE ReadHeader
  <2>1. addr = PageSize /\ addr' = addr /\ pc' = "data"
        /\ dstaddr' = s2h'.loadaddr /\ end' = EndOf(addr, s2h'.size)
    BY <1>3 DEF ReadHeader, Place
  <2>2. s2h' \in Headers
    BY TypeStep1 DEF TypeOK
  <2>3. s2h'.loadaddr \in Nat /\ s2h'.size \in Nat \ {0}
    BY <2>2, HeaderType
  <2>4. PageSize \in Nat \ {0} /\ PageSize % PageSize = 0
    BY Sizes1
  <2>5. EndOf(PageSize, s2h'.size) \in Nat
        /\ PageSize + s2h'.size <= EndOf(PageSize, s2h'.size)
    BY <2>2, EndOfImage
  <2>6. addr' < end' /\ end' = EndOf(PageSize, s2h'.size)
    BY <2>1, <2>3, <2>4, <2>5
  <2>7. dstaddr' = s2h'.loadaddr + (addr' - PageSize)
    BY <2>1, <2>3, <2>4
  <2> QED BY <2>1, <2>4, <2>6, <2>7 DEF Place
<1>4. CASE CopyPage
  <2>1. pc = "data" /\ addr' = addr + PageSize /\ dstaddr' = dstaddr + PageSize
        /\ s2h' = s2h /\ end' = end
    BY <1>4 DEF CopyPage
  <2>2. addr + PageSize \in Nat /\ (addr + PageSize) % PageSize = 0
        /\ PageSize + s2h.size <= end /\ (addr - PageSize) \in Nat
    BY <2>1, CopyInFlash
  <2>3. dstaddr = s2h.loadaddr + (addr - PageSize)
        /\ end = EndOf(PageSize, s2h.size) /\ PageSize <= addr
    BY <2>1 DEF Place
  <2>4. PageSize \in Nat /\ addr \in Nat /\ end \in Nat /\ s2h \in Headers
    BY Sizes1 DEF TypeOK
  <2>5. s2h.loadaddr \in Nat /\ s2h.size \in Nat
    BY <2>4, HeaderType
  <2>6. dstaddr' = s2h.loadaddr + addr
    BY <2>1, <2>3, <2>4, <2>5
  <2>7. CASE addr' >= end
    <3>1. pc' = "page0"
      BY <1>4, <2>7 DEF CopyPage
    <3>2. s2h.loadaddr + s2h.size <= dstaddr'
      BY <2>1, <2>2, <2>4, <2>5, <2>6, <2>7
    <3> QED BY <2>1, <3>1, <3>2 DEF Place
  <2>8. CASE ~(addr' >= end)
    <3>1. pc' = "data"
      BY <1>4, <2>1, <2>8 DEF CopyPage
    <3>2. addr' < end /\ PageSize <= addr' /\ addr' % PageSize = 0
      BY <2>1, <2>2, <2>3, <2>4, <2>8
    <3>3. dstaddr' = s2h.loadaddr + (addr' - PageSize)
      BY <2>1, <2>4, <2>5, <2>6
    <3> QED BY <2>1, <2>3, <3>1, <3>2, <3>3 DEF Place
  <2> QED BY <2>7, <2>8
<1>5. CASE EnterStage2
  BY <1>5 DEF Place, EnterStage2, locals
<1>6. CASE ChipReady
  BY <1>6 DEF Place, ChipReady, locals
<1>7. CASE UNCHANGED vars
  BY <1>7 DEF Place, vars, locals
<1> QED BY <1>1, <1>2, <1>3, <1>4, <1>5, <1>6, <1>7 DEF Next, Cpu

-----------------------------------------------------------------------------
(* A line of the cache has an index in the cache's range. *)
LEMMA IndexType ==
  ASSUME NEW a \in Nat, a % LineSize = 0
  PROVE  Index(a) \in Indices
<1> DEFINE s == LineSize  l == L2Size \div LineSize  k == a \div s
<1>1. s \in Nat \ {0} /\ L2Size \in Nat \ {0} /\ L2Size % s = 0
  BY Sizes1
<1>2. a = s * k + (a % s) /\ k \in Nat
  BY <1>1, DivMod
<1>3. a = s * k
  <2> HIDE DEF k
  <2> QED BY <1>1, <1>2
<1>4. L2Size = s * l + (L2Size % s) /\ l \in Nat
  BY <1>1, DivMod
<1>5. l # 0
  <2> HIDE DEF s, l
  <2> QED BY <1>1, <1>4
<1>6. Index(a) = k % l
  BY <1>2, <1>3, IndexOfLine
<1>7. k % l \in 0 .. l - 1
  <2> HIDE DEF k, l
  <2> QED BY <1>2, <1>4, <1>5
<1> QED BY <1>6, <1>7 DEF Indices

(* lock_l2_cache locks every line of the image. *)
LEMMA LocksEveryLine ==
  ASSUME Stage1Inv, ReadHeader, TypeOK',
         NEW a \in LinesOf(s2h'.loadaddr, s2h'.size)
  PROVE  l2_tag'[Index(a)] = a
<1> DEFINE i == Index(a)  b == s2h'.loadaddr
<1>1. s2h' \in Headers
  BY DEF TypeOK
<1>2. b \in Nat /\ b % LineSize = 0 /\ s2h'.size \in Nat /\ s2h'.size <= L2Size
      /\ L2Size \in Nat
  BY <1>1, HeaderType, Sizes1
<1>3. a \in Nat /\ a % LineSize = 0 /\ b <= a /\ a < b + s2h'.size
  BY <1>2, LineInRange
<1>4. i \in Indices
  BY <1>3, IndexType
<1>5. a \in LockedAt(i)
  BY DEF LockedAt
<1>6. l2_tag'[i] = CHOOSE x \in LockedAt(i) : TRUE
  BY <1>4, <1>5 DEF ReadHeader
<1> DEFINE c == CHOOSE x \in LockedAt(i) : TRUE
<1>7. c \in LockedAt(i)
  BY <1>5
<1> HIDE DEF c
<1>8. c \in Nat /\ c % LineSize = 0 /\ Index(c) = i /\ b <= c /\ c < b + s2h'.size
  BY <1>4, <1>7, LockedLine
<1>9. c < a + L2Size /\ a < c + L2Size
  BY <1>2, <1>3, <1>8
<1>10. c = a
  BY <1>3, <1>8, <1>9, OneLinePerIndex
<1> QED BY <1>6, <1>10 DEF c

(* One turn of the loop fills the lines of its page of the image ...       *)
LEMMA FillsThePage ==
  ASSUME Stage1Inv, CopyPage, NEW a \in LinesOf(s2h.loadaddr, s2h.size),
         dstaddr <= a, a < dstaddr + PageSize
  PROVE  l2_data'[Index(a)] = LineOfFlash(a)
<1> DEFINE g == PageSize  b == s2h.loadaddr  i == Index(a)
           k == {j \in 0 .. LinesPerPage - 1 : Index(dstaddr + j * LineSize) = i}
<1>1. pc = "data" /\ OipClear /\ TypeOK /\ Asked /\ Place /\ s2h \in Headers
      /\ dstaddr \in Nat /\ addr \in Nat
  BY DEF CopyPage, Stage1Inv, TypeOK
<1>2. b \in Nat /\ b % LineSize = 0 /\ s2h.size \in Nat
  BY <1>1, HeaderType
<1>3. a \in Nat /\ a % LineSize = 0 /\ b <= a
  BY <1>2, LineInRange
<1>4. i \in Indices
  BY <1>3, IndexType
<1>5. addr % g = 0 /\ g <= addr /\ dstaddr = b + (addr - g)
  BY <1>1 DEF Place
<1>6. (addr - g) \in Nat /\ (addr - g) % g = 0
  BY <1>1, CopyInFlash
<1>7. g \in Nat \ {0} /\ LineSize \in Nat \ {0} /\ g % LineSize = 0
      /\ L2Size \in Nat \ {0} /\ L2Size % g = 0
  BY Sizes1
<1>8. (addr - g) % LineSize = 0
  BY <1>6, <1>7, MultipleOfMultiple
<1>9. dstaddr % LineSize = 0
  BY <1>2, <1>5, <1>6, <1>7, <1>8, SumOfMultiples
<1>10. PICK j \in 0 .. LinesPerPage - 1 : a = dstaddr + j * LineSize
  BY <1>1, <1>3, <1>9, LineNumber
<1>11. j \in Nat /\ j * LineSize \in Nat
  BY <1>7, <1>10
<1>12. g <= L2Size
  <2>1. 0 % g = 0 /\ 0 \in Nat /\ 0 < L2Size
    BY <1>7
  <2>2. 0 + g <= L2Size
    BY <1>7, <2>1, Apart
  <2> QED BY <1>7, <2>2
<1>13. \A n \in k : n = j
  <2> SUFFICES ASSUME NEW n \in 0 .. LinesPerPage - 1,
                      Index(dstaddr + n * LineSize) = i
               PROVE  n = j
    OBVIOUS
  <2> DEFINE x == n * LineSize  p == addr - g
  <2>1. p + x < p + g /\ (p + x) % LineSize = 0 /\ p + x \in Nat
    BY <1>6, LineOfPage
  <2>2. n \in Nat /\ x \in Nat
    BY <1>7
  <2>3. (b + (p + x)) % LineSize = 0
    <3> DEFINE y == p + x
    <3>1. y \in Nat /\ y % LineSize = 0
      BY <2>1
    <3> HIDE DEF y
    <3>2. (b + y) % LineSize = 0
      BY <1>2, <1>7, <3>1, SumOfMultiples
    <3> QED BY <3>2 DEF y
  <2>4. dstaddr + x = b + (p + x) /\ dstaddr + x \in Nat
    BY <1>1, <1>2, <1>5, <1>6, <2>2
  <2>5. x < g
    BY <1>6, <1>7, <2>1, <2>2
  <2> HIDE DEF x
  <2>6. a < (dstaddr + x) + L2Size /\ dstaddr + x < a + L2Size
    BY <1>1, <1>3, <1>7, <1>12, <2>2, <2>5
  <2>7. Index(dstaddr + x) = Index(a) /\ (dstaddr + x) % LineSize = 0
    BY <2>3, <2>4 DEF x
  <2>8. dstaddr + x = a
    BY <1>3, <2>4, <2>6, <2>7, OneLinePerIndex
  <2>9. n * LineSize = j * LineSize
    BY <1>1, <1>10, <1>11, <2>2, <2>8 DEF x
  <2> QED BY <1>7, <1>11, <2>2, <2>9
<1>14. j \in k
  BY <1>10
<1>15. (CHOOSE n \in k : TRUE) = j /\ k # {}
  BY <1>13, <1>14
<1>16. l2_data'[i] = IF k = {} THEN l2_data[i]
                     ELSE <<CacheContent, CHOOSE n \in k : TRUE>>
  BY <1>4 DEF CopyPage
<1>17. l2_data'[i] = <<CacheContent, j>>
  <2> HIDE DEF k, i
  <2> QED BY <1>15, <1>16
<1>18. CacheContent = Loaded(PageAddress(addr))
  BY <1>1, WhatIsRead
<1>19. a - b = (addr - g) + j * LineSize /\ g + (a - b) = addr + j * LineSize
  BY <1>1, <1>2, <1>5, <1>7, <1>10, <1>11
<1>20. PageAddress(addr + j * LineSize) = PageAddress(addr)
  BY <1>1, <1>5, <1>10, LineOfPage
<1>21. (((addr - g) + j * LineSize) % g) \div LineSize = j
  <2> DEFINE p == addr - g
  <2>1. p \in Nat /\ p % g = 0
    BY <1>6
  <2> HIDE DEF p
  <2>2. ((p + j * LineSize) % g) \div LineSize = j
    BY <1>10, <2>1, LineOfPage
  <2> QED BY <2>2 DEF p
<1>22. LineOfFlash(a) = <<Loaded(PageAddress(addr)), j>>
  BY <1>19, <1>20, <1>21 DEF LineOfFlash
<1> QED BY <1>17, <1>18, <1>22

(* ... and, as its page ends less than the cache behind the start of the   *)
(* image, none of those before.                                            *)
LEMMA KeepsThePagesBefore ==
  ASSUME Stage1Inv, CopyPage, NEW a \in LinesOf(s2h.loadaddr, s2h.size),
         a < dstaddr
  PROVE  l2_data'[Index(a)] = l2_data[Index(a)]
<1> DEFINE g == PageSize  b == s2h.loadaddr  i == Index(a)  p == addr - g
           k == {j \in 0 .. LinesPerPage - 1 : Index(dstaddr + j * LineSize) = i}
<1>1. pc = "data" /\ TypeOK /\ Place /\ s2h \in Headers
      /\ dstaddr \in Nat /\ addr \in Nat /\ end \in Nat
  BY DEF CopyPage, Stage1Inv, TypeOK
<1>2. b \in Nat /\ b % LineSize = 0 /\ s2h.size \in Nat
  BY <1>1, HeaderType
<1>3. a \in Nat /\ a % LineSize = 0 /\ b <= a
  BY <1>2, LineInRange
<1>4. i \in Indices
  BY <1>3, IndexType
<1>5. dstaddr = b + p /\ g <= addr
  BY <1>1 DEF Place
<1>6. p \in Nat /\ p % g = 0 /\ addr + g <= end /\ end <= g + L2Size
  BY <1>1, CopyInFlash
<1>7. g \in Nat \ {0} /\ LineSize \in Nat \ {0} /\ L2Size \in Nat \ {0}
  BY Sizes1
<1>8. k = {}
  <2> SUFFICES ASSUME NEW n \in 0 .. LinesPerPage - 1,
                      Index(dstaddr + n * LineSize) = i
               PROVE  FALSE
    OBVIOUS
  <2> DEFINE x == n * LineSize
  <2>1. n \in Nat /\ x \in Nat
    BY <1>7
  <2>2. p + x < p + g /\ (p + x) % LineSize = 0 /\ p + x \in Nat
    BY <1>6, LineOfPage
  <2>3. (b + (p + x)) % LineSize = 0
    <3> DEFINE y == p + x
    <3>1. y \in Nat /\ y % LineSize = 0
      BY <2>2
    <3> HIDE DEF y
    <3>2. (b + y) % LineSize = 0
      BY <1>2, <1>7, <3>1, SumOfMultiples
    <3> QED BY <3>2 DEF y
  <2>4. dstaddr + x = b + (p + x) /\ dstaddr + x \in Nat
    BY <1>1, <1>2, <1>5, <1>6, <2>1
  <2>5. x < g
    BY <1>6, <1>7, <2>1, <2>2
  <2>6. p + g <= L2Size
    BY <1>1, <1>6, <1>7
  <2>7. dstaddr + x < a + L2Size /\ a < (dstaddr + x) + L2Size
    <3> HIDE DEF x, p
    <3> QED BY <1>1, <1>2, <1>3, <1>5, <1>6, <1>7, <2>1, <2>5, <2>6
  <2>8. Index(dstaddr + x) = Index(a) /\ (dstaddr + x) % LineSize = 0
    BY <2>3, <2>4
  <2> HIDE DEF x
  <2>9. dstaddr + x = a
    BY <1>3, <2>4, <2>7, <2>8, OneLinePerIndex
  <2> QED BY <1>1, <1>3, <2>1, <2>9
<1>9. l2_data'[i] = IF k = {} THEN l2_data[i]
                    ELSE <<CacheContent, CHOOSE n \in k : TRUE>>
  BY <1>4 DEF CopyPage
<1> QED BY <1>8, <1>9

LEMMA CopiedStep ==
  ASSUME Stage1Inv, [Next]_vars
  PROVE  Copied'
<1> USE DEF Stage1Inv
<1>1. CASE Start \/ SpiNandInit \/ LoadStage2
  BY <1>1 DEF Copied, Start, SpiNandInit, LoadStage2
<1>2. CASE ReadHeader
  <2>1. pc = "header" /\ OipClear /\ addr = PageSize /\ dstaddr' = s2h'.loadaddr
        /\ uncorr' = uncorr /\ image' = image
    BY <1>2 DEF ReadHeader, Place, flash
  <2>2. ASSUME PageAddress(PageSize) \notin uncorr PROVE s2h' = image
    <3>1. CacheContent = Loaded(PageAddress(PageSize))
      BY <2>1, WhatIsRead
    <3>2. CacheContent = Good(PageAddress(Stage2Offset))
      BY <2>2, <3>1 DEF Loaded, Good, Stage2Offset
    <3> QED BY <1>2, <3>2 DEF ReadHeader
  <2>3. TypeOK'
    BY TypeStep1
  <2>4. ASSUME NEW a \in LinesOf(s2h'.loadaddr, s2h'.size)
        PROVE  l2_tag'[Index(a)] = a /\ ~(a < dstaddr')
    <3>1. l2_tag'[Index(a)] = a
      BY <1>2, <2>3, LocksEveryLine
    <3>2. s2h' \in Headers
      BY <2>3 DEF TypeOK
    <3>3. s2h'.loadaddr \in Nat /\ s2h'.loadaddr % LineSize = 0 /\ s2h'.size \in Nat
      BY <3>2, HeaderType
    <3>4. a \in Nat /\ s2h'.loadaddr <= a
      BY <3>3, LineInRange
    <3> QED BY <2>1, <3>1, <3>3, <3>4
  <2> QED BY <2>1, <2>2, <2>4 DEF Copied
<1>3. CASE CopyPage
  <2>1. pc = "data" /\ dstaddr' = dstaddr + PageSize /\ s2h' = s2h
        /\ l2_tag' = l2_tag /\ uncorr' = uncorr /\ image' = image
        /\ dstaddr \in Nat /\ s2h \in Headers
    BY <1>3 DEF CopyPage, TypeOK, flash
  <2>2. s2h.loadaddr \in Nat /\ s2h.loadaddr % LineSize = 0 /\ s2h.size \in Nat
    BY <2>1, HeaderType
  <2>3. PageAddress(PageSize) \notin uncorr => s2h = image
    BY <2>1 DEF Copied
  <2>4. ASSUME NEW a \in LinesOf(s2h.loadaddr, s2h.size)
        PROVE  /\ l2_tag[Index(a)] = a
               /\ a < dstaddr + PageSize => l2_data'[Index(a)] = LineOfFlash(a)
    <3>1. l2_tag[Index(a)] = a
          /\ (a < dstaddr => l2_data[Index(a)] = LineOfFlash(a))
      BY <2>1 DEF Copied
    <3>2. CASE a < dstaddr
      BY <1>3, <3>1, <3>2, KeepsThePagesBefore
    <3>3. CASE ~(a < dstaddr)
      <4>1. a \in Nat
        BY <2>2, LineInRange
      <4>2. dstaddr <= a
        BY <2>1, <3>3, <4>1
      <4>3. a < dstaddr + PageSize => l2_data'[Index(a)] = LineOfFlash(a)
        BY <1>3, <4>2, FillsThePage
      <4> QED BY <3>1, <4>3
    <3> QED BY <3>2, <3>3
  <2>5. \A a : LineOfFlash(a)' = LineOfFlash(a)
    BY <2>1 DEF LineOfFlash, Loaded
  <2> QED BY <2>1, <2>3, <2>4, <2>5 DEF Copied
<1>4. CASE EnterStage2 \/ ChipReady \/ UNCHANGED vars
  <2>1. l2_tag' = l2_tag /\ l2_data' = l2_data /\ dstaddr' = dstaddr
        /\ s2h' = s2h /\ uncorr' = uncorr /\ image' = image
    BY <1>4 DEF EnterStage2, ChipReady, vars, locals, l2, flash
  <2>2. pc' = pc \/ (pc = "page0" /\ pc' = "stage2")
    BY <1>4 DEF EnterStage2, ChipReady, vars
  <2>3. \A a : LineOfFlash(a)' = LineOfFlash(a)
    BY <2>1 DEF LineOfFlash, Loaded
  <2> QED BY <2>1, <2>2, <2>3 DEF Copied
<1> QED BY <1>1, <1>2, <1>3, <1>4 DEF Next, Cpu

-----------------------------------------------------------------------------
(* Along every run of stage 1 the copy in the cache is the flash as far as *)
(* it got, every line of the image has an index of its own, and the chip   *)
(* was asked for the page that is read next.                               *)
THEOREM Stage1InvHolds == Spec => []Stage1Inv
<1>1. Init => Stage1Inv
  BY InitStage1Inv
<1>2. Stage1Inv /\ [Next]_vars => Stage1Inv'
  <2> SUFFICES ASSUME Stage1Inv, [Next]_vars PROVE Stage1Inv'
    OBVIOUS
  <2>1. TypeOK'
    BY TypeStep1
  <2>2. Asked'
    BY AskedStep
  <2>3. Place'
    BY PlaceStep
  <2>4. Copied'
    BY CopiedStep
  <2> QED BY <2>1, <2>2, <2>3, <2>4 DEF Stage1Inv
<1> QED BY <1>1, <1>2, PTL DEF Spec

(* Every variable of stage 1 keeps its type; the chip is only asked for    *)
(* pages it has.                                                           *)
THEOREM Stage1TypeIsOK == Spec => []TypeOK
<1>1. Stage1Inv => TypeOK
  BY DEF Stage1Inv
<1> QED BY <1>1, Stage1InvHolds, PTL

(* Stage 2 takes over an idle chip with page 0 in its register.            *)
THEOREM ChipIsHandedOver == Spec => []HandsOverTheChip
<1>1. Stage1Inv => HandsOverTheChip
  <2> SUFFICES ASSUME Stage1Inv, pc = "stage2"
               PROVE  ~chip_busy /\ chip_reg[0].page = 0
    BY DEF HandsOverTheChip
  <2>1. ~chip_busy /\ chip_pa = 0
    BY DEF Stage1Inv, Asked
  <2>2. chip_reg[RegisterOf(chip_pa)] = Loaded(chip_pa)
    BY <2>1 DEF Stage1Inv, Asked
  <2>3. chip_reg[0] = Loaded(0)
    BY <2>1, <2>2, RegisterOfPage0
  <2> QED BY <2>1, <2>3 DEF Loaded
<1> QED BY <1>1, Stage1InvHolds, PTL

(* Stage 2 is entered with every line of it locked in the L2 cache and     *)
(* filled with its bytes of the flash, whatever its size, its address and  *)
(* the pages beyond it that cannot be corrected.                           *)
THEOREM Stage2IsLoaded == Spec => []Stage2IsWhole
<1>1. Stage1Inv => Stage2IsWhole
  <2> SUFFICES ASSUME Stage1Inv, pc = "stage2", ImagePages \cap uncorr = {}
               PROVE  /\ s2h = image
                      /\ \A a \in LinesOf(image.loadaddr, image.size) :
                           LET ofs == a - image.loadaddr
                           IN  /\ l2_tag[Index(a)] = a
                               /\ l2_data[Index(a)] =
                                    << Good(PageAddress(Stage2Offset + ofs)),
                                       (ofs % PageSize) \div LineSize >>
    BY DEF Stage2IsWhole
  <2>1. image \in Headers /\ TypeOK /\ Place /\ Copied
    BY DEF Stage1Inv, TypeOK
  <2>2. image.loadaddr \in Nat /\ image.loadaddr % LineSize = 0
        /\ image.size \in Nat \ {0} /\ PageSize \in Nat \ {0}
    BY <2>1, HeaderType, Sizes1
  <2>3. ASSUME NEW ofs \in Nat, ofs < image.size
        PROVE  PageAddress(PageSize + ofs) \notin uncorr
    <3> DEFINE lo == PageSize  at == PageSize + ofs  hi == PageSize + image.size - 1
    <3>1. lo \in Nat /\ at \in Nat /\ hi \in Nat /\ lo <= at /\ at <= hi
      BY <2>2, <2>3
    <3> HIDE DEF lo, at, hi
    <3>2. PageAddress(lo) \in Nat /\ PageAddress(lo) <= PageAddress(at)
      BY <3>1, PagesInOrder
    <3>3. PageAddress(at) \in Nat /\ PageAddress(at) <= PageAddress(hi)
      BY <3>1, PagesInOrder
    <3>4. PageAddress(hi) \in Nat
      BY <3>1, PagesInOrder
    <3>5. PageAddress(at) \in PageAddress(lo) .. PageAddress(hi)
      <4> DEFINE x == PageAddress(lo)  y == PageAddress(at)  z == PageAddress(hi)
      <4>1. x \in Nat /\ y \in Nat /\ z \in Nat /\ x <= y /\ y <= z
        BY <3>2, <3>3, <3>4
      <4> HIDE DEF x, y, z
      <4>2. y \in x .. z
        BY <4>1
      <4> QED BY <4>2 DEF x, y, z
    <3>6. PageAddress(at) \in ImagePages
      BY <3>5 DEF ImagePages, Stage2Offset, lo, hi
    <3> QED BY <3>6 DEF at
  <2>4. s2h = image
    <3>1. PageAddress(PageSize + 0) \notin uncorr /\ PageSize + 0 = PageSize
      BY <2>2, <2>3
    <3> QED BY <2>1, <3>1 DEF Copied
  <2>5. ASSUME NEW a \in LinesOf(image.loadaddr, image.size)
        PROVE  /\ l2_tag[Index(a)] = a
               /\ l2_data[Index(a)] =
                    << Good(PageAddress(Stage2Offset + (a - image.loadaddr))),
                       ((a - image.loadaddr) % PageSize) \div LineSize >>
    <3>1. a \in Nat /\ image.loadaddr <= a /\ a < image.loadaddr + image.size
      BY <2>2, LineInRange
    <3>2. image.loadaddr + image.size <= dstaddr /\ dstaddr \in Nat
      BY <2>1, <2>4 DEF Place, TypeOK
    <3>3. a < dstaddr
      BY <2>2, <3>1, <3>2
    <3>4. l2_tag[Index(a)] = a /\ l2_data[Index(a)] = LineOfFlash(a)
      BY <2>1, <2>4, <3>3 DEF Copied
    <3>5. (a - image.loadaddr) \in Nat /\ a - image.loadaddr < image.size
      BY <2>2, <3>1
    <3>6. PageAddress(PageSize + (a - image.loadaddr)) \notin uncorr
      BY <2>3, <3>5
    <3> QED BY <2>4, <3>4, <3>6 DEF LineOfFlash, Loaded, Good, Stage2Offset
  <2> QED BY <2>4, <2>5
<1> QED BY <1>1, Stage1InvHolds, PTL
=============================================================================
