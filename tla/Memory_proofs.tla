--------------------------- MODULE Memory_proofs ----------------------------
(***************************************************************************)
(* Proofs about the allocator of pages, for any threads, any powers and    *)
(* any heap of pages that is smaller than two blocks of the largest power, *)
(* about the heap, for any heap and requests, and about the trees, for any *)
(* keys, hashes and values and any number of nodes.                        *)
(*                                                                         *)
(* discover_blocks() finds every page: the area that is left behind power  *)
(* k is shorter than 2^k, and always a number of whole pages behind the    *)
(* first one.  The facts about powers of two that this needs come from     *)
(* counting subsets, and the recursive functions are reasoned about at the *)
(* least number where a claim would fail.                                  *)
(***************************************************************************)
EXTENDS MCMemory, DataLemmas, FunctionTheorems, FiniteSetTheorems,
        WellFoundedInduction, TLAPS

----------------------------------------------------------------------------
(* Numbers.                                                                *)

\* The quotient rounds down...
LEMMA Quotient ==
    ASSUME NEW x \in Int, NEW p \in Nat \ {0}
    PROVE  x \div p \in Int /\ (x \div p) * p <= x /\ x < (x \div p) * p + p
OBVIOUS

\* ...and is the only number that does.
LEMMA QuotientIs ==
    ASSUME NEW x \in Int, NEW p \in Nat \ {0}, NEW m \in Int,
           m * p <= x, x < m * p + p
    PROVE  x \div p = m
BY Quotient

\* Blocks of two powers, one not smaller than the other, are whole numbers of pages.
LEMMA SumOfMultiples ==
    ASSUME NEW x \in Int, NEW y \in Int, NEW p \in Int
    PROVE  x * p + y * p = (x + y) * p
OBVIOUS

\* A larger block is a number of smaller ones.
LEMMA Multiple ==
    ASSUME NEW k \in Nat, NEW n \in Nat, k <= n
    PROVE  \E m \in Nat : 2 ^ n = m * 2 ^ k
<1>. DEFINE IsMultiple(d) == \E m \in Nat : 2 ^ (k + d) = m * 2 ^ k
            Bad == {d \in Nat : ~ IsMultiple(d)}
<1>1. ASSUME NEW d \in Nat
      PROVE  k + d \in Nat /\ 2 ^ (k + d) \in Nat /\ 2 ^ k \in Nat
  BY PowerOfTwo
<1>2. Bad = {}
  <2>1. SUFFICES ASSUME Bad # {} PROVE FALSE
    OBVIOUS
  <2>2. PICK d \in Bad : \A y \in Bad : d <= y
    BY <2>1, Minimum
  <2>3. CASE d = 0
    <3>. 2 ^ (k + d) = 1 * 2 ^ k
      <4>. k + d = k
        BY <2>3
      <4>. QED  BY <1>1
    <3>. QED  OBVIOUS
  <2>4. CASE d # 0
    <3>1. d - 1 \in Nat /\ d - 1 \notin Bad
      BY <2>2, <2>4
    <3>2. PICK m \in Nat : 2 ^ (k + (d - 1)) = m * 2 ^ k
      BY <3>1
    <3>3. (k + (d - 1)) + 1 = k + d
      BY <3>1
    <3>4. 2 ^ (k + d) = 2 * 2 ^ (k + (d - 1))
      BY <3>1, <3>3, <1>1, Double
    <3>5. 2 * (m * 2 ^ k) = (2 * m) * 2 ^ k
      BY <1>1
    <3>6. 2 ^ (k + d) = (2 * m) * 2 ^ k
      BY <3>2, <3>4, <3>5
    <3>7. 2 * m \in Nat
      OBVIOUS
    <3>8. IsMultiple(d)
      BY <3>6, <3>7
    <3>. QED  BY <3>8
  <2>. QED  BY <2>3, <2>4
<1>3. n - k \in Nat /\ k + (n - k) = n
  OBVIOUS
<1>4. IsMultiple(n - k)
  BY <1>2, <1>3
<1>. QED  BY <1>3, <1>4

----------------------------------------------------------------------------
(* discover_blocks().                                                      *)

Constants == PowerAssumption /\ WantedAssumption /\ HeapAssumption

\* Where the area starts when the loop has dealt with power k.
After(k, start) == IF start + 2 ^ k <= HeapEnd THEN start + 2 ^ k ELSE start

Loop(f, from) ==
    f = [k \in from..MaxPower |-> IF k = MaxPower THEN FirstPage ELSE After(k + 1, f[k + 1])]

\* What the constants are, and the powers of two among them.
LEMMA ConstantTypes ==
    ASSUME Constants
    PROVE  /\ PagePower \in Nat /\ MaxPower \in Nat /\ PagePower <= MaxPower
           /\ HeapStart \in Nat \ {0} /\ HeapEnd \in Nat
           /\ PageSize \in Nat \ {0}
           /\ FirstPage \in HeapStart..HeapEnd
           /\ HeapEnd - FirstPage < 2 ^ (MaxPower + 1)
           /\ \A k \in Power : k \in Nat /\ 2 ^ k \in Nat \ {0} /\ 2 ^ (k + 1) = 2 * 2 ^ k
<1>1. /\ PagePower \in Nat /\ MaxPower \in Nat /\ PagePower <= MaxPower
      /\ HeapStart \in Nat \ {0} /\ HeapEnd \in Nat
      /\ FirstPage <= HeapEnd /\ HeapEnd - FirstPage < 2 ^ (MaxPower + 1)
  BY DEF Constants, PowerAssumption, HeapAssumption
<1>2. PageSize \in Nat \ {0}
  BY <1>1, PowerOfTwo DEF PageSize
<1>3. FirstPage \in Int /\ HeapStart <= FirstPage
  <2>. DEFINE x == HeapStart - 1 + PageSize
  <2>1. x \in Int
    BY <1>1, <1>2
  <2>2. (x \div PageSize) * PageSize \in Int /\ x < (x \div PageSize) * PageSize + PageSize
    <3>. HIDE DEF x
    <3>. QED  BY <1>2, <2>1, Quotient
  <2>3. FirstPage = (x \div PageSize) * PageSize
    BY DEF FirstPage
  <2>. QED  BY <1>1, <1>2, <2>2, <2>3
<1>4. \A k \in Power : k \in Nat /\ 2 ^ k \in Nat \ {0} /\ 2 ^ (k + 1) = 2 * 2 ^ k
  BY <1>1, PowerOfTwo, Double DEF Power
<1>. QED  BY <1>1, <1>2, <1>3, <1>4

\* The loop computes a start for each power: AreaStart is the function that its equation
\* describes.
LEMMA LoopEnds ==
    ASSUME Constants
    PROVE  /\ AreaStart[MaxPower] = FirstPage
           /\ \A k \in PagePower .. MaxPower - 1 : AreaStart[k] = After(k + 1, AreaStart[k + 1])
<1>. DEFINE Bad == {n \in 0 .. MaxPower - PagePower : ~ \E f : Loop(f, MaxPower - n)}
<1>. /\ PagePower \in Nat /\ MaxPower \in Nat /\ PagePower <= MaxPower
  BY ConstantTypes
<1>1. Bad = {}
  <2>1. SUFFICES ASSUME Bad # {} PROVE FALSE
    OBVIOUS
  <2>2. PICK n \in Bad : \A y \in Bad : n <= y
    <3>. Bad \in SUBSET Nat
      OBVIOUS
    <3>. HIDE DEF Bad
    <3>. QED  BY <2>1, Minimum
  <2>3. n \in 0 .. MaxPower - PagePower /\ ~ \E f : Loop(f, MaxPower - n)
    BY <2>2
  <2>4. CASE n = 0
    <3>. DEFINE f == [k \in MaxPower..MaxPower |-> FirstPage]
    <3>1. Loop(f, MaxPower - n)
      BY <2>4 DEF Loop
    <3>. QED  BY <2>3, <3>1
  <2>5. CASE n # 0
    <3>1. n - 1 \in 0 .. MaxPower - PagePower /\ n - 1 \notin Bad
      BY <2>2, <2>3, <2>5
    <3>2. PICK f : Loop(f, MaxPower - (n - 1))
      BY <3>1
    <3>. DEFINE from == MaxPower - n
                g == [k \in from..MaxPower |-> IF k = from THEN After(k + 1, f[k + 1]) ELSE f[k]]
    <3>3. /\ from \in Nat /\ from < MaxPower /\ MaxPower - (n - 1) = from + 1
      BY <2>3, <2>5
    <3>4. \A k \in from + 1 .. MaxPower :
             /\ f[k] = IF k = MaxPower THEN FirstPage ELSE After(k + 1, f[k + 1])
             /\ g[k] = f[k]
      BY <3>2, <3>3 DEF Loop
    <3>5. g[from] = After(from + 1, f[from + 1])
      BY <3>3
    <3>. HIDE DEF from, g
    <3>6. \A k \in from..MaxPower :
             g[k] = IF k = MaxPower THEN FirstPage ELSE After(k + 1, g[k + 1])
      <4>. TAKE k \in from..MaxPower
      <4>1. k = MaxPower \/ k + 1 \in from + 1 .. MaxPower
        BY <3>3
      <4>2. k = from \/ k \in from + 1 .. MaxPower
        BY <3>3
      <4>3. k # MaxPower => g[k + 1] = f[k + 1]
        BY <4>1, <3>4
      <4>4. CASE k = from
        BY <4>3, <4>4, <3>3, <3>5
      <4>5. CASE k \in from + 1 .. MaxPower
        <5>1. k # MaxPower => After(k + 1, g[k + 1]) = After(k + 1, f[k + 1])
          BY <4>3
        <5>. QED  BY <4>5, <5>1, <3>4
      <4>. QED  BY <4>2, <4>4, <4>5
    <3>7. g = [k \in from..MaxPower |-> g[k]]
      BY DEF g
    <3>8. Loop(g, from)
      BY <3>6, <3>7 DEF Loop
    <3>. QED  BY <2>3, <3>8 DEF from
  <2>. QED  BY <2>4, <2>5
<1>2. \E f : Loop(f, PagePower)
  <2>1. MaxPower - PagePower \in 0 .. MaxPower - PagePower
        /\ MaxPower - (MaxPower - PagePower) = PagePower
    OBVIOUS
  <2>. QED  BY <1>1, <2>1
<1>3. Loop(AreaStart, PagePower)
  BY <1>2 DEF Loop, AreaStart, After
<1>. QED  BY <1>3 DEF Loop

\* What is left behind a power is shorter than its block, and starts at a page.
Left(k) ==
    /\ AreaStart[k] \in FirstPage..HeapEnd
    /\ HeapEnd - AreaStart[k] < 2 ^ (k + 1)
    /\ \E m \in Nat : AreaStart[k] = FirstPage + m * PageSize

LEMMA AreasLeft ==
    ASSUME Constants
    PROVE  \A k \in PagePower..MaxPower : Left(k)
<1>. DEFINE Bad == {n \in 0 .. MaxPower - PagePower : ~ Left(MaxPower - n)}
<1>1. /\ PagePower \in Nat /\ MaxPower \in Nat /\ PagePower <= MaxPower
      /\ HeapEnd \in Nat /\ PageSize \in Nat \ {0} /\ FirstPage \in Nat /\ FirstPage <= HeapEnd
      /\ HeapEnd - FirstPage < 2 ^ (MaxPower + 1)
  BY ConstantTypes
<1>2. Bad = {}
  <2>1. SUFFICES ASSUME Bad # {} PROVE FALSE
    OBVIOUS
  <2>2. PICK n \in Bad : \A y \in Bad : n <= y
    <3>. Bad \in SUBSET Nat
      OBVIOUS
    <3>. HIDE DEF Bad
    <3>. QED  BY <2>1, Minimum
  <2>3. n \in 0 .. MaxPower - PagePower /\ ~ Left(MaxPower - n)
    BY <2>2
  <2>4. CASE n = 0
    <3>1. MaxPower - n = MaxPower /\ AreaStart[MaxPower] = FirstPage
      BY <1>1, <2>4, LoopEnds
    <3>2. FirstPage = FirstPage + 0 * PageSize
      BY <1>1
    <3>3. Left(MaxPower)
      BY <1>1, <3>1, <3>2 DEF Left
    <3>. QED  BY <2>3, <3>1, <3>3
  <2>5. CASE n # 0
    <3>1. n - 1 \in 0 .. MaxPower - PagePower /\ n - 1 \notin Bad
      <4>1. n - 1 \in 0 .. MaxPower - PagePower /\ ~ (n <= n - 1)
        BY <1>1, <2>3, <2>5
      <4>. HIDE DEF Bad
      <4>. QED  BY <2>2, <4>1
    <3>. DEFINE k == MaxPower - n
    <3>2. /\ k \in Nat /\ k \in PagePower .. MaxPower - 1 /\ k + 1 \in Power
          /\ MaxPower - (n - 1) = k + 1
      BY <1>1, <2>3, <2>5 DEF Power
    <3>. HIDE DEF k
    <3>3. Left(k + 1)
      BY <3>1, <3>2
    <3>. DEFINE start == AreaStart[k + 1]
    <3>4. AreaStart[k] = After(k + 1, start)
      BY <3>2, LoopEnds
    <3>5. /\ start \in FirstPage..HeapEnd
          /\ HeapEnd - start < 2 ^ ((k + 1) + 1)
          /\ 2 ^ ((k + 1) + 1) = 2 * 2 ^ (k + 1)
          /\ 2 ^ (k + 1) \in Nat
      BY <3>2, <3>3, ConstantTypes DEF Left
    <3>6. PICK m \in Nat : start = FirstPage + m * PageSize
      BY <3>3 DEF Left
    <3>7. PICK i \in Nat : 2 ^ (k + 1) = i * PageSize
      <4>. PagePower \in Nat /\ k + 1 \in Nat /\ PagePower <= k + 1
        BY <1>1, <3>2
      <4>. QED  BY Multiple DEF PageSize
    <3>. HIDE DEF start
    <3>8. CASE start + 2 ^ (k + 1) <= HeapEnd
      <4>1. AreaStart[k] = start + 2 ^ (k + 1)
        BY <3>4, <3>8 DEF After
      <4>2. AreaStart[k] \in FirstPage..HeapEnd /\ HeapEnd - AreaStart[k] < 2 ^ (k + 1)
        BY <4>1, <3>5, <3>8, <1>1
      <4>3. m * PageSize + i * PageSize = (m + i) * PageSize /\ m + i \in Nat
            /\ m * PageSize \in Int /\ i * PageSize \in Int
        BY <1>1, SumOfMultiples
      <4>4. AreaStart[k] = FirstPage + (m + i) * PageSize
        BY <4>1, <4>3, <3>6, <3>7, <1>1
      <4>5. Left(k)
        BY <4>2, <4>3, <4>4 DEF Left
      <4>. QED  BY <2>3, <4>5 DEF k
    <3>9. CASE ~ (start + 2 ^ (k + 1) <= HeapEnd)
      <4>1. AreaStart[k] = start
        BY <3>4, <3>9 DEF After
      <4>2. AreaStart[k] \in FirstPage..HeapEnd /\ HeapEnd - AreaStart[k] < 2 ^ (k + 1)
        BY <4>1, <3>5, <3>9, <1>1
      <4>3. Left(k)
        BY <4>1, <4>2, <3>6 DEF Left
      <4>. QED  BY <2>3, <4>3 DEF k
    <3>. QED  BY <3>8, <3>9
  <2>. QED  BY <2>4, <2>5
<1>3. ASSUME NEW k \in PagePower..MaxPower PROVE Left(k)
  <2>1. MaxPower - k \in 0 .. MaxPower - PagePower /\ MaxPower - (MaxPower - k) = k
    BY <1>1
  <2>. QED  BY <1>2, <2>1
<1>. QED  BY <1>3

\* Behind the smallest power only a part of a page is left.
LEMMA LastPage ==
    ASSUME Constants
    PROVE  /\ After(PagePower, AreaStart[PagePower]) = PagesEnd
           /\ PagesEnd \in FirstPage..HeapEnd
<1>. DEFINE start == AreaStart[PagePower]
<1>1. /\ PagePower \in Nat /\ PagePower \in PagePower..MaxPower /\ PagePower \in Power
      /\ HeapEnd \in Nat /\ PageSize \in Nat \ {0} /\ FirstPage \in Nat
  BY ConstantTypes DEF Power
<1>2. /\ start \in FirstPage..HeapEnd
      /\ HeapEnd - start < 2 * PageSize
      /\ \E m \in Nat : start = FirstPage + m * PageSize
  <2>1. Left(PagePower)
    BY <1>1, AreasLeft
  <2>. QED  BY <1>1, <2>1, ConstantTypes DEF Left, PageSize
<1>3. PICK m \in Nat : start = FirstPage + m * PageSize
  BY <1>2
<1>. HIDE DEF start
<1>4. \E n \in Nat : /\ After(PagePower, start) = FirstPage + n * PageSize
                     /\ FirstPage + n * PageSize <= HeapEnd
                     /\ HeapEnd < FirstPage + n * PageSize + PageSize
  <2>1. CASE start + PageSize <= HeapEnd
    <3>1. m * PageSize + 1 * PageSize = (m + 1) * PageSize /\ m + 1 \in Nat
          /\ m * PageSize \in Int /\ 1 * PageSize = PageSize
      BY <1>1, SumOfMultiples
    <3>2. After(PagePower, start) = start + PageSize
      BY <2>1 DEF After, PageSize
    <3>3. After(PagePower, start) = FirstPage + (m + 1) * PageSize
      BY <1>1, <1>3, <3>1, <3>2
    <3>4. /\ FirstPage + (m + 1) * PageSize <= HeapEnd
          /\ HeapEnd < FirstPage + (m + 1) * PageSize + PageSize
      <4>1. FirstPage + (m + 1) * PageSize = start + PageSize
        BY <3>2, <3>3
      <4>2. start + PageSize <= HeapEnd /\ HeapEnd < start + PageSize + PageSize
        BY <1>1, <1>2, <2>1
      <4>. QED  BY <4>1, <4>2
    <3>. QED  BY <3>1, <3>3, <3>4
  <2>2. CASE ~ (start + PageSize <= HeapEnd)
    <3>1. After(PagePower, start) = start
      BY <2>2 DEF After, PageSize
    <3>. QED  BY <1>1, <1>2, <1>3, <2>2, <3>1
  <2>. QED  BY <2>1, <2>2
<1>5. PICK n \in Nat : /\ After(PagePower, start) = FirstPage + n * PageSize
                      /\ FirstPage + n * PageSize <= HeapEnd
                      /\ HeapEnd < FirstPage + n * PageSize + PageSize
  BY <1>4
<1>6. n * PageSize \in Nat
  <2>1. n * PageSize \in Int
    BY <1>1
  <2>2. n * PageSize >= 0
    BY <1>1
  <2>. QED  BY <2>1, <2>2
<1>7. (HeapEnd - FirstPage) \div PageSize = n
  <2>1. HeapEnd - FirstPage \in Int /\ n \in Int
        /\ n * PageSize <= HeapEnd - FirstPage /\ HeapEnd - FirstPage < n * PageSize + PageSize
    BY <1>1, <1>5, <1>6
  <2>. QED  BY <2>1, <1>1, QuotientIs
<1>. QED  BY <1>1, <1>5, <1>6, <1>7 DEF PagesEnd, start

\* The starts of smaller powers lie behind the block of a larger one.
LEMMA StartsDescend ==
    ASSUME Constants, NEW j \in PagePower..MaxPower, NEW k \in PagePower..MaxPower, j < k
    PROVE  After(k, AreaStart[k]) <= AreaStart[j]
<1>. DEFINE end == After(k, AreaStart[k])
            Bad == {n \in 0 .. k - 1 - PagePower : ~ (end <= AreaStart[k - 1 - n])}
<1>1. /\ PagePower \in Nat /\ MaxPower \in Nat /\ PagePower <= MaxPower /\ HeapEnd \in Nat
      /\ FirstPage \in Nat
  BY ConstantTypes
<1>2. \A i \in PagePower..MaxPower :
         AreaStart[i] \in Int /\ After(i, AreaStart[i]) \in Int /\ AreaStart[i] <= After(i, AreaStart[i])
  <2>. TAKE i \in PagePower..MaxPower
  <2>1. AreaStart[i] \in FirstPage..HeapEnd /\ 2 ^ i \in Nat
    BY <1>1, AreasLeft, ConstantTypes DEF Left, Power
  <2>. QED  BY <1>1, <2>1 DEF After
<1>3. Bad = {}
  <2>1. SUFFICES ASSUME Bad # {} PROVE FALSE
    OBVIOUS
  <2>2. PICK n \in Bad : \A y \in Bad : n <= y
    <3>. Bad \in SUBSET Nat
      OBVIOUS
    <3>. HIDE DEF Bad
    <3>. QED  BY <2>1, Minimum
  <2>3. n \in 0 .. k - 1 - PagePower /\ ~ (end <= AreaStart[k - 1 - n])
    BY <2>2
  <2>4. CASE n = 0
    <3>1. k - 1 - n = k - 1 /\ k - 1 \in PagePower .. MaxPower - 1 /\ (k - 1) + 1 = k
      BY <1>1, <2>4
    <3>2. AreaStart[k - 1] = After((k - 1) + 1, AreaStart[(k - 1) + 1])
      BY <3>1, LoopEnds
    <3>3. AreaStart[k - 1] = end
      BY <3>1, <3>2
    <3>. QED  BY <1>2, <2>3, <3>1, <3>3
  <2>5. CASE n # 0
    <3>. DEFINE i == k - 1 - n
    <3>1. /\ n - 1 \in 0 .. k - 1 - PagePower /\ n - 1 \notin Bad
          /\ i \in PagePower .. MaxPower - 1 /\ i + 1 \in PagePower..MaxPower
          /\ k - 1 - (n - 1) = i + 1
      BY <1>1, <2>2, <2>3, <2>5
    <3>2. end <= AreaStart[i + 1]
      BY <3>1
    <3>3. AreaStart[i] = After(i + 1, AreaStart[i + 1])
      BY <3>1, LoopEnds
    <3>4. end \in Int /\ AreaStart[i + 1] \in Int /\ AreaStart[i + 1] <= AreaStart[i]
          /\ AreaStart[i] \in Int
      BY <1>2, <3>1, <3>3
    <3>5. end <= AreaStart[i]
      <4>. HIDE DEF i, end
      <4>. QED  BY <3>2, <3>4
    <3>. QED  BY <2>3, <3>5
  <2>. QED  BY <2>4, <2>5
<1>4. k - 1 - j \in 0 .. k - 1 - PagePower /\ k - 1 - (k - 1 - j) = j
  BY <1>1
<1>. QED  BY <1>3, <1>4

\* discover_blocks() cuts all of the pages into blocks.
LEMMA Discovery ==
    ASSUME Constants,
           m_blocks = [k \in Power |-> Discovered(k)], owned = {}, op = [t \in Thread |-> Idle]
    PROVE  /\ m_blocks \in [Power -> Seq(HeapStart..HeapEnd)]
           /\ PlaceInv
           /\ RangeInv
<1>. DEFINE Fits(k) == AreaStart[k] + 2 ^ k <= HeapEnd
            Block(k) == [power |-> k, base |-> AreaStart[k]]
<1>1. /\ PagePower \in Nat /\ MaxPower \in Nat /\ PagePower <= MaxPower /\ HeapEnd \in Nat
      /\ FirstPage \in HeapStart..HeapEnd /\ HeapStart \in Nat
  BY ConstantTypes
<1>2. ASSUME NEW k \in PagePower..MaxPower
      PROVE  /\ k \in Power /\ AreaStart[k] \in HeapStart..HeapEnd /\ FirstPage <= AreaStart[k]
             /\ 2 ^ k \in Nat \ {0}
  BY <1>1, AreasLeft, ConstantTypes DEF Left, Power
<1>3. ASSUME NEW k \in Power
      PROVE  m_blocks[k] = IF k \in PagePower..MaxPower /\ Fits(k) THEN <<AreaStart[k]>> ELSE <<>>
  BY <1>1 DEF Discovered, Power
<1>4. m_blocks \in [Power -> Seq(HeapStart..HeapEnd)]
  <2>1. ASSUME NEW k \in Power PROVE m_blocks[k] \in Seq(HeapStart..HeapEnd)
    <3>. DEFINE S == HeapStart..HeapEnd
    <3>1. k \in PagePower..MaxPower => AreaStart[k] \in S
      BY <1>2
    <3>. HIDE DEF S, Fits
    <3>2. k \in PagePower..MaxPower => <<AreaStart[k]>> \in Seq(S)
      BY <3>1
    <3>3. <<>> \in Seq(S)
      OBVIOUS
    <3>4. m_blocks[k] \in Seq(S)
      BY <1>3, <3>2, <3>3
    <3>. QED  BY <3>4 DEF S
  <2>. QED  BY <2>1
<1>5. ASSUME NEW k \in Power
      PROVE  Range(m_blocks[k]) = IF k \in PagePower..MaxPower /\ Fits(k) THEN {AreaStart[k]} ELSE {}
  BY <1>3 DEF Range
<1>6. FreeRanges = {Block(k) : k \in {p \in PagePower..MaxPower : Fits(p)}}
  <2>1. ASSUME NEW r \in FreeRanges PROVE \E k \in PagePower..MaxPower : Fits(k) /\ r = Block(k)
    <3>1. /\ r.power \in Power /\ r = [power |-> r.power, base |-> r.base]
          /\ r.base \in Range(m_blocks[r.power])
      BY DEF FreeRanges, PageRange
    <3>2. /\ r.power \in PagePower..MaxPower /\ Fits(r.power)
          /\ r.base = AreaStart[r.power]
      BY <1>5, <3>1
    <3>. QED  BY <3>1, <3>2
  <2>2. ASSUME NEW k \in PagePower..MaxPower, Fits(k) PROVE Block(k) \in FreeRanges
    <3>1. k \in Power /\ AreaStart[k] \in Range(m_blocks[k])
      BY <1>2, <1>5, <2>2
    <3>. QED  BY <1>2, <3>1 DEF FreeRanges, PageRange
  <2>. QED  BY <2>1, <2>2
<1>7. Movers = {} /\ Ranges = FreeRanges
  BY DEF Movers, Ranges, Idle, Call
<1>8. PlaceInv
  <2>1. ASSUME NEW k \in Power, NEW b \in HeapStart..HeapEnd PROVE Once(m_blocks[k], b)
    BY <1>3 DEF Once
  <2>. QED  BY <1>7, <2>1 DEF PlaceInv
<1>9. ASSUME NEW k \in PagePower..MaxPower, Fits(k)
      PROVE  /\ Bytes(Block(k)) = AreaStart[k] .. After(k, AreaStart[k]) - 1
             /\ After(k, AreaStart[k]) <= HeapEnd
  BY <1>1, <1>2, <1>9 DEF Bytes, After
<1>10. ASSUME NEW j \in PagePower..MaxPower, Fits(j), NEW k \in PagePower..MaxPower, Fits(k), j < k
       PROVE  Bytes(Block(j)) \cap Bytes(Block(k)) = {}
  <2>1. After(k, AreaStart[k]) <= AreaStart[j]
    BY <1>10, StartsDescend
  <2>2. /\ AreaStart[j] \in Int /\ After(k, AreaStart[k]) \in Int
        /\ Bytes(Block(j)) = AreaStart[j] .. After(j, AreaStart[j]) - 1
        /\ Bytes(Block(k)) = AreaStart[k] .. After(k, AreaStart[k]) - 1
        /\ After(j, AreaStart[j]) \in Int /\ AreaStart[k] \in Int
    BY <1>1, <1>2, <1>9, <1>10 DEF After
  <2>. HIDE DEF Block
  <2>. QED  BY <2>1, <2>2
<1>11. ASSUME NEW b \in FirstPage .. PagesEnd - 1
       PROVE  \E k \in PagePower..MaxPower : Fits(k) /\ b \in Bytes(Block(k))
  <2>. DEFINE Reached == {k \in PagePower..MaxPower : AreaStart[k] <= b}
  <2>1. MaxPower \in Reached
    BY <1>1, LoopEnds
  <2>2. PICK k \in Reached : \A y \in Reached : k <= y
    <3>. Reached \in SUBSET Nat
      BY <1>1
    <3>. HIDE DEF Reached
    <3>. QED  BY <2>1, Minimum
  <2>3. k \in PagePower..MaxPower /\ AreaStart[k] <= b
    BY <2>2
  <2>4. b < After(k, AreaStart[k])
    <3>1. CASE k = PagePower
      BY <3>1, <1>1, LastPage
    <3>2. CASE k # PagePower
      <4>1. k - 1 \in PagePower .. MaxPower - 1 /\ (k - 1) + 1 = k /\ k - 1 \in PagePower..MaxPower
        BY <1>1, <2>3, <3>2
      <4>2. k - 1 \notin Reached
        <5>. HIDE DEF Reached
        <5>. QED  BY <1>1, <2>2, <2>3, <4>1
      <4>3. AreaStart[k - 1] = After(k, AreaStart[k])
        <5>1. AreaStart[k - 1] = After((k - 1) + 1, AreaStart[(k - 1) + 1])
          BY <4>1, LoopEnds
        <5>. QED  BY <4>1, <5>1
      <4>4. AreaStart[k - 1] \in Int /\ ~ (AreaStart[k - 1] <= b)
        BY <4>1, <4>2, <1>2
      <4>. QED  BY <1>1, <4>3, <4>4
    <3>. QED  BY <3>1, <3>2
  <2>5. Fits(k)
    BY <1>1, <1>2, <2>3, <2>4 DEF After
  <2>6. b \in Bytes(Block(k))
    <3>1. AreaStart[k] \in Int /\ After(k, AreaStart[k]) \in Int
      BY <1>2, <2>3 DEF After
    <3>2. Bytes(Block(k)) = AreaStart[k] .. After(k, AreaStart[k]) - 1
      BY <1>9, <2>3, <2>5
    <3>. HIDE DEF Block
    <3>. QED  BY <1>1, <2>3, <2>4, <3>1, <3>2
  <2>. QED  BY <2>3, <2>5, <2>6
<1>12. ASSUME NEW k \in PagePower..MaxPower, Fits(k)
       PROVE  Bytes(Block(k)) \subseteq FirstPage .. PagesEnd - 1
  <2>1. After(k, AreaStart[k]) <= PagesEnd
    <3>1. CASE k = PagePower
      BY <3>1, <1>1, LastPage
    <3>2. CASE k # PagePower
      <4>1. PagePower \in PagePower..MaxPower /\ PagePower < k
        BY <1>1, <3>2
      <4>2. After(k, AreaStart[k]) <= AreaStart[PagePower]
        BY <4>1, StartsDescend
      <4>3. AreaStart[PagePower] <= After(PagePower, AreaStart[PagePower])
            /\ AreaStart[PagePower] \in Int /\ After(PagePower, AreaStart[PagePower]) \in Int
        BY <1>2, <4>1 DEF After
      <4>4. After(k, AreaStart[k]) \in Int
        BY <1>2 DEF After
      <4>. QED  BY <4>2, <4>3, <4>4, LastPage
    <3>. QED  BY <3>1, <3>2
  <2>2. Bytes(Block(k)) = AreaStart[k] .. After(k, AreaStart[k]) - 1
    BY <1>9, <1>12
  <2>3. AreaStart[k] \in Int /\ After(k, AreaStart[k]) \in Int /\ FirstPage <= AreaStart[k]
        /\ PagesEnd \in Int /\ FirstPage \in Int
    BY <1>1, <1>2, LastPage DEF After
  <2>. HIDE DEF Block
  <2>. QED  BY <2>1, <2>2, <2>3
<1>13. RangeInv
  <2>1. ASSUME NEW r \in Ranges PROVE r.base + 2 ^ r.power <= HeapEnd
    BY <1>6, <1>7
  <2>2. ASSUME NEW r \in Ranges, NEW s \in Ranges, r # s PROVE Bytes(r) \cap Bytes(s) = {}
    <3>1. PICK j \in PagePower..MaxPower : Fits(j) /\ r = Block(j)
      BY <1>6, <1>7
    <3>2. PICK k \in PagePower..MaxPower : Fits(k) /\ s = Block(k)
      BY <1>6, <1>7
    <3>3. j < k \/ k < j
      BY <1>1, <2>2, <3>1, <3>2
    <3>. HIDE DEF Block, Fits
    <3>. QED  BY <3>1, <3>2, <3>3, <1>10
  <2>3. UNION {Bytes(r) : r \in Ranges} = FirstPage .. PagesEnd - 1
    <3>1. ASSUME NEW b \in FirstPage .. PagesEnd - 1 PROVE \E r \in Ranges : b \in Bytes(r)
      <4>1. PICK k \in PagePower..MaxPower : Fits(k) /\ b \in Bytes(Block(k))
        BY <1>11
      <4>2. Block(k) \in Ranges
        BY <4>1, <1>6, <1>7
      <4>. QED  BY <4>1, <4>2
    <3>2. ASSUME NEW r \in Ranges PROVE Bytes(r) \subseteq FirstPage .. PagesEnd - 1
      <4>1. PICK k \in PagePower..MaxPower : Fits(k) /\ r = Block(k)
        BY <1>6, <1>7
      <4>. QED  BY <4>1, <1>12
    <3>. QED  BY <3>1, <3>2
  <2>. QED  BY <2>1, <2>2, <2>3 DEF RangeInv
<1>. QED  BY <1>4, <1>8, <1>13

----------------------------------------------------------------------------
(* The lists, the calls and the mutex.                                     *)

\* A block in front of a list that does not hold it is in the list once.
LEMMA OnceFront ==
    ASSUME NEW S, NEW q \in Seq(S), NEW x \in S, NEW b,
           Once(q, b), b # x \/ b \notin Range(q)
    PROVE  Once(<<x>> \o q, b)
<1>. DEFINE c == <<x>> \o q
<1>1. /\ Len(q) \in Nat /\ DOMAIN q = 1..Len(q)
      /\ DOMAIN c = 1..(1 + Len(q))
      /\ \A i \in 1..(1 + Len(q)) : c[i] = IF i <= 1 THEN x ELSE q[i - 1]
  BY ConcatProperties
<1>. HIDE DEF c
<1>2. SUFFICES ASSUME NEW i \in 1..(1 + Len(q)), NEW j \in 1..(1 + Len(q)), c[i] = b, c[j] = b
               PROVE  i = j
  BY <1>1 DEF Once, c
<1>3. \A n \in 1..(1 + Len(q)) : n # 1 => n - 1 \in DOMAIN q /\ c[n] = q[n - 1]
  BY <1>1
<1>4. c[1] = x
  BY <1>1
<1>5. CASE b # x
  <2>1. i # 1 /\ j # 1
    BY <1>2, <1>4, <1>5
  <2>2. i - 1 = j - 1
    BY <1>2, <1>3, <2>1 DEF Once
  <2>. QED  BY <1>1, <2>2
<1>6. CASE b \notin Range(q)
  BY <1>2, <1>3, <1>6 DEF Range
<1>. QED  BY <1>5, <1>6

\* deallocate_locked(): one more free block.
LEMMA FreeGrows ==
    ASSUME NEW k \in Power, NEW b \in HeapStart..HeapEnd, Push(k, b),
           m_blocks \in [Power -> Seq(HeapStart..HeapEnd)],
           [power |-> k, base |-> b] \notin FreeRanges,
           \A p \in Power, c \in HeapStart..HeapEnd : Once(m_blocks[p], c)
    PROVE  /\ m_blocks' \in [Power -> Seq(HeapStart..HeapEnd)]
           /\ FreeRanges' = FreeRanges \cup {[power |-> k, base |-> b]}
           /\ \A p \in Power, c \in HeapStart..HeapEnd : Once(m_blocks'[p], c)
<1>. DEFINE S == HeapStart..HeapEnd
<1>1. /\ m_blocks' = [m_blocks EXCEPT ![k] = <<b>> \o m_blocks[k]]
      /\ m_blocks[k] \in Seq(S) /\ b \in S
  BY DEF Push
<1>2. b \notin Range(m_blocks[k])
  <2>1. [power |-> k, base |-> b] \in PageRange
    BY DEF PageRange
  <2>. QED  BY <2>1 DEF FreeRanges
<1>. HIDE DEF S
<1>3. /\ <<b>> \o m_blocks[k] \in Seq(S)
      /\ Range(<<b>> \o m_blocks[k]) = {b} \cup Range(m_blocks[k])
  BY <1>1, FrontOfQueue
<1>4. m_blocks \in [Power -> Seq(S)] /\ \A p \in Power, c \in S : Once(m_blocks[p], c)
  BY DEF S
<1>5. m_blocks' \in [Power -> Seq(S)]
  BY <1>1, <1>3, <1>4
<1>6. \A p \in Power : m_blocks'[p] = IF p = k THEN <<b>> \o m_blocks[k] ELSE m_blocks[p]
  BY <1>1, <1>4
<1>7. FreeRanges' = FreeRanges \cup {[power |-> k, base |-> b]}
  <2>1. \A p \in Power : Range(m_blocks'[p]) = IF p = k THEN {b} \cup Range(m_blocks[p])
                                                        ELSE Range(m_blocks[p])
    BY <1>3, <1>6
  <2>2. [power |-> k, base |-> b] \in PageRange
    BY DEF PageRange
  <2>3. ASSUME NEW r \in PageRange
        PROVE  /\ r.power \in Power
               /\ r.power = k /\ r.base = b <=> r = [power |-> k, base |-> b]
    BY DEF PageRange
  <2>4. ASSUME NEW r \in PageRange
        PROVE  r \in FreeRanges' <=> r \in FreeRanges \cup {[power |-> k, base |-> b]}
    BY <2>1, <2>3 DEF FreeRanges
  <2>5. FreeRanges \subseteq PageRange /\ FreeRanges' \subseteq PageRange
    BY DEF FreeRanges
  <2>. QED  BY <2>2, <2>4, <2>5
<1>8. ASSUME NEW p \in Power, NEW c \in S PROVE Once(m_blocks'[p], c)
  <2>1. CASE p = k
    <3>1. Once(m_blocks[k], c) /\ (c # b \/ c \notin Range(m_blocks[k]))
      BY <1>2, <1>4
    <3>2. Once(<<b>> \o m_blocks[k], c)
      BY <1>1, <3>1, OnceFront
    <3>. QED  BY <1>6, <2>1, <3>2
  <2>2. CASE p # k
    BY <1>4, <1>6, <2>2
  <2>. QED  BY <2>1, <2>2
<1>. QED  BY <1>5, <1>7, <1>8 DEF S

\* allocate_locked() takes the first block of a list.
LEMMA FreeShrinks ==
    ASSUME NEW k \in Power, m_blocks[k] # <<>>,
           m_blocks' = [m_blocks EXCEPT ![k] = Tail(m_blocks[k])],
           m_blocks \in [Power -> Seq(HeapStart..HeapEnd)],
           \A p \in Power, c \in HeapStart..HeapEnd : Once(m_blocks[p], c)
    PROVE  /\ m_blocks' \in [Power -> Seq(HeapStart..HeapEnd)]
           /\ Head(m_blocks[k]) \in HeapStart..HeapEnd
           /\ [power |-> k, base |-> Head(m_blocks[k])] \in FreeRanges
           /\ FreeRanges' = FreeRanges \ {[power |-> k, base |-> Head(m_blocks[k])]}
           /\ \A p \in Power, c \in HeapStart..HeapEnd : Once(m_blocks'[p], c)
<1>. DEFINE S == HeapStart..HeapEnd
            b == Head(m_blocks[k])
<1>. HIDE DEF S
<1>1. m_blocks \in [Power -> Seq(S)] /\ \A p \in Power, c \in S : Once(m_blocks[p], c)
  BY DEF S
<1>2. /\ b \in S /\ Tail(m_blocks[k]) \in Seq(S)
      /\ Range(m_blocks[k]) = Range(Tail(m_blocks[k])) \cup {b}
  BY <1>1, RangeTail
<1>3. \A c \in S : Once(Tail(m_blocks[k]), c) /\ (c = b => c \notin Range(Tail(m_blocks[k])))
  BY <1>1, OnceTail
<1>4. m_blocks' \in [Power -> Seq(S)]
  BY <1>1, <1>2
<1>5. \A p \in Power : m_blocks'[p] = IF p = k THEN Tail(m_blocks[k]) ELSE m_blocks[p]
  BY <1>1
<1>. HIDE DEF b
<1>6. FreeRanges' = FreeRanges \ {[power |-> k, base |-> b]} /\ [power |-> k, base |-> b] \in FreeRanges
  <2>1. \A p \in Power : Range(m_blocks'[p]) = IF p = k THEN Range(m_blocks[p]) \ {b}
                                                        ELSE Range(m_blocks[p])
    BY <1>2, <1>3, <1>5
  <2>2. b \in Range(m_blocks[k])
    BY <1>2
  <2>3. [power |-> k, base |-> b] \in PageRange
    BY <1>2 DEF PageRange, S
  <2>4. ASSUME NEW r \in PageRange
        PROVE  /\ r.power \in Power
               /\ r.power = k /\ r.base = b <=> r = [power |-> k, base |-> b]
    BY DEF PageRange
  <2>5. ASSUME NEW r \in PageRange
        PROVE  r \in FreeRanges' <=> r \in FreeRanges \ {[power |-> k, base |-> b]}
    BY <2>1, <2>4 DEF FreeRanges
  <2>6. FreeRanges \subseteq PageRange /\ FreeRanges' \subseteq PageRange
    BY DEF FreeRanges
  <2>7. [power |-> k, base |-> b] \in FreeRanges
    BY <2>2, <2>3 DEF FreeRanges
  <2>. QED  BY <2>5, <2>6, <2>7
<1>7. ASSUME NEW p \in Power, NEW c \in S PROVE Once(m_blocks'[p], c)
  <2>1. CASE p = k
    BY <1>3, <1>5, <2>1
  <2>2. CASE p # k
    BY <1>1, <1>5, <2>2
  <2>. QED  BY <2>1, <2>2
<1>. QED  BY <1>2, <1>4, <1>6, <1>7 DEF S, b

\* The range that a call moves.
MovedBy(c) == [power |-> IF c.pc = "split" THEN c.level ELSE c.power, base |-> c.base]
IsMover(c) == c.pc \in {"split", "deallocate", "push"}

\* What a step of one call does to the ranges that are moved.
LEMMA MoversChange ==
    ASSUME NEW t \in Thread, NEW c, DOMAIN op = Thread, op' = [op EXCEPT ![t] = c]
    PROVE  /\ ~ IsMover(op[t]) /\ ~ IsMover(c) => Movers' = Movers /\ Moved' = Moved
           /\ IsMover(op[t]) /\ IsMover(c) =>
                 /\ Movers' = Movers /\ t \in Movers
                 /\ Moved' = [Moved EXCEPT ![t] = MovedBy(c)]
                 /\ Moved[t] = MovedBy(op[t])
           /\ ~ IsMover(op[t]) /\ IsMover(c) =>
                 /\ t \notin Movers /\ Movers' = Movers \cup {t}
                 /\ Moved' = [u \in Movers \cup {t} |-> IF u = t THEN MovedBy(c) ELSE Moved[u]]
           /\ IsMover(op[t]) /\ ~ IsMover(c) =>
                 /\ t \in Movers /\ Movers' = Movers \ {t}
                 /\ Moved' = [u \in Movers \ {t} |-> Moved[u]]
                 /\ Moved[t] = MovedBy(op[t])
<1>1. /\ Movers = {u \in Thread : IsMover(op[u])}
      /\ Movers' = {u \in Thread : IsMover(op'[u])}
  BY DEF Movers, IsMover
<1>2. /\ Moved = [u \in Movers |-> MovedBy(op[u])]
      /\ Moved' = [u \in Movers' |-> MovedBy(op'[u])]
  BY DEF Moved, MovedBy
<1>3. \A u \in Thread : op'[u] = IF u = t THEN c ELSE op[u]
  OBVIOUS
<1>. HIDE DEF Movers, Moved
<1>4. ASSUME ~ IsMover(op[t]), ~ IsMover(c) PROVE Movers' = Movers /\ Moved' = Moved
  <2>1. Movers' = Movers /\ \A u \in Movers : op'[u] = op[u]
    BY <1>1, <1>3, <1>4
  <2>. QED  BY <1>2, <2>1
<1>5. ASSUME IsMover(op[t]), IsMover(c)
      PROVE  /\ Movers' = Movers /\ t \in Movers
             /\ Moved' = [Moved EXCEPT ![t] = MovedBy(c)]
             /\ Moved[t] = MovedBy(op[t])
  <2>1. Movers' = Movers /\ t \in Movers
    BY <1>1, <1>3, <1>5
  <2>2. \A u \in Movers : MovedBy(op'[u]) = IF u = t THEN MovedBy(c) ELSE MovedBy(op[u])
    BY <1>1, <1>3
  <2>. QED  BY <1>2, <2>1, <2>2
<1>6. ASSUME ~ IsMover(op[t]), IsMover(c)
      PROVE  /\ t \notin Movers /\ Movers' = Movers \cup {t}
             /\ Moved' = [u \in Movers \cup {t} |-> IF u = t THEN MovedBy(c) ELSE Moved[u]]
  <2>1. t \notin Movers /\ Movers' = Movers \cup {t}
    BY <1>1, <1>3, <1>6
  <2>2. \A u \in Movers \cup {t} : MovedBy(op'[u]) = IF u = t THEN MovedBy(c) ELSE Moved[u]
    BY <1>1, <1>2, <1>3
  <2>. QED  BY <1>2, <2>1, <2>2
<1>7. ASSUME IsMover(op[t]), ~ IsMover(c)
      PROVE  /\ t \in Movers /\ Movers' = Movers \ {t}
             /\ Moved' = [u \in Movers \ {t} |-> Moved[u]]
             /\ Moved[t] = MovedBy(op[t])
  <2>1. t \in Movers /\ Movers' = Movers \ {t}
    BY <1>1, <1>3, <1>7
  <2>2. \A u \in Movers \ {t} : MovedBy(op'[u]) = Moved[u]
    BY <1>1, <1>2, <1>3
  <2>. QED  BY <1>2, <2>1, <2>2
<1>. QED  BY <1>4, <1>5, <1>6, <1>7

----------------------------------------------------------------------------
(* Ranges change places, and are cut in half.                              *)

OnceInv == \A k \in Power, b \in HeapStart..HeapEnd : Once(m_blocks[k], b)

\* A free or an owned range is taken into a call.
LEMMA Lifted ==
    ASSUME NEW t, NEW r, PlaceInv, RangeInv, r \in FreeRanges \cup owned,
           FreeRanges' = FreeRanges \ {r}, owned' = owned \ {r}, OnceInv',
           t \notin Movers, Movers' = Movers \cup {t},
           Moved' = [u \in Movers \cup {t} |-> IF u = t THEN r ELSE Moved[u]]
    PROVE  PlaceInv' /\ RangeInv'
<1>. USE DEF OnceInv
<1>1. /\ FreeRanges \cap owned = {}
      /\ \A u \in Movers : Moved[u] \notin FreeRanges \cup owned
      /\ \A u, v \in Movers : Moved[u] = Moved[v] => u = v
  BY DEF PlaceInv
<1>2. Moved'[t] = r /\ \A u \in Movers : Moved'[u] = Moved[u] /\ Moved[u] # r
  BY <1>1
<1>3. FreeRanges' \cap owned' = {}
  BY <1>1
<1>4. \A u \in Movers' : Moved'[u] \notin FreeRanges' \cup owned'
  BY <1>1, <1>2
<1>5. \A u, v \in Movers' : Moved'[u] = Moved'[v] => u = v
  BY <1>1, <1>2
<1>6. PlaceInv'
  BY <1>3, <1>4, <1>5 DEF PlaceInv
<1>7. Ranges' = Ranges
  <2>1. {Moved'[u] : u \in Movers'} = {Moved[u] : u \in Movers} \cup {r}
    BY <1>2
  <2>2. /\ Ranges = FreeRanges \cup owned \cup {Moved[u] : u \in Movers}
        /\ Ranges' = FreeRanges' \cup owned' \cup {Moved'[u] : u \in Movers'}
    BY DEF Ranges
  <2>. QED  BY <2>1, <2>2
<1>. QED  BY <1>6, <1>7 DEF RangeInv

\* The range of a call becomes free or owned.
LEMMA Laid ==
    ASSUME NEW t, NEW r, PlaceInv, RangeInv,
           t \in Movers, r = Moved[t], Movers' = Movers \ {t},
           Moved' = [u \in Movers \ {t} |-> Moved[u]],
           \/ FreeRanges' = FreeRanges \cup {r} /\ owned' = owned
           \/ FreeRanges' = FreeRanges /\ owned' = owned \cup {r},
           OnceInv'
    PROVE  PlaceInv' /\ RangeInv'
<1>. USE DEF OnceInv
<1>1. /\ FreeRanges \cap owned = {}
      /\ \A u \in Movers : Moved[u] \notin FreeRanges \cup owned
      /\ \A u, v \in Movers : Moved[u] = Moved[v] => u = v
  BY DEF PlaceInv
<1>2. \A u \in Movers' : Moved'[u] = Moved[u] /\ Moved[u] # r /\ u \in Movers
  BY <1>1
<1>3. FreeRanges' \cap owned' = {}
  BY <1>1
<1>4. \A u \in Movers' : Moved'[u] \notin FreeRanges' \cup owned'
  BY <1>1, <1>2
<1>5. \A u, v \in Movers' : Moved'[u] = Moved'[v] => u = v
  BY <1>1, <1>2
<1>6. PlaceInv'
  BY <1>3, <1>4, <1>5 DEF PlaceInv
<1>7. Ranges' = Ranges
  <2>1. {Moved[u] : u \in Movers} = {Moved'[u] : u \in Movers'} \cup {r}
    BY <1>2
  <2>2. /\ Ranges = FreeRanges \cup owned \cup {Moved[u] : u \in Movers}
        /\ Ranges' = FreeRanges' \cup owned' \cup {Moved'[u] : u \in Movers'}
    BY DEF Ranges
  <2>. QED  BY <2>1, <2>2
<1>. QED  BY <1>6, <1>7 DEF RangeInv

\* A step that moves no range.
LEMMA NothingMoves ==
    ASSUME PlaceInv, RangeInv, m_blocks' = m_blocks, owned' = owned,
           Movers' = Movers, Moved' = Moved
    PROVE  PlaceInv' /\ RangeInv'
<1>1. FreeRanges' = FreeRanges
  BY DEF FreeRanges
<1>2. Ranges' = Ranges
  BY <1>1 DEF Ranges
<1>. QED  BY <1>1, <1>2 DEF PlaceInv, RangeInv

\* The bytes of a block are those of its halves.
LEMMA Halves ==
    ASSUME Constants, NEW h \in Power, h + 1 \in Power, NEW b \in Nat
    PROVE  LET block == [power |-> h + 1, base |-> b]
               lower == [power |-> h, base |-> b]
               upper == [power |-> h, base |-> UpperHalf(h, b)]
           IN  /\ Bytes(block) = Bytes(lower) \cup Bytes(upper)
               /\ Bytes(lower) \cap Bytes(upper) = {}
               /\ Bytes(lower) # {} /\ Bytes(upper) # {}
               /\ UpperHalf(h, b) + 2 ^ h = b + 2 ^ (h + 1)
               /\ UpperHalf(h, b) \in Nat /\ b < UpperHalf(h, b)
               /\ b + 2 ^ h <= b + 2 ^ (h + 1)
<1>1. 2 ^ h \in Nat \ {0} /\ 2 ^ (h + 1) = 2 * 2 ^ h
  BY ConstantTypes
<1>2. PICK size \in Nat \ {0} : size = 2 ^ h
  BY <1>1
<1>3. /\ UpperHalf(h, b) = b + size
      /\ 2 ^ (h + 1) = size + size
  BY <1>1, <1>2 DEF UpperHalf
<1>4. /\ Bytes([power |-> h + 1, base |-> b]) = b .. b + (size + size) - 1
      /\ Bytes([power |-> h, base |-> b]) = b .. b + size - 1
      /\ Bytes([power |-> h, base |-> UpperHalf(h, b)]) = b + size .. (b + size) + size - 1
  BY <1>2, <1>3 DEF Bytes
<1>5. /\ b .. b + (size + size) - 1 = (b .. b + size - 1) \cup (b + size .. (b + size) + size - 1)
      /\ (b .. b + size - 1) \cap (b + size .. (b + size) + size - 1) = {}
      /\ b \in b .. b + size - 1 /\ b + size \in b + size .. (b + size) + size - 1
  OBVIOUS
<1>6. (b + size) + size = b + (size + size) /\ b + size \in Nat /\ b < b + size
      /\ b + size <= b + (size + size)
  OBVIOUS
<1>. QED  BY <1>2, <1>3, <1>4, <1>5, <1>6

\* The rest of a block that is split becomes free.
LEMMA Halved ==
    ASSUME Constants, NEW t, NEW h \in Power, h + 1 \in Power, NEW b \in HeapStart..HeapEnd,
           PlaceInv, RangeInv,
           t \in Movers, Moved[t] = [power |-> h + 1, base |-> b],
           Movers' = Movers, Moved' = [Moved EXCEPT ![t] = [power |-> h, base |-> b]],
           [power |-> h, base |-> UpperHalf(h, b)] \notin FreeRanges =>
              FreeRanges' = FreeRanges \cup {[power |-> h, base |-> UpperHalf(h, b)]} /\ OnceInv',
           owned' = owned
    PROVE  PlaceInv' /\ RangeInv'
<1>. USE DEF OnceInv
<1>. DEFINE block == [power |-> h + 1, base |-> b]
            lower == [power |-> h, base |-> b]
            upper == [power |-> h, base |-> UpperHalf(h, b)]
<1>1. /\ Bytes(block) = Bytes(lower) \cup Bytes(upper)
      /\ Bytes(lower) \cap Bytes(upper) = {}
      /\ Bytes(lower) # {} /\ Bytes(upper) # {}
      /\ UpperHalf(h, b) + 2 ^ h = b + 2 ^ (h + 1)
      /\ b # UpperHalf(h, b)
      /\ b + 2 ^ h <= b + 2 ^ (h + 1)
      /\ b + 2 ^ (h + 1) \in Int /\ b + 2 ^ h \in Int
  <2>1. b \in Nat /\ h \in Nat /\ 2 ^ h \in Nat /\ 2 ^ (h + 1) \in Nat
    BY ConstantTypes
  <2>2. b < UpperHalf(h, b) /\ UpperHalf(h, b) \in Nat
    BY <2>1, Halves
  <2>3. b # UpperHalf(h, b) /\ b + 2 ^ (h + 1) \in Int /\ b + 2 ^ h \in Int
    BY <2>1, <2>2
  <2>4. /\ Bytes(block) = Bytes(lower) \cup Bytes(upper)
        /\ Bytes(lower) \cap Bytes(upper) = {}
        /\ Bytes(lower) # {} /\ Bytes(upper) # {}
        /\ UpperHalf(h, b) + 2 ^ h = b + 2 ^ (h + 1)
        /\ b + 2 ^ h <= b + 2 ^ (h + 1)
    BY <2>1, Halves, Zenon
  <2>. QED  BY <2>3, <2>4, Zenon
<1>2. lower # upper /\ lower # block /\ upper # block
  <2>1. h # h + 1
    BY ConstantTypes
  <2>. QED  BY <1>1, <2>1
<1>3. /\ Ranges = FreeRanges \cup owned \cup {Moved[u] : u \in Movers}
      /\ Ranges' = FreeRanges' \cup owned' \cup {Moved'[u] : u \in Movers'}
  BY DEF Ranges
<1>4. /\ block \in Ranges
      /\ \A r \in Ranges : r # block => Bytes(r) \cap Bytes(block) = {}
      /\ block.base = b /\ block.power = h + 1
      /\ lower.base = b /\ lower.power = h
      /\ upper.base = UpperHalf(h, b) /\ upper.power = h
  BY <1>3 DEF RangeInv
<1>. HIDE DEF block, lower, upper
<1>5. lower \notin Ranges /\ upper \notin Ranges
  BY <1>1, <1>2, <1>4
<1>6. /\ FreeRanges' = FreeRanges \cup {upper}
      /\ \A k \in Power, c \in HeapStart..HeapEnd : Once(m_blocks'[k], c)
  BY <1>3, <1>5 DEF upper
<1>7. /\ FreeRanges \cap owned = {}
      /\ \A u \in Movers : Moved[u] \notin FreeRanges \cup owned
      /\ \A u, v \in Movers : Moved[u] = Moved[v] => u = v
      /\ DOMAIN Moved = Movers
      /\ Moved[t] = block
  BY DEF PlaceInv, Moved, block
<1>8. /\ Moved'[t] = lower
      /\ \A u \in Movers : u # t => Moved'[u] = Moved[u] /\ Moved[u] # block
      /\ \A u \in Movers : Moved[u] \in Ranges
  BY <1>3, <1>7 DEF lower
<1>9. PlaceInv'
  <2>1. FreeRanges' \cap owned' = {}
    BY <1>3, <1>5, <1>6, <1>7
  <2>2. \A u \in Movers' : Moved'[u] \notin FreeRanges' \cup owned'
    BY <1>2, <1>3, <1>5, <1>6, <1>7, <1>8
  <2>3. \A u, v \in Movers' : Moved'[u] = Moved'[v] => u = v
    BY <1>5, <1>7, <1>8
  <2>. QED  BY <1>6, <2>1, <2>2, <2>3 DEF PlaceInv
<1>10. Ranges' = (Ranges \ {block}) \cup {lower, upper}
  <2>1. {Moved'[u] : u \in Movers'} = ({Moved[u] : u \in Movers} \ {block}) \cup {lower}
    BY <1>7, <1>8
  <2>2. block \notin FreeRanges \cup owned
    BY <1>7
  <2>. QED  BY <1>3, <1>6, <2>1, <2>2
<1>11. /\ \A r \in Ranges : r.base + 2 ^ r.power <= HeapEnd
       /\ \A r, s \in Ranges : r # s => Bytes(r) \cap Bytes(s) = {}
       /\ UNION {Bytes(r) : r \in Ranges} = FirstPage .. PagesEnd - 1
  BY DEF RangeInv
<1>12. \A r \in Ranges' : r.base + 2 ^ r.power <= HeapEnd
  <2>1. b + 2 ^ (h + 1) <= HeapEnd
    BY <1>4, <1>11
  <2>2. lower.base + 2 ^ lower.power <= HeapEnd /\ upper.base + 2 ^ upper.power <= HeapEnd
    BY <1>1, <1>4, <2>1, ConstantTypes
  <2>. QED  BY <1>10, <1>11, <2>2
<1>13. ASSUME NEW r \in Ranges', NEW s \in Ranges', r # s PROVE Bytes(r) \cap Bytes(s) = {}
  <2>1. \A x \in Ranges \ {block} : Bytes(x) \cap Bytes(lower) = {} /\ Bytes(x) \cap Bytes(upper) = {}
    BY <1>1, <1>4
  <2>. QED  BY <1>1, <1>10, <1>11, <1>13, <2>1
<1>14. UNION {Bytes(r) : r \in Ranges'} = FirstPage .. PagesEnd - 1
  <2>1. ASSUME NEW x PROVE (\E r \in Ranges' : x \in Bytes(r)) <=> (\E r \in Ranges : x \in Bytes(r))
    BY <1>1, <1>4, <1>10
  <2>2. UNION {Bytes(r) : r \in Ranges'} = UNION {Bytes(r) : r \in Ranges}
    BY <2>1
  <2>. QED  BY <1>11, <2>2
<1>. QED  BY <1>9, <1>12, <1>13, <1>14 DEF RangeInv

----------------------------------------------------------------------------
(* The calls and the mutex.                                                *)

Calls == [pc : {"idle", "allocate", "search", "split", "deallocate", "push", "pushed"},
          power : Power, level : Power, base : HeapStart..HeapEnd]
Entered == {"search", "split", "push", "pushed"}

\* The parts of the type invariant.
LEMMA Types ==
    ASSUME Constants, TypeOK
    PROVE  /\ op \in [Thread -> Calls] /\ DOMAIN op = Thread
           /\ m_blocks \in [Power -> Seq(HeapStart..HeapEnd)]
           /\ owned \subseteq PageRange
           /\ line \in Seq(Thread) /\ inside \subseteq Thread
           /\ panic \in BOOLEAN
           /\ \A t \in Thread :
                 /\ op[t] \in Calls
                 /\ op[t].power \in Power /\ op[t].level \in Power
                 /\ op[t].power \in Nat /\ op[t].level \in Nat
                 /\ op[t].base \in HeapStart..HeapEnd
<1>1. /\ op \in [Thread -> Calls] /\ DOMAIN op = Thread
      /\ m_blocks \in [Power -> Seq(HeapStart..HeapEnd)]
      /\ owned \subseteq PageRange
      /\ line \in Seq(Thread) /\ inside \subseteq Thread
      /\ panic \in BOOLEAN
  BY DEF TypeOK, Calls
<1>2. ASSUME NEW t \in Thread
      PROVE  /\ op[t] \in Calls
             /\ op[t].power \in Power /\ op[t].level \in Power
             /\ op[t].base \in HeapStart..HeapEnd
  BY <1>1 DEF Calls
<1>3. \A k \in Power : k \in Nat
  BY ConstantTypes
<1>. QED  BY <1>1, <1>2, <1>3

\* The record of a call, and its fields.
LEMMA Record ==
    ASSUME NEW pc \in {"idle", "allocate", "search", "split", "deallocate", "push", "pushed"},
           NEW power \in Power, NEW level \in Power, NEW base \in HeapStart..HeapEnd
    PROVE  LET c == Call(pc, power, level, base)
           IN  /\ c \in Calls
               /\ c.pc = pc /\ c.power = power /\ c.level = level /\ c.base = base
               /\ MovedBy(c) = [power |-> IF pc = "split" THEN level ELSE power, base |-> base]
               /\ IsMover(c) <=> pc \in {"split", "deallocate", "push"}
BY DEF Call, Calls, MovedBy, IsMover

\* A step of one thread gives the others' calls as they were.
LEMMA OneCall ==
    ASSUME NEW t \in Thread, NEW c \in Calls, op \in [Thread -> Calls], op' = [op EXCEPT ![t] = c]
    PROVE  /\ op' \in [Thread -> Calls]
           /\ op'[t] = c /\ \A u \in Thread : u # t => op'[u] = op[u]
OBVIOUS

\* Only one thread is in the critical section.
LEMMA Alone ==
    ASSUME MutexInv, NEW t \in Thread, op[t].pc \in Entered
    PROVE  \A u \in Thread : u # t => op[u].pc \notin Entered
BY DEF MutexInv, Entered

\* lock(): the thread goes to the end of the line.
LEMMA Arrives ==
    ASSUME Constants, TypeOK, MutexInv, NEW t \in Thread, op[t].pc = "idle", Mutex!Arrive(t),
           NEW c \in Calls, c.pc \in {"allocate", "deallocate"}, op' = [op EXCEPT ![t] = c]
    PROVE  MutexInv' /\ line' \in Seq(Thread) /\ inside' \subseteq Thread
<1>1. /\ line' = Append(line, t) /\ inside' = inside /\ t \notin Range(line)
      /\ line \in Seq(Thread) /\ inside \subseteq Thread
  <2>1. line' = Append(line, t) /\ inside' = inside /\ t \notin Range(line)
    BY DEF Mutex!Arrive, Mutex!Range, Range
  <2>2. line \in Seq(Thread) /\ inside \subseteq Thread
    BY Types
  <2>. QED  BY <2>1, <2>2
<1>2. /\ line' \in Seq(Thread) /\ Range(line') = Range(line) \cup {t} /\ line' # <<>>
      /\ line # <<>> => Head(line') = Head(line)
  BY <1>1, RangeAppend
<1>3. op'[t] = c /\ \A u \in Thread : u # t => op'[u] = op[u]
  BY Types, OneCall
<1>4. \A u \in Thread : (op'[u].pc # "idle" <=> u \in Range(line')) /\ Once(line', u)
  <2>. TAKE u \in Thread
  <2>1. (op[u].pc # "idle" <=> u \in Range(line)) /\ Once(line, u)
    BY DEF MutexInv
  <2>2. Once(line', u)
    BY <1>1, <2>1, OnceAppend
  <2>3. op'[u].pc # "idle" <=> u \in Range(line')
    BY <1>2, <1>3, <2>1
  <2>. QED  BY <2>2, <2>3
<1>5. inside' = {u \in Thread : op'[u].pc \in {"search", "split", "push", "pushed"}}
  <2>1. inside = {u \in Thread : op[u].pc \in {"search", "split", "push", "pushed"}}
    BY DEF MutexInv
  <2>. QED  BY <1>1, <1>3, <2>1
<1>6. \A u \in inside' : line' # <<>> /\ Head(line') = u
  BY <1>1, <1>2 DEF MutexInv
<1>. QED  BY <1>1, <1>2, <1>4, <1>5, <1>6 DEF MutexInv

\* lock() returns to the head of the line.
LEMMA Enters ==
    ASSUME Constants, TypeOK, MutexInv, NEW t \in Thread, Mutex!Enter(t),
           NEW c \in Calls, c.pc \in {"search", "push"}, op' = [op EXCEPT ![t] = c]
    PROVE  /\ MutexInv' /\ line' \in Seq(Thread) /\ inside' \subseteq Thread
           /\ op[t].pc \in {"allocate", "deallocate"}
<1>1. /\ line # <<>> /\ Head(line) = t /\ t \notin inside
      /\ inside' = inside \cup {t} /\ line' = line
      /\ line \in Seq(Thread) /\ inside \subseteq Thread
  BY Types DEF Mutex!Enter
<1>2. t \in Range(line)
  BY <1>1, RangeTail
<1>3. op'[t] = c /\ \A u \in Thread : u # t => op'[u] = op[u]
  BY Types, OneCall
<1>4. /\ \A u \in Thread : (op[u].pc # "idle" <=> u \in Range(line)) /\ Once(line, u)
      /\ inside = {u \in Thread : op[u].pc \in {"search", "split", "push", "pushed"}}
      /\ \A u \in inside : line # <<>> /\ Head(line) = u
  BY DEF MutexInv
<1>5. op[t].pc \in {"allocate", "deallocate"}
  BY <1>1, <1>2, <1>4, Types DEF Calls
<1>6. \A u \in Thread : (op'[u].pc # "idle" <=> u \in Range(line')) /\ Once(line', u)
  BY <1>1, <1>2, <1>3, <1>4
<1>7. inside' = {u \in Thread : op'[u].pc \in {"search", "split", "push", "pushed"}}
  BY <1>1, <1>3, <1>4
<1>8. \A u \in inside' : line' # <<>> /\ Head(line') = u
  BY <1>1, <1>4
<1>. QED  BY <1>1, <1>5, <1>6, <1>7, <1>8 DEF MutexInv

\* A step inside the critical section.
LEMMA Stays ==
    ASSUME Constants, TypeOK, MutexInv, NEW t \in Thread, op[t].pc \in Entered,
           line' = line, inside' = inside,
           NEW c \in Calls, c.pc \in Entered, op' = [op EXCEPT ![t] = c]
    PROVE  MutexInv' /\ line' \in Seq(Thread) /\ inside' \subseteq Thread
<1>1. op'[t] = c /\ \A u \in Thread : u # t => op'[u] = op[u]
  BY Types, OneCall
<1>2. /\ \A u \in Thread : (op[u].pc # "idle" <=> u \in Range(line)) /\ Once(line, u)
      /\ inside = {u \in Thread : op[u].pc \in Entered}
      /\ \A u \in inside : line # <<>> /\ Head(line) = u
  BY DEF MutexInv, Entered
<1>3. \A u \in Thread : (op'[u].pc # "idle" <=> u \in Range(line')) /\ Once(line', u)
  BY <1>1, <1>2 DEF Entered
<1>4. inside' = {u \in Thread : op'[u].pc \in Entered}
  BY <1>1, <1>2
<1>. QED  BY <1>2, <1>3, <1>4, Types DEF MutexInv, Entered

\* unlock(): the next thread in the line moves up.
LEMMA Leaves ==
    ASSUME Constants, TypeOK, MutexInv, NEW t \in Thread, Mutex!Leave(t),
           NEW c \in Calls, c.pc = "idle", op' = [op EXCEPT ![t] = c]
    PROVE  MutexInv' /\ line' \in Seq(Thread) /\ inside' \subseteq Thread
<1>1. /\ t \in inside /\ line # <<>> /\ Head(line) = t
      /\ line' = Tail(line) /\ inside' = inside \ {t}
      /\ line \in Seq(Thread) /\ inside \subseteq Thread
  BY Types DEF Mutex!Leave
<1>2. /\ line' \in Seq(Thread) /\ Range(line) = Range(line') \cup {t}
  BY <1>1, RangeTail
<1>3. op'[t] = c /\ \A u \in Thread : u # t => op'[u] = op[u]
  BY Types, OneCall
<1>4. /\ \A u \in Thread : (op[u].pc # "idle" <=> u \in Range(line)) /\ Once(line, u)
      /\ inside = {u \in Thread : op[u].pc \in {"search", "split", "push", "pushed"}}
      /\ \A u \in inside : line # <<>> /\ Head(line) = u
  BY DEF MutexInv
<1>5. \A u \in Thread : Once(line', u) /\ (u = t => u \notin Range(line'))
  BY <1>1, <1>4, OnceTail
<1>6. \A u \in Thread : (op'[u].pc # "idle" <=> u \in Range(line')) /\ Once(line', u)
  BY <1>2, <1>3, <1>4, <1>5
<1>7. inside' = {u \in Thread : op'[u].pc \in {"search", "split", "push", "pushed"}}
  BY <1>1, <1>3, <1>4
<1>8. inside' = {}
  BY <1>1, <1>4
<1>. QED  BY <1>2, <1>6, <1>7, <1>8 DEF MutexInv

\* A thread's step leaves what the recursion of the others has seen.
LEMMA Levels ==
    ASSUME Constants, TypeOK, LevelInv, NEW t \in Thread, NEW c \in Calls, op' = [op EXCEPT ![t] = c],
           m_blocks' = m_blocks \/ \A u \in Thread : u # t => op[u].pc # "search",
           c.pc = "allocate" => c.level = c.power,
           c.pc \in {"search", "split"} => c.power <= c.level,
           c.pc = "search" => \A k \in c.power .. c.level - 1 : m_blocks'[k] = <<>>
    PROVE  LevelInv'
<1>1. op'[t] = c /\ \A u \in Thread : u # t => op'[u] = op[u]
  BY Types, OneCall
<1>2. SUFFICES ASSUME NEW u \in Thread
               PROVE  /\ op'[u].pc = "allocate" => op'[u].level = op'[u].power
                      /\ op'[u].pc \in {"search", "split"} => op'[u].power <= op'[u].level
                      /\ op'[u].pc = "search" =>
                            \A k \in op'[u].power .. op'[u].level - 1 : m_blocks'[k] = <<>>
  BY DEF LevelInv
<1>3. CASE u = t
  BY <1>1, <1>3
<1>4. CASE u # t
  BY <1>1, <1>4 DEF LevelInv
<1>. QED  BY <1>3, <1>4

----------------------------------------------------------------------------
(* The inductive invariant.                                                *)

\* The parts together, after a step of t to the call c that stops nothing.
LEMMA Together ==
    ASSUME Constants, Inv, ~ panic, panic' = panic,
           NEW t \in Thread, NEW c \in Calls, op' = [op EXCEPT ![t] = c],
           m_blocks' \in [Power -> Seq(HeapStart..HeapEnd)], owned' \subseteq PageRange,
           MutexInv' /\ line' \in Seq(Thread) /\ inside' \subseteq Thread,
           PlaceInv' /\ RangeInv',
           LevelInv'
    PROVE  Inv'
<1>1. op' \in [Thread -> Calls]
  BY OneCall, Types DEF Inv
<1>2. panic' \in BOOLEAN
  BY Types DEF Inv
<1>3. TypeOK'
  BY <1>1, <1>2 DEF TypeOK, Calls
<1>4. OnlyExhaustionStops'
  BY DEF OnlyExhaustionStops
<1>. QED  BY <1>3, <1>4 DEF Inv

\* The inductive invariant, in parts.
LEMMA Parts ==
    ASSUME Inv
    PROVE  TypeOK /\ MutexInv /\ LevelInv /\ PlaceInv /\ RangeInv /\ OnceInv
BY DEF Inv, PlaceInv, OnceInv

LEMMA AllocateKeeps ==
    ASSUME Constants, Inv, ~ panic, NEW t \in Thread, NEW power \in Wanted, Allocate(t, power)
    PROVE  Inv'
<1>1. PICK c : c = Call("allocate", power, power, HeapStart)
  OBVIOUS
<1>2. /\ op[t] = Idle /\ Mutex!Arrive(t) /\ op' = [op EXCEPT ![t] = c]
      /\ m_blocks' = m_blocks /\ owned' = owned /\ panic' = panic
  BY <1>1 DEF Allocate
<1>3. HeapStart \in HeapStart..HeapEnd /\ power \in Power /\ 0 \in Power
  BY ConstantTypes DEF Constants, WantedAssumption, Power
<1>4. /\ c \in Calls /\ c.pc = "allocate" /\ c.level = c.power /\ ~ IsMover(c)
      /\ op[t].pc = "idle" /\ ~ IsMover(op[t])
  BY <1>1, <1>2, <1>3, Record DEF Idle
<1>5. MutexInv' /\ line' \in Seq(Thread) /\ inside' \subseteq Thread
  BY <1>2, <1>4, Parts, Arrives
<1>6. PlaceInv' /\ RangeInv'
  <2>1. Movers' = Movers /\ Moved' = Moved
    BY <1>2, <1>4, Parts, Types, MoversChange
  <2>. QED  BY <1>2, <2>1, Parts, NothingMoves
<1>7. LevelInv'
  BY <1>2, <1>4, Parts, Levels
<1>. QED  BY <1>2, <1>4, <1>5, <1>6, <1>7, Parts, Types, Together

LEMMA DeallocateKeeps ==
    ASSUME Constants, Inv, ~ panic, NEW t \in Thread, NEW range \in owned, Deallocate(t, range)
    PROVE  Inv'
<1>1. PICK c : c = Call("deallocate", range.power, range.power, range.base)
  OBVIOUS
<1>2. /\ op[t] = Idle /\ Mutex!Arrive(t) /\ op' = [op EXCEPT ![t] = c]
      /\ m_blocks' = m_blocks /\ owned' = owned \ {range} /\ panic' = panic
  BY <1>1 DEF Deallocate
<1>3. /\ range \in PageRange /\ range.power \in Power /\ range.base \in HeapStart..HeapEnd
      /\ range = [power |-> range.power, base |-> range.base]
      /\ HeapStart \in HeapStart..HeapEnd /\ 0 \in Power
  <2>1. range \in PageRange
    BY Parts, Types
  <2>2. HeapStart \in HeapStart..HeapEnd /\ 0 \in Power
    BY ConstantTypes DEF Power
  <2>. QED  BY <2>1, <2>2 DEF PageRange
<1>4. /\ c \in Calls /\ c.pc = "deallocate" /\ IsMover(c) /\ MovedBy(c) = range
      /\ op[t].pc = "idle" /\ ~ IsMover(op[t])
  BY <1>1, <1>2, <1>3, Record DEF Idle
<1>5. MutexInv' /\ line' \in Seq(Thread) /\ inside' \subseteq Thread
  BY <1>2, <1>4, Parts, Arrives
<1>6. PlaceInv' /\ RangeInv'
  <2>1. /\ t \notin Movers /\ Movers' = Movers \cup {t}
        /\ Moved' = [u \in Movers \cup {t} |-> IF u = t THEN range ELSE Moved[u]]
    <3>1. /\ t \notin Movers /\ Movers' = Movers \cup {t}
          /\ Moved' = [u \in Movers \cup {t} |-> IF u = t THEN MovedBy(c) ELSE Moved[u]]
      BY <1>2, <1>4, Parts, Types, MoversChange
    <3>. QED  BY <1>4, <3>1
  <2>2. FreeRanges' = FreeRanges /\ FreeRanges = FreeRanges \ {range} /\ OnceInv'
    BY <1>2, Parts DEF FreeRanges, PlaceInv, OnceInv
  <2>. QED  BY <1>2, <2>1, <2>2, Parts, Lifted
<1>7. LevelInv'
  BY <1>2, <1>4, Parts, Levels
<1>. QED  BY <1>2, <1>4, <1>5, <1>6, <1>7, Parts, Types, Together

LEMMA EnterKeeps ==
    ASSUME Constants, Inv, ~ panic, NEW t \in Thread, Enter(t)
    PROVE  Inv'
<1>1. PICK c : c = Call(IF op[t].pc = "allocate" THEN "search" ELSE "push",
                        op[t].power, op[t].level, op[t].base)
  OBVIOUS
<1>2. /\ Mutex!Enter(t) /\ op' = [op EXCEPT ![t] = c]
      /\ m_blocks' = m_blocks /\ owned' = owned /\ panic' = panic
  BY <1>1 DEF Enter, GoOn
<1>3. /\ c \in Calls /\ c.pc \in {"search", "push"}
      /\ c.pc = IF op[t].pc = "allocate" THEN "search" ELSE "push"
      /\ c.power = op[t].power /\ c.level = op[t].level /\ c.base = op[t].base
      /\ IsMover(c) <=> c.pc = "push"
      /\ MovedBy(c) = [power |-> op[t].power, base |-> op[t].base]
  BY <1>1, Parts, Types, Record
<1>4. /\ MutexInv' /\ line' \in Seq(Thread) /\ inside' \subseteq Thread
      /\ op[t].pc \in {"allocate", "deallocate"}
  BY <1>2, <1>3, Parts, Enters
<1>5. PlaceInv' /\ RangeInv'
  <2>1. Movers' = Movers /\ Moved' = Moved
    <3>1. CASE op[t].pc = "allocate"
      <4>1. ~ IsMover(op[t]) /\ ~ IsMover(c)
        BY <1>3, <3>1 DEF IsMover
      <4>. QED  BY <1>2, <4>1, Parts, Types, MoversChange
    <3>2. CASE op[t].pc = "deallocate"
      <4>1. IsMover(op[t]) /\ IsMover(c) /\ MovedBy(op[t]) = MovedBy(c)
        BY <1>3, <3>2 DEF IsMover, MovedBy
      <4>2. /\ Movers' = Movers /\ t \in Movers
            /\ Moved' = [Moved EXCEPT ![t] = MovedBy(c)]
            /\ Moved[t] = MovedBy(c)
        BY <1>2, <4>1, Parts, Types, MoversChange
      <4>3. Moved = [u \in Movers |-> Moved[u]]
        BY DEF Moved
      <4>. QED  BY <4>2, <4>3
    <3>. QED  BY <1>4, <3>1, <3>2
  <2>. QED  BY <1>2, <2>1, Parts, NothingMoves
<1>6. LevelInv'
  <2>1. c.pc = "search" => c.power \in Nat /\ c.level = c.power
    BY <1>3, <1>4, Parts, Types DEF LevelInv
  <2>2. c.pc = "search" => c.power <= c.level /\ c.power .. c.level - 1 = {}
    BY <2>1
  <2>. QED  BY <1>2, <1>3, <2>2, Parts, Levels
<1>. QED  BY <1>2, <1>3, <1>4, <1>5, <1>6, Parts, Types, Together

LEMMA ClimbKeeps ==
    ASSUME Constants, Inv, ~ panic, NEW t \in Thread, Climb(t)
    PROVE  Inv'
<1>1. PICK c : c = Call("search", op[t].power, op[t].level + 1, op[t].base)
  OBVIOUS
<1>2. /\ op[t].pc = "search" /\ m_blocks[op[t].level] = <<>> /\ op[t].level < MaxPower
      /\ op' = [op EXCEPT ![t] = c]
      /\ m_blocks' = m_blocks /\ owned' = owned /\ line' = line /\ inside' = inside /\ panic' = panic
  BY <1>1 DEF Climb, GoOn
<1>3. op[t].level + 1 \in Power
  BY <1>2, Parts, Types, ConstantTypes DEF Power
<1>4. /\ c \in Calls /\ c.pc = "search" /\ ~ IsMover(c) /\ ~ IsMover(op[t])
      /\ c.power = op[t].power /\ c.level = op[t].level + 1
  BY <1>1, <1>2, <1>3, Parts, Types, Record DEF IsMover
<1>5. MutexInv' /\ line' \in Seq(Thread) /\ inside' \subseteq Thread
  BY <1>2, <1>4, Parts, Stays DEF Entered
<1>6. PlaceInv' /\ RangeInv'
  <2>1. Movers' = Movers /\ Moved' = Moved
    BY <1>2, <1>4, Parts, Types, MoversChange
  <2>. QED  BY <1>2, <2>1, Parts, NothingMoves
<1>7. LevelInv'
  <2>1. /\ op[t].power <= op[t].level
        /\ \A k \in op[t].power .. op[t].level - 1 : m_blocks[k] = <<>>
    BY <1>2, Parts DEF LevelInv
  <2>2. c.power <= c.level /\ \A k \in c.power .. c.level - 1 : m_blocks'[k] = <<>>
    BY <1>2, <1>4, <2>1, Parts, Types
  <2>. QED  BY <1>2, <1>4, <2>2, Parts, Levels
<1>. QED  BY <1>2, <1>4, <1>5, <1>6, <1>7, Parts, Types, Together

LEMMA TakeKeeps ==
    ASSUME Constants, Inv, ~ panic, NEW t \in Thread, Take(t)
    PROVE  Inv'
<1>0. PICK k \in Power : k = op[t].level
  BY Parts, Types
<1>1. PICK c : c = Call("split", op[t].power, k, Head(m_blocks[k]))
  OBVIOUS
<1>2. /\ op[t].pc = "search" /\ m_blocks[k] # <<>>
      /\ m_blocks' = [m_blocks EXCEPT ![k] = Tail(m_blocks[k])]
      /\ op' = [op EXCEPT ![t] = c]
      /\ owned' = owned /\ line' = line /\ inside' = inside /\ panic' = panic
  BY <1>0, <1>1 DEF Take, GoOn
<1>3. PICK r : r = [power |-> k, base |-> Head(m_blocks[k])]
  OBVIOUS
<1>4. /\ m_blocks' \in [Power -> Seq(HeapStart..HeapEnd)]
      /\ Head(m_blocks[k]) \in HeapStart..HeapEnd
      /\ r \in FreeRanges /\ FreeRanges' = FreeRanges \ {r} /\ OnceInv'
  BY <1>2, <1>3, Parts, Types, FreeShrinks DEF OnceInv
<1>5. /\ c \in Calls /\ c.pc = "split" /\ IsMover(c) /\ MovedBy(c) = r /\ ~ IsMover(op[t])
      /\ c.power = op[t].power /\ c.level = op[t].level
  BY <1>0, <1>1, <1>2, <1>3, <1>4, Parts, Types, Record DEF IsMover
<1>6. MutexInv' /\ line' \in Seq(Thread) /\ inside' \subseteq Thread
  BY <1>2, <1>5, Parts, Stays DEF Entered
<1>7. PlaceInv' /\ RangeInv'
  <2>1. /\ t \notin Movers /\ Movers' = Movers \cup {t}
        /\ Moved' = [u \in Movers \cup {t} |-> IF u = t THEN r ELSE Moved[u]]
    <3>1. /\ t \notin Movers /\ Movers' = Movers \cup {t}
          /\ Moved' = [u \in Movers \cup {t} |-> IF u = t THEN MovedBy(c) ELSE Moved[u]]
      BY <1>2, <1>5, Parts, Types, MoversChange
    <3>. QED  BY <1>5, <3>1
  <2>2. r \notin owned /\ owned' = owned \ {r}
    BY <1>2, <1>4, Parts DEF PlaceInv
  <2>. QED  BY <1>4, <2>1, <2>2, Parts, Lifted
<1>8. LevelInv'
  <2>1. op[t].power <= op[t].level /\ \A u \in Thread : u # t => op[u].pc # "search"
    BY <1>2, Parts, Alone DEF LevelInv, Entered
  <2>. QED  BY <1>2, <1>5, <2>1, Parts, Levels
<1>. QED  BY <1>2, <1>4, <1>5, <1>6, <1>7, <1>8, Parts, Types, Together

LEMMA SplitKeeps ==
    ASSUME Constants, Inv, ~ panic, NEW t \in Thread, Split(t)
    PROVE  Inv'
<1>1. PICK h \in Int, b \in HeapStart..HeapEnd : h = op[t].level - 1 /\ b = op[t].base
  BY Parts, Types
<1>2. PICK c : c = Call("split", op[t].power, h, b)
  OBVIOUS
<1>3. /\ op[t].pc = "split" /\ op[t].power <= h /\ Push(h, UpperHalf(h, b))
      /\ op' = [op EXCEPT ![t] = c]
      /\ owned' = owned /\ line' = line /\ inside' = inside /\ panic' = panic
  BY <1>1, <1>2, Parts, Types DEF Split, GoOn
<1>4. /\ h \in Power /\ h + 1 \in Power /\ h + 1 = op[t].level /\ b \in Nat
  <2>1. op[t].level \in Power /\ op[t].level \in Nat /\ op[t].power \in Nat
    BY Parts, Types
  <2>2. h + 1 = op[t].level /\ h \in Nat
    BY <1>1, <1>3, <2>1
  <2>3. b \in Nat
    BY ConstantTypes
  <2>4. h \in Power
    BY <2>1, <2>2, ConstantTypes DEF Power
  <2>. QED  BY <2>1, <2>2, <2>3, <2>4
<1>5. /\ c \in Calls /\ c.pc = "split" /\ c.power = op[t].power /\ c.level = h
      /\ IsMover(c) /\ MovedBy(c) = [power |-> h, base |-> b]
      /\ IsMover(op[t]) /\ MovedBy(op[t]) = [power |-> h + 1, base |-> b]
  <2>1. IsMover(op[t]) /\ MovedBy(op[t]) = [power |-> h + 1, base |-> b]
    BY <1>1, <1>3, <1>4 DEF IsMover, MovedBy
  <2>. QED  BY <1>2, <1>4, <2>1, Parts, Types, Record
<1>6. /\ t \in Movers /\ Moved[t] = [power |-> h + 1, base |-> b]
      /\ Movers' = Movers /\ Moved' = [Moved EXCEPT ![t] = [power |-> h, base |-> b]]
  <2>1. /\ Movers' = Movers /\ t \in Movers
        /\ Moved' = [Moved EXCEPT ![t] = MovedBy(c)]
        /\ Moved[t] = MovedBy(op[t])
    BY <1>3, <1>5, Parts, Types, MoversChange
  <2>. QED  BY <1>5, <2>1
<1>7. UpperHalf(h, b) \in HeapStart..HeapEnd
  <2>1. [power |-> h + 1, base |-> b] \in Ranges
    BY <1>6 DEF Ranges
  <2>2. b + 2 ^ (h + 1) <= HeapEnd
    BY <2>1, Parts DEF RangeInv
  <2>3. /\ UpperHalf(h, b) + 2 ^ h = b + 2 ^ (h + 1)
        /\ UpperHalf(h, b) \in Nat /\ b < UpperHalf(h, b) /\ 2 ^ h \in Nat
    BY <1>4, Halves, ConstantTypes
  <2>. QED  BY <2>2, <2>3, ConstantTypes
<1>8. PICK upper : upper = [power |-> h, base |-> UpperHalf(h, b)]
  OBVIOUS
<1>9. upper \notin FreeRanges =>
         /\ m_blocks' \in [Power -> Seq(HeapStart..HeapEnd)]
         /\ FreeRanges' = FreeRanges \cup {upper} /\ OnceInv'
  BY <1>3, <1>4, <1>7, <1>8, Parts, Types, FreeGrows DEF OnceInv
<1>10. PlaceInv' /\ RangeInv'
  BY <1>3, <1>4, <1>6, <1>8, <1>9, Parts, Halved
<1>11. m_blocks' \in [Power -> Seq(HeapStart..HeapEnd)]
  <2>1. m_blocks[h] \in Seq(HeapStart..HeapEnd)
    BY <1>4, Parts, Types
  <2>2. <<UpperHalf(h, b)>> \o m_blocks[h] \in Seq(HeapStart..HeapEnd)
    BY <1>7, <2>1, FrontOfQueue
  <2>. QED  BY <1>3, <2>2, Parts, Types DEF Push
<1>12. MutexInv' /\ line' \in Seq(Thread) /\ inside' \subseteq Thread
  BY <1>3, <1>5, Parts, Stays DEF Entered
<1>13. LevelInv'
  <2>1. \A u \in Thread : u # t => op[u].pc # "search"
    BY <1>3, Parts, Alone DEF Entered
  <2>. QED  BY <1>3, <1>5, <2>1, Parts, Levels
<1>. QED  BY <1>3, <1>5, <1>10, <1>11, <1>12, <1>13, Parts, Types, Together

LEMMA AllocatedKeeps ==
    ASSUME Constants, Inv, ~ panic, NEW t \in Thread, Allocated(t)
    PROVE  Inv'
<1>1. PICK r : r = [power |-> op[t].power, base |-> op[t].base]
  OBVIOUS
<1>2. /\ op[t].pc = "split" /\ op[t].level = op[t].power /\ Mutex!Leave(t)
      /\ owned' = owned \cup {r} /\ op' = [op EXCEPT ![t] = Idle]
      /\ m_blocks' = m_blocks /\ panic' = panic
  BY <1>1 DEF Allocated
<1>3. /\ Idle \in Calls /\ Idle.pc = "idle" /\ ~ IsMover(Idle)
      /\ IsMover(op[t]) /\ MovedBy(op[t]) = r /\ r \in PageRange
  <2>1. HeapStart \in HeapStart..HeapEnd /\ 0 \in Power
    BY ConstantTypes DEF Power
  <2>2. Idle \in Calls /\ Idle.pc = "idle" /\ ~ IsMover(Idle)
    BY <2>1, Record DEF Idle
  <2>3. IsMover(op[t]) /\ MovedBy(op[t]) = r
    BY <1>1, <1>2 DEF IsMover, MovedBy
  <2>4. r \in PageRange
    BY <1>1, Parts, Types DEF PageRange
  <2>. QED  BY <2>2, <2>3, <2>4
<1>4. MutexInv' /\ line' \in Seq(Thread) /\ inside' \subseteq Thread
  BY <1>2, <1>3, Parts, Leaves
<1>5. PlaceInv' /\ RangeInv'
  <2>1. /\ t \in Movers /\ Movers' = Movers \ {t} /\ r = Moved[t]
        /\ Moved' = [u \in Movers \ {t} |-> Moved[u]]
    BY <1>2, <1>3, Parts, Types, MoversChange
  <2>2. FreeRanges' = FreeRanges /\ OnceInv'
    BY <1>2, Parts DEF FreeRanges, OnceInv
  <2>. QED  BY <1>2, <2>1, <2>2, Parts, Laid
<1>6. LevelInv'
  BY <1>2, <1>3, Parts, Levels
<1>. QED  BY <1>2, <1>3, <1>4, <1>5, <1>6, Parts, Types, Together

LEMMA PushBackKeeps ==
    ASSUME Constants, Inv, ~ panic, NEW t \in Thread, PushBack(t)
    PROVE  Inv'
<1>0. PICK k \in Power, b \in HeapStart..HeapEnd : k = op[t].power /\ b = op[t].base
  BY Parts, Types
<1>1. PICK c : c = Call("pushed", k, op[t].level, b)
  OBVIOUS
<1>2. /\ op[t].pc = "push" /\ Push(k, b) /\ op' = [op EXCEPT ![t] = c]
      /\ owned' = owned /\ line' = line /\ inside' = inside /\ panic' = panic
  BY <1>0, <1>1 DEF PushBack, GoOn
<1>3. PICK r : r = [power |-> k, base |-> b]
  OBVIOUS
<1>4. /\ c \in Calls /\ c.pc = "pushed" /\ ~ IsMover(c)
      /\ IsMover(op[t]) /\ MovedBy(op[t]) = r
  <2>1. IsMover(op[t]) /\ MovedBy(op[t]) = r
    BY <1>0, <1>1, <1>2, <1>3 DEF IsMover, MovedBy
  <2>. QED  BY <1>0, <1>1, <2>1, Parts, Types, Record
<1>5. /\ t \in Movers /\ Movers' = Movers \ {t} /\ r = Moved[t]
      /\ Moved' = [u \in Movers \ {t} |-> Moved[u]]
  BY <1>2, <1>4, Parts, Types, MoversChange
<1>6. /\ m_blocks' \in [Power -> Seq(HeapStart..HeapEnd)]
      /\ FreeRanges' = FreeRanges \cup {r} /\ OnceInv'
  <2>1. r \notin FreeRanges
    BY <1>5, Parts DEF PlaceInv
  <2>. QED  BY <1>2, <1>3, <2>1, Parts, Types, FreeGrows DEF OnceInv
<1>7. PlaceInv' /\ RangeInv'
  BY <1>2, <1>5, <1>6, Parts, Laid
<1>8. MutexInv' /\ line' \in Seq(Thread) /\ inside' \subseteq Thread
  BY <1>2, <1>4, Parts, Stays DEF Entered
<1>9. LevelInv'
  <2>1. \A u \in Thread : u # t => op[u].pc # "search"
    BY <1>2, Parts, Alone DEF Entered
  <2>. QED  BY <1>2, <1>4, <2>1, Parts, Levels
<1>. QED  BY <1>2, <1>4, <1>6, <1>7, <1>8, <1>9, Parts, Types, Together

LEMMA DeallocatedKeeps ==
    ASSUME Constants, Inv, ~ panic, NEW t \in Thread, Deallocated(t)
    PROVE  Inv'
<1>1. /\ op[t].pc = "pushed" /\ Mutex!Leave(t) /\ op' = [op EXCEPT ![t] = Idle]
      /\ m_blocks' = m_blocks /\ owned' = owned /\ panic' = panic
  BY DEF Deallocated
<1>2. /\ Idle \in Calls /\ Idle.pc = "idle" /\ ~ IsMover(Idle) /\ ~ IsMover(op[t])
  <2>1. HeapStart \in HeapStart..HeapEnd /\ 0 \in Power
    BY ConstantTypes DEF Power
  <2>2. Idle \in Calls /\ Idle.pc = "idle" /\ ~ IsMover(Idle)
    BY <2>1, Record DEF Idle
  <2>3. ~ IsMover(op[t])
    BY <1>1 DEF IsMover
  <2>. QED  BY <2>2, <2>3
<1>3. MutexInv' /\ line' \in Seq(Thread) /\ inside' \subseteq Thread
  BY <1>1, <1>2, Parts, Leaves
<1>4. PlaceInv' /\ RangeInv'
  <2>1. Movers' = Movers /\ Moved' = Moved
    BY <1>1, <1>2, Parts, Types, MoversChange
  <2>. QED  BY <1>1, <2>1, Parts, NothingMoves
<1>5. LevelInv'
  BY <1>1, <1>2, Parts, Levels
<1>. QED  BY <1>1, <1>2, <1>3, <1>4, <1>5, Parts, Types, Together

\* The only step that stops the machine: the lists from the power that was asked for up to
\* the largest are empty, and nobody else is inside.
LEMMA OutOfMemoryKeeps ==
    ASSUME Constants, Inv, NEW t \in Thread, OutOfMemory(t)
    PROVE  Inv'
<1>1. /\ op[t].pc = "search" /\ m_blocks[op[t].level] = <<>> /\ op[t].level = MaxPower
      /\ panic' = TRUE /\ m_blocks' = m_blocks /\ owned' = owned
      /\ op' = op /\ line' = line /\ inside' = inside
  BY DEF OutOfMemory
<1>2. TypeOK'
  <2>1. panic' \in BOOLEAN
    BY <1>1
  <2>. QED  BY <1>1, <2>1, Parts DEF TypeOK
<1>3. MutexInv' /\ LevelInv'
  BY <1>1, Parts DEF MutexInv, LevelInv
<1>4. PlaceInv' /\ RangeInv'
  <2>1. Movers' = Movers /\ Moved' = Moved
    BY <1>1 DEF Movers, Moved
  <2>. QED  BY <1>1, <2>1, Parts, NothingMoves
<1>5. OnlyExhaustionStops'
  <2>1. \A u \in Thread : op[u].pc \notin {"split", "push"}
    <3>1. \A u \in Thread : u # t => op[u].pc \notin Entered
      BY <1>1, Parts, Alone DEF Entered
    <3>. QED  BY <1>1, <3>1 DEF Entered
  <2>2. ASSUME NEW k \in Power, op[t].power <= k PROVE m_blocks[k] = <<>>
    <3>1. /\ \A i \in op[t].power .. op[t].level - 1 : m_blocks[i] = <<>>
          /\ op[t].power \in Nat /\ k \in Nat /\ k <= MaxPower /\ MaxPower \in Nat
      BY <1>1, Parts, Types, ConstantTypes DEF LevelInv, Power
    <3>2. k = MaxPower \/ k \in op[t].power .. op[t].level - 1
      BY <1>1, <2>2, <3>1
    <3>. QED  BY <1>1, <3>1, <3>2
  <2>3. ASSUME NEW p \in Free PROVE p.range.power < op[t].power
    <3>1. PICK k \in Power : \E i \in DOMAIN m_blocks[k] :
             p = [place |-> <<k, i>>, range |-> [power |-> k, base |-> m_blocks[k][i]]]
      BY DEF Free
    <3>2. p.range.power = k /\ m_blocks[k] # <<>>
      BY <3>1
    <3>3. ~ (op[t].power <= k)
      BY <2>2, <3>2
    <3>4. op[t].power \in Int /\ k \in Int
      BY Parts, Types, ConstantTypes
    <3>. QED  BY <3>2, <3>3, <3>4
  <2>4. Free' = Free
    BY <1>1 DEF Free
  <2>. QED  BY <1>1, <2>1, <2>3, <2>4 DEF OnlyExhaustionStops
<1>. QED  BY <1>2, <1>3, <1>4, <1>5 DEF Inv

----------------------------------------------------------------------------
(* The theorems.                                                           *)

LEMMA InitEstablishes ==
    ASSUME Constants, Init
    PROVE  Inv
<1>1. /\ m_blocks = [k \in Power |-> Discovered(k)] /\ owned = {}
      /\ op = [t \in Thread |-> Idle] /\ line = <<>> /\ inside = {} /\ panic = FALSE
  BY DEF Init, Mutex!Init
<1>2. m_blocks \in [Power -> Seq(HeapStart..HeapEnd)] /\ PlaceInv /\ RangeInv
  BY <1>1, Discovery
<1>3. Idle \in Calls /\ Idle.pc = "idle"
  <2>1. HeapStart \in HeapStart..HeapEnd /\ 0 \in Power
    BY ConstantTypes DEF Power
  <2>. QED  BY <2>1, Record DEF Idle
<1>4. TypeOK
  <2>1. op \in [Thread -> Calls]
    BY <1>1, <1>3
  <2>2. panic \in BOOLEAN
    BY <1>1
  <2>. QED  BY <1>1, <1>2, <2>1, <2>2 DEF TypeOK, Calls
<1>5. MutexInv
  BY <1>1, <1>3 DEF MutexInv, Range, Once
<1>6. LevelInv
  BY <1>1, <1>3 DEF LevelInv
<1>7. OnlyExhaustionStops
  BY <1>1 DEF OnlyExhaustionStops
<1>. QED  BY <1>2, <1>4, <1>5, <1>6, <1>7 DEF Inv

LEMMA NextKeeps ==
    ASSUME Constants, Inv, [Next]_vars
    PROVE  Inv'
<1>1. CASE UNCHANGED vars
  <2>1. /\ m_blocks' = m_blocks /\ owned' = owned /\ op' = op
        /\ line' = line /\ inside' = inside /\ panic' = panic
    BY <1>1 DEF vars
  <2>2. Movers' = Movers /\ Moved' = Moved /\ Free' = Free
    BY <2>1 DEF Movers, Moved, Free
  <2>3. PlaceInv' /\ RangeInv'
    BY <2>1, <2>2, Parts, NothingMoves
  <2>4. TypeOK' /\ MutexInv' /\ LevelInv'
    BY <2>1, Parts DEF TypeOK, MutexInv, LevelInv
  <2>5. OnlyExhaustionStops'
    BY <2>1, <2>2 DEF Inv, OnlyExhaustionStops
  <2>. QED  BY <2>3, <2>4, <2>5 DEF Inv
<1>2. CASE Crashed
  BY <1>1, <1>2 DEF Crashed
<1>3. ASSUME NEW t \in Thread, Begin(t) PROVE Inv'
  BY <1>3, AllocateKeeps, DeallocateKeeps DEF Begin
<1>4. ASSUME NEW t \in Thread, Continue(t) PROVE Inv'
  BY <1>4, EnterKeeps, ClimbKeeps, OutOfMemoryKeeps, TakeKeeps, SplitKeeps, AllocatedKeeps,
     PushBackKeeps, DeallocatedKeeps DEF Continue
<1>. QED  BY <1>1, <1>2, <1>3, <1>4 DEF Next

\* The inductive invariant of the allocator (PageAllocator.cpp:16-141): for any heap that
\* discover_blocks() can be given and any number of threads.
THEOREM Invariance ==
    ASSUME Constants
    PROVE  Spec => []Inv
<1>1. Constants
  OBVIOUS
<1>2. Init => Inv
  BY <1>1, InitEstablishes
<1>3. Inv /\ [Next]_vars => Inv'
  BY <1>1, NextKeeps
<1>. QED  BY <1>2, <1>3, PTL DEF Spec

\* The lists hold addresses of the heap, and a call works on powers that exist
\* (PageAllocator.cpp:84-114).
THEOREM TypeCorrect ==
    ASSUME Constants
    PROVE  Spec => []TypeOK
<1>1. Inv => TypeOK
  BY Parts
<1>. QED  BY <1>1, Invariance, PTL

\* allocate_locked() stops the machine only when no free block is large enough, never because
\* another thread holds the rest of a block (PageAllocator.cpp:103).
THEOREM OnlyExhaustion ==
    ASSUME Constants
    PROVE  Spec => []OnlyExhaustionStops
<1>1. Inv => OnlyExhaustionStops
  BY DEF Inv
<1>. QED  BY <1>1, Invariance, PTL

\* What is in a list is one of its elements.
LEMMA Elements ==
    ASSUME NEW S, NEW s \in Seq(S), NEW i \in DOMAIN s
    PROVE  s[i] \in S /\ s[i] \in Range(s)
<1>1. s[i] \in S
  <2>1. i \in 1..Len(s)
    OBVIOUS
  <2>. QED  BY <2>1, ElementOfSeq
<1>2. s[i] \in Range(s)
  BY DEF Range
<1>. QED  BY <1>1, <1>2

\* Two places hold different ranges.
LEMMA PlacesDiffer ==
    ASSUME Constants, Inv, NEW p \in Pieces, NEW q \in Pieces, p.range = q.range
    PROVE  p = q
<1>1. /\ FreeRanges \cap owned = {}
      /\ \A t \in Movers : Moved[t] \notin FreeRanges \cup owned
      /\ \A t, u \in Movers : Moved[t] = Moved[u] => t = u
  BY Parts DEF PlaceInv
<1>2. ASSUME NEW x \in Free
      PROVE  x.range \in FreeRanges /\ \E k \in Power : \E i \in DOMAIN m_blocks[k] :
                x = [place |-> <<k, i>>, range |-> [power |-> k, base |-> m_blocks[k][i]]]
  <2>1. PICK k \in Power : \E i \in DOMAIN m_blocks[k] :
           x = [place |-> <<k, i>>, range |-> [power |-> k, base |-> m_blocks[k][i]]]
    BY DEF Free
  <2>2. PICK i \in DOMAIN m_blocks[k] :
           x = [place |-> <<k, i>>, range |-> [power |-> k, base |-> m_blocks[k][i]]]
    BY <2>1
  <2>3. m_blocks[k] \in Seq(HeapStart..HeapEnd)
    BY Parts, Types
  <2>4. m_blocks[k][i] \in HeapStart..HeapEnd /\ m_blocks[k][i] \in Range(m_blocks[k])
    BY <2>3, Elements
  <2>. QED  BY <2>2, <2>4 DEF FreeRanges, PageRange
<1>3. \A x \in Owned : x.range \in owned /\ x = [place |-> <<"owned", 0>>, range |-> x.range]
  BY DEF Owned
<1>4. ASSUME NEW x \in Moving
      PROVE  \E t \in Movers : x = [place |-> <<t, -1>>, range |-> Moved[t]]
  BY DEF Moving
<1>5. \A x \in Moving : x.range \notin FreeRanges \cup owned
  BY <1>1, <1>4
<1>6. CASE p \in Free /\ q \in Free
  <2>1. PICK k \in Power : \E i \in DOMAIN m_blocks[k] :
           p = [place |-> <<k, i>>, range |-> [power |-> k, base |-> m_blocks[k][i]]]
    BY <1>2, <1>6
  <2>2. PICK i \in DOMAIN m_blocks[k] :
           p = [place |-> <<k, i>>, range |-> [power |-> k, base |-> m_blocks[k][i]]]
    BY <2>1
  <2>3. PICK l \in Power : \E j \in DOMAIN m_blocks[l] :
           q = [place |-> <<l, j>>, range |-> [power |-> l, base |-> m_blocks[l][j]]]
    BY <1>2, <1>6
  <2>4. PICK j \in DOMAIN m_blocks[l] :
           q = [place |-> <<l, j>>, range |-> [power |-> l, base |-> m_blocks[l][j]]]
    BY <2>3
  <2>5. k = l /\ m_blocks[k][i] = m_blocks[l][j]
    BY <2>2, <2>4
  <2>6. m_blocks[k][i] \in HeapStart..HeapEnd
    <3>1. m_blocks[k] \in Seq(HeapStart..HeapEnd)
      BY Parts, Types
    <3>. QED  BY <3>1, Elements
  <2>7. i = j
    BY <2>5, <2>6, Parts DEF OnceInv, Once
  <2>. QED  BY <2>2, <2>4, <2>5, <2>7
<1>7. CASE p \in Owned /\ q \in Owned
  BY <1>3, <1>7
<1>8. CASE p \in Moving /\ q \in Moving
  BY <1>1, <1>4, <1>8
<1>. QED  BY <1>1, <1>2, <1>3, <1>5, <1>6, <1>7, <1>8 DEF Pieces

\* The free blocks, the owned ranges and the blocks that calls are at work on never overlap
\* and are together all of the pages of the heap (PageAllocator.cpp:16-56, 84-141).
THEOREM NoPageIsLost ==
    ASSUME Constants
    PROVE  Spec => []NoPageLost
<1>1. ASSUME Inv PROVE NoPageLost
  <2>1. {p.range : p \in Pieces} = Ranges
    <3>1. {p.range : p \in Free} = FreeRanges
      <4>1. ASSUME NEW p \in Free PROVE p.range \in FreeRanges
        <5>1. PICK k \in Power : \E i \in DOMAIN m_blocks[k] :
                 p = [place |-> <<k, i>>, range |-> [power |-> k, base |-> m_blocks[k][i]]]
          BY DEF Free
        <5>2. m_blocks[k] \in Seq(HeapStart..HeapEnd)
          BY <1>1, Parts, Types
        <5>3. PICK i \in DOMAIN m_blocks[k] :
                 p = [place |-> <<k, i>>, range |-> [power |-> k, base |-> m_blocks[k][i]]]
          BY <5>1
        <5>4. m_blocks[k][i] \in HeapStart..HeapEnd /\ m_blocks[k][i] \in Range(m_blocks[k])
          BY <5>2, Elements
        <5>. QED  BY <5>3, <5>4 DEF FreeRanges, PageRange
      <4>2. ASSUME NEW r \in FreeRanges PROVE \E p \in Free : p.range = r
        <5>1. PICK k \in Power : k = r.power /\ r = [power |-> k, base |-> r.base]
                                 /\ r.base \in Range(m_blocks[k])
          BY DEF FreeRanges, PageRange
        <5>2. PICK i \in DOMAIN m_blocks[k] : m_blocks[k][i] = r.base
          BY <5>1 DEF Range
        <5>3. PICK p : p = [place |-> <<k, i>>, range |-> [power |-> k, base |-> m_blocks[k][i]]]
          OBVIOUS
        <5>4. p \in Free /\ p.range = r
          BY <5>1, <5>2, <5>3 DEF Free
        <5>. QED  BY <5>4
      <4>. QED  BY <4>1, <4>2
    <3>2. {p.range : p \in Owned} = owned
      <4>1. \A r \in owned : [place |-> <<"owned", 0>>, range |-> r] \in Owned
        BY DEF Owned
      <4>2. \A r \in owned : [place |-> <<"owned", 0>>, range |-> r].range = r
        OBVIOUS
      <4>3. \A p \in Owned : p.range \in owned
        BY DEF Owned
      <4>. QED  BY <4>1, <4>2, <4>3
    <3>3. {p.range : p \in Moving} = {Moved[t] : t \in Movers}
      <4>1. \A t \in Movers : [place |-> <<t, -1>>, range |-> Moved[t]] \in Moving
        BY DEF Moving
      <4>2. \A t \in Movers : [place |-> <<t, -1>>, range |-> Moved[t]].range = Moved[t]
        OBVIOUS
      <4>3. \A p \in Moving : \E t \in Movers : p.range = Moved[t]
        BY DEF Moving
      <4>4. \A t \in Movers : \E p \in Moving : p.range = Moved[t]
        BY <4>1, <4>2
      <4>. HIDE DEF Moving, Moved
      <4>. QED  BY <4>3, <4>4
    <3>. QED  BY <3>1, <3>2, <3>3 DEF Pieces, Ranges
  <2>2. \A p, q \in Pieces : p # q => Bytes(p.range) \cap Bytes(q.range) = {}
    <3>. SUFFICES ASSUME NEW p \in Pieces, NEW q \in Pieces, p # q
                  PROVE  Bytes(p.range) \cap Bytes(q.range) = {}
      OBVIOUS
    <3>1. p.range # q.range
      BY <1>1, PlacesDiffer
    <3>2. p.range \in Ranges /\ q.range \in Ranges
      BY <2>1
    <3>. QED  BY <1>1, <3>1, <3>2, Parts DEF RangeInv
  <2>3. UNION {Bytes(p.range) : p \in Pieces} = UNION {Bytes(r) : r \in Ranges}
    BY <2>1
  <2>. QED  BY <1>1, <2>2, <2>3, Parts DEF NoPageLost, RangeInv
<1>2. Inv => NoPageLost
  BY <1>1
<1>. QED  BY <1>2, Invariance, PTL

----------------------------------------------------------------------------
(* The heap.  Its blocks are disjoint and cover every address, and free    *)
(* blocks never touch; so wherever there is room for a block, all of it is *)
(* inside of one free block, and the search of allocate() finds one.       *)

\* The fields of a block and where it ends.
LEMMA BlockIs ==
    ASSUME Memory!HeapAssumption, NEW b \in Memory!Blocks
    PROVE  /\ b.at \in Nat /\ b.size \in Nat /\ b.at <= HeapSize /\ b.size <= HeapSize
           /\ Memory!EndOf(b) = b.at + 8 + b.size /\ Memory!EndOf(b) \in Nat
BY DEF Memory!Blocks, Memory!EndOf, Memory!Node, Memory!HeapAssumption

\* A block has at least the bytes of its node.
LEMMA NotEmpty ==
    ASSUME Memory!HeapAssumption, NEW b \in Memory!Blocks
    PROVE  b.at \in Nat /\ Memory!EndOf(b) \in Nat /\ b.at < Memory!EndOf(b)
<1>1. b.at \in Nat /\ b.size \in Nat /\ Memory!EndOf(b) = b.at + 8 + b.size
  BY BlockIs
<1>. QED  BY <1>1

\* What lies in the heap is a block.
LEMMA MakeBlock ==
    ASSUME Memory!HeapAssumption, NEW a \in Nat, NEW n \in Nat, a + 8 + n <= HeapSize
    PROVE  [at |-> a, size |-> n] \in Memory!Blocks
BY DEF Memory!Blocks, Memory!HeapAssumption

\* The search of allocate() finds the first block that is large enough.
LEMMA Finds ==
    ASSUME m_freelist \in Seq(Memory!Blocks), NEW size
    PROVE  /\ Memory!FirstFit(size) \in 0..Len(m_freelist)
           /\ Memory!FirstFit(size) # 0 => Memory!LargeEnough(m_freelist[Memory!FirstFit(size)], size)
           /\ Memory!FirstFit(size) = 0 => \A i \in 1..Len(m_freelist) : ~ Memory!LargeEnough(m_freelist[i], size)
<1>. DEFINE I == {i \in 1..Len(m_freelist) : Memory!LargeEnough(m_freelist[i], size)}
<1>1. Memory!FirstFit(size) = IF I # {} THEN Memory!Min(I) ELSE 0
  BY DEF Memory!FirstFit, Memory!SelectInSeq
<1>2. I \in SUBSET Nat /\ Len(m_freelist) \in Nat
  OBVIOUS
<1>. HIDE DEF I
<1>3. ASSUME I # {} PROVE Memory!Min(I) \in I
  BY <1>2, <1>3, Minimum DEF Memory!Min
<1>. QED  BY <1>1, <1>2, <1>3 DEF I

\* The search of deallocate() finds the first free block behind the given one.
LEMMA FirstBehind ==
    ASSUME NEW list \in Seq(Memory!Blocks), NEW block \in Memory!Blocks, Memory!HeapAssumption
    PROVE  /\ Memory!Behind(list, block) \in 0..Len(list)
           /\ Memory!Behind(list, block) # 0 =>
                 /\ list[Memory!Behind(list, block)].at > block.at
                 /\ \A j \in 1..Memory!Behind(list, block) - 1 : list[j].at <= block.at
           /\ Memory!Behind(list, block) = 0 => \A i \in 1..Len(list) : ~ (list[i].at > block.at)
<1>. DEFINE I == {i \in 1..Len(list) : list[i].at > block.at}
<1>1. Memory!Behind(list, block) = IF I # {} THEN Memory!Min(I) ELSE 0
  BY DEF Memory!Behind, Memory!SelectInSeq
<1>2. I \in SUBSET Nat /\ Len(list) \in Nat
  OBVIOUS
<1>. HIDE DEF I
<1>3. ASSUME I # {} PROVE Memory!Min(I) \in I /\ \A j \in I : Memory!Min(I) <= j
  BY <1>2, <1>3, Minimum DEF Memory!Min
<1>4. \A j \in 1..Len(list) : list[j].at \in Nat /\ block.at \in Nat
  BY BlockIs
<1>5. CASE I = {}
  BY <1>1, <1>2, <1>5 DEF I
<1>6. CASE I # {}
  <2>1. Memory!Behind(list, block) = Memory!Min(I) /\ Memory!Min(I) \in 1..Len(list) /\ list[Memory!Min(I)].at > block.at
    BY <1>1, <1>3, <1>6 DEF I
  <2>2. ASSUME NEW j \in 1..Memory!Min(I) - 1 PROVE list[j].at <= block.at
    <3>1. j \in 1..Len(list) /\ j \notin I
      BY <1>2, <1>3, <1>6, <2>1
    <3>2. ~ (list[j].at > block.at)
      BY <3>1 DEF I
    <3>. QED  BY <1>4, <3>1, <3>2
  <2>. QED  BY <1>2, <2>1, <2>2
<1>. QED  BY <1>5, <1>6

\* A sequence in which an element takes the place of those between p and s.
Spliced(list, p, m, s) == SubSeq(list, 1, p) \o <<m>> \o SubSeq(list, s, Len(list))

LEMMA Splice ==
    ASSUME NEW list \in Seq(Memory!Blocks), NEW m \in Memory!Blocks,
           NEW p \in 0..Len(list), NEW s \in 1..Len(list) + 1
    PROVE  /\ Spliced(list, p, m, s) \in Seq(Memory!Blocks)
           /\ Len(Spliced(list, p, m, s)) = p + 1 + (Len(list) - s + 1)
           /\ \A j \in 1..p : Spliced(list, p, m, s)[j] = list[j]
           /\ Spliced(list, p, m, s)[p + 1] = m
           /\ \A j \in p + 2 .. Len(Spliced(list, p, m, s)) :
                 Spliced(list, p, m, s)[j] = list[j - p - 2 + s]
<1>0. PICK N : N = Spliced(list, p, m, s)
  OBVIOUS
<1>. DEFINE A == SubSeq(list, 1, p)
            C == SubSeq(list, s, Len(list))
<1>1. Len(list) \in Nat
  OBVIOUS
<1>2. A \in Seq(Memory!Blocks) /\ Len(A) = p /\ \A j \in 1..p : A[j] = list[j]
  BY <1>1, SubSeqProperties
<1>3. C \in Seq(Memory!Blocks) /\ Len(C) = Len(list) - s + 1 /\ \A j \in 1..Len(C) : C[j] = list[s + j - 1]
  BY <1>1, SubSeqProperties
<1>. HIDE DEF A, C
<1>4. N = A \o <<m>> \o C
  BY <1>0 DEF A, C, Spliced
<1>5. <<m>> \in Seq(Memory!Blocks) /\ Len(<<m>>) = 1 /\ <<m>>[1] = m
  OBVIOUS
<1>6. PICK B : B = A \o <<m>>
  OBVIOUS
<1>7. B \in Seq(Memory!Blocks) /\ Len(B) = p + 1 /\ (\A j \in 1..p : B[j] = list[j]) /\ B[p + 1] = m
  BY <1>2, <1>5, <1>6, ConcatProperties
<1>8. /\ N \in Seq(Memory!Blocks) /\ Len(N) = p + 1 + Len(C)
      /\ \A j \in 1..Len(N) : N[j] = IF j <= p + 1 THEN B[j] ELSE C[j - (p + 1)]
  <2>1. N = B \o C
    BY <1>4, <1>6
  <2>2. B \in Seq(Memory!Blocks) /\ C \in Seq(Memory!Blocks)
    BY <1>3, <1>7
  <2>3. /\ B \o C \in Seq(Memory!Blocks) /\ Len(B \o C) = Len(B) + Len(C)
        /\ \A j \in 1..Len(B) + Len(C) : (B \o C)[j] = IF j <= Len(B) THEN B[j] ELSE C[j - Len(B)]
    BY <2>2, ConcatProperties, Zenon
  <2>. QED  BY <1>3, <1>7, <2>1, <2>3
<1>9. PICK n \in Nat : n = Len(C) /\ Len(N) = p + 1 + n /\ n = Len(list) - s + 1
  BY <1>1, <1>3, <1>8
<1>10. ASSUME NEW j \in p + 2 .. p + 1 + n PROVE N[j] = list[j - p - 2 + s]
  <2>1. j \in 1 .. p + 1 + n /\ ~ (j <= p + 1) /\ j - (p + 1) \in 1 .. n
    OBVIOUS
  <2>2. N[j] = C[j - (p + 1)]
    BY <1>8, <1>9, <2>1
  <2>3. C[j - (p + 1)] = list[s + (j - (p + 1)) - 1]
    BY <1>3, <1>9, <2>1
  <2>4. s + (j - (p + 1)) - 1 = j - p - 2 + s
    OBVIOUS
  <2>. QED  BY <2>2, <2>3, <2>4
<1>11. \A j \in p + 2 .. Len(N) : N[j] = list[j - p - 2 + s]
  BY <1>9, <1>10
<1>12. N \in Seq(Memory!Blocks) /\ Len(N) = p + 1 + (Len(list) - s + 1)
  BY <1>8, <1>9
<1>13. (\A j \in 1..p : N[j] = list[j]) /\ N[p + 1] = m
  <2>1. p \in Nat
    BY <1>1
  <2>2. Len(N) \in Nat /\ p + 1 \in 1..Len(N) /\ \A j \in 1..p : j \in 1..Len(N) /\ j <= p + 1
    BY <1>9, <2>1
  <2>. QED  BY <1>7, <1>8, <2>1, <2>2
<1>. QED  BY <1>0, <1>11, <1>12, <1>13

-----------------------------------------------------------------------------
\* Sums and differences of whole words; two different addresses of words are a word apart.
LEMMA Words ==
    ASSUME NEW x \in Nat, NEW y \in Nat, x % 4 = 0, y % 4 = 0
    PROVE  /\ (x + y) % 4 = 0
           /\ x - y \in Nat => (x - y) % 4 = 0
           /\ \A n \in Nat : x <= n /\ n < y => y - x >= 4
<1>1. PICK q \in Int : x = 4 * q
  BY x = 4 * (x \div 4) + (x % 4)
<1>2. PICK r \in Int : y = 4 * r
  BY y = 4 * (y \div 4) + (y % 4)
<1>3. x + y = 4 * (q + r) /\ x - y = 4 * (q - r)
  BY <1>1, <1>2
<1>4. \A z \in Int : (4 * z) % 4 = 0
  OBVIOUS
<1>5. q + r \in Int /\ q - r \in Int
  OBVIOUS
<1>. QED  BY <1>1, <1>2, <1>3, <1>4, <1>5

\* round_to_word() gives the next multiple of a word.
LEMMA Rounding ==
    ASSUME NEW size \in Nat
    PROVE  /\ Memory!RoundToWord(size) \in Nat /\ Memory!RoundToWord(size) % 4 = 0
           /\ size <= Memory!RoundToWord(size) /\ Memory!RoundToWord(size) < size + 4
           /\ Memory!RoundToWord(size) = ((size + 4 - 1) \div 4) * 4
<1>1. PICK q \in Nat, k \in 0..3 : size = 4 * q + k
  BY size = 4 * (size \div 4) + (size % 4)
<1>2. size % 4 = k
  BY <1>1
<1>3. CASE k = 0
  <2>1. Memory!RoundToWord(size) = 4 * q
    BY <1>1, <1>2, <1>3 DEF Memory!RoundToWord
  <2>2. (size + 4 - 1) \div 4 = q
    BY <1>1, <1>3
  <2>. QED  BY <1>1, <1>3, <2>1, <2>2
<1>4. CASE k # 0
  <2>1. Memory!RoundToWord(size) = 4 * (q + 1)
    BY <1>1, <1>2, <1>4 DEF Memory!RoundToWord
  <2>2. (size + 4 - 1) \div 4 = q + 1
    BY <1>1, <1>4
  <2>. QED  BY <1>1, <1>4, <2>1, <2>2
<1>. QED  BY <1>3, <1>4

\* allocate(): the block and its remainder are what the free block was.
LEMMA Cut ==
    ASSUME Memory!HeapAssumption, NEW f \in Memory!Blocks, Memory!Aligned(f), Memory!EndOf(f) <= HeapSize,
           NEW size \in Nat, Memory!LargeEnough(f, size), NEW t, NEW r,
           t = Memory!Taken(f, size), r = Memory!Remainder(f, size)
    PROVE  /\ t \in Memory!Blocks /\ r \in Memory!Blocks /\ Memory!Aligned(t) /\ Memory!Aligned(r)
           /\ t.at = f.at /\ Memory!EndOf(t) = r.at /\ Memory!EndOf(r) = Memory!EndOf(f)
           /\ t.size = Memory!RoundToWord(size)
<1>1. PICK n \in Nat : n = Memory!RoundToWord(size)
  BY Rounding
<1>2. n % 4 = 0 /\ size <= n /\ n < size + 4
  BY <1>1, Rounding
<1>3. f.at \in Nat /\ f.size \in Nat /\ Memory!EndOf(f) = f.at + 8 + f.size /\ f.size >= size + 8
      /\ f.at % 4 = 0 /\ f.size % 4 = 0 /\ f.at + 8 + f.size <= HeapSize /\ HeapSize \in Nat
  BY BlockIs DEF Memory!LargeEnough, Memory!Node, Memory!Aligned, Memory!HeapAssumption
<1>4. f.size - n - 8 \in Nat /\ (f.size - n - 8) % 4 = 0 /\ (f.at + 8 + n) % 4 = 0
  <2>1. n + 8 \in Nat /\ (n + 8) % 4 = 0
    BY <1>2, Words
  <2>2. ~ (f.size < n + 8)
    BY <1>2, <1>3, <2>1, Words
  <2>3. f.size - (n + 8) \in Nat /\ (f.size - (n + 8)) % 4 = 0
    BY <1>3, <2>1, <2>2, Words
  <2>4. (f.at + (n + 8)) % 4 = 0
    BY <1>3, <2>1, Words
  <2>5. f.size - (n + 8) = f.size - n - 8 /\ f.at + (n + 8) = f.at + 8 + n
    BY <1>3
  <2>. QED  BY <2>3, <2>4, <2>5
<1>5. t = [at |-> f.at, size |-> n]
  BY <1>1 DEF Memory!Taken
<1>6. t \in Memory!Blocks /\ Memory!EndOf(t) = f.at + 8 + n
  <2>1. f.at + 8 + n <= HeapSize
    BY <1>3, <1>4
  <2>. QED  BY <1>3, <1>5, <2>1, MakeBlock DEF Memory!EndOf, Memory!Node
<1>7. r = [at |-> f.at + 8 + n, size |-> f.size - n - 8]
  BY <1>1, <1>5, <1>6 DEF Memory!Remainder, Memory!Node
<1>8. r \in Memory!Blocks /\ Memory!EndOf(r) = Memory!EndOf(f)
  <2>1. f.at + 8 + n + 8 + (f.size - n - 8) <= HeapSize /\ f.at + 8 + n \in Nat
        /\ f.at + 8 + n + 8 + (f.size - n - 8) = f.at + 8 + f.size
    BY <1>3, <1>4
  <2>2. r \in Memory!Blocks
    BY <1>4, <1>7, <2>1, MakeBlock
  <2>. QED  BY <1>3, <1>7, <2>1, <2>2, BlockIs
<1>. QED  BY <1>1, <1>2, <1>3, <1>4, <1>5, <1>6, <1>7, <1>8 DEF Memory!Aligned

\* Blocks of whole words end where a word begins.
LEMMA EndAligned ==
    ASSUME Memory!HeapAssumption, NEW b \in Memory!Blocks, Memory!Aligned(b)
    PROVE  Memory!EndOf(b) % 4 = 0
<1>1. b.at \in Nat /\ b.size \in Nat /\ Memory!EndOf(b) = b.at + 8 + b.size /\ b.at % 4 = 0 /\ b.size % 4 = 0
  BY BlockIs DEF Memory!Aligned
<1>2. 8 % 4 = 0 /\ b.at + 8 \in Nat /\ (b.at + 8) % 4 = 0
  BY <1>1
<1>. QED  BY <1>1, <1>2, Words

-----------------------------------------------------------------------------
\* What is free and what is held, as numbers.
LEMMA ListParts ==
    ASSUME Memory!HeapAssumption, NEW list, NEW blocks, Memory!HeapInv(list, blocks)
    PROVE  /\ list \in Seq(Memory!Blocks) /\ blocks \subseteq Memory!Blocks /\ Len(list) \in Nat \ {0}
           /\ \A i \in 1..Len(list) :
                 list[i] \in Memory!Blocks /\ Memory!Aligned(list[i]) /\ Memory!EndOf(list[i]) <= HeapSize
           /\ \A i, j \in 1..Len(list) : i < j => Memory!EndOf(list[i]) < list[j].at
           /\ Memory!EndOf(list[Len(list)]) = HeapSize /\ HeapSize \in Nat
           /\ \A b \in blocks : b \in Memory!Blocks /\ Memory!Aligned(b) /\ Memory!EndOf(b) <= HeapSize
BY DEF Memory!HeapInv, Memory!ListInv, Memory!HeldInv, Memory!Last, Memory!HeapAssumption

\* allocate() keeps the heap in order.
LEMMA TakenFromList ==
    ASSUME Memory!HeapAssumption, Memory!HeapInv(m_freelist, held), NEW size \in Nat, Memory!FirstFit(size) # 0,
           NEW t, t = Memory!Taken(m_freelist[Memory!FirstFit(size)], size)
    PROVE  /\ Memory!HeapInv(Memory!Without(Memory!FirstFit(size), size), held \cup {t})
           /\ t \in Memory!Blocks /\ t \notin held
<1>1. PICK i \in 1..Len(m_freelist) : i = Memory!FirstFit(size) /\ Memory!LargeEnough(m_freelist[i], size)
  BY Finds, ListParts
<1>2. PICK f \in Memory!Blocks : f = m_freelist[i]
  BY ListParts
<1>3. PICK r : r = Memory!Remainder(f, size)
  OBVIOUS
<1>4. Memory!Aligned(f) /\ Memory!EndOf(f) <= HeapSize /\ Memory!LargeEnough(f, size) /\ t = Memory!Taken(f, size)
  BY <1>1, <1>2, ListParts
<1>5. /\ t \in Memory!Blocks /\ r \in Memory!Blocks /\ Memory!Aligned(t) /\ Memory!Aligned(r)
      /\ t.at = f.at /\ Memory!EndOf(t) = r.at /\ Memory!EndOf(r) = Memory!EndOf(f)
  BY <1>3, <1>4, Cut
<1>6. /\ f.at \in Nat /\ r.at \in Nat /\ t.at \in Nat /\ Memory!EndOf(f) \in Nat
      /\ f.at < r.at /\ r.at < Memory!EndOf(f)
  BY <1>5, NotEmpty
<1>7. PICK list : list = Memory!Without(i, size)
  OBVIOUS
<1>8. /\ list \in Seq(Memory!Blocks) /\ Len(list) = Len(m_freelist) /\ list[i] = r
      /\ \A j \in 1..Len(m_freelist) : j # i => list[j] = m_freelist[j]
  BY <1>2, <1>3, <1>5, <1>7, ListParts DEF Memory!Without
<1>9. \A b \in held : Memory!Apart(f, b)
  BY <1>2 DEF Memory!HeapInv, Memory!HeldInv
<1>10. ASSUME NEW b \in held PROVE Memory!Apart(t, b) /\ Memory!Apart(r, b)
  <2>1. b \in Memory!Blocks /\ b.at \in Nat /\ Memory!EndOf(b) \in Nat
    BY ListParts, BlockIs
  <2>. QED  BY <1>5, <1>6, <1>9, <2>1 DEF Memory!Apart
<1>11. ASSUME NEW j \in 1..Len(m_freelist), j # i PROVE Memory!Apart(m_freelist[j], t)
  <2>1. /\ m_freelist[j] \in Memory!Blocks /\ m_freelist[j].at \in Nat /\ Memory!EndOf(m_freelist[j]) \in Nat
        /\ m_freelist[j].at < Memory!EndOf(m_freelist[j])
    BY ListParts, NotEmpty
  <2>2. Memory!EndOf(m_freelist[j]) < f.at \/ Memory!EndOf(f) < m_freelist[j].at
    BY <1>2, <1>11, ListParts
  <2>. QED  BY <1>5, <1>6, <2>1, <2>2 DEF Memory!Apart
<1>12. Memory!ListInv(list)
  <2>1. ASSUME NEW j \in 1..Len(list) PROVE Memory!Aligned(list[j]) /\ Memory!EndOf(list[j]) <= HeapSize
    BY <1>4, <1>5, <1>8, ListParts
  <2>2. ASSUME NEW j \in 1..Len(list), NEW k \in 1..Len(list), j < k
        PROVE  Memory!EndOf(list[j]) < list[k].at
    <3>1. Memory!EndOf(m_freelist[j]) < m_freelist[k].at /\ Memory!EndOf(m_freelist[j]) \in Nat /\ m_freelist[k].at \in Nat
      BY <1>8, <2>2, ListParts, BlockIs
    <3>. QED  BY <1>2, <1>5, <1>6, <1>8, <2>2, <3>1
  <2>3. list # <<>> /\ Memory!EndOf(Memory!Last(list)) = HeapSize
    BY <1>2, <1>5, <1>8, ListParts DEF Memory!Last
  <2>. QED  BY <2>1, <2>2, <2>3 DEF Memory!ListInv
<1>13. Memory!HeldInv(list, held \cup {t})
  <2>1. \A b \in held \cup {t} : Memory!Aligned(b) /\ Memory!EndOf(b) <= HeapSize
    BY <1>4, <1>5, <1>6, ListParts
  <2>2. \A b, c \in held \cup {t} : b = c \/ Memory!Apart(b, c)
    <3>1. \A b, c \in held : b = c \/ Memory!Apart(b, c)
      BY DEF Memory!HeapInv, Memory!HeldInv
    <3>. QED  BY <1>10, <3>1 DEF Memory!Apart
  <2>3. ASSUME NEW j \in 1..Len(list), NEW b \in held \cup {t} PROVE Memory!Apart(list[j], b)
    <3>1. CASE b \in held
      BY <1>8, <1>10, <3>1 DEF Memory!HeapInv, Memory!HeldInv
    <3>2. CASE b = t /\ j # i
      BY <1>8, <1>11, <3>2
    <3>3. CASE b = t /\ j = i
      BY <1>5, <1>6, <1>8, <3>3 DEF Memory!Apart
    <3>. QED  BY <3>1, <3>2, <3>3
  <2>. QED  BY <2>1, <2>2, <2>3 DEF Memory!HeldInv
<1>14. Memory!CoverInv(list, held \cup {t})
  <2>1. ASSUME NEW a \in 0..HeapSize - 1
        PROVE  (\E j \in 1..Len(list) : Memory!Spans(list[j], a)) \/ \E b \in held \cup {t} : Memory!Spans(b, a)
    <3>1. CASE \E b \in held : Memory!Spans(b, a)
      BY <3>1
    <3>2. CASE \E j \in 1..Len(m_freelist) : j # i /\ Memory!Spans(m_freelist[j], a)
      BY <1>8, <3>2
    <3>3. CASE Memory!Spans(f, a)
      <4>1. Memory!Spans(t, a) \/ Memory!Spans(r, a)
        BY <1>5, <1>6, <3>3, ListParts DEF Memory!Spans
      <4>. QED  BY <1>8, <4>1
    <3>. QED  BY <1>2, <3>1, <3>2, <3>3 DEF Memory!HeapInv, Memory!CoverInv
  <2>. QED  BY <2>1 DEF Memory!CoverInv
<1>15. t \notin held
  <2>1. ~ Memory!Apart(t, t)
    BY <1>5, <1>6 DEF Memory!Apart
  <2>. QED  BY <1>10, <2>1
<1>16. held \cup {t} \subseteq Memory!Blocks
  BY <1>5, ListParts
<1>. QED  BY <1>1, <1>5, <1>7, <1>8, <1>12, <1>13, <1>14, <1>15, <1>16 DEF Memory!HeapInv

\* deallocate() finds a free block behind the one that it is given, and fits it in.
LEMMA PutIntoList ==
    ASSUME Memory!HeapAssumption, NEW list, NEW blocks, Memory!HeapInv(list, blocks), NEW b \in blocks
    PROVE  Memory!HeapInv(Memory!Inserted(list, b), blocks \ {b})
<1>0. PICK n \in Nat : n = Len(list)
  BY ListParts
<1>1. /\ b \in Memory!Blocks /\ b.at \in Nat /\ Memory!EndOf(b) \in Nat /\ b.at < Memory!EndOf(b)
      /\ Memory!EndOf(b) <= HeapSize /\ Memory!Aligned(b) /\ HeapSize \in Nat
  BY ListParts, NotEmpty
<1>2. /\ list \in Seq(Memory!Blocks) /\ n \in Nat \ {0} /\ Memory!EndOf(list[n]) = HeapSize
      /\ \A j \in 1..n : /\ list[j] \in Memory!Blocks /\ Memory!Aligned(list[j])
                         /\ list[j].at \in Nat /\ Memory!EndOf(list[j]) \in Nat
                         /\ list[j].at < Memory!EndOf(list[j]) /\ Memory!EndOf(list[j]) <= HeapSize
      /\ \A i, j \in 1..n : i < j => Memory!EndOf(list[i]) < list[j].at
  BY <1>0, ListParts, NotEmpty
<1>3. \A j \in 1..n : Memory!EndOf(list[j]) <= b.at \/ Memory!EndOf(b) <= list[j].at
  BY <1>0 DEF Memory!HeapInv, Memory!HeldInv, Memory!Apart
<1>4. PICK k \in 1..n : /\ k = Memory!Behind(list, b) /\ Memory!EndOf(b) <= list[k].at
                        /\ \A j \in 1..k - 1 : Memory!EndOf(list[j]) <= b.at
  <2>1. PICK q : q = Memory!Behind(list, b)
    OBVIOUS
  <2>2. /\ q \in 0..n
        /\ q # 0 => list[q].at > b.at /\ \A j \in 1..q - 1 : list[j].at <= b.at
        /\ q = 0 => \A j \in 1..n : ~ (list[j].at > b.at)
    BY <1>0, <1>1, <1>2, <2>1, FirstBehind
  <2>3. list[n].at > b.at
    BY <1>1, <1>2, <1>3
  <2>4. q \in 1..n /\ list[q].at > b.at /\ \A j \in 1..q - 1 : list[j].at <= b.at
    BY <1>2, <2>2, <2>3
  <2>5. Memory!EndOf(b) <= list[q].at
    BY <1>1, <1>2, <1>3, <2>4
  <2>6. ASSUME NEW j \in 1..q - 1 PROVE Memory!EndOf(list[j]) <= b.at
    <3>1. j \in 1..n /\ list[j].at <= b.at
      BY <1>2, <2>4
    <3>. QED  BY <1>1, <1>2, <1>3, <3>1
  <2>. QED  BY <2>1, <2>4, <2>5, <2>6
\* How many free blocks stay in front of the new one, and where it begins.
<1>5. PICK p \in 0..n, from \in Nat :
         /\ p = IF Memory!MergesLeft(list, k, b) THEN k - 2 ELSE k - 1
         /\ from = IF Memory!MergesLeft(list, k, b) THEN list[k - 1].at ELSE b.at
         /\ \/ p = k - 2 /\ k - 1 \in 1..n /\ Memory!EndOf(list[k - 1]) = b.at /\ from = list[k - 1].at
            \/ p = k - 1 /\ from = b.at /\ (k - 1 \in 1..n => Memory!EndOf(list[k - 1]) < b.at)
  <2>1. CASE Memory!MergesLeft(list, k, b)
    <3>1. k > 1 /\ Memory!EndOf(list[k - 1]) = b.at
      BY <2>1 DEF Memory!MergesLeft
    <3>2. k - 1 \in 1..n /\ k - 2 \in 0..n /\ list[k - 1].at \in Nat
      BY <1>2, <3>1
    <3>. QED  BY <2>1, <3>1, <3>2
  <2>2. CASE ~ Memory!MergesLeft(list, k, b)
    <3>1. k - 1 \in 1..n => Memory!EndOf(list[k - 1]) < b.at
      <4>1. ASSUME k - 1 \in 1..n PROVE Memory!EndOf(list[k - 1]) # b.at
        <5>1. k > 1
          BY <4>1
        <5>. QED  BY <2>2, <5>1 DEF Memory!MergesLeft
      <4>2. k - 1 \in 1..n => k - 1 \in 1..k - 1
        OBVIOUS
      <4>. QED  BY <1>1, <1>2, <1>4, <4>1, <4>2
    <3>2. k - 1 \in 0..n
      OBVIOUS
    <3>. QED  BY <1>1, <2>2, <3>1, <3>2
  <2>. QED  BY <2>1, <2>2
\* Where the free blocks behind it go on, and where it ends.
<1>6. PICK s \in 1..n + 1, to \in Nat :
         /\ s = IF Memory!MergesRight(list, k, b) THEN k + 1 ELSE k
         /\ to = IF Memory!MergesRight(list, k, b) THEN Memory!EndOf(list[k]) ELSE Memory!EndOf(b)
         /\ \/ s = k + 1 /\ Memory!EndOf(b) = list[k].at /\ to = Memory!EndOf(list[k])
            \/ s = k /\ to = Memory!EndOf(b) /\ Memory!EndOf(b) < list[k].at
  <2>1. CASE Memory!MergesRight(list, k, b)
    BY <1>2, <2>1 DEF Memory!MergesRight
  <2>2. CASE ~ Memory!MergesRight(list, k, b)
    BY <1>1, <1>2, <1>4, <2>2 DEF Memory!MergesRight
  <2>. QED  BY <2>1, <2>2
<1>11. from <= b.at /\ Memory!EndOf(b) <= to /\ to <= HeapSize
  BY <1>1, <1>2, <1>5, <1>6
<1>12. ASSUME NEW j \in 1..p PROVE j \in 1..n /\ Memory!EndOf(list[j]) < from
  <2>1. j \in 1..n /\ j <= k - 1
    BY <1>5
  <2>2. CASE j = k - 1
    BY <1>5, <2>1, <2>2
  <2>3. CASE j < k - 1
    <3>1. PICK h \in 1..n : h = k - 1 /\ j < h
      BY <2>1, <2>3
    <3>2. h \in 1..k - 1
      BY <3>1
    <3>3. /\ Memory!EndOf(list[j]) < list[h].at /\ list[h].at < Memory!EndOf(list[h]) /\ Memory!EndOf(list[h]) <= b.at
          /\ list[h].at \in Nat /\ Memory!EndOf(list[h]) \in Nat /\ Memory!EndOf(list[j]) \in Nat
      BY <1>2, <1>4, <2>1, <3>1, <3>2
    <3>4. from = list[h].at \/ from = b.at
      BY <1>5, <3>1
    <3>. QED  BY <1>1, <2>1, <3>3, <3>4
  <2>. QED  BY <2>1, <2>2, <2>3
<1>13. ASSUME NEW j \in s..n PROVE j \in 1..n /\ to < list[j].at
  <2>1. j \in 1..n /\ j >= k
    BY <1>6
  <2>2. CASE j = k
    BY <1>6, <2>1, <2>2
  <2>3. CASE j > k
    <3>1. Memory!EndOf(list[k]) < list[j].at /\ list[k].at < Memory!EndOf(list[k])
      BY <1>2, <2>1, <2>3
    <3>. QED  BY <1>1, <1>2, <1>6, <2>1, <3>1
  <2>. QED  BY <2>1, <2>2, <2>3
<1>14. s = n + 1 => to = HeapSize
  BY <1>2, <1>6
<1>15. /\ from % 4 = 0 /\ to % 4 = 0
  BY <1>1, <1>2, <1>5, <1>6, EndAligned DEF Memory!Aligned
\* The list after the merge.
<1>16. PICK m : m = [at |-> from, size |-> to - from - Memory!Node]
  OBVIOUS
<1>17. m \in Memory!Blocks /\ m.at = from /\ Memory!EndOf(m) = to /\ Memory!Aligned(m) /\ from < to
  <2>1. b.at \in Nat /\ b.size \in Nat /\ Memory!EndOf(b) = b.at + 8 + b.size
    BY <1>1, BlockIs
  <2>2. to - from - 8 \in Nat /\ from + 8 + (to - from - 8) = to
    BY <1>11, <2>1
  <2>3. m = [at |-> from, size |-> to - from - 8]
    BY <1>16 DEF Memory!Node
  <2>4. m \in Memory!Blocks
    BY <1>11, <2>2, <2>3, MakeBlock
  <2>5. Memory!EndOf(m) = to
    BY <2>2, <2>3, <2>4, BlockIs
  <2>6. (to - from - 8) % 4 = 0
    <3>1. from + 8 \in Nat /\ (from + 8) % 4 = 0
      <4>1. 8 % 4 = 0
        OBVIOUS
      <4>. QED  BY <1>15, <4>1, Words
    <3>2. to - (from + 8) = to - from - 8
      OBVIOUS
    <3>. QED  BY <1>15, <2>2, <3>1, <3>2, Words
  <2>7. from < to
    BY <2>2
  <2>. QED  BY <1>15, <2>3, <2>4, <2>5, <2>6, <2>7 DEF Memory!Aligned
<1>18. PICK N : N = Memory!Inserted(list, b)
  OBVIOUS
<1>19. N = Spliced(list, p, m, s)
  <2>1. k # 0
    OBVIOUS
  <2>. QED  BY <1>4, <1>5, <1>6, <1>16, <1>18, <2>1 DEF Memory!Inserted, Spliced
<1>20. PICK l \in Nat :
          /\ l = Len(N) /\ l = p + 1 + (n - s + 1) /\ N \in Seq(Memory!Blocks)
          /\ \A j \in 1..p : N[j] = list[j]
          /\ N[p + 1] = m
          /\ \A j \in p + 2 .. l : N[j] = list[j - p - 2 + s]
  <2>1. p \in 0..Len(list) /\ s \in 1..Len(list) + 1
    BY <1>0
  <2>2. /\ N \in Seq(Memory!Blocks)
        /\ Len(N) = p + 1 + (Len(list) - s + 1)
        /\ \A j \in 1..p : N[j] = list[j]
        /\ N[p + 1] = m
        /\ \A j \in p + 2 .. Len(N) : N[j] = list[j - p - 2 + s]
    <3>1. list \in Seq(Memory!Blocks) /\ m \in Memory!Blocks
      BY <1>2, <1>17
    <3>2. /\ Spliced(list, p, m, s) \in Seq(Memory!Blocks)
          /\ Len(Spliced(list, p, m, s)) = p + 1 + (Len(list) - s + 1)
          /\ \A j \in 1..p : Spliced(list, p, m, s)[j] = list[j]
          /\ Spliced(list, p, m, s)[p + 1] = m
          /\ \A j \in p + 2 .. Len(Spliced(list, p, m, s)) :
                 Spliced(list, p, m, s)[j] = list[j - p - 2 + s]
      BY <2>1, <3>1, Splice
    <3>. QED  BY <1>19, <3>2, Zenon
  <2>3. p + 1 + (n - s + 1) \in Nat
    OBVIOUS
  <2>. QED  BY <1>0, <2>2, <2>3
\* Each block in it is one that was there, before or behind the new one, or the new one.
<1>21. ASSUME NEW j \in 1..l
       PROVE  \/ j \in 1..p /\ j \in 1..n /\ N[j] = list[j]
              \/ j = p + 1 /\ N[j] = m
              \/ /\ j > p + 1 /\ j - p - 2 + s \in s..n /\ j - p - 2 + s \in 1..n
                 /\ N[j] = list[j - p - 2 + s]
  <2>1. CASE j <= p
    BY <1>20, <2>1
  <2>2. CASE j = p + 1
    BY <1>20, <2>2
  <2>3. CASE j > p + 1
    <3>1. j \in p + 2 .. l
      BY <2>3
    <3>2. N[j] = list[j - p - 2 + s]
      BY <1>20, <3>1
    <3>3. l = p + 1 + (n - s + 1)
      BY <1>20
    <3>4. j - p - 2 + s \in s..n /\ j - p - 2 + s \in 1..n
      BY <3>1, <3>3
    <3>. QED  BY <2>3, <3>2, <3>4
  <2>. QED  BY <2>1, <2>2, <2>3
<1>22. Memory!ListInv(N)
  <2>1. ASSUME NEW j \in 1..l PROVE Memory!Aligned(N[j]) /\ Memory!EndOf(N[j]) <= HeapSize
    BY <1>2, <1>11, <1>17, <1>21
  <2>2. ASSUME NEW i \in 1..l, NEW j \in 1..l, i < j PROVE Memory!EndOf(N[i]) < N[j].at
    <3>1. CASE i \in 1..p
      <4>1. i \in 1..n /\ N[i] = list[i] /\ Memory!EndOf(list[i]) < from
        BY <1>12, <1>20, <3>1
      <4>2. CASE j = p + 1
        BY <1>17, <1>20, <4>1, <4>2
      <4>3. CASE j \in 1..p
        BY <1>2, <1>12, <1>20, <2>2, <4>1, <4>3
      <4>4. CASE j > p + 1
        <5>1. PICK h \in s..n : h \in 1..n /\ N[j] = list[h]
          BY <1>21, <4>4
        <5>2. to < list[h].at /\ list[h].at \in Nat /\ Memory!EndOf(list[i]) \in Nat
          BY <1>2, <1>13, <4>1, <5>1
        <5>. QED  BY <1>17, <4>1, <5>1, <5>2
      <4>. QED  BY <4>2, <4>3, <4>4
    <3>2. CASE i = p + 1
      <4>1. PICK h \in s..n : h \in 1..n /\ N[j] = list[h]
        BY <1>21, <2>2, <3>2
      <4>. QED  BY <1>13, <1>17, <1>20, <3>2, <4>1
    <3>3. CASE i > p + 1
      <4>1. PICK g \in 1..n, h \in 1..n : g < h /\ N[i] = list[g] /\ N[j] = list[h]
        <5>1. /\ i - p - 2 + s \in 1..n /\ N[i] = list[i - p - 2 + s]
              /\ j - p - 2 + s \in 1..n /\ N[j] = list[j - p - 2 + s]
          BY <1>21, <2>2, <3>3
        <5>2. i - p - 2 + s < j - p - 2 + s
          BY <2>2
        <5>. QED  BY <5>1, <5>2
      <4>. QED  BY <1>2, <4>1
    <3>. QED  BY <3>1, <3>2, <3>3
  <2>3. Memory!EndOf(N[l]) = HeapSize
    <3>1. CASE s = n + 1
      <4>1. l = p + 1
        BY <1>20, <3>1
      <4>. QED  BY <1>14, <1>17, <1>20, <3>1, <4>1
    <3>2. CASE s # n + 1
      <4>0. l = p + 1 + (n - s + 1)
        BY <1>20
      <4>1. l > p + 1 /\ l \in 1..l /\ l - p - 2 + s = n
        BY <3>2, <4>0
      <4>2. N[l] = list[n]
        BY <1>21, <4>1
      <4>. QED  BY <1>2, <4>2
    <3>. QED  BY <3>1, <3>2
  <2>4. N # <<>>
    <3>1. l = p + 1 + (n - s + 1) /\ l = Len(N)
      BY <1>20
    <3>2. l > 0
      BY <3>1
    <3>. QED  BY <3>1, <3>2
  <2>. QED  BY <1>20, <2>1, <2>2, <2>3, <2>4 DEF Memory!ListInv, Memory!Last
\* The others were apart from all that the new block is made of.
<1>23. ASSUME NEW c \in blocks \ {b} PROVE Memory!Apart(m, c)
  <2>1. /\ c \in blocks /\ c.at \in Nat /\ Memory!EndOf(c) \in Nat /\ c.at < Memory!EndOf(c)
    BY ListParts, NotEmpty
  <2>2. Memory!EndOf(b) <= c.at \/ Memory!EndOf(c) <= b.at
    BY <2>1 DEF Memory!HeapInv, Memory!HeldInv, Memory!Apart
  <2>3. \A j \in 1..n : Memory!EndOf(list[j]) <= c.at \/ Memory!EndOf(c) <= list[j].at
    BY <1>0, <2>1 DEF Memory!HeapInv, Memory!HeldInv, Memory!Apart
  <2>4. to <= c.at \/ Memory!EndOf(c) <= b.at
    <3>1. Memory!EndOf(list[k]) <= c.at \/ Memory!EndOf(c) <= list[k].at
      BY <2>3
    <3>. QED  BY <1>1, <1>2, <1>6, <2>1, <2>2, <3>1
  <2>5. to <= c.at \/ Memory!EndOf(c) <= from
    <3>1. CASE p = k - 1 /\ from = b.at
      BY <2>4, <3>1
    <3>2. CASE k - 1 \in 1..n /\ Memory!EndOf(list[k - 1]) = b.at /\ from = list[k - 1].at
      <4>1. b.at <= c.at \/ Memory!EndOf(c) <= from
        BY <2>3, <3>2
      <4>. QED  BY <1>1, <2>1, <2>4, <4>1
    <3>. QED  BY <1>5, <3>1, <3>2
  <2>. QED  BY <1>17, <2>5 DEF Memory!Apart
<1>24. Memory!HeldInv(N, blocks \ {b})
  <2>1. \A c \in blocks \ {b} : Memory!Aligned(c) /\ Memory!EndOf(c) <= HeapSize
    BY ListParts
  <2>2. \A c, d \in blocks \ {b} : c = d \/ Memory!Apart(c, d)
    BY DEF Memory!HeapInv, Memory!HeldInv
  <2>3. ASSUME NEW j \in 1..l, NEW c \in blocks \ {b} PROVE Memory!Apart(N[j], c)
    <3>1. \A i \in 1..n : Memory!Apart(list[i], c)
      BY <1>0 DEF Memory!HeapInv, Memory!HeldInv
    <3>. QED  BY <1>21, <1>23, <3>1
  <2>. QED  BY <1>20, <2>1, <2>2, <2>3 DEF Memory!HeldInv
<1>25. Memory!CoverInv(N, blocks \ {b})
  <2>1. ASSUME NEW a \in 0..HeapSize - 1
        PROVE  (\E j \in 1..l : Memory!Spans(N[j], a)) \/ \E c \in blocks \ {b} : Memory!Spans(c, a)
    <3>0. a \in Nat /\ p + 1 \in 1..l
      BY <1>1, <1>20
    <3>1. CASE \E c \in blocks \ {b} : Memory!Spans(c, a)
      BY <3>1
    <3>2. CASE Memory!Spans(b, a)
      <4>1. Memory!Spans(m, a)
        BY <1>1, <1>11, <1>17, <3>0, <3>2 DEF Memory!Spans
      <4>. QED  BY <1>20, <3>0, <4>1
    <3>3. ASSUME NEW i \in 1..n, Memory!Spans(list[i], a) PROVE \E j \in 1..l : Memory!Spans(N[j], a)
      <4>1. CASE i <= p
        <5>1. i \in 1..l /\ N[i] = list[i]
          BY <1>20, <4>1
        <5>. QED  BY <3>3, <5>1
      <4>2. CASE i >= s
        <5>1. PICK j \in p + 2 .. l : i = j - p - 2 + s
          <6>1. i + p + 2 - s \in p + 2 .. l /\ i = (i + p + 2 - s) - p - 2 + s
            BY <1>20, <4>2
          <6>. QED  BY <6>1
        <5>2. j \in 1..l /\ N[j] = list[i]
          BY <1>20, <5>1
        <5>. QED  BY <3>3, <5>2
      <4>3. CASE p < i /\ i < s
        <5>1. from <= list[i].at /\ Memory!EndOf(list[i]) <= to
          <6>1. \/ i = k - 1 /\ p = k - 2 /\ from = list[k - 1].at /\ Memory!EndOf(list[k - 1]) = b.at
                \/ i = k /\ s = k + 1 /\ to = Memory!EndOf(list[k]) /\ Memory!EndOf(b) = list[k].at
            BY <1>5, <1>6, <4>3
          <6>. QED  BY <1>1, <1>2, <1>11, <6>1
        <5>2. Memory!Spans(m, a)
          <6>1. PICK x \in Nat, y \in Nat :
                   x = list[i].at /\ y = Memory!EndOf(list[i]) /\ from <= x /\ y <= to
            BY <1>2, <5>1, Zenon
          <6>2. x <= a /\ a < y
            BY <3>3, <6>1 DEF Memory!Spans
          <6>3. from \in Nat /\ to \in Nat /\ m.at = from /\ Memory!EndOf(m) = to
            BY <1>11, <1>17
          <6>4. from <= a /\ a < to
            BY <3>0, <6>1, <6>2, <6>3
          <6>. QED  BY <6>3, <6>4 DEF Memory!Spans
        <5>. QED  BY <1>20, <3>0, <5>2
      <4>. QED  BY <4>1, <4>2, <4>3
    <3>. QED  BY <1>0, <3>1, <3>2, <3>3 DEF Memory!HeapInv, Memory!CoverInv
  <2>. QED  BY <1>20, <2>1 DEF Memory!CoverInv
<1>. QED  BY <1>2, <1>18, <1>20, <1>22, <1>24, <1>25, ListParts DEF Memory!HeapInv

-----------------------------------------------------------------------------
\* The sizes of Heap are those of allocate().
LEMMA SameSizes ==
    ASSUME NEW size \in Nat
    PROVE  Memory!H!Rounded(size) = Memory!RoundToWord(size)
BY Rounding DEF Memory!H!Rounded

\* A multiple of four is four times a number.
LEMMA DivFour ==
    ASSUME NEW x \in Nat, NEW y \in Nat, (x % 4) = 0, x <= y
    PROVE  x = 4 * (x \div 4) /\ x \div 4 \in 0 .. y \div 4
OBVIOUS

\* The header of the block that is left lies behind the block that is taken.
LEMMA HeaderFits ==
    ASSUME NEW x \in Nat, NEW n \in Nat, NEW y \in Nat, NEW z \in Nat, NEW e \in Nat,
           y = x + 8 + n, e = y + 8 + z
    PROVE  x + 8 + n + 8 <= e
OBVIOUS

\* What is taken lies where Heap sees room.
LEMMA RoomIsThere ==
    ASSUME Memory!HeapAssumption, Memory!Inv, NEW size \in Nat, Memory!FirstFit(size) # 0,
           NEW t, t = Memory!Taken(m_freelist[Memory!FirstFit(size)], size)
    PROVE  t.at \in Memory!H!Places(size) /\ t = [at |-> t.at, size |-> Memory!H!Rounded(size)]
<1>1. PICK i \in 1..Len(m_freelist) : i = Memory!FirstFit(size) /\ Memory!LargeEnough(m_freelist[i], size)
  BY Finds, ListParts DEF Memory!Inv
<1>2. PICK f \in Memory!Blocks : f = m_freelist[i] /\ Memory!Aligned(f) /\ Memory!EndOf(f) <= HeapSize
  BY ListParts DEF Memory!Inv
<1>3. PICK n \in Nat : n = Memory!RoundToWord(size)
  BY Rounding
<1>4. t = [at |-> f.at, size |-> n]
  BY <1>1, <1>2, <1>3 DEF Memory!Taken
<1>5. PICK r : r = Memory!Remainder(f, size)
  OBVIOUS
<1>6. r \in Memory!Blocks /\ Memory!EndOf(t) = r.at /\ Memory!EndOf(r) = Memory!EndOf(f) /\ Memory!EndOf(t) = f.at + 8 + n
  <2>1. r \in Memory!Blocks /\ t \in Memory!Blocks /\ Memory!EndOf(t) = r.at /\ Memory!EndOf(r) = Memory!EndOf(f)
    BY <1>1, <1>2, <1>5, Cut
  <2>2. Memory!EndOf(t) = t.at + 8 + t.size /\ t.at = f.at /\ t.size = n
    BY <2>1, <1>4, BlockIs
  <2>. QED  BY <2>1, <2>2
<1>7. f.at \in Nat /\ HeapSize \in Nat /\ Memory!EndOf(f) \in Nat /\ f.at + 8 + n + 8 <= Memory!EndOf(f)
  <2>1. f.at \in Nat /\ f.size \in Nat /\ Memory!EndOf(f) = f.at + 8 + f.size
    BY <1>2, BlockIs
  <2>2. r.at \in Nat /\ r.size \in Nat /\ Memory!EndOf(r) = r.at + 8 + r.size
    BY <1>6, BlockIs
  <2>3. PICK x \in Nat, y \in Nat, e \in Nat, z \in Nat :
           /\ x = f.at /\ y = r.at /\ z = r.size /\ e = Memory!EndOf(f)
           /\ y = x + 8 + n /\ e = y + 8 + z
    <3>1. Memory!EndOf(f) \in Nat
      BY <1>2, BlockIs
    <3>. QED  BY <1>6, <2>1, <2>2, <3>1
  <2>4. x + 8 + n + 8 <= e
    BY <2>3, HeaderFits
  <2>5. HeapSize \in Nat
    BY DEF Memory!HeapAssumption
  <2>. QED  BY <2>3, <2>4, <2>5
<1>8. Memory!H!Room(f.at, size)
  <2>1. ASSUME NEW b \in held PROVE f.at + 8 + n + 8 <= b.at \/ Memory!H!EndOf(b) <= f.at
    <3>1. Memory!Apart(f, b) /\ b.at \in Nat /\ Memory!EndOf(b) \in Nat /\ Memory!H!EndOf(b) = Memory!EndOf(b)
      BY <1>2, ListParts, BlockIs DEF Memory!Inv, Memory!HeapInv, Memory!HeldInv, Memory!H!EndOf, Memory!EndOf
    <3>. QED  BY <1>7, <3>1 DEF Memory!Apart
  <2>2. f.at + 8 + n + 8 <= HeapSize
    BY <1>2, <1>7
  <2>. QED  BY <1>3, <2>1, <2>2, SameSizes DEF Memory!H!Room, Memory!Node
<1>9. \E m \in 0 .. HeapSize \div 4 : f.at = 4 * m
  <2>1. f.at % 4 = 0 /\ f.at <= HeapSize
    BY <1>2, <1>7 DEF Memory!Aligned
  <2>2. f.at = 4 * (f.at \div 4) /\ f.at \div 4 \in 0 .. HeapSize \div 4
    BY <1>7, <2>1, DivFour
  <2>. QED  BY <2>2
<1>10. f.at \in Memory!H!Places(size)
  BY <1>8, <1>9 DEF Memory!H!Places
<1>. QED  BY <1>3, <1>4, <1>10, SameSizes

\* Wherever there is room, all of it lies in one free block, which would have been found:
\* free blocks do not touch, and what is not free is held.
LEMMA NoRoomIsLeft ==
    ASSUME Memory!HeapAssumption, Memory!Inv, NEW size \in Nat, Memory!FirstFit(size) = 0
    PROVE  Memory!H!Places(size) = {}
<1>1. SUFFICES ASSUME NEW w \in Memory!H!Places(size) PROVE FALSE
  OBVIOUS
<1>2. PICK n \in Nat : n = Memory!RoundToWord(size) /\ size <= n
  BY Rounding
<1>3. w \in Nat /\ HeapSize \in Nat
  BY DEF Memory!H!Places, Memory!HeapAssumption
<1>4. /\ w + 8 + n + 8 <= HeapSize
      /\ \A b \in held : w + 8 + n + 8 <= b.at \/ Memory!EndOf(b) <= w
  <2>1. \A b \in held : Memory!H!EndOf(b) = Memory!EndOf(b)
    BY DEF Memory!H!EndOf, Memory!EndOf
  <2>. QED  BY <1>2, <2>1, SameSizes DEF Memory!H!Places, Memory!H!Room, Memory!Node
<1>5. \A b \in held : b.at \in Nat /\ Memory!EndOf(b) \in Nat /\ b.at < Memory!EndOf(b)
  BY ListParts, NotEmpty DEF Memory!Inv
<1>6. \A i \in 1..Len(m_freelist) :
          /\ m_freelist[i] \in Memory!Blocks /\ m_freelist[i].at \in Nat /\ Memory!EndOf(m_freelist[i]) \in Nat
          /\ m_freelist[i].at < Memory!EndOf(m_freelist[i])
  BY ListParts, NotEmpty DEF Memory!Inv
\* An address in the room is in no block that is held.
<1>7. ASSUME NEW a \in w .. w + 8 + n + 8 - 1
      PROVE  \E i \in 1..Len(m_freelist) : Memory!Spans(m_freelist[i], a)
  <2>1. a \in 0..HeapSize - 1
    BY <1>3, <1>4
  <2>2. ASSUME NEW b \in held PROVE ~ Memory!Spans(b, a)
    BY <1>3, <1>4, <1>5 DEF Memory!Spans
  <2>. QED  BY <2>1, <2>2 DEF Memory!Inv, Memory!HeapInv, Memory!CoverInv
<1>8. PICK i \in 1..Len(m_freelist) : Memory!Spans(m_freelist[i], w)
  BY <1>3, <1>7
<1>9. PICK f \in Memory!Blocks : f = m_freelist[i] /\ f.at \in Nat /\ Memory!EndOf(f) \in Nat /\ f.at < Memory!EndOf(f)
  BY <1>6
<1>10. f.at <= w /\ w < Memory!EndOf(f)
  BY <1>8, <1>9 DEF Memory!Spans
<1>11. w + 8 + n + 8 <= Memory!EndOf(f)
  <2>1. SUFFICES ASSUME Memory!EndOf(f) < w + 8 + n + 8 PROVE FALSE
    BY <1>3, <1>9
  <2>2. PICK j \in 1..Len(m_freelist) : Memory!Spans(m_freelist[j], Memory!EndOf(f))
    BY <1>3, <1>7, <1>9, <1>10, <2>1
  <2>3. m_freelist[j].at <= Memory!EndOf(f) /\ Memory!EndOf(f) < Memory!EndOf(m_freelist[j])
    BY <2>2 DEF Memory!Spans
  <2>4. CASE i < j
    BY <1>6, <1>9, <2>3, <2>4, ListParts DEF Memory!Inv
  <2>5. CASE j < i
    BY <1>6, <1>9, <2>3, <2>5, ListParts DEF Memory!Inv
  <2>6. CASE i = j
    BY <1>9, <2>3, <2>6
  <2>. QED  BY <2>4, <2>5, <2>6
<1>12. Memory!LargeEnough(f, size)
  <2>1. f.size \in Nat /\ Memory!EndOf(f) = f.at + 8 + f.size
    BY BlockIs
  <2>2. PICK m \in Nat, e \in Nat : m = f.at /\ e = f.size
    BY <1>9, <2>1
  <2>3. m <= w /\ w + 8 + n + 8 <= m + 8 + e
    BY <1>10, <1>11, <2>1, <2>2
  <2>4. w \in Nat /\ n \in Nat /\ n >= size
    BY <1>2, <1>3
  <2>5. e >= size + 8
    BY <2>3, <2>4
  <2>. QED  BY <2>2, <2>5 DEF Memory!LargeEnough, Memory!Node
<1>13. ~ Memory!LargeEnough(f, size)
  BY <1>8, <1>9, Finds, ListParts DEF Memory!Inv
<1>. QED  BY <1>12, <1>13

-----------------------------------------------------------------------------
\* The constructor makes one free block of the whole heap.
LEMMA HeapInitEstablishes ==
    ASSUME Memory!HeapAssumption, Memory!Init
    PROVE  Memory!Inv
<1>1. HeapSize \in Nat /\ HeapSize % 4 = 0 /\ HeapSize >= 8 /\ HeapSize - 8 \in Nat
  BY DEF Memory!HeapAssumption, Memory!Node
<1>2. PICK f : f = [at |-> 0, size |-> HeapSize - 8]
  OBVIOUS
<1>3. f \in Memory!Blocks /\ f.at = 0 /\ Memory!EndOf(f) = HeapSize /\ Memory!Aligned(f)
  <2>1. f \in Memory!Blocks
    BY <1>1, <1>2, MakeBlock
  <2>2. (HeapSize - 8) % 4 = 0
    <3>1. 8 % 4 = 0
      OBVIOUS
    <3>. QED  BY <1>1, <3>1, Words
  <2>. QED  BY <1>1, <1>2, <2>1, <2>2, BlockIs DEF Memory!Aligned
<1>4. m_freelist = <<f>> /\ held = {} /\ heapPanic = FALSE
  BY <1>2 DEF Memory!Init, Memory!Node
<1>5. Memory!ListInv(m_freelist)
  BY <1>1, <1>3, <1>4 DEF Memory!ListInv, Memory!Last
<1>6. Memory!CoverInv(m_freelist, held)
  <2>1. \A a \in 0..HeapSize - 1 : Memory!Spans(f, a)
    BY <1>1, <1>3 DEF Memory!Spans
  <2>2. m_freelist[1] = f /\ 1 \in 1..Len(m_freelist)
    BY <1>4
  <2>. QED  BY <2>1, <2>2 DEF Memory!CoverInv
<1>7. m_freelist \in Seq(Memory!Blocks) /\ held \subseteq Memory!Blocks /\ heapPanic \in BOOLEAN
  <2>1. <<f>> \in Seq(Memory!Blocks)
    BY <1>3
  <2>2. held \subseteq Memory!Blocks
    BY <1>4
  <2>. QED  BY <1>4, <2>1, <2>2
<1>8. Memory!HeldInv(m_freelist, held)
  BY <1>4 DEF Memory!HeldInv
<1>. QED  BY <1>5, <1>6, <1>7, <1>8 DEF Memory!Inv, Memory!HeapInv

\* A call that finds a block keeps the invariant and does what Heap allows.
LEMMA HeapAllocateKeeps ==
    ASSUME Memory!HeapAssumption, Memory!Inv, NEW size \in Nat, Memory!Allocate(size)
    PROVE  Memory!Inv' /\ Memory!H!Allocate(size)
<1>1. PICK t : t = Memory!Taken(m_freelist[Memory!FirstFit(size)], size)
  OBVIOUS
<1>2. /\ Memory!FirstFit(size) # 0 /\ held' = held \cup {t}
      /\ m_freelist' = Memory!Without(Memory!FirstFit(size), size) /\ heapPanic' = heapPanic
  BY <1>1 DEF Memory!Allocate
<1>3. Memory!HeapInv(m_freelist', held')
  BY <1>1, <1>2, TakenFromList DEF Memory!Inv
<1>4. t.at \in Memory!H!Places(size) /\ t = [at |-> t.at, size |-> Memory!H!Rounded(size)]
  BY <1>1, <1>2, RoomIsThere
<1>. QED  BY <1>2, <1>3, <1>4 DEF Memory!Inv, Memory!HeapInv, Memory!ListInv, Memory!HeldInv, Memory!CoverInv, Memory!H!Allocate

\* The search fails only where Heap has no room.
LEMMA HeapFailureKeeps ==
    ASSUME Memory!HeapAssumption, Memory!Inv, NEW size \in Nat, Memory!AllocateFails(size)
    PROVE  Memory!Inv' /\ Memory!H!Refuse(size)
<1>1. Memory!FirstFit(size) = 0 /\ held' = held /\ m_freelist' = m_freelist /\ heapPanic' = TRUE
  BY DEF Memory!AllocateFails
<1>2. Memory!H!Places(size) = {}
  BY <1>1, NoRoomIsLeft
<1>. QED  BY <1>1, <1>2 DEF Memory!Inv, Memory!HeapInv, Memory!ListInv, Memory!HeldInv, Memory!CoverInv, Memory!H!Refuse

\* A released block becomes free, merged with its neighbours, and is not held any more.
LEMMA HeapDeallocateKeeps ==
    ASSUME Memory!HeapAssumption, Memory!Inv, NEW block \in held, Memory!Deallocate(block)
    PROVE  Memory!Inv' /\ Memory!H!Deallocate(block)
<1>1. held' = held \ {block} /\ m_freelist' = Memory!Inserted(m_freelist, block) /\ heapPanic' = heapPanic
  BY DEF Memory!Deallocate
<1>2. Memory!HeapInv(m_freelist', held')
  BY <1>1, PutIntoList DEF Memory!Inv
<1>. QED  BY <1>1, <1>2 DEF Memory!Inv, Memory!HeapInv, Memory!ListInv, Memory!HeldInv, Memory!CoverInv, Memory!H!Deallocate

\* A reallocation is an allocation, and then the release of the old block.
LEMMA HeapReallocateKeeps ==
    ASSUME Memory!HeapAssumption, Memory!Inv, NEW block \in held, NEW size \in Nat, Memory!Reallocate(block, size)
    PROVE  Memory!Inv' /\ Memory!H!Reallocate(block, size)
<1>1. PICK t : t = Memory!Taken(m_freelist[Memory!FirstFit(size)], size)
  OBVIOUS
<1>2. PICK list : list = Memory!Without(Memory!FirstFit(size), size)
  OBVIOUS
<1>3. /\ Memory!FirstFit(size) # 0 /\ size >= block.size /\ held' = (held \ {block}) \cup {t}
      /\ m_freelist' = Memory!Inserted(list, block) /\ heapPanic' = heapPanic
  BY <1>1, <1>2 DEF Memory!Reallocate
<1>4. Memory!HeapInv(list, held \cup {t}) /\ t \notin held
  BY <1>1, <1>2, <1>3, TakenFromList DEF Memory!Inv
<1>5. Memory!HeapInv(m_freelist', (held \cup {t}) \ {block})
  BY <1>3, <1>4, PutIntoList
<1>6. held' = (held \cup {t}) \ {block}
  BY <1>3, <1>4
<1>7. t.at \in Memory!H!Places(size) /\ t = [at |-> t.at, size |-> Memory!H!Rounded(size)]
  BY <1>1, <1>3, RoomIsThere
<1>. QED  BY <1>3, <1>5, <1>6, <1>7 DEF Memory!Inv, Memory!HeapInv, Memory!ListInv, Memory!HeldInv, Memory!CoverInv, Memory!H!Reallocate

\* Every call of the heap keeps the invariant and does what Heap allows.
LEMMA HeapNextKeeps ==
    ASSUME Memory!HeapAssumption, Memory!RequestAssumption, Memory!Inv, [Memory!Next]_Memory!vars
    PROVE  Memory!Inv' /\ [Memory!H!Next]_Memory!H!vars
<1>1. CASE UNCHANGED Memory!vars
  BY <1>1 DEF Memory!vars, Memory!Inv, Memory!HeapInv, Memory!ListInv, Memory!HeldInv, Memory!CoverInv, Memory!H!vars
<1>2. CASE Memory!Next
  <2>1. ASSUME NEW size \in Request, Memory!Allocate(size) PROVE Memory!Inv' /\ Memory!H!Next
    BY <1>2, <2>1, HeapAllocateKeeps DEF Memory!Next, Memory!H!Next, Memory!RequestAssumption
  <2>2. ASSUME NEW size \in Request, Memory!AllocateFails(size) PROVE Memory!Inv' /\ Memory!H!Next
    BY <1>2, <2>2, HeapFailureKeeps DEF Memory!Next, Memory!H!Next, Memory!RequestAssumption
  <2>3. ASSUME NEW block \in held, Memory!Deallocate(block) PROVE Memory!Inv' /\ Memory!H!Next
    BY <1>2, <2>3, HeapDeallocateKeeps DEF Memory!Next, Memory!H!Next
  <2>4. ASSUME NEW block \in held, NEW size \in Request, Memory!Reallocate(block, size) PROVE Memory!Inv' /\ Memory!H!Next
    BY <1>2, <2>4, HeapReallocateKeeps DEF Memory!Next, Memory!H!Next, Memory!RequestAssumption
  <2>. QED  BY <1>2, <2>1, <2>2, <2>3, <2>4 DEF Memory!Next
<1>. QED  BY <1>1, <1>2

-----------------------------------------------------------------------------
\* Every address of the heap is in exactly one block, free or held, and the free blocks are in
\* order and do not touch (MemoryAllocator.cpp:13-136).
THEOREM HeapInvariance ==
    ASSUME Memory!HeapAssumption, Memory!RequestAssumption
    PROVE  Memory!Spec => []Memory!Inv
<1>1. Memory!Init => Memory!Inv
  BY HeapInitEstablishes
<1>2. Memory!Inv /\ [Memory!Next]_Memory!vars => Memory!Inv'
  BY HeapNextKeeps
<1>. QED  BY <1>1, <1>2, PTL DEF Memory!Spec

\* deallocate() merges whatever touches and always finds a free block behind the one it
\* releases, so that the assignment behind its loop is never executed (MemoryAllocator.cpp:59-110).
THEOREM StaysCoalesced ==
    ASSUME Memory!HeapAssumption, Memory!RequestAssumption
    PROVE  Memory!Spec => []Coalesced
<1>1. ASSUME Memory!Inv PROVE Coalesced
  <2>1. Len(m_freelist) \in Nat
    BY <1>1, ListParts DEF Memory!Inv
  <2>2. \A i \in 1..Len(m_freelist) - 1 : Memory!EndOf(m_freelist[i]) < m_freelist[i + 1].at
    <3>1. ASSUME NEW i \in 1..Len(m_freelist) - 1
          PROVE  i \in 1..Len(m_freelist) /\ i + 1 \in 1..Len(m_freelist) /\ i < i + 1
      BY <2>1
    <3>. QED  BY <1>1, <3>1, ListParts DEF Memory!Inv
  <2>. QED  BY <1>1, <2>2 DEF Memory!Inv, Memory!HeapInv, Memory!ListInv, Coalesced, Memory!Coalesced
<1>. QED  BY <1>1, HeapInvariance, PTL

\* The allocator implements Heap: what it hands out never overlaps, and it stops the machine only
\* if no gap has room for the block and one more node (MemoryAllocator.cpp:20-136).
THEOREM RefinesHeap ==
    ASSUME Memory!HeapAssumption, Memory!RequestAssumption
    PROVE  Memory!Spec => ImplementsHeap
<1>1. Memory!Init => Memory!H!Init
  BY DEF Memory!Init, Memory!H!Init
<1>2. Memory!Inv /\ [Memory!Next]_Memory!vars => [Memory!H!Next]_Memory!H!vars
  BY HeapNextKeeps
<1>. QED  BY <1>1, <1>2, HeapInvariance, PTL DEF Memory!Spec, ImplementsHeap, Memory!ImplementsHeap, Memory!H!Spec

-----------------------------------------------------------------------------
(* The nodes below a node *)

NodeMemory == [Address -> [value : Maps!Entries, left : Maps!Tree!Link, right : Maps!Tree!Link, parent : Maps!Tree!Link]]

Lefts(mem) == [a \in Address |-> mem[a].left]
Rights(mem) == [a \in Address |-> mem[a].right]
AcyclicIn(mem) == NoCircle(Address, Lefts(mem), Rights(mem))

BelowOf(mem) ==
    CHOOSE B : B = [a \in Maps!Tree!Link |-> IF a = Null THEN {} ELSE {a} \cup B[mem[a].left] \cup B[mem[a].right]]

LEMMA SameBelow == Maps!Tree!Below = BelowOf(node) /\ (Maps!Tree!Acyclic <=> AcyclicIn(node))
<1>1. Maps!Tree!Below = BelowOf(node)
  BY DEF Maps!Tree!Below, BelowOf
<1>2. Maps!Tree!Acyclic <=> AcyclicIn(node)
  BY DEF Maps!Tree!Acyclic, AcyclicIn, NoCircle, Lefts, Rights
<1>. QED  BY <1>1, <1>2

\* In every set of nodes there is one none of whose links leads into the set.
LEMMA Lowest ==
    ASSUME NEW mem, AcyclicIn(mem), NEW S \in SUBSET Address, S # {}
    PROVE  \E a \in S : mem[a].left \notin S /\ mem[a].right \notin S
<1>1. PICK a \in S : Lefts(mem)[a] \notin S /\ Rights(mem)[a] \notin S
  BY DEF AcyclicIn, NoCircle
<1>. QED  BY <1>1 DEF Lefts, Rights

\* What the definition says.
LEMMA BelowIs ==
    ASSUME Maps!Tree!AddressAssumption, NEW mem \in NodeMemory, AcyclicIn(mem)
    PROVE  /\ BelowOf(mem) \in [Maps!Tree!Link -> SUBSET Address]
           /\ BelowOf(mem)[Null] = {}
           /\ \A a \in Address :
                 BelowOf(mem)[a] = {a} \cup BelowOf(mem)[mem[a].left] \cup BelowOf(mem)[mem[a].right]
<1>1. PICK l, r : l = Lefts(mem) /\ r = Rights(mem)
  OBVIOUS
<1>2. PICK step : step = [x \in Address \X (SUBSET Address) \X (SUBSET Address) |-> {x[1]} \cup x[2] \cup x[3]]
  OBVIOUS
<1>3. \A a \in Address : /\ l[a] = mem[a].left /\ r[a] = mem[a].right
                         /\ l[a] \in Address \cup {Null} /\ r[a] \in Address \cup {Null}
  BY <1>1 DEF Lefts, Rights, NodeMemory, Maps!Tree!Link
<1>4. \A a \in Address, x, y \in SUBSET Address : step[<<a, x, y>>] = {a} \cup x \cup y
  BY <1>2
<1>5. \A a \in Address, x, y \in SUBSET Address : step[<<a, x, y>>] \in SUBSET Address
  BY <1>4
<1>6. PICK h \in [Address \cup {Null} -> SUBSET Address] :
            Solves(h, Address, Null, l, r, {}, step)
  <2>1. NoCircle(Address, l, r) /\ Null \notin Address /\ {} \in SUBSET Address
    BY <1>1 DEF AcyclicIn, Maps!Tree!AddressAssumption
  <2>. QED  BY <1>3, <1>5, <2>1, SolutionExists
<1>7. h[Null] = {} /\ \A a \in Address : h[a] = {a} \cup h[mem[a].left] \cup h[mem[a].right]
  <2>1. ASSUME NEW a \in Address PROVE h[a] = {a} \cup h[mem[a].left] \cup h[mem[a].right]
    <3>1. h[a] = step[<<a, h[l[a]], h[r[a]]>>]
      BY <1>6 DEF Solves
    <3>2. h[l[a]] \in SUBSET Address /\ h[r[a]] \in SUBSET Address
      BY <1>3, <1>6
    <3>. QED  BY <1>3, <1>4, <3>1, <3>2
  <2>. QED  BY <1>6, <2>1 DEF Solves
<1>8. h = [a \in Maps!Tree!Link |-> IF a = Null THEN {} ELSE {a} \cup h[mem[a].left] \cup h[mem[a].right]]
  BY <1>6, <1>7 DEF Maps!Tree!Link, Maps!Tree!AddressAssumption
<1>9. BelowOf(mem) = [a \in Maps!Tree!Link |-> IF a = Null THEN {} ELSE {a} \cup BelowOf(mem)[mem[a].left]
                                                                  \cup BelowOf(mem)[mem[a].right]]
  BY <1>8 DEF BelowOf
<1>10. PICK g : g = BelowOf(mem)
  OBVIOUS
<1>11. g = [a \in Maps!Tree!Link |-> IF a = Null THEN {} ELSE {a} \cup g[mem[a].left] \cup g[mem[a].right]]
  BY <1>9, <1>10
<1>12. g[Null] = {} /\ \A a \in Address : g[a] = {a} \cup g[mem[a].left] \cup g[mem[a].right]
  BY <1>11 DEF Maps!Tree!Link, Maps!Tree!AddressAssumption
<1>13. \A a \in Address : g[a] = h[a]
  <2>. DEFINE S == {a \in Address : g[a] # h[a]}
  <2>1. SUFFICES ASSUME S # {} PROVE FALSE
    OBVIOUS
  <2>2. PICK a \in S : mem[a].left \notin S /\ mem[a].right \notin S
    <3>1. S \in SUBSET Address
      OBVIOUS
    <3>. HIDE DEF S
    <3>. QED  BY <2>1, <3>1, Lowest
  <2>3. g[mem[a].left] = h[mem[a].left] /\ g[mem[a].right] = h[mem[a].right]
    BY <1>3, <1>7, <1>12, <2>2
  <2>. QED  BY <1>7, <1>12, <2>2, <2>3
<1>14. g \in [Maps!Tree!Link -> SUBSET Address]
  BY <1>6, <1>7, <1>11, <1>12, <1>13 DEF Maps!Tree!Link
<1>. QED  BY <1>10, <1>12, <1>14

\* What satisfies it on some of the nodes is the same there.
IsBelow(h, mem, T) ==
    /\ h[Null] = {}
    /\ \A a \in T : /\ mem[a].left \in T \cup {Null} /\ mem[a].right \in T \cup {Null}
                    /\ h[a] = {a} \cup h[mem[a].left] \cup h[mem[a].right]

LEMMA BelowUnique ==
    ASSUME Maps!Tree!AddressAssumption, NEW mem \in NodeMemory, AcyclicIn(mem), NEW T \in SUBSET Address, NEW h,
           IsBelow(h, mem, T)
    PROVE  \A a \in T : BelowOf(mem)[a] = h[a]
<1>1. PICK g : g = BelowOf(mem)
  OBVIOUS
<1>2. g[Null] = {} /\ \A a \in Address : g[a] = {a} \cup g[mem[a].left] \cup g[mem[a].right]
  BY <1>1, BelowIs
<1>. DEFINE S == {a \in T : g[a] # h[a]}
<1>3. SUFFICES ASSUME S # {} PROVE FALSE
  BY <1>1
<1>4. PICK a \in S : mem[a].left \notin S /\ mem[a].right \notin S
  <2>1. S \in SUBSET Address
    OBVIOUS
  <2>. HIDE DEF S
  <2>. QED  BY <1>3, <2>1, Lowest
<1>5. a \in Address /\ a \in T /\ g[a] # h[a]
  OBVIOUS
<1>6. h[Null] = {} /\ mem[a].left \in T \cup {Null} /\ mem[a].right \in T \cup {Null}
  BY <1>5 DEF IsBelow
<1>7. g[mem[a].left] = h[mem[a].left]
  BY <1>2, <1>4, <1>6
<1>8. g[mem[a].right] = h[mem[a].right]
  BY <1>2, <1>4, <1>6
<1>9. g[a] = {a} \cup g[mem[a].left] \cup g[mem[a].right]
  BY <1>2, <1>5
<1>10. h[a] = {a} \cup h[mem[a].left] \cup h[mem[a].right]
  BY <1>5 DEF IsBelow
<1>. QED  BY <1>5, <1>7, <1>8, <1>9, <1>10

\* A node below another has its own nodes below that one.
LEMMA BelowTransitive ==
    ASSUME Maps!Tree!AddressAssumption, NEW mem \in NodeMemory, AcyclicIn(mem), NEW a \in Maps!Tree!Link,
           NEW b \in BelowOf(mem)[a]
    PROVE  b \in Address /\ BelowOf(mem)[b] \subseteq BelowOf(mem)[a]
<1>1. PICK g : g = BelowOf(mem)
  OBVIOUS
<1>2. /\ g \in [Maps!Tree!Link -> SUBSET Address] /\ g[Null] = {}
      /\ \A c \in Address : g[c] = {c} \cup g[mem[c].left] \cup g[mem[c].right]
  BY <1>1, BelowIs
<1>. DEFINE S == {c \in Address : \E d \in g[c] : ~ (g[d] \subseteq g[c])}
<1>3. ASSUME S # {} PROVE FALSE
  <2>1. PICK c \in S : mem[c].left \notin S /\ mem[c].right \notin S
    <3>1. S \in SUBSET Address
      OBVIOUS
    <3>. HIDE DEF S
    <3>. QED  BY <1>3, <3>1, Lowest
  <2>2. PICK d \in g[c] : ~ (g[d] \subseteq g[c])
    BY <2>1
  <2>3. mem[c].left \in Address \cup {Null} /\ mem[c].right \in Address \cup {Null}
    BY DEF NodeMemory, Maps!Tree!Link
  <2>. QED  BY <1>2, <2>1, <2>2, <2>3
<1>4. a # Null
  BY <1>1, <1>2
<1>. QED  BY <1>1, <1>2, <1>3, <1>4 DEF Maps!Tree!Link

\* It hangs from another one below it.
LEMMA BelowHangs ==
    ASSUME Maps!Tree!AddressAssumption, NEW mem \in NodeMemory, AcyclicIn(mem), NEW a \in Maps!Tree!Link,
           NEW b \in BelowOf(mem)[a], b # a
    PROVE  \E c \in BelowOf(mem)[a] : b = mem[c].left \/ b = mem[c].right
<1>1. PICK g : g = BelowOf(mem)
  OBVIOUS
<1>2. /\ g \in [Maps!Tree!Link -> SUBSET Address] /\ g[Null] = {}
      /\ \A c \in Address : g[c] = {c} \cup g[mem[c].left] \cup g[mem[c].right]
  BY <1>1, BelowIs
<1>. DEFINE S == {c \in Address : b \in g[c] /\ b # c /\ ~ \E d \in g[c] : b = mem[d].left \/ b = mem[d].right}
<1>3. ASSUME S # {} PROVE FALSE
  <2>1. PICK c \in S : mem[c].left \notin S /\ mem[c].right \notin S
    <3>1. S \in SUBSET Address
      OBVIOUS
    <3>. HIDE DEF S
    <3>. QED  BY <1>3, <3>1, Lowest
  <2>2. mem[c].left \in Address \cup {Null} /\ mem[c].right \in Address \cup {Null}
    BY DEF NodeMemory, Maps!Tree!Link
  <2>. QED  BY <1>2, <2>1, <2>2
<1>4. a # Null
  BY <1>1, <1>2
<1>. QED  BY <1>1, <1>2, <1>3, <1>4 DEF Maps!Tree!Link

\* A node is not below its children.
LEMMA NotBelowChild ==
    ASSUME Maps!Tree!AddressAssumption, NEW mem \in NodeMemory, AcyclicIn(mem), NEW a \in Address
    PROVE  a \notin BelowOf(mem)[mem[a].left] /\ a \notin BelowOf(mem)[mem[a].right]
<1>1. PICK g : g = BelowOf(mem)
  OBVIOUS
<1>2. /\ g \in [Maps!Tree!Link -> SUBSET Address] /\ g[Null] = {}
      /\ \A c \in Address : g[c] = {c} \cup g[mem[c].left] \cup g[mem[c].right]
  BY <1>1, BelowIs
<1>3. \A c \in Address : mem[c].left \in Address \cup {Null} /\ mem[c].right \in Address \cup {Null}
  BY DEF NodeMemory, Maps!Tree!Link
<1>4. SUFFICES ASSUME a \in g[mem[a].left] \/ a \in g[mem[a].right] PROVE FALSE
  BY <1>1
<1>. DEFINE S == {c \in Address : a \in g[c]}
<1>5. PICK c \in S : mem[c].left \notin S /\ mem[c].right \notin S
  <2>1. S \in SUBSET Address /\ a \in S
    BY <1>2
  <2>. HIDE DEF S
  <2>. QED  BY <2>1, Lowest
<1>6. c = a
  BY <1>2, <1>3, <1>5
<1>. QED  BY <1>2, <1>3, <1>4, <1>5, <1>6

-----------------------------------------------------------------------------
(* The search *)

\* What search_impl() does at a place, and min_impl().
Searches(F, v) ==
    \A spot \in Maps!Tree!Place :
        F[spot] = IF spot.node = Null THEN spot
                ELSE IF Maps!Before(v, node[spot.node].value) THEN F[Maps!Tree!LeftOf(spot.node)]
                ELSE IF Maps!Before(node[spot.node].value, v) THEN F[Maps!Tree!RightOf(spot.node)]
                ELSE spot

Descends(F) ==
    \A spot \in Maps!Tree!Place :
        F[spot] = IF spot.node = Null \/ node[spot.node].left = Null THEN spot ELSE F[Maps!Tree!LeftOf(spot.node)]

\* Both end.
LEMMA FoundSearches ==
    ASSUME Maps!Tree!AddressAssumption, node \in NodeMemory, AcyclicIn(node), NEW v
    PROVE  \E F : Searches(F, v) /\ Maps!Tree!Found(v) = F[[node |-> m_root, parent |-> Null]]
<1>1. PICK l, r : l = Lefts(node) /\ r = Rights(node)
  OBVIOUS
<1>2. PICK Ways : Ways = [Maps!Tree!Link -> Maps!Tree!Place]
  OBVIOUS
<1>3. PICK base : base = [p \in Maps!Tree!Link |-> [node |-> Null, parent |-> p]]
  OBVIOUS
<1>4. PICK step : step = [x \in Address \X Ways \X Ways |->
                            [p \in Maps!Tree!Link |-> IF Maps!Before(v, node[x[1]].value) THEN x[2][x[1]]
                                            ELSE IF Maps!Before(node[x[1]].value, v) THEN x[3][x[1]]
                                            ELSE [node |-> x[1], parent |-> p]]]
  OBVIOUS
<1>5. \A a \in Address : /\ l[a] = node[a].left /\ r[a] = node[a].right
                         /\ l[a] \in Address \cup {Null} /\ r[a] \in Address \cup {Null}
  BY <1>1 DEF Lefts, Rights, NodeMemory, Maps!Tree!Link
<1>6. Address \subseteq Maps!Tree!Link /\ Null \in Maps!Tree!Link
  BY DEF Maps!Tree!Link
<1>7. base \in Ways
  BY <1>2, <1>3, <1>6 DEF Maps!Tree!Place
<1>8. ASSUME NEW a \in Address, NEW x \in Ways, NEW y \in Ways
      PROVE  /\ step[<<a, x, y>>] \in Ways
             /\ \A p \in Maps!Tree!Link : step[<<a, x, y>>][p] = IF Maps!Before(v, node[a].value) THEN x[a]
                                            ELSE IF Maps!Before(node[a].value, v) THEN y[a]
                                            ELSE [node |-> a, parent |-> p]
  <2>1. step[<<a, x, y>>] = [p \in Maps!Tree!Link |-> IF Maps!Before(v, node[a].value) THEN x[a]
                                            ELSE IF Maps!Before(node[a].value, v) THEN y[a]
                                            ELSE [node |-> a, parent |-> p]]
    BY <1>4
  <2>2. x[a] \in Maps!Tree!Place /\ y[a] \in Maps!Tree!Place
    BY <1>2, <1>6
  <2>3. \A p \in Maps!Tree!Link : [node |-> a, parent |-> p] \in Maps!Tree!Place
    BY <1>6 DEF Maps!Tree!Place
  <2>. QED  BY <1>2, <2>1, <2>2, <2>3
<1>9. PICK h \in [Address \cup {Null} -> Ways] : Solves(h, Address, Null, l, r, base, step)
  <2>1. NoCircle(Address, l, r) /\ Null \notin Address
    BY <1>1 DEF AcyclicIn, Maps!Tree!AddressAssumption
  <2>2. \A a \in Address, x, y \in Ways : step[<<a, x, y>>] \in Ways
    BY <1>8
  <2>. QED  BY <1>5, <1>7, <2>1, <2>2, SolutionExists
<1>10. PICK g : g = [spot \in Maps!Tree!Place |-> h[spot.node][spot.parent]]
  OBVIOUS
<1>11. \A a, p \in Maps!Tree!Link : [node |-> a, parent |-> p] \in Maps!Tree!Place /\ g[[node |-> a, parent |-> p]] = h[a][p]
  BY <1>10 DEF Maps!Tree!Place
<1>12. ASSUME NEW spot \in Maps!Tree!Place
       PROVE  g[spot] = IF spot.node = Null THEN spot
                      ELSE IF Maps!Before(v, node[spot.node].value) THEN g[Maps!Tree!LeftOf(spot.node)]
                      ELSE IF Maps!Before(node[spot.node].value, v) THEN g[Maps!Tree!RightOf(spot.node)]
                      ELSE spot
  <2>1. PICK a \in Maps!Tree!Link, p \in Maps!Tree!Link : a = spot.node /\ p = spot.parent /\ spot = [node |-> a, parent |-> p]
    BY DEF Maps!Tree!Place
  <2>2. CASE a = Null
    <3>1. h[Null] = base
      BY <1>9 DEF Solves
    <3>. QED  BY <1>3, <1>11, <2>1, <2>2, <3>1
  <2>3. CASE a # Null
    <3>1. a \in Address
      BY <2>3 DEF Maps!Tree!Link
    <3>2. h[a] = step[<<a, h[l[a]], h[r[a]]>>]
      BY <1>9, <3>1 DEF Solves
    <3>3. h[l[a]] \in Ways /\ h[r[a]] \in Ways /\ l[a] = node[a].left /\ r[a] = node[a].right
          /\ l[a] \in Maps!Tree!Link /\ r[a] \in Maps!Tree!Link
      BY <1>5, <1>9, <3>1 DEF Maps!Tree!Link
    <3>4. g[Maps!Tree!LeftOf(a)] = h[l[a]][a] /\ g[Maps!Tree!RightOf(a)] = h[r[a]][a]
      BY <1>6, <1>11, <3>1, <3>3 DEF Maps!Tree!LeftOf, Maps!Tree!RightOf
    <3>5. g[spot] = IF Maps!Before(v, node[a].value) THEN h[l[a]][a]
                  ELSE IF Maps!Before(node[a].value, v) THEN h[r[a]][a]
                  ELSE [node |-> a, parent |-> p]
      BY <1>8, <1>11, <2>1, <3>1, <3>2, <3>3
    <3>. QED  BY <2>1, <2>3, <3>4, <3>5
  <2>. QED  BY <2>1, <2>2, <2>3
<1>13. g = [spot \in Maps!Tree!Place |-> IF spot.node = Null THEN spot
                             ELSE IF Maps!Before(v, node[spot.node].value) THEN g[Maps!Tree!LeftOf(spot.node)]
                             ELSE IF Maps!Before(node[spot.node].value, v) THEN g[Maps!Tree!RightOf(spot.node)]
                             ELSE spot]
  <2>1. g = [spot \in Maps!Tree!Place |-> g[spot]]
    BY <1>10
  <2>. QED  BY <1>12, <2>1
<1>14. PICK F : F = CHOOSE From : From =
               [spot \in Maps!Tree!Place |-> IF spot.node = Null THEN spot
                                 ELSE IF Maps!Before(v, node[spot.node].value) THEN From[Maps!Tree!LeftOf(spot.node)]
                                 ELSE IF Maps!Before(node[spot.node].value, v) THEN From[Maps!Tree!RightOf(spot.node)]
                                 ELSE spot]
  OBVIOUS
<1>15. F = [spot \in Maps!Tree!Place |-> IF spot.node = Null THEN spot
                             ELSE IF Maps!Before(v, node[spot.node].value) THEN F[Maps!Tree!LeftOf(spot.node)]
                             ELSE IF Maps!Before(node[spot.node].value, v) THEN F[Maps!Tree!RightOf(spot.node)]
                             ELSE spot]
  BY <1>13, <1>14
<1>16. Searches(F, v)
  BY <1>15 DEF Searches
<1>17. Maps!Tree!Found(v) = F[[node |-> m_root, parent |-> Null]]
  BY <1>14 DEF Maps!Tree!Found
<1>. QED  BY <1>16, <1>17

LEMMA MinDescends ==
    ASSUME Maps!Tree!AddressAssumption, node \in NodeMemory, AcyclicIn(node), NEW subtree, NEW above
    PROVE  \E F : Descends(F) /\ Maps!Tree!Min(subtree, above) = F[[node |-> subtree, parent |-> above]]
<1>1. PICK l, r : l = Lefts(node) /\ r = Rights(node)
  OBVIOUS
<1>2. PICK Ways : Ways = [Maps!Tree!Link -> Maps!Tree!Place]
  OBVIOUS
<1>3. PICK base : base = [p \in Maps!Tree!Link |-> [node |-> Null, parent |-> p]]
  OBVIOUS
<1>4. PICK step : step = [x \in Address \X Ways \X Ways |->
                            [p \in Maps!Tree!Link |-> IF node[x[1]].left = Null THEN [node |-> x[1], parent |-> p]
                                            ELSE x[2][x[1]]]]
  OBVIOUS
<1>5. \A a \in Address : /\ l[a] = node[a].left /\ r[a] = node[a].right
                         /\ l[a] \in Address \cup {Null} /\ r[a] \in Address \cup {Null}
  BY <1>1 DEF Lefts, Rights, NodeMemory, Maps!Tree!Link
<1>6. Address \subseteq Maps!Tree!Link /\ Null \in Maps!Tree!Link
  BY DEF Maps!Tree!Link
<1>7. base \in Ways
  BY <1>2, <1>3, <1>6 DEF Maps!Tree!Place
<1>8. ASSUME NEW a \in Address, NEW x \in Ways, NEW y \in Ways
      PROVE  /\ step[<<a, x, y>>] \in Ways
             /\ \A p \in Maps!Tree!Link : step[<<a, x, y>>][p] = IF node[a].left = Null THEN [node |-> a, parent |-> p]
                                                       ELSE x[a]
  <2>1. step[<<a, x, y>>] = [p \in Maps!Tree!Link |-> IF node[a].left = Null THEN [node |-> a, parent |-> p]
                                            ELSE x[a]]
    BY <1>4
  <2>2. x[a] \in Maps!Tree!Place
    BY <1>2, <1>6
  <2>3. \A p \in Maps!Tree!Link : [node |-> a, parent |-> p] \in Maps!Tree!Place
    BY <1>6 DEF Maps!Tree!Place
  <2>. QED  BY <1>2, <2>1, <2>2, <2>3
<1>9. PICK h \in [Address \cup {Null} -> Ways] : Solves(h, Address, Null, l, r, base, step)
  <2>1. NoCircle(Address, l, r) /\ Null \notin Address
    BY <1>1 DEF AcyclicIn, Maps!Tree!AddressAssumption
  <2>2. \A a \in Address, x, y \in Ways : step[<<a, x, y>>] \in Ways
    BY <1>8
  <2>. QED  BY <1>5, <1>7, <2>1, <2>2, SolutionExists
<1>10. PICK g : g = [spot \in Maps!Tree!Place |-> h[spot.node][spot.parent]]
  OBVIOUS
<1>11. \A a, p \in Maps!Tree!Link : [node |-> a, parent |-> p] \in Maps!Tree!Place /\ g[[node |-> a, parent |-> p]] = h[a][p]
  BY <1>10 DEF Maps!Tree!Place
<1>12. ASSUME NEW spot \in Maps!Tree!Place
       PROVE  g[spot] = IF spot.node = Null \/ node[spot.node].left = Null THEN spot ELSE g[Maps!Tree!LeftOf(spot.node)]
  <2>1. PICK a \in Maps!Tree!Link, p \in Maps!Tree!Link : a = spot.node /\ p = spot.parent /\ spot = [node |-> a, parent |-> p]
    BY DEF Maps!Tree!Place
  <2>2. CASE a = Null
    <3>1. h[Null] = base
      BY <1>9 DEF Solves
    <3>. QED  BY <1>3, <1>11, <2>1, <2>2, <3>1
  <2>3. CASE a # Null
    <3>1. a \in Address
      BY <2>3 DEF Maps!Tree!Link
    <3>2. h[a] = step[<<a, h[l[a]], h[r[a]]>>]
      BY <1>9, <3>1 DEF Solves
    <3>3. h[l[a]] \in Ways /\ h[r[a]] \in Ways /\ l[a] = node[a].left /\ l[a] \in Maps!Tree!Link
      BY <1>5, <1>9, <3>1 DEF Maps!Tree!Link
    <3>4. g[Maps!Tree!LeftOf(a)] = h[l[a]][a]
      BY <1>6, <1>11, <3>1, <3>3 DEF Maps!Tree!LeftOf
    <3>5. g[spot] = IF node[a].left = Null THEN [node |-> a, parent |-> p] ELSE h[l[a]][a]
      BY <1>8, <1>11, <2>1, <3>1, <3>2, <3>3
    <3>. QED  BY <2>1, <2>3, <3>4, <3>5
  <2>. QED  BY <2>1, <2>2, <2>3
<1>13. g = [spot \in Maps!Tree!Place |-> IF spot.node = Null \/ node[spot.node].left = Null THEN spot ELSE g[Maps!Tree!LeftOf(spot.node)]]
  <2>1. g = [spot \in Maps!Tree!Place |-> g[spot]]
    BY <1>10
  <2>. QED  BY <1>12, <2>1
<1>14. PICK F : F = CHOOSE From : From =
           [spot \in Maps!Tree!Place |-> IF spot.node = Null \/ node[spot.node].left = Null THEN spot ELSE From[Maps!Tree!LeftOf(spot.node)]]
  OBVIOUS
<1>15. F = [spot \in Maps!Tree!Place |-> IF spot.node = Null \/ node[spot.node].left = Null THEN spot ELSE F[Maps!Tree!LeftOf(spot.node)]]
  BY <1>13, <1>14
<1>16. Descends(F)
  BY <1>15 DEF Descends
<1>17. Maps!Tree!Min(subtree, above) = F[[node |-> subtree, parent |-> above]]
  BY <1>14 DEF Maps!Tree!Min
<1>. QED  BY <1>16, <1>17

-----------------------------------------------------------------------------
(* The shape of the tree *)

\* Everything that is allocated hangs below the root, at one place.
Shaped(mem, root, alloc) ==
    /\ mem \in NodeMemory /\ root \in Maps!Tree!Link /\ alloc \in SUBSET Address
    /\ AcyclicIn(mem)
    /\ BelowOf(mem)[root] = alloc
    /\ \A a \in alloc : /\ mem[a].left # Null => mem[mem[a].left].parent = a /\ mem[a].left # mem[a].right
                        /\ mem[a].right # Null => mem[mem[a].right].parent = a

LEMMA ChildrenAre ==
    ASSUME Maps!Tree!AddressAssumption, NEW mem, NEW root, NEW alloc, Shaped(mem, root, alloc), NEW a \in alloc
    PROVE  /\ a \in Address /\ a # Null
           /\ mem[a].left \in alloc \cup {Null} /\ mem[a].right \in alloc \cup {Null}
           /\ mem[a].left # root /\ mem[a].right # root
           /\ BelowOf(mem)[a] \subseteq alloc /\ a \in BelowOf(mem)[a]
<1>1. PICK g : g = BelowOf(mem)
  OBVIOUS
<1>2. /\ g \in [Maps!Tree!Link -> SUBSET Address] /\ g[Null] = {}
      /\ \A c \in Address : g[c] = {c} \cup g[mem[c].left] \cup g[mem[c].right]
  BY <1>1, BelowIs DEF Shaped
<1>3. mem \in NodeMemory /\ AcyclicIn(mem) /\ root \in Maps!Tree!Link /\ g[root] = alloc /\ a \in Address
  BY <1>1 DEF Shaped
<1>4. mem[a].left \in Address \cup {Null} /\ mem[a].right \in Address \cup {Null}
  BY <1>3 DEF NodeMemory, Maps!Tree!Link
<1>5. g[a] \subseteq alloc
  BY <1>1, <1>3, BelowTransitive
<1>6. /\ mem[a].left \in alloc \cup {Null} /\ mem[a].right \in alloc \cup {Null} /\ a \in g[a]
  BY <1>2, <1>3, <1>4, <1>5
<1>7. a \notin g[mem[a].left] /\ a \notin g[mem[a].right]
  BY <1>1, <1>3, NotBelowChild
<1>8. mem[a].left # root /\ mem[a].right # root
  BY <1>3, <1>7
<1>. QED  BY <1>1, <1>3, <1>5, <1>6, <1>8 DEF Maps!Tree!AddressAssumption

LEMMA Roots ==
    ASSUME Maps!Tree!AddressAssumption, NEW mem, NEW root, NEW alloc, Shaped(mem, root, alloc)
    PROVE  /\ root = Null => alloc = {}
           /\ root # Null => root \in alloc
<1>1. mem \in NodeMemory /\ AcyclicIn(mem) /\ root \in Maps!Tree!Link /\ BelowOf(mem)[root] = alloc
  BY DEF Shaped
<1>2. root # Null => root \in Address
  BY <1>1 DEF Maps!Tree!Link
<1>. QED  BY <1>1, <1>2, BelowIs

\* The link to the parent is right wherever there is one.
LEMMA Parents ==
    ASSUME Maps!Tree!AddressAssumption, NEW mem, NEW root, NEW alloc, Shaped(mem, root, alloc),
           NEW a \in alloc \cup {root}, NEW b \in BelowOf(mem)[a], b # a
    PROVE  /\ b \in alloc /\ mem[b].parent \in BelowOf(mem)[a] /\ mem[b].parent \in alloc
           /\ (mem[mem[b].parent].left = b \/ mem[mem[b].parent].right = b)
<1>1. mem \in NodeMemory /\ AcyclicIn(mem) /\ root \in Maps!Tree!Link /\ BelowOf(mem)[root] = alloc /\ alloc \in SUBSET Address
      /\ a \in Maps!Tree!Link
  BY DEF Shaped, Maps!Tree!Link
<1>2. PICK c \in BelowOf(mem)[a] : b = mem[c].left \/ b = mem[c].right
  BY <1>1, BelowHangs
<1>3. BelowOf(mem)[a] \subseteq alloc
  BY <1>1, ChildrenAre
<1>4. c \in alloc /\ b \in alloc /\ b # Null
  BY <1>1, <1>2, <1>3 DEF Maps!Tree!AddressAssumption
<1>5. mem[b].parent = c
  BY <1>2, <1>4 DEF Shaped
<1>. QED  BY <1>2, <1>4, <1>5

\* Who is below the left child is not below the right one.
LEMMA Sides ==
    ASSUME Maps!Tree!AddressAssumption, NEW mem, NEW root, NEW alloc, Shaped(mem, root, alloc), NEW a \in alloc,
           NEW c \in alloc, c = mem[a].left \/ c = mem[a].right, NEW b \in alloc
    PROVE  /\ c \in BelowOf(mem)[mem[b].left] => (b = a /\ c = mem[a].left) \/ a \in BelowOf(mem)[mem[b].left]
           /\ c \in BelowOf(mem)[mem[b].right] => (b = a /\ c = mem[a].right) \/ a \in BelowOf(mem)[mem[b].right]
<1>1. c # Null /\ mem[c].parent = a
  BY ChildrenAre DEF Shaped
<1>2. ASSUME NEW s \in alloc, c \in BelowOf(mem)[s], c # s PROVE a \in BelowOf(mem)[s]
  BY <1>1, <1>2, Parents
<1>3. mem[b].left \in alloc \cup {Null} /\ mem[b].right \in alloc \cup {Null}
  BY ChildrenAre
<1>4. BelowOf(mem)[Null] = {}
  BY BelowIs DEF Shaped
<1>5. /\ mem[b].left = c => a = b /\ mem[a].left = c
      /\ mem[b].right = c => a = b /\ mem[a].right = c
  BY <1>1 DEF Shaped
<1>. QED  BY <1>2, <1>3, <1>4, <1>5

-----------------------------------------------------------------------------
(* What the search finds *)

\* The values are in the order of the tree.
Sorted(mem, alloc) ==
    \A a \in alloc : /\ \A b \in BelowOf(mem)[mem[a].left] : Maps!Before(mem[b].value, mem[a].value)
                     /\ \A b \in BelowOf(mem)[mem[a].right] : Maps!Before(mem[a].value, mem[b].value)

\* A value that belongs below a node.
Belongs(v, a) ==
    \A c \in allocated : /\ a \in BelowOf(node)[node[c].left] => Maps!Before(v, node[c].value)
                         /\ a \in BelowOf(node)[node[c].right] => Maps!Before(node[c].value, v)

\* Nowhere but among some nodes is a value equal to it.
OnlyIn(v, nodes) == \A c \in allocated \ nodes : Maps!Before(v, node[c].value) \/ Maps!Before(node[c].value, v)

HangsAt(spot) ==
    IF spot.parent = Null THEN spot.node = m_root
    ELSE /\ spot.parent \in allocated
         /\ node[spot.parent].left = spot.node \/ node[spot.parent].right = spot.node

Vacant(v, p) ==
    /\ p \in allocated /\ Belongs(v, p) /\ OnlyIn(v, {})
    /\ \/ Maps!Before(v, node[p].value) /\ node[p].left = Null
       \/ ~ Maps!Before(v, node[p].value) /\ Maps!Before(node[p].value, v) /\ node[p].right = Null

FoundAt(v, spot) ==
    /\ spot \in Maps!Tree!Place
    /\ IF spot.node = Null THEN Vacant(v, spot.parent)
       ELSE /\ spot.node \in allocated /\ HangsAt(spot)
            /\ ~ Maps!Before(v, node[spot.node].value) /\ ~ Maps!Before(node[spot.node].value, v)

TreeInv == Shaped(node, m_root, allocated) /\ Sorted(node, allocated)

\* One step down, to a child or off the tree.
LEMMA StepDown ==
    ASSUME Maps!Tree!AddressAssumption, TreeInv, NEW U, Maps!Tree!StrictOrder(U), Maps!Entries \subseteq U, NEW v \in U,
           NEW a \in allocated, Belongs(v, a), OnlyIn(v, BelowOf(node)[a]), NEW c,
           \/ Maps!Before(v, node[a].value) /\ c = node[a].left
           \/ ~ Maps!Before(v, node[a].value) /\ Maps!Before(node[a].value, v) /\ c = node[a].right
    PROVE  IF c = Null THEN Vacant(v, a)
           ELSE c \in allocated /\ Belongs(v, c) /\ OnlyIn(v, BelowOf(node)[c])
<1>1. PICK g : g = BelowOf(node)
  OBVIOUS
<1>2. /\ g \in [Maps!Tree!Link -> SUBSET Address] /\ g[Null] = {}
      /\ \A d \in Address : g[d] = {d} \cup g[node[d].left] \cup g[node[d].right]
      /\ node \in NodeMemory /\ allocated \in SUBSET Address
  BY <1>1, BelowIs DEF TreeInv, Shaped
<1>3. \A d \in allocated : node[d].value \in U
  BY <1>2 DEF NodeMemory
<1>4. OnlyIn(v, g[c])
  <2>1. SUFFICES ASSUME NEW d \in allocated \ g[c]
                 PROVE  Maps!Before(v, node[d].value) \/ Maps!Before(node[d].value, v)
    BY DEF OnlyIn
  <2>2. CASE d \notin g[a]
    BY <1>1, <2>2 DEF OnlyIn
  <2>3. CASE d = a
    BY <2>3
  <2>4. CASE d \in g[a] /\ d # a /\ c = node[a].left /\ Maps!Before(v, node[a].value)
    <3>1. d \in g[node[a].right]
      BY <1>2, <2>1, <2>4
    <3>2. Maps!Before(node[a].value, node[d].value)
      BY <1>1, <3>1 DEF TreeInv, Sorted
    <3>3. Maps!Before(v, node[d].value)
      BY <1>3, <2>4, <3>2 DEF Maps!Tree!StrictOrder
    <3>. QED  BY <3>3
  <2>5. CASE d \in g[a] /\ d # a /\ c = node[a].right /\ Maps!Before(node[a].value, v)
    <3>1. d \in g[node[a].left]
      BY <1>2, <2>1, <2>5
    <3>2. Maps!Before(node[d].value, node[a].value)
      BY <1>1, <3>1 DEF TreeInv, Sorted
    <3>3. Maps!Before(node[d].value, v)
      BY <1>3, <2>5, <3>2 DEF Maps!Tree!StrictOrder
    <3>. QED  BY <3>3
  <2>. QED  BY <2>2, <2>3, <2>4, <2>5
<1>5. CASE c = Null
  <2>1. OnlyIn(v, {})
    BY <1>2, <1>4, <1>5
  <2>. QED  BY <1>5, <2>1 DEF Vacant
<1>6. CASE c # Null
  <2>1. c \in allocated
    BY <1>6, ChildrenAre DEF TreeInv
  <2>2. ASSUME NEW d \in allocated
        PROVE  /\ c \in g[node[d].left] => Maps!Before(v, node[d].value)
               /\ c \in g[node[d].right] => Maps!Before(node[d].value, v)
    <3>1. /\ c \in g[node[d].left] => (d = a /\ c = node[a].left) \/ a \in g[node[d].left]
          /\ c \in g[node[d].right] => (d = a /\ c = node[a].right) \/ a \in g[node[d].right]
      BY <1>1, <2>1, Sides DEF TreeInv
    <3>2. /\ a \in g[node[d].left] => Maps!Before(v, node[d].value)
          /\ a \in g[node[d].right] => Maps!Before(node[d].value, v)
      BY <1>1 DEF Belongs
    <3>3. node[a].left = Null \/ node[a].left # node[a].right
      BY DEF TreeInv, Shaped
    <3>. QED  BY <1>6, <3>1, <3>2, <3>3
  <2>3. Belongs(v, c)
    BY <1>1, <2>2 DEF Belongs
  <2>. QED  BY <1>1, <1>4, <1>6, <2>1, <2>3
<1>. QED  BY <1>5, <1>6

\* The search ends where the value is or where it belongs.
LEMMA Searched ==
    ASSUME Maps!Tree!AddressAssumption, TreeInv, NEW U, Maps!Tree!StrictOrder(U), Maps!Entries \subseteq U, NEW v \in U,
           NEW F, Searches(F, v), NEW spot \in Maps!Tree!Place, spot.node \in allocated, HangsAt(spot),
           Belongs(v, spot.node), OnlyIn(v, BelowOf(node)[spot.node])
    PROVE  FoundAt(v, F[spot])
<1>. DEFINE S == {a \in allocated : /\ Belongs(v, a) /\ OnlyIn(v, BelowOf(node)[a])
                                    /\ \E x \in Maps!Tree!Place : x.node = a /\ HangsAt(x) /\ ~ FoundAt(v, F[x])}
<1>0. allocated \in SUBSET Address /\ Address \subseteq Maps!Tree!Link /\ Null \in Maps!Tree!Link /\ node \in NodeMemory
  BY DEF TreeInv, Shaped, Maps!Tree!Link
<1>1. ASSUME S # {} PROVE FALSE
  <2>1. PICK a \in S : node[a].left \notin S /\ node[a].right \notin S
    <3>1. S \in SUBSET Address
      BY <1>0
    <3>2. AcyclicIn(node)
      BY DEF TreeInv, Shaped
    <3>. HIDE DEF S
    <3>. QED  BY <1>1, <3>1, <3>2, Lowest
  <2>2. a \in allocated /\ a \in Address /\ a # Null /\ Belongs(v, a) /\ OnlyIn(v, BelowOf(node)[a])
    BY <1>0 DEF Maps!Tree!AddressAssumption
  <2>3. PICK x \in Maps!Tree!Place : x.node = a /\ HangsAt(x) /\ ~ FoundAt(v, F[x])
    BY <2>1
  <2>4. node[a].left \in Maps!Tree!Link /\ node[a].right \in Maps!Tree!Link
    BY <1>0, <2>2 DEF NodeMemory
  <2>5. Maps!Tree!LeftOf(a) \in Maps!Tree!Place /\ Maps!Tree!LeftOf(a).node = node[a].left /\ Maps!Tree!LeftOf(a).parent = a
        /\ Maps!Tree!RightOf(a) \in Maps!Tree!Place /\ Maps!Tree!RightOf(a).node = node[a].right /\ Maps!Tree!RightOf(a).parent = a
    BY <1>0, <2>2, <2>4 DEF Maps!Tree!LeftOf, Maps!Tree!RightOf, Maps!Tree!Place
  <2>6. HangsAt(Maps!Tree!LeftOf(a)) /\ HangsAt(Maps!Tree!RightOf(a))
    BY <2>2, <2>5 DEF HangsAt
  <2>7. \A y \in Maps!Tree!Place : y.node = Null => F[y] = y
    BY DEF Searches
  <2>8. CASE Maps!Before(v, node[a].value)
    <3>1. F[x] = F[Maps!Tree!LeftOf(a)]
      BY <2>2, <2>3, <2>8 DEF Searches
    <3>2. IF node[a].left = Null THEN Vacant(v, a)
          ELSE node[a].left \in allocated /\ Belongs(v, node[a].left)
               /\ OnlyIn(v, BelowOf(node)[node[a].left])
      BY <2>2, <2>8, StepDown
    <3>3. CASE node[a].left = Null
      BY <2>3, <2>5, <2>7, <3>1, <3>2, <3>3 DEF FoundAt
    <3>4. CASE node[a].left # Null
      BY <2>1, <2>3, <2>5, <2>6, <3>1, <3>2, <3>4
    <3>. QED  BY <3>3, <3>4
  <2>9. CASE ~ Maps!Before(v, node[a].value) /\ Maps!Before(node[a].value, v)
    <3>1. F[x] = F[Maps!Tree!RightOf(a)]
      BY <2>2, <2>3, <2>9 DEF Searches
    <3>2. IF node[a].right = Null THEN Vacant(v, a)
          ELSE node[a].right \in allocated /\ Belongs(v, node[a].right)
               /\ OnlyIn(v, BelowOf(node)[node[a].right])
      BY <2>2, <2>9, StepDown
    <3>3. CASE node[a].right = Null
      BY <2>3, <2>5, <2>7, <3>1, <3>2, <3>3 DEF FoundAt
    <3>4. CASE node[a].right # Null
      BY <2>1, <2>3, <2>5, <2>6, <3>1, <3>2, <3>4
    <3>. QED  BY <3>3, <3>4
  <2>10. CASE ~ Maps!Before(v, node[a].value) /\ ~ Maps!Before(node[a].value, v)
    <3>1. F[x] = x
      BY <2>2, <2>3, <2>10 DEF Searches
    <3>. QED  BY <2>2, <2>3, <2>10, <3>1 DEF FoundAt
  <2>. QED  BY <2>8, <2>9, <2>10
<1>. QED  BY <1>1

\* In an empty tree it ends at once.
LEMMA FoundIs ==
    ASSUME Maps!Tree!AddressAssumption, TreeInv, NEW U, Maps!Tree!StrictOrder(U), Maps!Entries \subseteq U, NEW v \in U
    PROVE  IF m_root = Null THEN Maps!Tree!Found(v) = [node |-> Null, parent |-> Null] ELSE FoundAt(v, Maps!Tree!Found(v))
<1>1. PICK F : Searches(F, v) /\ Maps!Tree!Found(v) = F[[node |-> m_root, parent |-> Null]]
  BY FoundSearches DEF TreeInv, Shaped
<1>2. PICK spot : spot = [node |-> m_root, parent |-> Null]
  OBVIOUS
<1>3. spot \in Maps!Tree!Place /\ spot.node = m_root /\ spot.parent = Null
  BY <1>2 DEF Maps!Tree!Place, TreeInv, Shaped, Maps!Tree!Link
<1>4. CASE m_root = Null
  BY <1>1, <1>2, <1>3, <1>4 DEF Searches
<1>5. CASE m_root # Null
  <2>1. m_root \in allocated
    BY <1>5, Roots DEF TreeInv
  <2>2. HangsAt(spot)
    BY <1>3 DEF HangsAt
  <2>3. OnlyIn(v, BelowOf(node)[m_root])
    BY DEF OnlyIn, TreeInv, Shaped
  <2>4. ASSUME NEW c \in allocated
        PROVE  m_root \notin BelowOf(node)[node[c].left] /\ m_root \notin BelowOf(node)[node[c].right]
    <3>1. \A d \in allocated \cup {Null} : m_root \in BelowOf(node)[d] => d = m_root
      <4>1. ASSUME NEW d \in allocated, m_root \in BelowOf(node)[d], m_root # d PROVE FALSE
        <5>1. node[m_root].parent \in allocated
              /\ (node[node[m_root].parent].left = m_root \/ node[node[m_root].parent].right = m_root)
          BY <4>1, Parents DEF TreeInv
        <5>. QED  BY <5>1, ChildrenAre DEF TreeInv
      <4>2. BelowOf(node)[Null] = {}
        BY BelowIs DEF TreeInv, Shaped
      <4>. QED  BY <4>1, <4>2
    <3>. QED  BY <3>1, ChildrenAre DEF TreeInv
  <2>5. Belongs(v, m_root)
    BY <2>4 DEF Belongs
  <2>6. FoundAt(v, F[spot])
    BY <1>1, <1>3, <2>1, <2>2, <2>3, <2>5, Searched
  <2>. QED  BY <1>1, <1>2, <1>5, <2>6
<1>. QED  BY <1>4, <1>5

\* The leftmost node below one holds the least value.
Leftmost(a, above, spot) ==
    /\ spot \in Maps!Tree!Place /\ spot.node \in BelowOf(node)[a] /\ node[spot.node].left = Null
    /\ \A b \in BelowOf(node)[a] \ {spot.node} : Maps!Before(node[spot.node].value, node[b].value)
    /\ \/ spot.node = a /\ spot.parent = above
       \/ spot.parent \in BelowOf(node)[a] /\ node[spot.parent].left = spot.node

LEMMA Descended ==
    ASSUME Maps!Tree!AddressAssumption, TreeInv, NEW U, Maps!Tree!StrictOrder(U), Maps!Entries \subseteq U,
           NEW F, Descends(F), NEW a \in allocated, NEW above \in Maps!Tree!Link
    PROVE  Leftmost(a, above, F[[node |-> a, parent |-> above]])
<1>1. PICK g : g = BelowOf(node)
  OBVIOUS
<1>2. /\ g \in [Maps!Tree!Link -> SUBSET Address] /\ g[Null] = {}
      /\ \A d \in Address : g[d] = {d} \cup g[node[d].left] \cup g[node[d].right]
      /\ node \in NodeMemory /\ allocated \in SUBSET Address
  BY <1>1, BelowIs DEF TreeInv, Shaped
<1>3. \A d \in allocated : node[d].value \in U
  BY <1>2 DEF NodeMemory
<1>. DEFINE S == {c \in allocated : \E p \in Maps!Tree!Link : ~ Leftmost(c, p, F[[node |-> c, parent |-> p]])}
<1>4. ASSUME S # {} PROVE FALSE
  <2>1. PICK c \in S : node[c].left \notin S /\ node[c].right \notin S
    <3>1. S \in SUBSET Address
      BY <1>2
    <3>2. AcyclicIn(node)
      BY DEF TreeInv, Shaped
    <3>. HIDE DEF S
    <3>. QED  BY <1>4, <3>1, <3>2, Lowest
  <2>2. PICK p \in Maps!Tree!Link : ~ Leftmost(c, p, F[[node |-> c, parent |-> p]])
    BY <2>1
  <2>3. PICK x : x = [node |-> c, parent |-> p]
    OBVIOUS
  <2>4. x \in Maps!Tree!Place /\ x.node = c /\ x.parent = p /\ c \in allocated /\ c \in Address /\ c \in Maps!Tree!Link
        /\ ~ Leftmost(c, p, F[x]) /\ c # Null
    BY <1>2, <2>2, <2>3 DEF Maps!Tree!Place, Maps!Tree!Link, Maps!Tree!AddressAssumption
  <2>5. /\ node[c].left \in allocated \cup {Null} /\ node[c].right \in allocated \cup {Null}
        /\ g[c] \subseteq allocated
    BY <1>1, <2>4, ChildrenAre DEF TreeInv
  <2>6. /\ \A b \in g[node[c].left] : Maps!Before(node[b].value, node[c].value)
        /\ \A b \in g[node[c].right] : Maps!Before(node[c].value, node[b].value)
    BY <1>1, <2>4 DEF TreeInv, Sorted
  <2>7. CASE node[c].left = Null
    <3>1. F[x] = x
      BY <2>4, <2>7 DEF Descends
    <3>2. g[c] = {c} \cup g[node[c].right]
      BY <1>2, <2>4, <2>7
    <3>. QED  BY <1>1, <2>4, <2>6, <2>7, <3>1, <3>2 DEF Leftmost
  <2>8. CASE node[c].left # Null
    <3>1. PICK y : y = F[Maps!Tree!LeftOf(c)]
      OBVIOUS
    <3>2. F[x] = y
      BY <2>4, <2>8, <3>1 DEF Descends
    <3>3. Leftmost(node[c].left, c, y)
      <4>1. node[c].left \in allocated /\ c \in Maps!Tree!Link
        BY <2>4, <2>5, <2>8
      <4>. QED  BY <2>1, <3>1, <4>1 DEF Maps!Tree!LeftOf
    <3>4. /\ y \in Maps!Tree!Place /\ y.node \in g[node[c].left] /\ node[y.node].left = Null
          /\ \A b \in g[node[c].left] \ {y.node} : Maps!Before(node[y.node].value, node[b].value)
          /\ \/ y.node = node[c].left /\ y.parent = c
             \/ y.parent \in g[node[c].left] /\ node[y.parent].left = y.node
      BY <1>1, <3>3 DEF Leftmost
    <3>5. g[c] = {c} \cup g[node[c].left] \cup g[node[c].right]
      BY <1>2, <2>4
    <3>6. ASSUME NEW b \in g[c] \ {y.node} PROVE Maps!Before(node[y.node].value, node[b].value)
      <4>1. node[y.node].value \in U /\ node[b].value \in U /\ node[c].value \in U
        BY <1>3, <2>4, <2>5, <3>4, <3>5
      <4>2. Maps!Before(node[y.node].value, node[c].value)
        BY <2>6, <3>4
      <4>3. b \in g[node[c].right] => Maps!Before(node[y.node].value, node[b].value)
        BY <2>6, <4>1, <4>2 DEF Maps!Tree!StrictOrder
      <4>. QED  BY <3>4, <3>5, <4>2, <4>3
    <3>7. Leftmost(c, p, y)
      BY <1>1, <3>4, <3>5, <3>6 DEF Leftmost
    <3>. QED  BY <2>4, <3>2, <3>7
  <2>. QED  BY <2>7, <2>8
<1>. QED  BY <1>4

LEMMA MinIs ==
    ASSUME Maps!Tree!AddressAssumption, TreeInv, NEW U, Maps!Tree!StrictOrder(U), Maps!Entries \subseteq U,
           NEW a \in allocated \cup {Null}, NEW above \in Maps!Tree!Link
    PROVE  IF a = Null THEN Maps!Tree!Min(a, above) = [node |-> Null, parent |-> above]
           ELSE Leftmost(a, above, Maps!Tree!Min(a, above))
<1>1. PICK F : Descends(F) /\ Maps!Tree!Min(a, above) = F[[node |-> a, parent |-> above]]
  BY MinDescends DEF TreeInv, Shaped
<1>2. CASE a = Null
  <2>1. PICK x : x = [node |-> a, parent |-> above]
    OBVIOUS
  <2>2. x \in Maps!Tree!Place /\ x.node = Null
    BY <1>2, <2>1 DEF Maps!Tree!Place, Maps!Tree!Link
  <2>. QED  BY <1>1, <1>2, <2>1, <2>2 DEF Descends
<1>3. CASE a # Null
  BY <1>1, <1>3, Descended
<1>. QED  BY <1>2, <1>3

-----------------------------------------------------------------------------
(* A node is linked *)

LEMMA LinkedIs ==
    ASSUME Maps!Tree!AddressAssumption, node \in NodeMemory, NEW a \in Address, NEW v \in Maps!Entries,
           NEW p \in Address, p # a, NEW n, n = Maps!Tree!Linked(node, a, v, p)
    PROVE  /\ n \in NodeMemory
           /\ n[a] = [value |-> v, left |-> Null, right |-> Null, parent |-> p]
           /\ n[p].value = node[p].value /\ n[p].parent = node[p].parent
           /\ IF Maps!Before(v, node[p].value) THEN n[p].left = a /\ n[p].right = node[p].right
              ELSE n[p].left = node[p].left /\ n[p].right = a
           /\ \A b \in Address \ {a, p} : n[b] = node[b]
<1>1. PICK e : e = [value |-> v, left |-> Null, right |-> Null, parent |-> p]
  OBVIOUS
<1>2. PICK m : m = [node EXCEPT ![a] = e]
  OBVIOUS
<1>3. e \in [value : Maps!Entries, left : Maps!Tree!Link, right : Maps!Tree!Link, parent : Maps!Tree!Link]
  BY <1>1 DEF Maps!Tree!Link
<1>4. m \in NodeMemory /\ m[a] = e /\ \A b \in Address \ {a} : m[b] = node[b]
  BY <1>2, <1>3 DEF NodeMemory
<1>5. p # Null
  BY DEF Maps!Tree!AddressAssumption
<1>6. n = [m EXCEPT ![p][IF Maps!Before(v, m[p].value) THEN "left" ELSE "right"] = a]
  BY <1>1, <1>2, <1>5 DEF Maps!Tree!Linked
<1>7. PICK q : q = node[p] /\ q = m[p] /\ q \in [value : Maps!Entries, left : Maps!Tree!Link, right : Maps!Tree!Link, parent : Maps!Tree!Link]
  BY <1>4 DEF NodeMemory
<1>8. CASE Maps!Before(v, node[p].value)
  <2>1. n = [m EXCEPT ![p] = [q EXCEPT !.left = a]]
    BY <1>6, <1>7, <1>8
  <2>2. PICK k : k = [q EXCEPT !.left = a]
    OBVIOUS
  <2>3. k \in [value : Maps!Entries, left : Maps!Tree!Link, right : Maps!Tree!Link, parent : Maps!Tree!Link]
        /\ k.value = q.value /\ k.parent = q.parent /\ k.left = a /\ k.right = q.right
    BY <1>7, <2>2 DEF Maps!Tree!Link
  <2>4. n = [m EXCEPT ![p] = k]
    BY <2>1, <2>2
  <2>. QED  BY <1>1, <1>4, <1>7, <1>8, <2>3, <2>4 DEF NodeMemory
<1>9. CASE ~ Maps!Before(v, node[p].value)
  <2>1. n = [m EXCEPT ![p] = [q EXCEPT !.right = a]]
    BY <1>6, <1>7, <1>9
  <2>2. PICK k : k = [q EXCEPT !.right = a]
    OBVIOUS
  <2>3. k \in [value : Maps!Entries, left : Maps!Tree!Link, right : Maps!Tree!Link, parent : Maps!Tree!Link]
        /\ k.value = q.value /\ k.parent = q.parent /\ k.left = q.left /\ k.right = a
    BY <1>7, <2>2 DEF Maps!Tree!Link
  <2>4. n = [m EXCEPT ![p] = k]
    BY <2>1, <2>2
  <2>. QED  BY <1>1, <1>4, <1>7, <1>9, <2>3, <2>4 DEF NodeMemory
<1>. QED  BY <1>8, <1>9

\* No circle comes about: the new node has no children.
LEMMA LinkedAcyclic ==
    ASSUME Maps!Tree!AddressAssumption, node \in NodeMemory, AcyclicIn(node), NEW n \in NodeMemory, NEW a \in Address,
           n[a].left = Null, n[a].right = Null,
           \A b \in Address \ {a} : /\ n[b].left \in {node[b].left, a}
                                    /\ n[b].right \in {node[b].right, a}
    PROVE  AcyclicIn(n)
<1>1. SUFFICES ASSUME NEW S \in SUBSET Address, S # {}
               PROVE  \E b \in S : n[b].left \notin S /\ n[b].right \notin S
  <2>1. ASSUME NEW S \in SUBSET Address, S # {}
        PROVE  \E b \in S : Lefts(n)[b] \notin S /\ Rights(n)[b] \notin S
    <3>1. PICK b \in S : n[b].left \notin S /\ n[b].right \notin S
      BY <1>1, <2>1
    <3>. QED  BY <3>1 DEF Lefts, Rights
  <2>. QED  BY <2>1 DEF AcyclicIn, NoCircle
<1>2. CASE a \in S
  BY <1>2 DEF Maps!Tree!AddressAssumption
<1>3. CASE a \notin S
  <2>1. PICK b \in S : node[b].left \notin S /\ node[b].right \notin S
    BY <1>1, Lowest
  <2>. QED  BY <1>3, <2>1
<1>. QED  BY <1>2, <1>3

\* What lies below each node afterwards.
LinkedUnder(n, a, p) ==
    /\ BelowOf(n)[a] = {a}
    /\ \A c \in allocated : BelowOf(n)[c] = IF p \in BelowOf(node)[c] THEN BelowOf(node)[c] \cup {a}
                                            ELSE BelowOf(node)[c]

LEMMA LinkedBelow ==
    ASSUME Maps!Tree!AddressAssumption, Shaped(node, m_root, allocated), NEW a \in Address \ allocated, NEW v \in Maps!Entries,
           NEW p \in allocated, NEW n, n = Maps!Tree!Linked(node, a, v, p),
           IF Maps!Before(v, node[p].value) THEN node[p].left = Null ELSE node[p].right = Null
    PROVE  Shaped(n, m_root, allocated \cup {a}) /\ LinkedUnder(n, a, p)
<1>1. PICK g : g = BelowOf(node)
  OBVIOUS
<1>2. /\ g \in [Maps!Tree!Link -> SUBSET Address] /\ g[Null] = {}
      /\ \A d \in Address : g[d] = {d} \cup g[node[d].left] \cup g[node[d].right]
      /\ node \in NodeMemory /\ allocated \in SUBSET Address /\ AcyclicIn(node) /\ g[m_root] = allocated
      /\ p \in Address /\ p # a /\ a # Null /\ p # Null
  BY <1>1, BelowIs DEF Shaped, Maps!Tree!AddressAssumption
<1>3. /\ n \in NodeMemory
      /\ n[a] = [value |-> v, left |-> Null, right |-> Null, parent |-> p]
      /\ n[p].value = node[p].value /\ n[p].parent = node[p].parent
      /\ IF Maps!Before(v, node[p].value) THEN n[p].left = a /\ n[p].right = node[p].right
         ELSE n[p].left = node[p].left /\ n[p].right = a
      /\ \A b \in Address \ {a, p} : n[b] = node[b]
  BY <1>2, LinkedIs
<1>4. AcyclicIn(n)
  <2>1. n[a].left = Null /\ n[a].right = Null
    BY <1>3
  <2>2. \A b \in Address \ {a} : n[b].left \in {node[b].left, a} /\ n[b].right \in {node[b].right, a}
    BY <1>3
  <2>. QED  BY <1>2, <1>3, <2>1, <2>2, LinkedAcyclic
<1>5. \A c \in allocated : /\ node[c].left \in allocated \cup {Null} /\ node[c].right \in allocated \cup {Null}
                           /\ g[c] \subseteq allocated /\ c # a /\ c # Null /\ c \in Address
  BY <1>1, <1>2, ChildrenAre
<1>6. PICK h : h = [c \in Maps!Tree!Link |-> IF c = a THEN {a} ELSE IF p \in g[c] THEN g[c] \cup {a} ELSE g[c]]
  OBVIOUS
<1>7. /\ h[a] = {a} /\ h[Null] = {}
      /\ \A c \in allocated : h[c] = IF p \in g[c] THEN g[c] \cup {a} ELSE g[c]
  BY <1>2, <1>5, <1>6 DEF Maps!Tree!Link
<1>8. ASSUME NEW c \in allocated \cup {a}
      PROVE  /\ n[c].left \in allocated \cup {a} \cup {Null} /\ n[c].right \in allocated \cup {a} \cup {Null}
             /\ h[c] = {c} \cup h[n[c].left] \cup h[n[c].right]
  <2>1. CASE c = a
    BY <1>3, <1>7, <2>1
  <2>2. CASE c = p
    <3>1. p \notin g[node[p].left] /\ p \notin g[node[p].right]
      BY <1>1, <1>2, NotBelowChild
    <3>2. g[p] = {p} \cup g[node[p].left] \cup g[node[p].right] /\ h[p] = g[p] \cup {a}
      <4>1. g[p] = {p} \cup g[node[p].left] \cup g[node[p].right]
        BY <1>2
      <4>2. p \in g[p]
        BY <4>1
      <4>. QED  BY <1>7, <4>1, <4>2
    <3>3. /\ node[p].left \in allocated \cup {Null} /\ node[p].right \in allocated \cup {Null}
      BY <1>5
    <3>4. h[node[p].left] = g[node[p].left] /\ h[node[p].right] = g[node[p].right]
      BY <1>2, <1>7, <3>1, <3>3
    <3>. QED  BY <1>2, <1>3, <1>7, <2>2, <3>2, <3>3, <3>4
  <2>3. CASE c # a /\ c # p
    <3>1. c \in allocated /\ n[c] = node[c] /\ c \in Address
      BY <1>3, <1>5, <2>3
    <3>2. g[c] = {c} \cup g[node[c].left] \cup g[node[c].right]
      BY <1>2, <3>1
    <3>3. \A d \in allocated \cup {Null} : h[d] = IF p \in g[d] THEN g[d] \cup {a} ELSE g[d]
      BY <1>2, <1>7
    <3>4. /\ node[c].left \in allocated \cup {Null} /\ node[c].right \in allocated \cup {Null}
      BY <1>5, <3>1
    <3>. QED  BY <2>3, <3>1, <3>2, <3>3, <3>4
  <2>. QED  BY <2>1, <2>2, <2>3
<1>9. \A c \in allocated \cup {a} : BelowOf(n)[c] = h[c]
  <2>1. PICK T \in SUBSET Address : T = allocated \cup {a}
    BY <1>2
  <2>2. \A c \in T : /\ n[c].left \in T \cup {Null} /\ n[c].right \in T \cup {Null}
                     /\ h[c] = {c} \cup h[n[c].left] \cup h[n[c].right]
    BY <1>8, <2>1
  <2>3. \A c \in T : BelowOf(n)[c] = h[c]
    <3>1. IsBelow(h, n, T)
      BY <1>7, <2>2 DEF IsBelow
    <3>. QED  BY <1>3, <1>4, <3>1, BelowUnique
  <2>. QED  BY <2>1, <2>3
<1>10. m_root \in allocated /\ BelowOf(n)[m_root] = allocated \cup {a}
  <2>1. m_root \in allocated
    BY Roots
  <2>. QED  BY <1>2, <1>7, <1>9, <2>1
<1>11. ASSUME NEW c \in allocated \cup {a}
       PROVE  /\ n[c].left # Null => n[n[c].left].parent = c /\ n[c].left # n[c].right
              /\ n[c].right # Null => n[n[c].right].parent = c
  <2>1. CASE c = a
    BY <1>3, <2>1
  <2>2. CASE c # a
    <3>1. c \in allocated /\ c \in Address
      BY <1>5, <2>2
    <3>2. /\ node[c].left # Null => node[node[c].left].parent = c /\ node[c].left # node[c].right
          /\ node[c].right # Null => node[node[c].right].parent = c
      BY <3>1 DEF Shaped
    <3>3. \A d \in allocated : n[d].parent = node[d].parent
      BY <1>3, <1>5
    <3>4. /\ node[c].left \in allocated \cup {Null} /\ node[c].right \in allocated \cup {Null}
          /\ node[c].left # a /\ node[c].right # a
      BY <1>2, <1>5, <3>1
    <3>5. CASE c = p
      BY <1>2, <1>3, <3>2, <3>3, <3>4, <3>5
    <3>6. CASE c # p
      BY <1>3, <2>2, <3>1, <3>2, <3>3, <3>4, <3>6
    <3>. QED  BY <3>5, <3>6
  <2>. QED  BY <2>1, <2>2
<1>12. Shaped(n, m_root, allocated \cup {a})
  <2>1. m_root \in Maps!Tree!Link /\ allocated \cup {a} \in SUBSET Address
    BY <1>2 DEF Shaped
  <2>. QED  BY <1>3, <1>4, <1>10, <1>11, <2>1 DEF Shaped
<1>13. LinkedUnder(n, a, p)
  BY <1>1, <1>7, <1>9 DEF LinkedUnder
<1>. QED  BY <1>12, <1>13

-----------------------------------------------------------------------------
(* A node is taken out *)

OnlyChild(mem, a) == IF mem[a].left = Null THEN mem[a].right ELSE mem[a].left

\* What remove_impl() makes of the memory.
Without(mem, a, parent) ==
    [(IF parent = Null THEN mem ELSE Maps!Tree!ReplacedChild(mem, parent, a, OnlyChild(mem, a)))
        EXCEPT ![a] = [@ EXCEPT !.left = Null, !.right = Null, !.parent = Null]]

TreeNode == [value : Maps!Entries, left : Maps!Tree!Link, right : Maps!Tree!Link, parent : Maps!Tree!Link]

LEMMA ReplacedIs ==
    ASSUME Maps!Tree!AddressAssumption, NEW mem \in NodeMemory, NEW a \in Address, NEW p \in Address, p # a,
           NEW k \in Maps!Tree!Link, k # a, k # p, NEW n, n = Maps!Tree!ReplacedChild(mem, p, a, k)
    PROVE  /\ n \in NodeMemory
           /\ n[a].value = mem[a].value
           /\ n[p].value = mem[p].value /\ n[p].parent = mem[p].parent
           /\ IF mem[p].left = a THEN n[p].left = k /\ n[p].right = mem[p].right
              ELSE n[p].left = mem[p].left /\ n[p].right = k
           /\ k # Null => n[k] = [mem[k] EXCEPT !.parent = p]
           /\ \A b \in Address \ {a, p, k} : n[b] = mem[b]
<1>1. PICK q \in TreeNode : q = mem[p]
  BY DEF NodeMemory, TreeNode
<1>2. PICK x \in TreeNode : x = mem[a]
  BY DEF NodeMemory, TreeNode
<1>3. PICK y : y = [x EXCEPT !.parent = Null]
  OBVIOUS
<1>4. y \in TreeNode /\ y.value = x.value
  BY <1>2, <1>3 DEF TreeNode, Maps!Tree!Link
<1>5. PICK s : s = [q EXCEPT ![IF q.left = a THEN "left" ELSE "right"] = k]
  OBVIOUS
<1>6. /\ s \in TreeNode /\ s.value = q.value /\ s.parent = q.parent
      /\ IF q.left = a THEN s.left = k /\ s.right = q.right ELSE s.left = q.left /\ s.right = k
  <2>1. CASE q.left = a
    <3>1. s = [q EXCEPT !.left = k]
      BY <1>5, <2>1
    <3>. QED  BY <1>1, <2>1, <3>1 DEF TreeNode
  <2>2. CASE q.left # a
    <3>1. s = [q EXCEPT !.right = k]
      BY <1>5, <2>2
    <3>. QED  BY <1>1, <2>2, <3>1 DEF TreeNode
  <2>. QED  BY <2>1, <2>2
<1>7. PICK m : m = [mem EXCEPT ![a].parent = Null, ![p][IF mem[p].left = a THEN "left" ELSE "right"] = k]
  OBVIOUS
<1>8. m \in NodeMemory /\ m[a] = y /\ m[p] = s /\ \A b \in Address \ {a, p} : m[b] = mem[b]
  <2>1. m = [[mem EXCEPT ![a] = y] EXCEPT ![p] = s]
    BY <1>1, <1>2, <1>3, <1>5, <1>7 DEF NodeMemory
  <2>. QED  BY <1>4, <1>6, <2>1 DEF NodeMemory, TreeNode
<1>9. CASE k = Null
  <2>1. n = m
    BY <1>7, <1>9 DEF Maps!Tree!ReplacedChild
  <2>. QED  BY <1>1, <1>2, <1>4, <1>6, <1>8, <1>9, <2>1
<1>10. CASE k # Null
  <2>1. n = [m EXCEPT ![k].parent = p]
    BY <1>7, <1>10 DEF Maps!Tree!ReplacedChild
  <2>2. PICK z \in TreeNode : z = mem[k] /\ z = m[k] /\ k \in Address
    BY <1>8, <1>10 DEF NodeMemory, TreeNode, Maps!Tree!Link
  <2>3. PICK w : w = [z EXCEPT !.parent = p]
    OBVIOUS
  <2>4. w \in TreeNode
    BY <2>2, <2>3 DEF TreeNode, Maps!Tree!Link
  <2>5. n = [m EXCEPT ![k] = w]
    BY <2>1, <2>2, <2>3
  <2>6. n \in NodeMemory /\ n[k] = w /\ \A b \in Address \ {k} : n[b] = m[b]
    BY <1>8, <2>2, <2>4, <2>5 DEF NodeMemory, TreeNode
  <2>. QED  BY <1>1, <1>2, <1>4, <1>6, <1>8, <1>10, <2>2, <2>3, <2>6
<1>. QED  BY <1>9, <1>10

LEMMA WithoutIs ==
    ASSUME Maps!Tree!AddressAssumption, NEW mem \in NodeMemory, NEW a \in Address, NEW p \in Maps!Tree!Link, p # a,
           NEW k, k = OnlyChild(mem, a), k # a, k # p \/ p = Null, NEW n, n = Without(mem, a, p)
    PROVE  /\ n \in NodeMemory
           /\ n[a].value = mem[a].value /\ n[a].left = Null /\ n[a].right = Null
           /\ p # Null => /\ n[p].value = mem[p].value /\ n[p].parent = mem[p].parent
                          /\ IF mem[p].left = a THEN n[p].left = k /\ n[p].right = mem[p].right
                             ELSE n[p].left = mem[p].left /\ n[p].right = k
                          /\ k # Null => n[k] = [mem[k] EXCEPT !.parent = p]
           /\ \A b \in Address \ {a} : b # p /\ (b # k \/ p = Null) => n[b] = mem[b]
<1>0. k \in Maps!Tree!Link
  BY DEF OnlyChild, NodeMemory
<1>1. PICK m : m = IF p = Null THEN mem ELSE Maps!Tree!ReplacedChild(mem, p, a, k)
  OBVIOUS
<1>2. n = [m EXCEPT ![a] = [@ EXCEPT !.left = Null, !.right = Null, !.parent = Null]]
  BY <1>1 DEF Without
<1>3. /\ m \in NodeMemory /\ m[a].value = mem[a].value
      /\ p # Null => /\ m[p].value = mem[p].value /\ m[p].parent = mem[p].parent
                     /\ IF mem[p].left = a THEN m[p].left = k /\ m[p].right = mem[p].right
                        ELSE m[p].left = mem[p].left /\ m[p].right = k
                     /\ k # Null => m[k] = [mem[k] EXCEPT !.parent = p]
      /\ \A b \in Address \ {a} : b # p /\ (b # k \/ p = Null) => m[b] = mem[b]
  <2>1. CASE p = Null
    BY <1>1, <2>1
  <2>2. CASE p # Null
    <3>1. p \in Address /\ m = Maps!Tree!ReplacedChild(mem, p, a, k)
      BY <1>1, <2>2 DEF Maps!Tree!Link
    <3>. QED  BY <1>0, <2>2, <3>1, ReplacedIs
  <2>. QED  BY <2>1, <2>2
<1>4. PICK x \in TreeNode : x = m[a]
  BY <1>3 DEF NodeMemory, TreeNode
<1>5. PICK y : y = [x EXCEPT !.left = Null, !.right = Null, !.parent = Null]
  OBVIOUS
<1>6. y \in TreeNode /\ y.value = x.value /\ y.left = Null /\ y.right = Null
  BY <1>4, <1>5 DEF TreeNode, Maps!Tree!Link
<1>7. n = [m EXCEPT ![a] = y]
  BY <1>2, <1>4, <1>5
<1>8. n \in NodeMemory /\ n[a] = y /\ \A b \in Address \ {a} : n[b] = m[b]
  BY <1>3, <1>6, <1>7 DEF NodeMemory, TreeNode
<1>9. p # Null => p \in Address \ {a}
  BY DEF Maps!Tree!Link
<1>10. k # Null => k \in Address \ {a}
  BY <1>0 DEF Maps!Tree!Link
<1>. QED  BY <1>3, <1>4, <1>6, <1>8, <1>9, <1>10

\* Where a node hangs.
HangsFrom(mem, root, alloc, a, p) ==
    IF p = Null THEN a = root ELSE p \in alloc /\ (mem[p].left = a \/ mem[p].right = a)

\* What lies below each node afterwards.
WithoutUnder(n, mem, alloc, a) ==
    /\ \A c \in alloc \ {a} : /\ BelowOf(n)[n[c].left] = BelowOf(mem)[mem[c].left] \ {a}
                              /\ BelowOf(n)[n[c].right] = BelowOf(mem)[mem[c].right] \ {a}
    /\ \A b \in Address : n[b].value = mem[b].value

LEMMA WithoutBelow ==
    ASSUME Maps!Tree!AddressAssumption, NEW mem, NEW root, NEW alloc, Shaped(mem, root, alloc), NEW a \in alloc,
           mem[a].left = Null \/ mem[a].right = Null, NEW p \in Maps!Tree!Link, HangsFrom(mem, root, alloc, a, p),
           NEW n, n = Without(mem, a, p), NEW top, top = IF p = Null THEN OnlyChild(mem, a) ELSE root
    PROVE  Shaped(n, top, alloc \ {a}) /\ WithoutUnder(n, mem, alloc, a)
<1>1. PICK g : g = BelowOf(mem)
  OBVIOUS
<1>2. /\ g \in [Maps!Tree!Link -> SUBSET Address] /\ g[Null] = {}
      /\ \A d \in Address : g[d] = {d} \cup g[mem[d].left] \cup g[mem[d].right]
      /\ mem \in NodeMemory /\ alloc \in SUBSET Address /\ AcyclicIn(mem) /\ g[root] = alloc
      /\ a \in Address /\ a # Null /\ root \in Maps!Tree!Link
  BY <1>1, BelowIs DEF Shaped, Maps!Tree!AddressAssumption
<1>3. \A c \in alloc : /\ mem[c].left \in alloc \cup {Null} /\ mem[c].right \in alloc \cup {Null}
                       /\ mem[c].left # root /\ mem[c].right # root /\ mem[c].left # c /\ mem[c].right # c
                       /\ c \in Address /\ c # Null /\ c \in g[c]
  <2>. TAKE c \in alloc
  <2>1. /\ mem[c].left \in alloc \cup {Null} /\ mem[c].right \in alloc \cup {Null}
        /\ mem[c].left # root /\ mem[c].right # root
        /\ c \in Address /\ c # Null /\ c \in g[c]
    BY <1>1, ChildrenAre
  <2>2. c \notin g[mem[c].left] /\ c \notin g[mem[c].right]
    BY <1>1, <1>2, <2>1, NotBelowChild
  <2>. QED  BY <2>1, <2>2
<1>4. \A c \in alloc : /\ mem[c].left # Null => mem[mem[c].left].parent = c /\ mem[c].left # mem[c].right
                       /\ mem[c].right # Null => mem[mem[c].right].parent = c
  BY DEF Shaped
<1>5. PICK k : k = OnlyChild(mem, a)
  OBVIOUS
<1>6. k \in alloc \cup {Null} /\ k # a /\ (k # Null => mem[k].parent = a) /\ g[a] = {a} \cup g[k]
      /\ a \notin g[k] /\ (k = mem[a].left \/ k = mem[a].right)
  <2>1. k = mem[a].left \/ k = mem[a].right
    BY <1>5 DEF OnlyChild
  <2>2. g[a] = {a} \cup g[k]
    <3>1. g[a] = {a} \cup g[mem[a].left] \cup g[mem[a].right]
      BY <1>2
    <3>. QED  BY <1>2, <1>5, <3>1 DEF OnlyChild
  <2>3. a \notin g[k]
    BY <1>1, <1>2, <2>1, NotBelowChild
  <2>. QED  BY <1>3, <1>4, <2>1, <2>2, <2>3
<1>7. p # a /\ (p # Null => p \in alloc /\ p \in Address /\ p # k /\ mem[a].parent = p /\ a # root)
  <2>1. CASE p = Null
    BY <1>2, <2>1
  <2>2. CASE p # Null
    <3>1. p \in alloc /\ (mem[p].left = a \/ mem[p].right = a)
      BY <2>2 DEF HangsFrom
    <3>2. p # a /\ a # root /\ mem[a].parent = p
      BY <1>2, <1>3, <1>4, <3>1
    <3>3. p # k
      <4>1. ASSUME p = k PROVE FALSE
        <5>1. g[p] = {p} \cup g[mem[p].left] \cup g[mem[p].right]
          BY <1>2, <1>3, <3>1
        <5>2. a \in g[p]
          BY <1>3, <3>1, <5>1
        <5>. QED  BY <1>6, <4>1, <5>2
      <4>. QED  BY <4>1
    <3>. QED  BY <1>3, <3>1, <3>2, <3>3
  <2>. QED  BY <2>1, <2>2
<1>8. /\ n \in NodeMemory
      /\ n[a].value = mem[a].value /\ n[a].left = Null /\ n[a].right = Null
      /\ p # Null => /\ n[p].value = mem[p].value /\ n[p].parent = mem[p].parent
                     /\ IF mem[p].left = a THEN n[p].left = k /\ n[p].right = mem[p].right
                        ELSE n[p].left = mem[p].left /\ n[p].right = k
                     /\ k # Null => n[k] = [mem[k] EXCEPT !.parent = p]
      /\ \A b \in Address \ {a} : b # p /\ (b # k \/ p = Null) => n[b] = mem[b]
  <2>1. k # p \/ p = Null
    BY <1>7
  <2>. QED  BY <1>2, <1>5, <1>6, <1>7, <2>1, WithoutIs
\* The links afterwards.
<1>9. ASSUME NEW b \in Address \ {a}
      PROVE  /\ n[b].value = mem[b].value
             /\ n[b].left = IF b = p /\ mem[b].left = a THEN k ELSE mem[b].left
             /\ n[b].right = IF b = p /\ mem[b].left # a THEN k ELSE mem[b].right
             /\ n[b].parent = IF b = k /\ p # Null THEN p ELSE mem[b].parent
  <2>1. b # Null
    BY DEF Maps!Tree!AddressAssumption
  <2>2. CASE b = p
    BY <1>7, <1>8, <2>1, <2>2
  <2>3. CASE b = k /\ p # Null
    <3>1. PICK x \in TreeNode : x = mem[b]
      BY <1>2 DEF NodeMemory, TreeNode
    <3>2. n[b] = [x EXCEPT !.parent = p]
      BY <1>8, <2>1, <2>3, <3>1
    <3>3. n[b].value = x.value /\ n[b].left = x.left /\ n[b].right = x.right /\ n[b].parent = p
      BY <3>1, <3>2 DEF TreeNode
    <3>. QED  BY <1>7, <2>3, <3>1, <3>3
  <2>4. CASE b # p /\ (b # k \/ p = Null)
    BY <1>8, <2>4
  <2>. QED  BY <2>2, <2>3, <2>4
<1>10. p # Null => IF mem[p].left = a THEN TRUE ELSE mem[p].right = a
  BY DEF HangsFrom
<1>11. AcyclicIn(n)
  <2>1. SUFFICES ASSUME NEW S \in SUBSET Address, S # {}
                 PROVE  \E b \in S : n[b].left \notin S /\ n[b].right \notin S
    <3>1. ASSUME NEW S \in SUBSET Address, S # {}
          PROVE  \E b \in S : Lefts(n)[b] \notin S /\ Rights(n)[b] \notin S
      <4>1. PICK b \in S : n[b].left \notin S /\ n[b].right \notin S
        BY <2>1, <3>1
      <4>. QED  BY <4>1 DEF Lefts, Rights
    <3>. QED  BY <3>1 DEF AcyclicIn, NoCircle
  <2>2. CASE a \in S
    BY <1>8, <2>2 DEF Maps!Tree!AddressAssumption
  <2>3. CASE a \notin S /\ k \in S
    <3>1. S \cup {a} \in SUBSET Address /\ S \cup {a} # {}
      BY <1>2
    <3>2. PICK b \in S \cup {a} : mem[b].left \notin S \cup {a} /\ mem[b].right \notin S \cup {a}
      BY <1>2, <3>1, Lowest
    <3>3. b # a /\ b # p
      <4>1. b # a
        BY <1>6, <2>3, <3>2
      <4>2. ASSUME b = p PROVE FALSE
        <5>1. p # Null
          BY <1>2, <3>2, <4>2 DEF Maps!Tree!AddressAssumption
        <5>. QED  BY <1>10, <3>2, <4>2, <5>1
      <4>. QED  BY <4>1, <4>2
    <3>. QED  BY <1>9, <3>2, <3>3
  <2>4. CASE a \notin S /\ k \notin S
    <3>1. PICK b \in S : mem[b].left \notin S /\ mem[b].right \notin S
      BY <1>2, <2>1, Lowest
    <3>. QED  BY <1>9, <2>4, <3>1
  <2>. QED  BY <2>2, <2>3, <2>4
\* Only the parent has a link to the node.
<1>12. \A c \in alloc \ {a} : c # p => mem[c].left # a /\ mem[c].right # a
  <2>. TAKE c \in alloc \ {a}
  <2>1. mem[c].left = a \/ mem[c].right = a => mem[a].parent = c /\ a # root
    BY <1>2, <1>3, <1>4
  <2>2. p = Null => a = root
    BY DEF HangsFrom
  <2>. QED  BY <1>7, <2>1, <2>2
<1>13. p # Null => /\ mem[p].left = a => mem[p].right # a /\ (mem[p].right # k \/ k = Null)
                   /\ mem[p].left # a => mem[p].left # k \/ k = Null
  BY <1>2, <1>4, <1>6, <1>7
<1>14. PICK T \in SUBSET Address : T = alloc \ {a}
  BY <1>2
<1>15. PICK h : h = [c \in Maps!Tree!Link |-> g[c] \ {a}]
  OBVIOUS
<1>16. h[Null] = {} /\ \A c \in Address : h[c] = g[c] \ {a}
  BY <1>2, <1>15 DEF Maps!Tree!Link
<1>17. ASSUME NEW c \in T
       PROVE  /\ n[c].left \in T \cup {Null} /\ n[c].right \in T \cup {Null}
              /\ h[c] = {c} \cup h[n[c].left] \cup h[n[c].right]
             /\ h[n[c].left] = g[mem[c].left] \ {a} /\ h[n[c].right] = g[mem[c].right] \ {a}
  <2>1. c \in alloc /\ c # a /\ c \in Address
    BY <1>2, <1>14
  <2>2. g[c] = {c} \cup g[mem[c].left] \cup g[mem[c].right]
    BY <1>2, <2>1
  <2>3. \A d \in T \cup {Null} : h[d] = g[d] \ {a}
    BY <1>2, <1>14, <1>16
  <2>4. mem[c].left \in alloc \cup {Null} /\ mem[c].right \in alloc \cup {Null}
    BY <1>3, <2>1
  <2>5. CASE c # p
    <3>1. n[c].left = mem[c].left /\ n[c].right = mem[c].right
      BY <1>9, <2>1, <2>5
    <3>2. mem[c].left \in T \cup {Null} /\ mem[c].right \in T \cup {Null}
      BY <1>12, <1>14, <2>1, <2>4, <2>5
    <3>. QED  BY <2>1, <2>2, <2>3, <3>1, <3>2
  <2>6. CASE c = p /\ mem[c].left = a
    <3>1. n[c].left = k /\ n[c].right = mem[c].right
      BY <1>9, <2>1, <2>6
    <3>2. k \in T \cup {Null} /\ mem[c].right \in T \cup {Null}
      BY <1>2, <1>6, <1>7, <1>13, <1>14, <2>1, <2>4, <2>6
    <3>3. h[k] = g[k] \ {a} /\ h[mem[c].right] = g[mem[c].right] \ {a}
      BY <2>3, <3>2
    <3>. QED  BY <1>6, <2>1, <2>2, <2>3, <2>6, <3>1, <3>2, <3>3
  <2>7. CASE c = p /\ mem[c].left # a
    <3>1. n[c].right = k /\ n[c].left = mem[c].left /\ mem[c].right = a
      <4>1. p # Null
        BY <1>3, <2>1, <2>7
      <4>. QED  BY <1>9, <1>10, <2>1, <2>7, <4>1
    <3>2. k \in T \cup {Null} /\ mem[c].left \in T \cup {Null}
      BY <1>2, <1>6, <1>14, <2>1, <2>4, <2>7
    <3>3. h[k] = g[k] \ {a} /\ h[mem[c].left] = g[mem[c].left] \ {a}
      BY <2>3, <3>2
    <3>. QED  BY <1>6, <2>1, <2>2, <2>3, <2>7, <3>1, <3>2, <3>3
  <2>. QED  BY <2>5, <2>6, <2>7
<1>18. \A c \in T : BelowOf(n)[c] = g[c] \ {a}
  <2>1. IsBelow(h, n, T)
    BY <1>16, <1>17 DEF IsBelow
  <2>2. \A c \in T : BelowOf(n)[c] = h[c]
    BY <1>8, <1>11, <2>1, BelowUnique
  <2>. QED  BY <1>14, <1>16, <2>2
<1>19. top \in Maps!Tree!Link /\ BelowOf(n)[top] = T
  <2>0. BelowOf(n)[Null] = {}
    BY <1>8, <1>11, BelowIs
  <2>1. CASE p = Null
    <3>1. top = k /\ a = root
      BY <1>5, <2>1 DEF HangsFrom
    <3>2. T = g[k]
      BY <1>2, <1>6, <1>14, <3>1
    <3>3. k # Null => k \in T
      BY <1>6, <1>14
    <3>4. k \in Maps!Tree!Link
      BY <1>2, <1>6 DEF Maps!Tree!Link
    <3>5. CASE k = Null
      BY <1>2, <2>0, <3>1, <3>2, <3>4, <3>5
    <3>6. CASE k # Null
      <4>1. BelowOf(n)[k] = g[k] \ {a} /\ a \notin T
        BY <1>14, <1>18, <3>3, <3>6
      <4>. QED  BY <3>1, <3>2, <3>4, <4>1
    <3>. QED  BY <3>5, <3>6
  <2>2. CASE p # Null
    <3>1. top = root /\ root \in alloc /\ root # a
      BY <1>2, <1>7, <2>2, Roots
    <3>2. root \in T /\ g[root] = alloc
      BY <1>2, <1>14, <3>1
    <3>. QED  BY <1>2, <1>14, <1>18, <3>1, <3>2
  <2>. QED  BY <2>1, <2>2
<1>20. ASSUME NEW c \in T
       PROVE  /\ n[c].left # Null => n[n[c].left].parent = c /\ n[c].left # n[c].right
              /\ n[c].right # Null => n[n[c].right].parent = c
  <2>1. c \in alloc /\ c # a /\ c \in Address /\ c # Null
    BY <1>3, <1>14
  <2>2. mem[c].left \in alloc \cup {Null} /\ mem[c].right \in alloc \cup {Null}
    BY <1>3, <2>1
  <2>3. \A d \in alloc \ {a} : n[d].parent = IF d = k /\ p # Null THEN p ELSE mem[d].parent
    BY <1>3, <1>9
  <2>4. k # Null => mem[c].left # k /\ mem[c].right # k
    BY <1>4, <1>6, <2>1
  <2>5. CASE c # p
    <3>1. n[c].left = mem[c].left /\ n[c].right = mem[c].right /\ mem[c].left # a /\ mem[c].right # a
      BY <1>9, <1>12, <2>1, <2>5
    <3>. QED  BY <1>4, <2>1, <2>2, <2>3, <2>4, <3>1
  <2>6. CASE c = p /\ mem[c].left = a
    <3>1. n[c].left = k /\ n[c].right = mem[c].right
      BY <1>9, <2>1, <2>6
    <3>2. mem[c].right # a /\ (mem[c].right # k \/ k = Null)
      BY <1>13, <2>1, <2>6
    <3>3. k # Null => n[k].parent = p
      BY <1>6, <2>1, <2>3, <2>6
    <3>4. mem[c].right # Null => n[mem[c].right].parent = c
      BY <1>4, <2>1, <2>2, <2>3, <3>2
    <3>. QED  BY <2>6, <3>1, <3>2, <3>3, <3>4
  <2>7. CASE c = p /\ mem[c].left # a
    <3>1. n[c].right = k /\ n[c].left = mem[c].left
      BY <1>9, <2>1, <2>7
    <3>2. mem[c].left # a /\ (mem[c].left # k \/ k = Null)
      BY <1>13, <2>1, <2>7
    <3>3. k # Null => n[k].parent = p
      BY <1>6, <2>1, <2>3, <2>7
    <3>4. mem[c].left # Null => n[mem[c].left].parent = c
      BY <1>4, <2>1, <2>2, <2>3, <3>2
    <3>. QED  BY <2>7, <3>1, <3>2, <3>3, <3>4
  <2>. QED  BY <2>5, <2>6, <2>7
<1>21. Shaped(n, top, T)
  BY <1>8, <1>11, <1>14, <1>19, <1>20 DEF Shaped
<1>22. \A b \in Address : n[b].value = mem[b].value
  BY <1>8, <1>9
<1>23. ASSUME NEW c \in T
       PROVE  /\ BelowOf(n)[n[c].left] = g[mem[c].left] \ {a}
              /\ BelowOf(n)[n[c].right] = g[mem[c].right] \ {a}
  <2>1. BelowOf(n)[Null] = {}
    BY <1>8, <1>11, BelowIs
  <2>2. \A d \in T \cup {Null} : BelowOf(n)[d] = h[d]
    BY <1>2, <1>14, <1>16, <1>18, <2>1
  <2>. QED  BY <1>17, <2>2
<1>24. WithoutUnder(n, mem, alloc, a)
  BY <1>1, <1>14, <1>22, <1>23 DEF WithoutUnder
<1>. QED  BY <1>14, <1>21, <1>24

-----------------------------------------------------------------------------
(* A value takes the place of an equal one, or of one that was next to it *)

\* The members.
Members(mem, alloc) == {mem[a].value : a \in alloc}

Alike(v, w) == ~ Maps!Before(v, w) /\ ~ Maps!Before(w, v)

\* A member gives way to an equal one.
Gains(new, old, v) == new = {w \in old : ~ Alike(v, w)} \cup {v}

\* Two nodes hold values that are not equal.
LEMMA Distinct ==
    ASSUME Maps!Tree!AddressAssumption, TreeInv, NEW U, Maps!Tree!StrictOrder(U), Maps!Entries \subseteq U,
           NEW b \in allocated, NEW d \in allocated, b # d
    PROVE  ~ Alike(node[b].value, node[d].value)
<1>1. PICK g : g = BelowOf(node)
  OBVIOUS
<1>2. /\ g \in [Maps!Tree!Link -> SUBSET Address] /\ g[Null] = {}
      /\ \A c \in Address : g[c] = {c} \cup g[node[c].left] \cup g[node[c].right]
      /\ node \in NodeMemory /\ allocated \in SUBSET Address /\ g[m_root] = allocated
  BY <1>1, BelowIs DEF TreeInv, Shaped
<1>3. \A c \in allocated : node[c].value \in U
  BY <1>2 DEF NodeMemory
<1>4. \A c \in allocated : /\ node[c].left \in allocated \cup {Null} /\ node[c].right \in allocated \cup {Null}
                           /\ g[c] \subseteq allocated
  BY <1>1, ChildrenAre DEF TreeInv
<1>5. \A c \in allocated : /\ \A x \in g[node[c].left] : Maps!Before(node[x].value, node[c].value)
                           /\ \A x \in g[node[c].right] : Maps!Before(node[c].value, node[x].value)
  BY <1>1 DEF TreeInv, Sorted
<1>. DEFINE Apart(x, y) == x = y \/ Maps!Before(node[x].value, node[y].value) \/ Maps!Before(node[y].value, node[x].value)
            S == {c \in allocated : \E x \in g[c], y \in g[c] : ~ Apart(x, y)}
<1>6. ASSUME S # {} PROVE FALSE
  <2>1. PICK c \in S : node[c].left \notin S /\ node[c].right \notin S
    <3>1. S \in SUBSET Address /\ AcyclicIn(node)
      BY <1>2 DEF TreeInv, Shaped
    <3>. HIDE DEF S
    <3>. QED  BY <1>6, <3>1, Lowest
  <2>2. c \in allocated /\ c \in Address
    BY <1>2
  <2>3. PICK x \in g[c], y \in g[c] : ~ Apart(x, y)
    BY <2>1
  <2>4. \A z \in g[node[c].left], w \in g[node[c].left] : Apart(z, w)
    BY <1>2, <1>4, <2>1, <2>2
  <2>5. \A z \in g[node[c].right], w \in g[node[c].right] : Apart(z, w)
    BY <1>2, <1>4, <2>1, <2>2
  <2>6. \A z \in g[node[c].left], w \in g[node[c].right] : Maps!Before(node[z].value, node[w].value)
    <3>. TAKE z \in g[node[c].left], w \in g[node[c].right]
    <3>1. z \in allocated /\ w \in allocated
      <4>1. g[c] = {c} \cup g[node[c].left] \cup g[node[c].right]
        BY <1>2, <2>2
      <4>. QED  BY <1>4, <2>2, <4>1
    <3>2. Maps!Before(node[z].value, node[c].value) /\ Maps!Before(node[c].value, node[w].value)
      BY <1>5, <2>2
    <3>3. node[z].value \in U /\ node[c].value \in U /\ node[w].value \in U
      BY <1>3, <2>2, <3>1
    <3>. QED  BY <3>2, <3>3 DEF Maps!Tree!StrictOrder
  <2>7. g[c] = {c} \cup g[node[c].left] \cup g[node[c].right]
    BY <1>2, <2>2
  <2>. QED  BY <1>5, <2>2, <2>3, <2>4, <2>5, <2>6, <2>7
<1>7. m_root \in allocated
  <2>1. allocated # {}
    OBVIOUS
  <2>. QED  BY <2>1, Roots DEF TreeInv
<1>8. Apart(b, d)
  BY <1>2, <1>6, <1>7
<1>. QED  BY <1>8 DEF Alike

\* One node at most holds a value that is equal to a given one.
LEMMA OnlyOne ==
    ASSUME Maps!Tree!AddressAssumption, TreeInv, NEW U, Maps!Tree!StrictOrder(U), Maps!Entries \subseteq U, NEW v \in U,
           NEW a \in allocated, Alike(v, node[a].value), NEW b \in allocated \ {a}
    PROVE  ~ Alike(v, node[b].value)
<1>1. ~ Alike(node[a].value, node[b].value)
  BY Distinct
<1>2. v \in U /\ node[a].value \in U /\ node[b].value \in U
  BY DEF TreeInv, Shaped, NodeMemory
<1>. QED  BY <1>1, <1>2 DEF Maps!Tree!StrictOrder, Alike

\* Only the links make the shape.
LEMMA SameLinks ==
    ASSUME Maps!Tree!AddressAssumption, NEW mem, NEW root, NEW alloc, Shaped(mem, root, alloc), NEW n \in NodeMemory,
           \A b \in Address : n[b].left = mem[b].left /\ n[b].right = mem[b].right /\ n[b].parent = mem[b].parent
    PROVE  Shaped(n, root, alloc) /\ \A c \in Maps!Tree!Link : BelowOf(n)[c] = BelowOf(mem)[c]
<1>1. PICK g : g = BelowOf(mem)
  OBVIOUS
<1>2. /\ g \in [Maps!Tree!Link -> SUBSET Address] /\ g[Null] = {}
      /\ \A c \in Address : g[c] = {c} \cup g[mem[c].left] \cup g[mem[c].right]
      /\ mem \in NodeMemory /\ alloc \in SUBSET Address /\ g[root] = alloc /\ AcyclicIn(mem) /\ root \in Maps!Tree!Link
  BY <1>1, BelowIs DEF Shaped
<1>3. \A c \in Address : mem[c].left \in Address \cup {Null} /\ mem[c].right \in Address \cup {Null}
  BY <1>2 DEF NodeMemory, Maps!Tree!Link
<1>4. AcyclicIn(n)
  <2>1. Lefts(n) = Lefts(mem) /\ Rights(n) = Rights(mem)
    BY DEF Lefts, Rights
  <2>. QED  BY <1>2, <2>1 DEF AcyclicIn
<1>5. IsBelow(g, n, Address)
  BY <1>2, <1>3 DEF IsBelow
<1>6. \A c \in Address : BelowOf(n)[c] = g[c]
  BY <1>4, <1>5, BelowUnique
<1>7. BelowOf(n)[Null] = {}
  BY <1>4, BelowIs
<1>8. \A c \in Maps!Tree!Link : BelowOf(n)[c] = g[c]
  BY <1>2, <1>6, <1>7 DEF Maps!Tree!Link
<1>9. Shaped(n, root, alloc)
  <2>1. ASSUME NEW a \in alloc
        PROVE  /\ n[a].left # Null => n[n[a].left].parent = a /\ n[a].left # n[a].right
               /\ n[a].right # Null => n[n[a].right].parent = a
    <3>1. /\ mem[a].left # Null => mem[mem[a].left].parent = a /\ mem[a].left # mem[a].right
          /\ mem[a].right # Null => mem[mem[a].right].parent = a
      BY DEF Shaped
    <3>. QED  BY <1>2, <1>3, <3>1
  <2>. QED  BY <1>2, <1>4, <1>8, <2>1 DEF Shaped
<1>. QED  BY <1>1, <1>8, <1>9

\* A value has been put into a node.
Gained(n, alloc, a, v) ==
    /\ n[a].value = v
    /\ \A b \in allocated \ {a} : n[b].value = node[b].value
    /\ \A b \in allocated : n[b].parent = node[b].parent
    /\ Gains(Members(n, alloc), Members(node, allocated), v)

\* An equal value can take the place of the old one.
LEMMA Replaced ==
    ASSUME Maps!Tree!AddressAssumption, TreeInv, NEW U, Maps!Tree!StrictOrder(U), Maps!Entries \subseteq U, NEW v \in Maps!Entries,
           NEW a \in allocated, Alike(v, node[a].value), NEW n, n = [node EXCEPT ![a].value = v]
    PROVE  /\ Shaped(n, m_root, allocated) /\ Sorted(n, allocated)
           /\ Gained(n, allocated, a, v)
<1>1. node \in NodeMemory /\ allocated \in SUBSET Address /\ a \in Address /\ m_root \in Maps!Tree!Link
  BY DEF TreeInv, Shaped
<1>2. PICK x \in TreeNode : x = node[a]
  BY <1>1 DEF NodeMemory, TreeNode
<1>3. PICK y : y = [x EXCEPT !.value = v]
  OBVIOUS
<1>4. y \in TreeNode /\ y.value = v /\ y.left = x.left /\ y.right = x.right /\ y.parent = x.parent
  BY <1>2, <1>3 DEF TreeNode
<1>5. n = [node EXCEPT ![a] = y]
  BY <1>2, <1>3
<1>6. /\ n \in NodeMemory /\ n[a].value = v /\ \A b \in Address \ {a} : n[b].value = node[b].value
      /\ \A b \in Address : n[b].left = node[b].left /\ n[b].right = node[b].right /\ n[b].parent = node[b].parent
  BY <1>1, <1>2, <1>4, <1>5 DEF NodeMemory, TreeNode
<1>7. Shaped(n, m_root, allocated) /\ \A c \in Maps!Tree!Link : BelowOf(n)[c] = BelowOf(node)[c]
  BY <1>6, SameLinks DEF TreeInv
<1>8. \A c \in allocated : /\ n[c].value \in U /\ node[c].value \in U
  BY <1>1, <1>6 DEF NodeMemory
<1>9. \A c \in allocated : BelowOf(node)[node[c].left] \subseteq allocated /\ BelowOf(node)[node[c].right] \subseteq allocated
                           /\ node[c].left \in Maps!Tree!Link /\ node[c].right \in Maps!Tree!Link
  <2>. TAKE c \in allocated
  <2>1. node[c].left \in allocated \cup {Null} /\ node[c].right \in allocated \cup {Null}
    BY ChildrenAre DEF TreeInv
  <2>2. \A d \in allocated : BelowOf(node)[d] \subseteq allocated
    BY ChildrenAre DEF TreeInv
  <2>3. BelowOf(node)[Null] = {}
    BY BelowIs DEF TreeInv, Shaped
  <2>. QED  BY <1>1, <2>1, <2>2, <2>3 DEF Maps!Tree!Link
<1>10. ASSUME NEW b \in allocated, NEW c \in allocated, Maps!Before(node[b].value, node[c].value)
       PROVE  Maps!Before(n[b].value, n[c].value)
  <2>1. node[b].value \in U /\ node[c].value \in U /\ v \in U /\ node[a].value \in U
    BY <1>8
  <2>2. CASE b = a /\ c = a
    BY <1>10, <2>1, <2>2 DEF Maps!Tree!StrictOrder
  <2>3. CASE b = a /\ c # a
    <3>1. Maps!Before(v, node[c].value)
      BY <1>10, <2>1, <2>3 DEF Maps!Tree!StrictOrder, Alike
    <3>. QED  BY <1>1, <1>6, <2>3, <3>1
  <2>4. CASE b # a /\ c = a
    <3>1. Maps!Before(node[b].value, v)
      BY <1>10, <2>1, <2>4 DEF Maps!Tree!StrictOrder, Alike
    <3>. QED  BY <1>1, <1>6, <2>4, <3>1
  <2>5. CASE b # a /\ c # a
    BY <1>1, <1>6, <1>10, <2>5
  <2>. QED  BY <2>2, <2>3, <2>4, <2>5
<1>11. Sorted(n, allocated)
  <2>1. SUFFICES ASSUME NEW c \in allocated
                 PROVE  /\ \A b \in BelowOf(n)[n[c].left] : Maps!Before(n[b].value, n[c].value)
                        /\ \A b \in BelowOf(n)[n[c].right] : Maps!Before(n[c].value, n[b].value)
    BY DEF Sorted
  <2>2. BelowOf(n)[n[c].left] = BelowOf(node)[node[c].left] /\ BelowOf(n)[n[c].right] = BelowOf(node)[node[c].right]
    BY <1>1, <1>6, <1>7, <1>9
  <2>3. /\ \A b \in BelowOf(node)[node[c].left] : Maps!Before(node[b].value, node[c].value)
        /\ \A b \in BelowOf(node)[node[c].right] : Maps!Before(node[c].value, node[b].value)
    BY DEF TreeInv, Sorted
  <2>. QED  BY <1>9, <1>10, <2>2, <2>3
<1>12. \A b \in allocated \ {a} : ~ Alike(v, node[b].value)
  BY OnlyOne
<1>13. \A b \in allocated \ {a} : n[b].value = node[b].value
  BY <1>1, <1>6
<1>14. ASSUME NEW w PROVE w \in Members(n, allocated) <=> w \in {u \in Members(node, allocated) : ~ Alike(v, u)} \cup {v}
  BY <1>6, <1>12, <1>13 DEF Members
<1>15. Members(n, allocated) = {w \in Members(node, allocated) : ~ Alike(v, w)} \cup {v}
  BY <1>14
<1>16. Gains(Members(n, allocated), Members(node, allocated), v)
  BY <1>15 DEF Gains
<1>17. Gained(n, allocated, a, v)
  BY <1>1, <1>6, <1>13, <1>16 DEF Gained
<1>. QED  BY <1>7, <1>11, <1>17

-----------------------------------------------------------------------------
(* insert() *)

\* A new node that hangs where its value belongs keeps the order.
LEMMA LinkedSorted ==
    ASSUME Maps!Tree!AddressAssumption, TreeInv, NEW U, Maps!Tree!StrictOrder(U), Maps!Entries \subseteq U, NEW v \in Maps!Entries,
           NEW a \in Address \ allocated, NEW p, Vacant(v, p), NEW n, n = Maps!Tree!Linked(node, a, v, p)
    PROVE  /\ Shaped(n, m_root, allocated \cup {a}) /\ Sorted(n, allocated \cup {a})
           /\ Gained(n, allocated \cup {a}, a, v)
<1>1. PICK g : g = BelowOf(node)
  OBVIOUS
<1>2. /\ g \in [Maps!Tree!Link -> SUBSET Address] /\ g[Null] = {}
      /\ \A d \in Address : g[d] = {d} \cup g[node[d].left] \cup g[node[d].right]
      /\ node \in NodeMemory /\ allocated \in SUBSET Address
  BY <1>1, BelowIs DEF TreeInv, Shaped
<1>3. /\ p \in allocated /\ p \in Address /\ p # a
      /\ IF Maps!Before(v, node[p].value) THEN node[p].left = Null ELSE node[p].right = Null
      /\ Belongs(v, p) /\ OnlyIn(v, {})
      /\ ~ Maps!Before(v, node[p].value) => Maps!Before(node[p].value, v)
  BY <1>2 DEF Vacant
<1>4. /\ n[a] = [value |-> v, left |-> Null, right |-> Null, parent |-> p]
      /\ n[p].value = node[p].value /\ n[p].parent = node[p].parent
      /\ IF Maps!Before(v, node[p].value) THEN n[p].left = a /\ n[p].right = node[p].right
         ELSE n[p].left = node[p].left /\ n[p].right = a
      /\ \A b \in Address \ {a, p} : n[b] = node[b]
  BY <1>2, <1>3, LinkedIs
<1>5. /\ Shaped(n, m_root, allocated \cup {a}) /\ BelowOf(n)[a] = {a}
      /\ \A c \in allocated : BelowOf(n)[c] = IF p \in g[c] THEN g[c] \cup {a} ELSE g[c]
  <2>1. Shaped(node, m_root, allocated) /\ a \in Address \ allocated /\ p \in allocated
        /\ IF Maps!Before(v, node[p].value) THEN node[p].left = Null ELSE node[p].right = Null
    BY <1>3 DEF TreeInv
  <2>2. /\ Shaped(n, m_root, allocated \cup {a}) /\ BelowOf(n)[a] = {a}
        /\ \A c \in allocated : BelowOf(n)[c] = IF p \in BelowOf(node)[c] THEN BelowOf(node)[c] \cup {a}
                                                 ELSE BelowOf(node)[c]
    <3>1. Shaped(n, m_root, allocated \cup {a}) /\ LinkedUnder(n, a, p)
      BY <2>1, LinkedBelow
    <3>. QED  BY <3>1 DEF LinkedUnder
  <2>. QED  BY <1>1, <2>2
<1>6. BelowOf(n)[Null] = {}
  BY <1>5, BelowIs DEF Shaped
<1>7. /\ n[a].value = v /\ n[a].left = Null /\ n[a].right = Null
      /\ \A b \in allocated : n[b].value = node[b].value /\ n[b].parent = node[b].parent
  BY <1>2, <1>4
<1>8. \A c \in allocated : /\ node[c].left \in allocated \cup {Null} /\ node[c].right \in allocated \cup {Null}
                           /\ g[c] \subseteq allocated
  BY <1>1, ChildrenAre DEF TreeInv
<1>9. \A d \in allocated \cup {Null} : /\ BelowOf(n)[d] = IF p \in g[d] THEN g[d] \cup {a} ELSE g[d]
                                       /\ g[d] \subseteq allocated
  BY <1>2, <1>5, <1>6, <1>8
<1>10. \A c \in allocated : /\ \A b \in g[node[c].left] : Maps!Before(node[b].value, node[c].value)
                            /\ \A b \in g[node[c].right] : Maps!Before(node[c].value, node[b].value)
                            /\ p \in g[node[c].left] => Maps!Before(v, node[c].value)
                            /\ p \in g[node[c].right] => Maps!Before(node[c].value, v)
  BY <1>1, <1>3 DEF TreeInv, Sorted, Belongs
<1>11. ASSUME NEW c \in allocated \cup {a}
       PROVE  /\ \A b \in BelowOf(n)[n[c].left] : Maps!Before(n[b].value, n[c].value)
              /\ \A b \in BelowOf(n)[n[c].right] : Maps!Before(n[c].value, n[b].value)
  <2>1. CASE c = a
    BY <1>6, <1>7, <2>1
  <2>2. CASE c \in allocated /\ c # p
    <3>1. n[c] = node[c]
      BY <1>2, <1>4, <2>2
    <3>2. BelowOf(n)[n[c].left] \subseteq g[node[c].left] \cup {b \in {a} : p \in g[node[c].left]}
      BY <1>8, <1>9, <2>2, <3>1
    <3>3. BelowOf(n)[n[c].right] \subseteq g[node[c].right] \cup {b \in {a} : p \in g[node[c].right]}
      BY <1>8, <1>9, <2>2, <3>1
    <3>4. g[node[c].left] \subseteq allocated /\ g[node[c].right] \subseteq allocated
      BY <1>8, <1>9, <2>2
    <3>. QED  BY <1>7, <1>10, <2>2, <3>2, <3>3, <3>4
  <2>3. CASE c = p
    <3>1. p \notin g[node[p].left] /\ p \notin g[node[p].right]
      BY <1>1, <1>2, <1>3, NotBelowChild DEF TreeInv, Shaped
    <3>2. BelowOf(n)[node[p].left] = g[node[p].left] /\ BelowOf(n)[node[p].right] = g[node[p].right]
      BY <1>3, <1>8, <1>9, <3>1
    <3>3. g[node[p].left] \subseteq allocated /\ g[node[p].right] \subseteq allocated
      BY <1>3, <1>8, <1>9
    <3>4. CASE Maps!Before(v, node[p].value)
      BY <1>3, <1>4, <1>5, <1>7, <1>10, <2>3, <3>2, <3>3, <3>4
    <3>5. CASE ~ Maps!Before(v, node[p].value)
      BY <1>3, <1>4, <1>5, <1>7, <1>10, <2>3, <3>2, <3>3, <3>5
    <3>. QED  BY <3>4, <3>5
  <2>. QED  BY <2>1, <2>2, <2>3
<1>12. Sorted(n, allocated \cup {a})
  BY <1>11 DEF Sorted
<1>13. \A b \in allocated : ~ Alike(v, node[b].value)
  BY <1>3 DEF OnlyIn, Alike
<1>14. Gains(Members(n, allocated \cup {a}), Members(node, allocated), v)
  BY <1>7, <1>13 DEF Members, Gains
<1>15. Gained(n, allocated \cup {a}, a, v)
  BY <1>7, <1>14 DEF Gained
<1>. QED  BY <1>5, <1>12, <1>15

\* The first node is the root.
LEMMA Planted ==
    ASSUME Maps!Tree!AddressAssumption, node \in NodeMemory, AcyclicIn(node), NEW v \in Maps!Entries, NEW a \in Address,
           NEW n, n = Maps!Tree!Linked(node, a, v, Null)
    PROVE  /\ Shaped(n, a, {a}) /\ Sorted(n, {a})
           /\ n[a].value = v /\ n[a].parent = Null
           /\ Members(n, {a}) = {v}
<1>1. PICK e : e = [value |-> v, left |-> Null, right |-> Null, parent |-> Null]
  OBVIOUS
<1>2. n = [node EXCEPT ![a] = e]
  BY <1>1 DEF Maps!Tree!Linked
<1>3. e \in [value : Maps!Entries, left : Maps!Tree!Link, right : Maps!Tree!Link, parent : Maps!Tree!Link]
  BY <1>1 DEF Maps!Tree!Link
<1>4. n \in NodeMemory /\ n[a] = e /\ \A b \in Address \ {a} : n[b] = node[b]
  BY <1>2, <1>3 DEF NodeMemory
<1>5. n[a].value = v /\ n[a].left = Null /\ n[a].right = Null /\ n[a].parent = Null
  BY <1>1, <1>4
<1>6. AcyclicIn(n)
  <2>1. \A b \in Address \ {a} : /\ n[b].left \in {node[b].left, a}
                                 /\ n[b].right \in {node[b].right, a}
    BY <1>4
  <2>. QED  BY <1>4, <1>5, <2>1, LinkedAcyclic
<1>7. BelowOf(n)[Null] = {} /\ BelowOf(n)[a] = {a}
  BY <1>4, <1>5, <1>6, BelowIs
<1>8. Shaped(n, a, {a})
  BY <1>4, <1>5, <1>6, <1>7 DEF Shaped, Maps!Tree!Link
<1>9. Sorted(n, {a})
  BY <1>5, <1>7 DEF Sorted
<1>10. Members(n, {a}) = {v}
  BY <1>5 DEF Members
<1>. QED  BY <1>5, <1>8, <1>9, <1>10

\* What is counted and owned.
TreeCounted == IsFiniteSet(allocated) /\ treeSize = Cardinality(allocated)

LEMMA FreeNode ==
    ASSUME Maps!Tree!AddressAssumption, allocated \in SUBSET Address, allocated # Address
    PROVE  Maps!Tree!FirstFree \in Address \ allocated
<1>1. Address \ allocated \in SUBSET Nat /\ Address \ allocated # {}
  BY DEF Maps!Tree!AddressAssumption
<1>2. \E a \in Address \ allocated : \A b \in Address \ allocated : a <= b
  <2>. DEFINE T == Address \ allocated
  <2>1. T \in SUBSET Nat /\ T # {}
    BY <1>1
  <2>. HIDE DEF T
  <2>2. \E a \in T : \A b \in T : a <= b
    BY <2>1, Minimum
  <2>. QED  BY <2>2 DEF T
<1>. QED  BY <1>2 DEF Maps!Tree!FirstFree

\* A call puts the value where an equal one was, or adds a node.
LEMMA InsertKeepsTree ==
    ASSUME Maps!Tree!AddressAssumption, TreeInv, TreeCounted, NEW U, Maps!Tree!StrictOrder(U), Maps!Entries \subseteq U,
           NEW v \in Maps!Entries, Maps!Tree!Insert(v)
    PROVE  /\ TreeInv' /\ TreeCounted'
           /\ Gains(Members(node', allocated'), Members(node, allocated), v)
           /\ allocated \subseteq allocated'
           /\ Maps!Tree!Found(v).node = Null \/ (Maps!Tree!Found(v).node \in allocated /\ Alike(v, node[Maps!Tree!Found(v).node].value))
           /\ \A a \in allocated : node'[a].value = IF a = Maps!Tree!Found(v).node THEN v ELSE node[a].value
           /\ Maps!Tree!RootIsOnTop => Maps!Tree!RootIsOnTop'
<1>1. PICK spot : spot = Maps!Tree!Found(v)
  OBVIOUS
<1>2. v \in U
  OBVIOUS
<1>3. IF m_root = Null THEN spot = [node |-> Null, parent |-> Null] ELSE FoundAt(v, spot)
  BY <1>1, <1>2, FoundIs
<1>4. /\ node \in NodeMemory /\ AcyclicIn(node) /\ allocated \in SUBSET Address /\ m_root \in Maps!Tree!Link
      /\ BelowOf(node)[m_root] = allocated /\ Null \notin Address
  BY DEF TreeInv, Shaped, Maps!Tree!AddressAssumption
<1>5. IF spot.node # Null
      THEN node' = [node EXCEPT ![spot.node].value = v] /\ UNCHANGED <<m_root, treeSize, allocated>>
      ELSE /\ allocated # Address
           /\ node' = Maps!Tree!Linked(node, Maps!Tree!FirstFree, v, spot.parent)
           /\ allocated' = allocated \cup {Maps!Tree!FirstFree}
           /\ m_root' = IF spot.parent = Null THEN Maps!Tree!FirstFree ELSE m_root
           /\ treeSize' = treeSize + 1
  BY <1>1 DEF Maps!Tree!Insert
<1>0. PICK n : n = node'
  OBVIOUS
<1>6. CASE spot.node # Null
  <2>1. m_root # Null /\ FoundAt(v, spot)
    BY <1>3, <1>6
  <2>2. spot.node \in allocated /\ Alike(v, node[spot.node].value)
    BY <1>6, <2>1 DEF FoundAt, Alike
  <2>3. n = [node EXCEPT ![spot.node].value = v] /\ m_root' = m_root /\ treeSize' = treeSize /\ allocated' = allocated
    BY <1>0, <1>5, <1>6
  <2>4. /\ Shaped(n, m_root, allocated) /\ Sorted(n, allocated)
        /\ n[spot.node].value = v /\ \A b \in allocated \ {spot.node} : n[b].value = node[b].value
        /\ \A b \in allocated : n[b].parent = node[b].parent
        /\ Gains(Members(n, allocated), Members(node, allocated), v)
    <3>1. Shaped(n, m_root, allocated) /\ Sorted(n, allocated) /\ Gained(n, allocated, spot.node, v)
      BY <2>2, <2>3, Replaced
    <3>. QED  BY <3>1 DEF Gained
  <2>5. m_root \in allocated
    BY <2>1, Roots DEF TreeInv
  <2>6. TreeInv' /\ TreeCounted'
    BY <1>0, <2>3, <2>4 DEF TreeInv, TreeCounted
  <2>7. Maps!Tree!RootIsOnTop => Maps!Tree!RootIsOnTop'
    BY <1>0, <2>1, <2>3, <2>4, <2>5 DEF Maps!Tree!RootIsOnTop
  <2>8. \A a \in allocated : node'[a].value = IF a = spot.node THEN v ELSE node[a].value
    BY <1>0, <2>4
  <2>. QED  BY <1>0, <1>1, <2>2, <2>3, <2>4, <2>6, <2>7, <2>8
<1>7. CASE spot.node = Null
  <2>1. PICK a : a = Maps!Tree!FirstFree
    OBVIOUS
  <2>2. a \in Address \ allocated /\ a # Null
    BY <1>4, <1>5, <1>7, <2>1, FreeNode
  <2>3. n = Maps!Tree!Linked(node, a, v, spot.parent) /\ allocated' = allocated \cup {a} /\ treeSize' = treeSize + 1
        /\ m_root' = IF spot.parent = Null THEN a ELSE m_root
    BY <1>0, <1>5, <1>7, <2>1
  <2>4. TreeCounted'
    <3>1. IsFiniteSet(allocated') /\ Cardinality(allocated') = Cardinality(allocated) + 1
      BY <2>2, <2>3, FS_AddElement DEF TreeCounted
    <3>. QED  BY <2>3, <3>1 DEF TreeCounted
  <2>5. CASE m_root = Null
    <3>1. allocated = {} /\ spot.parent = Null
      BY <1>3, <2>5, Roots DEF TreeInv
    <3>2. n = Maps!Tree!Linked(node, a, v, Null) /\ allocated' = {a} /\ m_root' = a
      BY <2>3, <3>1
    <3>3. /\ Shaped(n, a, {a}) /\ Sorted(n, {a})
          /\ n[a].value = v /\ n[a].parent = Null
          /\ Members(n, {a}) = {v}
      BY <1>4, <2>2, <3>2, Planted
    <3>4. Gains(Members(n, {a}), Members(node, allocated), v)
      BY <3>1, <3>3 DEF Members, Gains
    <3>5. TreeInv' /\ Maps!Tree!RootIsOnTop'
      BY <1>0, <3>2, <3>3 DEF TreeInv, Maps!Tree!RootIsOnTop
    <3>. QED  BY <1>0, <1>1, <1>7, <2>4, <3>1, <3>2, <3>3, <3>4, <3>5
  <2>6. CASE m_root # Null
    <3>1. Vacant(v, spot.parent)
      BY <1>3, <1>7, <2>6 DEF FoundAt
    <3>2. m_root' = m_root /\ m_root \in allocated
      BY <1>4, <2>3, <2>6, <3>1, Roots DEF Vacant, TreeInv
    <3>3. /\ Shaped(n, m_root, allocated \cup {a}) /\ Sorted(n, allocated \cup {a})
          /\ n[a].value = v /\ \A b \in allocated : n[b].value = node[b].value
          /\ \A b \in allocated : n[b].parent = node[b].parent
          /\ Gains(Members(n, allocated \cup {a}), Members(node, allocated), v)
      <4>1. /\ Shaped(n, m_root, allocated \cup {a}) /\ Sorted(n, allocated \cup {a})
            /\ Gained(n, allocated \cup {a}, a, v)
        BY <2>2, <2>3, <3>1, LinkedSorted
      <4>. QED  BY <2>2, <4>1 DEF Gained
    <3>4. TreeInv'
      BY <1>0, <2>3, <3>2, <3>3 DEF TreeInv
    <3>5. Maps!Tree!RootIsOnTop => Maps!Tree!RootIsOnTop'
      BY <1>0, <2>6, <3>2, <3>3 DEF Maps!Tree!RootIsOnTop
    <3>6. spot.node \notin allocated
      BY <1>4, <1>7
    <3>. QED  BY <1>0, <1>1, <1>7, <2>3, <2>4, <3>3, <3>4, <3>5, <3>6
  <2>. QED  BY <2>5, <2>6
<1>. QED  BY <1>6, <1>7

-----------------------------------------------------------------------------
(* remove() and clear() *)

Loses(new, old, v) == new = {w \in old : ~ Alike(v, w)}

\* The order, apart from one node.
SortedBut(mem, alloc, x) ==
    \A c \in alloc \ {x} :
        /\ \A b \in BelowOf(mem)[mem[c].left] \ {x} : Maps!Before(mem[b].value, mem[c].value)
        /\ \A b \in BelowOf(mem)[mem[c].right] \ {x} : Maps!Before(mem[c].value, mem[b].value)

\* It is that of the tree without the node.
LEMMA WithoutSorted ==
    ASSUME Maps!Tree!AddressAssumption, NEW mem, NEW root, NEW alloc, Shaped(mem, root, alloc), NEW a \in alloc,
           mem[a].left = Null \/ mem[a].right = Null, NEW p \in Maps!Tree!Link, HangsFrom(mem, root, alloc, a, p),
           NEW n, n = Without(mem, a, p), NEW top, top = IF p = Null THEN OnlyChild(mem, a) ELSE root,
           SortedBut(mem, alloc, a)
    PROVE  /\ Shaped(n, top, alloc \ {a}) /\ Sorted(n, alloc \ {a})
           /\ Members(n, alloc \ {a}) = Members(mem, alloc \ {a})
<1>1. Shaped(n, top, alloc \ {a}) /\ WithoutUnder(n, mem, alloc, a)
  BY WithoutBelow
<1>2. \A b \in Address : n[b].value = mem[b].value
  BY <1>1 DEF WithoutUnder
<1>3. alloc \in SUBSET Address
  BY DEF Shaped
<1>4. \A c \in alloc : /\ BelowOf(mem)[mem[c].left] \subseteq Address
                       /\ BelowOf(mem)[mem[c].right] \subseteq Address
  <2>. TAKE c \in alloc
  <2>1. BelowOf(mem) \in [Maps!Tree!Link -> SUBSET Address] /\ mem \in NodeMemory
    BY BelowIs DEF Shaped
  <2>2. mem[c].left \in Maps!Tree!Link /\ mem[c].right \in Maps!Tree!Link
    BY <1>3, <2>1 DEF NodeMemory
  <2>. QED  BY <2>1, <2>2
<1>5. ASSUME NEW c \in alloc \ {a}
      PROVE  /\ \A b \in BelowOf(n)[n[c].left] : Maps!Before(n[b].value, n[c].value)
             /\ \A b \in BelowOf(n)[n[c].right] : Maps!Before(n[c].value, n[b].value)
  <2>1. /\ BelowOf(n)[n[c].left] = BelowOf(mem)[mem[c].left] \ {a}
        /\ BelowOf(n)[n[c].right] = BelowOf(mem)[mem[c].right] \ {a}
    BY <1>1 DEF WithoutUnder
  <2>2. /\ \A b \in BelowOf(mem)[mem[c].left] \ {a} : Maps!Before(mem[b].value, mem[c].value)
        /\ \A b \in BelowOf(mem)[mem[c].right] \ {a} : Maps!Before(mem[c].value, mem[b].value)
    BY DEF SortedBut
  <2>. QED  BY <1>2, <1>3, <1>4, <2>1, <2>2
<1>6. Sorted(n, alloc \ {a})
  BY <1>5 DEF Sorted
<1>7. Members(n, alloc \ {a}) = Members(mem, alloc \ {a})
  BY <1>2, <1>3 DEF Members
<1>. QED  BY <1>1, <1>6, <1>7

\* The least value of what is on the right of a node can take the place of the node's own.
LEMMA Promoted ==
    ASSUME Maps!Tree!AddressAssumption, TreeInv, NEW U, Maps!Tree!StrictOrder(U), Maps!Entries \subseteq U,
           NEW a \in allocated, node[a].right # Null,
           NEW min, Leftmost(node[a].right, a, min),
           NEW n, n = [node EXCEPT ![a].value = node[min.node].value]
    PROVE  /\ Shaped(n, m_root, allocated) /\ SortedBut(n, allocated, min.node)
           /\ min.node \in allocated /\ n[min.node].left = Null /\ min.parent # Null /\ min.parent \in Maps!Tree!Link
           /\ HangsFrom(n, m_root, allocated, min.node, min.parent)
           /\ Members(n, allocated \ {min.node}) = Members(node, allocated \ {a})
<1>1. PICK g : g = BelowOf(node)
  OBVIOUS
<1>2. /\ g \in [Maps!Tree!Link -> SUBSET Address] /\ g[Null] = {}
      /\ \A d \in Address : g[d] = {d} \cup g[node[d].left] \cup g[node[d].right]
      /\ node \in NodeMemory /\ allocated \in SUBSET Address /\ AcyclicIn(node) /\ m_root \in Maps!Tree!Link
  BY <1>1, BelowIs DEF TreeInv, Shaped
<1>3. PICK m, p : m = min.node /\ p = min.parent
  OBVIOUS
<1>4. /\ m \in g[node[a].right] /\ node[m].left = Null /\ p \in Maps!Tree!Link /\ m \in Maps!Tree!Link
      /\ \A b \in g[node[a].right] \ {m} : Maps!Before(node[m].value, node[b].value)
      /\ (m = node[a].right /\ p = a) \/ (p \in g[node[a].right] /\ node[p].left = m)
  BY <1>1, <1>3 DEF Leftmost, Maps!Tree!Place
<1>5. \A c \in allocated : /\ node[c].left \in allocated \cup {Null} /\ node[c].right \in allocated \cup {Null}
                           /\ g[c] \subseteq allocated /\ c \in Address /\ c # Null
  BY <1>1, ChildrenAre DEF TreeInv
<1>6. \A c \in allocated : g[node[c].left] \subseteq allocated /\ g[node[c].right] \subseteq allocated
                           /\ g[node[c].left] \subseteq g[c] /\ g[node[c].right] \subseteq g[c]
  BY <1>2, <1>5
<1>7. m \in allocated /\ p \in allocated /\ m # a /\ p # Null
  <2>1. a \notin g[node[a].right]
    BY <1>1, <1>2, NotBelowChild
  <2>. QED  BY <1>4, <1>5, <1>6, <2>1
<1>8. PICK x \in TreeNode : x = node[a]
  BY <1>2 DEF NodeMemory, TreeNode
<1>9. PICK y : y = [x EXCEPT !.value = node[m].value]
  OBVIOUS
<1>10. node[m].value \in Maps!Entries
  BY <1>2, <1>7 DEF NodeMemory
<1>11. y \in TreeNode /\ y.value = node[m].value /\ y.left = x.left /\ y.right = x.right /\ y.parent = x.parent
  BY <1>8, <1>9, <1>10 DEF TreeNode
<1>12. n = [node EXCEPT ![a] = y]
  BY <1>3, <1>8, <1>9
<1>13. /\ n \in NodeMemory /\ n[a].value = node[m].value /\ \A b \in Address \ {a} : n[b].value = node[b].value
       /\ \A b \in Address : n[b].left = node[b].left /\ n[b].right = node[b].right /\ n[b].parent = node[b].parent
  BY <1>2, <1>8, <1>11, <1>12 DEF NodeMemory, TreeNode
<1>14. Shaped(n, m_root, allocated) /\ \A c \in Maps!Tree!Link : BelowOf(n)[c] = g[c]
  BY <1>1, <1>13, SameLinks DEF TreeInv
<1>15. \A c \in allocated : node[c].value \in U
  BY <1>2 DEF NodeMemory
<1>16. \A c \in allocated : /\ \A b \in g[node[c].left] : Maps!Before(node[b].value, node[c].value)
                            /\ \A b \in g[node[c].right] : Maps!Before(node[c].value, node[b].value)
  BY <1>1 DEF TreeInv, Sorted
<1>17. ASSUME NEW c \in Maps!Tree!Link, a \in g[c] PROVE m \in g[c]
  BY <1>1, <1>2, <1>4, <1>6, <1>17, BelowTransitive
<1>18. ASSUME NEW c \in allocated \ {m}
       PROVE  /\ \A b \in g[node[c].left] \ {m} : Maps!Before(n[b].value, n[c].value)
              /\ \A b \in g[node[c].right] \ {m} : Maps!Before(n[c].value, n[b].value)
  <2>1. \A b \in allocated \ {a} : n[b].value = node[b].value
    BY <1>5, <1>13
  <2>2. CASE c = a
    <3>1. a \notin g[node[a].right] /\ a \notin g[node[a].left]
      BY <1>1, <1>2, NotBelowChild
    <3>2. ASSUME NEW b \in g[node[a].left] PROVE Maps!Before(node[b].value, node[m].value)
      <4>1. Maps!Before(node[b].value, node[a].value) /\ Maps!Before(node[a].value, node[m].value) /\ b \in allocated
        BY <1>4, <1>6, <1>16
      <4>2. node[b].value \in U /\ node[a].value \in U /\ node[m].value \in U
        BY <1>7, <1>15, <4>1
      <4>. QED  BY <4>1, <4>2 DEF Maps!Tree!StrictOrder
    <3>. QED  BY <1>4, <1>6, <1>13, <2>1, <2>2, <3>1, <3>2
  <2>3. CASE c # a
    <3>1. node[c].left \in Maps!Tree!Link /\ node[c].right \in Maps!Tree!Link
      BY <1>2 DEF NodeMemory
    <3>2. a \in g[node[c].left] => Maps!Before(node[m].value, node[c].value)
      BY <1>16, <1>17, <3>1
    <3>3. a \in g[node[c].right] => Maps!Before(node[c].value, node[m].value)
      BY <1>16, <1>17, <3>1
    <3>4. n[c].value = node[c].value
      BY <2>1, <2>3
    <3>. QED  BY <1>6, <1>13, <1>16, <2>1, <3>2, <3>3, <3>4
  <2>. QED  BY <2>2, <2>3
<1>19. SortedBut(n, allocated, m)
  <2>1. \A c \in allocated : n[c].left = node[c].left /\ n[c].right = node[c].right
                             /\ node[c].left \in Maps!Tree!Link /\ node[c].right \in Maps!Tree!Link
    BY <1>2, <1>13 DEF NodeMemory
  <2>2. \A c \in allocated : BelowOf(n)[n[c].left] = g[node[c].left] /\ BelowOf(n)[n[c].right] = g[node[c].right]
    BY <1>14, <2>1
  <2>. QED  BY <1>18, <2>2 DEF SortedBut
<1>20. n[m].left = Null /\ HangsFrom(n, m_root, allocated, m, p)
  BY <1>2, <1>4, <1>7, <1>13 DEF HangsFrom
<1>21. Members(n, allocated \ {m}) = Members(node, allocated \ {a})
  <2>1. \A b \in allocated \ {a} : n[b].value = node[b].value
    BY <1>5, <1>13
  <2>2. ASSUME NEW w \in Members(n, allocated \ {m}) PROVE w \in Members(node, allocated \ {a})
    BY <1>7, <1>13, <2>1 DEF Members
  <2>3. ASSUME NEW w \in Members(node, allocated \ {a}) PROVE w \in Members(n, allocated \ {m})
    <3>1. PICK b \in allocated \ {a} : w = node[b].value
      BY DEF Members
    <3>2. CASE b = m
      BY <1>7, <1>13, <3>1, <3>2 DEF Members
    <3>3. CASE b # m
      BY <2>1, <3>1, <3>3 DEF Members
    <3>. QED  BY <3>2, <3>3
  <2>. QED  BY <2>2, <2>3
<1>. QED  BY <1>3, <1>4, <1>7, <1>14, <1>19, <1>20, <1>21

LEMMA RemoveKeepsTree ==
    ASSUME Maps!Tree!AddressAssumption, TreeInv, TreeCounted, NEW U, Maps!Tree!StrictOrder(U), Maps!Entries \subseteq U,
           NEW v \in U, Maps!Tree!Remove(v)
    PROVE  TreeInv' /\ TreeCounted' /\ Loses(Members(node', allocated'), Members(node, allocated), v)
<1>1. PICK spot : spot = Maps!Tree!Found(v)
  OBVIOUS
<1>2. IF m_root = Null THEN spot = [node |-> Null, parent |-> Null] ELSE FoundAt(v, spot)
  BY <1>1, FoundIs
<1>3. PICK a : a = spot.node
  OBVIOUS
<1>4. PICK min : min = Maps!Tree!MinInRight(a)
  OBVIOUS
<1>5. PICK n : n = node'
  OBVIOUS
<1>6. /\ node \in NodeMemory /\ AcyclicIn(node) /\ allocated \in SUBSET Address /\ m_root \in Maps!Tree!Link
      /\ BelowOf(node)[m_root] = allocated /\ Null \notin Address
  BY DEF TreeInv, Shaped, Maps!Tree!AddressAssumption
<1>7. IF a = Null THEN UNCHANGED Maps!Tree!tree
      ELSE IF node[a].left = Null \/ node[a].right = Null THEN Maps!Tree!Unlink(node, a, spot.parent)
      ELSE Maps!Tree!Unlink([node EXCEPT ![a].value = node[min.node].value], min.node, min.parent)
  BY <1>1, <1>3, <1>4 DEF Maps!Tree!Remove
<1>8. ASSUME NEW mem, NEW b, NEW p, Maps!Tree!Unlink(mem, b, p)
      PROVE  /\ n = Without(mem, b, p) /\ m_root' = IF p = Null THEN OnlyChild(mem, b) ELSE m_root
             /\ allocated' = allocated \ {b} /\ treeSize' = treeSize - 1
  BY <1>5, <1>8 DEF Maps!Tree!Unlink, Without, OnlyChild
<1>9. CASE a = Null
  <2>1. node' = node /\ m_root' = m_root /\ treeSize' = treeSize /\ allocated' = allocated
    BY <1>7, <1>9 DEF Maps!Tree!tree
  <2>2. TreeInv' /\ TreeCounted'
    BY <2>1 DEF TreeInv, TreeCounted
  <2>3. \A b \in allocated : ~ Alike(v, node[b].value)
    <3>1. CASE m_root = Null
      BY <3>1, Roots DEF TreeInv
    <3>2. CASE m_root # Null
      <4>1. OnlyIn(v, {})
        BY <1>2, <1>3, <1>9, <3>2 DEF FoundAt, Vacant
      <4>. QED  BY <4>1 DEF OnlyIn, Alike
    <3>. QED  BY <3>1, <3>2
  <2>4. Loses(Members(node, allocated), Members(node, allocated), v)
    BY <2>3 DEF Loses, Members
  <2>. QED  BY <2>1, <2>2, <2>4
<1>10. CASE a # Null
  <2>1. FoundAt(v, spot) /\ spot \in Maps!Tree!Place
    BY <1>2, <1>3, <1>10 DEF FoundAt
  <2>2. a \in allocated /\ HangsAt(spot) /\ Alike(v, node[a].value)
    BY <1>3, <1>10, <2>1 DEF FoundAt, Alike
  <2>3. \A b \in allocated \ {a} : ~ Alike(v, node[b].value)
    BY <2>2, OnlyOne
  <2>4. Loses(Members(node, allocated \ {a}), Members(node, allocated), v)
    BY <2>2, <2>3 DEF Loses, Members
  <2>5. ASSUME NEW b \in allocated, allocated' = allocated \ {b}, treeSize' = treeSize - 1 PROVE TreeCounted'
    <3>1. IsFiniteSet(allocated') /\ Cardinality(allocated') = Cardinality(allocated) - 1
      BY <2>5, FS_RemoveElement DEF TreeCounted
    <3>. QED  BY <2>5, <3>1 DEF TreeCounted
  <2>6. CASE node[a].left = Null \/ node[a].right = Null
    <3>1. PICK p \in Maps!Tree!Link : p = spot.parent
      BY <2>1 DEF Maps!Tree!Place
    <3>2. /\ n = Without(node, a, p) /\ m_root' = (IF p = Null THEN OnlyChild(node, a) ELSE m_root)
          /\ allocated' = allocated \ {a} /\ treeSize' = treeSize - 1
      BY <1>7, <1>8, <1>10, <2>6, <3>1
    <3>3. HangsFrom(node, m_root, allocated, a, p)
      BY <1>3, <2>2, <3>1 DEF HangsAt, HangsFrom
    <3>4. SortedBut(node, allocated, a)
      BY DEF TreeInv, Sorted, SortedBut
    <3>5. PICK top : top = IF p = Null THEN OnlyChild(node, a) ELSE m_root
      OBVIOUS
    <3>6. /\ Shaped(n, top, allocated \ {a}) /\ Sorted(n, allocated \ {a})
          /\ Members(n, allocated \ {a}) = Members(node, allocated \ {a})
      BY <2>2, <2>6, <3>2, <3>3, <3>4, <3>5, WithoutSorted DEF TreeInv
    <3>7. TreeInv'
      BY <1>5, <3>2, <3>5, <3>6 DEF TreeInv
    <3>. QED  BY <1>5, <2>2, <2>4, <2>5, <3>2, <3>6, <3>7
  <2>7. CASE ~ (node[a].left = Null \/ node[a].right = Null)
    <3>1. PICK mem : mem = [node EXCEPT ![a].value = node[min.node].value]
      OBVIOUS
    <3>2. Leftmost(node[a].right, a, min)
      <4>1. node[a].right \in allocated /\ a \in Maps!Tree!Link
        BY <1>6, <2>2, <2>7, ChildrenAre DEF TreeInv, Maps!Tree!Link
      <4>2. IF node[a].right = Null THEN Maps!Tree!Min(node[a].right, a) = [node |-> Null, parent |-> a]
            ELSE Leftmost(node[a].right, a, Maps!Tree!Min(node[a].right, a))
        BY <4>1, MinIs
      <4>. QED  BY <1>4, <2>7, <4>2 DEF Maps!Tree!MinInRight
    <3>3. /\ Shaped(mem, m_root, allocated) /\ SortedBut(mem, allocated, min.node)
          /\ min.node \in allocated /\ mem[min.node].left = Null /\ min.parent # Null /\ min.parent \in Maps!Tree!Link
          /\ HangsFrom(mem, m_root, allocated, min.node, min.parent)
          /\ Members(mem, allocated \ {min.node}) = Members(node, allocated \ {a})
      BY <2>2, <2>7, <3>1, <3>2, Promoted
    <3>4. PICK m, p : m = min.node /\ p = min.parent
      OBVIOUS
    <3>5. /\ n = Without(mem, m, p) /\ m_root' = (IF p = Null THEN OnlyChild(mem, m) ELSE m_root)
          /\ allocated' = allocated \ {m} /\ treeSize' = treeSize - 1
      BY <1>7, <1>8, <1>10, <2>7, <3>1, <3>4
    <3>6. /\ Shaped(n, m_root, allocated \ {m}) /\ Sorted(n, allocated \ {m})
          /\ Members(n, allocated \ {m}) = Members(mem, allocated \ {m})
      <4>1. PICK top : top = IF p = Null THEN OnlyChild(mem, m) ELSE m_root
        OBVIOUS
      <4>2. top = m_root
        BY <3>3, <3>4, <4>1
      <4>3. /\ Shaped(n, top, allocated \ {m}) /\ Sorted(n, allocated \ {m})
            /\ Members(n, allocated \ {m}) = Members(mem, allocated \ {m})
        BY <3>3, <3>4, <3>5, <4>1, WithoutSorted
      <4>. QED  BY <4>2, <4>3
    <3>7. m_root' = m_root
      BY <3>3, <3>4, <3>5
    <3>8. TreeInv'
      BY <1>5, <3>5, <3>6, <3>7 DEF TreeInv
    <3>. QED  BY <1>5, <2>4, <2>5, <3>3, <3>4, <3>5, <3>6, <3>8
  <2>. QED  BY <2>6, <2>7
<1>. QED  BY <1>9, <1>10

LEMMA ClearKeepsTree ==
    ASSUME Maps!Tree!AddressAssumption, TreeInv, Maps!Tree!Clear
    PROVE  TreeInv' /\ TreeCounted' /\ Members(node', allocated') = {}
<1>1. node' = node /\ m_root' = Null /\ treeSize' = 0 /\ allocated' = {}
  BY DEF Maps!Tree!Clear
<1>2. Shaped(node, Null, {}) /\ Sorted(node, {})
  <2>1. node \in NodeMemory /\ AcyclicIn(node)
    BY DEF TreeInv, Shaped
  <2>. QED  BY <2>1, BelowIs DEF Shaped, Sorted, Maps!Tree!Link
<1>3. TreeInv'
  BY <1>1, <1>2 DEF TreeInv
<1>4. TreeCounted'
  BY <1>1, FS_EmptySet DEF TreeCounted
<1>. QED  BY <1>1, <1>3, <1>4 DEF Members

-----------------------------------------------------------------------------
(* The iterator *)

\* Who is not below a node is before all that is, or after it.
LEMMA Aside ==
    ASSUME Maps!Tree!AddressAssumption, TreeInv, NEW U, Maps!Tree!StrictOrder(U), Maps!Entries \subseteq U,
           NEW c \in allocated, NEW b \in allocated, b \notin BelowOf(node)[c]
    PROVE  \/ \A d \in BelowOf(node)[c] : Maps!Before(node[d].value, node[b].value)
           \/ \A d \in BelowOf(node)[c] : Maps!Before(node[b].value, node[d].value)
<1>1. PICK g : g = BelowOf(node)
  OBVIOUS
<1>2. /\ g \in [Maps!Tree!Link -> SUBSET Address] /\ g[Null] = {}
      /\ \A d \in Address : g[d] = {d} \cup g[node[d].left] \cup g[node[d].right]
      /\ node \in NodeMemory /\ allocated \in SUBSET Address /\ AcyclicIn(node) /\ g[m_root] = allocated
  BY <1>1, BelowIs DEF TreeInv, Shaped
<1>3. \A d \in allocated : /\ node[d].left \in allocated \cup {Null} /\ node[d].right \in allocated \cup {Null}
                           /\ g[d] \subseteq allocated /\ d \in Address
  BY <1>1, ChildrenAre DEF TreeInv
<1>. DEFINE S == {r \in allocated : c \in g[r] /\ b \in g[r]}
<1>4. PICK r \in S : node[r].left \notin S /\ node[r].right \notin S
  <2>1. m_root \in S
    BY <1>2, Roots DEF TreeInv
  <2>2. S \in SUBSET Address
    BY <1>2
  <2>. HIDE DEF S
  <2>. QED  BY <1>2, <2>1, <2>2, Lowest
<1>5. r \in allocated /\ c \in g[r] /\ b \in g[r] /\ r # c
  BY <1>1
<1>6. g[r] = {r} \cup g[node[r].left] \cup g[node[r].right]
  BY <1>2, <1>3, <1>5
<1>7. g[node[r].left] \subseteq allocated /\ g[node[r].right] \subseteq allocated
  BY <1>3, <1>5, <1>6
<1>8. /\ \A x \in g[node[r].left] : Maps!Before(node[x].value, node[r].value)
      /\ \A x \in g[node[r].right] : Maps!Before(node[r].value, node[x].value)
  BY <1>1, <1>5 DEF TreeInv, Sorted
<1>9. node[r].left \in Maps!Tree!Link /\ node[r].right \in Maps!Tree!Link
  BY <1>2, <1>3, <1>5 DEF NodeMemory
<1>10. \A x \in allocated : node[x].value \in U
  BY <1>2 DEF NodeMemory
<1>11. ASSUME NEW s \in Maps!Tree!Link, c \in g[s] PROVE g[c] \subseteq g[s]
  BY <1>1, <1>2, <1>11, BelowTransitive
<1>12. CASE c \in g[node[r].left]
  <2>1. g[c] \subseteq g[node[r].left]
    BY <1>9, <1>11, <1>12
  <2>2. b = r \/ b \in g[node[r].right]
    BY <1>2, <1>3, <1>4, <1>5, <1>6, <1>12
  <2>3. ASSUME NEW d \in g[c] PROVE Maps!Before(node[d].value, node[b].value)
    <3>1. d \in allocated /\ Maps!Before(node[d].value, node[r].value)
      BY <1>7, <1>8, <2>1
    <3>2. b \in g[node[r].right] => Maps!Before(node[r].value, node[b].value)
      BY <1>8
    <3>3. node[d].value \in U /\ node[b].value \in U /\ node[r].value \in U
      BY <1>5, <1>10, <3>1
    <3>. QED  BY <2>2, <3>1, <3>2, <3>3 DEF Maps!Tree!StrictOrder
  <2>. QED  BY <1>1, <2>3
<1>13. CASE c \in g[node[r].right]
  <2>1. g[c] \subseteq g[node[r].right]
    BY <1>9, <1>11, <1>13
  <2>2. b = r \/ b \in g[node[r].left]
    BY <1>2, <1>3, <1>4, <1>5, <1>6, <1>13
  <2>3. ASSUME NEW d \in g[c] PROVE Maps!Before(node[b].value, node[d].value)
    <3>1. d \in allocated /\ Maps!Before(node[r].value, node[d].value)
      BY <1>7, <1>8, <2>1
    <3>2. b \in g[node[r].left] => Maps!Before(node[b].value, node[r].value)
      BY <1>8
    <3>3. node[d].value \in U /\ node[b].value \in U /\ node[r].value \in U
      BY <1>5, <1>10, <3>1
    <3>. QED  BY <2>2, <3>1, <3>2, <3>3 DEF Maps!Tree!StrictOrder
  <2>. QED  BY <1>1, <2>3
<1>. QED  BY <1>5, <1>6, <1>12, <1>13

\* Where the iterator is, in terms of BelowOf.
Walks(c, cl, v) ==
    IF c = Null THEN v = Null /\ ~ cl
    ELSE /\ c \in allocated
         /\ IF cl
            THEN /\ \E b \in BelowOf(node)[c] : v = node[b].value
                 /\ \A b \in BelowOf(node)[c] : ~ Maps!Before(v, node[b].value)
            ELSE v = node[c].value

\* The least of some members, or nothing if there are none.
LeastOf(v, members) ==
    IF members = {} THEN v = Null ELSE v \in {w \in members : \A u \in members : ~ Maps!Before(u, w)}

Later(v) == {w \in Members(node, allocated) : Maps!Before(v, w)}

LEMMA BeginIsLeast ==
    ASSUME Maps!Tree!AddressAssumption, TreeInv, NEW U, Maps!Tree!StrictOrder(U), Maps!Entries \subseteq U, Maps!Tree!Begin
    PROVE  Walks(current', climbing', visited') /\ LeastOf(visited', Members(node, allocated))
<1>1. PICK spot : spot = Maps!Tree!Min(m_root, Null)
  OBVIOUS
<1>2. PICK a : a = spot.node
  OBVIOUS
<1>3. current' = a /\ climbing' = FALSE /\ visited' = IF a = Null THEN Null ELSE node[a].value
  BY <1>1, <1>2 DEF Maps!Tree!Begin, Maps!Tree!GoTo
<1>4. m_root \in allocated \cup {Null} /\ Null \in Maps!Tree!Link
  BY Roots DEF TreeInv, Maps!Tree!Link
<1>5. IF m_root = Null THEN spot = [node |-> Null, parent |-> Null] ELSE Leftmost(m_root, Null, spot)
  BY <1>1, <1>4, MinIs
<1>6. BelowOf(node)[m_root] = allocated /\ allocated \in SUBSET Address /\ node \in NodeMemory
  BY DEF TreeInv, Shaped
<1>7. CASE m_root = Null
  <2>1. a = Null /\ allocated = {}
    BY <1>2, <1>5, <1>7, Roots DEF TreeInv
  <2>. QED  BY <1>3, <2>1 DEF Walks, LeastOf, Members
<1>8. CASE m_root # Null
  <2>1. a \in allocated /\ \A b \in allocated \ {a} : Maps!Before(node[a].value, node[b].value)
    BY <1>2, <1>5, <1>6, <1>8 DEF Leftmost
  <2>2. a # Null
    BY <1>6, <2>1 DEF Maps!Tree!AddressAssumption
  <2>3. \A b \in allocated : node[b].value \in U
    BY <1>6 DEF NodeMemory
  <2>4. ASSUME NEW b \in allocated PROVE ~ Maps!Before(node[b].value, node[a].value)
    <3>1. node[a].value \in U /\ node[b].value \in U
      BY <2>1, <2>3
    <3>2. b = a \/ Maps!Before(node[a].value, node[b].value)
      BY <2>1
    <3>. QED  BY <3>1, <3>2 DEF Maps!Tree!StrictOrder
  <2>. QED  BY <1>3, <2>1, <2>2, <2>4 DEF Walks, LeastOf, Members
<1>. QED  BY <1>7, <1>8

LEMMA DescendIsNext ==
    ASSUME Maps!Tree!AddressAssumption, TreeInv, NEW U, Maps!Tree!StrictOrder(U), Maps!Entries \subseteq U,
           Walks(current, climbing, visited), Maps!Tree!Descend
    PROVE  Walks(current', climbing', visited') /\ LeastOf(visited', Later(visited))
<1>1. PICK g : g = BelowOf(node)
  OBVIOUS
<1>2. /\ g \in [Maps!Tree!Link -> SUBSET Address] /\ g[Null] = {}
      /\ \A d \in Address : g[d] = {d} \cup g[node[d].left] \cup g[node[d].right]
      /\ node \in NodeMemory /\ allocated \in SUBSET Address
  BY <1>1, BelowIs DEF TreeInv, Shaped
<1>3. PICK c : c = current
  OBVIOUS
<1>4. c \in allocated /\ c \in Address /\ visited = node[c].value /\ node[c].right # Null
  BY <1>2, <1>3 DEF Walks, Maps!Tree!Descend
<1>5. PICK spot : spot = Maps!Tree!Min(node[c].right, Null)
  OBVIOUS
<1>6. PICK a : a = spot.node
  OBVIOUS
<1>7. current' = a /\ climbing' = FALSE /\ visited' = IF a = Null THEN Null ELSE node[a].value
  BY <1>3, <1>5, <1>6 DEF Maps!Tree!Descend, Maps!Tree!GoTo
<1>8. node[c].right \in allocated
  BY <1>4, ChildrenAre DEF TreeInv
<1>9. Leftmost(node[c].right, Null, spot)
  <2>1. IF node[c].right = Null THEN spot = [node |-> Null, parent |-> Null]
        ELSE Leftmost(node[c].right, Null, spot)
    <3>1. Null \in Maps!Tree!Link /\ node[c].right \in allocated \cup {Null}
      BY <1>8 DEF Maps!Tree!Link
    <3>. QED  BY <1>5, <3>1, MinIs
  <2>. QED  BY <1>4, <2>1
<1>10. a \in g[node[c].right] /\ \A b \in g[node[c].right] \ {a} : Maps!Before(node[a].value, node[b].value)
  BY <1>1, <1>6, <1>9 DEF Leftmost
<1>11. g[node[c].right] \subseteq allocated /\ g[c] = {c} \cup g[node[c].left] \cup g[node[c].right]
       /\ g[c] \subseteq allocated
  BY <1>1, <1>2, <1>4, <1>8, ChildrenAre DEF TreeInv
<1>12. a \in allocated /\ a # Null /\ a \in g[c] /\ c \in g[c]
  BY <1>2, <1>10, <1>11 DEF Maps!Tree!AddressAssumption
<1>13. Maps!Before(node[c].value, node[a].value)
  BY <1>1, <1>4, <1>10 DEF TreeInv, Sorted
<1>14. \A b \in allocated : node[b].value \in U
  BY <1>2 DEF NodeMemory
<1>15. ASSUME NEW b \in allocated, Maps!Before(node[c].value, node[b].value)
       PROVE  ~ Maps!Before(node[b].value, node[a].value)
  <2>1. node[a].value \in U /\ node[b].value \in U /\ node[c].value \in U
    BY <1>4, <1>12, <1>14
  <2>2. CASE b \in g[node[c].right]
    BY <1>10, <2>1, <2>2 DEF Maps!Tree!StrictOrder
  <2>3. CASE b = c
    BY <1>15, <2>1, <2>3 DEF Maps!Tree!StrictOrder
  <2>4. CASE b \in g[node[c].left]
    <3>1. Maps!Before(node[b].value, node[c].value)
      BY <1>1, <1>4, <2>4 DEF TreeInv, Sorted
    <3>. QED  BY <1>15, <2>1, <3>1 DEF Maps!Tree!StrictOrder
  <2>5. CASE b \notin g[c]
    <3>1. \/ \A d \in g[c] : Maps!Before(node[d].value, node[b].value)
          \/ \A d \in g[c] : Maps!Before(node[b].value, node[d].value)
      BY <1>1, <1>4, <2>5, Aside
    <3>2. Maps!Before(node[a].value, node[b].value) \/ Maps!Before(node[b].value, node[c].value)
      BY <1>12, <3>1
    <3>. QED  BY <1>15, <2>1, <3>2 DEF Maps!Tree!StrictOrder
  <2>. QED  BY <1>11, <2>2, <2>3, <2>4, <2>5
<1>16. LeastOf(node[a].value, Later(visited))
  <2>1. node[a].value \in Later(visited)
    BY <1>4, <1>12, <1>13 DEF Later, Members
  <2>2. \A w \in Later(visited) : ~ Maps!Before(w, node[a].value)
    BY <1>4, <1>15 DEF Later, Members
  <2>. QED  BY <2>1, <2>2 DEF LeastOf
<1>. QED  BY <1>7, <1>12, <1>16 DEF Walks

\* The iterator has left behind what is below its node, once it climbs.
LEMMA Behind ==
    ASSUME Maps!Tree!AddressAssumption, TreeInv, NEW U, Maps!Tree!StrictOrder(U), Maps!Entries \subseteq U,
           Walks(current, climbing, visited), current # Null, climbing \/ node[current].right = Null
    PROVE  /\ current \in allocated
           /\ \E b \in BelowOf(node)[current] : visited = node[b].value
           /\ \A b \in BelowOf(node)[current] : ~ Maps!Before(visited, node[b].value)
<1>1. CASE climbing
  BY <1>1 DEF Walks
<1>2. CASE ~ climbing
  <2>1. PICK g, c : g = BelowOf(node) /\ c = current
    OBVIOUS
  <2>2. c \in allocated /\ visited = node[c].value /\ node[c].right = Null
    BY <1>2, <2>1 DEF Walks
  <2>3. g[Null] = {} /\ g[c] = {c} \cup g[node[c].left] \cup g[node[c].right] /\ node \in NodeMemory
        /\ allocated \in SUBSET Address
    BY <2>1, <2>2, BelowIs DEF TreeInv, Shaped
  <2>4. g[c] \subseteq allocated
    BY <2>1, <2>2, ChildrenAre DEF TreeInv
  <2>5. \A b \in allocated : node[b].value \in U
    BY <2>3 DEF NodeMemory
  <2>6. ASSUME NEW b \in g[c] PROVE ~ Maps!Before(visited, node[b].value)
    <3>1. node[b].value \in U /\ node[c].value \in U
      BY <2>2, <2>4, <2>5
    <3>2. b # c => Maps!Before(node[b].value, node[c].value)
      BY <2>1, <2>2, <2>3 DEF TreeInv, Sorted
    <3>. QED  BY <2>2, <3>1, <3>2 DEF Maps!Tree!StrictOrder
  <2>. QED  BY <2>1, <2>2, <2>3, <2>6
<1>. QED  BY <1>1, <1>2

LEMMA ClimbIsNext ==
    ASSUME Maps!Tree!AddressAssumption, TreeInv, NEW U, Maps!Tree!StrictOrder(U), Maps!Entries \subseteq U, Maps!Tree!RootIsOnTop,
           Walks(current, climbing, visited), Maps!Tree!Climb
    PROVE  /\ Walks(current', climbing', visited')
           /\ visited' = visited \/ LeastOf(visited', Later(visited))
<1>1. PICK g : g = BelowOf(node)
  OBVIOUS
<1>2. /\ g \in [Maps!Tree!Link -> SUBSET Address] /\ g[Null] = {}
      /\ \A d \in Address : g[d] = {d} \cup g[node[d].left] \cup g[node[d].right]
      /\ node \in NodeMemory /\ allocated \in SUBSET Address /\ g[m_root] = allocated
  BY <1>1, BelowIs DEF TreeInv, Shaped
<1>3. PICK c, p, v : c = current /\ p = node[c].parent /\ v = visited
  OBVIOUS
<1>4. current # Null /\ (climbing \/ node[current].right = Null)
      /\ IF p # Null /\ node[p].left # c THEN Maps!Tree!ClimbOn(p) ELSE Maps!Tree!GoTo(p)
  BY <1>3 DEF Maps!Tree!Climb
<1>5. /\ c \in allocated /\ c \in Address /\ c # Null
      /\ \E b \in g[c] : v = node[b].value
      /\ \A b \in g[c] : ~ Maps!Before(v, node[b].value)
  BY <1>1, <1>2, <1>3, <1>4, Behind DEF Maps!Tree!AddressAssumption
<1>6. PICK x \in g[c] : v = node[x].value
  BY <1>5
<1>7. \A b \in allocated : node[b].value \in U /\ b \in Address /\ b # Null /\ g[b] \subseteq allocated /\ b \in g[b]
  BY <1>1, <1>2, ChildrenAre DEF NodeMemory, TreeInv
<1>8. x \in allocated /\ v \in U
  BY <1>5, <1>6, <1>7
<1>9. c # m_root => p \in allocated /\ (node[p].left = c \/ node[p].right = c)
  <2>1. ASSUME c # m_root PROVE p \in allocated /\ (node[p].left = c \/ node[p].right = c)
    <3>1. c \in BelowOf(node)[m_root] /\ m_root \in allocated \cup {m_root}
      BY <1>1, <1>2, <1>5
    <3>. QED  BY <1>3, <2>1, <3>1, Parents DEF TreeInv
  <2>. QED  BY <2>1
<1>10. c = m_root => p = Null
  BY <1>3, <1>5 DEF Maps!Tree!RootIsOnTop
<1>11. CASE p = Null
  <2>1. c = m_root
    BY <1>7, <1>9, <1>11
  <2>2. current' = Null /\ climbing' = FALSE /\ visited' = Null
    BY <1>4, <1>11 DEF Maps!Tree!GoTo
  <2>3. Later(v) = {}
    BY <1>2, <1>5, <2>1 DEF Later, Members
  <2>. QED  BY <1>3, <2>2, <2>3 DEF Walks, LeastOf
<1>12. CASE p # Null
  <2>1. p \in allocated /\ (node[p].left = c \/ node[p].right = c) /\ p \in Address /\ c # m_root
    BY <1>7, <1>9, <1>10, <1>12
  <2>2. /\ g[p] = {p} \cup g[node[p].left] \cup g[node[p].right] /\ g[p] \subseteq allocated /\ p \in g[p]
        /\ \A b \in g[node[p].left] : Maps!Before(node[b].value, node[p].value)
        /\ \A b \in g[node[p].right] : Maps!Before(node[p].value, node[b].value)
    BY <1>1, <1>2, <1>7, <2>1 DEF TreeInv, Sorted
  <2>3. CASE node[p].left # c
    <3>1. current' = p /\ climbing' = TRUE /\ visited' = v
      BY <1>3, <1>4, <1>12, <2>3 DEF Maps!Tree!ClimbOn
    <3>2. node[p].right = c
      BY <2>1, <2>3
    <3>3. Maps!Before(node[p].value, v)
      BY <1>6, <2>2, <3>2
    <3>4. ASSUME NEW b \in g[p] PROVE ~ Maps!Before(v, node[b].value)
      <4>1. node[b].value \in U /\ node[p].value \in U
        BY <1>7, <2>1, <2>2
      <4>2. CASE b = p
        BY <1>8, <3>3, <4>1, <4>2 DEF Maps!Tree!StrictOrder
      <4>3. CASE b \in g[c]
        BY <1>5, <4>3
      <4>4. CASE b \in g[node[p].left]
        <5>1. Maps!Before(node[b].value, node[p].value)
          BY <2>2, <4>4
        <5>. QED  BY <1>8, <3>3, <4>1, <5>1 DEF Maps!Tree!StrictOrder
      <4>. QED  BY <2>2, <3>2, <4>2, <4>3, <4>4
    <3>5. x \in g[p]
      BY <1>6, <2>2, <3>2
    <3>6. Walks(p, TRUE, v)
      BY <1>1, <1>6, <1>12, <2>1, <3>4, <3>5 DEF Walks
    <3>. QED  BY <1>3, <3>1, <3>6
  <2>4. CASE node[p].left = c
    <3>1. current' = p /\ climbing' = FALSE /\ visited' = node[p].value
      BY <1>4, <1>12, <2>4 DEF Maps!Tree!GoTo
    <3>2. Maps!Before(v, node[p].value)
      BY <1>6, <2>2, <2>4
    <3>3. ASSUME NEW b \in allocated, Maps!Before(v, node[b].value) PROVE ~ Maps!Before(node[b].value, node[p].value)
      <4>1. node[b].value \in U /\ node[p].value \in U
        BY <1>7, <2>1
      <4>2. CASE b = p
        BY <4>1, <4>2 DEF Maps!Tree!StrictOrder
      <4>3. CASE b \in g[c]
        BY <1>5, <3>3, <4>3
      <4>4. CASE b \in g[node[p].right]
        <5>1. Maps!Before(node[p].value, node[b].value)
          BY <2>2, <4>4
        <5>. QED  BY <4>1, <5>1 DEF Maps!Tree!StrictOrder
      <4>5. CASE b \notin g[p]
        <5>1. \/ \A d \in g[p] : Maps!Before(node[d].value, node[b].value)
              \/ \A d \in g[p] : Maps!Before(node[b].value, node[d].value)
          BY <1>1, <2>1, <4>5, Aside
        <5>2. x \in g[p]
          BY <1>6, <2>2, <2>4
        <5>3. Maps!Before(node[p].value, node[b].value) \/ Maps!Before(node[b].value, v)
          BY <1>6, <2>2, <5>1, <5>2
        <5>. QED  BY <1>8, <3>3, <4>1, <5>3 DEF Maps!Tree!StrictOrder
      <4>. QED  BY <2>2, <2>4, <4>2, <4>3, <4>4, <4>5
    <3>4. LeastOf(node[p].value, Later(v))
      <4>1. node[p].value \in Later(v)
        BY <2>1, <3>2 DEF Later, Members
      <4>2. \A w \in Later(v) : ~ Maps!Before(w, node[p].value)
        BY <3>3 DEF Later, Members
      <4>. QED  BY <4>1, <4>2 DEF LeastOf
    <3>5. Walks(p, FALSE, node[p].value)
      BY <1>12, <2>1 DEF Walks
    <3>. QED  BY <1>3, <3>1, <3>4, <3>5
  <2>. QED  BY <2>3, <2>4
<1>. QED  BY <1>11, <1>12

-----------------------------------------------------------------------------
(* The tree and its iterator *)

TreeAndWalk == TreeInv /\ TreeCounted /\ Walks(current, climbing, visited) /\ climbing \in BOOLEAN

LEMMA ReachedIs ==
    /\ TreeInv => Maps!Tree!Reached = allocated
    /\ TreeInv' => Maps!Tree!Reached' = allocated'
<1>1. Maps!Tree!Below = BelowOf(node)
  BY DEF Maps!Tree!Below, BelowOf
<1>2. Maps!Tree!Below' = BelowOf(node')
  BY DEF Maps!Tree!Below, BelowOf
<1>. QED  BY <1>1, <1>2 DEF Maps!Tree!Reached, TreeInv, Shaped

LEMMA SameCount ==
    \A S : Maps!Tree!Cardinality(S) = Cardinality(S) /\ (Maps!Tree!IsFiniteSet(S) <=> IsFiniteSet(S))
  BY DEF Maps!Tree!Cardinality, Cardinality, Maps!Tree!IsFiniteSet, IsFiniteSet

LEMMA InvIs ==
    ASSUME Maps!Tree!AddressAssumption
    PROVE  Maps!Tree!Inv <=> TreeAndWalk
<1>1. Maps!Tree!Below = BelowOf(node) /\ (Maps!Tree!Acyclic <=> AcyclicIn(node))
  BY SameBelow
<1>2. Maps!Tree!WalkInv <=> Walks(current, climbing, visited)
  BY <1>1 DEF Maps!Tree!WalkInv, Walks
<1>3. Maps!Tree!SearchOrder <=> Sorted(node, allocated)
  BY <1>1 DEF Maps!Tree!SearchOrder, Sorted
<1>4. (node \in [Address -> [value : Maps!Entries, left : Maps!Tree!Link, right : Maps!Tree!Link, parent : Maps!Tree!Link]]) <=> node \in NodeMemory
  BY DEF NodeMemory
<1>5. ASSUME Maps!Tree!Inv PROVE TreeAndWalk
  <2>1. /\ node \in NodeMemory /\ m_root \in Maps!Tree!Link /\ climbing \in BOOLEAN
        /\ allocated \in SUBSET Address /\ IsFiniteSet(allocated)
        /\ AcyclicIn(node) /\ BelowOf(node)[m_root] = allocated /\ treeSize = Cardinality(allocated)
    BY <1>1, <1>4, <1>5, SameCount DEF Maps!Tree!Inv, Maps!Tree!TypeOK, Maps!Tree!NothingLeaks, Maps!Tree!Reached
  <2>2. ASSUME NEW a \in allocated
        PROVE  /\ node[a].left # Null => node[node[a].left].parent = a /\ node[a].left # node[a].right
               /\ node[a].right # Null => node[node[a].right].parent = a
    <3>1. a \in Maps!Tree!Reached
      BY <1>5 DEF Maps!Tree!Inv, Maps!Tree!NothingLeaks
    <3>2. "left" \in {"left", "right"} /\ "right" \in {"left", "right"}
      OBVIOUS
    <3>3. \A side \in {"left", "right"} : node[a][side] # Null => node[node[a][side]].parent = a
      BY <1>5, <3>1 DEF Maps!Tree!Inv, Maps!Tree!ParentLinks
    <3>4. node[a]["left"] # Null => node[node[a]["left"]].parent = a
      BY <3>2, <3>3
    <3>5. node[a]["right"] # Null => node[node[a]["right"]].parent = a
      BY <3>2, <3>3
    <3>6. node[a].left # Null => node[a].left # node[a].right
      BY <1>5 DEF Maps!Tree!Inv, Maps!Tree!OneSide
    <3>. QED  BY <3>4, <3>5, <3>6
  <2>3. Shaped(node, m_root, allocated)
    BY <2>1, <2>2 DEF Shaped
  <2>4. Sorted(node, allocated) /\ Walks(current, climbing, visited)
    BY <1>2, <1>3, <1>5 DEF Maps!Tree!Inv
  <2>. QED  BY <2>1, <2>3, <2>4 DEF TreeAndWalk, TreeInv, TreeCounted
<1>6. ASSUME TreeAndWalk PROVE Maps!Tree!Inv
  <2>1. /\ node \in NodeMemory /\ m_root \in Maps!Tree!Link /\ climbing \in BOOLEAN
        /\ allocated \in SUBSET Address /\ IsFiniteSet(allocated)
        /\ AcyclicIn(node) /\ BelowOf(node)[m_root] = allocated /\ treeSize = Cardinality(allocated)
        /\ Sorted(node, allocated) /\ Walks(current, climbing, visited)
    BY <1>6 DEF TreeAndWalk, TreeInv, Shaped, TreeCounted
  <2>2. treeSize \in Nat
    BY <2>1, FS_CardinalityType
  <2>3. current \in Maps!Tree!Link /\ visited \in Maps!Entries \cup {Null}
    <3>1. \A b \in allocated : node[b].value \in Maps!Entries
      BY <2>1 DEF NodeMemory
    <3>2. CASE current = Null
      BY <2>1, <3>2 DEF Walks, Maps!Tree!Link
    <3>3. CASE current # Null
      <4>1. current \in allocated /\ \E b \in BelowOf(node)[current] \cup {current} : visited = node[b].value
        BY <2>1, <3>3 DEF Walks
      <4>2. BelowOf(node)[current] \subseteq allocated
        BY <1>6, <4>1, ChildrenAre DEF TreeAndWalk, TreeInv
      <4>. QED  BY <2>1, <3>1, <4>1, <4>2 DEF Maps!Tree!Link
    <3>. QED  BY <3>2, <3>3
  <2>4. Maps!Tree!TypeOK
    BY <1>4, <2>1, <2>2, <2>3 DEF Maps!Tree!TypeOK
  <2>5. Maps!Tree!NothingLeaks
    BY <1>1, <2>1, SameCount DEF Maps!Tree!NothingLeaks, Maps!Tree!Reached
  <2>6. Maps!Tree!ParentLinks
    <3>1. ASSUME NEW a \in allocated, NEW side \in {"left", "right"}, node[a][side] # Null
          PROVE  node[node[a][side]].parent = a
      <4>1. /\ node[a].left # Null => node[node[a].left].parent = a
            /\ node[a].right # Null => node[node[a].right].parent = a
        BY <1>6 DEF TreeAndWalk, TreeInv, Shaped
      <4>2. CASE side = "left"
        BY <3>1, <4>1, <4>2
      <4>3. CASE side = "right"
        BY <3>1, <4>1, <4>3
      <4>. QED  BY <4>2, <4>3
    <3>2. Maps!Tree!Reached = allocated
      BY <2>5 DEF Maps!Tree!NothingLeaks
    <3>. QED  BY <3>1, <3>2 DEF Maps!Tree!ParentLinks
  <2>7. Maps!Tree!OneSide
    BY <1>6 DEF Maps!Tree!OneSide, TreeAndWalk, TreeInv, Shaped
  <2>. QED  BY <1>1, <1>2, <1>3, <2>1, <2>4, <2>5, <2>6, <2>7, SameCount DEF Maps!Tree!Inv
<1>. QED  BY <1>5, <1>6

LEMMA TreeStarts ==
    ASSUME Maps!Tree!AddressAssumption, Maps!Entries # {}, Maps!Tree!Init
    PROVE  TreeAndWalk /\ Maps!Tree!RootIsOnTop /\ Maps!Tree!Ordered!Init
<1>1. PICK v \in Maps!Entries : v = CHOOSE w \in Maps!Entries : TRUE
  OBVIOUS
<1>2. /\ m_root = Null /\ treeSize = 0 /\ allocated = {} /\ current = Null /\ climbing = FALSE /\ visited = Null
      /\ node = [a \in Address |-> [value |-> v, left |-> Null, right |-> Null, parent |-> Null]]
  BY <1>1 DEF Maps!Tree!Init
<1>3. node \in NodeMemory
  BY <1>2 DEF NodeMemory, Maps!Tree!Link
<1>4. AcyclicIn(node)
  <2>1. ASSUME NEW S \in SUBSET Address, S # {}
        PROVE  \E a \in S : Lefts(node)[a] \notin S /\ Rights(node)[a] \notin S
    <3>1. PICK a : a \in S
      BY <2>1
    <3>2. Lefts(node)[a] = Null /\ Rights(node)[a] = Null
      BY <1>2, <3>1 DEF Lefts, Rights
    <3>3. Null \notin S
      BY DEF Maps!Tree!AddressAssumption
    <3>. QED  BY <3>1, <3>2, <3>3
  <2>. QED  BY <2>1 DEF AcyclicIn, NoCircle
<1>5. BelowOf(node)[Null] = {}
  BY <1>3, <1>4, BelowIs
<1>6. Shaped(node, Null, {}) /\ Sorted(node, {})
  BY <1>3, <1>4, <1>5 DEF Shaped, Sorted, Maps!Tree!Link
<1>7. TreeInv /\ TreeCounted /\ Walks(current, climbing, visited) /\ climbing \in BOOLEAN /\ Maps!Tree!RootIsOnTop
  BY <1>2, <1>6, FS_EmptySet DEF TreeInv, TreeCounted, Walks, Maps!Tree!RootIsOnTop
<1>8. Maps!Tree!Reached = {}
  BY <1>2, <1>7, ReachedIs
<1>. QED  BY <1>2, <1>7, <1>8 DEF TreeAndWalk, Maps!Tree!Ordered!Init

\* The search finds the equal member, if there is one.
LEMMA FoundSays ==
    ASSUME Maps!Tree!AddressAssumption, TreeInv, NEW U, Maps!Tree!StrictOrder(U), Maps!Entries \subseteq U, NEW v \in U
    PROVE  IF Maps!Tree!Found(v).node = Null THEN \A b \in allocated : ~ Alike(v, node[b].value)
           ELSE /\ Maps!Tree!Found(v).node \in allocated /\ Alike(v, node[Maps!Tree!Found(v).node].value)
                /\ \A b \in allocated \ {Maps!Tree!Found(v).node} : ~ Alike(v, node[b].value)
<1>1. PICK spot, a : spot = Maps!Tree!Found(v) /\ a = spot.node
  OBVIOUS
<1>2. IF m_root = Null THEN spot = [node |-> Null, parent |-> Null] ELSE FoundAt(v, spot)
  BY <1>1, FoundIs
<1>3. m_root = Null => allocated = {} /\ a = Null
  BY <1>1, <1>2, Roots DEF TreeInv
<1>4. CASE a = Null
  <2>1. m_root # Null => OnlyIn(v, {})
    BY <1>1, <1>2, <1>4 DEF FoundAt, Vacant
  <2>. QED  BY <1>1, <1>3, <1>4, <2>1 DEF OnlyIn, Alike
<1>5. CASE a # Null
  <2>1. a \in allocated /\ Alike(v, node[a].value)
    BY <1>1, <1>2, <1>3, <1>5 DEF FoundAt, Alike
  <2>. QED  BY <1>1, <1>5, <2>1, OnlyOne
<1>. QED  BY <1>4, <1>5

LEMMA Inserts ==
    ASSUME Maps!Tree!AddressAssumption, TreeAndWalk, NEW U, Maps!Tree!StrictOrder(U), Maps!Entries \subseteq U, NEW v \in Maps!Entries, Maps!Tree!Insert(v)
    PROVE  TreeAndWalk' /\ (Maps!Tree!RootIsOnTop => Maps!Tree!RootIsOnTop') /\ Maps!Tree!Ordered!Insert(v)
<1>1. TreeInv /\ TreeCounted /\ Walks(current, climbing, visited) /\ climbing \in BOOLEAN
  BY DEF TreeAndWalk
<1>2. PICK a : a = Maps!Tree!Found(v).node
  OBVIOUS
<1>3. /\ TreeInv' /\ TreeCounted'
      /\ Gains(Members(node', allocated'), Members(node, allocated), v)
      /\ allocated \subseteq allocated'
      /\ \A b \in allocated : node'[b].value = IF b = a THEN v ELSE node[b].value
      /\ Maps!Tree!RootIsOnTop => Maps!Tree!RootIsOnTop'
  BY <1>1, <1>2, InsertKeepsTree
<1>4. /\ ~ climbing /\ current' = current /\ climbing' = climbing
      /\ visited' = IF current # Null /\ a = current THEN v ELSE visited
  BY <1>2 DEF Maps!Tree!Insert
<1>5. IF a = Null THEN \A b \in allocated : ~ Alike(v, node[b].value)
      ELSE /\ a \in allocated /\ Alike(v, node[a].value)
           /\ \A b \in allocated \ {a} : ~ Alike(v, node[b].value)
  <2>1. v \in U
    OBVIOUS
  <2>2. PICK x : x = Maps!Tree!Found(v)
    OBVIOUS
  <2>3. IF x.node = Null THEN \A b \in allocated : ~ Alike(v, node[b].value)
        ELSE /\ x.node \in allocated /\ Alike(v, node[x.node].value)
             /\ \A b \in allocated \ {x.node} : ~ Alike(v, node[b].value)
    BY <1>1, <2>1, <2>2, FoundSays
  <2>. QED  BY <1>2, <2>2, <2>3
<1>6. allocated \in SUBSET Address /\ node \in NodeMemory /\ Null \notin Maps!Entries /\ Null \notin Address
  BY <1>1 DEF TreeInv, Shaped, Maps!Tree!AddressAssumption
<1>7. Walks(current, climbing, visited)'
  <2>1. PICK c : c = current
    OBVIOUS
  <2>2. CASE c = Null
    BY <1>1, <1>4, <2>1, <2>2 DEF Walks
  <2>3. CASE c # Null
    <3>1. c \in allocated /\ visited = node[c].value
      BY <1>1, <1>4, <2>1, <2>3 DEF Walks
    <3>2. c \in allocated' /\ visited' = node'[c].value
      BY <1>3, <1>4, <2>1, <2>3, <3>1
    <3>. QED  BY <1>4, <2>1, <2>3, <3>2 DEF Walks
  <2>. QED  BY <2>2, <2>3
<1>8. TreeAndWalk'
  BY <1>1, <1>3, <1>4, <1>7 DEF TreeAndWalk
<1>9. visited' = IF visited # Null /\ Alike(v, visited) THEN v ELSE visited
  <2>1. PICK c : c = current
    OBVIOUS
  <2>2. CASE c = Null
    <3>1. visited = Null
      BY <1>1, <2>1, <2>2 DEF Walks
    <3>. QED  BY <1>4, <2>1, <2>2, <3>1
  <2>3. CASE c # Null
    <3>1. c \in allocated /\ visited = node[c].value
      BY <1>1, <1>4, <2>1, <2>3 DEF Walks
    <3>2. visited # Null
      BY <1>6, <3>1 DEF NodeMemory
    <3>3. (a = c) <=> Alike(v, visited)
      BY <1>5, <1>6, <3>1, <2>3
    <3>. QED  BY <1>4, <2>1, <2>3, <3>2, <3>3
  <2>. QED  BY <2>2, <2>3
<1>10. Maps!Tree!Reached = allocated /\ Maps!Tree!Reached' = allocated'
  BY <1>1, <1>3, ReachedIs
<1>11. Maps!Tree!Ordered!Insert(v)
  <2>1. Members(node', allocated') = {w \in Members(node, allocated) : ~ Alike(v, w)} \cup {v}
    BY <1>3 DEF Gains
  <2>2. Members(node, allocated) = {node[b].value : b \in Maps!Tree!Reached}
    BY <1>10 DEF Members
  <2>3. Members(node', allocated') = {node'[b].value : b \in Maps!Tree!Reached'}
    BY <1>10 DEF Members
  <2>. QED  BY <1>9, <2>1, <2>2, <2>3 DEF Maps!Tree!Ordered!Insert, Maps!Tree!Ordered!Equal, Alike
<1>. QED  BY <1>3, <1>8, <1>11

\* A value is looked up with an equal one.
LEMMA Removes ==
    ASSUME Maps!Tree!AddressAssumption, TreeAndWalk, NEW U, Maps!Tree!StrictOrder(U), Maps!Entries \subseteq U, NEW v \in U, Maps!Tree!Remove(v),
           NEW w \in Maps!Entries, Alike(v, w)
    PROVE  TreeAndWalk' /\ Maps!Tree!Ordered!Remove(w) /\ Loses(Members(node', allocated'), Members(node, allocated), v)
<1>1. TreeInv /\ TreeCounted /\ Walks(current, climbing, visited) /\ climbing \in BOOLEAN
  BY DEF TreeAndWalk
<1>2. TreeInv' /\ TreeCounted' /\ Loses(Members(node', allocated'), Members(node, allocated), v)
  BY <1>1, RemoveKeepsTree
<1>3. current = Null /\ current' = current /\ climbing' = climbing /\ visited' = visited
  BY DEF Maps!Tree!Remove, Maps!Tree!walk
<1>4. visited = Null /\ ~ climbing
  BY <1>1, <1>3 DEF Walks
<1>5. TreeAndWalk'
  BY <1>1, <1>2, <1>3, <1>4 DEF TreeAndWalk, Walks
<1>6. Maps!Tree!Reached = allocated /\ Maps!Tree!Reached' = allocated'
  BY <1>1, <1>2, ReachedIs
<1>7. \A u \in Members(node, allocated) : Alike(v, u) <=> Alike(w, u)
  <2>. TAKE u \in Members(node, allocated)
  <2>1. u \in U /\ v \in U /\ w \in U
    BY <1>1 DEF Members, TreeInv, Shaped, NodeMemory
  <2>. QED  BY <2>1 DEF Maps!Tree!StrictOrder, Alike
<1>8. Maps!Tree!Ordered!Remove(w)
  <2>1. Members(node', allocated') = {u \in Members(node, allocated) : ~ Alike(w, u)}
    BY <1>2, <1>7 DEF Loses
  <2>2. Members(node, allocated) = {node[b].value : b \in Maps!Tree!Reached}
    BY <1>6 DEF Members
  <2>3. Members(node', allocated') = {node'[b].value : b \in Maps!Tree!Reached'}
    BY <1>6 DEF Members
  <2>. QED  BY <1>3, <1>4, <2>1, <2>2, <2>3 DEF Maps!Tree!Ordered!Remove, Maps!Tree!Ordered!Equal, Alike
<1>. QED  BY <1>2, <1>5, <1>8

LEMMA Clears ==
    ASSUME Maps!Tree!AddressAssumption, TreeAndWalk, Maps!Tree!Clear
    PROVE  TreeAndWalk' /\ Maps!Tree!Ordered!Clear
<1>1. TreeInv /\ Walks(current, climbing, visited) /\ climbing \in BOOLEAN
  BY DEF TreeAndWalk
<1>2. TreeInv' /\ TreeCounted' /\ allocated' = {}
  BY <1>1, ClearKeepsTree DEF Maps!Tree!Clear
<1>3. current = Null /\ current' = current /\ climbing' = climbing /\ visited' = visited
  BY DEF Maps!Tree!Clear
<1>4. visited = Null /\ ~ climbing
  BY <1>1, <1>3 DEF Walks
<1>5. TreeAndWalk'
  BY <1>1, <1>2, <1>3, <1>4 DEF TreeAndWalk, Walks
<1>6. Maps!Tree!Reached' = {}
  BY <1>2, ReachedIs
<1>. QED  BY <1>3, <1>4, <1>5, <1>6 DEF Maps!Tree!Ordered!Clear

LEMMA WalksOn ==
    ASSUME Maps!Tree!AddressAssumption, TreeAndWalk, NEW U, Maps!Tree!StrictOrder(U), Maps!Entries \subseteq U, Maps!Tree!RootIsOnTop, Maps!Tree!Walk
    PROVE  TreeAndWalk' /\ Maps!Tree!RootIsOnTop' /\ (Maps!Tree!Ordered!Begin \/ Maps!Tree!Ordered!Advance \/ UNCHANGED Maps!Tree!Ordered!vars)
<1>1. TreeInv /\ TreeCounted /\ Walks(current, climbing, visited) /\ climbing \in BOOLEAN
  BY DEF TreeAndWalk
<1>2. node' = node /\ m_root' = m_root /\ allocated' = allocated /\ treeSize' = treeSize /\ climbing' \in BOOLEAN
  BY DEF Maps!Tree!Walk, Maps!Tree!Begin, Maps!Tree!Descend, Maps!Tree!Climb, Maps!Tree!ClimbOn, Maps!Tree!GoTo, Maps!Tree!tree
<1>3. TreeInv' /\ TreeCounted' /\ Maps!Tree!RootIsOnTop'
  BY <1>1, <1>2 DEF TreeInv, TreeCounted, Maps!Tree!RootIsOnTop
<1>4. Walks(current', climbing', visited') => TreeAndWalk'
  BY <1>2, <1>3 DEF TreeAndWalk, Walks
<1>5. Maps!Tree!Reached = allocated /\ Maps!Tree!Reached' = allocated'
  BY <1>1, <1>3, ReachedIs
<1>6. /\ {node[b].value : b \in Maps!Tree!Reached} = Members(node, allocated)
      /\ {node'[b].value : b \in Maps!Tree!Reached'} = Members(node, allocated)
  BY <1>2, <1>5 DEF Members
<1>7. visited = Null <=> current = Null
  <2>1. current # Null => visited \in Maps!Entries
    <3>1. ASSUME current # Null PROVE visited \in Maps!Entries
      <4>1. current \in allocated /\ \E b \in BelowOf(node)[current] \cup {current} : visited = node[b].value
        BY <1>1, <3>1 DEF Walks
      <4>2. BelowOf(node)[current] \subseteq allocated
        BY <1>1, <4>1, ChildrenAre DEF TreeInv
      <4>3. \A b \in allocated : node[b].value \in Maps!Entries
        BY <1>1 DEF TreeInv, Shaped, NodeMemory
      <4>. QED  BY <4>1, <4>2, <4>3
    <3>. QED  BY <3>1
  <2>. QED  BY <1>1, <2>1 DEF Walks, Maps!Tree!AddressAssumption
<1>8. \A members : LeastOf(visited', members) <=>
          IF members = {} THEN visited' = Null ELSE visited' \in {w \in members : \A u \in members : ~ Maps!Before(u, w)}
  BY DEF LeastOf
<1>9. CASE Maps!Tree!Begin
  <2>1. Walks(current', climbing', visited') /\ LeastOf(visited', Members(node, allocated))
    BY <1>1, <1>9, BeginIsLeast
  <2>2. visited = Null
    BY <1>7, <1>9 DEF Maps!Tree!Begin
  <2>3. Maps!Tree!Ordered!Begin
    BY <1>6, <2>1, <2>2 DEF Maps!Tree!Ordered!Begin, Maps!Tree!Ordered!MovesTo, LeastOf
  <2>. QED  BY <1>3, <1>4, <2>1, <2>3
<1>10. ASSUME LeastOf(visited', Later(visited)), visited # Null PROVE Maps!Tree!Ordered!Advance
  <2>1. {w \in {node[b].value : b \in Maps!Tree!Reached} : Maps!Before(visited, w)} = Later(visited)
    BY <1>6 DEF Later
  <2>. QED  BY <1>6, <1>10, <2>1 DEF Maps!Tree!Ordered!Advance, Maps!Tree!Ordered!MovesTo, LeastOf
<1>11. CASE Maps!Tree!Descend
  <2>1. Walks(current', climbing', visited') /\ LeastOf(visited', Later(visited))
    BY <1>1, <1>11, DescendIsNext
  <2>2. visited # Null
    BY <1>7, <1>11 DEF Maps!Tree!Descend
  <2>. QED  BY <1>3, <1>4, <1>10, <2>1, <2>2
<1>12. CASE Maps!Tree!Climb
  <2>1. Walks(current', climbing', visited') /\ (visited' = visited \/ LeastOf(visited', Later(visited)))
    BY <1>1, <1>12, ClimbIsNext
  <2>2. visited # Null
    BY <1>7, <1>12 DEF Maps!Tree!Climb
  <2>3. visited' = visited => UNCHANGED Maps!Tree!Ordered!vars
    BY <1>6 DEF Maps!Tree!Ordered!vars
  <2>. QED  BY <1>3, <1>4, <1>10, <2>1, <2>2, <2>3
<1>. QED  BY <1>9, <1>11, <1>12 DEF Maps!Tree!Walk

-----------------------------------------------------------------------------
(* The map *)

\* Keys are looked up with nodes that have no value.
LookedUp == {Maps!NodeOf(key, data) : key \in Key, data \in Data \cup {Nothing}}

LEMMA NodeIs ==
    ASSUME NEW key, NEW data
    PROVE  Maps!NodeOf(key, data) = [hash |-> HashOf[key], key |-> key, data |-> data]
  BY DEF Maps!NodeOf, Maps!Hashed, Maps!Entry

LEMMA EntriesAre ==
    ASSUME NEW w \in LookedUp
    PROVE  /\ w = Maps!NodeOf(w.key, w.data) /\ w.key \in Key /\ w.hash = HashOf[w.key]
           /\ w.data \in Data \cup {Nothing}
           /\ w.data \in Data => w \in Maps!Entries
           /\ w \in Maps!Entries => w.data \in Data
<1>1. PICK key \in Key, data \in Data \cup {Nothing} : w = Maps!NodeOf(key, data)
  BY DEF LookedUp
<1>2. w.key = key /\ w.data = data /\ w.hash = HashOf[key]
  BY <1>1, NodeIs
<1>3. ASSUME w \in Maps!Entries PROVE w.data \in Data
  <2>1. PICK k \in Key, d \in Data : w = Maps!NodeOf(k, d)
    BY <1>3 DEF Maps!Entries
  <2>2. w.data = d
    BY <2>1, NodeIs
  <2>. QED  BY <2>2
<1>. QED  BY <1>1, <1>2, <1>3 DEF Maps!Entries

\* They are ordered by the hash and then by the key, so that equal nodes are those with the same key.
LEMMA EntriesOrdered ==
    ASSUME Maps!KeyAssumption, Maps!HashAssumption
    PROVE  /\ Maps!Tree!StrictOrder(LookedUp) /\ Maps!Entries \subseteq LookedUp /\ Maps!Entries # {}
           /\ \A v, w \in LookedUp : Alike(v, w) <=> v.key = w.key
<1>1. \A w \in LookedUp : w.hash \in Nat /\ w.key \in Int /\ w.key \in Key /\ w.hash = HashOf[w.key]
  BY EntriesAre DEF Maps!KeyAssumption, Maps!HashAssumption
<1>2. \A v, w \in LookedUp : Maps!Before(v, w) <=> v.hash < w.hash \/ (v.hash = w.hash /\ v.key < w.key)
  BY DEF Maps!Before
<1>3. Maps!Tree!StrictOrder(LookedUp)
  <2>1. SUFFICES ASSUME NEW u \in LookedUp, NEW v \in LookedUp, NEW w \in LookedUp
                 PROVE  /\ ~ Maps!Before(u, u)
                        /\ Maps!Before(u, v) /\ Maps!Before(v, w) => Maps!Before(u, w)
                        /\ Maps!Before(u, w) => Maps!Before(u, v) \/ Maps!Before(v, w)
    BY DEF Maps!Tree!StrictOrder
  <2>. QED  BY <1>1, <1>2
<1>4. Maps!Entries \subseteq LookedUp
  BY DEF Maps!Entries, LookedUp
<1>5. Maps!Entries # {}
  <2>1. PICK key \in Key, data \in Data : TRUE
    BY DEF Maps!KeyAssumption
  <2>2. Maps!NodeOf(key, data) \in Maps!Entries
    BY DEF Maps!Entries
  <2>. QED  BY <2>2
<1>6. \A v, w \in LookedUp : Alike(v, w) <=> v.key = w.key
  <2>. TAKE v, w \in LookedUp
  <2>1. v.hash \in Nat /\ v.key \in Int /\ w.hash \in Nat /\ w.key \in Int
    BY <1>1
  <2>2. v.key = w.key => v.hash = w.hash
    BY <1>1
  <2>. QED  BY <1>2, <2>1, <2>2 DEF Alike
<1>. QED  BY <1>3, <1>4, <1>5, <1>6

\* The function that some nodes stand for, no two of which have the same key.
AsFunction(S) == [key \in {n.key : n \in S} |-> (CHOOSE n \in S : n.key = key).data]
OneEach(S) == S \subseteq Maps!Entries /\ \A m, n \in S : m.key = n.key => m = n

LEMMA FunctionIs ==
    ASSUME NEW S, OneEach(S), NEW n \in S
    PROVE  n.key \in DOMAIN AsFunction(S) /\ AsFunction(S)[n.key] = n.data
<1>1. n.key \in {m.key : m \in S}
  OBVIOUS
<1>2. (CHOOSE m \in S : m.key = n.key) = n
  BY DEF OneEach
<1>. QED  BY <1>1, <1>2 DEF AsFunction

LEMMA FunctionDomain ==
    ASSUME NEW S, NEW key
    PROVE  key \in DOMAIN AsFunction(S) <=> \E n \in S : n.key = key
  BY DEF AsFunction

\* What set() and remove() do to the function.
MapGains(T, S, key, data) ==
    AsFunction(T) = [k \in DOMAIN AsFunction(S) \cup {key} |->
                       IF k = key THEN data ELSE AsFunction(S)[k]]
MapLoses(T, S, key) == AsFunction(T) = [k \in DOMAIN AsFunction(S) \ {key} |-> AsFunction(S)[k]]

\* Functions are equal where their nodes say the same.
LEMMA FunctionsAgree ==
    ASSUME NEW S, NEW f, NEW E, f = [k \in E |-> f[k]],
           \A k : k \in E <=> k \in DOMAIN AsFunction(S),
           \A k \in E : f[k] = AsFunction(S)[k]
    PROVE  AsFunction(S) = f
<1>1. AsFunction(S) = [k \in DOMAIN AsFunction(S) |-> AsFunction(S)[k]]
  BY DEF AsFunction
<1>2. DOMAIN AsFunction(S) = E
  OBVIOUS
<1>. QED  BY <1>1, <1>2

LEMMA FunctionGains ==
    ASSUME Maps!KeyAssumption, Maps!HashAssumption,
           NEW S, OneEach(S), NEW key \in Key, NEW data \in Data, NEW T, Gains(T, S, Maps!NodeOf(key, data))
    PROVE  OneEach(T) /\ MapGains(T, S, key, data)
<1>1. PICK v : v = Maps!NodeOf(key, data)
  OBVIOUS
<1>2. v \in Maps!Entries /\ v.key = key /\ v.data = data
  BY <1>1, NodeIs DEF Maps!Entries
<1>3. \A w \in S : w \in LookedUp /\ (Alike(v, w) <=> w.key = key)
  BY <1>2, EntriesOrdered DEF OneEach
<1>4. T = {w \in S : w.key # key} \cup {v}
  BY <1>1, <1>3 DEF Gains
<1>5. OneEach(T)
  BY <1>2, <1>4 DEF OneEach
<1>6. PICK E, f : E = DOMAIN AsFunction(S) \cup {key}
                  /\ f = [k \in E |-> IF k = key THEN data ELSE AsFunction(S)[k]]
  OBVIOUS
<1>7. \A k : k \in E <=> k \in DOMAIN AsFunction(T)
  BY <1>2, <1>4, <1>6, FunctionDomain
<1>8. ASSUME NEW k \in E PROVE f[k] = AsFunction(T)[k]
  <2>1. CASE k = key
    BY <1>2, <1>4, <1>5, <1>6, <2>1, FunctionIs
  <2>2. CASE k # key
    <3>1. PICK n \in S : n.key = k
      BY <1>6, <2>2, FunctionDomain
    <3>2. n \in T
      BY <1>4, <2>2, <3>1
    <3>3. AsFunction(S)[k] = n.data /\ AsFunction(T)[k] = n.data
      BY <1>5, <3>1, <3>2, FunctionIs
    <3>. QED  BY <1>6, <2>2, <3>3
  <2>. QED  BY <2>1, <2>2
<1>9. AsFunction(T) = f
  <2>1. f = [k \in E |-> f[k]]
    BY <1>6
  <2>. QED  BY <1>7, <1>8, <2>1, FunctionsAgree
<1>. QED  BY <1>5, <1>6, <1>9 DEF MapGains

LEMMA FunctionLoses ==
    ASSUME Maps!KeyAssumption, Maps!HashAssumption,
           NEW S, OneEach(S), NEW key \in Key, NEW T, Loses(T, S, Maps!NodeOf(key, Nothing))
    PROVE  OneEach(T) /\ MapLoses(T, S, key)
<1>1. PICK v : v = Maps!NodeOf(key, Nothing)
  OBVIOUS
<1>2. v \in LookedUp /\ v.key = key
  BY <1>1, NodeIs DEF LookedUp
<1>3. \A w \in S : w \in LookedUp /\ (Alike(v, w) <=> w.key = key)
  BY <1>2, EntriesOrdered DEF OneEach
<1>4. T = {w \in S : w.key # key}
  BY <1>1, <1>3 DEF Loses
<1>5. OneEach(T)
  BY <1>4 DEF OneEach
<1>6. PICK E, f : E = DOMAIN AsFunction(S) \ {key} /\ f = [k \in E |-> AsFunction(S)[k]]
  OBVIOUS
<1>7. \A k : k \in E <=> k \in DOMAIN AsFunction(T)
  BY <1>4, <1>6, FunctionDomain
<1>8. ASSUME NEW k \in E PROVE f[k] = AsFunction(T)[k]
  <2>1. PICK n \in S : n.key = k /\ k # key
    BY <1>6, FunctionDomain
  <2>2. n \in T
    BY <1>4, <2>1
  <2>3. AsFunction(S)[k] = n.data /\ AsFunction(T)[k] = n.data
    BY <1>5, <2>1, <2>2, FunctionIs
  <2>. QED  BY <1>6, <2>3
<1>9. AsFunction(T) = f
  <2>1. f = [k \in E |-> f[k]]
    BY <1>6
  <2>. QED  BY <1>7, <1>8, <2>1, FunctionsAgree
<1>. QED  BY <1>5, <1>6, <1>9 DEF MapLoses

-----------------------------------------------------------------------------
(* The steps of the map and of its tree *)

TreeAssumption ==
    Maps!KeyAssumption /\ Maps!HashAssumption /\ Maps!NothingAssumption /\ Maps!Tree!AddressAssumption

\* What the tree is a function of.
LEMMA ContentIs ==
    ASSUME TreeAssumption
    PROVE  /\ TreeInv => Maps!Content = Members(node, allocated) /\ OneEach(Members(node, allocated))
           /\ TreeInv' => Maps!Content' = Members(node', allocated')
<1>1. TreeInv => Maps!Content = Members(node, allocated)
  BY ReachedIs DEF Maps!Content, Members
<1>2. TreeInv' => Maps!Content' = Members(node', allocated')
  BY ReachedIs DEF Maps!Content, Members
<1>3. ASSUME TreeInv PROVE OneEach(Members(node, allocated))
  <2>1. node \in NodeMemory /\ allocated \in SUBSET Address
    BY <1>3 DEF TreeInv, Shaped
  <2>2. Members(node, allocated) \subseteq Maps!Entries
    BY <2>1 DEF Members, NodeMemory
  <2>3. ASSUME NEW m \in Members(node, allocated), NEW n \in Members(node, allocated), m.key = n.key
        PROVE  m = n
    <3>1. PICK b \in allocated, d \in allocated : m = node[b].value /\ n = node[d].value
      BY DEF Members
    <3>2. Alike(m, n)
      BY <2>2, <2>3, EntriesOrdered DEF TreeAssumption
    <3>3. ASSUME b # d PROVE FALSE
      <4>1. ~ Alike(node[b].value, node[d].value)
        BY <1>3, <3>3, Distinct, EntriesOrdered DEF TreeAssumption
      <4>. QED  BY <3>1, <3>2, <4>1
    <3>. QED  BY <3>1, <3>3
  <2>. QED  BY <2>2, <2>3 DEF OneEach
<1>. QED  BY <1>1, <1>2, <1>3

\* The function is that of the members.
LEMMA DictionaryIs ==
    /\ Maps!Map!vars = <<AsFunction(Maps!Content), found>>
    /\ Maps!Map!vars' = <<AsFunction(Maps!Content'), found'>>
  BY DEF Maps!Map!vars, AsFunction

LEMMA SetStep ==
    ASSUME TreeAssumption, TreeAndWalk, NEW key \in Key, NEW data \in Data,
           Maps!Tree!Insert(Maps!NodeOf(key, data)), UNCHANGED found
    PROVE  /\ TreeAndWalk' /\ (Maps!Tree!RootIsOnTop => Maps!Tree!RootIsOnTop') /\ current' = current
           /\ Maps!Tree!Ordered!Next /\ Maps!Map!Next
<1>1. PICK v \in Maps!Entries : v = Maps!NodeOf(key, data)
  BY DEF Maps!Entries
<1>2. /\ Maps!Tree!AddressAssumption /\ Maps!KeyAssumption /\ Maps!HashAssumption
      /\ Maps!Tree!StrictOrder(LookedUp) /\ Maps!Entries \subseteq LookedUp
  BY EntriesOrdered DEF TreeAssumption
<1>3. TreeAndWalk' /\ (Maps!Tree!RootIsOnTop => Maps!Tree!RootIsOnTop') /\ Maps!Tree!Ordered!Insert(v)
  BY <1>1, <1>2, Inserts
<1>4. Gains(Members(node', allocated'), Members(node, allocated), v)
  BY <1>1, <1>2, InsertKeepsTree DEF TreeAndWalk
<1>5. /\ Maps!Content = Members(node, allocated) /\ OneEach(Maps!Content)
      /\ Maps!Content' = Members(node', allocated')
  BY <1>3, ContentIs DEF TreeAndWalk
<1>6. PICK S, T : S = Maps!Content /\ T = Maps!Content'
  OBVIOUS
<1>7. MapGains(T, S, key, data)
  <2>1. OneEach(S) /\ Gains(T, S, Maps!NodeOf(key, data))
    BY <1>1, <1>4, <1>5, <1>6
  <2>. QED  BY <1>2, <2>1, FunctionGains
<1>8. Maps!Map!Set(key, data)
  <2>1. [k \in {n.key : n \in Maps!Content} |-> (CHOOSE n \in Maps!Content : n.key = k).data] = AsFunction(S)
    BY <1>6 DEF AsFunction
  <2>2. [k \in {n.key : n \in Maps!Content'} |-> (CHOOSE n \in Maps!Content' : n.key = k).data] = AsFunction(T)
    BY <1>6 DEF AsFunction
  <2>. QED  BY <1>7, <2>1, <2>2 DEF Maps!Map!Set, MapGains
<1>9. current' = current
  BY DEF Maps!Tree!Insert
<1>. QED  BY <1>3, <1>8, <1>9 DEF Maps!Tree!Ordered!Next, Maps!Map!Next

LEMMA RemoveStep ==
    ASSUME TreeAssumption, TreeAndWalk, NEW key \in Key,
           Maps!Tree!Remove(Maps!NodeOf(key, Nothing)), UNCHANGED found
    PROVE  TreeAndWalk' /\ current' = current /\ Maps!Tree!Ordered!Next /\ Maps!Map!Next
<1>1. PICK v \in LookedUp : v = Maps!NodeOf(key, Nothing)
  BY DEF LookedUp
<1>2. /\ Maps!Tree!AddressAssumption /\ Maps!KeyAssumption /\ Maps!HashAssumption
      /\ Maps!Tree!StrictOrder(LookedUp) /\ Maps!Entries \subseteq LookedUp
  BY EntriesOrdered DEF TreeAssumption
<1>3. PICK w \in Maps!Entries : Alike(v, w)
  <2>1. PICK data \in Data : TRUE
    BY DEF TreeAssumption, Maps!KeyAssumption
  <2>2. PICK w \in Maps!Entries : w = Maps!NodeOf(key, data)
    BY DEF Maps!Entries
  <2>3. v.key = key /\ w.key = key
    BY <1>1, <2>2, NodeIs
  <2>4. Alike(v, w)
    BY <1>2, <2>3, EntriesOrdered
  <2>. QED  BY <2>4
<1>4. TreeAndWalk' /\ Maps!Tree!Ordered!Remove(w) /\ Loses(Members(node', allocated'), Members(node, allocated), v)
  BY <1>1, <1>2, <1>3, Removes
<1>5. /\ Maps!Content = Members(node, allocated) /\ OneEach(Maps!Content)
      /\ Maps!Content' = Members(node', allocated')
  BY <1>4, ContentIs DEF TreeAndWalk
<1>6. PICK S, T : S = Maps!Content /\ T = Maps!Content'
  OBVIOUS
<1>7. MapLoses(T, S, key)
  <2>1. OneEach(S) /\ Loses(T, S, Maps!NodeOf(key, Nothing))
    BY <1>1, <1>4, <1>5, <1>6
  <2>. QED  BY <1>2, <2>1, FunctionLoses
<1>8. Maps!Map!Remove(key)
  <2>1. [k \in {n.key : n \in Maps!Content} |-> (CHOOSE n \in Maps!Content : n.key = k).data] = AsFunction(S)
    BY <1>6 DEF AsFunction
  <2>2. [k \in {n.key : n \in Maps!Content'} |-> (CHOOSE n \in Maps!Content' : n.key = k).data] = AsFunction(T)
    BY <1>6 DEF AsFunction
  <2>. QED  BY <1>7, <2>1, <2>2 DEF Maps!Map!Remove, MapLoses
<1>9. current' = current
  BY DEF Maps!Tree!Remove, Maps!Tree!walk
<1>. QED  BY <1>4, <1>8, <1>9 DEF Maps!Tree!Ordered!Next, Maps!Map!Next

\* get() and get_opt() answer with what the function says.
LEMMA GetStep ==
    ASSUME TreeAssumption, TreeAndWalk, NEW key \in Key, Maps!Get(key)
    PROVE  Maps!Map!Next
<1>1. PICK v \in LookedUp : v = Maps!NodeOf(key, Nothing)
  BY DEF LookedUp
<1>2. /\ Maps!Tree!AddressAssumption /\ Maps!KeyAssumption /\ Maps!HashAssumption
      /\ Maps!Tree!StrictOrder(LookedUp) /\ Maps!Entries \subseteq LookedUp
  BY EntriesOrdered DEF TreeAssumption
<1>3. PICK spot, a : spot = Maps!Tree!Found(v) /\ a = spot.node
  OBVIOUS
<1>4. IF a = Null THEN \A b \in allocated : ~ Alike(v, node[b].value)
      ELSE a \in allocated /\ Alike(v, node[a].value)
  <2>1. IF spot.node = Null THEN \A b \in allocated : ~ Alike(v, node[b].value)
        ELSE /\ spot.node \in allocated /\ Alike(v, node[spot.node].value)
             /\ \A b \in allocated \ {spot.node} : ~ Alike(v, node[b].value)
    BY <1>2, <1>3, FoundSays DEF TreeAndWalk
  <2>. QED  BY <1>3, <2>1
<1>5. found' = (IF a = Null THEN Nothing ELSE node[a].value.data) /\ UNCHANGED Maps!tree
  BY <1>1, <1>3 DEF Maps!Get
<1>6. node' = node /\ m_root' = m_root /\ allocated' = allocated
  BY <1>5 DEF Maps!tree
<1>7. Maps!Content = Members(node, allocated) /\ OneEach(Maps!Content)
  BY ContentIs DEF TreeAndWalk
<1>8. Maps!Content' = Maps!Content
  BY <1>6 DEF Maps!Content, Maps!Tree!Reached, Maps!Tree!Below
<1>9. PICK S : S = Maps!Content
  OBVIOUS
<1>10. S \subseteq LookedUp /\ v.key = key
  BY <1>1, <1>2, <1>7, <1>9, NodeIs DEF OneEach
<1>11. found' = IF key \in DOMAIN AsFunction(S) THEN AsFunction(S)[key] ELSE Nothing
  <2>1. CASE a = Null
    <3>1. ASSUME NEW n \in S, n.key = key PROVE FALSE
      <4>1. Alike(v, n)
        BY <1>2, <1>10, <3>1, EntriesOrdered
      <4>. QED  BY <1>4, <1>7, <1>9, <2>1, <4>1 DEF Members
    <3>2. key \notin DOMAIN AsFunction(S)
      BY <3>1, FunctionDomain
    <3>. QED  BY <1>5, <2>1, <3>2
  <2>2. CASE a # Null
    <3>1. PICK n \in S : n = node[a].value
      BY <1>4, <1>7, <1>9, <2>2 DEF Members
    <3>2. n.key = key
      BY <1>2, <1>4, <1>10, <2>2, <3>1, EntriesOrdered
    <3>3. key \in DOMAIN AsFunction(S) /\ AsFunction(S)[key] = n.data
      BY <1>7, <1>9, <3>2, FunctionIs
    <3>. QED  BY <1>5, <2>2, <3>1, <3>3
  <2>. QED  BY <2>1, <2>2
<1>12. Maps!Map!Get(key)
  <2>1. [k \in {n.key : n \in Maps!Content} |-> (CHOOSE n \in Maps!Content : n.key = k).data] = AsFunction(S)
    BY <1>9 DEF AsFunction
  <2>2. [k \in {n.key : n \in Maps!Content'} |-> (CHOOSE n \in Maps!Content' : n.key = k).data] = AsFunction(S)
    BY <1>8, <1>9 DEF AsFunction
  <2>. QED  BY <1>11, <2>1, <2>2 DEF Maps!Map!Get
<1>. QED  BY <1>12 DEF Maps!Map!Next

\* The iterator is not part of the map.
LEMMA SameTree ==
    ASSUME node' = node, m_root' = m_root, visited' = visited, found' = found
    PROVE  UNCHANGED Maps!Tree!Ordered!vars /\ UNCHANGED Maps!Map!vars
<1>1. Maps!Tree!Reached' = Maps!Tree!Reached
  BY DEF Maps!Tree!Reached, Maps!Tree!Below
<1>2. Maps!Content' = Maps!Content
  BY <1>1 DEF Maps!Content
<1>3. UNCHANGED Maps!Map!vars
  BY <1>2, DictionaryIs
<1>4. UNCHANGED Maps!Tree!Ordered!vars
  BY <1>1 DEF Maps!Tree!Ordered!vars
<1>. QED  BY <1>3, <1>4

-----------------------------------------------------------------------------
(* The tree, for the map and for the directories *)

TreesInv ==
    /\ TreeAndWalk
    /\ considered = "tree" => Maps!Tree!RootIsOnTop
    /\ considered = "map" => current = Null

LEMMA TreesInit ==
    ASSUME TreeAssumption, Maps!Init
    PROVE  TreesInv /\ Maps!Tree!Ordered!Init /\ Maps!Map!Init
<1>1. Maps!Tree!Init /\ found = Nothing
  BY DEF Maps!Init
<1>2. TreeAndWalk /\ Maps!Tree!RootIsOnTop /\ Maps!Tree!Ordered!Init
  BY <1>1, TreeStarts, EntriesOrdered DEF TreeAssumption
<1>3. current = Null /\ allocated = {}
  BY <1>1 DEF Maps!Tree!Init
<1>4. Maps!Content = {}
  BY <1>2, <1>3, ContentIs DEF TreeAndWalk, Members
<1>5. Maps!Map!Init
  BY <1>1, <1>4 DEF Maps!Map!Init
<1>. QED  BY <1>2, <1>3, <1>5 DEF TreesInv

LEMMA MappingKeeps ==
    ASSUME TreeAssumption, TreesInv, Mapping, UNCHANGED considered
    PROVE  TreesInv' /\ [Maps!Tree!Ordered!Next]_Maps!Tree!Ordered!vars /\ [Maps!Map!Next]_Maps!Map!vars
<1>1. TreeAndWalk /\ considered = "map" /\ considered' = "map" /\ current = Null
  BY DEF TreesInv, Mapping
<1>2. PICK key \in Key : Maps!Remove(key) \/ Maps!Get(key) \/ \E data \in Data : Maps!Set(key, data)
  BY DEF Mapping, Maps!Next
<1>3. CASE Maps!Remove(key)
  BY <1>1, <1>3, RemoveStep DEF Maps!Remove, TreesInv
<1>4. CASE Maps!Get(key)
  <2>1. Maps!Map!Next
    BY <1>1, <1>4, GetStep
  <2>2. UNCHANGED <<m_root, treeSize, node, allocated, current, climbing, visited>>
    BY <1>4 DEF Maps!Get, Maps!tree
  <2>3. UNCHANGED Maps!Tree!Ordered!vars
    <3>1. Maps!Tree!Reached' = Maps!Tree!Reached
      BY <2>2 DEF Maps!Tree!Reached, Maps!Tree!Below
    <3>. QED  BY <2>2, <3>1 DEF Maps!Tree!Ordered!vars
  <2>4. TreeAndWalk'
    BY <1>1, <2>2 DEF TreeAndWalk, TreeInv, TreeCounted, Walks
  <2>. QED  BY <1>1, <2>1, <2>2, <2>3, <2>4 DEF TreesInv
<1>5. ASSUME NEW data \in Data, Maps!Set(key, data)
      PROVE  TreesInv' /\ Maps!Tree!Ordered!Next /\ Maps!Map!Next
  BY <1>1, <1>5, SetStep DEF Maps!Set, TreesInv
<1>. QED  BY <1>2, <1>3, <1>4, <1>5

LEMMA WalkingKeeps ==
    ASSUME TreeAssumption, TreesInv, Walking, UNCHANGED considered
    PROVE  TreesInv' /\ [Maps!Tree!Ordered!Next]_Maps!Tree!Ordered!vars /\ [Maps!Map!Next]_Maps!Map!vars
<1>1. TreeAndWalk /\ considered = "tree" /\ considered' = "tree" /\ Maps!Tree!RootIsOnTop /\ UNCHANGED found
  BY DEF TreesInv, Walking
<1>2. CASE Maps!Tree!Inserting
  <2>1. PICK v \in Maps!Entries : Maps!Tree!Insert(v)
    BY <1>2 DEF Maps!Tree!Inserting
  <2>2. PICK key \in Key, data \in Data : v = Maps!NodeOf(key, data)
    BY DEF Maps!Entries
  <2>. QED  BY <1>1, <2>1, <2>2, SetStep DEF TreesInv
<1>3. CASE Maps!Tree!Walk
  <2>1. /\ Maps!Tree!AddressAssumption
        /\ Maps!Tree!StrictOrder(LookedUp) /\ Maps!Entries \subseteq LookedUp
    BY EntriesOrdered DEF TreeAssumption
  <2>2. TreeAndWalk' /\ Maps!Tree!RootIsOnTop'
        /\ (Maps!Tree!Ordered!Begin \/ Maps!Tree!Ordered!Advance \/ UNCHANGED Maps!Tree!Ordered!vars)
    BY <1>1, <1>3, <2>1, WalksOn
  <2>3. UNCHANGED <<m_root, node, found>>
    BY <1>1, <1>3 DEF Maps!Tree!Walk, Maps!Tree!Begin, Maps!Tree!Descend, Maps!Tree!Climb,
                      Maps!Tree!ClimbOn, Maps!Tree!GoTo, Maps!Tree!tree
  <2>4. UNCHANGED Maps!Map!vars
    <3>1. Maps!Tree!Reached' = Maps!Tree!Reached
      BY <2>3 DEF Maps!Tree!Reached, Maps!Tree!Below
    <3>2. Maps!Content' = Maps!Content
      BY <2>3, <3>1 DEF Maps!Content
    <3>. QED  BY <2>3, <3>2, DictionaryIs
  <2>. QED  BY <1>1, <2>2, <2>4 DEF TreesInv, Maps!Tree!Ordered!Next
<1>. QED  BY <1>1, <1>2, <1>3 DEF Walking

LEMMA TreesStay ==
    ASSUME TreesInv, UNCHANGED treeVars, UNCHANGED considered
    PROVE  TreesInv' /\ UNCHANGED Maps!Tree!Ordered!vars /\ UNCHANGED Maps!Map!vars
<1>1. UNCHANGED <<m_root, treeSize, node, allocated, current, climbing, visited, found>>
  BY DEF treeVars
<1>2. TreesInv'
  BY <1>1 DEF TreesInv, TreeAndWalk, TreeInv, TreeCounted, Walks, Maps!Tree!RootIsOnTop
<1>. QED  BY <1>1, <1>2, SameTree

-----------------------------------------------------------------------------
(* The run.                                                                *)

\* The components of MCMemory share nothing: what it does is a behaviour of each of them, so
\* that the theorems above hold of what the run checks.
THEOREM RunIsEach ==
    MemorySpec => Spec /\ Memory!Spec /\ Children!Spec
<1>1. MemoryInit => Init /\ Memory!Init /\ Children!Init
  BY DEF MemoryInit
<1>2. [MemoryNext]_<<considered, pageVars, heapVars, treeVars, childVars>>
         => [Next]_vars /\ [Memory!Next]_Memory!vars /\ [Children!Next]_Children!vars
  <2>1. /\ UNCHANGED pageVars => UNCHANGED vars
        /\ UNCHANGED heapVars => UNCHANGED Memory!vars
        /\ UNCHANGED childVars => UNCHANGED Children!vars
    BY DEF pageVars, heapVars, Memory!vars, childVars, Children!vars, Children!queueVars
  <2>. QED  BY <2>1 DEF MemoryNext, Paging, Allocating, Waiting
<1>. QED  BY <1>1, <1>2, PTL DEF MemorySpec, Spec, Memory!Spec, Children!Spec

\* Nothing of the tree is lost, its links lead back and its values are in order; it is a set that
\* the iterator goes through in order, and the map is a function (SortedSet.hpp, HashTable.hpp,
\* HashMap.hpp).
THEOREM TreesAreSetsAndMaps ==
    ASSUME TreeAssumption
    PROVE  MemorySpec => [](Maps!Tree!Inv) /\ ImplementsOrderedSet /\ ImplementsDictionary
<1>1. MemoryInit => TreesInv /\ Maps!Tree!Ordered!Init /\ Maps!Map!Init
  BY TreesInit DEF MemoryInit
<1>2. TreesInv /\ [MemoryNext]_<<considered, pageVars, heapVars, treeVars, childVars>>
         => TreesInv' /\ [Maps!Tree!Ordered!Next]_Maps!Tree!Ordered!vars /\ [Maps!Map!Next]_Maps!Map!vars
  <2>1. SUFFICES ASSUME TreesInv, [MemoryNext]_<<considered, pageVars, heapVars, treeVars, childVars>>
                 PROVE  TreesInv' /\ [Maps!Tree!Ordered!Next]_Maps!Tree!Ordered!vars /\ [Maps!Map!Next]_Maps!Map!vars
    OBVIOUS
  <2>2. UNCHANGED considered /\ (Mapping \/ Walking \/ UNCHANGED treeVars)
    BY <2>1 DEF MemoryNext
  <2>. QED  BY <2>1, <2>2, MappingKeeps, WalkingKeeps, TreesStay
<1>3. TreesInv => Maps!Tree!Inv
  BY InvIs DEF TreesInv, TreeAssumption
<1>. QED  BY <1>1, <1>2, <1>3, PTL DEF MemorySpec, ImplementsOrderedSet, ImplementsDictionary,
              Maps!Tree!ImplementsOrderedSet, Maps!ImplementsDictionary, Maps!Tree!Ordered!Spec, Maps!Map!Spec

\* HashMap implements Dictionary: entries whose keys collide do not take each other's place
\* (HashMap.hpp:18-62, HashTable.hpp:113-132).
THEOREM MapsAreDictionaries ==
    ASSUME TreeAssumption
    PROVE  MemorySpec => ImplementsDictionary
  BY TreesAreSetsAndMaps, PTL

\* Neither a page nor a node is lost or is in two places (PageAllocator.cpp:45-131,
\* SortedSet.hpp:208-347).
THEOREM EverythingIsFound ==
    ASSUME Constants, TreeAssumption
    PROVE  MemorySpec => []NothingIsLost
<1>1. Spec => []NoPageLost
  BY NoPageIsLost
<1>2. MemorySpec => Spec
  BY RunIsEach, PTL
<1>3. MemorySpec => [](Maps!Tree!Inv)
  BY TreesAreSetsAndMaps, PTL
<1>4. NoPageLost /\ Maps!Tree!Inv => NothingIsLost
  BY DEF NothingIsLost
<1>. QED  BY <1>1, <1>2, <1>3, <1>4, PTL
=============================================================================
