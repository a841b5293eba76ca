---------------------------- MODULE DataLemmas -----------------------------
(***************************************************************************)
(* What enqueue() and dequeue() do to the elements of a queue, for the     *)
(* proofs about the modules that keep threads in queues, what those about  *)
(* memory need to know of numbers, those about trees of recursion, and     *)
(* those about pointers of a step that is repeated.                        *)
(***************************************************************************)
EXTENDS Queues, FiniteSets, SequenceTheorems, FunctionTheorems, FiniteSetTheorems,
        WellFoundedInduction, TLAPS

\* enqueue() adds one element to the set of a queue's elements.
LEMMA RangeAppend ==
    ASSUME NEW S, NEW q \in Seq(S), NEW x \in S
    PROVE  /\ Append(q, x) \in Seq(S)
           /\ Range(Append(q, x)) = Range(q) \cup {x}
           /\ Append(q, x) # <<>>
<1>. /\ Append(q, x) \in Seq(S)
     /\ Len(Append(q, x)) = Len(q) + 1
     /\ DOMAIN q = 1..Len(q) /\ DOMAIN Append(q, x) = 1..(Len(q) + 1)
     /\ Len(q) \in Nat
     /\ \A i \in 1..Len(q) : Append(q, x)[i] = q[i]
     /\ Append(q, x)[Len(q) + 1] = x
  OBVIOUS
<1>. QED  BY DEF Range

\* dequeue() takes the head; the other elements are those of the tail.
LEMMA RangeTail ==
    ASSUME NEW S, NEW q \in Seq(S), q # <<>>
    PROVE  /\ Head(q) \in S /\ Tail(q) \in Seq(S)
           /\ Range(q) = Range(Tail(q)) \cup {Head(q)}
<1>. /\ Len(q) \in Nat \ {0}
     /\ DOMAIN q = 1..Len(q) /\ DOMAIN Tail(q) = 1..(Len(q) - 1)
     /\ Head(q) = q[1]
     /\ \A i \in 1..(Len(q) - 1) : Tail(q)[i] = q[i + 1]
  OBVIOUS
<1>1. Head(q) \in S /\ Tail(q) \in Seq(S)
  BY HeadTailProperties
<1>2. Range(q) \subseteq Range(Tail(q)) \cup {Head(q)}
  <2>. SUFFICES ASSUME NEW i \in 1..Len(q)
                PROVE  q[i] \in Range(Tail(q)) \cup {Head(q)}
    BY DEF Range
  <2>1. CASE i = 1
    BY <2>1
  <2>2. CASE i # 1
    <3>1. i - 1 \in 1..(Len(q) - 1) /\ Tail(q)[i - 1] = q[(i - 1) + 1] /\ (i - 1) + 1 = i
      BY <2>2
    <3>. QED  BY <3>1 DEF Range
  <2>. QED  BY <2>1, <2>2
<1>3. Range(Tail(q)) \cup {Head(q)} \subseteq Range(q)
  BY DEF Range
<1>. QED  BY <1>1, <1>2, <1>3

\* enqueue() keeps an element unique unless it adds it a second time.
LEMMA OnceAppend ==
    ASSUME NEW S, NEW q \in Seq(S), NEW x \in S, NEW t,
           Once(q, t), t # x \/ t \notin Range(q)
    PROVE  Once(Append(q, x), t)
<1>. /\ DOMAIN q = 1..Len(q) /\ DOMAIN Append(q, x) = 1..(Len(q) + 1)
     /\ Len(q) \in Nat
     /\ \A i \in 1..Len(q) : Append(q, x)[i] = q[i]
     /\ Append(q, x)[Len(q) + 1] = x
  OBVIOUS
<1>. QED  BY DEF Once, Range

\* dequeue() keeps elements unique, and takes a unique element away for good.
LEMMA OnceTail ==
    ASSUME NEW S, NEW q \in Seq(S), q # <<>>, NEW t, Once(q, t)
    PROVE  /\ Once(Tail(q), t)
           /\ t = Head(q) => t \notin Range(Tail(q))
<1>. /\ Len(q) \in Nat \ {0}
     /\ DOMAIN q = 1..Len(q) /\ DOMAIN Tail(q) = 1..(Len(q) - 1)
     /\ Head(q) = q[1]
     /\ \A i \in 1..(Len(q) - 1) : Tail(q)[i] = q[i + 1]
  OBVIOUS
<1>1. Once(Tail(q), t)
  <2>. SUFFICES ASSUME NEW i \in 1..(Len(q) - 1), NEW j \in 1..(Len(q) - 1),
                       Tail(q)[i] = t, Tail(q)[j] = t
                PROVE  i = j
    BY DEF Once
  <2>. i + 1 \in 1..Len(q) /\ j + 1 \in 1..Len(q) /\ q[i + 1] = t /\ q[j + 1] = t
    OBVIOUS
  <2>. QED  BY DEF Once
<1>2. ASSUME t = Head(q), t \in Range(Tail(q)) PROVE FALSE
  <2>1. PICK i \in 1..(Len(q) - 1) : Tail(q)[i] = t
    BY <1>2 DEF Range
  <2>. i + 1 \in 1..Len(q) /\ 1 \in 1..Len(q) /\ q[i + 1] = t /\ q[1] = t /\ i + 1 # 1
    BY <1>2, <2>1
  <2>. QED  BY DEF Once
<1>. QED  BY <1>1, <1>2

\* A thread in front of a queue: where it is found and how the queue moves up.
LEMMA FrontOfQueue ==
    ASSUME NEW S, NEW q \in Seq(S), NEW x \in S, NEW y \in S
    PROVE  /\ <<x>> \o q \in Seq(S)
           /\ <<x>> \o q # <<>>
           /\ Head(<<x>> \o q) = x
           /\ Tail(<<x>> \o q) = q
           /\ Range(<<x>> \o q) = {x} \cup Range(q)
           /\ Append(<<x>> \o q, y) = <<x>> \o Append(q, y)
<1>. DEFINE c == <<x>> \o q
<1>1. /\ <<x>> \in Seq(S) /\ Len(<<x>>) = 1 /\ <<x>>[1] = x
      /\ Len(q) \in Nat
  OBVIOUS
<1>2. /\ c \in Seq(S)
      /\ Len(c) = 1 + Len(q)
      /\ \A i \in 1..(1 + Len(q)) : c[i] = IF i <= 1 THEN x ELSE q[i - 1]
  BY <1>1, ConcatProperties
<1>. HIDE DEF c
<1>3. c # <<>> /\ Head(c) = x
  BY <1>1, <1>2
<1>4. Tail(c) = q
  <2>1. Tail(c) \in Seq(S) /\ Len(Tail(c)) = Len(q)
        /\ \A i \in 1..Len(q) : Tail(c)[i] = c[i + 1]
    BY <1>1, <1>2, <1>3, HeadTailProperties
  <2>2. \A i \in 1..Len(q) : c[i + 1] = q[i]
    BY <1>1, <1>2
  <2>. QED  BY <2>1, <2>2, SeqEqual
<1>5. Range(c) = {x} \cup Range(q)
  BY <1>2, <1>3, <1>4, RangeTail
<1>6. Append(c, y) = <<x>> \o Append(q, y)
  <2>1. <<y>> \in Seq(S) /\ Append(q, y) = q \o <<y>> /\ Append(c, y) = c \o <<y>>
    BY <1>2, AppendIsConcat
  <2>2. (<<x>> \o q) \o <<y>> = <<x>> \o (q \o <<y>>)
    BY <1>1, <2>1, ConcatAssociative
  <2>. QED  BY <2>1, <2>2 DEF c
<1>. QED  BY <1>2, <1>3, <1>4, <1>5, <1>6 DEF c

\* A queue is its head in front of its tail.
LEMMA HeadInFront ==
    ASSUME NEW S, NEW q \in Seq(S), q # <<>>
    PROVE  <<Head(q)>> \o Tail(q) = q
<1>1. Len(q) \in Nat \ {0}
  OBVIOUS
<1>2. SubSeq(q, 1, Len(q)) = <<q[1]>> \o SubSeq(q, 2, Len(q))
  <2>1. 1 \in 1..Len(q) /\ Len(q) \in 1..Len(q) /\ 1 + 1 = 2
    BY <1>1
  <2>. QED  BY <2>1, SubSeqRecursiveFirst
<1>3. Tail(q) = SubSeq(q, 2, Len(q))
  BY TailIsSubSeq
<1>4. Head(q) = q[1]
  OBVIOUS
<1>. QED  BY <1>2, <1>3, <1>4, SubSeqFull

-----------------------------------------------------------------------------
(* Numbers *)

\* A set of natural numbers has a least element.
LEMMA Minimum ==
    ASSUME NEW T \in SUBSET Nat, T # {}
    PROVE  \E x \in T : \A y \in T : x <= y
<1>. DEFINE R == {ss \in Nat \X Nat : ss[1] < ss[2]}
<1>1. IsWellFoundedOn(R, Nat)
  BY NatLessThanWellFounded DEF OpToRel
<1>. HIDE DEF R
<1>2. PICK x \in T : \A y \in T : ~ (<<y, x>> \in R)
  BY <1>1, WFMin
<1>3. ASSUME NEW y \in T PROVE x <= y
  <2>1. <<y, x>> \in Nat \X Nat /\ ~ (<<y, x>> \in R)
    BY <1>2
  <2>2. ~ (y < x)
    BY <2>1 DEF R
  <2>. QED  BY <2>2
<1>. QED  BY <1>3

\* A power of two is the number of subsets of a set.
LEMMA PowerOfTwo ==
    ASSUME NEW n \in Nat
    PROVE  2 ^ n \in Nat \ {0}
<1>. DEFINE S == 1..n
<1>1. IsFiniteSet(S) /\ Cardinality(S) = n
  BY FS_Interval
<1>2. IsFiniteSet(SUBSET S) /\ Cardinality(SUBSET S) = 2 ^ n
  BY <1>1, FS_SUBSET
<1>3. Cardinality(SUBSET S) \in Nat
  BY <1>2, FS_CardinalityType
<1>4. Cardinality(SUBSET S) # 0
  <2>. {} \in SUBSET S
    OBVIOUS
  <2>. QED  BY <1>2, FS_EmptySet
<1>. QED  BY <1>2, <1>3, <1>4

\* Half of the subsets hold the last element: a block is twice as large as the half of it.
LEMMA Double ==
    ASSUME NEW n \in Nat
    PROVE  2 ^ (n + 1) = 2 * 2 ^ n
<1>. DEFINE S == 1..n
            T == 1..(n + 1)
            A == SUBSET S
            B == {s \cup {n + 1} : s \in A}
<1>1. /\ IsFiniteSet(S) /\ Cardinality(S) = n
      /\ IsFiniteSet(T) /\ Cardinality(T) = n + 1
  BY FS_Interval
<1>2. /\ IsFiniteSet(A) /\ Cardinality(A) = 2 ^ n
      /\ Cardinality(SUBSET T) = 2 ^ (n + 1)
  BY <1>1, FS_SUBSET
<1>3. SUBSET T = A \cup B
  <2>1. ASSUME NEW t \in SUBSET T PROVE t \in A \cup B
    <3>1. CASE n + 1 \in t
      <4>1. t \ {n + 1} \in A
        OBVIOUS
      <4>2. t = (t \ {n + 1}) \cup {n + 1}
        BY <3>1
      <4>. QED  BY <4>1, <4>2
    <3>2. CASE n + 1 \notin t
      BY <3>2
    <3>. QED  BY <3>1, <3>2
  <2>2. T = S \cup {n + 1}
    OBVIOUS
  <2>3. ASSUME NEW t \in A \cup B PROVE t \in SUBSET T
    BY <2>2
  <2>. QED  BY <2>1, <2>3
<1>4. A \cap B = {}
  <2>. n + 1 \notin S
    OBVIOUS
  <2>. QED  OBVIOUS
<1>5. IsFiniteSet(B) /\ Cardinality(B) = Cardinality(A)
  <2>. DEFINE f == [s \in A |-> s \cup {n + 1}]
  <2>1. f \in Bijection(A, B)
    <3>1. f \in [A -> B]
      OBVIOUS
    <3>2. ASSUME NEW s \in A, NEW u \in A, f[s] = f[u] PROVE s = u
      <4>. /\ n + 1 \notin s /\ n + 1 \notin u
           /\ s \cup {n + 1} = u \cup {n + 1}
        BY <3>2
      <4>. QED  OBVIOUS
    <3>3. \A b \in B : \E s \in A : f[s] = b
      OBVIOUS
    <3>. QED  BY <3>1, <3>2, <3>3, Fun_IsBij
  <2>. QED  BY <2>1, <1>2, FS_Bijection DEF ExistsBijection
<1>6. Cardinality(A \cup B) = Cardinality(A) + Cardinality(B) - Cardinality(A \cap B)
  BY <1>2, <1>5, FS_Union
<1>7. Cardinality(A \cap B) = 0
  BY <1>4, FS_EmptySet
<1>8. 2 ^ n \in Nat
  BY PowerOfTwo
<1>9. Cardinality(A \cup B) = 2 ^ (n + 1)
  BY <1>2, <1>3
<1>. HIDE DEF A, B, S, T
<1>. QED  BY <1>2, <1>5, <1>6, <1>7, <1>8, <1>9

-----------------------------------------------------------------------------
(* Recursion over a tree *)

\* The links of A, left and right, go round in no circle.
NoCircle(A, l, r) == \A S \in SUBSET A : S # {} => \E a \in S : l[a] \notin S /\ r[a] \notin S

\* A function on a part of the tree that is closed under its links.
Solves(h, T, null, l, r, base, step) ==
    /\ h[null] = base
    /\ \A a \in T : /\ l[a] \in T \cup {null} /\ r[a] \in T \cup {null}
                    /\ h[a] = step[<<a, h[l[a]], h[r[a]]>>]

\* There is one such function on what two parts share.
LEMMA SolutionsAgree ==
    ASSUME NEW A, NEW null, NEW l, NEW r, NEW base, NEW step, NoCircle(A, l, r),
           NEW T \in SUBSET A, NEW U \in SUBSET A, NEW h, NEW g,
           Solves(h, T, null, l, r, base, step), Solves(g, U, null, l, r, base, step)
    PROVE  \A a \in T \cap U : h[a] = g[a]
<1>. DEFINE S == {a \in T \cap U : h[a] # g[a]}
<1>1. SUFFICES ASSUME S # {} PROVE FALSE
  OBVIOUS
<1>2. PICK a \in S : l[a] \notin S /\ r[a] \notin S
  <2>1. S \in SUBSET A
    OBVIOUS
  <2>. HIDE DEF S
  <2>. QED  BY <1>1, <2>1 DEF NoCircle
<1>3. h[null] = g[null]
  BY DEF Solves
<1>4. h[l[a]] = g[l[a]] /\ h[r[a]] = g[r[a]]
  BY <1>2, <1>3 DEF Solves
<1>. QED  BY <1>2, <1>4 DEF Solves

\* There is such a function on all of the tree.
LEMMA SolutionExists ==
    ASSUME NEW A, NEW null, null \notin A, NEW l, NEW r, NEW W, NEW base \in W, NEW step,
           \A a \in A : l[a] \in A \cup {null} /\ r[a] \in A \cup {null},
           \A a \in A, x, y \in W : step[<<a, x, y>>] \in W,
           NoCircle(A, l, r)
    PROVE  \E h \in [A \cup {null} -> W] : Solves(h, A, null, l, r, base, step)
<1>. DEFINE Sol(T, h) == T \in SUBSET A /\ h \in [T \cup {null} -> W]
                            /\ Solves(h, T, null, l, r, base, step)
<1>1. \A a \in A : \E T, h : a \in T /\ Sol(T, h)
  <2>. DEFINE S == {a \in A : ~ \E T, h : a \in T /\ Sol(T, h)}
  <2>1. SUFFICES ASSUME S # {} PROVE FALSE
    OBVIOUS
  <2>2. PICK a \in S : l[a] \notin S /\ r[a] \notin S
    <3>1. S \in SUBSET A
      OBVIOUS
    <3>. HIDE DEF S
    <3>. QED  BY <2>1, <3>1 DEF NoCircle
  <2>3. ASSUME NEW c \in A \cup {null}, c \notin S
        PROVE  \E T, h : c \in T \cup {null} /\ Sol(T, h)
    <3>1. CASE c \in A
      BY <2>3, <3>1
    <3>2. CASE c = null
      <4>1. PICK h : h = [x \in {null} |-> base]
        OBVIOUS
      <4>2. h \in [{} \cup {null} -> W] /\ h[null] = base
        BY <4>1
      <4>3. Sol({}, h)
        BY <4>2 DEF Solves
      <4>. QED  BY <3>2, <4>3
    <3>. QED  BY <3>1, <3>2
  <2>4. a \in A /\ l[a] \in A \cup {null} /\ r[a] \in A \cup {null}
    OBVIOUS
  <2>5. PICK T1, h1 : l[a] \in T1 \cup {null} /\ Sol(T1, h1)
    BY <2>2, <2>3, <2>4
  <2>6. PICK T2, h2 : r[a] \in T2 \cup {null} /\ Sol(T2, h2)
    BY <2>2, <2>3, <2>4
  <2>7. a \notin T1 /\ a \notin T2
    BY <2>5, <2>6
  <2>. HIDE DEF S
  <2>8. /\ T1 \in SUBSET A /\ h1 \in [T1 \cup {null} -> W] /\ Solves(h1, T1, null, l, r, base, step)
        /\ T2 \in SUBSET A /\ h2 \in [T2 \cup {null} -> W] /\ Solves(h2, T2, null, l, r, base, step)
    BY <2>5, <2>6
  <2>9. \A x \in T1 \cap T2 : h1[x] = h2[x]
    BY <2>8, SolutionsAgree
  <2>10. h1[null] = base /\ h2[null] = base
    BY <2>8 DEF Solves
  <2>11. PICK T : T = T1 \cup T2 \cup {a}
    OBVIOUS
  <2>12. PICK v : v = step[<<a, h1[l[a]], h2[r[a]]>>]
    OBVIOUS
  <2>13. v \in W
    BY <2>4, <2>5, <2>6, <2>8, <2>12
  <2>14. PICK h : h = [x \in T \cup {null} |->
                         IF x \in T1 \cup {null} THEN h1[x] ELSE IF x \in T2 THEN h2[x] ELSE v]
    OBVIOUS
  <2>15. /\ \A x \in T1 \cup {null} : h[x] = h1[x]
         /\ \A x \in T2 \cup {null} : h[x] = h2[x]
         /\ h[a] = v
    BY <2>4, <2>7, <2>8, <2>9, <2>10, <2>11, <2>14
  <2>16. h \in [T \cup {null} -> W] /\ T \in SUBSET A
    BY <2>4, <2>8, <2>11, <2>13, <2>14
  <2>17. ASSUME NEW x \in T
         PROVE  /\ l[x] \in T \cup {null} /\ r[x] \in T \cup {null}
                /\ h[x] = step[<<x, h[l[x]], h[r[x]]>>]
    <3>1. CASE x = a
      BY <2>5, <2>6, <2>11, <2>12, <2>15, <3>1
    <3>2. CASE x \in T1
      BY <2>8, <2>11, <2>15, <3>2 DEF Solves
    <3>3. CASE x \in T2
      BY <2>8, <2>11, <2>15, <3>3 DEF Solves
    <3>. QED  BY <2>11, <3>1, <3>2, <3>3
  <2>18. Solves(h, T, null, l, r, base, step)
    BY <2>10, <2>15, <2>17 DEF Solves
  <2>19. a \in T /\ Sol(T, h)
    BY <2>11, <2>16, <2>18
  <2>. QED  BY <2>2, <2>19 DEF S
<1>. HIDE DEF Sol
<1>2. \A a \in A : \E y \in W : \A T, h : a \in T /\ Sol(T, h) => h[a] = y
  <2>. TAKE a \in A
  <2>1. PICK T, h : a \in T /\ Sol(T, h)
    BY <1>1
  <2>2. h[a] \in W
    BY <2>1 DEF Sol
  <2>3. ASSUME NEW U, NEW g, a \in U, Sol(U, g) PROVE g[a] = h[a]
    BY <2>1, <2>3, SolutionsAgree DEF Sol
  <2>. QED  BY <2>2, <2>3
<1>. DEFINE Value1(a) == CHOOSE y \in W : \A T, h : a \in T /\ Sol(T, h) => h[a] = y
<1>3. \A a \in A : Value1(a) \in W /\ \A T, h : a \in T /\ Sol(T, h) => h[a] = Value1(a)
  BY <1>2
<1>. HIDE DEF Value1
<1>4. PICK f : f = [x \in A \cup {null} |-> IF x = null THEN base ELSE Value1(x)]
  OBVIOUS
<1>5. f \in [A \cup {null} -> W] /\ f[null] = base /\ \A a \in A : f[a] = Value1(a)
  BY <1>3, <1>4
<1>6. ASSUME NEW a \in A PROVE f[a] = step[<<a, f[l[a]], f[r[a]]>>]
  <2>1. PICK T, h : a \in T /\ Sol(T, h)
    BY <1>1
  <2>2. /\ T \in SUBSET A /\ h[null] = base
        /\ l[a] \in T \cup {null} /\ r[a] \in T \cup {null}
        /\ h[a] = step[<<a, h[l[a]], h[r[a]]>>]
    BY <2>1 DEF Sol, Solves
  <2>3. \A c \in T \cup {null} : f[c] = h[c]
    BY <1>3, <1>5, <2>1, <2>2
  <2>. QED  BY <2>1, <2>2, <2>3
<1>7. Solves(f, A, null, l, r, base, step)
  BY <1>5, <1>6 DEF Solves
<1>. QED  BY <1>5, <1>7

-----------------------------------------------------------------------------
(* Repeating a step *)

\* f goes from base, a step further each time.
Iterates(f, N, W, base, F) == f \in [0 .. N -> W] /\ f[0] = base /\ \A n \in 1 .. N : f[n] = F[f[n - 1]]

\* A function may be defined by what each step makes of the value before.
LEMMA IterationExists ==
    ASSUME NEW N \in Nat, NEW W, NEW base \in W, NEW F \in [W -> W]
    PROVE  \E f : Iterates(f, N, W, base, F)
<1>. USE DEF Iterates
<1>. DEFINE T == {m \in 0 .. N : ~ \E f \in [0 .. m -> W] : f[0] = base /\ \A n \in 1 .. m : f[n] = F[f[n - 1]]}
<1>1. SUFFICES ASSUME T # {} PROVE FALSE
  OBVIOUS
<1>2. PICK m \in T : \A y \in T : m <= y
  <2>1. T \in SUBSET Nat
    OBVIOUS
  <2>. HIDE DEF T
  <2>. QED  BY <1>1, <2>1, Minimum
<1>3. m \in Nat /\ m <= N /\ ~ \E f \in [0 .. m -> W] : f[0] = base /\ \A n \in 1 .. m : f[n] = F[f[n - 1]]
  OBVIOUS
<1>4. m # 0
  <2>1. PICK f : f = [k \in 0 .. 0 |-> base]
    OBVIOUS
  <2>2. f \in [0 .. 0 -> W] /\ f[0] = base
    BY <2>1
  <2>. QED  BY <1>3, <2>2
<1>5. PICK f \in [0 .. m - 1 -> W] : f[0] = base /\ \A n \in 1 .. m - 1 : f[n] = F[f[n - 1]]
  <2>1. m - 1 \in 0 .. N /\ ~ (m <= m - 1)
    BY <1>3, <1>4
  <2>. QED  BY <1>2, <2>1
<1>6. PICK g : g = [k \in 0 .. m |-> IF k = m THEN F[f[m - 1]] ELSE f[k]]
  OBVIOUS
<1>7. \A k \in 0 .. m - 1 : g[k] = f[k] /\ f[k] \in W
  BY <1>3, <1>4, <1>6
<1>8. g[m] = F[f[m - 1]] /\ f[m - 1] \in W
  BY <1>3, <1>4, <1>6, <1>7
<1>9. g \in [0 .. m -> W]
  BY <1>6, <1>7, <1>8
<1>10. ASSUME NEW n \in 1 .. m PROVE g[n] = F[g[n - 1]]
  <2>1. n - 1 \in 0 .. m - 1
    BY <1>3
  <2>2. g[n - 1] = f[n - 1]
    BY <1>7, <2>1
  <2>3. CASE n = m
    BY <1>8, <2>2, <2>3
  <2>4. CASE n # m
    <3>1. n \in 1 .. m - 1 /\ n \in 0 .. m - 1
      BY <1>3, <2>4
    <3>. QED  BY <1>5, <1>7, <2>2, <3>1
  <2>. QED  BY <2>3, <2>4
<1>11. g[0] = base
  <2>1. 0 \in 0 .. m - 1
    BY <1>3, <1>4
  <2>. QED  BY <1>5, <1>7, <2>1
<1>. QED  BY <1>3, <1>9, <1>10, <1>11

Monotone(F, A) == \A X, Y \in SUBSET A : X \subseteq Y => F[X] \subseteq F[Y]
StaysIn(F, A, T) == \A X \in SUBSET A : X \subseteq T => F[X] \subseteq T

LeastFixedPoint(R, F, A) == F[R] = R /\ \A T : StaysIn(F, A, T) => R \subseteq T

\* Where each step adds to a set or leaves it as it is, one for each element is enough.
LEMMA IterationSettles ==
    ASSUME NEW A, IsFiniteSet(A), NEW N, N = Cardinality(A), NEW F \in [SUBSET A -> SUBSET A],
           Monotone(F, A), NEW f, Iterates(f, N, SUBSET A, {}, F)
    PROVE  N \in Nat /\ LeastFixedPoint(f[N], F, A)
<1>. USE DEF Iterates, Monotone, StaysIn, LeastFixedPoint
<1>1. N \in Nat
  BY FS_CardinalityType
<1>2. \A n \in 0 .. N : f[n] \in SUBSET A
  OBVIOUS
<1>3. ASSUME NEW n \in 1 .. N PROVE n \in Nat /\ n - 1 \in 0 .. N /\ n \in 0 .. N /\ n # 0
  BY <1>1
<1>4. ASSUME NEW n \in 1 .. N PROVE f[n - 1] \subseteq f[n]
  <2>. DEFINE T == {m \in 1 .. N : ~ (f[m - 1] \subseteq f[m])}
  <2>1. SUFFICES ASSUME T # {} PROVE FALSE
    OBVIOUS
  <2>2. PICK m \in T : \A y \in T : m <= y
    <3>1. T \in SUBSET Nat
      OBVIOUS
    <3>. HIDE DEF T
    <3>. QED  BY <2>1, <3>1, Minimum
  <2>3. m \in 1 .. N /\ ~ (f[m - 1] \subseteq f[m])
    OBVIOUS
  <2>4. m # 1
    BY <2>3
  <2>5. m - 1 \in 1 .. N /\ ~ (m <= m - 1) /\ m - 1 \in 0 .. N /\ (m - 1) - 1 \in 0 .. N
    BY <1>1, <2>3, <2>4
  <2>6. f[(m - 1) - 1] \subseteq f[m - 1]
    BY <2>2, <2>5
  <2>7. F[f[(m - 1) - 1]] \subseteq F[f[m - 1]]
    BY <1>2, <2>5, <2>6
  <2>8. f[m - 1] = F[f[(m - 1) - 1]] /\ f[m] = F[f[m - 1]]
    BY <2>3, <2>5
  <2>. QED  BY <2>3, <2>7, <2>8
<1>5. ASSUME NEW T, StaysIn(F, A, T) PROVE f[N] \subseteq T
  <2>. DEFINE B == {m \in 0 .. N : ~ (f[m] \subseteq T)}
  <2>1. SUFFICES ASSUME B # {} PROVE FALSE
    BY <1>1
  <2>2. PICK m \in B : \A y \in B : m <= y
    <3>1. B \in SUBSET Nat
      OBVIOUS
    <3>. HIDE DEF B
    <3>. QED  BY <2>1, <3>1, Minimum
  <2>3. m \in 0 .. N /\ ~ (f[m] \subseteq T)
    OBVIOUS
  <2>4. m # 0
    BY <2>3
  <2>5. m \in 1 .. N /\ ~ (m <= m - 1) /\ m - 1 \in 0 .. N
    BY <1>1, <2>3, <2>4
  <2>6. f[m - 1] \subseteq T /\ f[m] = F[f[m - 1]]
    BY <2>2, <2>5
  <2>. QED  BY <1>2, <1>5, <2>3, <2>5, <2>6
<1>6. ASSUME NEW m \in 0 .. N, F[f[m]] = f[m] PROVE F[f[N]] = f[N]
  <2>. DEFINE B == {k \in m .. N : f[k] # f[m]}
  <2>1. SUFFICES ASSUME B # {} PROVE FALSE
    BY <1>1, <1>6
  <2>2. PICK k \in B : \A y \in B : k <= y
    <3>1. B \in SUBSET Nat
      OBVIOUS
    <3>. HIDE DEF B
    <3>. QED  BY <2>1, <3>1, Minimum
  <2>3. k \in m .. N /\ f[k] # f[m]
    OBVIOUS
  <2>4. k - 1 \in m .. N /\ ~ (k <= k - 1) /\ k \in 1 .. N
    BY <1>1, <2>3
  <2>5. f[k - 1] = f[m] /\ f[k] = F[f[k - 1]]
    BY <2>2, <2>4
  <2>. QED  BY <1>6, <2>3, <2>5
<1>7. F[f[N]] = f[N]
  <2>. DEFINE B == {k \in 0 .. N : Cardinality(f[k]) < k}
  <2>1. \A k \in 0 .. N : IsFiniteSet(f[k]) /\ Cardinality(f[k]) \in Nat
    BY <1>2, FS_Subset, FS_CardinalityType
  <2>2. CASE B = {}
    <3>1. N \in 0 .. N
      BY <1>1
    <3>2. ~ (Cardinality(f[N]) < N) /\ Cardinality(f[N]) \in Nat
      BY <2>1, <2>2, <3>1
    <3>3. f[N] \in SUBSET A
      BY <1>2, <3>1
    <3>4. Cardinality(f[N]) <= N /\ (Cardinality(A) = Cardinality(f[N]) => A = f[N])
      BY <3>3, FS_Subset
    <3>5. f[N] = A
      BY <1>1, <3>2, <3>4
    <3>6. \A n \in 1 .. N : f[n] \subseteq F[f[N]]
      <4>. TAKE n \in 1 .. N
      <4>1. f[n] = F[f[n - 1]] /\ f[n - 1] \in SUBSET A /\ f[N] \in SUBSET A
        BY <1>2, <1>3, <3>3
      <4>. QED  BY <3>5, <4>1
    <3>7. CASE N = 0
      <4>1. A = {}
        BY <3>7, FS_EmptySet
      <4>. QED  BY <3>3, <4>1
    <3>8. CASE N # 0
      <4>1. N \in 1 .. N
        BY <1>1, <3>8
      <4>2. f[N] \subseteq F[f[N]] /\ F[f[N]] \in SUBSET A
        BY <3>3, <3>6, <4>1
      <4>. QED  BY <3>5, <4>2
    <3>. QED  BY <3>7, <3>8
  <2>3. CASE B # {}
    <3>1. PICK m \in B : \A y \in B : m <= y
      <4>1. B \in SUBSET Nat
        OBVIOUS
      <4>. HIDE DEF B
      <4>. QED  BY <2>3, <4>1, Minimum
    <3>2. m \in 0 .. N /\ Cardinality(f[m]) < m
      OBVIOUS
    <3>3. m # 0
      BY <2>1, <3>2
    <3>4. m \in 1 .. N /\ m - 1 \in 0 .. N /\ ~ (m <= m - 1)
      BY <1>1, <3>2, <3>3
    <3>5. ~ (Cardinality(f[m - 1]) < m - 1)
      BY <3>1, <3>4
    <3>6. f[m - 1] \subseteq f[m] /\ f[m] = F[f[m - 1]]
      BY <1>4, <3>4
    <3>7. Cardinality(f[m - 1]) <= Cardinality(f[m])
          /\ (Cardinality(f[m]) = Cardinality(f[m - 1]) => f[m] = f[m - 1])
      <4>1. f[m - 1] \in SUBSET f[m] /\ IsFiniteSet(f[m])
        BY <2>1, <3>2, <3>6
      <4>. QED  BY <4>1, FS_Subset
    <3>8. Cardinality(f[m]) \in Nat /\ Cardinality(f[m - 1]) \in Nat /\ m \in Nat
      BY <2>1, <3>2, <3>4
    <3>9. Cardinality(f[m]) = Cardinality(f[m - 1])
      BY <3>2, <3>5, <3>7, <3>8
    <3>10. F[f[m - 1]] = f[m - 1]
      BY <3>6, <3>7, <3>9
    <3>. QED  BY <1>6, <3>4, <3>10
  <2>. QED  BY <2>2, <2>3
<1>. QED  BY <1>1, <1>5, <1>7
=============================================================================
