-------------------------- MODULE DashboardProofs --------------------------
(***************************************************************************)
(* Theorems about Dashboard and Figures, for any tabs, batches, classes of *)
(* refusal, keys, statements and thresholds.                               *)
(*                                                                         *)
(* What a page shows is computed from reads that may be of different       *)
(* moments, or may have failed.  The invariant says of each thing that was *)
(* read what the pages rely on: a report is by its plan's numbers and its  *)
(* overage is among its parses, and what the owner had all the time is so  *)
(* of everything that was read.  Each property is then one of the figures  *)
(* alone: of a tone and its words, of digits and what they read as, of the *)
(* days of a month in their columns, of rows that add up.  The figures are *)
(* sums and digits of any length, so the lemmas begin with induction, over *)
(* numbers and over finite sets, from their well-founded orders.           *)
(***************************************************************************)
EXTENDS Dashboard, TLAPS, FiniteSetTheorems

(* Induction.  A non-empty set of numbers has a least one, so what holds   *)
(* of a number whenever it does of the smaller ones holds of all; the same *)
(* for the parts of a finite set.                                          *)
LEMMA Least ==
  ASSUME NEW S, S \subseteq Nat, S # {}
  PROVE  \E n \in S : \A m \in S : n <= m
<1>1. IsWellFoundedOn(OpToRel(<,Nat), Nat)
  BY NatLessThanWellFounded
<1>2. PICK n \in S : \A m \in S : ~(<<m, n>> \in OpToRel(<,Nat))
  BY <1>1, WFMin
<1>3. \A m \in S : ~(m < n)
  BY <1>2 DEF OpToRel
<1> QED
  BY <1>3

LEMMA Inductive ==
  ASSUME NEW S, 0 \in S, \A n \in Nat : n \in S => n + 1 \in S
  PROVE  Nat \subseteq S
<1> SUFFICES ASSUME Nat \ S # {} PROVE FALSE
  OBVIOUS
<1>1. PICK n \in Nat \ S : \A m \in Nat \ S : n <= m
  BY Least
<1>2. n # 0 /\ n - 1 \in Nat /\ n - 1 \in S
  BY <1>1
<1> QED
  BY <1>1, <1>2

LEMMA StrongInduction ==
  ASSUME NEW S, \A n \in Nat : (\A m \in Nat : m < n => m \in S) => n \in S
  PROVE  Nat \subseteq S
<1> SUFFICES ASSUME Nat \ S # {} PROVE FALSE
  OBVIOUS
<1>1. PICK n \in Nat \ S : \A m \in Nat \ S : n <= m
  BY Least
<1>2. \A m \in Nat : m < n => m \in S
  BY <1>1
<1> QED
  BY <1>1, <1>2

LEMMA SubsetInduction ==
  ASSUME NEW S, IsFiniteSet(S), NEW G,
         \A s \in SUBSET S : (\A u \in SUBSET s : u # s => u \in G) => s \in G
  PROVE  SUBSET S \subseteq G
<1> SUFFICES ASSUME (SUBSET S) \ G # {} PROVE FALSE
  OBVIOUS
<1>1. IsWellFoundedOn(StrictSubsetOrdering(S), SUBSET S)
  <2>1. FiniteSubsetsOf(S) = SUBSET S
    BY FS_FiniteSubsetsOfFinite
  <2>2. IsWellFoundedOn(StrictSubsetOrdering(S), FiniteSubsetsOf(S))
    BY FS_StrictSubsetOrderingWellFounded
  <2> QED
    BY <2>1, <2>2
<1>2. PICK s \in (SUBSET S) \ G : \A u \in (SUBSET S) \ G : ~(<<u, s>> \in StrictSubsetOrdering(S))
  <2> DEFINE T == (SUBSET S) \ G
  <2>1. T \subseteq SUBSET S /\ T # {}
    OBVIOUS
  <2> HIDE DEF T
  <2>2. \E x \in T : \A y \in T : ~(<<y, x>> \in StrictSubsetOrdering(S))
    BY <1>1, <2>1, WFMin
  <2> QED
    BY <2>2 DEF T
<1>3. \A u \in SUBSET s : u # s => u \in G
  BY <1>2 DEF StrictSubsetOrdering
<1> QED
  BY <1>2, <1>3

(* What is folded over a finite set is defined, whatever the order.        *)
Picks(c, S) == \A s \in SUBSET S : s # {} => c[s] \in s
Keeps(g, S, V) == \A s \in SUBSET S, v \in V : s # {} => g[s][v] \in V
Folded(f, b, c, g, S) ==
  \A s \in SUBSET S : f[s] = IF s = {} THEN b ELSE g[s][f[s \ {c[s]}]]

LEMMA FoldExists ==
  ASSUME NEW S, IsFiniteSet(S), NEW V, NEW b \in V,
         NEW c, Picks(c, S), NEW g, Keeps(g, S, V)
  PROVE  \E f \in [SUBSET S -> V] : Folded(f, b, c, g, S)
<1> USE DEF Picks, Keeps, Folded
<1> DEFINE Sub(n) == {s \in SUBSET S : Cardinality(s) <= n}
           Good(f, n) == \A s \in Sub(n) : f[s] = IF s = {} THEN b ELSE g[s][f[s \ {c[s]}]]
           N == {n \in Nat : \E f \in [Sub(n) -> V] : Good(f, n)}
<1>0. \A s \in SUBSET S : IsFiniteSet(s) /\ Cardinality(s) \in Nat
  BY FS_Subset, FS_CardinalityType
<1>s. \A s \in SUBSET S : s # {} => /\ s \ {c[s]} \in SUBSET S
                                   /\ Cardinality(s \ {c[s]}) = Cardinality(s) - 1
  BY <1>0, FS_RemoveElement
<1>1. 0 \in N
  <2>1. \A s \in Sub(0) : s = {}
    BY <1>0, FS_EmptySet
  <2>2. [s \in Sub(0) |-> b] \in [Sub(0) -> V] /\ Good([s \in Sub(0) |-> b], 0)
    BY <2>1
  <2> QED
    BY <2>2
<1>2. ASSUME NEW n \in Nat, n \in N PROVE n + 1 \in N
  <2>1. PICK f \in [Sub(n) -> V] : Good(f, n)
    BY <1>2
  <2> DEFINE h == [s \in Sub(n + 1) |-> IF s = {} THEN b ELSE g[s][f[s \ {c[s]}]]]
  <2>2. \A s \in Sub(n + 1) : s # {} => s \ {c[s]} \in Sub(n)
    BY <1>0, <1>s
  <2>3. h \in [Sub(n + 1) -> V]
    BY <2>2
  <2>4. ASSUME NEW s \in Sub(n) PROVE s \in Sub(n + 1) /\ h[s] = f[s]
    <3>1. s \in Sub(n + 1)
      BY <1>0
    <3>2. f[s] = IF s = {} THEN b ELSE g[s][f[s \ {c[s]}]]
      BY <2>1
    <3> QED
      BY <3>1, <3>2
  <2>5. Good(h, n + 1)
    BY <2>2, <2>4
  <2> HIDE DEF h, Sub, Good
  <2> QED
    BY <2>3, <2>5
<1>3. Cardinality(S) \in N
  <2> HIDE DEF N
  <2>1. Nat \subseteq N
    BY <1>1, <1>2, Inductive
  <2> QED
    BY <1>0, <2>1
<1>4. Sub(Cardinality(S)) = SUBSET S
  BY <1>0, FS_Subset
<1> QED
  BY <1>3, <1>4

-----------------------------------------------------------------------------
(* Sums.  SumFunction is a fold over the domain in the order CHOOSE takes; *)
(* what a step adds to it is shown by taking its elements in any order.    *)

Some(s) == CHOOSE x \in s : TRUE

(* The sum over part of a function's domain, in the order CHOOSE takes.    *)
SumOver(f) ==
  CHOOSE h : h = [s \in SUBSET DOMAIN f |->
                    IF s = {} THEN 0 ELSE f[Some(s)] + h[s \ {Some(s)}]]

LEMMA SumOverSteps ==
  ASSUME NEW f, IsFiniteSet(DOMAIN f), \A x \in DOMAIN f : f[x] \in Int
  PROVE  /\ Sum(f) = SumOver(f)[DOMAIN f]
         /\ \A s \in SUBSET DOMAIN f :
              /\ SumOver(f)[s] \in Int
              /\ SumOver(f)[s] = IF s = {} THEN 0 ELSE f[Some(s)] + SumOver(f)[s \ {Some(s)}]
<1> DEFINE D == DOMAIN f
           c == [s \in SUBSET D |-> Some(s)]
           g == [s \in SUBSET D |-> [v \in Int |-> f[Some(s)] + v]]
           Eq(h) == h = [s \in SUBSET D |-> IF s = {} THEN 0 ELSE f[Some(s)] + h[s \ {Some(s)}]]
<1>0. \A s \in SUBSET D : s # {} => Some(s) \in s
  BY DEF Some
<1>1. Sum(f) = SumOver(f)[D]
  BY DEF Sum, SumFunction, SumFunctionOnSet, FoldFunctionOnSet, MapThenFoldSet, SumOver, Some
<1>2. \E h \in [SUBSET D -> Int] : Eq(h)
  <2>1. IsFiniteSet(D) /\ 0 \in Int /\ Picks(c, D)
    BY <1>0 DEF Picks
  <2>2. Keeps(g, D, Int)
    BY <1>0 DEF Keeps
  <2> HIDE DEF c, g, D
  <2>3. PICK h \in [SUBSET D -> Int] : Folded(h, 0, c, g, D)
    BY <2>1, <2>2, FoldExists
  <2> USE DEF c, g, D
  <2>4. ASSUME NEW s \in SUBSET D
        PROVE  h[s] = IF s = {} THEN 0 ELSE f[Some(s)] + h[s \ {Some(s)}]
    BY <2>3 DEF Folded
  <2>5. h = [s \in SUBSET D |-> h[s]]
    BY <2>3
  <2>6. Eq(h)
    BY <2>4, <2>5
  <2> QED
    BY <2>3, <2>6
<1>3. Eq(SumOver(f))
  BY <1>2 DEF SumOver
<1>4. \A s \in SUBSET D :
        SumOver(f)[s] = IF s = {} THEN 0 ELSE f[Some(s)] + SumOver(f)[s \ {Some(s)}]
  <2> DEFINE h == SumOver(f)
  <2>1. h = [s \in SUBSET D |-> IF s = {} THEN 0 ELSE f[Some(s)] + h[s \ {Some(s)}]]
    BY <1>3
  <2> HIDE DEF h
  <2> QED
    BY <2>1 DEF h
<1>5. SUBSET D \subseteq {s \in SUBSET D : SumOver(f)[s] \in Int}
  <2> DEFINE G == {s \in SUBSET D : SumOver(f)[s] \in Int}
  <2>1. ASSUME NEW s \in SUBSET D, \A u \in SUBSET s : u # s => u \in G PROVE s \in G
    <3>1. CASE s = {}
      BY <1>4, <3>1
    <3>2. CASE s # {}
      <4>1. Some(s) \in D /\ f[Some(s)] \in Int
        BY <1>0, <3>2
      <4>2. s \ {Some(s)} \in SUBSET s /\ s \ {Some(s)} # s
        BY <1>0, <3>2
      <4>3. SumOver(f)[s \ {Some(s)}] \in Int
        BY <2>1, <4>2
      <4>4. SumOver(f)[s] = f[Some(s)] + SumOver(f)[s \ {Some(s)}]
        BY <1>4, <3>2
      <4> QED
        BY <4>1, <4>3, <4>4
    <3> QED
      BY <3>1, <3>2
  <2>2. IsFiniteSet(D)
    OBVIOUS
  <2> HIDE DEF G, D
  <2>3. SUBSET D \subseteq G
    BY <2>1, <2>2, SubsetInduction
  <2> QED
    BY <2>3 DEF G
<1> QED
  BY <1>1, <1>4, <1>5

IntValued(f) == IsFiniteSet(DOMAIN f) /\ \A x \in DOMAIN f : f[x] \in Int

(* Nothing adds up to nothing.                                             *)
LEMMA SumOverEmpty ==
  ASSUME NEW f, IntValued(f)
  PROVE  SumOver(f)[{}] = 0
BY SumOverSteps DEF IntValued

(* Any element may come first.                                             *)
AnyFirst(f) ==
    \A s \in SUBSET DOMAIN f : \A x \in s : SumOver(f)[s] = f[x] + SumOver(f)[s \ {x}]

LEMMA SumOverAny ==
  ASSUME NEW f, IntValued(f)
  PROVE  AnyFirst(f)
<1> DEFINE D == DOMAIN f
           h == SumOver(f)
           G == {u \in SUBSET D : \A y \in u : h[u] = f[y] + h[u \ {y}]}
<1>0. IsFiniteSet(D) /\ \A y \in D : f[y] \in Int
  BY DEF IntValued
<1>1. \A u \in SUBSET D : h[u] \in Int /\ h[u] = IF u = {} THEN 0 ELSE f[Some(u)] + h[u \ {Some(u)}]
  BY <1>0, SumOverSteps
<1>2. ASSUME NEW u \in SUBSET D, \A v \in SUBSET u : v # u => v \in G
      PROVE  u \in G
  <2> SUFFICES ASSUME NEW y \in u PROVE h[u] = f[y] + h[u \ {y}]
    OBVIOUS
  <2> DEFINE z == Some(u)
  <2>1. z \in u /\ h[u] = f[z] + h[u \ {z}]
    BY <1>1 DEF Some
  <2> HIDE DEF h
  <2>2. CASE y # z
    <3>1. u \ {z} \in G /\ u \ {y} \in G
      BY <1>2, <2>1
    <3>2. h[u \ {z}] = f[y] + h[(u \ {z}) \ {y}]
      BY <2>1, <2>2, <3>1
    <3>3. h[u \ {y}] = f[z] + h[(u \ {y}) \ {z}]
      BY <2>1, <2>2, <3>1
    <3>4. (u \ {z}) \ {y} = (u \ {y}) \ {z}
      OBVIOUS
    <3>5. PICK w \in Int : w = h[(u \ {y}) \ {z}] /\ f[y] \in Int /\ f[z] \in Int
      <4>1. (u \ {y}) \ {z} \in SUBSET D /\ y \in D /\ z \in D
        BY <2>1
      <4> QED
        BY <1>0, <1>1, <4>1
    <3>6. h[u \ {z}] = f[y] + w /\ h[u \ {y}] = f[z] + w
      BY <3>2, <3>3, <3>4, <3>5
    <3> HIDE DEF z
    <3> QED
      BY <2>1, <3>5, <3>6
  <2> QED
    BY <2>1, <2>2
<1>3. SUBSET D \subseteq G
  <2> HIDE DEF G, D
  <2> QED
    BY <1>0, <1>2, SubsetInduction
<1> QED
  BY <1>3 DEF AnyFirst

(* A sum depends on what is summed only.                                   *)
LEMMA SumOverSame ==
  ASSUME NEW f, IntValued(f), NEW h, IntValued(h),
         NEW S, S \subseteq DOMAIN f, S \subseteq DOMAIN h, \A x \in S : f[x] = h[x]
  PROVE  SumOver(f)[S] = SumOver(h)[S]
<1> DEFINE G == {u \in SUBSET S : SumOver(f)[u] = SumOver(h)[u]}
<1>0. IsFiniteSet(S)
  BY FS_Subset DEF IntValued
<1>1. ASSUME NEW u \in SUBSET S, \A v \in SUBSET u : v # u => v \in G
      PROVE  u \in G
  <2>1. CASE u = {}
    BY <2>1, SumOverEmpty
  <2>2. CASE u # {}
    <3>1. PICK x \in u : TRUE
      BY <2>2
    <3>2. u \ {x} \in G
      BY <1>1, <3>1
    <3>3. SumOver(f)[u] = f[x] + SumOver(f)[u \ {x}]
      BY <3>1, SumOverAny DEF AnyFirst
    <3>4. SumOver(h)[u] = h[x] + SumOver(h)[u \ {x}]
      BY <3>1, SumOverAny DEF AnyFirst
    <3> QED
      BY <3>2, <3>3, <3>4
  <2> QED
    BY <2>1, <2>2
<1>2. SUBSET S \subseteq G
  <2> HIDE DEF G
  <2> QED
    BY <1>0, <1>1, SubsetInduction
<1> QED
  BY <1>2

LEMMA SumType ==
  ASSUME NEW f, IntValued(f)
  PROVE  Sum(f) \in Int /\ Sum(f) = SumOver(f)[DOMAIN f]
<1>1. Sum(f) = SumOver(f)[DOMAIN f] /\ \A s \in SUBSET DOMAIN f : SumOver(f)[s] \in Int
  BY SumOverSteps DEF IntValued
<1> QED
  BY <1>1

LEMMA SumNat ==
  ASSUME NEW f, IsFiniteSet(DOMAIN f), \A x \in DOMAIN f : f[x] \in Nat
  PROVE  Sum(f) \in Nat
<1> DEFINE D == DOMAIN f
           G == {u \in SUBSET D : SumOver(f)[u] \in Nat}
<1>0. IntValued(f)
  BY DEF IntValued
<1>1. ASSUME NEW u \in SUBSET D, \A v \in SUBSET u : v # u => v \in G
      PROVE  u \in G
  <2>1. CASE u = {}
    BY <1>0, <2>1, SumOverEmpty
  <2>2. CASE u # {}
    <3>1. PICK x \in u : TRUE
      BY <2>2
    <3>2. u \ {x} \in G
      BY <1>1, <3>1
    <3>3. SumOver(f)[u] = f[x] + SumOver(f)[u \ {x}]
      BY <1>0, <3>1, SumOverAny DEF AnyFirst
    <3> QED
      BY <3>1, <3>2, <3>3
  <2> QED
    BY <2>1, <2>2
<1>2. SUBSET D \subseteq G
  <2> HIDE DEF G, D
  <2>1. IsFiniteSet(D)
    BY DEF D
  <2> QED
    BY <1>1, <2>1, SubsetInduction
<1> QED
  BY <1>0, <1>2, SumType

LEMMA SeqValued ==
  ASSUME NEW s \in Seq(Int)
  PROVE  IntValued(s)
<1>1. DOMAIN s = 1..Len(s) /\ Len(s) \in Nat
  OBVIOUS
<1>2. IsFiniteSet(1..Len(s))
  BY <1>1, FS_Interval
<1> QED
  BY <1>1, <1>2 DEF IntValued

(* Sums of sequences: what a parse adds, and a day without one.            *)
LEMMA SumSeqNat ==
  ASSUME NEW s \in Seq(Nat)
  PROVE  Sum(s) \in Nat
<1>1. s \in Seq(Int)
  OBVIOUS
<1>2. \A i \in DOMAIN s : s[i] \in Nat
  OBVIOUS
<1> QED
  BY <1>1, <1>2, SeqValued, SumNat DEF IntValued

LEMMA SumAdd ==
  ASSUME NEW s \in Seq(Int), NEW i \in DOMAIN s, NEW n \in Int
  PROVE  Sum([s EXCEPT ![i] = @ + n]) = Sum(s) + n
<1> DEFINE r == [s EXCEPT ![i] = @ + n]
           D == DOMAIN s
<1>0. r \in Seq(Int) /\ DOMAIN r = D /\ r[i] = s[i] + n /\ s[i] \in Int
      /\ \A j \in D \ {i} : r[j] = s[j]
  OBVIOUS
<1> HIDE DEF r
<1>1. IntValued(r) /\ IntValued(s)
  BY <1>0, SeqValued
<1>2. SumOver(r)[D \ {i}] = SumOver(s)[D \ {i}]
  BY <1>0, <1>1, SumOverSame
<1>3. SumOver(r)[D] = r[i] + SumOver(r)[D \ {i}] /\ SumOver(s)[D] = s[i] + SumOver(s)[D \ {i}]
  <2>0. AnyFirst(r) /\ AnyFirst(s)
    BY <1>1, SumOverAny
  <2>1. D \in SUBSET DOMAIN r /\ D \in SUBSET DOMAIN s /\ i \in D
    BY <1>0
  <2> HIDE DEF D
  <2>2. SumOver(r)[D] = r[i] + SumOver(r)[D \ {i}]
    BY <2>0, <2>1 DEF AnyFirst
  <2>3. SumOver(s)[D] = s[i] + SumOver(s)[D \ {i}]
    BY <2>0, <2>1 DEF AnyFirst
  <2> QED
    BY <2>2, <2>3
<1>4. Sum(r) = SumOver(r)[D] /\ Sum(s) = SumOver(s)[D]
  BY <1>0, <1>1, SumType
<1>5. SumOver(s)[D \ {i}] \in Int
  BY <1>1, SumOverSteps DEF IntValued
<1>6. Sum(r) = Sum(s) + n
  BY <1>0, <1>2, <1>3, <1>4, <1>5
<1> QED
  BY <1>6 DEF r

(* One more at the end.                                                    *)
LEMMA SumLast ==
  ASSUME NEW s \in Seq(Int), NEW r \in Seq(Int), Len(r) = Len(s) + 1,
         \A i \in 1..Len(s) : r[i] = s[i]
  PROVE  Sum(r) = Sum(s) + r[Len(r)]
<1> DEFINE n == Len(s)
<1>0. DOMAIN s = 1..n /\ DOMAIN r = 1..(n + 1) /\ n \in Nat /\ Len(r) = n + 1
  OBVIOUS
<1> HIDE DEF n
<1>1. IntValued(s) /\ IntValued(r)
  BY SeqValued
<1>2. 1..(n + 1) \ {n + 1} = 1..n /\ n + 1 \in 1..(n + 1)
  BY <1>0
<1>3. SumOver(r)[1..n] = SumOver(s)[1..n]
  <2> DEFINE S == 1..n
  <2>1. S \subseteq DOMAIN r /\ S \subseteq DOMAIN s /\ \A i \in S : r[i] = s[i]
    BY <1>0, <1>2 DEF n
  <2> HIDE DEF S
  <2>2. SumOver(r)[S] = SumOver(s)[S]
    BY <1>1, <2>1, SumOverSame
  <2> QED
    BY <2>2 DEF S
<1>4. SumOver(r)[1..(n + 1)] = r[n + 1] + SumOver(r)[1..n]
  <2> DEFINE S == 1..(n + 1)
             e == n + 1
  <2>0. AnyFirst(r)
    BY <1>1, SumOverAny
  <2>1. S \in SUBSET DOMAIN r /\ e \in S
    BY <1>0
  <2>2. S \ {e} = 1..n
    BY <1>2
  <2> HIDE DEF S, e
  <2>3. SumOver(r)[S] = r[e] + SumOver(r)[S \ {e}]
    BY <2>0, <2>1 DEF AnyFirst
  <2> QED
    BY <2>2, <2>3 DEF S, e
<1>5. SumOver(r)[1..n] \in Int /\ r[n + 1] \in Int
  <2>1. 1..n \in SUBSET DOMAIN r
    BY <1>0, <1>2
  <2> QED
    BY <1>0, <1>1, <1>2, <2>1, SumOverSteps DEF IntValued
<1>6. Sum(r) = SumOver(r)[1..(n + 1)] /\ Sum(s) = SumOver(s)[1..n]
  BY <1>0, <1>1, SumType
<1> QED
  BY <1>0, <1>3, <1>4, <1>5, <1>6

LEMMA SumEmpty == Sum(<<>>) = 0
<1>1. <<>> \in Seq(Int) /\ DOMAIN <<>> = {}
  OBVIOUS
<1>2. IntValued(<<>>)
  BY <1>1, SeqValued
<1> QED
  BY <1>1, <1>2, SumOverEmpty, SumType

(* The last index of part of a sequence.                                   *)
LEMMA MaxOfNumbers ==
  ASSUME NEW n \in Nat, NEW s \in SUBSET (1..n), s # {}
  PROVE  Max(s) \in s /\ \A y \in s : Max(s) >= y
<1> DEFINE T == {n - i : i \in s}
<1>1. T \subseteq Nat /\ T # {}
  <2>1. \A i \in s : n - i \in Nat
    OBVIOUS
  <2> QED
    BY <2>1
<1>2. PICK k \in T : \A m \in T : k <= m
  <2> HIDE DEF T
  <2> QED
    BY <1>1, Least
<1>3. n - k \in s /\ \A y \in s : n - k >= y
  BY <1>2
<1>4. \E x \in s : \A y \in s : x >= y
  BY <1>3
<1> QED
  BY <1>4 DEF Max

-----------------------------------------------------------------------------
(* Amounts.  An amount is read from its groups by a fold from the left.    *)

Then(n, group) == 1000 * n + group

LEMMA ThenType == \A n, d \in Int : Then(n, d) \in Int
BY DEF Then

Value(groups) == FoldLeft(LAMBDA n, group : 1000 * n + group, 0, groups)

ValueOver(q) ==
  CHOOSE h : h = [s \in SUBSET DOMAIN q |->
                    IF s = {} THEN 0 ELSE Then(h[s \ {Max(s)}], q[Max(s)])]

(* The fold, one index at a time.                                          *)
LEMMA ValueOverSteps ==
  ASSUME NEW q \in Seq(Int)
  PROVE  /\ Value(q) = ValueOver(q)[DOMAIN q]
         /\ \A s \in SUBSET DOMAIN q :
              /\ ValueOver(q)[s] \in Int
              /\ ValueOver(q)[s] = IF s = {} THEN 0
                                   ELSE Then(ValueOver(q)[s \ {Max(s)}], q[Max(s)])
<1> DEFINE D == DOMAIN q
           c == [s \in SUBSET D |-> Max(s)]
           g == [s \in SUBSET D |-> [v \in Int |-> Then(v, q[Max(s)])]]
           Eq(h) == h = [s \in SUBSET D |->
                           IF s = {} THEN 0 ELSE Then(h[s \ {Max(s)}], q[Max(s)])]
<1>d. IsFiniteSet(D) /\ \A i \in D : q[i] \in Int
  <2>1. IsFiniteSet(1..Len(q)) /\ D = 1..Len(q)
    BY FS_Interval
  <2> QED
    BY <2>1
<1>0. \A s \in SUBSET D : s # {} => Max(s) \in s
  <2>1. D = 1..Len(q) /\ Len(q) \in Nat
    OBVIOUS
  <2> QED
    BY <2>1, MaxOfNumbers
<1>1. Value(q) = ValueOver(q)[D]
  BY DEF Value, FoldLeft, MapThenFoldSet, ValueOver, Then
<1>2. \E h \in [SUBSET D -> Int] : Eq(h)
  <2>1. IsFiniteSet(D) /\ 0 \in Int /\ Picks(c, D)
    BY <1>0, <1>d DEF Picks
  <2>2. Keeps(g, D, Int)
    BY <1>0, <1>d, ThenType DEF Keeps
  <2> HIDE DEF c, g, D
  <2>3. PICK h \in [SUBSET D -> Int] : Folded(h, 0, c, g, D)
    BY <2>1, <2>2, FoldExists
  <2> USE DEF c, g, D
  <2>4. ASSUME NEW s \in SUBSET D
        PROVE  h[s] = IF s = {} THEN 0 ELSE Then(h[s \ {Max(s)}], q[Max(s)])
    BY <2>3 DEF Folded
  <2>5. h = [s \in SUBSET D |-> h[s]]
    BY <2>3
  <2>6. Eq(h)
    BY <2>4, <2>5
  <2> QED
    BY <2>3, <2>6
<1>3. Eq(ValueOver(q))
  BY <1>2 DEF ValueOver
<1>4. \A s \in SUBSET D :
        ValueOver(q)[s] = IF s = {} THEN 0 ELSE Then(ValueOver(q)[s \ {Max(s)}], q[Max(s)])
  <2> DEFINE h == ValueOver(q)
  <2>1. h = [s \in SUBSET D |-> IF s = {} THEN 0 ELSE Then(h[s \ {Max(s)}], q[Max(s)])]
    BY <1>3
  <2> HIDE DEF h
  <2> QED
    BY <2>1 DEF h
<1>5. SUBSET D \subseteq {s \in SUBSET D : ValueOver(q)[s] \in Int}
  <2> DEFINE G == {s \in SUBSET D : ValueOver(q)[s] \in Int}
  <2>1. ASSUME NEW s \in SUBSET D, \A u \in SUBSET s : u # s => u \in G PROVE s \in G
    <3>1. CASE s = {}
      <4>1. ValueOver(q)[s] = 0
        BY <1>4, <3>1
      <4> QED
        BY <4>1
    <3>2. CASE s # {}
      <4>1. Max(s) \in D /\ q[Max(s)] \in Int
        BY <1>0, <1>d, <3>2
      <4>2. s \ {Max(s)} \in SUBSET s /\ s \ {Max(s)} # s
        BY <1>0, <3>2
      <4>3. ValueOver(q)[s \ {Max(s)}] \in Int
        BY <2>1, <4>2
      <4>4. ValueOver(q)[s] = Then(ValueOver(q)[s \ {Max(s)}], q[Max(s)])
        BY <1>4, <3>2
      <4> QED
        BY <4>1, <4>3, <4>4, ThenType
    <3> QED
      BY <3>1, <3>2
  <2> HIDE DEF G, D
  <2>3. SUBSET D \subseteq G
    BY <1>d, <2>1, SubsetInduction
  <2> QED
    BY <2>3 DEF G
<1> QED
  BY <1>1, <1>4, <1>5

(* The digits written after a number count a thousandth of it.             *)
LEMMA ValueLast ==
  ASSUME NEW q \in Seq(Int), NEW d \in Int
  PROVE  Value(Append(q, d)) = 1000 * Value(q) + d /\ Value(q) \in Int
<1> DEFINE r == Append(q, d)
           n == Len(q)
           G == {u \in SUBSET (1..n) : ValueOver(r)[u] = ValueOver(q)[u]}
<1>0. /\ r \in Seq(Int) /\ DOMAIN r = 1..(n + 1) /\ DOMAIN q = 1..n /\ n \in Nat
      /\ r[n + 1] = d /\ \A i \in 1..n : r[i] = q[i]
  OBVIOUS
<1> HIDE DEF r, n
<1>n. n \in Nat
  BY <1>0
<1>1. /\ Value(q) = ValueOver(q)[1..n] /\ Value(r) = ValueOver(r)[1..(n + 1)]
      /\ ValueOver(q)[1..n] \in Int
  BY <1>0, ValueOverSteps
<1>2. ASSUME NEW u \in SUBSET (1..n), \A v \in SUBSET u : v # u => v \in G
      PROVE  u \in G
  <2>0. u \in SUBSET DOMAIN q /\ u \in SUBSET DOMAIN r
    BY <1>0
  <2>1. CASE u = {}
    BY <1>0, <2>0, <2>1, ValueOverSteps
  <2>2. CASE u # {}
    <3>1. Max(u) \in u
      BY <1>0, <2>2, MaxOfNumbers
    <3>2. u \ {Max(u)} \in G /\ r[Max(u)] = q[Max(u)]
      BY <1>0, <1>2, <3>1
    <3>3. ValueOver(q)[u] = Then(ValueOver(q)[u \ {Max(u)}], q[Max(u)])
      BY <2>0, <2>2, ValueOverSteps
    <3>4. ValueOver(r)[u] = Then(ValueOver(r)[u \ {Max(u)}], r[Max(u)])
      BY <1>0, <2>0, <2>2, ValueOverSteps
    <3> QED
      BY <3>2, <3>3, <3>4
  <2> QED
    BY <2>1, <2>2
<1>3. ValueOver(r)[1..n] = ValueOver(q)[1..n]
  <2> DEFINE S == 1..n
  <2>1. IsFiniteSet(S)
    BY <1>0, FS_Interval
  <2>2. \A u \in SUBSET S : (\A v \in SUBSET u : v # u => v \in G) => u \in G
    BY <1>2
  <2> HIDE DEF G, S
  <2>3. SUBSET S \subseteq G
    BY <2>1, <2>2, SubsetInduction
  <2> QED
    BY <2>3 DEF G, S
<1>4. Max(1..(n + 1)) = n + 1
  <2> DEFINE S == 1..(n + 1)
             m == n + 1
  <2>1. m \in Nat /\ S \in SUBSET (1..m) /\ m \in S /\ S # {}
    <3>1. m \in Nat /\ m \in S
      BY <1>n
    <3>2. S \in SUBSET (1..m)
      OBVIOUS
    <3> HIDE DEF S, m
    <3> QED
      BY <3>1, <3>2
  <2>2. Max(S) \in S /\ \A y \in S : Max(S) >= y
    <3> HIDE DEF S, m
    <3> QED
      BY <2>1, MaxOfNumbers
  <2>3. Max(S) \in 1..m /\ Max(S) >= m
    BY <2>1, <2>2
  <2> QED
    BY <1>0, <2>3
<1>5. ValueOver(r)[1..(n + 1)] = Then(ValueOver(r)[1..n], d)
  <2> DEFINE S == 1..(n + 1)
  <2>1. S # {} /\ S \ {n + 1} = 1..n /\ S \in SUBSET DOMAIN r
    <3>1. S # {} /\ S \ {n + 1} = 1..n
      BY <1>n
    <3>2. S = DOMAIN r
      BY <1>0
    <3> QED
      BY <3>1, <3>2
  <2>2. Max(S) = n + 1
    BY <1>4
  <2> HIDE DEF S
  <2>3. ValueOver(r)[S] = Then(ValueOver(r)[S \ {Max(S)}], r[Max(S)])
    BY <1>0, <2>1, ValueOverSteps
  <2>4. ValueOver(r)[S] = Then(ValueOver(r)[1..n], d)
    BY <1>0, <2>1, <2>2, <2>3, Zenon
  <2> QED
    BY <2>4 DEF S
<1>6. Value(r) = 1000 * Value(q) + d
  BY <1>1, <1>3, <1>5 DEF Then
<1> QED
  BY <1>1, <1>6 DEF r

LEMMA ValueEmpty == Value(<<>>) = 0
<1>1. <<>> \in Seq(Int) /\ DOMAIN <<>> = {}
  OBVIOUS
<1>2. Value(<<>>) = ValueOver(<<>>)[{}]
  BY <1>1, ValueOverSteps
<1>3. {} \in SUBSET DOMAIN <<>>
  OBVIOUS
<1> QED
  BY <1>1, <1>2, <1>3, ValueOverSteps

-----------------------------------------------------------------------------
(* Groups is a recursive function: it has a value at every number, built   *)
(* from those at the smaller ones, and satisfies its equation.             *)

Written(n, front) == IF n < 1000 THEN <<n>> ELSE Append(front, n % 1000)
GroupsTo(g, n) == g = [i \in 0..n |-> Written(i, g[i \div 1000])]

LEMMA Thousandth ==
  ASSUME NEW n \in Nat
  PROVE  /\ n \div 1000 \in Nat /\ n \div 1000 <= n /\ n % 1000 \in Nat
         /\ n = 1000 * (n \div 1000) + (n % 1000)
         /\ n >= 1000 => n \div 1000 < n
         /\ n < 1000 => n \div 1000 = 0
OBVIOUS

LEMMA SameFunction ==
  ASSUME NEW D, NEW f, NEW g, f = [x \in D |-> f[x]], g = [x \in D |-> g[x]],
         \A x \in D : f[x] = g[x]
  PROVE  f = g
OBVIOUS

LEMMA WrittenShort == \A n \in Nat : n < 1000 => \A x : Written(n, x) = <<n>>
BY DEF Written

LEMMA GroupsToExists == \A n \in Nat : \E g : GroupsTo(g, n)
<1> DEFINE N == {n \in Nat : \E g : GroupsTo(g, n)}
<1>1. 0 \in N
  <2> DEFINE g == [i \in 0..0 |-> <<i>>]
  <2>1. g = [i \in 0..0 |-> Written(i, g[i \div 1000])]
    BY WrittenShort
  <2>2. GroupsTo(g, 0)
    BY <2>1 DEF GroupsTo
  <2> QED
    BY <2>2
<1>2. ASSUME NEW n \in Nat, n \in N PROVE n + 1 \in N
  <2>1. PICK g : GroupsTo(g, n)
    BY <1>2
  <2> DEFINE h == [i \in 0..(n + 1) |-> Written(i, g[i \div 1000])]
  <2>2. \A i \in 0..n : i \in 0..(n + 1) /\ h[i] = g[i]
    <3>1. \A i \in 0..n : g[i] = Written(i, g[i \div 1000])
      BY <2>1 DEF GroupsTo
    <3> QED
      BY <3>1
  <2>3. ASSUME NEW i \in 0..(n + 1)
        PROVE  h[i] = Written(i, h[i \div 1000])
    <3>0. i \in Nat /\ h[i] = Written(i, g[i \div 1000])
      OBVIOUS
    <3>1. CASE i < 1000
      BY <3>0, <3>1, WrittenShort
    <3>2. CASE i >= 1000
      <4>1. i \div 1000 \in 0..n
        BY <3>2, Thousandth
      <4>2. h[i \div 1000] = g[i \div 1000]
        <5> HIDE DEF h
        <5> QED
          BY <2>2, <4>1
      <4> QED
        BY <3>0, <4>2
    <3> QED
      BY <3>1, <3>2
  <2>4. h = [i \in 0..(n + 1) |-> h[i]]
    OBVIOUS
  <2> HIDE DEF h
  <2>5. h = [i \in 0..(n + 1) |-> Written(i, h[i \div 1000])]
    <3> DEFINE D == 0..(n + 1)
               w == [i \in D |-> Written(i, h[i \div 1000])]
    <3>1. h = [i \in D |-> h[i]]
      BY <2>4
    <3>2. w = [i \in D |-> w[i]]
      OBVIOUS
    <3>3. \A i \in D : h[i] = w[i]
      BY <2>3
    <3> HIDE DEF D, w
    <3>4. h = w
      BY <3>1, <3>2, <3>3, SameFunction
    <3> QED
      BY <3>4 DEF w, D
  <2>6. GroupsTo(h, n + 1)
    BY <2>5 DEF GroupsTo
  <2> QED
    BY <2>6
<1> HIDE DEF N
<1>3. Nat \subseteq N
  BY <1>1, <1>2, Inductive
<1> QED
  BY <1>3 DEF N

LEMMA GroupsToSteps ==
  ASSUME NEW n \in Nat, NEW g, GroupsTo(g, n), NEW i \in Nat, i <= n
  PROVE  g[i] = Written(i, g[i \div 1000])
<1>1. \A j \in 0..n : g[j] = Written(j, g[j \div 1000])
  BY DEF GroupsTo
<1> QED
  BY <1>1

LEMMA GroupsToUnique ==
  ASSUME NEW n \in Nat, NEW m \in Nat, NEW g, GroupsTo(g, n), NEW h, GroupsTo(h, m)
  PROVE  \A i \in Nat : i <= n /\ i <= m => g[i] = h[i]
<1> DEFINE N == {i \in Nat : i <= n /\ i <= m => g[i] = h[i]}
<1>1. ASSUME NEW i \in Nat, \A j \in Nat : j < i => j \in N PROVE i \in N
  <2> SUFFICES ASSUME i <= n, i <= m PROVE g[i] = h[i]
    OBVIOUS
  <2>1. g[i] = Written(i, g[i \div 1000]) /\ h[i] = Written(i, h[i \div 1000])
    BY GroupsToSteps
  <2>2. CASE i < 1000
    BY <2>1, <2>2, WrittenShort
  <2>3. CASE i >= 1000
    <3>1. PICK k \in Nat : k = i \div 1000 /\ k < i
      BY <2>3, Thousandth
    <3>2. k <= n /\ k <= m
      BY <3>1
    <3>3. g[k] = h[k]
      BY <1>1, <3>1, <3>2
    <3> QED
      BY <2>1, <3>1, <3>3
  <2> QED
    BY <2>2, <2>3
<1> HIDE DEF N
<1>2. Nat \subseteq N
  BY <1>1, StrongInduction
<1> QED
  BY <1>2 DEF N

(* The equation that defines Groups.                                       *)
LEMMA GroupsSteps == \A n \in Nat : Groups[n] = Written(n, Groups[n \div 1000])
<1> DEFINE part(n) == CHOOSE g : GroupsTo(g, n)
           all == [n \in Nat |-> part(n)[n]]
           Eq(f) == f = [n \in Nat |-> Written(n, f[n \div 1000])]
<1>1. \A n \in Nat : GroupsTo(part(n), n)
  BY GroupsToExists
<1> HIDE DEF part
<1>2. ASSUME NEW n \in Nat
      PROVE  all[n] = Written(n, all[n \div 1000])
  <2>1. PICK k \in Nat : k = n \div 1000 /\ k <= n
    BY Thousandth
  <2>2. GroupsTo(part(n), n) /\ GroupsTo(part(k), k)
    BY <1>1
  <2>3. part(n)[n] = Written(n, part(n)[n \div 1000])
    BY <2>2, GroupsToSteps
  <2>4. part(n)[k] = part(k)[k]
    BY <2>1, <2>2, GroupsToUnique
  <2>5. all[n] = part(n)[n] /\ all[k] = part(k)[k]
    OBVIOUS
  <2> QED
    BY <2>1, <2>3, <2>4, <2>5
<1>3. \E f : Eq(f)
  <2>1. all = [n \in Nat |-> all[n]]
    OBVIOUS
  <2> HIDE DEF all
  <2>2. all = [n \in Nat |-> Written(n, all[n \div 1000])]
    <3> DEFINE w == [n \in Nat |-> Written(n, all[n \div 1000])]
    <3>1. w = [n \in Nat |-> w[n]]
      OBVIOUS
    <3>2. \A n \in Nat : all[n] = w[n]
      BY <1>2
    <3> HIDE DEF w
    <3>3. all = w
      BY <2>1, <3>1, <3>2, SameFunction
    <3> QED
      BY <3>3 DEF w
  <2> QED
    BY <2>2
<1>4. Eq(Groups)
  <2>1. Groups = CHOOSE f : Eq(f)
    BY DEF Groups, Written
  <2> HIDE DEF Eq
  <2> QED
    BY <1>3, <2>1
<1> QED
  BY <1>4

(* What is written as the groups of n is read as n.                        *)
LEMMA GroupsValue ==
  \A n \in Nat : Groups[n] \in Seq(Int) /\ Value(Groups[n]) = n
<1> DEFINE N == {n \in Nat : Groups[n] \in Seq(Int) /\ Value(Groups[n]) = n}
<1>1. ASSUME NEW n \in Nat, \A m \in Nat : m < n => m \in N PROVE n \in N
  <2>1. CASE n < 1000
    <3>1. Groups[n] = <<n>>
      BY <2>1, GroupsSteps, WrittenShort
    <3>2. <<n>> = Append(<<>>, n) /\ <<>> \in Seq(Int) /\ <<n>> \in Seq(Int)
      OBVIOUS
    <3>3. PICK q \in Seq(Int) : q = <<>> /\ Value(q) = 0
      BY <3>2, ValueEmpty
    <3>4. Value(Append(q, n)) = 1000 * Value(q) + n
      BY ValueLast
    <3>5. Value(<<n>>) = n
      BY <3>2, <3>3, <3>4
    <3> QED
      BY <3>1, <3>2, <3>5
  <2>2. CASE n >= 1000
    <3>1. PICK k \in Nat, d \in Nat :
            k = n \div 1000 /\ d = n % 1000 /\ k < n /\ n = 1000 * k + d
      BY <2>2, Thousandth
    <3>2. Groups[n] = Append(Groups[k], d)
      <4>1. Groups[n] = Written(n, Groups[k])
        BY <3>1, GroupsSteps
      <4>2. ~(n < 1000)
        BY <2>2
      <4>3. Written(n, Groups[k]) = Append(Groups[k], n % 1000)
        BY <4>2 DEF Written
      <4> QED
        BY <3>1, <4>1, <4>3
    <3>3. Groups[k] \in Seq(Int) /\ Value(Groups[k]) = k
      BY <1>1, <3>1
    <3>4. Value(Append(Groups[k], d)) = 1000 * Value(Groups[k]) + d
      BY <3>3, ValueLast
    <3>5. Append(Groups[k], d) \in Seq(Int)
      BY <3>3
    <3>6. Value(Groups[n]) = n
      <4>1. Value(Append(Groups[k], d)) = 1000 * k + d
        BY <3>3, <3>4
      <4>2. n = 1000 * k + d
        BY <3>1
      <4> QED
        BY <3>2, <4>1, <4>2
    <3> QED
      BY <3>2, <3>5, <3>6
  <2> QED
    BY <2>1, <2>2
<1> HIDE DEF N
<1>2. Nat \subseteq N
  BY <1>1, StrongInduction
<1> QED
  BY <1>2 DEF N

(* Whatever the amount, and on whichever side of zero, its sign, groups of *)
(* three digits and kobo (displayMoney) read as the amount that was written. *)
THEOREM MoneyReadsBack == \A kobo \in Int : ReadBack(DisplayMoney(kobo)) = kobo
<1> SUFFICES ASSUME NEW kobo \in Int PROVE ReadBack(DisplayMoney(kobo)) = kobo
  OBVIOUS
<1>1. PICK abs \in Nat : abs = IF kobo < 0 THEN -kobo ELSE kobo
  OBVIOUS
<1>2. PICK n \in Nat, k \in Nat : n = abs \div 100 /\ k = abs % 100 /\ abs = 100 * n + k
  OBVIOUS
<1>3. DisplayMoney(kobo) = [minus |-> kobo < 0, naira |-> Groups[n], kobo |-> k]
  BY <1>1, <1>2 DEF DisplayMoney
<1>4. Value(Groups[n]) = n
  BY GroupsValue
<1>5. ASSUME NEW shown PROVE
      ReadBack(shown) = IF shown.minus THEN -(100 * Value(shown.naira) + shown.kobo)
                                       ELSE 100 * Value(shown.naira) + shown.kobo
  BY DEF ReadBack, Value
<1>6. CASE kobo < 0
  <2>1. DisplayMoney(kobo) = [minus |-> TRUE, naira |-> Groups[n], kobo |-> k]
    BY <1>3, <1>6
  <2>2. ReadBack(DisplayMoney(kobo)) = -(100 * Value(Groups[n]) + k)
    BY <1>5, <2>1
  <2> QED
    BY <1>1, <1>2, <1>4, <1>6, <2>2
<1>7. CASE ~(kobo < 0)
  <2>1. DisplayMoney(kobo) = [minus |-> FALSE, naira |-> Groups[n], kobo |-> k]
    <3>1. (kobo < 0) = FALSE
      BY <1>7
    <3> QED
      BY <1>3, <3>1, Zenon
  <2>2. ReadBack(DisplayMoney(kobo)) = 100 * Value(Groups[n]) + k
    BY <1>5, <2>1
  <2> QED
    BY <1>1, <1>2, <1>4, <1>7, <2>2
<1> QED
  BY <1>6, <1>7

-----------------------------------------------------------------------------
(* Two numbers, a clamped one, a rounded ratio; functions on 1..n as       *)
(* sequences.                                                              *)

LEMMA MaxTwo == \A a, b \in Int : Max({a, b}) = IF a >= b THEN a ELSE b
<1> SUFFICES ASSUME NEW a \in Int, NEW b \in Int
             PROVE  Max({a, b}) = IF a >= b THEN a ELSE b
  OBVIOUS
<1>1. \E x \in {a, b} : \A y \in {a, b} : x >= y
  OBVIOUS
<1>2. Max({a, b}) \in {a, b} /\ \A y \in {a, b} : Max({a, b}) >= y
  BY <1>1 DEF Max
<1> QED
  BY <1>2

LEMMA MinTwo == \A a, b \in Int : Min({a, b}) = IF a <= b THEN a ELSE b
<1> SUFFICES ASSUME NEW a \in Int, NEW b \in Int
             PROVE  Min({a, b}) = IF a <= b THEN a ELSE b
  OBVIOUS
<1>1. \E x \in {a, b} : \A y \in {a, b} : x <= y
  OBVIOUS
<1>2. Min({a, b}) \in {a, b} /\ \A y \in {a, b} : Min({a, b}) <= y
  BY <1>1 DEF Min
<1> QED
  BY <1>2

(* A clamped number is within its bounds.                                  *)
LEMMA ClampType ==
  ASSUME NEW x \in Int, NEW lo \in Int, NEW hi \in Int, lo <= hi
  PROVE  /\ Clamp(x, lo, hi) \in Int /\ lo <= Clamp(x, lo, hi) /\ Clamp(x, lo, hi) <= hi
         /\ lo <= x /\ x <= hi => Clamp(x, lo, hi) = x
<1>1. PICK m \in Int : m = Max({lo, x}) /\ m = IF lo >= x THEN lo ELSE x
  BY MaxTwo
<1>2. Min({hi, m}) = IF hi <= m THEN hi ELSE m
  BY MinTwo
<1> QED
  BY <1>1, <1>2 DEF Clamp

LEMMA RatioType ==
  ASSUME NEW a \in Int, NEW b \in Nat
  PROVE  RoundDiv(a, Max({b \div 100, 1})) \in Int
<1>1. PICK m \in Nat : m = Max({b \div 100, 1}) /\ m >= 1
  <2>1. PICK q \in Nat : q = b \div 100
    OBVIOUS
  <2>2. Max({q, 1}) = IF q >= 1 THEN q ELSE 1
    BY MaxTwo
  <2> QED
    BY <2>1, <2>2
<1>2. PICK x \in Int, y \in Nat : x = 2 * a + m /\ y = 2 * m /\ y > 0
  BY <1>1
<1>3. x \div y \in Int
  BY <1>2
<1> QED
  BY <1>1, <1>2, <1>3 DEF RoundDiv

LEMMA FunctionIsSeq ==
  ASSUME NEW n \in Nat, NEW g, g = [i \in 1..n |-> g[i]], \A i \in 1..n : g[i] \in Nat
  PROVE  g \in Seq(Nat) /\ Len(g) = n
OBVIOUS

LEMMA LengthOf ==
  ASSUME NEW n \in Nat, NEW f, f = [i \in 1..n |-> f[i]]
  PROVE  Len(f) = n
OBVIOUS

LEMMA WholeSubSeq ==
  ASSUME NEW n \in Nat, NEW f, f = [i \in 1..n |-> f[i]], NEW g, g = SubSeq(f, 1, n)
  PROVE  DOMAIN g = 1..n /\ Len(g) = n /\ \A i \in 1..n : g[i] = f[i]
<1> DEFINE S == {f[i] : i \in 1..n}
<1>1. \A i \in 1..n : f[i] \in S
  OBVIOUS
<1>2. PICK T : T = S
  OBVIOUS
<1>3. f \in Seq(T) /\ Len(f) = n
  <2> HIDE DEF S
  <2> QED
    BY <1>1, <1>2
<1> QED
  BY <1>3

LEMMA SubSeqLength ==
  ASSUME NEW S, NEW s \in Seq(S), NEW m \in Nat, m <= Len(s)
  PROVE  Len(SubSeq(s, 1, m)) = m
OBVIOUS

-----------------------------------------------------------------------------
(* What is assumed and what is sold.                                       *)

(* None is no answer, no number and no amount.                             *)
LEMMA NoneIsNothing ==
  /\ None \notin Nat /\ None \notin Money /\ None \notin Tier /\ None # "create"
BY FiguresAssumption, DashboardAssumption

(* What is sold.                                                           *)
LEMMA TierNumbers ==
  \A t \in Tier :
    /\ WorkerTiers[t].cap \in {1000, 10000, 100000} /\ WorkerTiers[t].kobo \in {1500, 1200, 800}
    /\ WorkerTiers[t].cap = PaidTiers[t].included
    /\ WorkerTiers[t].kobo = 100 * PaidTiers[t].overage /\ PaidTiers[t].overage \in {15, 12, 8}
BY DEF Tier, WorkerTiers, PaidTiers

(* A share is at most the whole.                                           *)
Share(a, b) == IF a + b = 0 THEN 0 ELSE RoundEven(Whole * a, a + b)

LEMMA RateType == \A x \in Nat : x <= Whole => x \in Rate
<1>1. Whole \in Nat
  BY DEF Whole
<1> QED
  BY <1>1 DEF Rate

LEMMA RoundEvenShare ==
  ASSUME NEW a \in Nat, NEW b \in Nat, a + b # 0
  PROVE  RoundEven(Whole * a, a + b) \in Rate
<1> DEFINE n == a + b
           x == Whole * a
           q == x \div n
           r == x % n
<1>1. n \in Nat /\ n > 0 /\ x \in Nat /\ x <= 10000 * n
  BY DEF Whole
<1>2. q \in Nat /\ r \in 0..(n - 1) /\ x = n * q + r
  <2> HIDE DEF x, n
  <2> QED
    BY <1>1
<1>3. RoundEven(x, n) = IF 2 * r > n \/ (2 * r = n /\ q % 2 = 1) THEN q + 1 ELSE q
  BY DEF RoundEven
<1>4. q <= 10000
  <2> SUFFICES ASSUME q >= 10001 PROVE FALSE
    BY <1>2
  <2>1. n * q >= n * 10001
    <3> HIDE DEF n, q
    <3> QED
      BY <1>1, <1>2
  <2> HIDE DEF x, n, q, r
  <2> QED
    BY <1>1, <1>2, <2>1
<1>5. q = 10000 => r = 0
  <2> HIDE DEF x, n, q, r
  <2> QED
    BY <1>1, <1>2
<1> HIDE DEF x, n, q, r
<1>6. RoundEven(x, n) \in Rate
  <2>1. CASE q = 10000
    <3>1. ~(2 * r > n) /\ ~(2 * r = n)
      BY <1>1, <1>5, <2>1
    <3>2. RoundEven(x, n) = Whole
      BY <1>3, <2>1, <3>1 DEF Whole
    <3>3. Whole \in Nat /\ Whole <= Whole
      BY DEF Whole
    <3> QED
      BY <3>2, <3>3, RateType, Zenon
  <2>2. CASE q # 10000
    <3>1. q \in Nat /\ q + 1 \in Nat
      BY <1>2
    <3>2. q <= Whole /\ q + 1 <= Whole
      BY <3>1, <1>4, <2>2 DEF Whole
    <3>3. q \in Rate /\ q + 1 \in Rate
      BY <3>1, <3>2, RateType, Zenon
    <3> QED
      BY <1>3, <3>3
  <2> QED
    BY <2>1, <2>2
<1> QED
  BY <1>6 DEF x, n

LEMMA ShareType == \A a, b \in Nat : Share(a, b) \in Rate
<1> SUFFICES ASSUME NEW a \in Nat, NEW b \in Nat
             PROVE  Share(a, b) \in Rate
  OBVIOUS
<1>0. CASE a + b = 0
  <2>1. Share(a, b) = 0
    BY <1>0 DEF Share
  <2>2. 0 \in Nat /\ 0 <= Whole
    BY DEF Whole
  <2> QED
    BY <2>1, <2>2, RateType, Zenon
<1>1. CASE a + b # 0
  <2>1. RoundEven(Whole * a, a + b) \in Rate
    BY <1>1, RoundEvenShare
  <2>2. Share(a, b) = RoundEven(Whole * a, a + b)
    BY <1>1 DEF Share
  <2> QED
    BY <2>1, <2>2
<1> QED
  BY <1>0, <1>1

-----------------------------------------------------------------------------
(* The invariant.                                                          *)

Pages == {"closed", "overview", "usage", "billing", "lenders", "checkout"}
Reads == {"usage", "keys", "status"}
Facts == {"plan", "active plan", "attempt", "parse", "refusal", "active key", "key"}

Brought == [usage : OwnerUsage \cup {None}, keys : Seq(KeyInfo) \cup {None},
            status : SubscriptionStatus \cup {None}]

(* The worker's records: a cycle has a day, and its live parses are among  *)
(* its parses.                                                             *)
RecordsOK ==
    /\ firstDay \in 0..6 /\ daily \in Seq(Nat) /\ daily # <<>>
    /\ live \in Nat /\ live <= Sum(daily)
    /\ refused \in [Class -> Nat] /\ keys \in Seq(KeyInfo) /\ sub \in SubscriptionStatus

(* What the tabs hold.                                                     *)
PagesOK ==
    /\ page \in [Tab -> Pages] /\ pending \in [Tab -> SUBSET Reads] /\ got \in [Tab -> Brought]
    /\ busy \in [Tab -> Tier \cup {None}] /\ error \in [Tab -> BOOLEAN]
    /\ interval \in [Tab -> Interval]
    /\ panel \in [Tab -> [sample : Sample, threshold : Int] \cup {None}]
    /\ had \in [Tab -> SUBSET Facts]

(* A report is by the plan's numbers, and its overage is of the parses     *)
(* beyond the cap: every live parse is a parse.                            *)
Sound(u) ==
    /\ u.parses = Sum(u.daily)
    /\ u.tier = None => u.cap = None /\ u.overage = 0
    /\ u.tier # None => /\ u.cap = WorkerTiers[u.tier].cap
                        /\ u.projected = u.overage * WorkerTiers[u.tier].kobo
    /\ u.overage > 0 => u.parses > u.cap /\ u.overage <= u.parses - u.cap
SoundReports == \A t \in Tab : got[t].usage # None => Sound(got[t].usage)

(* What was read says of each of the facts that it is so.                  *)
HonestUsage(u, facts) ==
    /\ "plan" \in facts => u.cap # None
    /\ "attempt" \in facts => Attempts(u) # 0
    /\ "parse" \in facts => Sum(u.daily) # 0
    /\ "refusal" \in facts => TotalRefused(u) # 0
HonestKeys(ks, facts) ==
    ("active key" \in facts => ActiveKeys(ks) # 0) /\ ("key" \in facts => ks # <<>>)
HonestStatus(s, facts) == "active plan" \in facts => s.status = "active"

(* What the owner had all the time is so of what was read; and while a     *)
(* read is out, he still has it.                                           *)
Honest(t) ==
    /\ pending[t] # {} => had[t] \subseteq Has
    /\ got[t].usage # None => HonestUsage(got[t].usage, had[t])
    /\ got[t].keys # None => HonestKeys(got[t].keys, had[t])
    /\ got[t].status # None => HonestStatus(got[t].status, had[t])
HonestPages == \A t \in Tab : Honest(t)

(* An overage that was read stood while the page was loading; and while a  *)
(* read is out, the overage of the moment is among those that did.         *)
Owing(t) ==
    /\ pending[t] # {} => Beyond \in owed[t]
    /\ got[t].usage # None => got[t].usage.overage \in owed[t]
OwedPages == DOMAIN owed = Tab /\ \A t \in Tab : Owing(t)

IInv == RecordsOK /\ PagesOK /\ SoundReports /\ HonestPages /\ OwedPages

(* The worker's report is of its type, and sound.                          *)
LEMMA WorkerUsageSound ==
  ASSUME RecordsOK
  PROVE  WorkerUsage \in OwnerUsage /\ Sound(WorkerUsage)
<1> DEFINE ok   == Sum(daily)
           plan == sub.tier
           cap  == IF plan = None THEN None ELSE WorkerTiers[plan].cap
           over == IF plan = None THEN 0 ELSE OverageFor(live, cap)
           rate == IF ok + Refused = 0 THEN 0 ELSE RoundEven(Whole * ok, ok + Refused)
           proj == IF plan = None THEN 0 ELSE over * WorkerTiers[plan].kobo
<1>1. ok \in Nat /\ Refused \in Nat
  <2>1. DOMAIN refused = Class /\ \A c \in Class : refused[c] \in Nat
    BY DEF RecordsOK
  <2>2. Sum(refused) \in Nat
    BY <2>1, SumNat, DashboardAssumption
  <2> QED
    BY <2>2, SumSeqNat DEF RecordsOK, Refused
<1>2. rate \in Rate
  <2>1. PICK a \in Nat, b \in Nat : a = ok /\ b = Refused
    BY <1>1
  <2>2. rate = Share(a, b)
    BY <2>1 DEF Share
  <2> HIDE DEF rate
  <2> QED
    BY <2>2, ShareType
<1>3. plan \in Tier \cup {None} /\ live \in Nat /\ live <= ok
  BY DEF RecordsOK, SubscriptionStatus
<1>4. CASE plan = None
  <2>1. cap = None /\ over = 0 /\ proj = 0
    BY <1>4
  <2>2. WorkerUsage = [tier |-> None, parses |-> ok, rate |-> rate, cap |-> None, overage |-> 0,
                       projected |-> 0, daily |-> daily, firstDay |-> firstDay,
                       refused |-> refused]
    BY <1>4 DEF WorkerUsage
  <2> HIDE DEF ok, rate
  <2>3. WorkerUsage \in OwnerUsage
    BY <1>1, <1>2, <2>2 DEF OwnerUsage, RecordsOK
  <2>4. Sound(WorkerUsage)
    BY <2>2 DEF Sound, ok
  <2> QED
    BY <2>3, <2>4
<1>5. CASE plan # None
  <2>1. plan \in Tier
    BY <1>3, <1>5
  <2>2. PICK c \in Nat, k \in Nat : c = WorkerTiers[plan].cap /\ k = WorkerTiers[plan].kobo
    BY <2>1, TierNumbers
  <2>3. PICK o \in Nat : o = OverageFor(live, c) /\ (o > 0 => live > c /\ o = live - c)
    BY <1>3, MaxTwo DEF OverageFor
  <2>4. o * k \in Nat
    OBVIOUS
  <2>5. WorkerUsage = [tier |-> plan, parses |-> ok, rate |-> rate, cap |-> c, overage |-> o,
                       projected |-> o * k, daily |-> daily, firstDay |-> firstDay,
                       refused |-> refused]
    BY <1>5, <2>2, <2>3 DEF WorkerUsage
  <2> HIDE DEF ok, rate, plan
  <2>6. WorkerUsage \in OwnerUsage
    BY <1>1, <1>2, <2>1, <2>4, <2>5 DEF OwnerUsage, RecordsOK
  <2>7. Sound(WorkerUsage)
    BY <1>1, <1>3, <1>5, <2>2, <2>3, <2>5 DEF Sound, ok
  <2> QED
    BY <2>6, <2>7
<1> QED
  BY <1>4, <1>5

(* Its overage is of the parses beyond what the price list includes, as    *)
(* the cap is what the list says.                                          *)
LEMMA WorkerOverage ==
  ASSUME RecordsOK
  PROVE  WorkerUsage.overage = Beyond
<1>1. sub.tier \in Tier \cup {None}
  BY DEF RecordsOK, SubscriptionStatus
<1>2. WorkerUsage.overage =
        IF sub.tier = None THEN 0 ELSE OverageFor(live, WorkerTiers[sub.tier].cap)
  BY DEF WorkerUsage
<1>3. sub.tier # None => WorkerTiers[sub.tier].cap = Quote(sub.tier).included
  BY <1>1, TierNumbers DEF Quote
<1> QED
  BY <1>2, <1>3 DEF Beyond, OverageFor

LEMMA CountsType ==
  ASSUME RecordsOK
  PROVE  Sum(daily) \in Nat /\ Refused \in Nat /\ ActiveKeys(keys) \in Nat
<1>1. Sum(daily) \in Nat
  BY SumSeqNat DEF RecordsOK
<1>2. DOMAIN refused = Class /\ \A c \in Class : refused[c] \in Nat
  BY DEF RecordsOK
<1>3. Refused \in Nat
  BY <1>2, SumNat, DashboardAssumption DEF Refused
<1>4. PICK n \in Nat : DOMAIN keys = 1..n
  BY DEF RecordsOK
<1>5. IsFiniteSet({i \in DOMAIN keys : keys[i] # "revoked"})
  BY <1>4, FS_Interval, FS_Subset
<1> QED
  BY <1>1, <1>3, <1>5, FS_CardinalityType DEF ActiveKeys

(* What the owner has, one by one.                                         *)
LEMMA HasFacts ==
  ASSUME RecordsOK
  PROVE  /\ Has \subseteq Facts
         /\ "plan" \in Has => sub.tier # None
         /\ "active plan" \in Has => sub.status = "active"
         /\ "attempt" \in Has => Sum(daily) + Refused # 0
         /\ "parse" \in Has => Sum(daily) # 0
         /\ "refusal" \in Has => Refused # 0
         /\ "active key" \in Has => ActiveKeys(keys) # 0
         /\ "key" \in Has => keys # <<>>
<1>1. /\ Has \subseteq Facts
      /\ "plan" \in Has => sub.tier # None
      /\ "active plan" \in Has => sub.status = "active"
      /\ "attempt" \in Has => Sum(daily) + Refused > 0
      /\ "parse" \in Has => Sum(daily) > 0
      /\ "refusal" \in Has => Refused > 0
      /\ "active key" \in Has => ActiveKeys(keys) > 0
      /\ "key" \in Has => keys # <<>>
  BY DEF Has, Facts
<1>2. Sum(daily) > 0 => Sum(daily) # 0
  BY CountsType
<1>3. Refused > 0 => Refused # 0
  BY CountsType
<1>4. Sum(daily) + Refused > 0 => Sum(daily) + Refused # 0
  BY CountsType
<1>5. ActiveKeys(keys) > 0 => ActiveKeys(keys) # 0
  BY CountsType
<1> QED
  BY <1>1, <1>2, <1>3, <1>4, <1>5, Zenon

(* The worker's answers are honest about what the owner has.               *)
LEMMA WorkerHonest ==
  ASSUME RecordsOK
  PROVE  HonestUsage(WorkerUsage, Has) /\ HonestKeys(keys, Has) /\ HonestStatus(sub, Has)
<1>1. WorkerUsage.daily = daily /\ WorkerUsage.refused = refused
      /\ WorkerUsage.parses = Sum(daily)
      /\ WorkerUsage.cap = IF sub.tier = None THEN None ELSE WorkerTiers[sub.tier].cap
  BY DEF WorkerUsage
<1>2. TotalRefused(WorkerUsage) = Refused /\ Attempts(WorkerUsage) = Sum(daily) + Refused
  BY <1>1 DEF Attempts, TotalRefused, Refused
<1>3. sub.tier # None => WorkerTiers[sub.tier].cap # None
  <2>1. sub.tier \in Tier \cup {None}
    BY DEF RecordsOK, SubscriptionStatus
  <2>2. sub.tier # None => WorkerTiers[sub.tier].cap \in Nat
    BY <2>1, TierNumbers
  <2> QED
    BY <2>2, NoneIsNothing
<1>4. HonestUsage(WorkerUsage, Has)
  BY <1>1, <1>2, <1>3, HasFacts DEF HonestUsage
<1>5. HonestKeys(keys, Has) /\ HonestStatus(sub, Has)
  BY HasFacts DEF HonestKeys, HonestStatus
<1> QED
  BY <1>4, <1>5

(* What is so of many facts is so of fewer.                                *)
LEMMA FewerFacts ==
  ASSUME NEW facts, NEW fewer, fewer \subseteq facts
  PROVE  /\ \A u : HonestUsage(u, facts) => HonestUsage(u, fewer)
         /\ \A ks : HonestKeys(ks, facts) => HonestKeys(ks, fewer)
         /\ \A s : HonestStatus(s, facts) => HonestStatus(s, fewer)
BY DEF HonestUsage, HonestKeys, HonestStatus

(* A month's days: more parses today, a new day, a new month.              *)
LEMMA DayKinds ==
  ASSUME NEW s \in Seq(Nat), s # <<>>, NEW n \in Nat
  PROVE  /\ LET more == [s EXCEPT ![Len(s)] = @ + n]
            IN  more \in Seq(Nat) /\ more # <<>> /\ Sum(more) = Sum(s) + n
         /\ LET next == Append(s, 0)
            IN  next \in Seq(Nat) /\ next # <<>> /\ Sum(next) = Sum(s)
         /\ <<0>> \in Seq(Nat) /\ <<0>> # <<>> /\ Sum(<<0>>) = 0
<1>1. s \in Seq(Int) /\ Len(s) \in DOMAIN s /\ n \in Int
  OBVIOUS
<1>2. Sum([s EXCEPT ![Len(s)] = @ + n]) = Sum(s) + n
  BY <1>1, SumAdd
<1>3. [s EXCEPT ![Len(s)] = @ + n] \in Seq(Nat) /\ [s EXCEPT ![Len(s)] = @ + n] # <<>>
  <2>1. DOMAIN [s EXCEPT ![Len(s)] = @ + n] = 1..Len(s)
    OBVIOUS
  <2>2. PICK v \in Nat : v = s[Len(s)] + n
    BY <1>1
  <2>3. [s EXCEPT ![Len(s)] = v] \in Seq(Nat)
    BY <1>1, <2>2
  <2> QED
    BY <1>1, <2>1, <2>2, <2>3
<1>4. Sum(Append(s, 0)) = Sum(s)
  <2> DEFINE r == Append(s, 0)
  <2>1. r \in Seq(Int) /\ Len(r) = Len(s) + 1 /\ r[Len(r)] = 0 /\ \A i \in 1..Len(s) : r[i] = s[i]
    BY <1>1
  <2> HIDE DEF r
  <2>2. Sum(r) = Sum(s) + r[Len(r)]
    BY <1>1, <2>1, SumLast
  <2>3. Sum(s) \in Nat
    BY SumSeqNat
  <2> QED
    BY <2>1, <2>2, <2>3 DEF r
<1>5. Append(s, 0) \in Seq(Nat) /\ Append(s, 0) # <<>>
  OBVIOUS
<1>6. Sum(<<0>>) = 0
  <2>1. <<>> \in Seq(Int) /\ <<0>> \in Seq(Int) /\ Len(<<0>>) = Len(<<>>) + 1 /\ <<0>>[1] = 0
        /\ Len(<<0>>) = 1 /\ \A i \in 1..Len(<<>>) : <<0>>[i] = <<>>[i]
    OBVIOUS
  <2>2. Sum(<<0>>) = Sum(<<>>) + <<0>>[Len(<<0>>)]
    BY <2>1, SumLast
  <2> QED
    BY <2>1, <2>2, SumEmpty
<1> QED
  BY <1>2, <1>3, <1>4, <1>5, <1>6

(* The worker's records stay right.                                        *)
LEMMA RecordsStep == RecordsOK /\ [Next]_vars => RecordsOK'
<1> SUFFICES ASSUME RecordsOK, [Next]_vars PROVE RecordsOK'
  OBVIOUS
<1>0. Sum(daily) \in Nat
  BY SumSeqNat DEF RecordsOK
<1>1. CASE Parse
  <2>1. PICK n \in Batch, kind \in {"live", "test"} :
          /\ daily' = [daily EXCEPT ![Len(daily)] = @ + n]
          /\ live' = IF kind = "live" THEN live + n ELSE live
    BY <1>1 DEF Parse
  <2>2. n \in Nat
    BY DashboardAssumption
  <2>3. daily' \in Seq(Nat) /\ daily' # <<>> /\ Sum(daily') = Sum(daily) + n
    BY <2>1, <2>2, DayKinds DEF RecordsOK
  <2>4. live' \in Nat /\ live' <= Sum(daily')
    BY <1>0, <2>1, <2>2, <2>3 DEF RecordsOK
  <2> QED
    BY <1>1, <2>3, <2>4 DEF Parse, RecordsOK
<1>2. CASE Refuse
  <2>1. PICK n \in Batch, c \in Class : refused' = [refused EXCEPT ![c] = @ + n]
    BY <1>2 DEF Refuse
  <2>2. n \in Nat
    BY DashboardAssumption
  <2>3. refused' \in [Class -> Nat]
    BY <2>1, <2>2 DEF RecordsOK
  <2> QED
    BY <1>2, <2>3 DEF Refuse, RecordsOK
<1>3. CASE IssueKey
  <2>1. PICK kind \in {"live", "test"} : keys' = <<kind>> \o keys
    BY <1>3 DEF IssueKey
  <2>2. keys' \in Seq(KeyInfo)
    BY <2>1 DEF RecordsOK, KeyInfo
  <2> QED
    BY <1>3, <2>2 DEF IssueKey, RecordsOK
<1>4. CASE RevokeKey
  <2>1. PICK i \in DOMAIN keys : keys' = [keys EXCEPT ![i] = "revoked"]
    BY <1>4 DEF RevokeKey
  <2>2. keys' \in Seq(KeyInfo)
    BY <2>1 DEF RecordsOK, KeyInfo
  <2> QED
    BY <1>4, <2>2 DEF RevokeKey, RecordsOK
<1>5. CASE NextDay
  <2>1. CASE daily' = Append(daily, 0) /\ UNCHANGED <<firstDay, live, refused>>
    <3>1. daily' \in Seq(Nat) /\ daily' # <<>> /\ Sum(daily') = Sum(daily)
      BY <2>1, DayKinds DEF RecordsOK
    <3> QED
      BY <1>5, <2>1, <3>1 DEF NextDay, RecordsOK
  <2>2. CASE /\ daily' = <<0>> /\ live' = 0 /\ refused' = [c \in Class |-> 0]
             /\ firstDay' = (firstDay + Len(daily)) % 7
    <3>1. daily' \in Seq(Nat) /\ daily' # <<>> /\ Sum(daily') = 0
      BY <2>2, DayKinds DEF RecordsOK
    <3>2. firstDay' \in 0..6
      <4>1. PICK d \in Nat : d = firstDay + Len(daily)
        BY DEF RecordsOK
      <4>2. firstDay' = d % 7
        BY <2>2, <4>1
      <4> QED
        BY <4>2
    <3>3. refused' \in [Class -> Nat]
      BY <2>2
    <3> QED
      BY <1>5, <2>2, <3>1, <3>2, <3>3 DEF NextDay, RecordsOK
  <2> QED
    BY <1>5, <2>1, <2>2 DEF NextDay
<1>6. CASE SubscriptionEvent
  <2>1. sub' \in SubscriptionStatus
    BY <1>6 DEF SubscriptionEvent, RecordsOK, SubscriptionStatus
  <2> QED
    BY <1>6, <2>1 DEF SubscriptionEvent, RecordsOK
<1>7. CASE UNCHANGED <<firstDay, daily, live, refused, keys, sub>>
  BY <1>7 DEF RecordsOK
<1>8. [Next]_vars =>
        \/ Parse \/ Refuse \/ IssueKey \/ RevokeKey \/ NextDay \/ SubscriptionEvent
        \/ UNCHANGED <<firstDay, daily, live, refused, keys, sub>>
  <2>1. \A t, p : Visit(t, p) => UNCHANGED <<firstDay, daily, live, refused, keys, sub>>
    BY DEF Visit
  <2> QED
    BY <2>1 DEF Next, vars, recordVars, Load, Read, Choose, Subscribe, InitRefused, InitAccepted,
                NewSample, ThresholdChange
<1> QED
  BY <1>1, <1>2, <1>3, <1>4, <1>5, <1>6, <1>7, <1>8

(* A step is the worker's, or loads a page, or is the end of a read, or    *)
(* stays within a page.                                                    *)
Within(t) ==
    Choose(t) \/ Subscribe(t) \/ InitRefused(t) \/ NewSample(t) \/ ThresholdChange(t)
Visits == {"overview", "usage", "billing", "lenders", "checkout"}

LEMMA StepKinds ==
  ASSUME [Next]_vars
  PROVE  \/ Recorded
         \/ \E t \in Tab, p \in Visits : Visit(t, p)
         \/ \E t \in Tab, r \in Reads : Read(t, r)
         \/ \E t \in Tab : Within(t)
         \/ UNCHANGED vars
<1>1. Next => \/ Recorded
              \/ \E t \in Tab, p \in Visits : Visit(t, p)
              \/ \E t \in Tab, r \in Reads : Read(t, r)
              \/ \E t \in Tab : Within(t)
  <2> SUFFICES ASSUME Next
               PROVE  \/ Recorded
                      \/ \E t \in Tab, p \in Visits : Visit(t, p)
                      \/ \E t \in Tab, r \in Reads : Read(t, r)
                      \/ \E t \in Tab : Within(t)
    OBVIOUS
  <2>1. CASE Parse \/ Refuse \/ IssueKey \/ RevokeKey \/ NextDay \/ SubscriptionEvent
    BY <2>1 DEF Parse, Refuse, IssueKey, RevokeKey, NextDay, SubscriptionEvent
  <2>2. CASE \E t \in Tab : \E p \in {"overview", "usage", "billing", "lenders"} : Load(t, p)
    BY <2>2 DEF Load, Visits
  <2>3. CASE \E t \in Tab : \E r \in {"usage", "keys", "status"} : Read(t, r)
    BY <2>3 DEF Reads
  <2>4. CASE \E t \in Tab : InitAccepted(t)
    BY <2>4 DEF InitAccepted, Visits
  <2>5. CASE \E t \in Tab : Within(t)
    BY <2>5
  <2> QED
    BY <2>1, <2>2, <2>3, <2>4, <2>5 DEF Next, Within
<1> QED
  BY <1>1

LEMMA NeedsType == \A p \in Visits : p \in Pages /\ Needs(p) \in SUBSET Reads
BY DEF Visits, Pages, Needs, Reads

(* An answer is of the type of its read.                                   *)
LEMMA AnswerType ==
  ASSUME RecordsOK, NEW r \in Reads, NEW g \in Brought, NEW a \in {Answer(r), None}
  PROVE  [g EXCEPT ![r] = a] \in Brought
<1>1. WorkerUsage \in OwnerUsage
  BY WorkerUsageSound
<1>2. keys \in Seq(KeyInfo) /\ sub \in SubscriptionStatus
  BY DEF RecordsOK
<1>3. CASE r = "usage"
  BY <1>1, <1>3 DEF Answer, Brought
<1>4. CASE r = "keys"
  BY <1>2, <1>4 DEF Answer, Brought
<1>5. CASE r = "status"
  BY <1>2, <1>5 DEF Answer, Brought
<1> QED
  BY <1>3, <1>4, <1>5 DEF Reads

(* The tabs stay of their types.                                           *)
LEMMA PagesStep == RecordsOK /\ PagesOK /\ [Next]_vars => PagesOK'
<1> SUFFICES ASSUME RecordsOK, PagesOK, [Next]_vars PROVE PagesOK'
  OBVIOUS
<1>1. CASE Recorded
  BY <1>1 DEF Recorded, localVars, PagesOK
<1>2. ASSUME NEW t \in Tab, NEW p \in Visits, Visit(t, p) PROVE PagesOK'
  <2>1. page' \in [Tab -> Pages] /\ pending' \in [Tab -> SUBSET Reads]
    BY <1>2, NeedsType DEF Visit, PagesOK
  <2>2. got' \in [Tab -> Brought]
    BY <1>2 DEF Visit, PagesOK, Nothing, Brought
  <2>3. busy' \in [Tab -> Tier \cup {None}] /\ error' \in [Tab -> BOOLEAN]
        /\ interval' \in [Tab -> Interval]
    BY <1>2 DEF Visit, PagesOK, Interval
  <2>4. panel' \in [Tab -> [sample : Sample, threshold : Int] \cup {None}]
    BY <1>2 DEF Visit, PagesOK
  <2>5. had' \in [Tab -> SUBSET Facts]
    BY <1>2, HasFacts DEF Visit, PagesOK
  <2> QED
    BY <2>1, <2>2, <2>3, <2>4, <2>5 DEF PagesOK
<1>3. ASSUME NEW t \in Tab, NEW r \in Reads, Read(t, r) PROVE PagesOK'
  <2>1. PICK a \in {Answer(r), None} : got' = [got EXCEPT ![t][r] = a]
    BY <1>3 DEF Read
  <2>2. got[t] \in Brought
    BY DEF PagesOK
  <2>3. [got[t] EXCEPT ![r] = a] \in Brought
    BY <2>2, AnswerType
  <2>4. got' \in [Tab -> Brought]
    BY <2>1, <2>3 DEF PagesOK
  <2>5. pending' \in [Tab -> SUBSET Reads]
    BY <1>3 DEF Read, PagesOK
  <2> QED
    BY <1>3, <2>4, <2>5 DEF Read, localVars, PagesOK, historyVars
<1>4. ASSUME NEW t \in Tab, Within(t) PROVE PagesOK'
  <2>1. CASE Choose(t)
    BY <2>1 DEF Choose, PagesOK, historyVars
  <2>2. CASE Subscribe(t)
    BY <2>2 DEF Subscribe, PagesOK, historyVars
  <2>3. CASE InitRefused(t)
    BY <2>3 DEF InitRefused, PagesOK, historyVars
  <2>4. CASE NewSample(t)
    <3>1. PICK s \in Sample : panel' = [panel EXCEPT ![t].sample = s]
      BY <2>4 DEF NewSample
    <3>2. panel[t] \in [sample : Sample, threshold : Int]
      BY <2>4 DEF NewSample, PagesOK
    <3>3. [panel[t] EXCEPT !.sample = s] \in [sample : Sample, threshold : Int]
      BY <3>2
    <3>4. panel' \in [Tab -> [sample : Sample, threshold : Int] \cup {None}]
      BY <3>1, <3>3 DEF PagesOK
    <3> QED
      BY <2>4, <3>4 DEF NewSample, PagesOK, historyVars
  <2>5. CASE ThresholdChange(t)
    <3>1. PICK n \in Threshold : panel' = [panel EXCEPT ![t].threshold = n]
      BY <2>5 DEF ThresholdChange
    <3>2. panel[t] \in [sample : Sample, threshold : Int] /\ n \in Int
      BY <2>5, DashboardAssumption DEF ThresholdChange, PagesOK
    <3>3. [panel[t] EXCEPT !.threshold = n] \in [sample : Sample, threshold : Int]
      BY <3>2
    <3>4. panel' \in [Tab -> [sample : Sample, threshold : Int] \cup {None}]
      BY <3>1, <3>3 DEF PagesOK
    <3> QED
      BY <2>5, <3>4 DEF ThresholdChange, PagesOK, historyVars
  <2> QED
    BY <1>4, <2>1, <2>2, <2>3, <2>4, <2>5 DEF Within
<1>5. CASE UNCHANGED vars
  BY <1>5 DEF vars, recordVars, localVars, PagesOK, historyVars
<1> QED
  BY <1>1, <1>2, <1>3, <1>4, <1>5, StepKinds

(* What a tab has of the worker after a step.                              *)
LEMMA AnswersStep ==
  ASSUME RecordsOK, PagesOK, [Next]_vars, NEW t \in Tab
  PROVE  \/ /\ UNCHANGED <<got[t], pending[t]>> /\ had'[t] \subseteq had[t]
            /\ pending[t] # {} => had'[t] \subseteq Has' \/ UNCHANGED <<had[t], Has>>
         \/ /\ got'[t] = Nothing /\ had'[t] = Has /\ UNCHANGED Has
         \/ /\ pending[t] # {} /\ UNCHANGED <<had[t], Has>>
            /\ \E r \in Reads : \E a \in {Answer(r), None} : got'[t] = [got[t] EXCEPT ![r] = a]
<1>0. UNCHANGED <<firstDay, daily, live, refused, keys, sub>> => UNCHANGED Has
  BY DEF Has, Refused
<1>1. CASE Recorded
  BY <1>1 DEF Recorded, PagesOK
<1>2. ASSUME NEW u \in Tab, NEW p \in Visits, Visit(u, p)
      PROVE  \/ /\ UNCHANGED <<got[t], pending[t]>> /\ had'[t] = had[t] /\ UNCHANGED Has
             \/ /\ got'[t] = Nothing /\ had'[t] = Has /\ UNCHANGED Has
  <2>1. UNCHANGED Has
    BY <1>0, <1>2 DEF Visit
  <2> QED
    BY <1>2, <2>1 DEF Visit, PagesOK
<1>3. ASSUME NEW u \in Tab, NEW r \in Reads, Read(u, r)
      PROVE  \/ /\ UNCHANGED <<got[t], pending[t]>> /\ had'[t] = had[t] /\ UNCHANGED Has
             \/ /\ pending[t] # {} /\ UNCHANGED <<had[t], Has>>
                /\ \E x \in Reads : \E a \in {Answer(x), None} : got'[t] = [got[t] EXCEPT ![x] = a]
  <2>1. UNCHANGED Has /\ UNCHANGED had
    BY <1>0, <1>3 DEF Read, recordVars, historyVars
  <2>2. PICK a \in {Answer(r), None} : got' = [got EXCEPT ![u][r] = a]
    BY <1>3 DEF Read
  <2>3. CASE t = u
    BY <1>3, <2>1, <2>2, <2>3 DEF Read, PagesOK
  <2>4. CASE t # u
    BY <1>3, <2>1, <2>2, <2>4 DEF Read, PagesOK
  <2> QED
    BY <2>3, <2>4
<1>4. ASSUME NEW u \in Tab, Within(u)
      PROVE  UNCHANGED <<got[t], pending[t]>> /\ had'[t] = had[t] /\ UNCHANGED Has
  <2>1. UNCHANGED <<firstDay, daily, live, refused, keys, sub, got, pending, had>>
    BY <1>4 DEF Within, Choose, Subscribe, InitRefused, NewSample, ThresholdChange, recordVars,
                historyVars
  <2> QED
    BY <1>0, <2>1
<1>5. CASE UNCHANGED vars
  BY <1>0, <1>5 DEF vars, recordVars, historyVars
<1> QED
  BY <1>1, <1>2, <1>3, <1>4, <1>5, StepKinds

LEMMA NothingRead == Nothing.usage = None /\ Nothing.keys = None /\ Nothing.status = None
BY DEF Nothing

(* What a read brings is the worker's answer, and the other two stay.      *)
LEMMA OneRead ==
  ASSUME NEW g \in Brought, NEW r \in Reads, NEW a \in {Answer(r), None},
         NEW h, h = [g EXCEPT ![r] = a]
  PROVE  /\ h.usage \in {g.usage, WorkerUsage, None}
         /\ h.keys \in {g.keys, keys, None}
         /\ h.status \in {g.status, sub, None}
<1>1. CASE r = "usage"
  BY <1>1 DEF Answer, Brought
<1>2. CASE r = "keys"
  BY <1>2 DEF Answer, Brought
<1>3. CASE r = "status"
  BY <1>3 DEF Answer, Brought
<1> QED
  BY <1>1, <1>2, <1>3 DEF Reads

(* Reports stay sound, and what was read stays honest.                     *)
LEMMA SoundStep == RecordsOK /\ PagesOK /\ SoundReports /\ [Next]_vars => SoundReports'
<1> SUFFICES ASSUME RecordsOK, PagesOK, SoundReports, [Next]_vars,
                    NEW t \in Tab, got'[t].usage # None
             PROVE  Sound(got'[t].usage)
  BY DEF SoundReports
<1>1. got[t] \in Brought
  BY DEF PagesOK
<1>2. got'[t].usage \in {got[t].usage, WorkerUsage, None}
  <2>1. CASE got'[t] = got[t]
    BY <2>1
  <2>2. CASE got'[t] = Nothing
    BY <2>2, NothingRead
  <2>3. CASE \E r \in Reads : \E a \in {Answer(r), None} : got'[t] = [got[t] EXCEPT ![r] = a]
    BY <1>1, <2>3, OneRead
  <2> QED
    BY <2>1, <2>2, <2>3, AnswersStep
<1>3. Sound(WorkerUsage)
  BY WorkerUsageSound
<1>4. got[t].usage # None => Sound(got[t].usage)
  BY DEF SoundReports
<1> QED
  BY <1>2, <1>3, <1>4

LEMMA HonestStep == RecordsOK /\ PagesOK /\ HonestPages /\ [Next]_vars => HonestPages'
<1> SUFFICES ASSUME RecordsOK, PagesOK, HonestPages, [Next]_vars, NEW t \in Tab
             PROVE  Honest(t)'
  BY DEF HonestPages
<1>1. Honest(t) /\ got[t] \in Brought
  BY DEF HonestPages, PagesOK
<1>2. CASE /\ UNCHANGED <<got[t], pending[t]>> /\ had'[t] \subseteq had[t]
           /\ pending[t] # {} => had'[t] \subseteq Has' \/ UNCHANGED <<had[t], Has>>
  <2>1. pending'[t] # {} => had'[t] \subseteq Has'
    BY <1>1, <1>2 DEF Honest
  <2>2. got'[t].usage # None => HonestUsage(got'[t].usage, had'[t])
    BY <1>1, <1>2, FewerFacts DEF Honest
  <2>3. got'[t].keys # None => HonestKeys(got'[t].keys, had'[t])
    BY <1>1, <1>2, FewerFacts DEF Honest
  <2>4. got'[t].status # None => HonestStatus(got'[t].status, had'[t])
    BY <1>1, <1>2, FewerFacts DEF Honest
  <2> QED
    BY <2>1, <2>2, <2>3, <2>4 DEF Honest
<1>3. CASE got'[t] = Nothing /\ had'[t] = Has /\ UNCHANGED Has
  BY <1>3, NothingRead DEF Honest
<1>4. CASE /\ pending[t] # {} /\ UNCHANGED <<had[t], Has>>
           /\ \E r \in Reads : \E a \in {Answer(r), None} : got'[t] = [got[t] EXCEPT ![r] = a]
  <2>1. had[t] \subseteq Has /\ had'[t] = had[t] /\ Has' = Has
    BY <1>1, <1>4 DEF Honest
  <2>2. HonestUsage(WorkerUsage, had[t]) /\ HonestKeys(keys, had[t]) /\ HonestStatus(sub, had[t])
    BY <2>1, WorkerHonest, FewerFacts
  <2>3. /\ got'[t].usage \in {got[t].usage, WorkerUsage, None}
        /\ got'[t].keys \in {got[t].keys, keys, None}
        /\ got'[t].status \in {got[t].status, sub, None}
    BY <1>1, <1>4, OneRead
  <2>4. got'[t].usage # None => HonestUsage(got'[t].usage, had'[t])
    BY <1>1, <2>1, <2>2, <2>3 DEF Honest
  <2>5. got'[t].keys # None => HonestKeys(got'[t].keys, had'[t])
    BY <1>1, <2>1, <2>2, <2>3 DEF Honest
  <2>6. got'[t].status # None => HonestStatus(got'[t].status, had'[t])
    BY <1>1, <2>1, <2>2, <2>3 DEF Honest
  <2> QED
    BY <2>1, <2>4, <2>5, <2>6 DEF Honest
<1> QED
  BY <1>2, <1>3, <1>4, AnswersStep

(* The overages that stood while a page was loading: the worker's steps    *)
(* add to them, a visit begins anew, and a read brings the last of them.   *)
LEMMA OwedStep == RecordsOK /\ PagesOK /\ OwedPages /\ [Next]_vars => OwedPages'
<1> SUFFICES ASSUME RecordsOK, PagesOK, OwedPages, [Next]_vars PROVE OwedPages'
  OBVIOUS
<1>0. DOMAIN owed = Tab /\ \A t \in Tab : Owing(t)
  BY DEF OwedPages
<1>1. CASE Recorded
  <2>1. DOMAIN owed' = Tab
    BY <1>1 DEF Recorded
  <2>2. ASSUME NEW t \in Tab PROVE Owing(t)'
    <3>1. got'[t] = got[t] /\ pending'[t] = pending[t]
      BY <1>1 DEF Recorded
    <3>2. owed'[t] = IF pending[t] = {} THEN owed[t] ELSE owed[t] \cup {Beyond'}
      BY <1>1 DEF Recorded
    <3> QED
      BY <1>0, <3>1, <3>2 DEF Owing
  <2> QED
    BY <2>1, <2>2 DEF OwedPages
<1>2. UNCHANGED <<live, sub>> => UNCHANGED Beyond
  BY DEF Beyond
<1>3. ASSUME NEW u \in Tab, NEW p \in Visits, Visit(u, p) PROVE OwedPages'
  <2>1. DOMAIN owed' = Tab /\ Beyond' = Beyond
    BY <1>0, <1>2, <1>3 DEF Visit
  <2>2. ASSUME NEW t \in Tab PROVE Owing(t)'
    <3>1. CASE t = u
      <4>1. got'[t] = Nothing /\ owed'[t] = {Beyond}
        BY <1>0, <1>3, <3>1 DEF Visit, PagesOK
      <4> QED
        BY <2>1, <4>1, NothingRead DEF Owing
    <3>2. CASE t # u
      <4>1. got'[t] = got[t] /\ pending'[t] = pending[t] /\ owed'[t] = owed[t]
        BY <1>0, <1>3, <3>2 DEF Visit, PagesOK
      <4> QED
        BY <1>0, <2>1, <4>1 DEF Owing
    <3> QED
      BY <3>1, <3>2
  <2> QED
    BY <2>1, <2>2 DEF OwedPages
<1>4. ASSUME NEW u \in Tab, NEW r \in Reads, Read(u, r) PROVE OwedPages'
  <2>1. owed' = owed /\ Beyond' = Beyond
    BY <1>2, <1>4 DEF Read, recordVars, historyVars
  <2>2. PICK a \in {Answer(r), None} : got' = [got EXCEPT ![u][r] = a]
    BY <1>4 DEF Read
  <2>3. ASSUME NEW t \in Tab PROVE Owing(t)'
    <3>1. CASE t = u
      <4>1. pending[t] # {} /\ Beyond \in owed[t] /\ got[t] \in Brought
        BY <1>0, <1>4, <3>1 DEF Read, Owing, PagesOK
      <4>2. got'[t] = [got[t] EXCEPT ![r] = a]
        BY <2>2, <3>1 DEF PagesOK
      <4>3. got'[t].usage \in {got[t].usage, WorkerUsage, None}
        BY <4>1, <4>2, OneRead
      <4>4. got'[t].usage # None => got'[t].usage.overage \in owed[t]
        BY <1>0, <4>1, <4>3, WorkerOverage DEF Owing
      <4> QED
        BY <2>1, <4>1, <4>4 DEF Owing
    <3>2. CASE t # u
      <4>1. got'[t] = got[t] /\ pending'[t] = pending[t]
        BY <1>4, <2>2, <3>2 DEF Read, PagesOK
      <4> QED
        BY <1>0, <2>1, <4>1 DEF Owing
    <3> QED
      BY <3>1, <3>2
  <2> QED
    BY <1>0, <2>1, <2>3 DEF OwedPages
<1>5. UNCHANGED <<live, sub, got, pending, owed>> => OwedPages'
  BY <1>0, <1>2 DEF OwedPages, Owing
<1>6. ASSUME NEW u \in Tab, Within(u) PROVE OwedPages'
  <2>1. UNCHANGED <<live, sub, got, pending, owed>>
    BY <1>6 DEF Within, Choose, Subscribe, InitRefused, NewSample, ThresholdChange, recordVars,
                historyVars
  <2> QED
    BY <1>5, <2>1
<1>7. CASE UNCHANGED vars
  BY <1>5, <1>7 DEF vars, recordVars, historyVars
<1> QED
  BY <1>1, <1>3, <1>4, <1>6, <1>7, StepKinds

LEMMA InitOK == Init => IInv
<1> SUFFICES ASSUME Init PROVE IInv
  OBVIOUS
<1>1. RecordsOK
  <2>1. daily \in Seq(Nat) /\ daily # <<>> /\ Sum(daily) = 0
    <3>1. <<1>> \in Seq(Nat) /\ <<1>> # <<>> /\ 0 \in Nat
      OBVIOUS
    <3>2. <<0>> \in Seq(Nat) /\ <<0>> # <<>> /\ Sum(<<0>>) = 0
      BY <3>1, DayKinds
    <3> QED
      BY <3>2 DEF Init
  <2>2. keys \in Seq(KeyInfo) /\ sub \in SubscriptionStatus
    BY DashboardAssumption DEF Init
  <2>3. firstDay \in 0..6 /\ refused \in [Class -> Nat] /\ live = 0
    BY DashboardAssumption DEF Init
  <2> QED
    BY <2>1, <2>2, <2>3 DEF RecordsOK
<1>2. PagesOK
  BY DEF Init, PagesOK, Pages, Nothing, Brought, Interval
<1>3. SoundReports /\ HonestPages /\ OwedPages
  <2>1. (\A t \in Tab : pending[t] = {} /\ got[t] = Nothing) /\ DOMAIN owed = Tab
    BY DEF Init
  <2> QED
    BY <2>1, NothingRead DEF SoundReports, HonestPages, Honest, OwedPages, Owing
<1> QED
  BY <1>1, <1>2, <1>3 DEF IInv

(* At every step the worker's records add up, what a page was brought is   *)
(* a report by its plan's numbers, says of each thing the owner had all    *)
(* the time the page was loading that it is there, and names an overage    *)
(* that stood at some moment of it.                                        *)
THEOREM DashboardInvariant == Spec => []IInv
<1>1. Init => IInv
  BY InitOK
<1>2. IInv /\ [Next]_vars => IInv'
  BY RecordsStep, PagesStep, SoundStep, HonestStep, OwedStep DEF IInv
<1> QED
  BY <1>1, <1>2, PTL DEF Spec

-----------------------------------------------------------------------------
(* What the pages say.                                                     *)

Caps == {1000, 10000, 100000}

(* The caps are the three of the price list, and a meter is a number.      *)
LEMMA CapKinds ==
  ASSUME NEW u \in OwnerUsage, Sound(u), u.cap # None
  PROVE  u.tier \in Tier /\ u.cap \in Caps
<1>1. u.tier \in Tier \cup {None} /\ u.tier # None
  BY DEF OwnerUsage, Sound
<1> QED
  BY <1>1, TierNumbers DEF Sound, Caps

LEMMA MeterType ==
  ASSUME NEW parses \in Nat, NEW cap \in Caps
  PROVE  /\ UsagePercent(parses, cap) \in Nat
         /\ parses > cap => UsagePercent(parses, cap) = 100
<1>0. cap # None
  BY NoneIsNothing DEF Caps
<1>1. PICK p \in Nat : p = RoundDiv(100 * parses, cap) /\ (parses > cap => p >= 100)
  <2>1. RoundDiv(100 * parses, cap) \in Nat
        /\ (parses > cap => RoundDiv(100 * parses, cap) >= 100)
    <3>1. CASE cap = 1000
      BY <3>1 DEF RoundDiv
    <3>2. CASE cap = 10000
      BY <3>2 DEF RoundDiv
    <3>3. CASE cap = 100000
      BY <3>3 DEF RoundDiv
    <3> QED
      BY <3>1, <3>2, <3>3 DEF Caps
  <2> QED
    BY <2>1
<1>2. UsagePercent(parses, cap) = Min({100, p})
  BY <1>0, <1>1 DEF UsagePercent
<1>3. Min({100, p}) = IF 100 <= p THEN 100 ELSE p
  BY MinTwo
<1> QED
  BY <1>1, <1>2, <1>3

(* A page that is drawn has what it needs.                                 *)
LEMMA DrawnHas ==
  ASSUME PagesOK, NEW t \in Tab
  PROVE  /\ Drawn(t, "overview") => got[t].usage \in OwnerUsage /\ got[t].usage # None
                                    /\ got[t].keys \in Seq(KeyInfo) /\ got[t].keys # None
         /\ Drawn(t, "usage") => got[t].usage \in OwnerUsage /\ got[t].usage # None
         /\ Drawn(t, "billing") => got[t].status # None
<1>1. got[t] \in Brought
  BY DEF PagesOK
<1>2. Drawn(t, "overview") => got[t].usage # None /\ got[t].keys # None
  BY DEF Drawn, Unavailable, Needs
<1>3. Drawn(t, "usage") => got[t].usage # None
  BY DEF Drawn, Unavailable, Needs
<1>4. Drawn(t, "billing") => got[t].status # None
  BY DEF Drawn, Unavailable, Needs
<1> QED
  BY <1>1, <1>2, <1>3, <1>4 DEF Brought

(* The list of recent keys is empty only without a key.                    *)
LEMMA RecentEmpty ==
  ASSUME NEW ks \in Seq(KeyInfo), RecentKeys(ks).none # {}
  PROVE  ks = <<>> /\ RecentKeys(ks).none = {"key"}
<1> DEFINE recent == SubSeq(ks, 1, Min({3, Len(ks)}))
<1>1. PICK m \in 0..3 : m = Min({3, Len(ks)}) /\ m <= Len(ks) /\ (m = 0 => Len(ks) = 0)
  <2>1. 3 \in Int /\ Len(ks) \in Nat
    OBVIOUS
  <2>2. Min({3, Len(ks)}) = IF 3 <= Len(ks) THEN 3 ELSE Len(ks)
    BY <2>1, MinTwo
  <2> HIDE DEF recent
  <2> QED
    BY <2>1, <2>2
<1>2. Len(SubSeq(ks, 1, m)) = m
  <2>1. 1 \in Int /\ m \in Nat /\ m <= Len(ks)
    BY <1>1
  <2> HIDE DEF recent
  <2> QED
    BY <2>1, SubSeqLength
<1>3. recent = SubSeq(ks, 1, m)
  BY <1>1
<1>4. RecentKeys(ks).none = IF recent = <<>> THEN {"key"} ELSE {}
  BY DEF RecentKeys
<1> HIDE DEF recent
<1>5. recent = <<>>
  BY <1>4
<1>6. Len(<<>>) = 0
  OBVIOUS
<1>7. Len(ks) = 0
  BY <1>1, <1>2, <1>3, <1>5, <1>6
<1> QED
  BY <1>4, <1>5, <1>7

(* The pages say none of a fact only when it is not so.                    *)
LEMMA OverviewHonest ==
  ASSUME NEW u \in OwnerUsage, Sound(u), NEW ks \in Seq(KeyInfo),
         NEW facts, HonestUsage(u, facts), HonestKeys(ks, facts)
  PROVE  (Overview(u, ks).none \cup CycleCard(u).none \cup RecentKeys(ks).none
            \cup IF GetStarted(u, ks) = "create" THEN {"key"} ELSE {}) \cap facts = {}
<1>1. ASSUME "plan" \in Overview(u, ks).none PROVE "plan" \notin facts
  <2>1. UsagePercent(u.parses, u.cap) = None
    BY <1>1 DEF Overview
  <2>2. u.cap = None
    <3> SUFFICES ASSUME u.cap # None PROVE FALSE
      OBVIOUS
    <3>1. PICK c \in Caps : c = u.cap
      BY CapKinds
    <3>2. PICK p \in Nat : p = u.parses
      BY DEF OwnerUsage
    <3>3. UsagePercent(p, c) \in Nat
      BY MeterType
    <3> QED
      BY <2>1, <3>1, <3>2, <3>3, NoneIsNothing
  <2> QED
    BY <2>2 DEF HonestUsage
<1>2. "attempt" \in Overview(u, ks).none => "attempt" \notin facts
  BY DEF Overview, HonestUsage
<1>3. "active key" \in Overview(u, ks).none => "active key" \notin facts
  BY DEF Overview, HonestKeys
<1>4. Overview(u, ks).none \subseteq {"plan", "attempt", "active key"}
  BY DEF Overview
<1>5. CycleCard(u).none \subseteq {"parse"} /\ ("parse" \in CycleCard(u).none => Sum(u.daily) = 0)
  BY DEF CycleCard, Summary
<1>6. "parse" \in CycleCard(u).none => "parse" \notin facts
  BY <1>5 DEF HonestUsage
<1>7. RecentKeys(ks).none \subseteq {"key"} /\ ("key" \in RecentKeys(ks).none => ks = <<>>)
  BY RecentEmpty
<1>8. GetStarted(u, ks) = "create" => ks = <<>>
  BY NoneIsNothing DEF GetStarted
<1>9. ks = <<>> => "key" \notin facts
  BY DEF HonestKeys
<1>10. Overview(u, ks).none \cap facts = {}
  BY <1>1, <1>2, <1>3, <1>4
<1>11. CycleCard(u).none \cap facts = {}
  BY <1>5, <1>6
<1>12. (RecentKeys(ks).none
          \cup IF GetStarted(u, ks) = "create" THEN {"key"} ELSE {}) \cap facts = {}
  BY <1>7, <1>8, <1>9
<1> QED
  BY <1>10, <1>11, <1>12

LEMMA UsageHonest ==
  ASSUME NEW u \in OwnerUsage, NEW facts, HonestUsage(u, facts)
  PROVE  UsagePage(u).none \cap facts = {}
<1>1. UsagePage(u).none \subseteq {"plan", "attempt", "parse", "refusal"}
  BY DEF UsagePage
<1>2. "plan" \in UsagePage(u).none => u.cap = None
  BY DEF UsagePage
<1>3. "attempt" \in UsagePage(u).none => Attempts(u) = 0
  BY DEF UsagePage
<1>4. "parse" \in UsagePage(u).none => Sum(u.daily) = 0
  BY DEF UsagePage, Summary
<1>5. "refusal" \in UsagePage(u).none => TotalRefused(u) = 0
  BY DEF UsagePage
<1> QED
  BY <1>1, <1>2, <1>3, <1>4, <1>5 DEF HonestUsage

(* No page tells an owner he has no plan, key, parse, attempt or refusal   *)
(* when he had one all the time the page was loading, whichever of its     *)
(* reads failed and whatever changed between them.                         *)
THEOREM PagesNeverTellNone == Spec => []NeverToldNone
<1>1. IInv => NeverToldNone
  <2> SUFFICES ASSUME IInv, NEW t \in Tab
      PROVE  /\ Drawn(t, "overview") =>
                  (Overview(got[t].usage, got[t].keys).none \cup CycleCard(got[t].usage).none
                     \cup RecentKeys(got[t].keys).none
                     \cup IF GetStarted(got[t].usage, got[t].keys) = "create"
                          THEN {"key"} ELSE {}) \cap had[t] = {}
             /\ Drawn(t, "usage") => UsagePage(got[t].usage).none \cap had[t] = {}
             /\ Drawn(t, "billing") => BillingPage(got[t].status).none \cap had[t] = {}
    BY DEF NeverToldNone
  <2>1. /\ got[t].usage # None => HonestUsage(got[t].usage, had[t]) /\ Sound(got[t].usage)
        /\ got[t].keys # None => HonestKeys(got[t].keys, had[t])
        /\ got[t].status # None => HonestStatus(got[t].status, had[t])
    BY DEF IInv, HonestPages, Honest, SoundReports
  <2>2. PagesOK
    BY DEF IInv
  <2>3. Drawn(t, "overview") =>
          (Overview(got[t].usage, got[t].keys).none \cup CycleCard(got[t].usage).none
             \cup RecentKeys(got[t].keys).none
             \cup IF GetStarted(got[t].usage, got[t].keys) = "create"
                  THEN {"key"} ELSE {}) \cap had[t] = {}
    BY <2>1, <2>2, DrawnHas, OverviewHonest
  <2>4. Drawn(t, "usage") => UsagePage(got[t].usage).none \cap had[t] = {}
    BY <2>1, <2>2, DrawnHas, UsageHonest
  <2>5. Drawn(t, "billing") => BillingPage(got[t].status).none \cap had[t] = {}
    BY <2>1, <2>2, DrawnHas DEF BillingPage, HonestStatus
  <2> QED
    BY <2>3, <2>4, <2>5
<1> QED
  BY <1>1, DashboardInvariant, PTL

(* Every tint has its reason.                                              *)
LEMMA OverviewExplained ==
  ASSUME NEW u \in OwnerUsage, NEW ks
  PROVE  Explained(Overview(u, ks))
<1> DEFINE v == Overview(u, ks)
<1>1. /\ v.tones["usage"] = UsageTone(u.parses, u.cap, u.overage)
      /\ v.tones["success"] = SuccessTone(u.rate, Attempts(u))
      /\ v.tones["keys"] = KeysTone(ActiveKeys(ks))
      /\ DOMAIN v.tones = {"usage", "success", "keys"}
  BY DEF Overview, Tones
<1>2. /\ "close" \in v.words <=> u.cap # None /\ v.tones["usage"] = "warn"
      /\ "over" \in v.words <=> u.overage > 0
      /\ "below" \in v.words <=> v.tones["success"] = "alert"
      /\ "no active key" \in v.words <=> ActiveKeys(ks) = 0
  BY DEF Overview, Tones
<1>4. u.overage \in Nat /\ u.parses \in Nat
  BY DEF OwnerUsage
<1> HIDE DEF v
<1>5. v.tones["usage"] # "neutral" =>
        \E w \in v.words : <<"usage", v.tones["usage"], w>> \in Reason
  <2>1. v.tones["usage"] \in {"neutral", "alert", "warn"}
        /\ (v.tones["usage"] = "alert" => u.overage > 0)
        /\ (v.tones["usage"] = "warn" => u.cap # None)
    BY <1>1 DEF UsageTone
  <2>2. v.tones["usage"] = "alert" => "over" \in v.words
    BY <1>2, <2>1
  <2>3. v.tones["usage"] = "warn" => "close" \in v.words
    BY <1>2, <2>1
  <2> QED
    BY <2>1, <2>2, <2>3 DEF Reason
<1>6. v.tones["success"] # "neutral" =>
        \E w \in v.words : <<"success", v.tones["success"], w>> \in Reason
  <2>1. v.tones["success"] # "neutral" => v.tones["success"] = "alert"
    BY <1>1 DEF SuccessTone
  <2> QED
    BY <1>2, <2>1 DEF Reason
<1>7. v.tones["keys"] # "neutral" =>
        \E w \in v.words : <<"keys", v.tones["keys"], w>> \in Reason
  <2>1. v.tones["keys"] # "neutral" => v.tones["keys"] = "warn" /\ ActiveKeys(ks) = 0
    BY <1>1 DEF KeysTone
  <2> QED
    BY <1>2, <2>1 DEF Reason
<1> QED
  BY <1>1, <1>5, <1>6, <1>7 DEF Explained, v

LEMMA UsageExplained ==
  ASSUME NEW u \in OwnerUsage, Sound(u)
  PROVE  Explained(UsagePage(u))
<1> DEFINE v == UsagePage(u)
<1>1. v.tones = [usage |-> UsageTone(u.parses, u.cap, u.overage),
                 success |-> SuccessTone(u.rate, Attempts(u)), overage |-> OverageTone(u.overage)]
  BY DEF UsagePage, Tones
<1>2. v.words = {w \in {"close", "over", "below"} :
        CASE w = "close" -> u.cap # None /\ Tones(u).usage = "warn"
          [] w = "over"  -> u.cap # None
          [] OTHER       -> Tones(u).success = "alert"}
  BY DEF UsagePage
<1>3. Tones(u).usage = v.tones["usage"] /\ Tones(u).success = v.tones["success"]
  BY <1>1 DEF Tones
<1>4. u.overage \in Nat /\ (u.overage > 0 => u.cap # None)
  <2>1. u.overage \in Nat /\ u.tier \in Tier \cup {None}
    BY DEF OwnerUsage
  <2>2. u.tier # None => u.cap \in Nat
    BY <2>1, TierNumbers DEF Sound
  <2>3. u.tier = None => u.overage = 0
    BY DEF Sound
  <2> QED
    BY <2>1, <2>2, <2>3, NoneIsNothing
<1> HIDE DEF v
<1>5. v.tones["usage"] # "neutral" =>
        \E w \in v.words : <<"usage", v.tones["usage"], w>> \in Reason
  <2>1. v.tones["usage"] \in {"neutral", "alert", "warn"}
        /\ (v.tones["usage"] # "neutral" => u.cap # None)
    BY <1>1 DEF UsageTone
  <2>2. v.tones["usage"] = "alert" => "over" \in v.words
    BY <1>2, <2>1
  <2>3. v.tones["usage"] = "warn" => "close" \in v.words
    BY <1>2, <1>3, <2>1
  <2> QED
    BY <2>1, <2>2, <2>3 DEF Reason
<1>6. v.tones["success"] # "neutral" =>
        \E w \in v.words : <<"success", v.tones["success"], w>> \in Reason
  <2>1. v.tones["success"] # "neutral" => v.tones["success"] = "alert" /\ "below" \in v.words
    BY <1>1, <1>2, <1>3 DEF SuccessTone
  <2> QED
    BY <2>1 DEF Reason
<1>7. v.tones["overage"] # "neutral" =>
        \E w \in v.words : <<"overage", v.tones["overage"], w>> \in Reason
  <2>1. v.tones["overage"] # "neutral" => v.tones["overage"] = "alert" /\ "over" \in v.words
    BY <1>1, <1>2, <1>4 DEF OverageTone
  <2> QED
    BY <2>1 DEF Reason
<1>8. DOMAIN v.tones = {"usage", "success", "overage"}
  BY <1>1
<1> QED
  BY <1>5, <1>6, <1>7, <1>8 DEF Explained, v

(* A page that tints a tile says why in words, by a test of its own: the   *)
(* usage page says so under a cap, the tone by the overage, and an overage *)
(* comes with a cap.                                                       *)
THEOREM TintsHaveReasons == Spec => []TintsAreExplained
<1>1. IInv => TintsAreExplained
  <2> SUFFICES ASSUME IInv, NEW t \in Tab
      PROVE  /\ Drawn(t, "overview") => Explained(Overview(got[t].usage, got[t].keys))
             /\ Drawn(t, "usage") => Explained(UsagePage(got[t].usage))
    BY DEF TintsAreExplained
  <2>1. PagesOK /\ (got[t].usage # None => Sound(got[t].usage))
    BY DEF IInv, SoundReports
  <2>2. Drawn(t, "overview") => Explained(Overview(got[t].usage, got[t].keys))
    BY <2>1, DrawnHas, OverviewExplained
  <2>3. Drawn(t, "usage") => Explained(UsagePage(got[t].usage))
    BY <2>1, DrawnHas, UsageExplained
  <2> QED
    BY <2>2, <2>3
<1> QED
  BY <1>1, DashboardInvariant, PTL

(* An amount is written as one: its groups are numbers.                    *)
LEMMA GroupsType == \A n \in Nat : Groups[n] \in Seq(Nat)
<1> DEFINE G == {n \in Nat : Groups[n] \in Seq(Nat)}
<1>1. ASSUME NEW n \in Nat, \A m \in Nat : m < n => Groups[m] \in Seq(Nat)
      PROVE  Groups[n] \in Seq(Nat)
  <2>1. CASE n < 1000
    <3>1. Groups[n] = <<n>>
      BY <2>1, GroupsSteps, WrittenShort
    <3>2. <<n>> \in Seq(Nat)
      OBVIOUS
    <3> QED
      BY <3>1, <3>2
  <2>2. CASE ~(n < 1000)
    <3>1. PICK m \in Nat, r \in Nat : m = n \div 1000 /\ m < n /\ r = n % 1000
      BY <2>2
    <3>2. PICK g \in Seq(Nat) : g = Groups[m]
      BY <1>1, <3>1
    <3>3. Groups[n] = Append(g, r)
      <4>1. Groups[n] = Written(n, Groups[n \div 1000])
        BY GroupsSteps
      <4>2. Groups[n] = Written(n, g)
        BY <3>1, <3>2, <4>1
      <4> QED
        BY <2>2, <3>1, <4>2 DEF Written
    <3>4. Append(g, r) \in Seq(Nat)
      OBVIOUS
    <3> QED
      BY <3>3, <3>4
  <2> QED
    BY <2>1, <2>2
<1>2. Nat \subseteq G
  <2>1. \A n \in Nat : (\A m \in Nat : m < n => m \in G) => n \in G
    BY <1>1
  <2> HIDE DEF G
  <2> QED
    BY <2>1, StrongInduction
<1> QED
  BY <1>2

LEMMA DisplayType == \A k \in Int : DisplayMoney(k) \in Money /\ DisplayMoney(k) # None
<1> SUFFICES ASSUME NEW k \in Int PROVE DisplayMoney(k) \in Money
  BY NoneIsNothing
<1>1. PICK a \in Nat : a = IF k < 0 THEN -k ELSE k
  OBVIOUS
<1>2. DisplayMoney(k) = [minus |-> k < 0, naira |-> Groups[a \div 100], kobo |-> a % 100]
  BY <1>1 DEF DisplayMoney
<1>3. PICK g \in Seq(Nat) : g = Groups[a \div 100]
  BY GroupsType
<1>4. PICK c \in 0..99 : c = a % 100
  OBVIOUS
<1>5. PICK b \in BOOLEAN : b = (k < 0)
  <2>1. (k < 0) \in BOOLEAN
    OBVIOUS
  <2> QED
    BY <2>1, Zenon
<1>6. DisplayMoney(k) = [minus |-> b, naira |-> g, kobo |-> c]
  BY <1>2, <1>3, <1>4, <1>5
<1> QED
  BY <1>6 DEF Money

(* What a page that names the overage has of the report, and that it is    *)
(* as quoted.                                                              *)
LEMMA QuotedOverage ==
  ASSUME NEW u \in OwnerUsage, Sound(u), u.tier # None, NEW v,
         v.meter = UsagePercent(u.parses, u.cap),
         v.projected \in {DisplayMoney(u.projected), None},
         u.overage > 0 => v.projected = DisplayMoney(u.projected)
  PROVE  AsQuoted(u, v)
<1>1. u.tier \in Tier /\ u.overage \in Nat /\ u.parses \in Nat
  BY DEF OwnerUsage
<1>2. PICK c \in Caps : c = u.cap /\ c = WorkerTiers[u.tier].cap
  BY <1>1, TierNumbers DEF Sound, Caps
<1>3. c = Quote(u.tier).included
  BY <1>1, <1>2, TierNumbers DEF Quote
<1>4. PICK k \in {15, 12, 8} : k = Quote(u.tier).overage /\ WorkerTiers[u.tier].kobo = 100 * k
  BY <1>1, TierNumbers DEF Quote
<1>5. PICK o \in Nat, p \in Nat : o = u.overage /\ p = u.parses /\ p = Sum(u.daily)
  BY <1>1 DEF Sound
<1>6. PICK n \in Int : n = u.projected /\ n = 100 * o * k
  <2>1. u.projected = o * (100 * k)
    BY <1>4, <1>5 DEF Sound
  <2>2. PICK m \in Int : m = o * (100 * k)
    BY <1>4
  <2>3. m = 100 * o * k
    BY <2>2
  <2> QED
    BY <2>1, <2>2, <2>3
<1>7. v.projected # None => ReadBack(v.projected) = 100 * o * k
  BY <1>6, MoneyReadsBack
<1>8. ASSUME o > 0
      PROVE  v.projected # None /\ v.meter = 100 /\ u.overage <= Summary(u.daily).total - c
  <2>1. p > c /\ o <= p - c
    BY <1>2, <1>5, <1>8 DEF Sound
  <2>2. UsagePercent(p, c) = 100
    BY <2>1, MeterType
  <2>3. v.meter = UsagePercent(p, c) /\ Summary(u.daily).total = p
    BY <1>2, <1>5 DEF Summary
  <2>4. v.projected # None
    BY <1>5, <1>6, <1>8, DisplayType
  <2> QED
    BY <1>5, <2>1, <2>2, <2>3, <2>4
<1> QED
  BY <1>2, <1>3, <1>4, <1>5, <1>7, <1>8 DEF AsQuoted

LEMMA PagesQuote ==
  ASSUME NEW u \in OwnerUsage, Sound(u), NEW ks
  PROVE  AsQuoted(u, Overview(u, ks)) /\ AsQuoted(u, UsagePage(u))
<1>1. u.overage \in Nat /\ u.tier \in Tier \cup {None}
  BY DEF OwnerUsage
<1>2. /\ Overview(u, ks).meter = UsagePercent(u.parses, u.cap)
      /\ UsagePage(u).meter = UsagePercent(u.parses, u.cap)
  BY DEF Overview, UsagePage
<1>3. /\ Overview(u, ks).projected = IF u.overage > 0 THEN DisplayMoney(u.projected) ELSE None
      /\ UsagePage(u).projected = IF u.cap = None THEN None ELSE DisplayMoney(u.projected)
  BY DEF Overview, UsagePage
<1> DEFINE v == Overview(u, ks)
           w == UsagePage(u)
<1> HIDE DEF v, w
<1>4. CASE u.tier = None
  <2>1. u.cap = None /\ u.overage = 0
    BY <1>4 DEF Sound
  <2>2. v.projected = None /\ w.projected = None
    BY <1>3, <2>1 DEF v, w
  <2> QED
    BY <1>4, <2>1, <2>2 DEF AsQuoted, v, w
<1>5. CASE u.tier # None
  <2>1. u.cap # None
    BY <1>1, <1>5, TierNumbers, NoneIsNothing DEF Sound
  <2>2. AsQuoted(u, v)
    BY <1>2, <1>3, <1>5, QuotedOverage DEF v
  <2>3. AsQuoted(u, w)
    BY <1>2, <1>3, <1>5, <2>1, QuotedOverage DEF w
  <2> QED
    BY <2>2, <2>3 DEF v, w
<1> QED
  BY <1>4, <1>5

(* The overage the overview and the usage page name is one that stood      *)
(* while the page was loading: the live parses beyond what the price list  *)
(* includes, at most the parses of the cycle beyond it.  It is projected   *)
(* at the list's rate, read back from its digits, whenever there is one,   *)
(* and beside a full meter, as every live parse is among the parses the    *)
(* meter counts.                                                           *)
THEOREM OverageIsQuoted == Spec => []OverageAsQuoted
<1>1. IInv => OverageAsQuoted
  <2> SUFFICES ASSUME IInv, NEW t \in Tab
      PROVE  /\ Drawn(t, "overview") \/ Drawn(t, "usage") => got[t].usage.overage \in owed[t]
             /\ Drawn(t, "overview") =>
                  AsQuoted(got[t].usage, Overview(got[t].usage, got[t].keys))
             /\ Drawn(t, "usage") => AsQuoted(got[t].usage, UsagePage(got[t].usage))
    BY DEF OverageAsQuoted
  <2>1. /\ PagesOK /\ Owing(t)
        /\ got[t].usage # None => Sound(got[t].usage)
    BY DEF IInv, SoundReports, OwedPages
  <2>2. ASSUME Drawn(t, "overview") \/ Drawn(t, "usage")
        PROVE  got[t].usage \in OwnerUsage /\ got[t].usage # None
    BY <2>1, <2>2, DrawnHas
  <2>3. ASSUME Drawn(t, "overview") \/ Drawn(t, "usage")
        PROVE  /\ got[t].usage.overage \in owed[t]
               /\ AsQuoted(got[t].usage, Overview(got[t].usage, got[t].keys))
               /\ AsQuoted(got[t].usage, UsagePage(got[t].usage))
    BY <2>1, <2>2, <2>3, PagesQuote DEF Owing
  <2> QED
    BY <2>3
<1> QED
  BY <1>1, DashboardInvariant, PTL

-----------------------------------------------------------------------------
(* The calendar.                                                           *)

LEMMA LeadKinds ==
  \A f \in 0..6 : /\ WeekdayIndex(f) \in 0..6
                  /\ WeekdayIndex(f) = IF f = 0 THEN 6 ELSE f - 1
BY DEF WeekdayIndex

LEMMA WholeWeeks ==
  ASSUME NEW n \in Nat
  PROVE  /\ 7 * ((n + 6) \div 7) \in Nat /\ n <= 7 * ((n + 6) \div 7)
         /\ (7 * ((n + 6) \div 7)) % 7 = 0
OBVIOUS

(* The grid has the days in order, in their columns, in whole weeks.       *)
InColumns(cells, days, f) ==
    /\ {cells[i] : i \in DOMAIN cells} \ {None} = 1..days
    /\ \A i, j \in DOMAIN cells :
         i < j /\ cells[i] # None /\ cells[j] # None => cells[i] < cells[j]
    /\ Len(cells) % 7 = 0
    /\ \A i \in DOMAIN cells : cells[i] # None => i % 7 = (f + cells[i] - 1) % 7

LEMMA CellsInTheirColumns ==
  ASSUME NEW days \in Nat, NEW f \in 0..6, NEW cells, cells = Cells(days, f)
  PROVE  InColumns(cells, days, f)
<1>1. PICK lead \in 0..6 : lead = WeekdayIndex(f) /\ lead = IF f = 0 THEN 6 ELSE f - 1
  BY LeadKinds
<1>2. PICK n \in Nat : n = 7 * ((lead + days + 6) \div 7) /\ lead + days <= n /\ n % 7 = 0
  <2>1. PICK m \in Nat : m = lead + days
    BY <1>1
  <2>2. lead + days + 6 = m + 6
    BY <2>1
  <2> QED
    BY <2>1, <2>2, WholeWeeks
<1>3. cells = [i \in 1..n |-> IF i - lead \in 1..days THEN i - lead ELSE None]
  BY <1>1, <1>2 DEF Cells
<1>4. DOMAIN cells = 1..n /\ Len(cells) = n
  BY <1>3
<1>5. \A i \in 1..n : cells[i] # None => i - lead \in 1..days /\ cells[i] = i - lead
  BY <1>3
<1>6. \A d \in 1..days : /\ d + lead \in 1..n /\ cells[d + lead] = d /\ d # None
  <2> SUFFICES ASSUME NEW d \in 1..days
               PROVE  d + lead \in 1..n /\ cells[d + lead] = d /\ d # None
    OBVIOUS
  <2>1. d + lead \in 1..n /\ (d + lead) - lead = d
    BY <1>1, <1>2
  <2>2. d # None
    BY NoneIsNothing
  <2> QED
    BY <1>3, <2>1, <2>2
<1>7. {cells[i] : i \in DOMAIN cells} \ {None} = 1..days
  <2>1. ASSUME NEW d, d \in {cells[i] : i \in DOMAIN cells} \ {None} PROVE d \in 1..days
    BY <1>4, <1>5, <2>1
  <2>2. ASSUME NEW d \in 1..days PROVE d \in {cells[i] : i \in DOMAIN cells} \ {None}
    BY <1>4, <1>6
  <2> QED
    BY <2>1, <2>2
<1>8. \A i, j \in DOMAIN cells :
        i < j /\ cells[i] # None /\ cells[j] # None => cells[i] < cells[j]
  BY <1>4, <1>5
<1>9. \A i \in DOMAIN cells : cells[i] # None => i % 7 = (f + cells[i] - 1) % 7
  <2> SUFFICES ASSUME NEW i \in 1..n, cells[i] # None PROVE i % 7 = (f + cells[i] - 1) % 7
    BY <1>4
  <2>1. cells[i] = i - lead
    BY <1>5
  <2>2. f + (i - lead) - 1 = IF f = 0 THEN i - 7 ELSE i
    BY <1>1
  <2>3. (i - 7) % 7 = i % 7
    OBVIOUS
  <2> QED
    BY <2>1, <2>2, <2>3
<1> QED
  BY <1>2, <1>4, <1>7, <1>8, <1>9, Zenon DEF InColumns

LEMMA CycleType ==
  ASSUME NEW u \in OwnerUsage
  PROVE  u.firstDay \in 0..6 /\ u.daily \in Seq(Nat)
<1>1. u.firstDay \in 0..6
  BY DEF OwnerUsage
<1>2. u.daily \in Seq(Nat)
  BY DEF OwnerUsage
<1> QED
  BY <1>1, <1>2

(* The calendar has every day of the cycle once, in order and under its    *)
(* weekday, in whole weeks, however long the cycle and whichever day it    *)
(* began on.                                                               *)
THEOREM CalendarIsInOrder == Spec => []DaysInTheirColumns
<1>1. IInv => DaysInTheirColumns
  <2> SUFFICES ASSUME IInv, NEW t \in Tab, Drawn(t, "overview")
      PROVE  LET u     == got[t].usage
                 cells == UsageCalendar(u).cells
             IN  /\ {cells[i] : i \in DOMAIN cells} \ {None} = DOMAIN u.daily
                 /\ \A i, j \in DOMAIN cells :
                      i < j /\ cells[i] # None /\ cells[j] # None => cells[i] < cells[j]
                 /\ Len(cells) % 7 = 0
                 /\ \A i \in DOMAIN cells : cells[i] # None =>
                      i % 7 = (u.firstDay + cells[i] - 1) % 7
    BY DEF DaysInTheirColumns
  <2>1. got[t].usage \in OwnerUsage
    BY DrawnHas DEF IInv
  <2>2. PICK d : d = got[t].usage.daily
    OBVIOUS
  <2>3. PICK f \in 0..6 : f = got[t].usage.firstDay
    BY <2>1, CycleType
  <2>4. PICK days \in Nat : days = Len(d) /\ DOMAIN d = 1..days
    BY <2>1, <2>2, CycleType
  <2>5. UsageCalendar(got[t].usage).cells = Cells(days, f)
    BY <2>2, <2>3, <2>4 DEF UsageCalendar
  <2>6. InColumns(UsageCalendar(got[t].usage).cells, days, f)
    BY <2>5, CellsInTheirColumns, Zenon
  <2> QED
    BY <2>2, <2>3, <2>4, <2>6, Zenon DEF InColumns
<1> QED
  BY <1>1, DashboardInvariant, PTL

-----------------------------------------------------------------------------
(* The sample statement, without the local operators it is defined by.     *)

Credit(s, i) == IF s.rows[i].credit THEN 100 * s.rows[i].naira ELSE 0
Debit(s, i)  == IF s.rows[i].credit THEN 0 ELSE 100 * s.rows[i].naira
CreditTo(s, n) == Sum([i \in 1..n |-> Credit(s, i)])
DebitTo(s, n)  == Sum([i \in 1..n |-> Debit(s, i)])
BalanceAfter(s, n) == 100 * s.opening + CreditTo(s, n) - DebitTo(s, n)

LEMMA StatementOf ==
  ASSUME NEW s
  PROVE  SampleStatement(s) =
           [transactions |-> [i \in 1..Len(s.rows) |->
               [salary |-> s.rows[i].salary, debit |-> Debit(s, i), credit |-> Credit(s, i),
                balance |-> BalanceAfter(s, i)]],
            opening |-> 100 * s.opening, closing |-> BalanceAfter(s, Len(s.rows)),
            totals |-> [credit |-> CreditTo(s, Len(s.rows)), debit |-> DebitTo(s, Len(s.rows))]]
BY DEF SampleStatement, Credit, Debit, CreditTo, DebitTo, BalanceAfter

(* What a cell of the table reads as.                                      *)
CellRead(cell) == IF cell = None THEN 0 ELSE ReadBack(cell)

LEMMA AmountReadsBack == \A k \in Int : CellRead(Amount(k)) = k
<1> SUFFICES ASSUME NEW k \in Int PROVE CellRead(Amount(k)) = k
  OBVIOUS
<1>1. CASE k = 0
  BY <1>1 DEF CellRead, Amount
<1>2. CASE k # 0
  <2>1. Amount(k) = DisplayMoney(k) /\ DisplayMoney(k) # None
    BY <1>2, DisplayType DEF Amount
  <2> QED
    BY <2>1, MoneyReadsBack DEF CellRead
<1> QED
  BY <1>1, <1>2

LEMMA RowCount ==
  ASSUME NEW s, Drawable(s)
  PROVE  \E n \in Nat : n = Len(s.rows) /\ DOMAIN s.rows = 1..n /\ n >= 1 /\ n <= PREVIEW_ROWS
<1>1. PICK n : n = Len(s.rows)
  OBVIOUS
<1>2. n \in 8..10 /\ DOMAIN s.rows = 1..n
  BY <1>1 DEF Drawable
<1>3. n \in Nat /\ n >= 1 /\ n <= PREVIEW_ROWS
  BY <1>2 DEF PREVIEW_ROWS
<1> QED
  BY <1>1, <1>2, <1>3, Zenon

(* A row has one amount, and it is not zero.                               *)
RowOK(s, i) ==
    /\ Credit(s, i) \in Nat /\ Debit(s, i) \in Nat
    /\ \/ Credit(s, i) > 0 /\ Debit(s, i) = 0
       \/ Credit(s, i) = 0 /\ Debit(s, i) > 0

LEMMA RowHasOneAmount ==
  ASSUME NEW s, Drawable(s), NEW i \in DOMAIN s.rows
  PROVE  RowOK(s, i)
<1>1. PICK t \in {Salary} \cup TEMPLATES : s.rows[i].naira \in t.min..t.max
  BY DEF Drawable
<1>2. t.min \in Nat /\ t.max \in Nat /\ t.min > 0
  <2>1. CASE t = Salary
    BY <2>1 DEF Salary
  <2>2. CASE t \in TEMPLATES
    BY <2>2 DEF TEMPLATES
  <2> QED
    BY <2>1, <2>2
<1>3. PICK n \in Nat : n = s.rows[i].naira /\ n > 0
  BY <1>1, <1>2
<1>4. Credit(s, i) = (IF s.rows[i].credit THEN 100 * n ELSE 0)
      /\ Debit(s, i) = (IF s.rows[i].credit THEN 0 ELSE 100 * n)
  BY <1>3 DEF Credit, Debit
<1> QED
  BY <1>3, <1>4 DEF RowOK

(* The balance runs through the rows.                                      *)
LEMMA RunningSum ==
  ASSUME NEW n \in Nat, NEW f, f = [i \in 1..(n + 1) |-> f[i]], \A i \in 1..(n + 1) : f[i] \in Nat,
         NEW g, g = [i \in 1..n |-> f[i]]
  PROVE  Sum(f) = Sum(g) + f[n + 1] /\ Sum(g) \in Nat /\ Sum(f) \in Nat
<1>1. DOMAIN f = 1..(n + 1) /\ DOMAIN g = 1..n /\ \A i \in 1..n : g[i] = f[i]
  BY Zenon
<1>2. f \in Seq(Nat) /\ Len(f) = n + 1
  BY <1>1
<1>3. g \in Seq(Nat) /\ Len(g) = n
  <2>1. \A i \in 1..n : g[i] \in Nat
    BY <1>1
  <2>2. g = [i \in 1..n |-> g[i]]
    BY <1>1, Zenon
  <2> QED
    BY <2>1, <2>2, FunctionIsSeq
<1>4. f \in Seq(Int) /\ g \in Seq(Int) /\ Len(f) = Len(g) + 1 /\ \A i \in 1..Len(g) : f[i] = g[i]
  BY <1>1, <1>2, <1>3
<1>5. Sum(f) = Sum(g) + f[Len(f)]
  BY <1>4, SumLast
<1>6. Sum(f) \in Nat /\ Sum(g) \in Nat
  BY <1>2, <1>3, SumSeqNat
<1> QED
  BY <1>2, <1>5, <1>6

LEMMA ToSteps ==
  ASSUME NEW s, Drawable(s), NEW n \in Nat, n + 1 <= Len(s.rows)
  PROVE  /\ CreditTo(s, n + 1) = CreditTo(s, n) + Credit(s, n + 1)
         /\ DebitTo(s, n + 1) = DebitTo(s, n) + Debit(s, n + 1)
         /\ CreditTo(s, n) \in Nat /\ CreditTo(s, n + 1) \in Nat
         /\ DebitTo(s, n) \in Nat /\ DebitTo(s, n + 1) \in Nat
<1>0. \A i \in 1..(n + 1) : Credit(s, i) \in Nat /\ Debit(s, i) \in Nat
  <2>1. PICK all \in Nat : all = Len(s.rows) /\ DOMAIN s.rows = 1..all
    BY RowCount, Zenon
  <2>2. 1..(n + 1) \subseteq DOMAIN s.rows
    BY <2>1
  <2> QED
    BY <2>2, RowHasOneAmount DEF RowOK
<1>1. PICK f : f = [i \in 1..(n + 1) |-> Credit(s, i)]
  OBVIOUS
<1>2. PICK g : g = [i \in 1..n |-> Credit(s, i)]
  OBVIOUS
<1>3. Sum(f) = Sum(g) + f[n + 1] /\ Sum(g) \in Nat /\ Sum(f) \in Nat
  <2>1. f = [i \in 1..(n + 1) |-> f[i]] /\ g = [i \in 1..n |-> f[i]]
    BY <1>1, <1>2
  <2>2. \A i \in 1..(n + 1) : f[i] \in Nat
    BY <1>0, <1>1
  <2> QED
    BY <2>1, <2>2, RunningSum
<1>4. PICK d : d = [i \in 1..(n + 1) |-> Debit(s, i)]
  OBVIOUS
<1>5. PICK e : e = [i \in 1..n |-> Debit(s, i)]
  OBVIOUS
<1>6. Sum(d) = Sum(e) + d[n + 1] /\ Sum(e) \in Nat /\ Sum(d) \in Nat
  <2>1. d = [i \in 1..(n + 1) |-> d[i]] /\ e = [i \in 1..n |-> d[i]]
    BY <1>4, <1>5
  <2>2. \A i \in 1..(n + 1) : d[i] \in Nat
    BY <1>0, <1>4
  <2> QED
    BY <2>1, <2>2, RunningSum
<1>7. f[n + 1] = Credit(s, n + 1) /\ d[n + 1] = Debit(s, n + 1)
  BY <1>1, <1>4
<1>8. CreditTo(s, n + 1) = Sum(f) /\ CreditTo(s, n) = Sum(g)
  BY <1>1, <1>2 DEF CreditTo
<1>9. DebitTo(s, n + 1) = Sum(d) /\ DebitTo(s, n) = Sum(e)
  BY <1>4, <1>5 DEF DebitTo
<1> QED
  BY <1>3, <1>6, <1>7, <1>8, <1>9

(* Before the first row nothing has come or gone.                          *)
LEMMA ToNothing == \A s : CreditTo(s, 0) = 0 /\ DebitTo(s, 0) = 0
<1>1. ASSUME NEW f, DOMAIN f = {} PROVE Sum(f) = 0
  <2>1. IntValued(f)
    BY <1>1, FS_EmptySet DEF IntValued
  <2> QED
    BY <1>1, <2>1, SumOverEmpty, SumType
<1>2. 1..0 = {}
  OBVIOUS
<1>3. ASSUME NEW s PROVE CreditTo(s, 0) = 0 /\ DebitTo(s, 0) = 0
  <2>1. PICK f : f = [i \in 1..0 |-> Credit(s, i)]
    OBVIOUS
  <2>2. PICK d : d = [i \in 1..0 |-> Debit(s, i)]
    OBVIOUS
  <2>3. DOMAIN f = {} /\ DOMAIN d = {}
    BY <1>2, <2>1, <2>2, Zenon
  <2> QED
    BY <1>1, <2>1, <2>2, <2>3 DEF CreditTo, DebitTo
<1> QED
  BY <1>3

(* The balances are numbers, and move by the row's amounts.                *)
LEMMA BalanceSteps ==
  ASSUME NEW s, Drawable(s), NEW i \in 1..Len(s.rows)
  PROVE  /\ BalanceAfter(s, i) \in Int /\ BalanceAfter(s, i - 1) \in Int
         /\ BalanceAfter(s, i) = BalanceAfter(s, i - 1) + Credit(s, i) - Debit(s, i)
<1>1. PICK n \in Nat : i = n + 1
  <2>1. i \in Nat /\ i >= 1
    BY DEF Drawable
  <2>2. i - 1 \in Nat /\ i = (i - 1) + 1
    BY <2>1
  <2> QED
    BY <2>2
<1>2. n + 1 <= Len(s.rows) /\ i - 1 = n
  BY <1>1 DEF Drawable
<1>3. /\ CreditTo(s, n + 1) = CreditTo(s, n) + Credit(s, n + 1)
      /\ DebitTo(s, n + 1) = DebitTo(s, n) + Debit(s, n + 1)
      /\ CreditTo(s, n) \in Nat /\ CreditTo(s, n + 1) \in Nat
      /\ DebitTo(s, n) \in Nat /\ DebitTo(s, n + 1) \in Nat
  BY <1>2, ToSteps
<1>4. Credit(s, n + 1) \in Nat /\ Debit(s, n + 1) \in Nat
  <2>1. n + 1 \in DOMAIN s.rows
    BY <1>1 DEF Drawable
  <2> QED
    BY <2>1, RowHasOneAmount DEF RowOK
<1>5. PICK o \in Nat : o = s.opening
  BY DEF Drawable
<1>6. BalanceAfter(s, n + 1) = 100 * o + CreditTo(s, n + 1) - DebitTo(s, n + 1)
      /\ BalanceAfter(s, n) = 100 * o + CreditTo(s, n) - DebitTo(s, n)
  BY <1>5 DEF BalanceAfter
<1>7. BalanceAfter(s, n + 1) = BalanceAfter(s, n) + Credit(s, n + 1) - Debit(s, n + 1)
      /\ BalanceAfter(s, n + 1) \in Int /\ BalanceAfter(s, n) \in Int
  <2>1. PICK c \in Nat, d \in Nat, k \in Nat, m \in Nat :
          c = CreditTo(s, n) /\ d = DebitTo(s, n) /\ k = Credit(s, n + 1) /\ m = Debit(s, n + 1)
    BY <1>3, <1>4
  <2>2. BalanceAfter(s, n) = 100 * o + c - d
    BY <1>6, <2>1
  <2>3. BalanceAfter(s, n + 1) = 100 * o + (c + k) - (d + m)
    BY <1>3, <1>6, <2>1
  <2>4. 100 * o + (c + k) - (d + m) = (100 * o + c - d) + k - m
        /\ 100 * o + (c + k) - (d + m) \in Int /\ 100 * o + c - d \in Int
    OBVIOUS
  <2> QED
    BY <2>1, <2>2, <2>3, <2>4, Zenon
<1> QED
  BY <1>1, <1>2, <1>7

(* A card's amount is the row's credit, or its debit.                      *)
LEMMA CardOf ==
  ASSUME NEW t
  PROVE  /\ t.credit # 0 => /\ MobileRow(t).isCredit = TRUE
                            /\ MobileRow(t).amount = DisplayMoney(t.credit)
         /\ t.credit = 0 => /\ MobileRow(t).isCredit = FALSE
                            /\ MobileRow(t).amount = DisplayMoney(t.debit)
<1>1. ASSUME t.credit # 0
      PROVE  MobileRow(t) = [isCredit |-> TRUE, amount |-> DisplayMoney(t.credit),
                             balance |-> DisplayMoney(t.balance)]
  <2>1. (t.credit # 0) = TRUE
    BY <1>1, Zenon
  <2> QED
    BY <1>1, <2>1, Zenon DEF MobileRow
<1>2. ASSUME t.credit = 0
      PROVE  MobileRow(t) = [isCredit |-> FALSE, amount |-> DisplayMoney(t.debit),
                             balance |-> DisplayMoney(t.balance)]
  <2>1. (t.credit # 0) = FALSE
    BY <1>2, Zenon
  <2> QED
    BY <1>2, <2>1, Zenon DEF MobileRow
<1> QED
  BY <1>1, <1>2

(* The table has every row, as it was drawn.                               *)
AsDrawn(table, s, i) ==
    /\ table.rows[i].debit = Amount(Debit(s, i))
    /\ table.rows[i].credit = Amount(Credit(s, i))
    /\ table.rows[i].balance = DisplayMoney(BalanceAfter(s, i))
    /\ Credit(s, i) # 0 => /\ table.cards[i].isCredit = TRUE
                           /\ table.cards[i].amount = DisplayMoney(Credit(s, i))
    /\ Credit(s, i) = 0 => /\ table.cards[i].isCredit = FALSE
                           /\ table.cards[i].amount = DisplayMoney(Debit(s, i))

LEMMA TableOf ==
  ASSUME NEW s, Drawable(s), NEW table, table = TransactionTable(SampleStatement(s), FALSE)
  PROVE  /\ Len(table.rows) = Len(s.rows) /\ ~table.hasMore
         /\ \A i \in 1..Len(s.rows) : AsDrawn(table, s, i)
         /\ table.credit = DisplayMoney(CreditTo(s, Len(s.rows)))
         /\ table.debit = DisplayMoney(DebitTo(s, Len(s.rows)))
<1>1. PICK all \in Nat : all = Len(s.rows) /\ all <= PREVIEW_ROWS
  BY RowCount, Zenon
<1>2. PICK txs : txs = [i \in 1..all |->
               [salary |-> s.rows[i].salary, debit |-> Debit(s, i), credit |-> Credit(s, i),
                balance |-> BalanceAfter(s, i)]]
  OBVIOUS
<1>3. PICK data : data = SampleStatement(s)
  OBVIOUS
<1>4. data.transactions = txs /\ data.totals.credit = CreditTo(s, all)
      /\ data.totals.debit = DebitTo(s, all)
  BY <1>1, <1>2, <1>3, StatementOf
<1>5. DOMAIN txs = 1..all /\ Len(txs) = all
      /\ \A i \in 1..all : txs[i] = [salary |-> s.rows[i].salary, debit |-> Debit(s, i),
                                     credit |-> Credit(s, i), balance |-> BalanceAfter(s, i)]
  BY <1>2
<1>6. PICK shown : shown = Preview(data, FALSE)
  OBVIOUS
<1>7. DOMAIN shown = 1..all /\ Len(shown) = all /\ \A i \in 1..all : shown[i] = txs[i]
  <2>1. Min({PREVIEW_ROWS, all}) = all
    BY <1>1, MinTwo DEF PREVIEW_ROWS
  <2>2. shown = SubSeq(txs, 1, all)
    BY <1>4, <1>5, <1>6, <2>1 DEF Preview
  <2>3. txs = [i \in 1..all |-> txs[i]]
    BY <1>2
  <2> QED
    BY <2>2, <2>3, WholeSubSeq
<1>8. /\ table.rows = [i \in DOMAIN shown |->
            [debit |-> Amount(shown[i].debit), credit |-> Amount(shown[i].credit),
             balance |-> DisplayMoney(shown[i].balance)]]
      /\ table.cards = [i \in DOMAIN shown |-> MobileRow(shown[i])]
      /\ table.hasMore = (Len(data.transactions) > PREVIEW_ROWS)
      /\ table.credit = DisplayMoney(data.totals.credit)
      /\ table.debit = DisplayMoney(data.totals.debit)
  BY <1>3, <1>6 DEF TransactionTable
<1>9. Len(table.rows) = all
  <2>1. table.rows = [i \in 1..all |-> table.rows[i]]
    BY <1>7, <1>8
  <2> QED
    BY <2>1, LengthOf
<1>10. ~table.hasMore
  <2>1. Len(data.transactions) = all /\ ~(all > PREVIEW_ROWS)
    BY <1>1, <1>4, <1>5 DEF PREVIEW_ROWS
  <2> QED
    BY <1>8, <2>1, Zenon
<1>11. ASSUME NEW i \in 1..all
       PROVE  AsDrawn(table, s, i)
  <2>1. shown[i].debit = Debit(s, i) /\ shown[i].credit = Credit(s, i)
        /\ shown[i].balance = BalanceAfter(s, i)
    BY <1>5, <1>7
  <2>2. table.rows[i] = [debit |-> Amount(shown[i].debit), credit |-> Amount(shown[i].credit),
                         balance |-> DisplayMoney(shown[i].balance)]
    BY <1>7, <1>8
  <2>3. table.cards[i] = MobileRow(shown[i])
    BY <1>7, <1>8
  <2>4. /\ Credit(s, i) # 0 => /\ table.cards[i].isCredit = TRUE
                               /\ table.cards[i].amount = DisplayMoney(Credit(s, i))
        /\ Credit(s, i) = 0 => /\ table.cards[i].isCredit = FALSE
                               /\ table.cards[i].amount = DisplayMoney(Debit(s, i))
    BY <2>1, <2>3, CardOf
  <2>5. /\ table.rows[i].debit = Amount(Debit(s, i))
        /\ table.rows[i].credit = Amount(Credit(s, i))
        /\ table.rows[i].balance = DisplayMoney(BalanceAfter(s, i))
    <3>1. PICK a, b, c : a = Amount(Debit(s, i)) /\ b = Amount(Credit(s, i))
                         /\ c = DisplayMoney(BalanceAfter(s, i))
      OBVIOUS
    <3>2. PICK row : row = table.rows[i]
      OBVIOUS
    <3>3. row = [debit |-> a, credit |-> b, balance |-> c]
      BY <2>1, <2>2, <3>1, <3>2, Zenon
    <3>4. row.debit = a /\ row.credit = b /\ row.balance = c
      BY <3>3
    <3> QED
      BY <3>1, <3>2, <3>4
  <2> QED
    BY <2>4, <2>5 DEF AsDrawn
<1> QED
  BY <1>1, <1>4, <1>8, <1>9, <1>10, <1>11

(* No part of the score is clamped away by its total.                      *)
LEMMA ScoreAddsUp ==
  ASSUME NEW s, Drawable(s), NEW score, score = ScoreBreakdown(SampleStatement(s))
  PROVE  score.total = score.base + score.salary + score.net + score.spend
<1>1. PICK all \in Nat : all = Len(s.rows) /\ all >= 1
  BY RowCount, Zenon
<1>2. BalanceAfter(s, all) \in Int /\ CreditTo(s, all) \in Nat /\ DebitTo(s, all) \in Nat
  <2>1. PICK n \in Nat : n + 1 = all
    BY <1>1
  <2>2. CreditTo(s, n + 1) \in Nat /\ DebitTo(s, n + 1) \in Nat
    <3>1. n + 1 <= Len(s.rows)
      BY <1>1, <2>1
    <3> QED
      BY <3>1, ToSteps
  <2>3. all \in 1..Len(s.rows)
    BY <1>1
  <2> QED
    BY <2>1, <2>2, <2>3, BalanceSteps
<1>3. PICK data : data = SampleStatement(s)
  OBVIOUS
<1>4. PICK o \in Nat, c \in Int, k \in Nat, d \in Nat :
        data.opening = o /\ data.closing = c /\ data.totals.credit = k /\ data.totals.debit = d
  <2>1. s.opening \in Nat
    BY DEF Drawable
  <2>2. /\ data.opening = 100 * s.opening /\ data.closing = BalanceAfter(s, all)
        /\ data.totals.credit = CreditTo(s, all) /\ data.totals.debit = DebitTo(s, all)
    BY <1>1, <1>3, StatementOf
  <2> QED
    BY <1>2, <2>1, <2>2
<1>5. PICK net \in Int : /\ net = Clamp(RoundDiv(c - o, Max({o \div 100, 1})), 0, 150)
                         /\ 0 <= net /\ net <= 150
  <2>1. c - o \in Int
    OBVIOUS
  <2>2. PICK x \in Int : x = RoundDiv(c - o, Max({o \div 100, 1}))
    BY <2>1, RatioType
  <2>3. 0 \in Int /\ 150 \in Int /\ 0 <= 150
    OBVIOUS
  <2>4. Clamp(x, 0, 150) \in Int /\ 0 <= Clamp(x, 0, 150) /\ Clamp(x, 0, 150) <= 150
    BY <2>3, ClampType
  <2> QED
    BY <2>2, <2>4, Zenon
<1>6. PICK spend \in Int : /\ spend = Clamp(RoundDiv(k - d, Max({k \div 100, 1})), 0, 100)
                           /\ 0 <= spend /\ spend <= 100
  <2>1. k - d \in Int
    OBVIOUS
  <2>2. PICK x \in Int : x = RoundDiv(k - d, Max({k \div 100, 1}))
    BY <2>1, RatioType
  <2>3. 0 \in Int /\ 100 \in Int /\ 0 <= 100
    OBVIOUS
  <2>4. Clamp(x, 0, 100) \in Int /\ 0 <= Clamp(x, 0, 100) /\ Clamp(x, 0, 100) <= 100
    BY <2>3, ClampType
  <2> QED
    BY <2>2, <2>4, Zenon
<1>7. PICK salary \in {0, 100} :
        salary = IF \E i \in DOMAIN data.transactions : data.transactions[i].salary
                 THEN 100 ELSE 0
  OBVIOUS
<1>8. score = [base |-> 500, salary |-> salary, net |-> net, spend |-> spend,
               total |-> Clamp(500 + salary + net + spend, 300, 850)]
  BY <1>3, <1>4, <1>5, <1>6, <1>7 DEF ScoreBreakdown
<1>9. Clamp(500 + salary + net + spend, 300, 850) = 500 + salary + net + spend
  <2>1. PICK x \in Int : x = 500 + salary + net + spend /\ 300 <= x /\ x <= 850
    BY <1>5, <1>6, <1>7
  <2> QED
    BY <2>1, ClampType
<1> QED
  BY <1>8, <1>9

(* A row reads as its amounts, on the table and on a card.                 *)
LEMMA SampleReads ==
  ASSUME NEW s, Drawable(s), NEW table, table = TransactionTable(SampleStatement(s), FALSE),
         NEW i \in 1..Len(s.rows)
  PROVE  /\ CellRead(table.rows[i].credit) = Credit(s, i)
         /\ CellRead(table.rows[i].debit) = Debit(s, i)
         /\ ReadBack(table.rows[i].balance) = BalanceAfter(s, i)
         /\ BalanceAfter(s, i) = BalanceAfter(s, i - 1) + (Credit(s, i) - Debit(s, i))
         /\ Credit(s, i) - Debit(s, i) =
              (IF table.cards[i].isCredit THEN 1 ELSE -1) * ReadBack(table.cards[i].amount)
<1>1. /\ table.rows[i].debit = Amount(Debit(s, i))
      /\ table.rows[i].credit = Amount(Credit(s, i))
      /\ table.rows[i].balance = DisplayMoney(BalanceAfter(s, i))
      /\ Credit(s, i) # 0 => /\ table.cards[i].isCredit = TRUE
                             /\ table.cards[i].amount = DisplayMoney(Credit(s, i))
      /\ Credit(s, i) = 0 => /\ table.cards[i].isCredit = FALSE
                             /\ table.cards[i].amount = DisplayMoney(Debit(s, i))
  <2>1. AsDrawn(table, s, i)
    BY TableOf, Zenon
  <2> QED
    BY <2>1, Zenon DEF AsDrawn
<1>2. PICK c \in Nat, d \in Nat : /\ c = Credit(s, i) /\ d = Debit(s, i)
                                  /\ (c > 0 /\ d = 0) \/ (c = 0 /\ d > 0)
  <2>1. i \in DOMAIN s.rows
    BY DEF Drawable
  <2> QED
    BY <2>1, RowHasOneAmount DEF RowOK
<1>3. c \in Int /\ d \in Int
  OBVIOUS
<1>4. PICK b \in Int, a \in Int : /\ b = BalanceAfter(s, i) /\ a = BalanceAfter(s, i - 1)
                                  /\ b = a + c - d
  BY <1>2, BalanceSteps
<1>5. CellRead(table.rows[i].credit) = c /\ CellRead(table.rows[i].debit) = d
  BY <1>1, <1>2, <1>3, AmountReadsBack, Zenon
<1>6. ReadBack(table.rows[i].balance) = b
  BY <1>1, <1>4, MoneyReadsBack, Zenon
<1>7. c - d = (IF table.cards[i].isCredit THEN 1 ELSE -1) * ReadBack(table.cards[i].amount)
  <2>1. CASE c # 0
    <3>1. table.cards[i].isCredit /\ ReadBack(table.cards[i].amount) = c
      BY <1>1, <1>2, <1>3, <2>1, MoneyReadsBack, Zenon
    <3>2. c - d = 1 * c
      BY <1>2, <2>1
    <3> QED
      BY <3>1, <3>2, Zenon
  <2>2. CASE c = 0
    <3>1. ~table.cards[i].isCredit /\ ReadBack(table.cards[i].amount) = d
      BY <1>1, <1>2, <1>3, <2>2, MoneyReadsBack, Zenon
    <3>2. c - d = (-1) * d
      BY <1>2, <2>2
    <3> QED
      BY <3>1, <3>2, Zenon
  <2> QED
    BY <2>1, <2>2
<1>8. b = a + (c - d)
  BY <1>4
<1> QED
  BY <1>2, <1>4, <1>5, <1>6, <1>7, <1>8, Zenon

(* From the opening balance to the closing one.                            *)
LEMMA ClosingReads ==
  ASSUME NEW s, Drawable(s), NEW table, table = TransactionTable(SampleStatement(s), FALSE)
  PROVE  /\ BalanceAfter(s, 0) = 100 * s.opening
         /\ BalanceAfter(s, Len(s.rows)) =
              100 * s.opening + ReadBack(table.credit) - ReadBack(table.debit)
<1>1. PICK o \in Nat : o = s.opening
  BY DEF Drawable
<1>2. BalanceAfter(s, 0) = 100 * o
  <2>1. BalanceAfter(s, 0) = 100 * o + 0 - 0
    BY <1>1, ToNothing DEF BalanceAfter
  <2> QED
    BY <2>1
<1>3. PICK n \in Nat : n + 1 = Len(s.rows)
  <2>1. PICK m \in Nat : m = Len(s.rows) /\ m >= 1
    BY RowCount, Zenon
  <2>2. m - 1 \in Nat /\ (m - 1) + 1 = m
    BY <2>1
  <2> QED
    BY <2>1, <2>2, Zenon
<1>4. n + 1 <= Len(s.rows)
  BY <1>3
<1>5. CreditTo(s, n + 1) \in Int /\ DebitTo(s, n + 1) \in Int
  BY <1>4, ToSteps
<1>6. /\ table.credit = DisplayMoney(CreditTo(s, n + 1))
      /\ table.debit = DisplayMoney(DebitTo(s, n + 1))
  BY <1>3, TableOf
<1>7. ReadBack(table.credit) = CreditTo(s, n + 1) /\ ReadBack(table.debit) = DebitTo(s, n + 1)
  BY <1>5, <1>6, MoneyReadsBack, Zenon
<1>8. BalanceAfter(s, n + 1) = 100 * s.opening + CreditTo(s, n + 1) - DebitTo(s, n + 1)
  BY DEF BalanceAfter
<1> QED
  BY <1>1, <1>2, <1>3, <1>7, <1>8, Zenon

LEMMA SampleSum ==
  ASSUME NEW s, Drawable(s), NEW v, v.table = TransactionTable(SampleStatement(s), FALSE),
         v.card.score = ScoreBreakdown(SampleStatement(s))
  PROVE  LET n      == Len(v.table.rows)
             read(cell) == IF cell = None THEN 0 ELSE ReadBack(cell)
             change(i)  == read(v.table.rows[i].credit) - read(v.table.rows[i].debit)
             balance(i) == IF i = 0 THEN 100 * s.opening ELSE ReadBack(v.table.rows[i].balance)
             score  == v.card.score
         IN  /\ n = Len(s.rows) /\ ~v.table.hasMore
             /\ \A i \in 1..n :
                  /\ balance(i) = balance(i - 1) + change(i)
                  /\ LET card == v.table.cards[i]
                     IN  change(i) = (IF card.isCredit THEN 1 ELSE -1) * ReadBack(card.amount)
             /\ balance(n) = balance(0) + ReadBack(v.table.credit) - ReadBack(v.table.debit)
             /\ score.total = score.base + score.salary + score.net + score.spend
<1> DEFINE n == Len(v.table.rows)
           change(i)  == CellRead(v.table.rows[i].credit) - CellRead(v.table.rows[i].debit)
           balance(i) == IF i = 0 THEN 100 * s.opening ELSE ReadBack(v.table.rows[i].balance)
<1>1. n = Len(s.rows) /\ ~v.table.hasMore
  BY TableOf
<1>2. n \in Nat /\ n # 0
  <2>1. PICK m \in Nat : m = Len(s.rows) /\ m >= 1
    BY RowCount, Zenon
  <2>2. m # 0
    BY <2>1
  <2> QED
    BY <1>1, <2>1, <2>2, Zenon
<1> HIDE DEF n
<1>3. \A i \in 1..n : balance(i) = BalanceAfter(s, i)
  <2> SUFFICES ASSUME NEW i \in 1..n PROVE balance(i) = BalanceAfter(s, i)
    OBVIOUS
  <2>1. i # 0 /\ i \in 1..Len(s.rows)
    BY <1>1, <1>2
  <2> QED
    BY <2>1, SampleReads, Zenon
<1>4. balance(0) = BalanceAfter(s, 0)
  BY ClosingReads, Zenon
<1>5. \A i \in 1..n : balance(i - 1) = BalanceAfter(s, i - 1)
  <2> SUFFICES ASSUME NEW i \in 1..n PROVE balance(i - 1) = BalanceAfter(s, i - 1)
    OBVIOUS
  <2>1. i - 1 = 0 \/ i - 1 \in 1..n
    BY <1>2
  <2> HIDE DEF balance
  <2> QED
    BY <1>3, <1>4, <2>1, Zenon
<1>6. \A i \in 1..n :
        /\ balance(i) = balance(i - 1) + change(i)
        /\ change(i) = (IF v.table.cards[i].isCredit THEN 1 ELSE -1)
                         * ReadBack(v.table.cards[i].amount)
  <2> SUFFICES ASSUME NEW i \in 1..n
               PROVE  /\ balance(i) = balance(i - 1) + change(i)
                      /\ change(i) = (IF v.table.cards[i].isCredit THEN 1 ELSE -1)
                                       * ReadBack(v.table.cards[i].amount)
    OBVIOUS
  <2>1. i \in 1..Len(s.rows)
    BY <1>1
  <2>2. /\ change(i) = Credit(s, i) - Debit(s, i)
        /\ BalanceAfter(s, i) = BalanceAfter(s, i - 1) + (Credit(s, i) - Debit(s, i))
        /\ Credit(s, i) - Debit(s, i) =
             (IF v.table.cards[i].isCredit THEN 1 ELSE -1) * ReadBack(v.table.cards[i].amount)
    BY <2>1, SampleReads, Zenon
  <2> HIDE DEF balance, change
  <2> QED
    BY <1>3, <1>5, <2>2, Zenon
<1>7. balance(n) = balance(0) + ReadBack(v.table.credit) - ReadBack(v.table.debit)
  <2>1. n \in 1..n
    BY <1>2
  <2>2. balance(n) = BalanceAfter(s, n)
    <3> HIDE DEF balance
    <3> QED
      BY <1>3, <2>1, Zenon
  <2>3. BalanceAfter(s, n) = 100 * s.opening + ReadBack(v.table.credit) - ReadBack(v.table.debit)
    BY <1>1, ClosingReads, Zenon
  <2> QED
    BY <2>2, <2>3, Zenon
<1>8. v.card.score.total =
        v.card.score.base + v.card.score.salary + v.card.score.net + v.card.score.spend
  BY ScoreAddsUp
<1> HIDE DEF balance, change
<1> QED
  BY <1>1, <1>6, <1>7, <1>8, Zenon DEF balance, n, change, CellRead

(* Whatever rows and opening balance are drawn from the templates, the     *)
(* sample statement adds up as it is read: each balance is the one before  *)
(* it and the row's change, on a card as in the table, the last one is the *)
(* first and the totals; no row is hidden; and the score's parts come to   *)
(* its total.                                                              *)
THEOREM SampleReconciles == Spec => []SampleAddsUp
<1>1. IInv => SampleAddsUp
  <2> SUFFICES ASSUME IInv, NEW t \in Tab, panel[t] # None
      PROVE  LET v      == SampleStatementPanel(panel[t])
                 n      == Len(v.table.rows)
                 read(cell) == IF cell = None THEN 0 ELSE ReadBack(cell)
                 change(i)  == read(v.table.rows[i].credit) - read(v.table.rows[i].debit)
                 balance(i) == IF i = 0 THEN 100 * panel[t].sample.opening
                               ELSE ReadBack(v.table.rows[i].balance)
                 score  == v.card.score
             IN  /\ n = Len(panel[t].sample.rows) /\ ~v.table.hasMore
                 /\ \A i \in 1..n :
                      /\ balance(i) = balance(i - 1) + change(i)
                      /\ LET card == v.table.cards[i]
                         IN  change(i) = (IF card.isCredit THEN 1 ELSE -1) * ReadBack(card.amount)
                 /\ balance(n) = balance(0) + ReadBack(v.table.credit) - ReadBack(v.table.debit)
                 /\ score.total = score.base + score.salary + score.net + score.spend
    BY Zenon DEF SampleAddsUp
  <2>1. panel[t] \in [sample : Sample, threshold : Int]
    BY DEF IInv, PagesOK
  <2>2. Drawable(panel[t].sample)
    BY <2>1, DashboardAssumption
  <2>3. /\ SampleStatementPanel(panel[t]).table =
             TransactionTable(SampleStatement(panel[t].sample), FALSE)
        /\ SampleStatementPanel(panel[t]).card.score =
             ScoreBreakdown(SampleStatement(panel[t].sample))
    BY DEF SampleStatementPanel, SampleScoreCard
  <2> QED
    BY <2>2, <2>3, SampleSum, Zenon
<1> QED
  BY <1>1, DashboardInvariant, PTL
=============================================================================
