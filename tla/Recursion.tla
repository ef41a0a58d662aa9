----------------------------- MODULE Recursion -----------------------------
(***************************************************************************)
(* Sums of numbers over finite sets, as MapThenSumSet of the community     *)
(* modules computes them, recursive functions along positions, and a fact  *)
(* on division.                                                            *)
(*                                                                         *)
(* The theorems on induction and on folds in the library take an operator  *)
(* as a parameter, so the lemmas argue by a least counterexample.          *)
(***************************************************************************)
EXTENDS Integers, Sequences, FiniteSetsExt, FiniteSetTheorems, SequenceTheorems,
        WellFoundedInduction, TLAPS

----------------------------------------------------------------------------
(* Division with remainder.                                                *)

\* A number is what division and remainder say, and nothing else is.
LEMMA Division ==
    ASSUME NEW m \in Nat \ {0}
    PROVE  /\ \A h \in Nat : h = m * (h \div m) + (h % m) /\ h \div m \in Nat /\ h % m \in 0..m - 1
           /\ \A t \in Nat : \A r \in 0..m - 1 : (m * t + r) % m = r /\ (m * t + r) \div m = t
<1>1. \A h \in Nat : h = m * (h \div m) + (h % m) /\ h \div m \in Nat /\ h % m \in 0..m - 1
      OBVIOUS
<1>2. ASSUME NEW t \in Nat, NEW r \in 0..m - 1
      PROVE  (m * t + r) % m = r /\ (m * t + r) \div m = t
  <2>1. r \in Nat /\ r < m
        OBVIOUS
  <2>2. (m * t + r) % m = r
        BY <2>1
  <2>3. (m * t + r) \div m = t
        BY <2>1
  <2>   QED BY <2>2, <2>3
<1>   QED BY <1>1, <1>2

----------------------------------------------------------------------------
(* Sums over finite sets.                                                  *)

\* The sum of w over S.
SumOf(w, S) == MapThenSumSet(LAMBDA x : w[x], S)

Pick(s) == CHOOSE x \in s : TRUE

\* What the library's recursion over the subsets of S asks of g.
Adds(g, w, S) ==
    g = [s \in SUBSET S |-> IF s = {} THEN 0 ELSE w[Pick(s)] + g[s \ {Pick(s)}]]

\* The same up to n elements.
Small(S, n) == {s \in SUBSET S : Cardinality(s) <= n}

Partial(w, S, n) ==
    {g \in [Small(S, n) -> Nat] :
        \A s \in Small(S, n) : g[s] = IF s = {} THEN 0 ELSE w[Pick(s)] + g[s \ {Pick(s)}]}

\* What is picked from a set is in the set.
LEMMA PickIn == \A s : s # {} => Pick(s) \in s
BY DEF Pick

\* The subsets of a finite set are finite and not larger; one element less counts one
\* less.
LEMMA Subsets ==
    ASSUME NEW S, IsFiniteSet(S), NEW s \in SUBSET S
    PROVE  /\ IsFiniteSet(s) /\ Cardinality(s) \in Nat /\ Cardinality(s) <= Cardinality(S)
           /\ Cardinality(s) = 0 <=> s = {}
           /\ \A x \in s : s \ {x} \in SUBSET S /\ Cardinality(s \ {x}) = Cardinality(s) - 1
BY FS_Subset, FS_CardinalityType, FS_EmptySet, FS_RemoveElement

\* A set of numbers has a least one.
LEMMA Least ==
    ASSUME NEW T \in SUBSET Nat, T # {}
    PROVE  \E k \in T : \A j \in T : k <= j
<1> DEFINE R == {ss \in Nat \X Nat : ss[1] < ss[2]}
<1>1. IsWellFoundedOn(R, Nat)
      BY NatLessThanWellFounded DEF OpToRel
<1>2. PICK k \in T : \A j \in T : ~(<<j, k>> \in R)
  <2> HIDE DEF R
  <2> QED BY <1>1, WFMin
<1>3. \A j \in T : ~(j < k)
      BY <1>2
<1>   QED BY <1>3

\* There is a solution of the recursion up to n elements.
LEMMA PartialExists ==
    ASSUME NEW S, IsFiniteSet(S), NEW w \in [S -> Nat], NEW n \in Nat
    PROVE  Partial(w, S, n) # {}
<1> DEFINE Bad == {k \in Nat : Partial(w, S, k) = {}}
<1> SUFFICES ASSUME Bad # {} PROVE FALSE
    OBVIOUS
<1>1. PICK k \in Bad : \A j \in Bad : k <= j
      BY Least
<1>2. k # 0
  <2> DEFINE g == [s \in Small(S, 0) |-> 0]
  <2>1. \A s \in Small(S, 0) : s = {}
        BY Subsets DEF Small
  <2>2. g \in Partial(w, S, 0)
        BY <2>1 DEF Partial
  <2>   QED BY <2>2
<1>3. PICK g : g \in Partial(w, S, k - 1)
  <2>1. k - 1 \in Nat /\ k - 1 \notin Bad
        BY <1>1, <1>2
  <2>   QED BY <2>1
<1> DEFINE h == [s \in Small(S, k) |-> IF s = {} THEN 0 ELSE w[Pick(s)] + g[s \ {Pick(s)}]]
<1>4. \A s \in Small(S, k) : s # {} => /\ s \ {Pick(s)} \in Small(S, k - 1)
                                       /\ s \ {Pick(s)} \in Small(S, k)
                                       /\ Pick(s) \in S
  <2> SUFFICES ASSUME NEW s \in Small(S, k), s # {}
               PROVE  /\ s \ {Pick(s)} \in Small(S, k - 1)
                      /\ s \ {Pick(s)} \in Small(S, k)
                      /\ Pick(s) \in S
      OBVIOUS
  <2>1. Pick(s) \in s /\ s \in SUBSET S /\ Cardinality(s) <= k
        BY PickIn DEF Small
  <2>2. Cardinality(s) \in Nat /\ Cardinality(s \ {Pick(s)}) = Cardinality(s) - 1
        BY <2>1, Subsets
  <2>   QED BY <2>1, <2>2 DEF Small
<1>5. \A s \in Small(S, k - 1) : s \in Small(S, k)
  <2> SUFFICES ASSUME NEW s \in Small(S, k - 1) PROVE s \in Small(S, k)
      OBVIOUS
  <2>1. Cardinality(s) \in Nat /\ Cardinality(s) <= k - 1
        BY Subsets DEF Small
  <2>   QED BY <2>1 DEF Small
<1>6. \A s \in Small(S, k - 1) : h[s] = g[s]
      BY <1>3, <1>5 DEF Partial
<1>7. h \in [Small(S, k) -> Nat]
  <2>1. g \in [Small(S, k - 1) -> Nat]
        BY <1>3 DEF Partial
  <2>   QED BY <1>4, <2>1
<1>8. h \in Partial(w, S, k)
      BY <1>4, <1>6, <1>7 DEF Partial
<1>   QED BY <1>8

\* There is a solution of the recursion on all subsets.
LEMMA AddsExists ==
    ASSUME NEW S, IsFiniteSet(S), NEW w \in [S -> Nat]
    PROVE  \E g \in [SUBSET S -> Nat] : Adds(g, w, S)
<1>1. Cardinality(S) \in Nat
      BY FS_CardinalityType
<1>2. Small(S, Cardinality(S)) = SUBSET S
      BY Subsets DEF Small
<1>3. PICK g : g \in Partial(w, S, Cardinality(S))
      BY <1>1, PartialExists
<1>   QED BY <1>2, <1>3 DEF Partial, Adds

\* Any element may be taken out first.
LEMMA AnyFirst ==
    ASSUME NEW S, IsFiniteSet(S), NEW w \in [S -> Nat], NEW g \in [SUBSET S -> Nat], Adds(g, w, S)
    PROVE  \A s \in SUBSET S : \A x \in s : g[s] = w[x] + g[s \ {x}]
<1> DEFINE Good(s) == \A x \in s : g[s] = w[x] + g[s \ {x}]
           Bad == {Cardinality(s) : s \in {t \in SUBSET S : ~Good(t)}}
<1> SUFFICES ASSUME Bad # {} PROVE FALSE
    OBVIOUS
<1>1. Bad \in SUBSET Nat
      BY Subsets
<1>2. PICK k \in Bad : \A j \in Bad : k <= j
      BY <1>1, Least
<1>3. PICK s \in SUBSET S : ~Good(s) /\ Cardinality(s) = k
      BY <1>2
<1>4. PICK x \in s : g[s] # w[x] + g[s \ {x}]
      BY <1>3
<1> DEFINE y == Pick(s)
<1>5. y \in s /\ g[s] = w[y] + g[s \ {y}]
      BY <1>4, PickIn DEF Adds
<1>6. y # x
      BY <1>4, <1>5
<1>7. \A z \in s : Good(s \ {z})
  <2> SUFFICES ASSUME NEW z \in s PROVE Good(s \ {z})
      OBVIOUS
  <2>1. /\ s \ {z} \in SUBSET S /\ Cardinality(s \ {z}) = Cardinality(s) - 1
        /\ Cardinality(s) \in Nat
        BY Subsets
  <2>2. ~(k <= Cardinality(s) - 1)
        BY <1>3, <2>1
  <2>3. Cardinality(s \ {z}) \notin Bad
        BY <1>2, <2>1, <2>2
  <2>   QED BY <2>1, <2>3
<1>8. g[s \ {y}] = w[x] + g[(s \ {y}) \ {x}]
      BY <1>5, <1>6, <1>7
<1>9. g[s \ {x}] = w[y] + g[(s \ {x}) \ {y}]
      BY <1>5, <1>6, <1>7
<1>10. (s \ {y}) \ {x} = (s \ {x}) \ {y}
      OBVIOUS
<1>11. /\ w[x] \in Nat /\ w[y] \in Nat
       /\ g[(s \ {x}) \ {y}] \in Nat
      BY <1>5
<1>12. \A a, b, c \in Nat : a + (b + c) = b + (a + c)
      OBVIOUS
<1>13. g[s] = w[y] + (w[x] + g[(s \ {x}) \ {y}])
      BY <1>5, <1>8, <1>10
<1>14. g[s] = w[x] + (w[y] + g[(s \ {x}) \ {y}])
      BY <1>11, <1>12, <1>13
<1>   QED BY <1>4, <1>9, <1>14

\* The recursion has one solution, also over fewer elements.
LEMMA AddsUnique ==
    ASSUME NEW S, IsFiniteSet(S), NEW T \in SUBSET S,
           NEW v, NEW w, \A x \in T : v[x] = w[x],
           NEW g, NEW h, Adds(g, w, S), Adds(h, v, T)
    PROVE  \A s \in SUBSET T : g[s] = h[s]
<1> DEFINE Bad == {Cardinality(s) : s \in {t \in SUBSET T : g[t] # h[t]}}
<1> SUFFICES ASSUME Bad # {} PROVE FALSE
    OBVIOUS
<1>1. Bad \in SUBSET Nat
      BY Subsets
<1>2. PICK k \in Bad : \A j \in Bad : k <= j
      BY <1>1, Least
<1>3. PICK s \in SUBSET T : g[s] # h[s] /\ Cardinality(s) = k
      BY <1>2
<1>4. s # {} /\ s \in SUBSET S
      BY <1>3 DEF Adds
<1> DEFINE x == Pick(s)
<1>5. x \in s
      BY <1>4, PickIn
<1>6. g[s] = w[x] + g[s \ {x}] /\ h[s] = v[x] + h[s \ {x}] /\ v[x] = w[x]
  <2>1. g[s] = w[x] + g[s \ {x}] /\ h[s] = v[x] + h[s \ {x}]
        BY <1>4 DEF Adds
  <2>2. v[x] = w[x]
        BY <1>5
  <2>   QED BY <2>1, <2>2
<1>7. g[s \ {x}] = h[s \ {x}]
  <2>1. Cardinality(s \ {x}) = k - 1 /\ k \in Nat
        BY <1>3, <1>4, <1>5, Subsets
  <2>2. ~(k <= k - 1)
        BY <2>1
  <2>3. Cardinality(s \ {x}) \notin Bad
        BY <1>2, <2>1, <2>2
  <2>   QED BY <2>3
<1>8. w[x] + g[s \ {x}] = v[x] + h[s \ {x}]
      BY <1>6, <1>7
<1>   QED BY <1>3, <1>6, <1>8

\* A sum over a subset is what a solution of the recursion says of the subset.
LEMMA SumIs ==
    ASSUME NEW S, IsFiniteSet(S), NEW w \in [S -> Nat], NEW g \in [SUBSET S -> Nat], Adds(g, w, S)
    PROVE  \A T \in SUBSET S : SumOf(w, T) = g[T]
<1> SUFFICES ASSUME NEW T \in SUBSET S PROVE SumOf(w, T) = g[T]
    OBVIOUS
<1> DEFINE v == [x \in T |-> w[x]]
           H == CHOOSE h : Adds(h, w, T)
<1>1. IsFiniteSet(T) /\ v \in [T -> Nat]
      BY Subsets
<1>2. PICK h \in [SUBSET T -> Nat] : Adds(h, v, T)
      BY <1>1, AddsExists
<1>3. Adds(h, w, T)
  <2>1. \A s \in SUBSET T : s # {} => v[Pick(s)] = w[Pick(s)]
        BY PickIn
  <2>   QED BY <1>2, <2>1 DEF Adds
<1>4. Adds(H, w, T)
      BY <1>3
<1>5. SumOf(w, T) = H[T]
      BY DEF SumOf, MapThenSumSet, MapThenFoldSet, Adds, Pick
<1>6. g[T] = H[T]
      BY <1>4, AddsUnique
<1>   QED BY <1>5, <1>6

\* Sums are numbers, nothing sums up to 0, and an element adds its weight.
LEMMA SumStep ==
    ASSUME NEW S, IsFiniteSet(S), NEW w \in [S -> Nat], NEW T \in SUBSET S
    PROVE  /\ SumOf(w, T) \in Nat
           /\ T = {} => SumOf(w, T) = 0
           /\ \A x \in T : SumOf(w, T) = w[x] + SumOf(w, T \ {x})
<1>1. PICK g \in [SUBSET S -> Nat] : Adds(g, w, S)
      BY AddsExists
<1>2. \A U \in SUBSET S : SumOf(w, U) = g[U]
      BY <1>1, SumIs
<1>3. \A x \in T : g[T] = w[x] + g[T \ {x}]
      BY <1>1, AnyFirst
<1>4. T = {} => g[T] = 0
      BY <1>1 DEF Adds
<1>   QED BY <1>2, <1>3, <1>4

\* The same for all the subsets of S at once.
LEMMA SumSteps ==
    ASSUME NEW S, IsFiniteSet(S), NEW w \in [S -> Nat]
    PROVE  \A T \in SUBSET S :
              /\ SumOf(w, T) \in Nat
              /\ T = {} => SumOf(w, T) = 0
              /\ \A x \in T : SumOf(w, T) = w[x] + SumOf(w, T \ {x})
BY SumStep

----------------------------------------------------------------------------
(* Sums over images.                                                       *)

\* What m makes of the members of T.
ImageOf(m, T) == {m[x] : x \in T}

\* The sum over the images of a set under a map that keeps them apart.
LEMMA SumImage ==
    ASSUME NEW T, IsFiniteSet(T), NEW w \in [T -> Nat],
           NEW M, NEW m \in [T -> M], \A x, y \in T : m[x] = m[y] => x = y,
           NEW v \in [ImageOf(m, T) -> Nat], \A x \in T : v[m[x]] = w[x]
    PROVE  SumOf(v, ImageOf(m, T)) = SumOf(w, T)
<1> DEFINE Good(U) == SumOf(v, ImageOf(m, U)) = SumOf(w, U)
           Bad == {Cardinality(U) : U \in {V \in SUBSET T : ~Good(V)}}
<1> SUFFICES ASSUME Bad # {} PROVE FALSE
    OBVIOUS
<1>1. Bad \in SUBSET Nat
      BY Subsets
<1>2. PICK k \in Bad : \A j \in Bad : k <= j
      BY <1>1, Least
<1>3. PICK U \in SUBSET T : ~Good(U) /\ Cardinality(U) = k
      BY <1>2
<1>4. IsFiniteSet(ImageOf(m, T)) /\ v \in [ImageOf(m, T) -> Nat] /\ ImageOf(m, U) \in SUBSET ImageOf(m, T)
  <2>1. ImageOf(m, T) = {m[x] : x \in T} /\ ImageOf(m, U) = {m[x] : x \in U}
        BY DEF ImageOf
  <2>2. IsFiniteSet(ImageOf(m, T))
    <3>1. m \in Surjection(T, ImageOf(m, T))
          BY <2>1 DEF Surjection
    <3>   QED BY <3>1, FS_Surjection
  <2>   QED BY <2>1, <2>2
<1>5. U # {}
  <2>1. SumOf(w, {}) = 0 /\ SumOf(v, {}) = 0
        BY <1>4, SumStep
  <2>2. ImageOf(m, {}) = {}
        BY DEF ImageOf
  <2>   QED BY <1>3, <2>1, <2>2
<1>6. PICK x \in U : TRUE
      BY <1>5
<1>7. Good(U \ {x})
  <2>1. Cardinality(U \ {x}) = k - 1 /\ k \in Nat
        BY <1>3, <1>6, Subsets
  <2>2. ~(k <= k - 1)
        BY <2>1
  <2>3. Cardinality(U \ {x}) \notin Bad
        BY <1>2, <2>1, <2>2
  <2>   QED BY <2>3
<1>8. m[x] \in ImageOf(m, U) /\ ImageOf(m, U) \ {m[x]} = ImageOf(m, U \ {x})
      BY <1>6 DEF ImageOf
<1>9. SumOf(v, ImageOf(m, U)) = v[m[x]] + SumOf(v, ImageOf(m, U \ {x}))
  <2>1. SumOf(v, ImageOf(m, U)) = v[m[x]] + SumOf(v, ImageOf(m, U) \ {m[x]})
        BY <1>4, <1>8, SumStep
  <2>   QED BY <1>8, <2>1
<1>10. SumOf(w, U) = w[x] + SumOf(w, U \ {x})
      BY <1>6, SumStep
<1>   QED BY <1>3, <1>6, <1>7, <1>9, <1>10

----------------------------------------------------------------------------
(* Sequences.                                                              *)

\* What stands where in two sequences put together.
LEMMA Joined ==
    ASSUME NEW S, NEW s \in Seq(S), NEW t \in Seq(S)
    PROVE  /\ s \o t \in Seq(S)
           /\ Len(s \o t) = Len(s) + Len(t)
           /\ \A i \in 1..Len(s) : (s \o t)[i] = s[i]
           /\ \A i \in 1..Len(t) : (s \o t)[Len(s) + i] = t[i]
<1>1. Len(s) \in Nat /\ Len(t) \in Nat
      BY LenProperties
<1>2. \A i \in 1..Len(s) : (s \o t)[i] = s[i]
  <2> SUFFICES ASSUME NEW i \in 1..Len(s) PROVE (s \o t)[i] = s[i]
      OBVIOUS
  <2>1. i \in 1..Len(s) + Len(t) /\ i <= Len(s)
        BY <1>1
  <2>   QED BY <2>1, ConcatProperties
<1>3. \A i \in 1..Len(t) : (s \o t)[Len(s) + i] = t[i]
  <2> SUFFICES ASSUME NEW i \in 1..Len(t) PROVE (s \o t)[Len(s) + i] = t[i]
      OBVIOUS
  <2>1. Len(s) + i \in 1..Len(s) + Len(t) /\ ~(Len(s) + i <= Len(s)) /\ Len(s) + i - Len(s) = i
        BY <1>1
  <2>   QED BY <2>1, ConcatProperties
<1>   QED BY <1>2, <1>3, ConcatProperties

----------------------------------------------------------------------------
(* Functions that recur to a later position.                               *)

\* g starts with base behind the last position, and takes a step per position from
\* what it is at the next one.
Recurs(g, n, next, base, step) ==
    g[n + 1] = base /\ \A i \in 1..n : g[i] = step[i][g[next[i]]]

\* What is true of the last position, and of each one when it is true of the
\* positions behind it, is true of all of them.
LEMMA FromTheEnd ==
    ASSUME NEW n \in Nat, NEW T \in SUBSET (1..n + 1),
           \A i \in 1..n + 1 : (\A j \in i + 1..n + 1 : j \in T) => i \in T
    PROVE  T = 1..n + 1
<1> DEFINE Bad == {n + 1 - i : i \in (1..n + 1) \ T}
<1> SUFFICES ASSUME Bad # {} PROVE FALSE
    OBVIOUS
<1>1. Bad \in SUBSET Nat
      OBVIOUS
<1>2. PICK k \in Bad : \A j \in Bad : k <= j
  <2> HIDE DEF Bad
  <2> QED BY <1>1, Least
<1>3. PICK i \in (1..n + 1) \ T : k = n + 1 - i
      BY <1>2
<1>4. \A j \in i + 1..n + 1 : j \in T
  <2> SUFFICES ASSUME NEW j \in i + 1..n + 1, j \notin T PROVE FALSE
      OBVIOUS
  <2>1. n + 1 - j \in Bad
        OBVIOUS
  <2>2. k <= n + 1 - j
    <3> HIDE DEF Bad
    <3> QED BY <1>2, <2>1
  <2>3. \A a \in 1..n + 1 : \A b \in a + 1..n + 1 : ~(n + 1 - a <= n + 1 - b)
        OBVIOUS
  <2>   QED BY <1>3, <2>2, <2>3
<1>5. i \in 1..n + 1 /\ i \notin T
      BY <1>3
<1> HIDE DEF Bad
<1>   QED BY <1>4, <1>5

\* There is such a function.
LEMMA RecursionExists ==
    ASSUME NEW n \in Nat, NEW next \in [1..n -> Nat],
           \A i \in 1..n : next[i] \in i + 1..n + 1,
           NEW V, NEW base \in V, NEW step \in [1..n -> [V -> V]]
    PROVE  \E g \in [1..n + 1 -> V] : Recurs(g, n, next, base, step)
<1> DEFINE From(i) ==
        {g \in [i..n + 1 -> V] :
            g[n + 1] = base /\ \A j \in i..n : g[j] = step[j][g[next[j]]]}
           T == {i \in 1..n + 1 : From(i) # {}}
<1>1. \A i \in 1..n + 1 : (\A j \in i + 1..n + 1 : j \in T) => i \in T
  <2> SUFFICES ASSUME NEW i \in 1..n + 1, \A j \in i + 1..n + 1 : j \in T
               PROVE  From(i) # {}
      OBVIOUS
  <2>1. CASE i = n + 1
    <3> DEFINE g == [j \in i..n + 1 |-> base]
    <3>1. g \in From(i)
          BY <2>1
    <3>   QED BY <3>1
  <2>2. CASE i # n + 1
    <3>1. i + 1 \in i + 1..n + 1 /\ i + 1 \in 1..n + 1 /\ i \in 1..n
          BY <2>2
    <3>1a. i + 1 \in T
      <4> HIDE DEF T
      <4> QED BY <3>1
    <3>2. PICK f : f \in From(i + 1)
          BY <3>1a
    <3> DEFINE g == [j \in i..n + 1 |-> IF j = i THEN step[i][f[next[i]]] ELSE f[j]]
    <3>3. next[i] \in i + 1..n + 1 /\ f \in [i + 1..n + 1 -> V]
          BY <3>1, <3>2
    <3>4. g \in [i..n + 1 -> V]
          BY <3>1, <3>3
    <3>5. g[n + 1] = base
          BY <3>1, <3>2
    <3>6. \A j \in i..n : g[j] = step[j][g[next[j]]]
      <4> SUFFICES ASSUME NEW j \in i..n PROVE g[j] = step[j][g[next[j]]]
          OBVIOUS
      <4>1. next[j] \in j + 1..n + 1 /\ next[j] # i /\ next[j] \in i..n + 1
            BY <3>1
      <4>2. g[next[j]] = f[next[j]]
            BY <4>1
      <4>   QED BY <3>1, <3>2, <4>2
    <3>   QED BY <3>4, <3>5, <3>6
  <2>   QED BY <2>1, <2>2
<1>2. T = 1..n + 1
  <2> HIDE DEF T
  <2>1. T \in SUBSET (1..n + 1)
        BY DEF T
  <2>   QED BY <1>1, <2>1, FromTheEnd
<1>3. 1 \in T
      BY <1>2
<1>4. PICK g : g \in From(1)
      BY <1>3
<1>   QED BY <1>4 DEF Recurs

\* Induction upwards, for the numbers up to n.
LEMMA Upwards ==
    ASSUME NEW n \in Nat, NEW T, 0 \in T, \A k \in 1..n : k - 1 \in T => k \in T
    PROVE  \A k \in 0..n : k \in T
<1> DEFINE Bad == {k \in 0..n : k \notin T}
<1>1. SUFFICES Bad = {}
      OBVIOUS
<1>2. SUFFICES ASSUME Bad # {} PROVE FALSE
      OBVIOUS
<1>3. Bad \in SUBSET Nat
      OBVIOUS
<1>4. PICK k \in Bad : \A j \in Bad : k <= j
  <2> HIDE DEF Bad
  <2> QED BY <1>2, <1>3, Least
<1>5. k # 0 /\ k \in 0..n /\ k - 1 \in 0..n /\ k \in 1..n
      OBVIOUS
<1>6. k - 1 \in T
      BY <1>4, <1>5
<1>   QED BY <1>5, <1>6

\* f is what a loop goes through: from start, one step after the other.
Loops(f, n, start, step) == f = [k \in 0..n |-> IF k = 0 THEN start ELSE step[f[k - 1]]]

\* A loop goes through values.
LEMMA LoopExists ==
    ASSUME NEW n \in Nat, NEW V, NEW start \in V, NEW step \in [V -> V]
    PROVE  \E f \in [0..n -> V] : Loops(f, n, start, step)
<1> DEFINE next == [i \in 1..n |-> i + 1]
           each == [i \in 1..n |-> step]
<1>1. next \in [1..n -> Nat] /\ \A i \in 1..n : next[i] \in i + 1..n + 1
      OBVIOUS
<1>2. each \in [1..n -> [V -> V]]
      OBVIOUS
<1>3. PICK g \in [1..n + 1 -> V] : Recurs(g, n, next, start, each)
  <2> HIDE DEF next, each
  <2> QED BY <1>1, <1>2, RecursionExists
<1> DEFINE f == [k \in 0..n |-> g[n + 1 - k]]
<1>4. f \in [0..n -> V]
      OBVIOUS
<1>5. f[0] = start
      BY <1>3 DEF Recurs
<1>6. ASSUME NEW k \in 1..n
      PROVE  f[k] = step[f[k - 1]]
  <2>1. PICK a \in 1..n : a = n + 1 - k
        OBVIOUS
  <2>2. next[a] = a + 1 /\ each[a] = step
        OBVIOUS
  <2>3. f[k] = g[a] /\ f[k - 1] = g[a + 1]
        BY <2>1
  <2>4. g[a] = each[a][g[next[a]]]
        BY <1>3 DEF Recurs
  <2> HIDE DEF next, each, f
  <2>   QED BY <2>2, <2>3, <2>4
<1>7. f = [k \in 0..n |-> f[k]]
      OBVIOUS
<1> HIDE DEF f
<1>8. \A k \in 0..n : k # 0 => k \in 1..n
      OBVIOUS
<1>9. Loops(f, n, start, step)
      BY <1>5, <1>6, <1>7, <1>8 DEF Loops
<1>   QED BY <1>4, <1>9

=============================================================================
