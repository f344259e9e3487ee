------------------------------ MODULE FoldProofs -------------------------------
(***************************************************************************)
(* Loops over lists of any length: the induction that the proofs about the *)
(* collector's sums rest on. A fold of the community modules is a recursive*)
(* function on the subsets of an index set, so it has first to be shown to *)
(* exist; then a loop is its turns, and a sum does not depend on the order *)
(* in which it is taken.                                                   *)
(*                                                                         *)
(* The library's induction theorems take an operator; the least element of *)
(* a set of naturals, which follows from the well-foundedness of <, takes  *)
(* none.                                                                   *)
(***************************************************************************)
EXTENDS Integers, SequencesExt, FiniteSetTheorems, WellFoundedInduction, TLAPS

\* A set of naturals that is not empty has a least element.
LEMMA LeastElement ==
  ASSUME NEW T, T \subseteq Nat, T # {}
  PROVE  \E m \in T : \A k \in T : m <= k
  <1>1. PICK m \in T : \A k \in T : ~ (<<k, m>> \in OpToRel(<, Nat))
    BY NatLessThanWellFounded, WFMin, Zenon
  <1>2. \A k \in T : ~ (k < m)
    BY <1>1 DEF OpToRel
  <1> QED BY <1>2

\* Induction: a set of naturals with 0 and with the successor of each of its
\* members has them all.
LEMMA Induction ==
  ASSUME NEW P, 0 \in P, \A k \in Nat : k \in P => k + 1 \in P
  PROVE  \A k \in Nat : k \in P
  <1> DEFINE T == {k \in Nat : k \notin P}
  <1> SUFFICES ASSUME T # {} PROVE FALSE
    OBVIOUS
  <1>1. PICK m \in T : \A k \in T : m <= k
    BY LeastElement
  <1>2. m # 0 /\ m - 1 \in Nat
    OBVIOUS
  <1>3. m - 1 \in P
    BY <1>1, <1>2
  <1>4. (m - 1) + 1 \in P
    BY <1>2, <1>3
  <1> QED BY <1>4

\* A set of indexes that is not empty has a greatest one, which Max finds.
LEMMA MaxIndex ==
  ASSUME NEW n \in Nat, NEW S \in SUBSET (1..n), S # {}
  PROVE  Max(S) \in S /\ \A y \in S : Max(S) >= y
  <1> DEFINE T == {n - y : y \in S}
  <1>0. \A y \in S : y \in Nat /\ y <= n
    OBVIOUS
  <1>1. T \subseteq Nat /\ T # {}
    <2>1. ASSUME NEW t \in T PROVE t \in Nat
      <3>1. PICK y \in S : t = n - y
        OBVIOUS
      <3> QED BY <1>0, <3>1
    <2>2. PICK y \in S : TRUE
      OBVIOUS
    <2>3. n - y \in T
      OBVIOUS
    <2> QED BY <2>1, <2>3
  <1>2. PICK m \in T : \A k \in T : m <= k
    BY <1>1, LeastElement
  <1>3. PICK x \in S : m = n - x
    OBVIOUS
  <1>4. ASSUME NEW y \in S PROVE x >= y
    <2>1. n - y \in T
      OBVIOUS
    <2>2. n - x <= n - y
      BY <1>2, <1>3, <2>1
    <2> QED BY <1>0, <2>2
  <1> QED BY <1>4 DEF Max

\* The greatest index of the first k is k.
LEMMA MaxInterval ==
  ASSUME NEW n \in Nat, NEW k \in 1..n
  PROVE  /\ 1..k \in SUBSET (1..n) /\ 1..k # {}
         /\ Max(1..k) = k /\ (1..k) \ {k} = 1..(k - 1)
  <1>1. 1..k \in SUBSET (1..k) /\ 1..k # {} /\ k \in 1..k
    OBVIOUS
  <1>2. Max(1..k) \in 1..k /\ \A y \in 1..k : Max(1..k) >= y
    <2>1. k \in Nat
      OBVIOUS
    <2> QED BY <1>1, <2>1, MaxIndex
  <1>3. Max(1..k) = k
    BY <1>1, <1>2
  <1> QED BY <1>3

-----------------------------------------------------------------------------
(* Loops.                                                                  *)

\* A loop of n turns starts from base; turn i takes what the loop holds, of
\* type T, to step[i] of it.
Turns(step, base, T, n) == base \in T /\ step \in [1..n -> [T -> T]]

\* h is a fold over the indexes up to n: it takes its turns in their order.
IsFold(h, step, base, T, n) ==
    /\ h \in [SUBSET (1..n) -> T]
    /\ \A S \in SUBSET (1..n) : h[S] = IF S = {} THEN base ELSE step[Max(S)][h[S \ {Max(S)}]]

\* The function on the subsets by which FoldLeft is defined exists, whatever the
\* turns of the loop do.
LEMMA FoldExists ==
  ASSUME NEW n \in Nat, NEW T, NEW base, NEW step, Turns(step, base, T, n)
  PROVE  \E h : IsFold(h, step, base, T, n)
  <1> DEFINE Exists(k) == \E h : IsFold(h, step, base, T, k)
             Upto == {k \in Nat : k <= n => Exists(k)}
  <1>0. base \in T /\ step \in [1..n -> [T -> T]]
    BY DEF Turns
  <1>1. 0 \in Upto
    <2> DEFINE h == [S \in SUBSET (1..0) |-> base]
    <2>1. h \in [SUBSET (1..0) -> T]
      BY <1>0
    <2>2. \A S \in SUBSET (1..0) : S = {} /\ h[S] = base
      OBVIOUS
    <2> HIDE DEF h
    <2>3. IsFold(h, step, base, T, 0)
      BY <2>1, <2>2 DEF IsFold
    <2>4. Exists(0)
      BY <2>3
    <2> HIDE DEF Exists
    <2> QED BY <2>4
  <1>2. ASSUME NEW k \in Nat, k + 1 <= n, Exists(k) PROVE Exists(k + 1)
    <2>0. PICK g : IsFold(g, step, base, T, k)
      BY <1>2
    <2>1. /\ g \in [SUBSET (1..k) -> T]
          /\ \A S \in SUBSET (1..k) :
               g[S] = IF S = {} THEN base ELSE step[Max(S)][g[S \ {Max(S)}]]
      BY <2>0 DEF IsFold
    <2> DEFINE h == [S \in SUBSET (1..(k + 1)) |->
                       IF k + 1 \in S THEN step[k + 1][g[S \ {k + 1}]] ELSE g[S]]
    <2>2. \A S \in SUBSET (1..(k + 1)) : S \ {k + 1} \in SUBSET (1..k)
      OBVIOUS
    <2>3. \A S \in SUBSET (1..(k + 1)) : k + 1 \notin S => S \in SUBSET (1..k)
      OBVIOUS
    <2>4. step[k + 1] \in [T -> T]
      BY <1>0, <1>2
    <2>5. h \in [SUBSET (1..(k + 1)) -> T]
      BY <2>1, <2>2, <2>3, <2>4
    <2>6. \A S \in SUBSET (1..(k + 1)) :
            h[S] = IF k + 1 \in S THEN step[k + 1][g[S \ {k + 1}]] ELSE g[S]
      OBVIOUS
    <2>7. \A S \in SUBSET (1..k) : h[S] = g[S] /\ S \in SUBSET (1..(k + 1))
      OBVIOUS
    <2> HIDE DEF h
    <2>8. ASSUME NEW S \in SUBSET (1..(k + 1))
          PROVE  h[S] = IF S = {} THEN base ELSE step[Max(S)][h[S \ {Max(S)}]]
      <3>1. CASE k + 1 \in S
        <4>1. Max(S) = k + 1
          <5>1. k + 1 \in Nat /\ S # {}
            BY <3>1
          <5>2. Max(S) \in S /\ Max(S) >= k + 1
            BY <3>1, <5>1, MaxIndex
          <5>3. Max(S) \in 1..(k + 1)
            BY <5>2
          <5> QED BY <5>2, <5>3
        <4>2. h[S \ {k + 1}] = g[S \ {k + 1}]
          BY <2>2, <2>7
        <4> QED BY <3>1, <2>6, <4>1, <4>2
      <3>2. CASE k + 1 \notin S
        <4>1. S \in SUBSET (1..k) /\ h[S] = g[S]
          BY <2>3, <2>7, <3>2
        <4>2. g[S] = IF S = {} THEN base ELSE step[Max(S)][g[S \ {Max(S)}]]
          BY <2>1, <4>1
        <4>3. h[S \ {Max(S)}] = g[S \ {Max(S)}]
          BY <2>7, <4>1
        <4> QED BY <4>1, <4>2, <4>3
      <3> QED BY <3>1, <3>2
    <2> QED BY <2>5, <2>8 DEF IsFold
  <1> HIDE DEF Exists
  <1>3. \A k \in Nat : k \in Upto => k + 1 \in Upto
    BY <1>2
  <1> HIDE DEF Upto
  <1>4. n \in Upto
    BY <1>1, <1>3, Induction
  <1>5. Exists(n)
    BY <1>4 DEF Upto
  <1> QED BY <1>5 DEF Exists

\* p[k] is what the loop holds after k turns.
IsLoop(p, step, base, T, n) ==
    p \in [0..n -> T] /\ p[0] = base /\ \A k \in 1..n : p[k] = step[k][p[k - 1]]

\* g starts like the loop and, as long as it is of the loop's type, goes on
\* like it.
GoesOn(g, step, base, T, n) ==
    /\ g[{}] = base
    /\ \A k \in 1..n : g[1..(k - 1)] \in T => g[1..k] = step[k][g[1..(k - 1)]]

\* Then it is the loop.
LEMMA FoldIsLoop ==
  ASSUME NEW n \in Nat, NEW T, NEW base, NEW step, Turns(step, base, T, n),
         NEW g, GoesOn(g, step, base, T, n)
  PROVE  \E p : IsLoop(p, step, base, T, n) /\ g[1..n] = p[n]
  <1> DEFINE P == {k \in Nat : k <= n => g[1..k] \in T}
             p == [k \in 0..n |-> g[1..k]]
  <1>0. 1..0 = {} /\ g[1..0] = base /\ base \in T /\ step \in [1..n -> [T -> T]]
    BY DEF GoesOn, Turns
  <1>1. 0 \in P
    BY <1>0
  <1>2. ASSUME NEW k \in Nat, k \in P PROVE k + 1 \in P
    <2> SUFFICES ASSUME k + 1 <= n PROVE g[1..(k + 1)] \in T
      OBVIOUS
    <2>1. k + 1 \in 1..n /\ (k + 1) - 1 = k /\ g[1..k] \in T
      BY <1>2
    <2>2. g[1..(k + 1)] = step[k + 1][g[1..k]]
      BY <2>1 DEF GoesOn
    <2>3. step[k + 1] \in [T -> T]
      BY <1>0, <2>1
    <2> QED BY <2>1, <2>2, <2>3
  <1> HIDE DEF P
  <1>3. \A k \in Nat : k \in P
    BY <1>1, <1>2, Induction
  <1>4. \A k \in 0..n : g[1..k] \in T
    BY <1>3 DEF P
  <1>5. p \in [0..n -> T] /\ \A k \in 0..n : p[k] = g[1..k]
    BY <1>4
  <1> HIDE DEF p
  <1>6. p[0] = base /\ p[n] = g[1..n]
    BY <1>0, <1>5
  <1>7. ASSUME NEW k \in 1..n PROVE p[k] = step[k][p[k - 1]]
    <2>1. k - 1 \in 0..n /\ k \in 0..n
      OBVIOUS
    <2>2. g[1..k] = step[k][g[1..(k - 1)]]
      BY <1>4, <2>1 DEF GoesOn
    <2> QED BY <1>5, <2>1, <2>2
  <1> QED BY <1>5, <1>6, <1>7 DEF IsLoop

-----------------------------------------------------------------------------
(* Sums.                                                                   *)

\* p[k] is the sum of the first k amounts.
IsRunningSum(p, a, n) ==
    p \in [0..n -> Int] /\ p[0] = 0 /\ \A k \in 1..n : p[k] = p[k - 1] + a[k]

One(S) == CHOOSE x \in S : TRUE

\* h sums the amounts of every subset of D, in an order of its own.
IsSetSum(h, a, D) ==
    /\ a \in [D -> Int] /\ h \in [SUBSET D -> Int]
    /\ \A S \in SUBSET D : h[S] = IF S = {} THEN 0 ELSE a[One(S)] + h[S \ {One(S)}]

\* Any element of a set may be taken out of its sum.
TakesOut(h, a, D) == \A S \in SUBSET D : \A x \in S : h[S] = a[x] + h[S \ {x}]

\* Taking one element out of a finite set leaves one less.
LEMMA OneLess ==
  ASSUME NEW S, IsFiniteSet(S), NEW x \in S, NEW k \in Nat, Cardinality(S) <= k + 1
  PROVE  IsFiniteSet(S \ {x}) /\ Cardinality(S \ {x}) <= k
  <1>1. Cardinality(S) \in Nat
    BY FS_CardinalityType
  <1>2. IsFiniteSet(S \ {x}) /\ Cardinality(S \ {x}) = Cardinality(S) - 1
    BY FS_RemoveElement
  <1> QED BY <1>1, <1>2

\* A finite set with no more than no element is empty.
LEMMA NoneLeft ==
  ASSUME NEW S, IsFiniteSet(S), Cardinality(S) <= 0
  PROVE  S = {}
  <1>1. Cardinality(S) \in Nat
    BY FS_CardinalityType
  <1>2. Cardinality(S) = 0
    BY <1>1
  <1> QED BY <1>2, FS_EmptySet

\* The function on the subsets by which a set is summed exists.
LEMMA SetSumExists ==
  ASSUME NEW D, IsFiniteSet(D), NEW a \in [D -> Int]
  PROVE  \E h : IsSetSum(h, a, D)
  <1> DEFINE Small(k) == {S \in SUBSET D : Cardinality(S) <= k}
             Sums(h, k) == \A S \in Small(k) :
                             h[S] = IF S = {} THEN 0 ELSE a[One(S)] + h[S \ {One(S)}]
             Exists(k) == \E h \in [Small(k) -> Int] : Sums(h, k)
             P == {k \in Nat : Exists(k)}
  <1>1. \A S \in SUBSET D : IsFiniteSet(S) /\ Cardinality(S) \in Nat
    BY FS_Subset, FS_CardinalityType
  <1>2. \A S \in SUBSET D : S # {} => One(S) \in S
    BY DEF One
  <1>3. Exists(0)
    <2> DEFINE h == [S \in Small(0) |-> 0]
    <2>1. \A S \in Small(0) : S = {}
      BY <1>1, NoneLeft
    <2>2. h \in [Small(0) -> Int] /\ \A S \in Small(0) : h[S] = 0
      OBVIOUS
    <2> HIDE DEF h
    <2>3. Sums(h, 0)
      BY <2>1, <2>2
    <2> QED BY <2>2, <2>3
  <1>4. ASSUME NEW k \in Nat, Exists(k) PROVE Exists(k + 1)
    <2>1. PICK g \in [Small(k) -> Int] : Sums(g, k)
      BY <1>4
    <2> DEFINE h == [S \in Small(k + 1) |->
                       IF S \in Small(k) THEN g[S] ELSE a[One(S)] + g[S \ {One(S)}]]
    <2>2. ASSUME NEW S \in Small(k + 1), S # {}
          PROVE  One(S) \in S /\ One(S) \in D /\ S \ {One(S)} \in Small(k)
      <3>1. One(S) \in S
        BY <1>2, <2>2
      <3>2. Cardinality(S \ {One(S)}) <= k
        BY <1>1, <3>1, OneLess
      <3> QED BY <3>1, <3>2
    <2>3. {} \in Small(k)
      BY FS_EmptySet
    <2>4. \A S \in Small(k) : S \in Small(k + 1)
      BY <1>1
    <2>5. ASSUME NEW S \in Small(k + 1)
          PROVE  /\ h[S] \in Int
                 /\ h[S] = IF S \in Small(k) THEN g[S] ELSE a[One(S)] + g[S \ {One(S)}]
      <3>1. h[S] = IF S \in Small(k) THEN g[S] ELSE a[One(S)] + g[S \ {One(S)}]
        OBVIOUS
      <3>2. CASE S \in Small(k)
        <4>1. g[S] \in Int
          BY <3>2
        <4> HIDE DEF Small, h
        <4> QED BY <3>1, <3>2, <4>1
      <3>3. CASE S \notin Small(k)
        <4>1. One(S) \in D /\ S \ {One(S)} \in Small(k)
          BY <2>2, <2>3, <3>3
        <4> HIDE DEF Small, h
        <4>2. a[One(S)] \in Int /\ g[S \ {One(S)}] \in Int
          BY <4>1
        <4> QED BY <3>1, <3>3, <4>2
      <3> QED BY <3>2, <3>3
    <2>6. h \in [Small(k + 1) -> Int]
      BY <2>5
    <2> HIDE DEF h
    <2>7. ASSUME NEW S \in Small(k + 1)
          PROVE  h[S] = IF S = {} THEN 0 ELSE a[One(S)] + h[S \ {One(S)}]
      <3>1. S # {} => h[S \ {One(S)}] = g[S \ {One(S)}]
        BY <2>2, <2>4, <2>5
      <3>2. CASE S \in Small(k)
        <4>1. g[S] = IF S = {} THEN 0 ELSE a[One(S)] + g[S \ {One(S)}]
          BY <2>1, <3>2
        <4> QED BY <2>5, <3>1, <3>2, <4>1
      <3>3. CASE S \notin Small(k)
        BY <2>3, <2>5, <3>1, <3>3
      <3> QED BY <3>2, <3>3
    <2> QED BY <2>6, <2>7
  <1> HIDE DEF Exists
  <1>5. \A k \in Nat : k \in P => k + 1 \in P
    BY <1>4
  <1>6. 0 \in P
    BY <1>3
  <1> HIDE DEF P
  <1>7. Cardinality(D) \in Nat /\ Cardinality(D) \in P
    BY <1>5, <1>6, Induction, FS_CardinalityType
  <1>8. Exists(Cardinality(D))
    BY <1>7 DEF P
  <1>9. Small(Cardinality(D)) = SUBSET D
    BY FS_Subset
  <1>10. PICK h \in [SUBSET D -> Int] : Sums(h, Cardinality(D))
    BY <1>8, <1>9 DEF Exists
  <1>11. IsSetSum(h, a, D)
    BY <1>9, <1>10 DEF IsSetSum
  <1> QED BY <1>11

\* The equation of that function.
SumsUp(g, a, D) == g = [S \in SUBSET D |-> IF S = {} THEN 0 ELSE a[One(S)] + g[S \ {One(S)}]]

\* What satisfies it is a number for each of the subsets.
LEMMA SetSumType ==
  ASSUME NEW D, IsFiniteSet(D), NEW a \in [D -> Int], NEW g, SumsUp(g, a, D)
  PROVE  IsSetSum(g, a, D)
  <1> DEFINE Typed(k) == \A S \in SUBSET D : Cardinality(S) <= k => g[S] \in Int
             P == {k \in Nat : Typed(k)}
  <1>1. \A S \in SUBSET D : IsFiniteSet(S) /\ Cardinality(S) \in Nat
    BY FS_Subset, FS_CardinalityType
  <1>2. \A S \in SUBSET D : S # {} => One(S) \in S
    BY DEF One
  <1>3. \A S \in SUBSET D : g[S] = IF S = {} THEN 0 ELSE a[One(S)] + g[S \ {One(S)}]
    BY DEF SumsUp
  <1>4. Typed(0)
    BY <1>1, <1>3, NoneLeft
  <1>5. ASSUME NEW k \in Nat, Typed(k) PROVE Typed(k + 1)
    <2> SUFFICES ASSUME NEW S \in SUBSET D, Cardinality(S) <= k + 1 PROVE g[S] \in Int
      OBVIOUS
    <2>1. CASE S = {}
      <3>1. g[S] = 0
        BY <1>3, <2>1
      <3> QED BY <3>1
    <2>2. CASE S # {}
      <3>1. One(S) \in S /\ S \ {One(S)} \in SUBSET D
        BY <1>2, <2>2
      <3>2. Cardinality(S \ {One(S)}) <= k
        BY <1>1, <3>1, OneLess
      <3>3. g[S \ {One(S)}] \in Int /\ a[One(S)] \in Int
        BY <1>5, <3>1, <3>2
      <3> QED BY <1>3, <2>2, <3>3
    <2> QED BY <2>1, <2>2
  <1> HIDE DEF Typed
  <1>6. 0 \in P /\ \A k \in Nat : k \in P => k + 1 \in P
    BY <1>4, <1>5
  <1> HIDE DEF P
  <1>7. Cardinality(D) \in Nat /\ Cardinality(D) \in P
    BY <1>6, Induction, FS_CardinalityType
  <1>8. \A S \in SUBSET D : g[S] \in Int
    BY <1>7, FS_Subset DEF P, Typed
  <1>9. g = [S \in SUBSET D |-> g[S]]
    BY DEF SumsUp
  <1>10. g \in [SUBSET D -> Int]
    BY <1>8, <1>9
  <1> QED BY <1>3, <1>10 DEF IsSetSum

\* Whatever the order of a sum, any of its elements may be taken out of it.
LEMMA SetSumTakesOut ==
  ASSUME NEW D, IsFiniteSet(D), NEW a, NEW h, IsSetSum(h, a, D)
  PROVE  TakesOut(h, a, D)
  <1> DEFINE Out(k) == \A S \in SUBSET D : Cardinality(S) <= k =>
                         \A x \in S : h[S] = a[x] + h[S \ {x}]
             P == {k \in Nat : Out(k)}
  <1>1. \A S \in SUBSET D : IsFiniteSet(S) /\ Cardinality(S) \in Nat
    BY FS_Subset, FS_CardinalityType
  <1>2. \A S \in SUBSET D : S # {} => One(S) \in S
    BY DEF One
  <1>3. a \in [D -> Int] /\ h \in [SUBSET D -> Int]
    BY DEF IsSetSum
  <1>4. Out(0)
    BY <1>1, NoneLeft
  <1>5. ASSUME NEW k \in Nat, Out(k) PROVE Out(k + 1)
    <2> SUFFICES ASSUME NEW S \in SUBSET D, Cardinality(S) <= k + 1, NEW x \in S
                 PROVE  h[S] = a[x] + h[S \ {x}]
      OBVIOUS
    <2> DEFINE c == One(S)
    <2>1. c \in S /\ h[S] = a[c] + h[S \ {c}]
      BY <1>2 DEF IsSetSum
    <2> HIDE DEF c
    <2>2. CASE x = c
      BY <2>1, <2>2
    <2>3. CASE x # c
      <3>1. S \ {c} \in SUBSET D /\ x \in S \ {c} /\ Cardinality(S \ {c}) <= k
        BY <1>1, <2>1, <2>3, OneLess
      <3>2. h[S \ {c}] = a[x] + h[(S \ {c}) \ {x}]
        BY <1>5, <3>1
      <3>3. S \ {x} \in SUBSET D /\ c \in S \ {x} /\ Cardinality(S \ {x}) <= k
        BY <1>1, <2>1, <2>3, OneLess
      <3>4. h[S \ {x}] = a[c] + h[(S \ {x}) \ {c}]
        BY <1>5, <3>3
      <3>5. (S \ {c}) \ {x} = (S \ {x}) \ {c} /\ (S \ {x}) \ {c} \in SUBSET D
        OBVIOUS
      <3>6. a[c] \in Int /\ a[x] \in Int /\ h[(S \ {x}) \ {c}] \in Int
        BY <1>3, <2>1, <3>5
      <3> DEFINE rest == h[(S \ {x}) \ {c}]
      <3>7. h[S] = a[c] + (a[x] + rest) /\ h[S \ {x}] = a[c] + rest
        BY <2>1, <3>2, <3>4, <3>5
      <3> HIDE DEF rest
      <3>8. a[c] + (a[x] + rest) = a[x] + (a[c] + rest)
        BY <3>6 DEF rest
      <3> QED BY <3>7, <3>8
    <2> QED BY <2>2, <2>3
  <1> HIDE DEF Out
  <1>6. 0 \in P /\ \A k \in Nat : k \in P => k + 1 \in P
    BY <1>4, <1>5
  <1> HIDE DEF P
  <1>7. Cardinality(D) \in Nat /\ Cardinality(D) \in P
    BY <1>6, Induction, FS_CardinalityType
  <1>8. Out(Cardinality(D))
    BY <1>7 DEF P
  <1> QED BY <1>8, FS_Subset DEF Out, TakesOut

\* Amounts that are not negative have a sum that is not.
LEMMA RunningSumNat ==
  ASSUME NEW n \in Nat, NEW a, NEW p, IsRunningSum(p, a, n), \A i \in 1..n : a[i] \in Nat
  PROVE  p[n] \in Nat
  <1> DEFINE P == {k \in Nat : k <= n => p[k] \in Nat}
  <1>1. 0 \in P
    BY DEF IsRunningSum
  <1>2. ASSUME NEW k \in Nat, k \in P PROVE k + 1 \in P
    <2>1. k + 1 <= n => k + 1 \in 1..n /\ p[k] \in Nat
      BY <1>2
    <2>2. k + 1 <= n => p[k + 1] = p[(k + 1) - 1] + a[k + 1]
      BY <2>1 DEF IsRunningSum
    <2>3. (k + 1) - 1 = k
      OBVIOUS
    <2> QED BY <2>1, <2>2, <2>3
  <1> HIDE DEF P
  <1>3. n \in P
    BY <1>1, <1>2, Induction
  <1> QED BY <1>3 DEF P

\* A sum of nothings is nothing.
LEMMA RunningSumZero ==
  ASSUME NEW n \in Nat, NEW a, NEW p, IsRunningSum(p, a, n), \A i \in 1..n : a[i] = 0
  PROVE  p[n] = 0
  <1> DEFINE P == {k \in Nat : k <= n => p[k] = 0}
  <1>1. 0 \in P
    BY DEF IsRunningSum
  <1>2. ASSUME NEW k \in Nat, k \in P PROVE k + 1 \in P
    <2>1. k + 1 <= n => k + 1 \in 1..n /\ p[k] = 0
      BY <1>2
    <2>2. k + 1 <= n => p[k + 1] = p[(k + 1) - 1] + a[k + 1]
      BY <2>1 DEF IsRunningSum
    <2>3. (k + 1) - 1 = k
      OBVIOUS
    <2> QED BY <2>1, <2>2, <2>3
  <1> HIDE DEF P
  <1>3. n \in P
    BY <1>1, <1>2, Induction
  <1> QED BY <1>3 DEF P

\* A loop that passes over some entries adds up to the sum, in any order, of the
\* others.
LEMMA RunningIsSetSum ==
  ASSUME NEW n \in Nat, NEW a, NEW p, IsRunningSum(p, a, n),
         NEW D \in SUBSET (1..n), IsFiniteSet(D), NEW b, NEW h, IsSetSum(h, b, D),
         \A i \in 1..n : a[i] = IF i \in D THEN b[i] ELSE 0
  PROVE  h[D] = p[n]
  <1> DEFINE First(k) == D \cap (1..k)
             Agrees(k) == h[First(k)] = p[k]
             P == {k \in Nat : k <= n => Agrees(k)}
  <1>0. TakesOut(h, b, D)
    BY SetSumTakesOut
  <1>1. Agrees(0)
    <2>1. First(0) = {} /\ {} \in SUBSET D
      OBVIOUS
    <2>2. h[{}] = 0
      BY <2>1 DEF IsSetSum
    <2>3. p[0] = 0
      BY DEF IsRunningSum
    <2> HIDE DEF First
    <2> QED BY <2>1, <2>2, <2>3
  <1>2. ASSUME NEW k \in Nat, k + 1 <= n, Agrees(k) PROVE Agrees(k + 1)
    <2>1. k + 1 \in 1..n /\ k \in 0..n /\ (k + 1) - 1 = k
      BY <1>2
    <2>2. p[k + 1] = p[k] + a[k + 1] /\ p[k] \in Int
      BY <2>1 DEF IsRunningSum
    <2>3. CASE k + 1 \in D
      <3>1. First(k + 1) \in SUBSET D /\ k + 1 \in First(k + 1) /\ First(k + 1) \ {k + 1} = First(k)
        BY <2>1, <2>3
      <3> HIDE DEF First
      <3>2. h[First(k + 1)] = b[k + 1] + h[First(k)]
        BY <1>0, <3>1 DEF TakesOut
      <3>3. a[k + 1] = b[k + 1] /\ b[k + 1] \in Int
        BY <2>1, <2>3 DEF IsSetSum
      <3> QED BY <1>2, <2>2, <3>2, <3>3
    <2>4. CASE k + 1 \notin D
      <3>1. First(k + 1) = First(k)
        BY <2>1, <2>4
      <3> HIDE DEF First
      <3>2. a[k + 1] = 0
        BY <2>1, <2>4
      <3> QED BY <1>2, <2>2, <3>1, <3>2
    <2> QED BY <2>3, <2>4
  <1>3. First(n) = D
    OBVIOUS
  <1> HIDE DEF First, Agrees
  <1>4. 0 \in P /\ \A k \in Nat : k \in P => k + 1 \in P
    BY <1>1, <1>2
  <1> HIDE DEF P
  <1>5. n \in P
    BY <1>4, Induction
  <1>6. Agrees(n)
    BY <1>5 DEF P
  <1> QED BY <1>3, <1>6 DEF Agrees

\* b is a without its entry i.
Without(b, a, i, n) ==
    a \in [1..n -> Int] /\ \A j \in 1..(n - 1) : b[j] = IF j < i THEN a[j] ELSE a[j + 1]

\* Taking entry i out of a list lowers its sum by what entry i adds.
LEMMA RunningSumTakesOut ==
  ASSUME NEW n \in Nat \ {0}, NEW i \in 1..n, NEW a, NEW p, IsRunningSum(p, a, n),
         NEW b, NEW q, IsRunningSum(q, b, n - 1), Without(b, a, i, n)
  PROVE  p[n] = q[n - 1] + a[i]
  <1> DEFINE Agrees(k) == IF k < i THEN p[k] = q[k] ELSE p[k] = q[k - 1] + a[i]
             P == {k \in Nat : k <= n => Agrees(k)}
  <1>1. \A k \in 0..(n - 1) : q[k] \in Int
    BY DEF IsRunningSum
  <1>2. a \in [1..n -> Int] /\ \A j \in 1..(n - 1) : b[j] = IF j < i THEN a[j] ELSE a[j + 1]
    BY DEF Without
  <1>3. Agrees(0)
    BY DEF IsRunningSum
  <1>4. ASSUME NEW k \in Nat, k + 1 <= n, Agrees(k) PROVE Agrees(k + 1)
    <2>1. k + 1 \in 1..n /\ k \in 0..n /\ (k + 1) - 1 = k
      BY <1>4
    <2>2. p[k + 1] = p[k] + a[k + 1] /\ a[k + 1] \in Int
      BY <1>2, <2>1 DEF IsRunningSum
    <2>3. CASE k + 1 < i
      <3>1. k + 1 \in 1..(n - 1) /\ k \in 0..(n - 1)
        BY <2>3
      <3>2. q[k + 1] = q[k] + b[k + 1]
        BY <2>1, <3>1 DEF IsRunningSum
      <3>3. b[k + 1] = a[k + 1] /\ p[k] = q[k]
        BY <1>4, <1>2, <2>3, <3>1
      <3> QED BY <2>2, <2>3, <3>2, <3>3
    <2>4. CASE k + 1 = i
      <3>1. p[k] = q[k] /\ ~(k + 1 < i)
        BY <1>4, <2>4
      <3> QED BY <2>1, <2>2, <2>4, <3>1
    <2>5. CASE k + 1 > i
      <3>1. k \in 1..(n - 1) /\ k - 1 \in 0..(n - 1) /\ ~(k < i) /\ ~(k + 1 < i)
        BY <1>4, <2>5
      <3>2. p[k] = q[k - 1] + a[i]
        BY <1>4, <3>1
      <3>3. q[k] = q[k - 1] + b[k] /\ b[k] = a[k + 1]
        BY <1>2, <3>1 DEF IsRunningSum
      <3>4. q[k - 1] \in Int /\ a[i] \in Int
        BY <1>1, <1>2, <3>1
      <3>5. p[k + 1] = q[k] + a[i]
        BY <2>2, <3>2, <3>3, <3>4
      <3> QED BY <2>1, <3>1, <3>5
    <2> QED BY <2>3, <2>4, <2>5
  <1> HIDE DEF Agrees
  <1>5. 0 \in P /\ \A k \in Nat : k \in P => k + 1 \in P
    BY <1>3, <1>4
  <1> HIDE DEF P
  <1>6. n \in P
    BY <1>5, Induction
  <1>7. Agrees(n)
    BY <1>6 DEF P
  <1> QED BY <1>7 DEF Agrees

=============================================================================
