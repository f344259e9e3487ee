---------------------------- MODULE CollectorProofs ----------------------------
(***************************************************************************)
(* What the loops of the metrics collector add up to, for lists of every   *)
(* length and in every order. A loop over a list is a fold; FoldProofs     *)
(* shows that it has a value after every turn, and each of the lemmas here *)
(* says what one turn adds and then what all of them come to.              *)
(***************************************************************************)
EXTENDS Collector, FoldProofs

Totals == [Resource -> Int]

\* What can be read is a number.
LEMMA ParsedType == ASSUME NEW text \in Text \ {Unparsable} PROVE Parsed(text) \in Int
  BY DEF Text, Parsed

\* What an instruction holds is a number.
LEMMA HeldType == ASSUME NEW i \in Instruction, NEW r \in Resource PROVE Held(i, r) \in Int
  <1>1. i.cpu # Unparsable => Parsed(i.cpu) \in Int
    BY ParsedType DEF Instruction
  <1>2. i.memory # Unparsable => Parsed(i.memory) \in Int
    BY ParsedType DEF Instruction
  <1> QED BY <1>1, <1>2 DEF Held, Resource

\* A turn of the loop adds to each resource what the instruction holds of it:
\* nothing of one that is not in force, or whose CPU cannot be read, and the CPU
\* alone of one whose memory cannot be read.
LEMMA TurnAddsHeld ==
  ASSUME NEW so \in Totals, NEW i \in Instruction
  PROVE  AddInstruction(so, i) = [r \in Resource |-> so[r] + Held(i, r)]
  <1>0. so = [r \in Resource |-> so[r]] /\ \A r \in Resource : so[r] \in Int
    BY DEF Totals
  <1>1. CASE ~InForce(i) \/ i.cpu = Unparsable
    <2>1. \A r \in Resource : Held(i, r) = 0
      BY <1>1 DEF Held
    <2>2. AddInstruction(so, i) = so
      BY <1>1 DEF AddInstruction
    <2>3. \A r \in Resource : so[r] + Held(i, r) = so[r]
      BY <1>0, <2>1
    <2> QED BY <1>0, <2>2, <2>3
  <1>2. CASE InForce(i) /\ i.cpu # Unparsable
    <2> DEFINE cpu == Parsed(i.cpu)
               memory == IF i.memory = Unparsable THEN 0 ELSE Parsed(i.memory)
    <2>1. AddInstruction(so, i) = [so EXCEPT !.cpu = so.cpu + cpu, !.memory = so.memory + memory]
      BY <1>2 DEF AddInstruction
    <2>2. Held(i, "cpu") = cpu /\ Held(i, "memory") = memory /\ Held(i, "gpu") = 0
      BY <1>2 DEF Held
    <2> HIDE DEF cpu, memory
    <2>3. \A r \in Resource :
            AddInstruction(so, i)[r] = IF r = "cpu" THEN so.cpu + cpu
                                       ELSE IF r = "memory" THEN so.memory + memory ELSE so[r]
      BY <1>0, <2>1 DEF Resource
    <2>4. \A r \in Resource : AddInstruction(so, i)[r] = so[r] + Held(i, r)
      BY <1>0, <2>2, <2>3 DEF Resource
    <2>5. AddInstruction(so, i) = [r \in Resource |-> AddInstruction(so, i)[r]]
      BY <1>0, <2>1 DEF Resource
    <2> QED BY <2>4, <2>5
  <1> QED BY <1>1, <1>2

\* Two instructions may change places: neither what one of them adds nor whether
\* the other is skipped depends on which the cache lists first.
THEOREM InstructionsCommute ==
  ASSUME NEW so \in Totals, NEW i \in Instruction, NEW j \in Instruction
  PROVE  AddInstruction(AddInstruction(so, i), j) = AddInstruction(AddInstruction(so, j), i)
  <1>1. \A r \in Resource : so[r] \in Int /\ Held(i, r) \in Int /\ Held(j, r) \in Int
    BY HeldType DEF Totals
  <1> DEFINE one == [r \in Resource |-> so[r] + Held(i, r)]
             other == [r \in Resource |-> so[r] + Held(j, r)]
  <1>2. one \in Totals /\ other \in Totals
    BY <1>1 DEF Totals
  <1>3. AddInstruction(so, i) = one /\ AddInstruction(so, j) = other
    BY TurnAddsHeld
  <1>4. /\ AddInstruction(one, j) = [r \in Resource |-> one[r] + Held(j, r)]
        /\ AddInstruction(other, i) = [r \in Resource |-> other[r] + Held(i, r)]
    BY <1>2, TurnAddsHeld
  <1>5. \A r \in Resource : one[r] + Held(j, r) = other[r] + Held(i, r)
    BY <1>1
  <1> HIDE DEF one, other
  <1> QED BY <1>3, <1>4, <1>5

\* SumOf is a loop that adds one amount at a turn.
LEMMA SumOfIsRunning ==
  ASSUME NEW n \in Nat, NEW a \in [1..n -> Int]
  PROVE  \E p : IsRunningSum(p, a, n) /\ SumOf(a) = p[n]
  <1> DEFINE step == [i \in 1..n |-> [t \in Int |-> t + a[i]]]
             Def(g) == [S \in SUBSET DOMAIN a |-> IF S = {} THEN 0 ELSE g[S \ {Max(S)}] + a[Max(S)]]
  <1>1. DOMAIN a = 1..n
    OBVIOUS
  <1>2. Turns(step, 0, Int, n)
    BY DEF Turns
  <1>3. \A i \in 1..n : \A t \in Int : step[i][t] = t + a[i]
    OBVIOUS
  <1> HIDE DEF step
  <1>4. PICK h : IsFold(h, step, 0, Int, n)
    BY <1>2, FoldExists
  <1>5. \A S \in SUBSET (1..n) : S # {} => Max(S) \in 1..n /\ S \ {Max(S)} \in SUBSET (1..n)
    BY MaxIndex
  <1>6. ASSUME NEW S \in SUBSET (1..n)
        PROVE  h[S] = IF S = {} THEN 0 ELSE h[S \ {Max(S)}] + a[Max(S)]
    BY <1>3, <1>4, <1>5 DEF IsFold
  <1>7. h = Def(h)
    BY <1>1, <1>4, <1>6 DEF IsFold
  <1>8. PICK g : g = Def(g) /\ SumOf(a) = g[DOMAIN a]
    BY <1>7 DEF SumOf, FoldLeft, MapThenFoldSet
  <1>9. \A S \in SUBSET (1..n) : g[S] = IF S = {} THEN 0 ELSE g[S \ {Max(S)}] + a[Max(S)]
    BY <1>1, <1>8
  <1>10. g[{}] = 0
    BY <1>9
  <1>11. ASSUME NEW k \in 1..n, g[1..(k - 1)] \in Int PROVE g[1..k] = step[k][g[1..(k - 1)]]
    <2>1. 1..k \in SUBSET (1..n) /\ 1..k # {}
      BY MaxInterval
    <2>2. Max(1..k) = k /\ (1..k) \ {k} = 1..(k - 1)
      BY MaxInterval
    <2>3. g[1..k] = g[(1..k) \ {Max(1..k)}] + a[Max(1..k)]
      BY <1>9, <2>1
    <2>4. step[k][g[1..(k - 1)]] = g[1..(k - 1)] + a[k]
      BY <1>3, <1>11
    <2> QED BY <2>2, <2>3, <2>4
  <1>12. GoesOn(g, step, 0, Int, n)
    BY <1>10, <1>11 DEF GoesOn
  <1>13. PICK p : IsLoop(p, step, 0, Int, n) /\ g[1..n] = p[n]
    BY <1>2, <1>12, FoldIsLoop
  <1>14. p \in [0..n -> Int] /\ p[0] = 0
    BY <1>13 DEF IsLoop
  <1>15. ASSUME NEW k \in 1..n PROVE p[k] = p[k - 1] + a[k]
    <2>1. p[k] = step[k][p[k - 1]] /\ k - 1 \in 0..n
      BY <1>13 DEF IsLoop
    <2> QED BY <1>3, <1>14, <2>1
  <1>16. IsRunningSum(p, a, n)
    BY <1>14, <1>15 DEF IsRunningSum
  <1> QED BY <1>1, <1>8, <1>13, <1>16

\* SumFunction sums in an order of its own.
LEMMA SumFunctionIsSetSum ==
  ASSUME NEW D, IsFiniteSet(D), NEW a \in [D -> Int]
  PROVE  \E h : IsSetSum(h, a, D) /\ SumFunction(a) = h[D]
  <1>1. DOMAIN a = D
    OBVIOUS
  <1>2. PICK h : IsSetSum(h, a, D)
    BY SetSumExists
  <1>3. SumsUp(h, a, DOMAIN a)
    BY <1>1, <1>2 DEF IsSetSum, SumsUp
  <1>4. PICK g : SumsUp(g, a, DOMAIN a) /\ SumFunction(a) = g[DOMAIN a]
    BY <1>3 DEF SumFunction, SumFunctionOnSet, FoldFunctionOnSet, MapThenFoldSet, SumsUp, One
  <1>5. IsSetSum(g, a, D)
    BY <1>1, <1>4, SetSumType
  <1> QED BY <1>1, <1>4, <1>5
-----------------------------------------------------------------------------
(* The loop over the instructions.                                         *)

Zero == [r \in Resource |-> 0]

\* The loop goes through the instructions one by one.
LEMMA InstructionsLoop ==
  ASSUME NEW s \in Seq(Instruction)
  PROVE  \E p : /\ p \in [0..Len(s) -> Totals] /\ p[0] = Zero
                /\ \A k \in 1..Len(s) : p[k] = AddInstruction(p[k - 1], s[k])
                /\ FoldLeft(AddInstruction, Zero, s) = p[Len(s)]
  <1> DEFINE n == Len(s)
             step == [i \in 1..n |-> [t \in Totals |-> AddInstruction(t, s[i])]]
             Def(g) == [S \in SUBSET DOMAIN s |->
                          IF S = {} THEN Zero ELSE AddInstruction(g[S \ {Max(S)}], s[Max(S)])]
  <1>0. n \in Nat
    OBVIOUS
  <1>1. DOMAIN s = 1..n /\ \A i \in 1..n : s[i] \in Instruction
    OBVIOUS
  <1>2. ASSUME NEW i \in 1..n, NEW t \in Totals PROVE AddInstruction(t, s[i]) \in Totals
    <2>1. \A r \in Resource : t[r] + Held(s[i], r) \in Int
      BY <1>1, HeldType DEF Totals
    <2> QED BY <1>1, <2>1, TurnAddsHeld DEF Totals
  <1>3. Zero \in Totals
    BY DEF Zero, Totals
  <1> HIDE DEF n
  <1>4. step \in [1..n -> [Totals -> Totals]]
    BY <1>2
  <1>5. \A i \in 1..n : \A t \in Totals : step[i][t] = AddInstruction(t, s[i])
    OBVIOUS
  <1> HIDE DEF step
  <1>6. Turns(step, Zero, Totals, n)
    BY <1>3, <1>4 DEF Turns
  <1>7. PICK h : IsFold(h, step, Zero, Totals, n)
    BY <1>0, <1>6, FoldExists
  <1>8. \A S \in SUBSET (1..n) : S # {} => Max(S) \in 1..n /\ S \ {Max(S)} \in SUBSET (1..n)
    BY <1>0, MaxIndex
  <1>9. ASSUME NEW S \in SUBSET (1..n)
        PROVE  h[S] = IF S = {} THEN Zero ELSE AddInstruction(h[S \ {Max(S)}], s[Max(S)])
    BY <1>5, <1>7, <1>8 DEF IsFold
  <1>10. h = Def(h)
    BY <1>1, <1>7, <1>9 DEF IsFold
  <1>11. PICK g : g = Def(g) /\ FoldLeft(AddInstruction, Zero, s) = g[DOMAIN s]
    BY <1>10 DEF FoldLeft, MapThenFoldSet
  <1>12. \A S \in SUBSET (1..n) :
           g[S] = IF S = {} THEN Zero ELSE AddInstruction(g[S \ {Max(S)}], s[Max(S)])
    BY <1>1, <1>11
  <1>13. g[{}] = Zero
    BY <1>12
  <1>14. ASSUME NEW k \in 1..n, g[1..(k - 1)] \in Totals PROVE g[1..k] = step[k][g[1..(k - 1)]]
    <2>1. 1..k \in SUBSET (1..n) /\ 1..k # {}
      BY <1>0, MaxInterval
    <2>2. Max(1..k) = k /\ (1..k) \ {k} = 1..(k - 1)
      BY <1>0, MaxInterval
    <2>3. g[1..k] = AddInstruction(g[(1..k) \ {Max(1..k)}], s[Max(1..k)])
      BY <1>12, <2>1
    <2> QED BY <1>5, <1>14, <2>2, <2>3
  <1>15. GoesOn(g, step, Zero, Totals, n)
    BY <1>13, <1>14 DEF GoesOn
  <1>16. PICK p : IsLoop(p, step, Zero, Totals, n) /\ g[1..n] = p[n]
    BY <1>0, <1>6, <1>15, FoldIsLoop
  <1>17. p \in [0..n -> Totals] /\ p[0] = Zero
    BY <1>16 DEF IsLoop
  <1>18. ASSUME NEW k \in 1..n PROVE p[k] = AddInstruction(p[k - 1], s[k])
    <2>1. p[k] = step[k][p[k - 1]] /\ k - 1 \in 0..n
      BY <1>0, <1>16 DEF IsLoop
    <2> QED BY <1>5, <1>17, <2>1
  <1> QED BY <1>1, <1>11, <1>16, <1>17, <1>18 DEF n

\* Whatever is in the list, what it reserves of a resource is the sum of what its
\* instructions hold.
LEMMA ReservedRuns ==
  ASSUME NEW s \in Seq(Instruction), NEW r \in Resource
  PROVE  \E q : /\ IsRunningSum(q, [i \in 1..Len(s) |-> Held(s[i], r)], Len(s))
                /\ OrZero(calculateReservedResources(s)[r]) = q[Len(s)]
  <1> DEFINE n == Len(s)
             a == [i \in 1..n |-> Held(s[i], r)]
  <1>0. n \in Nat /\ \A i \in 1..n : s[i] \in Instruction
    OBVIOUS
  <1>1. PICK p : /\ p \in [0..n -> Totals] /\ p[0] = Zero
                 /\ \A k \in 1..n : p[k] = AddInstruction(p[k - 1], s[k])
                 /\ FoldLeft(AddInstruction, Zero, s) = p[n]
    BY InstructionsLoop
  <1> DEFINE q == [k \in 0..n |-> p[k][r]]
  <1>2. calculateReservedResources(s)[r] = IF r = "gpu" THEN Nil ELSE p[n][r]
    BY <1>1 DEF calculateReservedResources, Quantities, Zero
  <1> HIDE DEF n
  <1>3. \A k \in 0..n : p[k] \in Totals /\ p[k][r] \in Int
    BY <1>1 DEF Totals
  <1>4. q \in [0..n -> Int] /\ \A k \in 0..n : q[k] = p[k][r]
    BY <1>3
  <1>5. a \in [1..n -> Int] /\ \A i \in 1..n : a[i] = Held(s[i], r)
    BY <1>0, HeldType
  <1> HIDE DEF q, a
  <1>6. q[0] = 0
    BY <1>0, <1>1, <1>4 DEF Zero
  <1>7. ASSUME NEW k \in 1..n PROVE q[k] = q[k - 1] + a[k]
    <2>1. k - 1 \in 0..n /\ k \in 0..n
      BY <1>0
    <2>2. p[k] = AddInstruction(p[k - 1], s[k])
      BY <1>1
    <2>3. p[k][r] = p[k - 1][r] + Held(s[k], r)
      BY <1>0, <1>3, <2>1, <2>2, TurnAddsHeld
    <2> QED BY <1>4, <1>5, <2>1, <2>3
  <1>8. IsRunningSum(q, a, n)
    BY <1>4, <1>6, <1>7 DEF IsRunningSum
  <1>9. OrZero(calculateReservedResources(s)[r]) = q[n]
    <2>1. CASE r = "gpu"
      <3>1. \A i \in 1..n : a[i] = 0
        BY <1>5, <2>1 DEF Held
      <3>2. q[n] = 0
        BY <1>0, <1>8, <3>1, RunningSumZero
      <3> QED BY <1>2, <2>1, <3>2 DEF OrZero
    <2>2. CASE r # "gpu"
      <3>1. calculateReservedResources(s)[r] = q[n] /\ q[n] \in Int
        BY <1>0, <1>2, <1>3, <1>4, <2>2
      <3> QED BY <3>1, NilAssumption DEF OrZero
    <2> QED BY <2>1, <2>2
  <1> QED BY <1>8, <1>9 DEF n, a

-----------------------------------------------------------------------------
(* The loop over the pods.                                                 *)

\* LargestOf is a number that no amount exceeds, and one of them unless it is zero.
LEMMA LargestOfList ==
  ASSUME NEW n \in Nat, NEW a \in [1..n -> Nat]
  PROVE  /\ LargestOf(a) \in Nat
         /\ \A i \in 1..n : a[i] <= LargestOf(a)
         /\ LargestOf(a) = 0 \/ \E i \in 1..n : LargestOf(a) = a[i]
  <1> DEFINE Larger(t, x) == IF x > t THEN x ELSE t
             step == [i \in 1..n |-> [t \in Nat |-> Larger(t, a[i])]]
             Def(g) == [S \in SUBSET DOMAIN a |->
                          IF S = {} THEN 0 ELSE Larger(g[S \ {Max(S)}], a[Max(S)])]
  <1>1. DOMAIN a = 1..n
    OBVIOUS
  <1>2. \A i \in 1..n : \A t \in Nat : Larger(t, a[i]) \in Nat
    OBVIOUS
  <1>3. Turns(step, 0, Nat, n)
    BY <1>2 DEF Turns
  <1>4. \A i \in 1..n : \A t \in Nat : step[i][t] = Larger(t, a[i])
    OBVIOUS
  <1> HIDE DEF step
  <1>5. PICK h : IsFold(h, step, 0, Nat, n)
    BY <1>3, FoldExists
  <1>6. \A S \in SUBSET (1..n) : S # {} => Max(S) \in 1..n /\ S \ {Max(S)} \in SUBSET (1..n)
    BY MaxIndex
  <1>7. ASSUME NEW S \in SUBSET (1..n)
        PROVE  h[S] = IF S = {} THEN 0 ELSE Larger(h[S \ {Max(S)}], a[Max(S)])
    <2> HIDE DEF Larger
    <2> QED BY <1>4, <1>5, <1>6 DEF IsFold
  <1>8. h = Def(h)
    <2> HIDE DEF Larger
    <2> QED BY <1>1, <1>5, <1>7 DEF IsFold
  <1>9. PICK g : g = Def(g) /\ LargestOf(a) = g[DOMAIN a]
    BY <1>8 DEF LargestOf, FoldLeft, MapThenFoldSet
  <1> HIDE DEF Larger
  <1>10. \A S \in SUBSET (1..n) : g[S] = IF S = {} THEN 0 ELSE Larger(g[S \ {Max(S)}], a[Max(S)])
    BY <1>1, <1>9
  <1>11. g[{}] = 0
    BY <1>10
  <1>12. ASSUME NEW k \in 1..n, g[1..(k - 1)] \in Nat PROVE g[1..k] = step[k][g[1..(k - 1)]]
    <2>1. 1..k \in SUBSET (1..n) /\ 1..k # {}
      BY MaxInterval
    <2>2. Max(1..k) = k /\ (1..k) \ {k} = 1..(k - 1)
      BY MaxInterval
    <2>3. g[1..k] = Larger(g[(1..k) \ {Max(1..k)}], a[Max(1..k)])
      BY <1>10, <2>1
    <2> QED BY <1>4, <1>12, <2>2, <2>3
  <1>13. GoesOn(g, step, 0, Nat, n)
    BY <1>11, <1>12 DEF GoesOn
  <1>14. PICK p : IsLoop(p, step, 0, Nat, n) /\ g[1..n] = p[n]
    BY <1>3, <1>13, FoldIsLoop
  <1>15. p \in [0..n -> Nat] /\ p[0] = 0 /\ LargestOf(a) = p[n]
    BY <1>1, <1>9, <1>14 DEF IsLoop
  <1>16. ASSUME NEW k \in 1..n PROVE p[k] = Larger(p[k - 1], a[k])
    <2>1. p[k] = step[k][p[k - 1]] /\ k - 1 \in 0..n
      BY <1>14 DEF IsLoop
    <2> QED BY <1>4, <1>15, <2>1
  <1> DEFINE Found(k) == /\ \A i \in 1..k : a[i] <= p[k]
                         /\ p[k] = 0 \/ \E i \in 1..k : p[k] = a[i]
             P == {k \in Nat : k <= n => Found(k)}
  <1>17. Found(0)
    BY <1>15
  <1>18. ASSUME NEW k \in Nat, k + 1 <= n, Found(k) PROVE Found(k + 1)
    <2>1. k + 1 \in 1..n /\ (k + 1) - 1 = k /\ k \in 0..n
      BY <1>18
    <2>2. p[k] \in Nat /\ a[k + 1] \in Nat /\ \A i \in 1..k : a[i] \in Nat
      BY <1>15, <2>1
    <2>3. p[k + 1] = IF a[k + 1] > p[k] THEN a[k + 1] ELSE p[k]
      BY <1>16, <2>1 DEF Larger
    <2>4. \A i \in 1..(k + 1) : i \in 1..k \/ i = k + 1
      OBVIOUS
    <2>5. ASSUME NEW i \in 1..(k + 1) PROVE a[i] <= p[k + 1]
      BY <1>18, <2>2, <2>3, <2>4
    <2>6. p[k + 1] = 0 \/ \E i \in 1..(k + 1) : p[k + 1] = a[i]
      BY <1>18, <2>2, <2>3
    <2> QED BY <2>5, <2>6
  <1> HIDE DEF Found
  <1>19. 0 \in P /\ \A k \in Nat : k \in P => k + 1 \in P
    BY <1>17, <1>18
  <1> HIDE DEF P
  <1>20. n \in P
    BY <1>19, Induction
  <1>21. Found(n)
    BY <1>20 DEF P
  <1> QED BY <1>15, <1>21 DEF Found

\* What a list names of a resource, or nothing.
LEMMA OfType == ASSUME NEW list, IsResourceList(list), NEW r PROVE Of(list, r) \in Nat
  BY DEF IsResourceList, Of, Named

\* What the containers of a list ask for.
LEMMA AsksType ==
  ASSUME NEW cs, IsListOf(IsResourceList, cs), NEW r
  PROVE  /\ Len(cs) \in Nat /\ DOMAIN cs = 1..Len(cs)
         /\ Asks(cs, r) \in [1..Len(cs) -> Nat]
         /\ \A i \in 1..Len(cs) : Asks(cs, r)[i] = Of(cs[i], r)
  <1>1. cs \in Seq(Range(cs)) /\ \A i \in DOMAIN cs : IsResourceList(cs[i])
    BY DEF IsListOf
  <1>2. Len(cs) \in Nat /\ DOMAIN cs = 1..Len(cs)
    BY <1>1
  <1>3. \A i \in 1..Len(cs) : Of(cs[i], r) \in Nat
    BY <1>1, <1>2, OfType
  <1> QED BY <1>2, <1>3 DEF Asks

\* a and b are the same amounts: a has an entry for each index up to n, b has none
\* where a has nothing.
SameAmounts(a, b, D, n) ==
    b \in [D -> Int] /\ \A i \in 1..n : a[i] = IF i \in D THEN b[i] ELSE 0

\* What a loop adds up is the sum, in any order, of the entries it does not pass
\* over.
LEMMA RunningIsSumFunction ==
  ASSUME NEW n \in Nat, NEW D \in SUBSET (1..n), NEW a, NEW b, SameAmounts(a, b, D, n),
         NEW p, IsRunningSum(p, a, n)
  PROVE  p[n] = SumFunction(b)
  <1>1. b \in [D -> Int] /\ \A i \in 1..n : a[i] = IF i \in D THEN b[i] ELSE 0
    BY DEF SameAmounts
  <1>2. IsFiniteSet(1..n)
    BY FS_Interval
  <1>3. IsFiniteSet(D)
    BY <1>2, FS_Subset
  <1>4. PICK h : IsSetSum(h, b, D) /\ SumFunction(b) = h[D]
    BY <1>1, <1>3, SumFunctionIsSetSum
  <1>5. h[D] = p[n]
    BY <1>1, <1>3, <1>4, RunningIsSetSum
  <1> QED BY <1>4, <1>5

\* The containers of a pod ask for the sum of what each asks for.
LEMMA ContainerSumIsSum ==
  ASSUME NEW pod, IsPod(pod), NEW r
  PROVE  /\ ContainerSum(pod, r) \in Nat
         /\ ContainerSum(pod, r) = SumFunction(Asks(pod.containers, r))
         /\ (\A i \in DOMAIN pod.containers : ~Named(pod.containers[i], r)) => ContainerSum(pod, r) = 0
  <1> DEFINE n == Len(pod.containers)
             a == Asks(pod.containers, r)
  <1>1. /\ n \in Nat /\ DOMAIN pod.containers = 1..n
        /\ a \in [1..n -> Nat] /\ \A i \in 1..n : a[i] = Of(pod.containers[i], r)
    BY AsksType DEF IsPod
  <1> HIDE DEF n, a
  <1>2. a \in [1..n -> Int] /\ 1..n \in SUBSET (1..n) /\ SameAmounts(a, a, 1..n, n)
    BY <1>1 DEF SameAmounts
  <1>3. PICK p : IsRunningSum(p, a, n) /\ SumOf(a) = p[n]
    BY <1>1, <1>2, SumOfIsRunning
  <1>4. SumOf(a) = SumFunction(a)
    BY <1>1, <1>2, <1>3, RunningIsSumFunction
  <1>5. p[n] \in Nat
    BY <1>1, <1>3, RunningSumNat
  <1>6. ASSUME \A i \in DOMAIN pod.containers : ~Named(pod.containers[i], r) PROVE p[n] = 0
    <2>1. \A i \in 1..n : a[i] = 0
      BY <1>1, <1>6 DEF Of
    <2> QED BY <1>1, <1>3, <2>1, RunningSumZero
  <1> QED BY <1>3, <1>4, <1>5, <1>6 DEF ContainerSum, a

\* Max finds a number that is in the set and that no other exceeds.
LEMMA MaxIs ==
  ASSUME NEW S \in SUBSET Int, NEW m \in S, \A y \in S : m >= y
  PROVE  Max(S) = m
  <1>1. Max(S) \in S /\ \A y \in S : Max(S) >= y
    BY DEF Max
  <1>2. Max(S) >= m /\ m >= Max(S) /\ Max(S) \in Int
    BY <1>1
  <1> QED BY <1>2

\* What is added for the containers of a pod is the larger of what they ask for
\* together and of what its init containers ask for one by one.
LEMMA ContributionIsEffective ==
  ASSUME NEW pod, IsPod(pod), NEW r
  PROVE  /\ Contribution(pod, r) \in Nat
         /\ Contribution(pod, r) + Of(pod.overhead, r) = EffectiveRequest(pod, r)
         /\ r = "gpu" /\ ~ContainersNameGPU(pod) => Contribution(pod, r) = 0
  <1> DEFINE n == Len(pod.initContainers)
             a == Asks(pod.initContainers, r)
             sum == SumFunction(Asks(pod.containers, r))
             S == {sum} \cup Range(a)
  <1>1. /\ n \in Nat /\ DOMAIN pod.initContainers = 1..n
        /\ a \in [1..n -> Nat] /\ \A i \in 1..n : a[i] = Of(pod.initContainers[i], r)
    BY AsksType DEF IsPod
  <1>2. /\ InitMax(pod, r) \in Nat
        /\ \A i \in 1..n : a[i] <= InitMax(pod, r)
        /\ InitMax(pod, r) = 0 \/ \E i \in 1..n : InitMax(pod, r) = a[i]
    <2> HIDE DEF n, a
    <2>1. /\ LargestOf(a) \in Nat
          /\ \A i \in 1..n : a[i] <= LargestOf(a)
          /\ LargestOf(a) = 0 \/ \E i \in 1..n : LargestOf(a) = a[i]
      BY <1>1, LargestOfList
    <2> QED BY <2>1 DEF InitMax, a
  <1>3. ContainerSum(pod, r) \in Nat /\ ContainerSum(pod, r) = sum
    BY ContainerSumIsSum
  <1>4. EffectiveRequest(pod, r) = Max(S) + Of(pod.overhead, r)
    BY DEF EffectiveRequest
  <1> HIDE DEF n, a, sum
  <1>5. Contribution(pod, r) = IF InitMax(pod, r) > sum THEN InitMax(pod, r) ELSE sum
    BY <1>3 DEF Contribution
  <1>6. Contribution(pod, r) \in Nat
    BY <1>2, <1>3, <1>5
  <1>7. \A y \in S : y = sum \/ \E i \in 1..n : y = a[i]
    BY <1>1 DEF Range
  <1>8. S \in SUBSET Int
    BY <1>1, <1>3, <1>7
  <1>9. \A y \in S : Contribution(pod, r) >= y
    BY <1>1, <1>2, <1>3, <1>5, <1>7
  <1>10. Contribution(pod, r) \in S
    <2>1. CASE InitMax(pod, r) > sum
      <3>1. InitMax(pod, r) # 0
        BY <1>3, <2>1
      <3>2. PICK i \in 1..n : InitMax(pod, r) = a[i]
        BY <1>2, <3>1
      <3>3. a[i] \in Range(a)
        BY <1>1 DEF Range
      <3> QED BY <1>5, <2>1, <3>2, <3>3
    <2>2. CASE ~(InitMax(pod, r) > sum)
      BY <1>5, <2>2
    <2> QED BY <2>1, <2>2
  <1> HIDE DEF S
  <1>11. Max(S) = Contribution(pod, r)
    BY <1>8, <1>9, <1>10, MaxIs
  <1>12. ASSUME r = "gpu", ~ContainersNameGPU(pod) PROVE Contribution(pod, r) = 0
    <2>1. \A i \in DOMAIN pod.containers : ~Named(pod.containers[i], r)
      BY <1>12 DEF ContainersNameGPU
    <2>2. \A i \in DOMAIN pod.initContainers : ~Named(pod.initContainers[i], r)
      BY <1>12 DEF ContainersNameGPU
    <2>3. sum = 0
      BY <1>3, <2>1, ContainerSumIsSum
    <2>4. \A i \in 1..n : a[i] = 0
      BY <1>1, <2>2 DEF Of
    <2>5. InitMax(pod, r) = 0
      BY <1>2, <2>4
    <2> QED BY <1>5, <2>3, <2>5
  <1> QED BY <1>4, <1>6, <1>11, <1>12

PodTotals == [hasGPU : BOOLEAN, sum : Totals]

NoPods == [hasGPU |-> FALSE, sum |-> Zero]

\* What a pod costs: nothing if it is over.
Costs(pod, r) == IF IsCounted(pod) THEN EffectiveRequest(pod, r) ELSE 0

\* What a pod costs is a number.
LEMMA CostsType == ASSUME NEW pod, IsPod(pod), NEW r PROVE Costs(pod, r) \in Nat
  <1>1. Of(pod.overhead, r) \in Nat
    BY OfType DEF IsPod
  <1>2. EffectiveRequest(pod, r) \in Nat
    BY <1>1, ContributionIsEffective
  <1> QED BY <1>2 DEF Costs

\* A turn adds to each resource what the pod costs, whether or not a GPU was met
\* before; and as long as none was met, none is owed.
LEMMA TurnAddsCosts ==
  ASSUME NEW so \in PodTotals, NEW pod, IsPod(pod)
  PROVE  /\ AddPod(so, pod) \in PodTotals
         /\ \A r \in Resource : AddPod(so, pod).sum[r] = so.sum[r] + Costs(pod, r)
         /\ AddPod(so, pod).hasGPU = FALSE => so.hasGPU = FALSE /\ Costs(pod, "gpu") = 0
  <1>0. so.hasGPU \in BOOLEAN /\ so.sum \in Totals /\ \A r \in Resource : so.sum[r] \in Int
    BY DEF PodTotals, Totals
  <1>1. CASE ~IsCounted(pod)
    <2>1. AddPod(so, pod) = so /\ \A r \in Resource : Costs(pod, r) = 0
      BY <1>1 DEF AddPod, Costs
    <2>2. \A r \in Resource : so.sum[r] + 0 = so.sum[r]
      BY <1>0
    <2>3. "gpu" \in Resource
      BY DEF Resource
    <2> QED BY <2>1, <2>2, <2>3
  <1>2. CASE IsCounted(pod)
    <2> DEFINE hasGPU == so.hasGPU \/ ContainersNameGPU(pod)
               met == hasGPU \/ Named(pod.overhead, "gpu")
               Adds(r) == IF r = "gpu" /\ ~hasGPU THEN 0 ELSE Contribution(pod, r)
               sum == [r \in Resource |-> so.sum[r] + Adds(r) + Of(pod.overhead, r)]
    <2>1. AddPod(so, pod) = [hasGPU |-> met, sum |-> sum]
      BY <1>2 DEF AddPod
    <2>2. \A r \in Resource : Adds(r) = Contribution(pod, r) /\ Contribution(pod, r) \in Nat
      BY ContributionIsEffective
    <2>3. \A r \in Resource : Of(pod.overhead, r) \in Nat
      BY OfType DEF IsPod
    <2>4. \A r \in Resource : Costs(pod, r) = Contribution(pod, r) + Of(pod.overhead, r)
      BY <1>2, ContributionIsEffective DEF Costs
    <2> HIDE DEF Adds
    <2>5. \A r \in Resource : sum[r] = so.sum[r] + Costs(pod, r) /\ sum[r] \in Int
      BY <1>0, <2>2, <2>3, <2>4
    <2>6. sum \in Totals
      BY <2>5 DEF Totals
    <2> HIDE DEF sum
    <2>7. /\ met \in BOOLEAN
          /\ met = FALSE => /\ so.hasGPU = FALSE /\ ~ContainersNameGPU(pod)
                           /\ ~Named(pod.overhead, "gpu")
      BY <1>0
    <2> HIDE DEF met
    <2>8. AddPod(so, pod) \in PodTotals
      BY <2>1, <2>6, <2>7 DEF PodTotals
    <2>9. AddPod(so, pod).sum = sum /\ AddPod(so, pod).hasGPU = met
      BY <2>1
    <2>10. ASSUME AddPod(so, pod).hasGPU = FALSE PROVE so.hasGPU = FALSE /\ Costs(pod, "gpu") = 0
      <3>1. so.hasGPU = FALSE /\ ~ContainersNameGPU(pod) /\ ~Named(pod.overhead, "gpu")
        BY <2>7, <2>9, <2>10
      <3>2. "gpu" \in Resource
        BY DEF Resource
      <3>3. Contribution(pod, "gpu") = 0
        BY <3>1, ContributionIsEffective
      <3>4. Of(pod.overhead, "gpu") = 0
        BY <3>1 DEF Of
      <3> QED BY <2>4, <3>1, <3>2, <3>3, <3>4
    <2> QED BY <2>5, <2>8, <2>9, <2>10
  <1> QED BY <1>1, <1>2

\* The loop goes through the pods one by one.
LEMMA PodsLoop ==
  ASSUME NEW X, \A x \in X : IsPod(x), NEW s \in Seq(X)
  PROVE  \E p : /\ p \in [0..Len(s) -> PodTotals] /\ p[0] = NoPods
                /\ \A k \in 1..Len(s) : p[k] = AddPod(p[k - 1], s[k])
                /\ FoldLeft(AddPod, NoPods, s) = p[Len(s)]
  <1> DEFINE n == Len(s)
             step == [i \in 1..n |-> [t \in PodTotals |-> AddPod(t, s[i])]]
             Def(g) == [S \in SUBSET DOMAIN s |->
                          IF S = {} THEN NoPods ELSE AddPod(g[S \ {Max(S)}], s[Max(S)])]
  <1>0. n \in Nat
    OBVIOUS
  <1>1. DOMAIN s = 1..n /\ \A i \in 1..n : IsPod(s[i])
    OBVIOUS
  <1>2. \A i \in 1..n : \A t \in PodTotals : AddPod(t, s[i]) \in PodTotals
    BY <1>1, TurnAddsCosts
  <1>3. NoPods \in PodTotals
    BY DEF NoPods, PodTotals, Zero, Totals
  <1> HIDE DEF n
  <1>4. step \in [1..n -> [PodTotals -> PodTotals]]
    BY <1>2
  <1>5. \A i \in 1..n : \A t \in PodTotals : step[i][t] = AddPod(t, s[i])
    OBVIOUS
  <1> HIDE DEF step
  <1>6. Turns(step, NoPods, PodTotals, n)
    BY <1>3, <1>4 DEF Turns
  <1>7. PICK h : IsFold(h, step, NoPods, PodTotals, n)
    BY <1>0, <1>6, FoldExists
  <1>8. \A S \in SUBSET (1..n) : S # {} => Max(S) \in 1..n /\ S \ {Max(S)} \in SUBSET (1..n)
    BY <1>0, MaxIndex
  <1>9. ASSUME NEW S \in SUBSET (1..n)
        PROVE  h[S] = IF S = {} THEN NoPods ELSE AddPod(h[S \ {Max(S)}], s[Max(S)])
    BY <1>5, <1>7, <1>8 DEF IsFold
  <1>10. h = Def(h)
    BY <1>1, <1>7, <1>9 DEF IsFold
  <1>11. PICK g : g = Def(g) /\ FoldLeft(AddPod, NoPods, s) = g[DOMAIN s]
    BY <1>10 DEF FoldLeft, MapThenFoldSet
  <1>12. \A S \in SUBSET (1..n) : g[S] = IF S = {} THEN NoPods ELSE AddPod(g[S \ {Max(S)}], s[Max(S)])
    BY <1>1, <1>11
  <1>13. g[{}] = NoPods
    BY <1>12
  <1>14. ASSUME NEW k \in 1..n, g[1..(k - 1)] \in PodTotals PROVE g[1..k] = step[k][g[1..(k - 1)]]
    <2>1. 1..k \in SUBSET (1..n) /\ 1..k # {}
      BY <1>0, MaxInterval
    <2>2. Max(1..k) = k /\ (1..k) \ {k} = 1..(k - 1)
      BY <1>0, MaxInterval
    <2>3. g[1..k] = AddPod(g[(1..k) \ {Max(1..k)}], s[Max(1..k)])
      BY <1>12, <2>1
    <2> QED BY <1>5, <1>14, <2>2, <2>3
  <1>15. GoesOn(g, step, NoPods, PodTotals, n)
    BY <1>13, <1>14 DEF GoesOn
  <1>16. PICK p : IsLoop(p, step, NoPods, PodTotals, n) /\ g[1..n] = p[n]
    BY <1>0, <1>6, <1>15, FoldIsLoop
  <1>17. p \in [0..n -> PodTotals] /\ p[0] = NoPods
    BY <1>16 DEF IsLoop
  <1>18. ASSUME NEW k \in 1..n PROVE p[k] = AddPod(p[k - 1], s[k])
    <2>1. p[k] = step[k][p[k - 1]] /\ k - 1 \in 0..n
      BY <1>0, <1>16 DEF IsLoop
    <2> QED BY <1>5, <1>17, <2>1
  <1> QED BY <1>1, <1>11, <1>16, <1>17, <1>18 DEF n

\* Whatever is in the list and in whatever order, what it has allocated of a
\* resource is the sum of what its pods cost.
LEMMA AllocatedRuns ==
  ASSUME NEW X, \A x \in X : IsPod(x), NEW s \in Seq(X), NEW r \in Resource
  PROVE  \E q : /\ IsRunningSum(q, [i \in 1..Len(s) |-> Costs(s[i], r)], Len(s))
                /\ OrZero(calculateAllocatedResources(s)[r]) = q[Len(s)]
  <1> DEFINE n == Len(s)
             a == [i \in 1..n |-> Costs(s[i], r)]
  <1>0. n \in Nat /\ \A i \in 1..n : IsPod(s[i])
    OBVIOUS
  <1>1. PICK p : /\ p \in [0..n -> PodTotals] /\ p[0] = NoPods
                 /\ \A k \in 1..n : p[k] = AddPod(p[k - 1], s[k])
                 /\ FoldLeft(AddPod, NoPods, s) = p[n]
    BY PodsLoop
  <1> DEFINE q == [k \in 0..n |-> p[k].sum[r]]
  <1>2. calculateAllocatedResources(s)[r] = IF r = "gpu" /\ ~p[n].hasGPU THEN Nil ELSE p[n].sum[r]
    BY <1>1 DEF calculateAllocatedResources, Quantities, NoPods, Zero
  <1> HIDE DEF n
  <1>3. \A k \in 0..n : p[k] \in PodTotals /\ p[k].sum[r] \in Int /\ p[k].hasGPU \in BOOLEAN
    BY <1>1 DEF PodTotals, Totals
  <1>4. q \in [0..n -> Int] /\ \A k \in 0..n : q[k] = p[k].sum[r]
    BY <1>3
  <1>5. a \in [1..n -> Nat] /\ \A i \in 1..n : a[i] = Costs(s[i], r)
    BY <1>0, CostsType
  <1> HIDE DEF q, a
  <1>6. q[0] = 0
    BY <1>0, <1>1, <1>4 DEF NoPods, Zero
  <1>7. ASSUME NEW k \in 1..n
        PROVE  q[k] = q[k - 1] + a[k] /\ (p[k].hasGPU = FALSE => p[k - 1].hasGPU = FALSE /\ Costs(s[k], "gpu") = 0)
    <2>1. k - 1 \in 0..n /\ k \in 0..n
      BY <1>0
    <2>2. p[k] = AddPod(p[k - 1], s[k])
      BY <1>1
    <2>3. p[k - 1] \in PodTotals /\ IsPod(s[k])
      BY <1>0, <1>3, <2>1
    <2>4. p[k].sum[r] = p[k - 1].sum[r] + Costs(s[k], r)
      BY <2>2, <2>3, TurnAddsCosts
    <2>5. p[k].hasGPU = FALSE => p[k - 1].hasGPU = FALSE /\ Costs(s[k], "gpu") = 0
      BY <2>2, <2>3, TurnAddsCosts
    <2> QED BY <1>4, <1>5, <2>1, <2>4, <2>5
  <1>8. IsRunningSum(q, a, n)
    BY <1>4, <1>6, <1>7 DEF IsRunningSum
  <1>9. ASSUME r = "gpu", p[n].hasGPU = FALSE PROVE q[n] = 0
    <2> DEFINE NoneMet(k) == p[k].hasGPU = FALSE => q[k] = 0
               P == {k \in Nat : k <= n => NoneMet(k)}
    <2>1. NoneMet(0)
      BY <1>6
    <2>2. ASSUME NEW k \in Nat, k + 1 <= n, NoneMet(k) PROVE NoneMet(k + 1)
      <3>1. k + 1 \in 1..n /\ (k + 1) - 1 = k
        BY <1>0, <2>2
      <3> SUFFICES ASSUME p[k + 1].hasGPU = FALSE PROVE q[k + 1] = 0
        OBVIOUS
      <3>2. q[k + 1] = q[k] + a[k + 1] /\ p[k].hasGPU = FALSE /\ Costs(s[k + 1], "gpu") = 0
        BY <1>7, <3>1
      <3>3. q[k] = 0 /\ a[k + 1] = 0
        BY <1>5, <1>9, <2>2, <3>1, <3>2
      <3> QED BY <3>2, <3>3
    <2> HIDE DEF NoneMet
    <2>3. 0 \in P /\ \A k \in Nat : k \in P => k + 1 \in P
      BY <1>0, <2>1, <2>2
    <2> HIDE DEF P
    <2>4. n \in P
      BY <1>0, <2>3, Induction
    <2>5. NoneMet(n)
      BY <1>0, <2>4 DEF P
    <2> QED BY <1>9, <2>5 DEF NoneMet
  <1>10. OrZero(calculateAllocatedResources(s)[r]) = q[n]
    <2>0. n \in 0..n
      BY <1>0
    <2>1. CASE r = "gpu" /\ ~p[n].hasGPU
      <3>1. p[n].hasGPU = FALSE
        BY <1>3, <2>0, <2>1
      <3> QED BY <1>2, <1>9, <2>1, <3>1 DEF OrZero
    <2>2. CASE ~(r = "gpu" /\ ~p[n].hasGPU)
      <3>1. calculateAllocatedResources(s)[r] = q[n] /\ q[n] \in Int
        BY <1>2, <1>3, <1>4, <2>0, <2>2
      <3> QED BY <3>1, NilAssumption DEF OrZero
    <2> QED BY <2>1, <2>2
  <1> QED BY <1>8, <1>10 DEF n, a

-----------------------------------------------------------------------------
(* The two invariants.                                                     *)

\* Taking entry i out of a list moves the later ones up by one.
LEMMA RemoveAtIs ==
  ASSUME NEW X, NEW s \in Seq(X), NEW i \in 1..Len(s)
  PROVE  /\ Len(s) \in Nat \ {0}
         /\ RemoveAt(s, i) \in Seq(X) /\ Len(RemoveAt(s, i)) = Len(s) - 1
         /\ \A j \in 1..(Len(s) - 1) : RemoveAt(s, i)[j] = IF j < i THEN s[j] ELSE s[j + 1]
  <1> DEFINE before == SubSeq(s, 1, i - 1)
             after == SubSeq(s, i + 1, Len(s))
  <1>1. Len(s) \in Nat \ {0} /\ i \in Nat /\ 1 <= i /\ i <= Len(s)
    OBVIOUS
  <1>2. before \in Seq(X) /\ Len(before) = i - 1 /\ \A j \in 1..(i - 1) : before[j] = s[j]
    BY <1>1
  <1>3. /\ after \in Seq(X) /\ Len(after) = Len(s) - i
        /\ \A j \in 1..(Len(s) - i) : after[j] = s[i + j]
    BY <1>1
  <1> HIDE DEF before, after
  <1>4. before \o after \in Seq(X) /\ Len(before \o after) = Len(s) - 1
    <2>1. before \o after \in Seq(X) /\ Len(before \o after) = Len(before) + Len(after)
      BY <1>2, <1>3
    <2> QED BY <1>1, <1>2, <1>3, <2>1
  <1>5. ASSUME NEW j \in 1..(Len(s) - 1)
        PROVE  (before \o after)[j] = IF j < i THEN s[j] ELSE s[j + 1]
    <2>1. CASE j < i
      BY <1>1, <1>2, <1>3, <2>1
    <2>2. CASE ~(j < i)
      <3>1. (before \o after)[j] = after[j - (i - 1)]
        BY <1>1, <1>2, <1>3, <2>2
      <3>2. j - (i - 1) \in 1..(Len(s) - i) /\ i + (j - (i - 1)) = j + 1
        BY <1>1, <2>2
      <3> QED BY <1>3, <2>2, <3>1, <3>2
    <2> QED BY <2>1, <2>2
  <1> QED BY <1>1, <1>4, <1>5 DEF RemoveAt, before, after

\* A running sum over a list of one entry is that entry's amount.
LEMMA RunningSumOfOne ==
  ASSUME NEW a, NEW q, IsRunningSum(q, a, 1), a[1] \in Int
  PROVE  q[1] = a[1]
  <1>1. q[0] = 0 /\ q[1] = q[1 - 1] + a[1] /\ 1 - 1 = 0
    BY DEF IsRunningSum
  <1> QED BY <1>1

\* Each instruction counts for itself.
LEMMA InstructionCountsForItself ==
  ASSUME NEW s \in Seq(Instruction), NEW i \in 1..Len(s), NEW r \in Resource
  PROVE  OrZero(calculateReservedResources(s)[r])
           = OrZero(calculateReservedResources(RemoveAt(s, i))[r])
             + OrZero(calculateReservedResources(<<s[i]>>)[r])
  <1> DEFINE n == Len(s)
             t == RemoveAt(s, i)
             a == [k \in 1..n |-> Held(s[k], r)]
             b == [k \in 1..(n - 1) |-> Held(t[k], r)]
             one == <<s[i]>>
             c == [k \in 1..1 |-> Held(one[k], r)]
  <1>1. /\ n \in Nat \ {0} /\ t \in Seq(Instruction) /\ Len(t) = n - 1
        /\ \A j \in 1..(n - 1) : t[j] = IF j < i THEN s[j] ELSE s[j + 1]
    BY RemoveAtIs
  <1>2. one \in Seq(Instruction) /\ Len(one) = 1 /\ one[1] = s[i]
    OBVIOUS
  <1>3. \A k \in 1..n : s[k] \in Instruction
    OBVIOUS
  <1>4. PICK p : IsRunningSum(p, a, n) /\ OrZero(calculateReservedResources(s)[r]) = p[n]
    BY ReservedRuns
  <1> HIDE DEF n, t, one
  <1>5. PICK q : IsRunningSum(q, b, n - 1) /\ OrZero(calculateReservedResources(t)[r]) = q[n - 1]
    BY <1>1, ReservedRuns
  <1>6. PICK o : IsRunningSum(o, c, 1) /\ OrZero(calculateReservedResources(one)[r]) = o[1]
    BY <1>2, ReservedRuns
  <1>7. a \in [1..n -> Int] /\ a[i] = Held(s[i], r)
    BY <1>3, HeldType DEF n
  <1>8. c[1] = Held(s[i], r)
    BY <1>2
  <1>9. i \in 1..n
    BY DEF n
  <1>10. ASSUME NEW j \in 1..(n - 1) PROVE b[j] = IF j < i THEN a[j] ELSE a[j + 1]
    <2>1. j \in 1..n /\ j + 1 \in 1..n
      BY <1>1
    <2> QED BY <1>1, <2>1
  <1> HIDE DEF a, b, c
  <1>11. p[n] = q[n - 1] + a[i]
    <2>1. Without(b, a, i, n)
      BY <1>7, <1>10 DEF Without
    <2> QED BY <1>1, <1>4, <1>5, <1>9, <2>1, RunningSumTakesOut
  <1>12. o[1] = a[i]
    BY <1>6, <1>7, <1>8, <1>9, RunningSumOfOne
  <1> QED BY <1>4, <1>5, <1>6, <1>11, <1>12 DEF t, one

\* Each pod counts for itself.
LEMMA PodCountsForItself ==
  ASSUME NEW X, \A x \in X : IsPod(x), NEW s \in Seq(X), NEW i \in 1..Len(s), NEW r \in Resource
  PROVE  OrZero(calculateAllocatedResources(s)[r])
           = OrZero(calculateAllocatedResources(RemoveAt(s, i))[r])
             + OrZero(calculateAllocatedResources(<<s[i]>>)[r])
  <1> DEFINE n == Len(s)
             t == RemoveAt(s, i)
             a == [k \in 1..n |-> Costs(s[k], r)]
             b == [k \in 1..(n - 1) |-> Costs(t[k], r)]
             one == <<s[i]>>
             c == [k \in 1..1 |-> Costs(one[k], r)]
  <1>1. /\ n \in Nat \ {0} /\ t \in Seq(X) /\ Len(t) = n - 1
        /\ \A j \in 1..(n - 1) : t[j] = IF j < i THEN s[j] ELSE s[j + 1]
    BY RemoveAtIs
  <1>2. one \in Seq(X) /\ Len(one) = 1 /\ one[1] = s[i]
    OBVIOUS
  <1>3. \A k \in 1..n : IsPod(s[k])
    OBVIOUS
  <1>4. PICK p : IsRunningSum(p, a, n) /\ OrZero(calculateAllocatedResources(s)[r]) = p[n]
    BY AllocatedRuns
  <1> HIDE DEF n, t, one
  <1>5. PICK q : IsRunningSum(q, b, n - 1) /\ OrZero(calculateAllocatedResources(t)[r]) = q[n - 1]
    BY <1>1, AllocatedRuns
  <1>6. PICK o : IsRunningSum(o, c, 1) /\ OrZero(calculateAllocatedResources(one)[r]) = o[1]
    BY <1>2, AllocatedRuns
  <1>7. a \in [1..n -> Int] /\ a[i] = Costs(s[i], r)
    BY <1>3, CostsType DEF n
  <1>8. c[1] = Costs(s[i], r)
    BY <1>2
  <1>9. i \in 1..n
    BY DEF n
  <1>10. ASSUME NEW j \in 1..(n - 1) PROVE b[j] = IF j < i THEN a[j] ELSE a[j + 1]
    <2>1. j \in 1..n /\ j + 1 \in 1..n
      BY <1>1
    <2> QED BY <1>1, <2>1
  <1> HIDE DEF a, b, c
  <1>11. p[n] = q[n - 1] + a[i]
    <2>1. Without(b, a, i, n)
      BY <1>7, <1>10 DEF Without
    <2> QED BY <1>1, <1>4, <1>5, <1>9, <2>1, RunningSumTakesOut
  <1>12. o[1] = a[i]
    BY <1>6, <1>7, <1>8, <1>9, RunningSumOfOne
  <1> QED BY <1>4, <1>5, <1>6, <1>11, <1>12 DEF t, one

\* The list of nodes adds up to what the ready ones offer.
LEMMA AllocatableIsOffered ==
  ASSUME NEW nodes, IsListOf(IsNode, nodes), NEW r \in Resource
  PROVE  LET Ready == {i \in DOMAIN nodes : isNodeReady(nodes[i])}
         IN /\ SumFunction([i \in Ready |-> Of(nodes[i].allocatable, r)]) \in Int
            /\ Allocatable(nodes)[r] = IF r = "gpu" /\ ~HasGPU(nodes) THEN Nil
                                       ELSE SumFunction([i \in Ready |-> Of(nodes[i].allocatable, r)])
  <1> DEFINE n == Len(nodes)
             Ready == {i \in DOMAIN nodes : isNodeReady(nodes[i])}
             a == [i \in DOMAIN nodes |-> IfReady(nodes[i], nodes[i].allocatable, r)]
             b == [i \in Ready |-> Of(nodes[i].allocatable, r)]
  <1>1. nodes \in Seq(Range(nodes)) /\ \A i \in DOMAIN nodes : IsNode(nodes[i])
    BY DEF IsListOf
  <1>2. n \in Nat /\ DOMAIN nodes = 1..n
    BY <1>1
  <1>3. \A i \in DOMAIN nodes : Of(nodes[i].allocatable, r) \in Nat
    BY <1>1, OfType DEF IsNode
  <1>4. a \in [1..n -> Int] /\ Ready \in SUBSET (1..n)
    BY <1>2, <1>3 DEF IfReady
  <1>5. SameAmounts(a, b, Ready, n)
    BY <1>2, <1>3 DEF IfReady, SameAmounts
  <1>6. Allocatable(nodes)[r] = IF r = "gpu" /\ ~HasGPU(nodes) THEN Nil ELSE SumOf(a)
    BY DEF Allocatable, Quantities
  <1> HIDE DEF n, Ready, a, b
  <1>7. PICK p : IsRunningSum(p, a, n) /\ SumOf(a) = p[n]
    BY <1>2, <1>4, SumOfIsRunning
  <1>8. SumOf(a) = SumFunction(b)
    BY <1>2, <1>4, <1>5, <1>7, RunningIsSumFunction
  <1>9. SumOf(a) \in Int
    BY <1>2, <1>7 DEF IsRunningSum
  <1> QED BY <1>6, <1>8, <1>9 DEF Ready, b

\* What the pods of a list have allocated.
LEMMA AllocatedIsCosts ==
  ASSUME NEW pods, IsListOf(IsPod, pods), NEW r \in Resource
  PROVE  LET Counted == {i \in DOMAIN pods : IsCounted(pods[i])}
             sum == SumFunction([i \in Counted |-> EffectiveRequest(pods[i], r)])
         IN sum \in Int /\ OrZero(calculateAllocatedResources(pods)[r]) = sum
  <1> DEFINE n == Len(pods)
             Counted == {i \in DOMAIN pods : IsCounted(pods[i])}
             a == [i \in 1..n |-> Costs(pods[i], r)]
             b == [i \in Counted |-> EffectiveRequest(pods[i], r)]
  <1>1. pods \in Seq(Range(pods)) /\ \A i \in DOMAIN pods : IsPod(pods[i])
    BY DEF IsListOf
  <1>2. \A x \in Range(pods) : IsPod(x)
    BY <1>1 DEF Range
  <1>3. n \in Nat /\ DOMAIN pods = 1..n
    BY <1>1
  <1>4. \A i \in 1..n : Costs(pods[i], r) \in Nat
    BY <1>1, <1>3, CostsType
  <1>5. Counted \in SUBSET (1..n) /\ SameAmounts(a, b, Counted, n)
    BY <1>3, <1>4 DEF Costs, SameAmounts
  <1>6. PICK q : IsRunningSum(q, a, n) /\ OrZero(calculateAllocatedResources(pods)[r]) = q[n]
    BY <1>1, <1>2, AllocatedRuns
  <1> HIDE DEF n, Counted, a, b
  <1>7. q[n] = SumFunction(b)
    BY <1>3, <1>5, <1>6, RunningIsSumFunction
  <1>8. q[n] \in Int
    BY <1>3, <1>6 DEF IsRunningSum
  <1> QED BY <1>6, <1>7, <1>8 DEF Counted, b

\* What the instructions of a list reserve.
LEMMA ReservedIsAllHeld ==
  ASSUME NEW s \in Seq(Instruction), NEW r \in Resource
  PROVE  LET sum == SumFunction([i \in DOMAIN s |-> Held(s[i], r)])
         IN sum \in Int /\ OrZero(calculateReservedResources(s)[r]) = sum
  <1> DEFINE n == Len(s)
             a == [i \in 1..n |-> Held(s[i], r)]
  <1>1. n \in Nat /\ DOMAIN s = 1..n /\ \A i \in 1..n : s[i] \in Instruction
    OBVIOUS
  <1>2. a \in [1..n -> Int] /\ 1..n \in SUBSET (1..n) /\ \A i \in 1..n : a[i] = IF i \in 1..n THEN a[i] ELSE 0
    BY <1>1, HeldType
  <1>3. PICK q : IsRunningSum(q, a, n) /\ OrZero(calculateReservedResources(s)[r]) = q[n]
    BY ReservedRuns
  <1>4. a = [i \in DOMAIN s |-> Held(s[i], r)]
    BY <1>1
  <1> HIDE DEF n, a
  <1>5. SameAmounts(a, a, 1..n, n)
    BY <1>2 DEF SameAmounts
  <1>6. q[n] = SumFunction(a)
    BY <1>1, <1>2, <1>3, <1>5, RunningIsSumFunction
  <1>7. q[n] \in Int
    BY <1>1, <1>3 DEF IsRunningSum
  <1> QED BY <1>3, <1>4, <1>6, <1>7

\* For lists of every length and in every order, what CollectClusterResources
\* returns as available is what the ready nodes offer, less what every pod that
\* is counted asks for and what every instruction in force holds: no entry is
\* counted twice or left out, and none depends on the ones before it, although
\* the loop over the pods carries a flag from one to the next.
THEOREM CollectedIsWhatIsLeft ==
  ASSUME NEW nodes, IsListOf(IsNode, nodes), NEW pods, IsListOf(IsPod, pods),
         NEW instructions \in Seq(Instruction), NEW r \in Resource
  PROVE  CollectClusterResources(nodes, pods, instructions).available[r]
           = WhatIsLeft(nodes, pods, instructions, r)
  <1> DEFINE Ready == {i \in DOMAIN nodes : isNodeReady(nodes[i])}
             Counted == {i \in DOMAIN pods : IsCounted(pods[i])}
             offered == SumFunction([i \in Ready |-> Of(nodes[i].allocatable, r)])
             asked == SumFunction([i \in Counted |-> EffectiveRequest(pods[i], r)])
             held == SumFunction([i \in DOMAIN instructions |-> Held(instructions[i], r)])
             allocated == OrZero(calculateAllocatedResources(pods)[r])
             reserved == OrZero(calculateReservedResources(instructions)[r])
  <1>1. /\ offered \in Int
        /\ Allocatable(nodes)[r] = IF r = "gpu" /\ ~HasGPU(nodes) THEN Nil ELSE offered
    BY AllocatableIsOffered
  <1>2. asked \in Int /\ allocated = asked
    BY AllocatedIsCosts
  <1>3. held \in Int /\ reserved = held
    BY ReservedIsAllHeld
  <1>4. CollectClusterResources(nodes, pods, instructions).available[r]
          = IF Allocatable(nodes)[r] = Nil THEN Nil ELSE Allocatable(nodes)[r] - allocated - reserved
    BY DEF CollectClusterResources, Available
  <1>5. WhatIsLeft(nodes, pods, instructions, r)
          = IF r = "gpu" /\ ~HasGPU(nodes) THEN Nil ELSE offered - asked - held
    BY DEF WhatIsLeft
  <1> HIDE DEF offered, asked, held, allocated, reserved
  <1>6. CASE r = "gpu" /\ ~HasGPU(nodes)
    BY <1>1, <1>4, <1>5, <1>6
  <1>7. CASE ~(r = "gpu" /\ ~HasGPU(nodes))
    <2>1. Allocatable(nodes)[r] = offered /\ offered # Nil
      BY <1>1, <1>7, NilAssumption
    <2> QED BY <1>2, <1>3, <1>4, <1>5, <1>7, <2>1
  <1> QED BY <1>6, <1>7

\* Both hold wherever the caches hold lists that the API server lets in.
THEOREM TotalsAreRight == CollectorTypeOK => AvailableIsWhatIsLeft /\ EachCountsForItself
  <1> SUFFICES ASSUME CollectorTypeOK PROVE AvailableIsWhatIsLeft /\ EachCountsForItself
    OBVIOUS
  <1> DEFINE nodes == cluster.nodes
             pods == cluster.pods
             instructions == cluster.instructions
  <1>1. nodes \in NodeLists /\ pods \in PodLists /\ instructions \in InstructionLists
    BY DEF CollectorTypeOK
  <1>2. IsListOf(IsNode, nodes)
    BY <1>1, ListsAssumption
  <1>3. IsListOf(IsPod, pods)
    BY <1>1, ListsAssumption
  <1>4. instructions \in Seq(Instruction)
    BY <1>1, ListsAssumption
  <1>5. /\ pods \in Seq(Range(pods)) /\ DOMAIN pods = 1..Len(pods)
        /\ \A x \in Range(pods) : IsPod(x)
    BY <1>3 DEF IsListOf, Range
  <1>6. DOMAIN instructions = 1..Len(instructions)
    BY <1>4
  <1> HIDE DEF nodes, pods, instructions
  <1>7. \A r \in Resource : CollectClusterResources(nodes, pods, instructions).available[r]
                              = WhatIsLeft(nodes, pods, instructions, r)
    BY <1>2, <1>3, <1>4, CollectedIsWhatIsLeft
  <1>8. \A r \in Resource : \A i \in DOMAIN instructions :
          OrZero(calculateReservedResources(instructions)[r])
            = OrZero(calculateReservedResources(RemoveAt(instructions, i))[r])
              + OrZero(calculateReservedResources(<<instructions[i]>>)[r])
    BY <1>4, <1>6, InstructionCountsForItself
  <1>9. \A r \in Resource : \A i \in DOMAIN pods :
          OrZero(calculateAllocatedResources(pods)[r])
            = OrZero(calculateAllocatedResources(RemoveAt(pods, i))[r])
              + OrZero(calculateAllocatedResources(<<pods[i]>>)[r])
    BY <1>5, PodCountsForItself
  <1>10. AvailableIsWhatIsLeft
    BY <1>7 DEF AvailableIsWhatIsLeft, nodes, pods, instructions
  <1>11. EachCountsForItself
    BY <1>8, <1>9 DEF EachCountsForItself, pods, instructions
  <1> QED BY <1>10, <1>11

=============================================================================
