-------------------------- MODULE TestSelectionProofs --------------------------
(***************************************************************************)
(* Proofs about TestSelection: whatever the tests, filters, shards and seeds *)
(* are, each process runs its share, and in an order that its seed gives;    *)
(* and, in the second half, about TestRegistration: whatever the program and *)
(* the order of its units are, its tests are those that it asks for.         *)
(*                                                                          *)
(* Shuffling is a recursion over numbers, and so is the flattening of a       *)
(* sequence of sequences.  What they compute is proved by taking the least    *)
(* number for which they would not: Least is the only induction there is.    *)
(***************************************************************************)
EXTENDS TestSelection, TestRegistration, FunctionTheorems, FiniteSetTheorems, SequenceTheorems, TLAPS

--------------------------------------------------------------------------------
(* Recursion over numbers *)

(* A set of numbers that is not empty has a least member. *)
LEMMA Least ==
  ASSUME NEW T, T \subseteq Nat, T # {}
  PROVE  \E x \in T : \A y \in T : x <= y
<1> DEFINE R == OpToRel(<, Nat)
<1>1. IsWellFoundedOn(R, Nat)
  BY NatLessThanWellFounded
<1> HIDE DEF R
<1>2. PICK x \in T : \A y \in T : ~ (<<y, x>> \in R)
  BY <1>1, WFMin
<1>3. \A y \in T : ~ (y < x)
  BY <1>2, Zenon DEF OpToRel, R
<1> QED BY <1>3

(* Who climbs from 0, and from every number below n to the next, reaches n. *)
LEMMA Climb ==
  ASSUME NEW n \in Nat, NEW S, 0 \in S, \A k \in 0 .. n - 1 : k \in S => k + 1 \in S
  PROVE  0 .. n \subseteq S
<1> SUFFICES ASSUME (0 .. n) \ S # {} PROVE FALSE
  OBVIOUS
<1>1. PICK x \in (0 .. n) \ S : \A y \in (0 .. n) \ S : x <= y
  BY Least, (0 .. n) \ S \subseteq Nat
<1>2. x # 0 /\ x - 1 \in 0 .. n - 1 /\ x - 1 \in S
  BY <1>1
<1>3. (x - 1) + 1 \in S
  BY <1>2
<1> QED BY <1>1, <1>3

(* A recursion whose steps stay in D defines a function, whose values are in D. *)
Recursive(n, D, a, G) ==
  \E f \in [0 .. n -> D] : f[0] = a /\ \A k \in 1 .. n : f[k] = G[k][f[k - 1]]

LEMMA Recursion ==
  ASSUME NEW n \in Nat, NEW D, NEW a \in D, NEW G \in [1 .. n -> [D -> D]]
  PROVE  Recursive(n, D, a, G)
<1> DEFINE Goes(m, f) == f[0] = a /\ \A k \in 1 .. m : f[k] = G[k][f[k - 1]]
           S == {m \in 0 .. n : \E f \in [0 .. m -> D] : Goes(m, f)}
<1>1. 0 \in S
  <2>1. [k \in 0 .. 0 |-> a] \in [0 .. 0 -> D] /\ Goes(0, [k \in 0 .. 0 |-> a])
    OBVIOUS
  <2> HIDE DEF Goes
  <2> QED BY <2>1
<1>2. ASSUME NEW m \in 0 .. n - 1, m \in S PROVE m + 1 \in S
  <2>1. PICK f \in [0 .. m -> D] : Goes(m, f)
    BY <1>2
  <2> DEFINE g == [k \in 0 .. m + 1 |-> IF k = m + 1 THEN G[m + 1][f[m]] ELSE f[k]]
  <2>2. g \in [0 .. m + 1 -> D]
    <3>1. m + 1 \in 1 .. n /\ f[m] \in D
      OBVIOUS
    <3>2. G[m + 1][f[m]] \in D
      BY <3>1
    <3>3. \A k \in 0 .. m + 1 : k # m + 1 => f[k] \in D
      OBVIOUS
    <3> QED BY <3>2, <3>3
  <2>3. g[0] = a
    BY <2>1
  <2>4. ASSUME NEW k \in 1 .. m + 1 PROVE g[k] = G[k][g[k - 1]]
    <3>1. g[k - 1] = f[k - 1]
      OBVIOUS
    <3>2. CASE k = m + 1
      BY <3>1, <3>2
    <3>3. CASE k # m + 1
      BY <2>1, <3>1, <3>3
    <3> QED BY <3>2, <3>3
  <2> HIDE DEF g
  <2>5. Goes(m + 1, g)
    BY <2>3, <2>4
  <2> QED BY <2>2, <2>5
<1>3. n \in S
  <2> HIDE DEF S
  <2>1. 0 .. n \subseteq S
    BY <1>1, <1>2, Climb
  <2> QED BY <2>1
<1> QED BY <1>3 DEF Recursive

--------------------------------------------------------------------------------
(* Shuffling *)

State == 0 .. Word - 1

(* What the generator gives is one of its states. *)
LEMMA Generated ==
  ASSUME NEW s \in State
  PROVE  Generate(s) \in State
<1>1. Factor * s + Increment \in Nat
  BY TestSelectionAssumption DEF State
<1>2. (Factor * s + Increment) % Word \in Nat
  BY <1>1, TestSelectionAssumption
<1> DEFINE g == (Factor * s + Increment) % Word
<1>3. g \in Nat
  BY <1>2
<1> HIDE DEF g
<1>4. g % MaxRange \in 0 .. MaxRange - 1
  BY <1>3, TestSelectionAssumption
<1> QED BY <1>4, TestSelectionAssumption DEF Generate, State, g

(* An order of n things takes each of their numbers to another. *)
LEMMA OrdersMean ==
  ASSUME NEW n \in Nat, NEW f
  PROVE  f \in Orders(n) <=>
           /\ f \in [1 .. n -> 1 .. n]
           /\ \A a, b \in 1 .. n : f[a] = f[b] => a = b
           /\ \A c \in 1 .. n : \E a \in 1 .. n : f[a] = c
BY DEF Orders, Bijection, Injection, Surjection, IsInjective

LEMMA IdentityOrders ==
  ASSUME NEW n \in Nat
  PROVE  Identity(n) \in Orders(n) /\ \A j \in 1 .. n : Identity(n)[j] = j
<1>1. Identity(n) \in [1 .. n -> 1 .. n] /\ \A j \in 1 .. n : Identity(n)[j] = j
  BY DEF Identity
<1> QED BY <1>1, OrdersMean

(* A function on 1 .. n is a sequence of length n. *)
LEMMA SeqLen ==
  ASSUME NEW n \in Nat, NEW S, NEW f \in [1 .. n -> S]
  PROVE  f \in Seq(S) /\ Len(f) = n
<1>2. f \in Seq(S)
  BY SeqDef
<1>3. DOMAIN f = 1 .. n /\ DOMAIN f = 1 .. Len(f) /\ Len(f) \in Nat
  BY <1>2, LenProperties
<1> QED BY <1>2, <1>3

(* An order is a sequence, with as many elements as it orders. *)
LEMMA OrdersLen ==
  ASSUME NEW n \in Nat, NEW f \in Orders(n)
  PROVE  f \in Seq(Nat) /\ Len(f) = n
<1>1. f \in [1 .. n -> Nat]
  BY OrdersMean
<1> QED BY <1>1, SeqLen

LEMMA SwapOrders ==
  ASSUME NEW n \in Nat, NEW seq \in Orders(n), NEW a \in 1 .. n, NEW b \in 1 .. n
  PROVE  /\ Swap(seq, a, b) \in Orders(n)
         /\ \A j \in 1 .. n : j \notin {a, b} => Swap(seq, a, b)[j] = seq[j]
<1> DEFINE r == Swap(seq, a, b)
           to(j) == IF j = a THEN b ELSE IF j = b THEN a ELSE j
<1>1. /\ seq \in [1 .. n -> 1 .. n]
      /\ \A c, d \in 1 .. n : seq[c] = seq[d] => c = d
      /\ \A c \in 1 .. n : \E d \in 1 .. n : seq[d] = c
  BY OrdersMean
<1>2. r \in [1 .. n -> 1 .. n] /\ \A j \in 1 .. n : r[j] = seq[to(j)]
  BY <1>1 DEF Swap
<1>3. \A j \in 1 .. n : to(j) \in 1 .. n /\ to(to(j)) = j
  OBVIOUS
<1> HIDE DEF r, to
<1>4. \A c, d \in 1 .. n : r[c] = r[d] => c = d
  BY <1>1, <1>2, <1>3
<1>5. ASSUME NEW c \in 1 .. n PROVE \E d \in 1 .. n : r[d] = c
  <2>1. PICK d \in 1 .. n : seq[d] = c
    BY <1>1
  <2> QED BY <1>2, <1>3, <2>1
<1>6. r \in Orders(n)
  BY <1>2, <1>4, <1>5, OrdersMean
<1>7. \A j \in 1 .. n : j \notin {a, b} => r[j] = seq[j]
  BY <1>2 DEF to
<1> QED BY <1>6, <1>7 DEF r

(* What a shuffle of the positions begin + 1 .. end may make of an order. *)
Within(n, begin, end, seq) ==
  {q \in Orders(n) : \A j \in 1 .. n : j \notin begin + 1 .. end => q[j] = seq[j]}

(* ShuffleRange permutes what is in its range, and nothing else. *)
LEMMA ShuffleRangeWithin ==
  ASSUME NEW s \in State, NEW n \in Nat, NEW seq \in Orders(n),
         NEW begin \in 0 .. n, NEW end \in begin .. n
  PROVE  ShuffleRange(s, seq, begin, end) \in State \X Within(n, begin, end, seq)
<1> DEFINE W == Within(n, begin, end, seq)
           D == State \X W
           N == end - begin
           Body(k, x) == LET width == end - begin + 1 - k
                             g     == Generate(x[1])
                         IN  <<g, Swap(x[2], begin + 1 + (g % width), begin + width)>>
           G == [k \in 1 .. N |-> [x \in D |-> Body(k, x)]]
           Sw == Swaps(s, seq, begin, end)
<1>0. N \in Nat
  OBVIOUS
<1>1. ASSUME NEW k \in 1 .. N, NEW x \in D PROVE Body(k, x) \in D
  <2> DEFINE width == end - begin + 1 - k
             g     == Generate(x[1])
             a     == begin + 1 + (g % width)
             b     == begin + width
  <2>1. x[1] \in State /\ x[2] \in W
    OBVIOUS
  <2>2. g \in State /\ g \in Nat
    BY <2>1, Generated DEF State
  <2>3. width \in 1 .. N
    OBVIOUS
  <2> HIDE DEF g, width
  <2>4. g % width \in 0 .. width - 1
    BY <2>2, <2>3
  <2>5. a \in begin + 1 .. end /\ b \in begin + 1 .. end
    BY <2>3, <2>4
  <2> HIDE DEF a, b, W
  <2>6. x[2] \in Orders(n) /\ \A j \in 1 .. n : j \notin begin + 1 .. end => x[2][j] = seq[j]
    BY <2>1 DEF W, Within
  <2>7. a \in 1 .. n /\ b \in 1 .. n
    BY <2>5
  <2>8. /\ Swap(x[2], a, b) \in Orders(n)
        /\ \A j \in 1 .. n : j \notin {a, b} => Swap(x[2], a, b)[j] = x[2][j]
    BY <2>6, <2>7, SwapOrders
  <2>9. Swap(x[2], a, b) \in W
    BY <2>5, <2>6, <2>8 DEF W, Within
  <2> QED BY <2>2, <2>9 DEF g, width, a, b
<1>2. seq \in W
  BY DEF Within
<1> DEFINE start == <<s, seq>>
<1>3. start \in D
  BY <1>2
<1> HIDE DEF W, D, Body, N, start
<1>4. G \in [1 .. N -> [D -> D]]
  BY <1>1
<1>5. PICK f \in [0 .. N -> D] : f[0] = start /\ \A k \in 1 .. N : f[k] = G[k][f[k - 1]]
  <2> HIDE DEF G, Sw
  <2>1. Recursive(N, D, start, G)
    BY <1>0, <1>3, <1>4, Recursion
  <2> QED BY <2>1 DEF Recursive
<1>6. \A k \in 1 .. N : G[k][f[k - 1]] = Body(k, f[k - 1])
  <2>1. \A k \in 1 .. N : k - 1 \in 0 .. N
    BY <1>0
  <2> QED BY <2>1
<1>7. f = [k \in 0 .. N |-> IF k = 0 THEN start ELSE Body(k, f[k - 1])]
  <2>1. \A k \in 0 .. N : k # 0 => k \in 1 .. N
    BY <1>0
  <2> HIDE DEF G
  <2> QED BY <1>5, <1>6, <2>1
<1>8. Sw = CHOOSE h : h = [k \in 0 .. N |-> IF k = 0 THEN start ELSE Body(k, h[k - 1])]
  BY DEF Swaps, Body, N, start
<1>9. Sw = [k \in 0 .. N |-> IF k = 0 THEN start ELSE Body(k, Sw[k - 1])]
  <2> HIDE DEF Sw
  <2> QED BY <1>7, <1>8
<1> HIDE DEF Sw, G
<1>10. \A k \in 0 .. N : Sw[k] \in D
  <2> DEFINE S == {k \in 0 .. N : Sw[k] \in D}
  <2>1. 0 \in S
    BY <1>0, <1>3, <1>9
  <2>2. ASSUME NEW k \in 0 .. N - 1, k \in S PROVE k + 1 \in S
    <3>1. k + 1 \in 1 .. N /\ k + 1 \in 0 .. N /\ (k + 1) - 1 = k /\ k + 1 # 0
      BY <1>0
    <3>2. Sw[k + 1] = Body(k + 1, Sw[k])
      BY <1>9, <3>1
    <3>3. Sw[k] \in D
      BY <2>2
    <3> QED BY <1>1, <3>1, <3>2, <3>3
  <2> HIDE DEF S
  <2>3. 0 .. N \subseteq S
    BY <1>0, <2>1, <2>2, Climb
  <2> QED BY <2>3 DEF S
<1>11. (IF end - begin < 2 THEN 0 ELSE end - begin - 1) \in 0 .. N
  BY DEF N
<1> QED BY <1>10, <1>11 DEF ShuffleRange, Sw, D, W

(* The sizes are numbers: what TypeOK says of the registry, and what follows. *)
Sized == Count \in Nat /\ \A k \in 1 .. Count : Len(suites[k].tests) \in Nat

TestOrders ==
  {q \in [1 .. Count -> Seq(Nat)] :
     \A k \in 1 .. Count : q[k] \in Orders(Len(suites[k].tests))}

Identities == [k \in 1 .. Count |-> Identity(Len(suites[k].tests))]

LEMMA IdentitiesOrder ==
  ASSUME Sized
  PROVE  Identities \in TestOrders
<1>1. \A k \in 1 .. Count : Identity(Len(suites[k].tests)) \in Orders(Len(suites[k].tests))
  BY IdentityOrders DEF Sized
<1>2. \A k \in 1 .. Count : Identity(Len(suites[k].tests)) \in Seq(Nat)
  BY <1>1, OrdersLen DEF Sized
<1> QED BY <1>1, <1>2 DEF TestOrders, Identities

(* Shuffling suite after suite permutes the tests of each. *)
LEMMA SuiteBySuiteOrders ==
  ASSUME Sized, NEW s \in State, NEW testIdx \in TestOrders
  PROVE  SuiteBySuite(s, testIdx)[Count] \in State \X TestOrders
<1> DEFINE D == State \X TestOrders
           N == Count
           Body(k, x) == LET one == ShuffleRange(x[1], testIdx[k], 0, Len(testIdx[k]))
                         IN  <<one[1], [x[2] EXCEPT ![k] = one[2]]>>
           G == [k \in 1 .. N |-> [x \in D |-> Body(k, x)]]
           Sh == SuiteBySuite(s, testIdx)
           start == <<s, testIdx>>
<1>0. N \in Nat
  BY DEF Sized
<1>1. ASSUME NEW k \in 1 .. N, NEW x \in D PROVE Body(k, x) \in D
  <2> DEFINE n   == Len(suites[k].tests)
             one == ShuffleRange(x[1], testIdx[k], 0, Len(testIdx[k]))
  <2>1. x[1] \in State /\ x[2] \in TestOrders
    OBVIOUS
  <2>2. n \in Nat /\ testIdx[k] \in Orders(n)
    BY DEF Sized, TestOrders
  <2>3. Len(testIdx[k]) = n
    BY <2>2, OrdersLen
  <2> HIDE DEF n
  <2>4. one \in State \X Within(n, 0, n, testIdx[k])
    BY <2>1, <2>2, <2>3, ShuffleRangeWithin
  <2> HIDE DEF one
  <2>5. one[1] \in State /\ one[2] \in Orders(n)
    BY <2>4 DEF Within
  <2>6. one[2] \in Seq(Nat)
    BY <2>2, <2>5, OrdersLen
  <2>7. [x[2] EXCEPT ![k] = one[2]] \in TestOrders
    BY <2>1, <2>5, <2>6 DEF TestOrders, n
  <2> QED BY <2>5, <2>7 DEF one
<1>3. start \in D
  OBVIOUS
<1> HIDE DEF D, Body, N, start
<1>4. G \in [1 .. N -> [D -> D]]
  BY <1>1
<1>5. PICK f \in [0 .. N -> D] : f[0] = start /\ \A k \in 1 .. N : f[k] = G[k][f[k - 1]]
  <2> HIDE DEF G, Sh
  <2>1. Recursive(N, D, start, G)
    BY <1>0, <1>3, <1>4, Recursion
  <2> QED BY <2>1 DEF Recursive
<1>6. \A k \in 1 .. N : G[k][f[k - 1]] = Body(k, f[k - 1])
  <2>1. \A k \in 1 .. N : k - 1 \in 0 .. N
    BY <1>0
  <2> QED BY <2>1
<1>7. f = [k \in 0 .. N |-> IF k = 0 THEN start ELSE Body(k, f[k - 1])]
  <2>1. \A k \in 0 .. N : k # 0 => k \in 1 .. N
    BY <1>0
  <2> HIDE DEF G
  <2> QED BY <1>5, <1>6, <2>1
<1>8. Sh = CHOOSE h : h = [k \in 0 .. N |-> IF k = 0 THEN start ELSE Body(k, h[k - 1])]
  BY DEF SuiteBySuite, Body, N, start
<1>9. Sh = [k \in 0 .. N |-> IF k = 0 THEN start ELSE Body(k, Sh[k - 1])]
  <2> HIDE DEF Sh
  <2> QED BY <1>7, <1>8
<1> HIDE DEF Sh, G
<1>10. \A k \in 0 .. N : Sh[k] \in D
  <2> DEFINE S == {k \in 0 .. N : Sh[k] \in D}
  <2>1. 0 \in S
    BY <1>0, <1>3, <1>9
  <2>2. ASSUME NEW k \in 0 .. N - 1, k \in S PROVE k + 1 \in S
    <3>1. k + 1 \in 1 .. N /\ k + 1 \in 0 .. N /\ (k + 1) - 1 = k /\ k + 1 # 0
      BY <1>0
    <3>2. Sh[k + 1] = Body(k + 1, Sh[k])
      BY <1>9, <3>1
    <3>3. Sh[k] \in D
      BY <2>2
    <3> QED BY <1>1, <3>1, <3>2, <3>3
  <2> HIDE DEF S
  <2>3. 0 .. N \subseteq S
    BY <1>0, <2>1, <2>2, Climb
  <2> QED BY <2>3 DEF S
<1> QED BY <1>0, <1>10 DEF Sh, D, N

(* The death test suites are shuffled among themselves, and so are the others. *)
Blocks(suiteIdx) == \A k \in 1 .. Count : suiteIdx[k] <= lastDeath <=> k <= lastDeath

LEMMA ShuffleSuitesBlocks ==
  ASSUME Sized, lastDeath \in 0 .. Count, NEW s \in State
  PROVE  /\ ShuffleSuites(s, Identity(Count)) \in State \X Orders(Count)
         /\ Blocks(ShuffleSuites(s, Identity(Count))[2])
<1> DEFINE id == Identity(Count)
           deaths == ShuffleRange(s, id, 0, lastDeath)
           all == ShuffleRange(deaths[1], deaths[2], lastDeath, Count)
           p == deaths[2]
           q == all[2]
<1>0. Count \in Nat /\ lastDeath \in Nat /\ lastDeath \in 0 .. Count
  BY DEF Sized
<1>1. id \in Orders(Count) /\ \A k \in 1 .. Count : id[k] = k
  BY <1>0, IdentityOrders
<1> HIDE DEF id
<1>2. deaths \in State \X Within(Count, 0, lastDeath, id)
  BY <1>0, <1>1, ShuffleRangeWithin
<1> HIDE DEF deaths
<1>3. deaths[1] \in State /\ p \in Within(Count, 0, lastDeath, id)
  BY <1>2
<1> HIDE DEF p
<1>4. p \in Orders(Count) /\ \A k \in 1 .. Count : k > lastDeath => p[k] = k
  BY <1>0, <1>1, <1>3 DEF Within
<1>5. all \in State \X Within(Count, lastDeath, Count, p)
  <2>1. Count \in lastDeath .. Count
    BY <1>0
  <2>2. deaths[2] = p
    BY DEF p
  <2> QED BY <1>0, <1>3, <1>4, <2>1, <2>2, ShuffleRangeWithin
<1> HIDE DEF all
<1>6. all[1] \in State /\ q \in Within(Count, lastDeath, Count, p)
  BY <1>5
<1> HIDE DEF q
<1>7. q \in Orders(Count) /\ \A k \in 1 .. Count : k <= lastDeath => q[k] = p[k]
  BY <1>0, <1>6 DEF Within
<1>8. /\ p \in [1 .. Count -> 1 .. Count]
      /\ \A a, b \in 1 .. Count : p[a] = p[b] => a = b
      /\ \A c \in 1 .. Count : \E a \in 1 .. Count : p[a] = c
  BY <1>0, <1>4, OrdersMean
<1>9. /\ q \in [1 .. Count -> 1 .. Count]
      /\ \A a, b \in 1 .. Count : q[a] = q[b] => a = b
  BY <1>0, <1>7, OrdersMean
<1>10. ASSUME NEW k \in 1 .. Count, k <= lastDeath PROVE q[k] <= lastDeath
  <2>1. q[k] = p[k] /\ p[k] \in 1 .. Count
    BY <1>7, <1>8, <1>10
  <2>2. CASE p[k] > lastDeath
    <3>1. p[p[k]] = p[k]
      BY <1>4, <2>1, <2>2
    <3>2. p[k] = k
      BY <1>8, <2>1, <3>1
    <3> QED BY <1>0, <1>10, <2>2, <3>2
  <2> QED BY <1>0, <2>1, <2>2
<1>11. ASSUME NEW k \in 1 .. Count, q[k] <= lastDeath PROVE k <= lastDeath
  <2>1. q[k] \in 1 .. Count
    BY <1>9
  <2>2. PICK j \in 1 .. Count : p[j] = q[k]
    BY <1>8, <2>1
  <2>3. j <= lastDeath
    BY <1>0, <1>4, <1>11, <2>2
  <2>4. q[j] = q[k]
    BY <1>7, <2>2, <2>3
  <2>5. j = k
    BY <1>9, <2>4
  <2> QED BY <2>3, <2>5
<1>12. Blocks(q)
  BY <1>10, <1>11 DEF Blocks
<1>13. all = <<all[1], all[2]>> /\ all \in State \X Orders(Count)
  BY <1>5, <1>7 DEF q
<1>14. ShuffleSuites(s, Identity(Count)) = all
  BY DEF ShuffleSuites, all, deaths, id, p
<1> QED BY <1>12, <1>13, <1>14 DEF q

(* Whatever the seed, a shuffle permutes the suites, the death test suites     *)
(* among themselves, and the tests of each suite.                             *)
LEMMA ShuffledOrders ==
  ASSUME Sized, lastDeath \in 0 .. Count, NEW s \in State
  PROVE  LET all == Shuffled(s, Identity(Count), Identities)
         IN  /\ all[1] \in State
             /\ all[2] \in Orders(Count) /\ Blocks(all[2])
             /\ all[3] \in TestOrders
<1> DEFINE first == ShuffleSuites(s, Identity(Count))
           rest  == SuiteBySuite(first[1], Identities)[Count]
<1>1. first \in State \X Orders(Count) /\ Blocks(first[2])
  BY ShuffleSuitesBlocks
<1>2. first[1] \in State
  BY <1>1
<1>3. rest \in State \X TestOrders
  <2> HIDE DEF first
  <2> QED BY <1>2, IdentitiesOrder, SuiteBySuiteOrders
<1>4. Shuffled(s, Identity(Count), Identities) = <<rest[1], first[2], rest[2]>>
  BY DEF Shuffled
<1> HIDE DEF first, rest
<1> QED BY <1>1, <1>3, <1>4

--------------------------------------------------------------------------------
(* Shards *)

LEMMA ModDiv ==
  ASSUME NEW a \in Nat, NEW n \in Nat \ {0}
  PROVE  a = n * (a \div n) + (a % n) /\ a \div n \in Nat /\ a % n \in 0 .. n - 1
OBVIOUS

LEMMA ModUnique ==
  ASSUME NEW a \in Nat, NEW n \in Nat \ {0}, NEW q \in Int, NEW r \in 0 .. n - 1, a = n * q + r
  PROVE  a % n = r
OBVIOUS

(* How a remainder changes with what is divided. *)
LEMMA ModDown ==
  ASSUME NEW a \in Nat, NEW n \in Nat \ {0}, NEW d \in 0 .. (a % n)
  PROVE  a - d \in Nat /\ (a - d) % n = (a % n) - d
<1> DEFINE q == a \div n
           r == a % n
<1>1. a = n * q + r /\ q \in Nat /\ r \in 0 .. n - 1
  BY ModDiv
<1> HIDE DEF q, r
<1>2. d \in 0 .. r
  BY DEF r
<1>3. n * q \in Nat
  BY <1>1
<1>4. a - d \in Nat /\ a - d = n * q + (r - d) /\ r - d \in 0 .. n - 1
  BY <1>1, <1>2, <1>3
<1>5. (a - d) % n = r - d
  BY <1>1, <1>4, ModUnique
<1> QED BY <1>4, <1>5 DEF r

LEMMA ModUp ==
  ASSUME NEW a \in Nat, NEW n \in Nat \ {0}, NEW d \in Nat, (a % n) + d < n
  PROVE  (a + d) % n = (a % n) + d
<1> DEFINE q == a \div n
           r == a % n
<1>1. a = n * q + r /\ q \in Nat /\ r \in 0 .. n - 1
  BY ModDiv
<1> HIDE DEF q, r
<1>2. r + d < n
  BY DEF r
<1>3. n * q \in Nat
  BY <1>1
<1>4. a + d \in Nat /\ a + d = n * q + (r + d) /\ r + d \in 0 .. n - 1
  BY <1>1, <1>2, <1>3
<1>5. (a + d) % n = r + d
  BY <1>1, <1>4, ModUnique
<1> QED BY <1>5 DEF r

LEMMA ModBack ==
  ASSUME NEW a \in Nat, NEW n \in Nat \ {0}
  PROVE  /\ a >= n => a - n \in Nat /\ (a - n) % n = a % n
         /\ a < n => a % n = a
<1> DEFINE q == a \div n
           r == a % n
<1>1. a = n * q + r /\ q \in Nat /\ r \in 0 .. n - 1
  BY ModDiv
<1> HIDE DEF q, r
<1>2. ASSUME a >= n PROVE a - n \in Nat /\ (a - n) % n = r
  <2>1. a - n \in Nat /\ n * (q - 1) = n * q - n
    BY <1>1, <1>2
  <2>2. a - n = n * (q - 1) + r /\ q - 1 \in Int
    BY <1>1, <2>1
  <2> QED BY <1>1, <2>1, <2>2, ModUnique
<1>3. ASSUME a < n PROVE a % n = a
  <2>1. a = n * 0 + a /\ a \in 0 .. n - 1
    BY <1>3
  <2> QED BY <2>1, ModUnique
<1> QED BY <1>2, <1>3 DEF r

(* Suites have names of their own, the death test suites come first, each test *)
(* is in the suite of its name, and in one place.                             *)
Registered ==
  /\ suites \in Seq([name : Suites, tests : Seq(Tests)])
  /\ lastDeath \in 0 .. Count
  /\ \A k \in 1 .. Count : suites[k].name \in DeathSuites <=> k <= lastDeath
  /\ \A k, l \in 1 .. Count : suites[k].name = suites[l].name => k = l
  /\ \A k \in 1 .. Count : \A n \in 1 .. Len(suites[k].tests) :
       SuiteOf[suites[k].tests[n]] = suites[k].name
  /\ \A k \in 1 .. Count : \A m, n \in 1 .. Len(suites[k].tests) :
       suites[k].tests[m] = suites[k].tests[n] => m = n

LEMMA RegisteredSized ==
  ASSUME Registered
  PROVE  /\ Sized
         /\ \A k \in 1 .. Count : /\ suites[k] \in [name : Suites, tests : Seq(Tests)]
                                  /\ suites[k].tests \in Seq(Tests)
<1>1. suites \in Seq([name : Suites, tests : Seq(Tests)])
  BY DEF Registered
<1>2. Count \in Nat /\ \A k \in 1 .. Count : suites[k] \in [name : Suites, tests : Seq(Tests)]
  BY <1>1, LenProperties, ElementOfSeq DEF Count
<1>3. \A k \in 1 .. Count : suites[k].tests \in Seq(Tests)
  BY <1>2
<1>4. \A k \in 1 .. Count : Len(suites[k].tests) \in Nat
  BY <1>3, LenProperties
<1> QED BY <1>2, <1>3, <1>4 DEF Sized

LEMMA PlacesMean ==
  ASSUME NEW p
  PROVE  p \in Places <=>
           \E k \in 1 .. Count : \E n \in 1 .. Len(suites[k].tests) : p = <<k, n>>
BY DEF Places

(* Each test is in one place, and there are as many places as that allows.     *)
LEMMA PlacesFinite ==
  ASSUME Registered
  PROVE  /\ \A p \in Places : At(p) \in Tests /\ p[1] \in Nat /\ p[2] \in Nat /\ p = <<p[1], p[2]>>
         /\ \A p \in Places : p[1] \in 1 .. Count /\ SuiteOf[At(p)] = suites[p[1]].name
         /\ \A p, q \in Places : At(p) = At(q) => p = q
         /\ IsFiniteSet(Places)
<1>1. Sized /\ \A k \in 1 .. Count : suites[k].tests \in Seq(Tests)
  BY RegisteredSized
<1>2. ASSUME NEW p \in Places
      PROVE  /\ p[1] \in 1 .. Count /\ p[2] \in 1 .. Len(suites[p[1]].tests)
             /\ p = <<p[1], p[2]>> /\ p[1] \in Nat /\ p[2] \in Nat
  BY <1>1, PlacesMean DEF Sized
<1>3. ASSUME NEW p \in Places PROVE At(p) \in Tests
  BY <1>1, <1>2, ElementOfSeq DEF At
<1>4. ASSUME NEW p \in Places PROVE SuiteOf[At(p)] = suites[p[1]].name
  BY <1>2 DEF At, Registered
<1>5. ASSUME NEW p \in Places, NEW q \in Places, At(p) = At(q) PROVE p = q
  <2>1. suites[p[1]].name = suites[q[1]].name
    BY <1>4, <1>5
  <2>2. p[1] = q[1]
    BY <1>2, <2>1 DEF Registered
  <2>3. p[2] = q[2]
    BY <1>2, <1>5, <2>2 DEF At, Registered
  <2> QED BY <1>2, <2>2, <2>3
<1>6. IsFiniteSet(Places)
  <2> DEFINE f == [p \in Places |-> At(p)]
  <2>1. f \in Injection(Places, Tests)
    BY <1>3, <1>5 DEF Injection, IsInjective
  <2> HIDE DEF f
  <2> QED BY <2>1, FS_Injection, TestSelectionAssumption
<1> QED BY <1>2, <1>3, <1>4, <1>5, <1>6

(* The places are in a line. *)
LEMMA PrecedesOrder ==
  ASSUME Registered
  PROVE  /\ \A p \in Places : ~ Precedes(p, p)
         /\ \A p, q \in Places : p = q \/ Precedes(p, q) \/ Precedes(q, p)
         /\ \A p, q, r \in Places : Precedes(p, q) /\ Precedes(q, r) => Precedes(p, r)
<1>1. \A p \in Places : p[1] \in Nat /\ p[2] \in Nat /\ p = <<p[1], p[2]>>
  BY PlacesFinite
<1>2. \A p, q \in Places : p = q \/ Precedes(p, q) \/ Precedes(q, p)
  <2> SUFFICES ASSUME NEW p \in Places, NEW q \in Places
               PROVE  p = q \/ Precedes(p, q) \/ Precedes(q, p)
    OBVIOUS
  <2>1. p = <<p[1], p[2]>> /\ q = <<q[1], q[2]>>
    BY <1>1
  <2>2. p[1] \in Nat /\ p[2] \in Nat /\ q[1] \in Nat /\ q[2] \in Nat
    BY <1>1
  <2>3. p[1] = q[1] /\ p[2] = q[2] => p = q
    BY <2>1
  <2> QED BY <2>2, <2>3 DEF Precedes
<1>3. \A p, q, r \in Places : Precedes(p, q) /\ Precedes(q, r) => Precedes(p, r)
  BY <1>1 DEF Precedes
<1> QED BY <1>1, <1>2, <1>3 DEF Precedes

RunnableAt(matches) == {p \in Places : IsRunnable(At(p), matches)}

(* The runnable tests are numbered from 0 without gaps, each with a number of  *)
(* its own.                                                                   *)
LEMMA Numbered ==
  ASSUME Registered, NEW matches
  PROVE  LET R  == RunnableAt(matches)
             id == [p \in R |-> TestId(p, matches)]
         IN  /\ IsFiniteSet(R)
             /\ id \in Injection(R, 0 .. Cardinality(R) - 1)
             /\ id \in Surjection(R, 0 .. Cardinality(R) - 1)
<1> DEFINE R  == RunnableAt(matches)
           B(p) == RunnableBefore(p, matches)
           N  == Cardinality(R)
           id == [p \in R |-> TestId(p, matches)]
<1>1. R \subseteq Places /\ IsFiniteSet(R)
  BY PlacesFinite, FS_Subset DEF RunnableAt
<1>2. \A p \in R : B(p) = {q \in R : Precedes(q, p)}
  BY DEF RunnableBefore, RunnableAt
<1>3. \A p \in R : TestId(p, matches) = Cardinality(B(p))
  BY DEF TestId
<1> HIDE DEF R, B
<1>4. N \in Nat
  BY <1>1, FS_CardinalityType
<1>5. ASSUME NEW p \in R
      PROVE  IsFiniteSet(B(p)) /\ Cardinality(B(p)) \in 0 .. N - 1
  <2>1. B(p) \in SUBSET R /\ p \notin B(p)
    BY <1>1, <1>2, PrecedesOrder
  <2>2. IsFiniteSet(B(p)) /\ Cardinality(B(p)) <= N /\ (Cardinality(B(p)) = N => B(p) = R)
    BY <1>1, <2>1, FS_Subset
  <2>3. Cardinality(B(p)) \in Nat
    BY <2>2, FS_CardinalityType
  <2> QED BY <1>4, <2>1, <2>2, <2>3
<1>6. ASSUME NEW p \in R, NEW q \in R, Precedes(p, q)
      PROVE  Cardinality(B(p)) < Cardinality(B(q))
  <2>1. B(p) \union {p} \in SUBSET B(q) /\ p \notin B(p)
    BY <1>1, <1>2, <1>6, PrecedesOrder
  <2>2. IsFiniteSet(B(p)) /\ IsFiniteSet(B(q))
    BY <1>5
  <2>3. Cardinality(B(p) \union {p}) = Cardinality(B(p)) + 1
    BY <2>1, <2>2, FS_AddElement
  <2>4. Cardinality(B(p) \union {p}) <= Cardinality(B(q))
    BY <2>1, <2>2, FS_Subset
  <2>5. Cardinality(B(p)) \in Nat /\ Cardinality(B(q)) \in Nat
    BY <2>2, FS_CardinalityType
  <2> QED BY <2>3, <2>4, <2>5
<1>7. id \in [R -> 0 .. N - 1] /\ \A p \in R : id[p] = Cardinality(B(p))
  BY <1>3, <1>5
<1> HIDE DEF id, N
<1>8. ASSUME NEW p \in R, NEW q \in R, id[p] = id[q] PROVE p = q
  <2>1. p = q \/ Precedes(p, q) \/ Precedes(q, p)
    BY <1>1, PrecedesOrder
  <2>2. Cardinality(B(p)) = Cardinality(B(q)) /\ Cardinality(B(p)) \in Nat
    BY <1>4, <1>5, <1>7, <1>8
  <2> QED BY <1>6, <2>1, <2>2
<1>9. id \in Injection(R, 0 .. N - 1)
  BY <1>7, <1>8 DEF Injection, IsInjective
<1>10. IsFiniteSet(0 .. N - 1) /\ Cardinality(0 .. N - 1) = N
  BY <1>4, FS_Interval
<1>11. id \in Surjection(R, 0 .. N - 1)
  BY <1>9, <1>10, FS_Injection DEF N
<1> QED BY <1>1, <1>9, <1>11 DEF R, N, id

(* So the shards have as many tests each, or one more. *)
OnShard(matches, n, k) == {p \in RunnableAt(matches) : TestId(p, matches) % n = k}

LEMMA Balanced ==
  ASSUME Registered, NEW matches, NEW n \in Nat \ {0}, NEW j \in 0 .. n - 1, NEW k \in 0 .. n - 1
  PROVE  /\ IsFiniteSet(OnShard(matches, n, j))
         /\ Cardinality(OnShard(matches, n, j)) <= Cardinality(OnShard(matches, n, k)) + 1
<1> DEFINE R  == RunnableAt(matches)
           N  == Cardinality(R)
           id == [p \in R |-> TestId(p, matches)]
           C(m) == OnShard(matches, n, m)
<1>1. /\ IsFiniteSet(R) /\ N \in Nat
      /\ id \in [R -> 0 .. N - 1]
      /\ \A p, q \in R : id[p] = id[q] => p = q
      /\ \A m \in 0 .. N - 1 : \E p \in R : id[p] = m
  <2>1. IsFiniteSet(R) /\ id \in Injection(R, 0 .. N - 1) /\ id \in Surjection(R, 0 .. N - 1)
    BY Numbered
  <2>2. N \in Nat
    BY <2>1, FS_CardinalityType
  <2> HIDE DEF R, id, N
  <2>3. id \in [R -> 0 .. N - 1] /\ \A p, q \in R : id[p] = id[q] => p = q
    BY <2>1 DEF Injection, IsInjective
  <2>4. \A m \in 0 .. N - 1 : \E p \in R : id[p] = m
    BY <2>1 DEF Surjection
  <2> QED BY <2>1, <2>2, <2>3, <2>4
<1>2. \A m : C(m) = {p \in R : id[p] % n = m}
  BY DEF OnShard
<1> HIDE DEF R, N, id, C
<1>3. \A m : C(m) \in SUBSET R /\ IsFiniteSet(C(m))
  BY <1>1, <1>2, FS_Subset
<1>4. \A m : Cardinality(C(m)) \in Nat
  BY <1>3, FS_CardinalityType
(* The test whose number is so far from that of p *)
<1> DEFINE At2(m) == CHOOSE p \in R : id[p] = m
<1>5. \A m \in 0 .. N - 1 : At2(m) \in R /\ id[At2(m)] = m
  BY <1>1
<1> HIDE DEF At2
<1>6. CASE k <= j
  <2> DEFINE h == [p \in C(j) |-> At2(id[p] - (j - k))]
  <2>1. ASSUME NEW p \in C(j)
        PROVE  id[p] - (j - k) \in 0 .. N - 1 /\ (id[p] - (j - k)) % n = k
    <3>1. id[p] \in Nat /\ id[p] \in 0 .. N - 1 /\ id[p] % n = j
      BY <1>1, <1>2
    <3>2. j - k \in 0 .. (id[p] % n)
      BY <1>6, <3>1
    <3>3. id[p] - (j - k) \in Nat /\ (id[p] - (j - k)) % n = (id[p] % n) - (j - k)
      BY <3>1, <3>2, ModDown
    <3>4. j - k \in Nat
      BY <1>6
    <3> QED BY <1>1, <3>1, <3>3, <3>4
  <2>2. \A p \in C(j) : At2(id[p] - (j - k)) \in C(k) /\ id[At2(id[p] - (j - k))] = id[p] - (j - k)
    BY <1>2, <1>5, <2>1
  <2>3. \A p, q \in C(j) : id[p] - (j - k) = id[q] - (j - k) => p = q
    BY <1>1, <1>2
  <2>4. h \in Injection(C(j), C(k))
    BY <2>2, <2>3 DEF Injection, IsInjective
  <2> HIDE DEF h
  <2>5. Cardinality(C(j)) <= Cardinality(C(k))
    BY <1>3, <2>4, FS_Injection
  <2> QED BY <1>3, <1>4, <2>5 DEF C
<1>7. CASE k > j
  <2> DEFINE S == C(j) \ {At2(j)}
             h == [p \in S |-> At2((id[p] - n) + (k - j))]
  <2>1. ASSUME NEW p \in S
        PROVE  (id[p] - n) + (k - j) \in 0 .. N - 1 /\ ((id[p] - n) + (k - j)) % n = k
    <3>1. id[p] \in Nat /\ id[p] \in 0 .. N - 1 /\ id[p] % n = j /\ p \in R
      BY <1>1, <1>2
    <3>2. id[p] >= n
      <4>1. CASE id[p] < n
        <5>1. id[p] = j
          BY <3>1, <4>1, ModBack
        <5>2. p = At2(j)
          BY <1>1, <1>5, <3>1, <5>1
        <5> QED BY <5>2
      <4> QED BY <3>1, <4>1
    <3>3. id[p] - n \in Nat /\ (id[p] - n) % n = j
      BY <3>1, <3>2, ModBack
    <3>4. k - j \in Nat /\ j + (k - j) = k /\ k < n
      BY <1>7
    <3>5. ((id[p] - n) + (k - j)) % n = j + (k - j)
      BY <3>3, <3>4, ModUp, ZenonT(60)
    <3> QED BY <1>1, <3>1, <3>3, <3>4, <3>5
  <2>2. \A p \in S : /\ At2((id[p] - n) + (k - j)) \in C(k)
                     /\ id[At2((id[p] - n) + (k - j))] = (id[p] - n) + (k - j)
    BY <1>2, <1>5, <2>1
  <2>3. \A p, q \in S : (id[p] - n) + (k - j) = (id[q] - n) + (k - j) => p = q
    BY <1>1, <1>2
  <2>4. h \in Injection(S, C(k))
    <3> HIDE DEF S
    <3> QED BY <2>2, <2>3 DEF Injection, IsInjective
  <2> HIDE DEF h
  <2>5. Cardinality(S) <= Cardinality(C(k))
    BY <1>3, <2>4, FS_Injection
  <2>6. Cardinality(S) = IF At2(j) \in C(j) THEN Cardinality(C(j)) - 1 ELSE Cardinality(C(j))
    BY <1>3, FS_RemoveElement
  <2>7. IsFiniteSet(C(j)) /\ Cardinality(C(j)) \in Nat /\ Cardinality(C(k)) \in Nat
    BY <1>3, <1>4
  <2> HIDE DEF S
  <2>8. Cardinality(C(j)) <= Cardinality(C(k)) + 1
    BY <2>5, <2>6, <2>7
  <2> QED BY <2>7, <2>8 DEF C
<1> QED BY <1>6, <1>7

(* What a process of a shard selects, and how many tests these are. *)
LEMMA Filtered ==
  ASSUME Registered, NEW matches, NEW n \in Nat, n >= 2, NEW k \in 0 .. n - 1
  PROVE  LET shard == FilterTests(matches, [total |-> n, index |-> k], FALSE)
         IN  /\ shard = {At(p) : p \in OnShard(matches, n, k)}
             /\ Cardinality(shard) = Cardinality(OnShard(matches, n, k))
<1> DEFINE env == [total |-> n, index |-> k]
           shard == FilterTests(matches, env, FALSE)
           C == OnShard(matches, n, k)
<1>1. ShouldShard(env, FALSE) /\ \A id : ShouldRunTestOnShard(env, id) <=> id % n = k
  BY DEF ShouldShard, ShouldRunTestOnShard
<1> HIDE DEF env
<1>2. {q \in Places : /\ IsRunnable(At(q), matches)
                      /\ ShouldShard(env, FALSE) => ShouldRunTestOnShard(env, TestId(q, matches))} = C
  BY <1>1 DEF OnShard, RunnableAt
<1>3. shard = {At(p) : p \in C}
  BY <1>2 DEF FilterTests
<1>4. C \subseteq Places /\ IsFiniteSet(C)
  <2>1. C \subseteq Places
    BY DEF OnShard, RunnableAt
  <2> QED BY <2>1, PlacesFinite, FS_Subset
<1> HIDE DEF C, shard
<1> DEFINE f == [p \in C |-> At(p)]
<1>5. f \in Bijection(C, shard)
  <2>1. f \in [C -> shard] /\ \A t \in shard : \E p \in C : f[p] = t
    BY <1>3
  <2>2. \A p, q \in C : f[p] = f[q] => p = q
    BY <1>4, PlacesFinite
  <2> HIDE DEF f
  <2> QED BY <2>1, <2>2 DEF Bijection, Injection, Surjection, IsInjective
<1>6. Cardinality(shard) = Cardinality(C)
  BY <1>4, <1>5, FS_Bijection DEF ExistsBijection
<1> QED BY <1>3, <1>6 DEF shard, C, env

(* Each test that may run is on exactly one shard, and no shard has two more.  *)
LEMMA Partition ==
  ASSUME Registered, phase = "iterating" => Listed = Tests
  PROVE  ShardsPartition
<1> SUFFICES ASSUME phase = "iterating", NEW n \in 2 .. MaxShards
             PROVE  LET shard == [k \in 0 .. n - 1 |->
                                    FilterTests(matching, [total |-> n, index |-> k], FALSE)]
                    IN  /\ \A t \in Tests : Cardinality({k \in 0 .. n - 1 : t \in shard[k]}) =
                                             IF IsRunnable(t, matching) THEN 1 ELSE 0
                        /\ \A j, k \in 0 .. n - 1 : Cardinality(shard[j]) <= Cardinality(shard[k]) + 1
  BY DEF ShardsPartition
<1> DEFINE shard == [k \in 0 .. n - 1 |->
                       FilterTests(matching, [total |-> n, index |-> k], FALSE)]
           C(k) == OnShard(matching, n, k)
<1>0. n \in Nat /\ n >= 2 /\ n \in Nat \ {0}
  BY TestSelectionAssumption
<1>1. \A k \in 0 .. n - 1 : shard[k] = {At(p) : p \in C(k)} /\ Cardinality(shard[k]) = Cardinality(C(k))
  BY <1>0, Filtered
<1>2. ASSUME NEW t \in Tests
      PROVE  Cardinality({k \in 0 .. n - 1 : t \in shard[k]}) = IF IsRunnable(t, matching) THEN 1 ELSE 0
  <2>1. PICK p \in Places : At(p) = t
    BY DEF Listed
  <2>2. \A q \in Places : At(q) = t => q = p
    BY <2>1, PlacesFinite
  <2>3. \A k \in 0 .. n - 1 : t \in shard[k] <=>
          IsRunnable(t, matching) /\ TestId(p, matching) % n = k
    <3> HIDE DEF shard
    <3>1. \A k : C(k) \subseteq Places
      BY DEF OnShard, RunnableAt
    <3>2. \A k \in 0 .. n - 1 : t \in shard[k] <=> p \in C(k)
      BY <1>1, <2>1, <2>2, <3>1
    <3> QED BY <2>1, <3>2 DEF OnShard, RunnableAt
  <2> HIDE DEF shard
  <2>4. CASE IsRunnable(t, matching)
    <3>1. RunnableBefore(p, matching) \in SUBSET Places
      BY DEF RunnableBefore
    <3>2. TestId(p, matching) \in Nat
      BY <3>1, PlacesFinite, FS_Subset, FS_CardinalityType DEF TestId
    <3>3. TestId(p, matching) % n \in 0 .. n - 1
      BY <1>0, <3>2
    <3>4. {k \in 0 .. n - 1 : t \in shard[k]} = {TestId(p, matching) % n}
      BY <2>3, <2>4, <3>3
    <3> QED BY <2>4, <3>4, FS_Singleton
  <2>5. CASE ~ IsRunnable(t, matching)
    <3>1. {k \in 0 .. n - 1 : t \in shard[k]} = {}
      BY <2>3, <2>5
    <3> QED BY <2>5, <3>1, FS_EmptySet
  <2> QED BY <2>4, <2>5
<1>3. ASSUME NEW j \in 0 .. n - 1, NEW k \in 0 .. n - 1
      PROVE  Cardinality(shard[j]) <= Cardinality(shard[k]) + 1
  <2> HIDE DEF shard
  <2>1. Cardinality(C(j)) <= Cardinality(C(k)) + 1
    BY <1>0, Balanced
  <2> QED BY <1>1, <2>1
<1> QED BY <1>2, <1>3

--------------------------------------------------------------------------------
(* Sorting *)

(* One of two places comes first, and what is before is before what follows. *)
LEMMA BeforeOrder ==
  ASSUME NEW list \in Seq(Tests)
  PROVE  LET I == 1 .. Len(list) IN
         /\ \A m \in I : ~ Before(list, m, m)
         /\ \A m, n \in I : m = n \/ Before(list, m, n) \/ Before(list, n, m)
         /\ \A l, m, n \in I : Before(list, l, m) /\ Before(list, m, n) => Before(list, l, n)
<1>1. \A m \in 1 .. Len(list) : Location[list[m]] \in Nat
  BY ElementOfSeq, TestSelectionAssumption
<1>2. Len(list) \in Nat
  BY LenProperties
<1> DEFINE I == 1 .. Len(list)
<1>3. \A m \in I : m \in Nat
  BY <1>2
<1> HIDE DEF I
<1>4. \A m \in I : Location[list[m]] \in Nat
  BY <1>1 DEF I
<1> QED BY <1>3, <1>4 DEF Before, I

(* Sorting puts the tests of a list into another order, in which each comes  *)
(* before those that follow.                                                 *)
Arranges(list, perm) ==
  /\ \A r \in 1 .. Len(list) : StableSort(list)[r] = list[perm[r]]
  /\ \A r, s \in 1 .. Len(list) : r < s => Before(list, perm[r], perm[s])

LEMMA SortArranges ==
  ASSUME NEW list \in Seq(Tests)
  PROVE  \E perm \in Orders(Len(list)) : Arranges(list, perm)
<1> DEFINE N == Len(list)
           I == 1 .. N
           B(n) == {m \in I : Before(list, m, n)}
           number(n) == Cardinality(B(n))
           choice(r) == CHOOSE n \in I : Cardinality(B(n)) = r - 1
           rank == [n \in I |-> number(n)]
           perm == [r \in I |-> choice(r)]
<1>1. N \in Nat /\ IsFiniteSet(I) /\ Cardinality(I) = N
  <2>1. N \in Nat
    BY LenProperties
  <2> QED BY <2>1, FS_Interval
<1>2. /\ \A m \in I : ~ Before(list, m, m)
      /\ \A m, n \in I : m = n \/ Before(list, m, n) \/ Before(list, n, m)
      /\ \A l, m, n \in I : Before(list, l, m) /\ Before(list, m, n) => Before(list, l, n)
  BY BeforeOrder
<1>3. \A r \in I : StableSort(list)[r] = list[perm[r]]
  BY DEF StableSort
<1>4. \A n \in I : rank[n] = Cardinality(B(n))
  OBVIOUS
<1>5. \A r \in I : perm[r] = CHOOSE n \in I : Cardinality(B(n)) = r - 1
  OBVIOUS
<1> HIDE DEF number, choice
<1>6. \A n \in I : \A m : m \in B(n) <=> m \in I /\ Before(list, m, n)
  OBVIOUS
<1>7. perm = [r \in I |-> perm[r]] /\ rank = [n \in I |-> rank[n]]
  OBVIOUS
<1>8. \A k \in I : k \in Nat /\ k - 1 \in 0 .. N - 1
  BY <1>1
<1>9. \A k \in 0 .. N - 1 : k + 1 \in I
  BY <1>1
<1> HIDE DEF B, rank, perm, I, N
<1>10. ASSUME NEW n \in I
       PROVE  IsFiniteSet(B(n)) /\ Cardinality(B(n)) \in 0 .. N - 1
  <2>1. B(n) \in SUBSET I /\ n \notin B(n)
    BY <1>2, <1>6
  <2>2. IsFiniteSet(B(n)) /\ Cardinality(B(n)) <= N /\ (Cardinality(B(n)) = N => B(n) = I)
    BY <1>1, <2>1, FS_Subset
  <2>3. Cardinality(B(n)) \in Nat
    BY <2>2, FS_CardinalityType
  <2> QED BY <1>1, <2>1, <2>2, <2>3
<1>11. ASSUME NEW m \in I, NEW n \in I, Before(list, m, n)
       PROVE  Cardinality(B(m)) < Cardinality(B(n))
  <2>1. B(m) \union {m} \in SUBSET B(n) /\ m \notin B(m)
    BY <1>2, <1>6, <1>11
  <2>2. IsFiniteSet(B(m)) /\ IsFiniteSet(B(n))
    BY <1>10
  <2>3. Cardinality(B(m) \union {m}) = Cardinality(B(m)) + 1
    BY <2>1, <2>2, FS_AddElement
  <2>4. Cardinality(B(m) \union {m}) <= Cardinality(B(n))
    BY <2>1, <2>2, FS_Subset
  <2>5. Cardinality(B(m)) \in Nat /\ Cardinality(B(n)) \in Nat
    BY <2>2, FS_CardinalityType
  <2> QED BY <2>3, <2>4, <2>5
<1>12. rank \in [I -> 0 .. N - 1]
  BY <1>4, <1>7, <1>10
<1>13. ASSUME NEW m \in I, NEW n \in I, rank[m] = rank[n] PROVE m = n
  <2>1. m = n \/ Before(list, m, n) \/ Before(list, n, m)
    BY <1>2
  <2>2. Cardinality(B(m)) = Cardinality(B(n)) /\ Cardinality(B(m)) \in Nat
    BY <1>1, <1>4, <1>10, <1>13
  <2> QED BY <1>11, <2>1, <2>2
<1>14. rank \in Surjection(I, 0 .. N - 1)
  <2>1. rank \in Injection(I, 0 .. N - 1)
    BY <1>12, <1>13 DEF Injection, IsInjective
  <2>2. IsFiniteSet(0 .. N - 1) /\ Cardinality(0 .. N - 1) = N
    <3>1. N \in Nat
      BY <1>1
    <3> QED BY <3>1, FS_Interval
  <2> QED BY <1>1, <2>1, <2>2, FS_Injection
<1>15. ASSUME NEW r \in I PROVE perm[r] \in I /\ rank[perm[r]] = r - 1
  <2>1. \E n \in I : rank[n] = r - 1
    BY <1>8, <1>14 DEF Surjection
  <2> QED BY <1>4, <1>5, <2>1
<1>16. ASSUME NEW r \in I, NEW s \in I, perm[r] = perm[s] PROVE r = s
  BY <1>8, <1>15, <1>16
<1>17. ASSUME NEW n \in I PROVE \E r \in I : perm[r] = n
  <2>1. rank[n] \in 0 .. N - 1
    BY <1>12
  <2>2. rank[n] + 1 \in I /\ (rank[n] + 1) - 1 = rank[n]
    BY <1>1, <1>9, <2>1
  <2>3. perm[rank[n] + 1] = n
    BY <1>13, <1>15, <2>2
  <2> QED BY <2>2, <2>3
<1>18. perm \in Orders(N)
  <2>1. perm \in [I -> I]
    BY <1>7, <1>15
  <2> QED BY <1>1, <1>16, <1>17, <2>1, OrdersMean DEF I
<1>19. ASSUME NEW r \in I, NEW s \in I, r < s PROVE Before(list, perm[r], perm[s])
  <2>1. perm[r] \in I /\ perm[s] \in I /\ rank[perm[r]] = r - 1 /\ rank[perm[s]] = s - 1
    BY <1>15
  <2>2. r \in Nat /\ s \in Nat
    BY <1>8
  <2>3. CASE perm[r] = perm[s]
    BY <1>16, <1>19, <2>2, <2>3
  <2>4. CASE Before(list, perm[s], perm[r])
    <3>1. s - 1 < r - 1
      BY <1>4, <1>11, <2>1, <2>4
    <3> QED BY <1>19, <2>2, <3>1
  <2> QED BY <1>2, <2>1, <2>3, <2>4
<1> QED BY <1>3, <1>18, <1>19 DEF Arranges, I, N

(* What sorting gives: as many tests, no earlier place in the source after a *)
(* later one, and the same list when it is sorted once more.                 *)
LEMMA SortTwice ==
  ASSUME NEW list \in Seq(Tests)
  PROVE  LET sorted == StableSort(list) IN
         /\ sorted \in Seq(Tests) /\ Len(sorted) = Len(list)
         /\ \A r, s \in 1 .. Len(list) : r < s => Location[sorted[r]] <= Location[sorted[s]]
         /\ StableSort(sorted) = sorted
<1> DEFINE N == Len(list)
           sorted == StableSort(list)
<1>1. N \in Nat
  BY LenProperties
<1>2. PICK perm \in Orders(N) : Arranges(list, perm)
  BY SortArranges
<1>3. \A r \in 1 .. N : perm[r] \in 1 .. N
  BY <1>1, <1>2, OrdersMean
<1>4. \A r \in 1 .. N : sorted[r] = list[perm[r]] /\ sorted[r] \in Tests
  BY <1>2, <1>3, ElementOfSeq DEF Arranges
<1>5. sorted = [r \in 1 .. N |-> sorted[r]]
  BY DEF StableSort
<1> HIDE DEF N
<1>6. sorted \in Seq(Tests) /\ Len(sorted) = N
  <2>1. sorted \in [1 .. N -> Tests]
    BY <1>4, <1>5
  <2> HIDE DEF sorted
  <2> QED BY <1>1, <2>1, SeqLen
<1>7. ASSUME NEW r \in 1 .. N, NEW s \in 1 .. N, r < s
      PROVE  Location[sorted[r]] <= Location[sorted[s]] /\ Before(sorted, r, s)
  <2>1. Before(list, perm[r], perm[s])
    BY <1>2, <1>7 DEF Arranges, N
  <2>2. Location[sorted[r]] \in Nat /\ Location[sorted[s]] \in Nat
    BY <1>4, TestSelectionAssumption
  <2>3. Location[sorted[r]] <= Location[sorted[s]]
    BY <1>4, <2>1, <2>2 DEF Before
  <2> QED BY <1>7, <2>2, <2>3 DEF Before
<1> HIDE DEF sorted
<1>8. ASSUME NEW n \in 1 .. N
      PROVE  Cardinality({m \in 1 .. N : Before(sorted, m, n)}) = n - 1
  <2>1. ASSUME NEW m \in 1 .. N PROVE Before(sorted, m, n) <=> m < n
    <3>1. N = Len(sorted)
      BY <1>6
    <3>2. ~ Before(sorted, n, n) /\ (Before(sorted, m, n) => ~ Before(sorted, n, m))
      BY <1>6, <3>1, BeforeOrder
    <3> QED BY <1>1, <1>7, <3>2
  <2>2. {m \in 1 .. N : Before(sorted, m, n)} = {m \in 1 .. N : m < n}
    BY <2>1
  <2>3. {m \in 1 .. N : m < n} = 1 .. n - 1
    BY <1>1
  <2>4. Cardinality(1 .. n - 1) = n - 1
    BY <1>1, FS_Interval
  <2> QED BY <2>2, <2>3, <2>4
<1>9. ASSUME NEW r \in 1 .. N
      PROVE  (CHOOSE n \in 1 .. N : Cardinality({m \in 1 .. N : Before(sorted, m, n)}) = r - 1) = r
  BY <1>1, <1>8
<1>10. StableSort(sorted) = [r \in 1 .. N |-> sorted[r]]
  <2> DEFINE choice(r) == CHOOSE n \in 1 .. N : Cardinality({m \in 1 .. N : Before(sorted, m, n)}) = r - 1
  <2>1. StableSort(sorted) = [r \in 1 .. N |-> sorted[choice(r)]]
    BY <1>6 DEF StableSort
  <2>2. \A r \in 1 .. N : choice(r) = r
    BY <1>9
  <2> HIDE DEF choice
  <2> QED BY <2>1, <2>2
<1>11. StableSort(sorted) = sorted
  BY <1>5, <1>10
<1> QED BY <1>6, <1>7, <1>11 DEF N, sorted

(* The lists of the suites, some of them sorted, have the tests of each in   *)
(* another order.                                                            *)
Rearranges(lists, perms) ==
  \A l \in 1 .. Count : \A a \in 1 .. Len(suites[l].tests) : lists[l][a] = suites[l].tests[perms[l][a]]

LEMMA SortedRearranges ==
  ASSUME Registered, NEW running
  PROVE  /\ \E perms \in TestOrders : Rearranges(Sorted(running), perms)
         /\ \A l \in 1 .. Count : /\ Sorted(running)[l] \in Seq(Tests)
                                  /\ Len(Sorted(running)[l]) = Len(suites[l].tests)
<1> DEFINE Good(l, p) == \A a \in 1 .. Len(suites[l].tests) : Sorted(running)[l][a] = suites[l].tests[p[a]]
           choice(l) == CHOOSE p \in Orders(Len(suites[l].tests)) : Good(l, p)
           perms == [l \in 1 .. Count |-> choice(l)]
<1>1. \A l \in 1 .. Count : suites[l].tests \in Seq(Tests) /\ Len(suites[l].tests) \in Nat
  BY RegisteredSized, LenProperties
<1>2. \A l \in 1 .. Count : Sorted(running)[l] = IF l \in running THEN StableSort(suites[l].tests) ELSE suites[l].tests
  BY DEF Sorted
<1>3. ASSUME NEW l \in 1 .. Count
      PROVE  /\ \E p \in Orders(Len(suites[l].tests)) : Good(l, p)
             /\ Sorted(running)[l] \in Seq(Tests)
             /\ Len(Sorted(running)[l]) = Len(suites[l].tests)
  <2> DEFINE list == suites[l].tests
  <2>1. list \in Seq(Tests) /\ Len(list) \in Nat
    BY <1>1
  <2>2. Sorted(running)[l] = IF l \in running THEN StableSort(list) ELSE list
    BY <1>2
  <2> HIDE DEF list
  <2>3. CASE l \in running
    <3>1. PICK p \in Orders(Len(list)) : Arranges(list, p)
      BY <2>1, SortArranges
    <3>2. StableSort(list) \in Seq(Tests) /\ Len(StableSort(list)) = Len(list)
      BY <2>1, SortTwice
    <3> QED BY <2>2, <2>3, <3>1, <3>2 DEF Arranges, list
  <2>4. CASE l \notin running
    <3>1. Identity(Len(list)) \in Orders(Len(list)) /\ \A a \in 1 .. Len(list) : Identity(Len(list))[a] = a
      BY <2>1, IdentityOrders
    <3>2. Good(l, Identity(Len(list)))
      BY <2>2, <2>4, <3>1 DEF list
    <3> QED BY <2>1, <2>2, <2>4, <3>1, <3>2 DEF list
  <2> QED BY <2>3, <2>4
<1>4. ASSUME NEW l \in 1 .. Count
      PROVE  choice(l) \in Orders(Len(suites[l].tests)) /\ Good(l, choice(l)) /\ choice(l) \in Seq(Nat)
  <2>1. choice(l) \in Orders(Len(suites[l].tests)) /\ Good(l, choice(l))
    BY <1>3
  <2> HIDE DEF choice
  <2> QED BY <1>1, <2>1, OrdersLen
<1> HIDE DEF choice, Good
<1>5. perms \in TestOrders
  BY <1>4 DEF TestOrders
<1>6. Rearranges(Sorted(running), perms)
  BY <1>4 DEF Rearranges, Good
<1> QED BY <1>3, <1>5, <1>6

--------------------------------------------------------------------------------
(* The order of an iteration *)

(* What OrderSound says of one iteration. *)
HasTurn(order, visits, t) ==
  /\ t \in selected
  /\ visits = Count \/ \E p \in DOMAIN order : SuiteOf[order[p]] = SuiteOf[t]
Sound(order, visits) ==
  /\ \A t \in Tests : Cardinality({p \in DOMAIN order : order[p] = t}) =
                       IF HasTurn(order, visits, t) THEN 1 ELSE 0
  /\ \A p, q \in DOMAIN order :
       /\ SuiteOf[order[p]] = SuiteOf[order[q]] <=> p[1] = q[1]
       /\ Precedes(p, q) /\ SuiteOf[order[q]] \in DeathSuites => SuiteOf[order[p]] \in DeathSuites

(* When the suites are permuted, death tests among themselves, and the tests of *)
(* each suite, each selected test has its turn once, and in the right place.   *)
LEMMA PermutedSound ==
  ASSUME Registered, selected \subseteq Listed, NEW visits \in 0 .. Count,
         NEW suiteIdx \in Orders(Count), Blocks(suiteIdx), NEW testIdx \in TestOrders,
         NEW lists, NEW perms \in TestOrders, Rearranges(lists, perms)
  PROVE  Sound(OrderBy(lists, suiteIdx, testIdx, visits), visits)
<1> DEFINE R(p) == <<suiteIdx[p[1]], perms[suiteIdx[p[1]]][testIdx[suiteIdx[p[1]]][p[2]]]>>
           V == UNION {{k} \X (1 .. Len(testIdx[suiteIdx[k]])) : k \in 1 .. visits}
           order == OrderBy(lists, suiteIdx, testIdx, visits)
<1>00. 1 .. visits \subseteq 1 .. Count /\ visits \in Nat
  BY RegisteredSized DEF Sized
<1>0. Count \in Nat /\ \A k \in 1 .. Count : Len(suites[k].tests) \in Nat
  BY RegisteredSized DEF Sized
<1>1. /\ \A k \in 1 .. Count : suiteIdx[k] \in 1 .. Count
      /\ \A j, k \in 1 .. Count : suiteIdx[j] = suiteIdx[k] => j = k
      /\ \A l \in 1 .. Count : \E k \in 1 .. Count : suiteIdx[k] = l
  <2> DEFINE n == Count
  <2>1. n \in Nat /\ suiteIdx \in Orders(n)
    BY <1>0
  <2> HIDE DEF n
  <2>2. /\ suiteIdx \in [1 .. n -> 1 .. n]
        /\ \A a, b \in 1 .. n : suiteIdx[a] = suiteIdx[b] => a = b
        /\ \A c \in 1 .. n : \E a \in 1 .. n : suiteIdx[a] = c
    BY <2>1, OrdersMean
  <2> QED BY <2>2 DEF n
<1>2. \A k \in 1 .. Count :
        LET l == suiteIdx[k]
            n == Len(suites[l].tests)
        IN  /\ Len(testIdx[l]) = n
            /\ \A a \in 1 .. n : testIdx[l][a] \in 1 .. n /\ perms[l][testIdx[l][a]] \in 1 .. n
            /\ \A a, b \in 1 .. n : perms[l][testIdx[l][a]] = perms[l][testIdx[l][b]] => a = b
            /\ \A c \in 1 .. n : \E a \in 1 .. n : perms[l][testIdx[l][a]] = c
  <2> SUFFICES ASSUME NEW l \in 1 .. Count
               PROVE  LET n == Len(suites[l].tests)
                      IN  /\ Len(testIdx[l]) = n
                          /\ \A a \in 1 .. n : testIdx[l][a] \in 1 .. n /\ perms[l][testIdx[l][a]] \in 1 .. n
                          /\ \A a, b \in 1 .. n : perms[l][testIdx[l][a]] = perms[l][testIdx[l][b]] => a = b
                          /\ \A c \in 1 .. n : \E a \in 1 .. n : perms[l][testIdx[l][a]] = c
    BY <1>1
  <2> DEFINE n == Len(suites[l].tests)
             f == testIdx[l]
             g == perms[l]
  <2>1. n \in Nat /\ f \in Orders(n) /\ g \in Orders(n)
    BY <1>0 DEF TestOrders
  <2> HIDE DEF n, f, g
  <2>2. Len(f) = n
    BY <2>1, OrdersLen
  <2>3. /\ f \in [1 .. n -> 1 .. n]
        /\ \A a, b \in 1 .. n : f[a] = f[b] => a = b
        /\ \A c \in 1 .. n : \E a \in 1 .. n : f[a] = c
    BY <2>1, OrdersMean
  <2>4. /\ g \in [1 .. n -> 1 .. n]
        /\ \A a, b \in 1 .. n : g[a] = g[b] => a = b
        /\ \A c \in 1 .. n : \E a \in 1 .. n : g[a] = c
    BY <2>1, OrdersMean
  <2>5. \A c \in 1 .. n : \E a \in 1 .. n : g[f[a]] = c
    <3> TAKE c \in 1 .. n
    <3>1. PICK b \in 1 .. n : g[b] = c
      BY <2>4
    <3>2. PICK a \in 1 .. n : f[a] = b
      BY <2>3
    <3> QED BY <3>1, <3>2
  <2>6. \A a \in 1 .. n : f[a] \in 1 .. n /\ g[f[a]] \in 1 .. n
    BY <2>3, <2>4
  <2>7. ASSUME NEW a \in 1 .. n, NEW b \in 1 .. n, g[f[a]] = g[f[b]] PROVE a = b
    <3>1. f[a] = f[b]
      BY <2>4, <2>6, <2>7
    <3> QED BY <2>3, <3>1
  <2> QED BY <2>2, <2>5, <2>6, <2>7 DEF n, f, g
<1>3. \A p : p \in V <=> \E k \in 1 .. visits : \E a \in 1 .. Len(suites[suiteIdx[k]].tests) : p = <<k, a>>
  <2>1. \A k \in 1 .. visits : Len(testIdx[suiteIdx[k]]) = Len(suites[suiteIdx[k]].tests)
    BY <1>00, <1>2
  <2> DEFINE A(k) == 1 .. Len(testIdx[suiteIdx[k]])
             B(k) == 1 .. Len(suites[suiteIdx[k]].tests)
             K == 1 .. visits
  <2>2. V = UNION {{k} \X A(k) : k \in K}
    OBVIOUS
  <2>3. \A k \in K : A(k) = B(k)
    BY <2>1
  <2> HIDE DEF A, B, K, V
  <2>4. \A p : p \in V <=> \E k \in K : \E a \in B(k) : p = <<k, a>>
    BY <2>2, <2>3
  <2> QED BY <2>4 DEF B, K
<1>4. \A k \in 1 .. Count : \A a : R(<<k, a>>) = <<suiteIdx[k], perms[suiteIdx[k]][testIdx[suiteIdx[k]][a]]>>
  OBVIOUS
<1>5. order = [p \in {q \in V : At(R(q)) \in selected} |-> At(R(p))]
  <2> DEFINE test(p) == lists[suiteIdx[p[1]]][testIdx[suiteIdx[p[1]]][p[2]]]
  <2>1. ASSUME NEW p \in V PROVE test(p) = At(R(p))
    <3>0. PICK k \in 1 .. Count : \E a \in 1 .. Len(suites[suiteIdx[k]].tests) : p = <<k, a>>
      BY <1>3, <1>00
    <3>1. PICK a \in 1 .. Len(suites[suiteIdx[k]].tests) : p = <<k, a>>
      BY <3>0
    <3>2. suiteIdx[k] \in 1 .. Count /\ testIdx[suiteIdx[k]][a] \in 1 .. Len(suites[suiteIdx[k]].tests)
      BY <1>1, <1>2
    <3> QED BY <3>1, <3>2 DEF Rearranges, At
  <2>2. order = [p \in {q \in V : test(q) \in selected} |-> test(p)]
    BY DEF OrderBy, Redirected
  <2> HIDE DEF test, R, V, order
  <2>3. {q \in V : test(q) \in selected} = {q \in V : At(R(q)) \in selected}
    BY <2>1
  <2> QED BY <2>1, <2>2, <2>3
<1> HIDE DEF V, R, order
<1>6. ASSUME NEW p \in V
      PROVE  /\ R(p) \in Places /\ p[1] \in 1 .. visits /\ p[1] \in 1 .. Count /\ R(p)[1] = suiteIdx[p[1]]
             /\ p[1] \in Nat /\ p[2] \in Nat
  <2>10. PICK k \in 1 .. visits : \E a \in 1 .. Len(suites[suiteIdx[k]].tests) : p = <<k, a>>
    BY <1>3
  <2>1. PICK a \in 1 .. Len(suites[suiteIdx[k]].tests) : p = <<k, a>>
    BY <2>10
  <2>0. k \in 1 .. Count
    BY <1>00
  <2>2. R(p) = <<suiteIdx[k], perms[suiteIdx[k]][testIdx[suiteIdx[k]][a]]>>
    BY <1>4, <2>0, <2>1
  <2>3. perms[suiteIdx[k]][testIdx[suiteIdx[k]][a]] \in 1 .. Len(suites[suiteIdx[k]].tests)
    BY <1>2, <2>0
  <2>4. R(p) \in Places
    <3>1. suiteIdx[k] \in 1 .. Count
      BY <1>1, <2>0
    <3> QED BY <2>2, <2>3, <3>1, PlacesMean
  <2>5. p[1] = k /\ p[2] = a
    BY <2>1
  <2> QED BY <1>0, <2>0, <2>2, <2>4, <2>5
<1>7. ASSUME NEW p \in V, NEW q \in V, R(p) = R(q) PROVE p = q
  <2>10. PICK k \in 1 .. visits : \E a \in 1 .. Len(suites[suiteIdx[k]].tests) : p = <<k, a>>
    BY <1>3
  <2>1. PICK a \in 1 .. Len(suites[suiteIdx[k]].tests) : p = <<k, a>>
    BY <2>10
  <2>20. PICK l \in 1 .. visits : \E b \in 1 .. Len(suites[suiteIdx[l]].tests) : q = <<l, b>>
    BY <1>3
  <2>2. PICK b \in 1 .. Len(suites[suiteIdx[l]].tests) : q = <<l, b>>
    BY <2>20
  <2>0. k \in 1 .. Count /\ l \in 1 .. Count
    BY <1>00
  <2>3. /\ suiteIdx[k] = suiteIdx[l]
        /\ perms[suiteIdx[k]][testIdx[suiteIdx[k]][a]] = perms[suiteIdx[l]][testIdx[suiteIdx[l]][b]]
    BY <1>4, <1>7, <2>0, <2>1, <2>2
  <2>4. k = l
    BY <1>1, <2>0, <2>3
  <2>5. a = b
    BY <1>2, <2>0, <2>3, <2>4
  <2> QED BY <2>1, <2>2, <2>4, <2>5
<1>8. ASSUME NEW k \in 1 .. visits, NEW r \in Places, r[1] = suiteIdx[k] PROVE \E p \in V : R(p) = r
  <2>0. k \in 1 .. Count
    BY <1>00
  <2>10. PICK l \in 1 .. Count : \E c \in 1 .. Len(suites[l].tests) : r = <<l, c>>
    BY PlacesMean
  <2>1. PICK c \in 1 .. Len(suites[l].tests) : r = <<l, c>>
    BY <2>10
  <2>2. suiteIdx[k] = l
    BY <1>8, <2>1
  <2>3. PICK a \in 1 .. Len(suites[l].tests) : perms[l][testIdx[l][a]] = c
    BY <1>2, <2>0, <2>2
  <2> QED BY <1>3, <1>4, <2>0, <2>1, <2>2, <2>3
<1>10. ASSUME NEW p \in DOMAIN order
       PROVE  p \in V /\ SuiteOf[order[p]] = suites[suiteIdx[p[1]]].name
  <2>1. p \in V /\ order[p] = At(R(p))
    BY <1>5
  <2> QED BY <1>6, <2>1, PlacesFinite
<1>9. ASSUME NEW t \in Tests
      PROVE  Cardinality({p \in DOMAIN order : order[p] = t}) = IF HasTurn(order, visits, t) THEN 1 ELSE 0
  <2>1. CASE HasTurn(order, visits, t)
    <3>0. t \in selected
      BY <2>1 DEF HasTurn
    <3>1. PICK r \in Places : At(r) = t
      BY <3>0 DEF Listed
    <3>2. r[1] \in 1 .. Count /\ SuiteOf[t] = suites[r[1]].name
      BY <3>1, PlacesFinite
    <3>3. \E k \in 1 .. visits : suiteIdx[k] = r[1]
      <4>1. CASE visits = Count
        BY <1>1, <3>2, <4>1
      <4>2. CASE \E p \in DOMAIN order : SuiteOf[order[p]] = SuiteOf[t]
        <5>1. PICK p \in DOMAIN order : SuiteOf[order[p]] = SuiteOf[t]
          BY <4>2
        <5>2. p[1] \in 1 .. visits /\ p[1] \in 1 .. Count /\ suites[suiteIdx[p[1]]].name = suites[r[1]].name
          BY <1>6, <1>10, <3>2, <5>1
        <5>3. \A k, l \in 1 .. Count : suites[k].name = suites[l].name => k = l
          BY DEF Registered
        <5>4. suiteIdx[p[1]] \in 1 .. Count
          BY <1>1, <5>2
        <5>5. suiteIdx[p[1]] = r[1]
          BY <3>2, <5>2, <5>3, <5>4
        <5> QED BY <5>2, <5>5
      <4> QED BY <2>1, <4>1, <4>2 DEF HasTurn
    <3>4. PICK p \in V : R(p) = r
      BY <1>8, <3>3
    <3>5. \A q \in V : At(R(q)) = t => q = p
      BY <1>6, <1>7, <3>1, <3>4, PlacesFinite
    <3>6. {q \in DOMAIN order : order[q] = t} = {p}
      BY <1>5, <3>0, <3>1, <3>4, <3>5
    <3> QED BY <2>1, <3>6, FS_Singleton
  <2>2. CASE ~ HasTurn(order, visits, t)
    <3>1. ASSUME NEW q \in DOMAIN order, order[q] = t PROVE FALSE
      <4>1. t \in selected
        BY <1>5, <3>1
      <4> QED BY <2>2, <3>1, <4>1 DEF HasTurn
    <3>2. {q \in DOMAIN order : order[q] = t} = {}
      BY <3>1
    <3> QED BY <2>2, <3>2, FS_EmptySet
  <2> QED BY <2>1, <2>2
<1>11. ASSUME NEW p \in DOMAIN order, NEW q \in DOMAIN order
       PROVE  /\ SuiteOf[order[p]] = SuiteOf[order[q]] <=> p[1] = q[1]
              /\ Precedes(p, q) /\ SuiteOf[order[q]] \in DeathSuites => SuiteOf[order[p]] \in DeathSuites
  <2>1. p[1] \in 1 .. Count /\ q[1] \in 1 .. Count /\ p[1] \in Nat /\ q[1] \in Nat
    BY <1>6, <1>10
  <2>2. suiteIdx[p[1]] \in 1 .. Count /\ suiteIdx[q[1]] \in 1 .. Count
    BY <1>1, <2>1
  <2>3. SuiteOf[order[p]] = SuiteOf[order[q]] <=> p[1] = q[1]
    <3>1. \A k, l \in 1 .. Count : suites[k].name = suites[l].name => k = l
      BY DEF Registered
    <3>2. suites[suiteIdx[p[1]]].name = suites[suiteIdx[q[1]]].name => suiteIdx[p[1]] = suiteIdx[q[1]]
      BY <2>2, <3>1
    <3>3. suiteIdx[p[1]] = suiteIdx[q[1]] => p[1] = q[1]
      BY <1>1, <2>1
    <3> QED BY <1>10, <3>2, <3>3
  <2>4. ASSUME Precedes(p, q), SuiteOf[order[q]] \in DeathSuites
        PROVE  SuiteOf[order[p]] \in DeathSuites
    <3>1. suiteIdx[q[1]] <= lastDeath
      BY <1>10, <2>2, <2>4 DEF Registered
    <3>2. q[1] <= lastDeath
      BY <2>1, <3>1 DEF Blocks
    <3>3. p[1] <= q[1] /\ lastDeath \in Nat
      BY <1>0, <2>1, <2>4 DEF Precedes, Registered
    <3>4. suiteIdx[p[1]] <= lastDeath
      BY <2>1, <3>2, <3>3 DEF Blocks
    <3> QED BY <1>10, <2>2, <3>4 DEF Registered
  <2> QED BY <2>3, <2>4
<1>12. Sound(order, visits)
  BY <1>9, <1>11 DEF Sound
<1> QED BY <1>12 DEF order

--------------------------------------------------------------------------------
(* Registration *)

(* What is inserted behind the first d elements moves the others up. *)
LEMMA Inserted ==
  ASSUME NEW S, NEW s \in Seq(S), NEW e \in S, NEW d \in 0 .. Len(s)
  PROVE  /\ InsertAt(s, d + 1, e) \in Seq(S)
         /\ Len(InsertAt(s, d + 1, e)) = Len(s) + 1
         /\ \A k \in 1 .. Len(s) + 1 :
              InsertAt(s, d + 1, e)[k] = IF k <= d THEN s[k] ELSE IF k = d + 1 THEN e ELSE s[k - 1]
<1> DEFINE N == Len(s)
           a == SubSeq(s, 1, d)
           b == SubSeq(s, d + 1, N)
           c == a \o <<e>>
<1>0. N \in Nat /\ d \in 0 .. N /\ \A k \in 1 .. N : s[k] \in S
  BY LenProperties, ElementOfSeq
<1>1. a \in Seq(S) /\ Len(a) = d /\ \A k \in 1 .. d : a[k] = s[k]
  <2>1. \A k \in 1 .. d : s[k] \in S
    BY <1>0
  <2>2. a \in Seq(S) /\ Len(a) = (IF 1 <= d THEN d - 1 + 1 ELSE 0)
        /\ \A k \in 1 .. d - 1 + 1 : a[k] = s[1 + k - 1]
    BY <1>0, <2>1, SubSeqProperties
  <2> HIDE DEF a
  <2>3. \A k \in 1 .. d : 1 + k - 1 = k /\ k \in 1 .. d - 1 + 1
    BY <1>0
  <2> QED BY <1>0, <2>2, <2>3
<1>2. b \in Seq(S) /\ Len(b) = N - d /\ \A k \in 1 .. N - d : b[k] = s[d + k]
  <2>1. \A k \in d + 1 .. N : s[k] \in S
    BY <1>0
  <2>2. b \in Seq(S) /\ Len(b) = (IF d + 1 <= N THEN N - (d + 1) + 1 ELSE 0)
        /\ \A k \in 1 .. N - (d + 1) + 1 : b[k] = s[d + 1 + k - 1]
    BY <1>0, <2>1, SubSeqProperties
  <2> HIDE DEF b, N
  <2>3. \A k \in 1 .. N - d : d + 1 + k - 1 = d + k /\ k \in 1 .. N - (d + 1) + 1
    BY <1>0
  <2> QED BY <1>0, <2>2, <2>3
<1> HIDE DEF a, b, N
<1>3. <<e>> \in Seq(S) /\ Len(<<e>>) = 1 /\ <<e>>[1] = e
  OBVIOUS
<1>4. c \in Seq(S) /\ Len(c) = d + 1 /\ \A k \in 1 .. d + 1 : c[k] = IF k <= d THEN s[k] ELSE e
  <2>1. /\ c \in Seq(S) /\ Len(c) = Len(a) + 1
        /\ \A k \in 1 .. Len(a) + 1 : c[k] = IF k <= Len(a) THEN a[k] ELSE <<e>>[k - Len(a)]
    BY <1>1, <1>3, ConcatProperties
  <2> HIDE DEF c
  <2>2. ASSUME NEW k \in 1 .. d + 1 PROVE c[k] = IF k <= d THEN s[k] ELSE e
    <3>1. c[k] = IF k <= d THEN a[k] ELSE <<e>>[k - d]
      BY <1>1, <2>1
    <3>2. CASE k <= d
      BY <1>0, <1>1, <3>1, <3>2
    <3>3. CASE ~ (k <= d)
      <4>1. k - d = 1
        BY <1>0, <3>3
      <4> QED BY <1>3, <3>1, <3>3, <4>1
    <3> QED BY <3>2, <3>3
  <2> QED BY <1>1, <2>1, <2>2
<1> HIDE DEF c
<1>5. /\ c \o b \in Seq(S) /\ Len(c \o b) = d + 1 + (N - d)
      /\ \A k \in 1 .. d + 1 + (N - d) : (c \o b)[k] = IF k <= d + 1 THEN c[k] ELSE b[k - (d + 1)]
  <2>1. /\ c \o b \in Seq(S) /\ Len(c \o b) = Len(c) + Len(b)
        /\ \A k \in 1 .. Len(c) + Len(b) : (c \o b)[k] = IF k <= Len(c) THEN c[k] ELSE b[k - Len(c)]
    BY <1>2, <1>4, ConcatProperties
  <2>2. Len(c) = d + 1 /\ Len(b) = N - d
    BY <1>2, <1>4
  <2> QED BY <2>1, <2>2
<1>6. ASSUME NEW k \in 1 .. N + 1
      PROVE  (c \o b)[k] = IF k <= d THEN s[k] ELSE IF k = d + 1 THEN e ELSE s[k - 1]
  <2>1. (c \o b)[k] = IF k <= d + 1 THEN c[k] ELSE b[k - (d + 1)]
    BY <1>0, <1>5
  <2>2. CASE k <= d + 1
    BY <1>0, <1>4, <2>1, <2>2
  <2>3. CASE ~ (k <= d + 1)
    <3>1. k - (d + 1) \in 1 .. N - d /\ d + (k - (d + 1)) = k - 1
      BY <1>0, <2>3
    <3>2. b[k - (d + 1)] = s[k - 1]
      BY <1>2, <3>1
    <3> QED BY <1>0, <2>1, <2>3, <3>2
  <2> QED BY <2>2, <2>3
<1>7. d + 1 - 1 = d /\ d + 1 + (N - d) = N + 1
  BY <1>0
<1>8. InsertAt(s, d + 1, e) = c \o b
  <2>1. PICK x \in Nat : x = d + 1
    BY <1>0
  <2>2. InsertAt(s, x, e) = (SubSeq(s, 1, x - 1) \o <<e>>) \o SubSeq(s, x, Len(s))
    BY DEF InsertAt
  <2>3. x - 1 = d
    BY <1>0, <2>1
  <2>4. SubSeq(s, 1, x - 1) = a /\ SubSeq(s, x, Len(s)) = b
    BY <2>1, <2>3 DEF a, b, N
  <2> QED BY <2>1, <2>2, <2>4 DEF c
<1> QED BY <1>5, <1>6, <1>7, <1>8 DEF N

(* The order of a registry that grew is still that of registration. *)
LEMMA IdentityGrows ==
  ASSUME NEW n \in Nat
  PROVE  Append(Identity(n), n + 1) = Identity(n + 1)
<1>1. \A m \in Nat : Identity(m) \in Seq(Nat) /\ Len(Identity(m)) = m /\ \A j \in 1 .. m : Identity(m)[j] = j
  BY IdentityOrders, OrdersLen
<1> DEFINE a == Append(Identity(n), n + 1)
           b == Identity(n + 1)
<1>2. /\ a \in Seq(Nat) /\ Len(a) = n + 1
      /\ \A j \in 1 .. n : a[j] = Identity(n)[j]
      /\ a[n + 1] = n + 1
  <2>1. n + 1 \in Nat /\ Identity(n) \in Seq(Nat) /\ Len(Identity(n)) = n
    BY <1>1
  <2> QED BY <2>1, AppendProperties
<1>3. b \in Seq(Nat) /\ Len(b) = n + 1 /\ \A j \in 1 .. n + 1 : b[j] = j
  BY <1>1
<1> HIDE DEF a, b
<1>4. \A j \in 1 .. n + 1 : a[j] = b[j]
  <2> TAKE j \in 1 .. n + 1
  <2>1. CASE j \in 1 .. n
    BY <1>1, <1>2, <1>3, <2>1
  <2>2. CASE j = n + 1
    BY <1>2, <1>3, <2>2
  <2> QED BY <2>1, <2>2
<1> QED BY <1>2, <1>3, <1>4, SeqEqual DEF a, b

Suite == [name : Suites, tests : Seq(Tests)]

(* A test that joins its suite. *)
LEMMA Joins ==
  ASSUME Registered, NEW t \in Tests, AddTestInfo(t), Position(SuiteOf[t]) # {}
  PROVE  Registered' /\ Count' = Count
<1> DEFINE name == SuiteOf[t]
           P == Position(name)
<1>0. Count \in Nat /\ \A k \in 1 .. Count : suites[k] \in Suite /\ suites[k].tests \in Seq(Tests)
  BY RegisteredSized DEF Sized, Suite
<1>1. /\ suites' = [k \in 1 .. Count |-> IF k \in P THEN [suites[k] EXCEPT !.tests = Append(@, t)]
                                          ELSE suites[k]]
      /\ lastDeath' = lastDeath
  BY DEF AddTestInfo
<1>2. \A k \in 1 .. Count : k \in P <=> suites[k].name = name
  BY DEF Position
<1> HIDE DEF P, name
<1>3. ASSUME NEW k \in 1 .. Count
      PROVE  /\ suites'[k] \in Suite /\ suites'[k].name = suites[k].name
             /\ suites'[k].tests = IF k \in P THEN Append(suites[k].tests, t) ELSE suites[k].tests
  <2>1. Append(suites[k].tests, t) \in Seq(Tests)
    BY <1>0, AppendProperties
  <2> QED BY <1>0, <1>1, <2>1 DEF Suite
<1>4. suites' \in Seq(Suite) /\ Count' = Count
  <2>1. suites' \in [1 .. Count -> Suite]
    BY <1>1, <1>3
  <2>2. PICK s : s = suites'
    OBVIOUS
  <2>3. PICK n \in Nat : n = Count
    BY <1>0
  <2>4. s \in [1 .. n -> Suite]
    BY <2>1, <2>2, <2>3
  <2>5. s \in Seq(Suite) /\ Len(s) = n
    BY <2>4, SeqLen
  <2> QED BY <2>2, <2>3, <2>5 DEF Count
(* The tests of a suite, and the new one behind them *)
<1>5. ASSUME NEW k \in 1 .. Count
      PROVE  LET old == suites[k].tests
                 new == suites'[k].tests
             IN  /\ \A m \in 1 .. Len(new) : new[m] \in Tests /\ SuiteOf[new[m]] = suites[k].name
                 /\ \A m, n \in 1 .. Len(new) : new[m] = new[n] => m = n
  <2> DEFINE old == suites[k].tests
             new == suites'[k].tests
  <2>1. /\ old \in Seq(Tests) /\ Len(old) \in Nat
        /\ \A m \in 1 .. Len(old) : old[m] \in Tests /\ old[m] # t /\ SuiteOf[old[m]] = suites[k].name
        /\ \A m, n \in 1 .. Len(old) : old[m] = old[n] => m = n
    <3>1. old \in Seq(Tests)
      BY <1>0
    <3>2. Len(old) \in Nat /\ \A m \in 1 .. Len(old) : old[m] \in Tests
      BY <3>1, LenProperties, ElementOfSeq
    <3>3. \A m \in 1 .. Len(old) : old[m] # t
      <4> TAKE m \in 1 .. Len(old)
      <4>1. <<k, m>> \in Places
        BY PlacesMean
      <4>2. At(<<k, m>>) = old[m]
        BY DEF At
      <4> QED BY <4>1, <4>2 DEF AddTestInfo, Listed
    <3> QED BY <3>1, <3>2, <3>3 DEF Registered
  <2>2. CASE k \notin P
    BY <1>3, <2>1, <2>2
  <2>3. CASE k \in P
    <3>1. new = Append(old, t) /\ suites[k].name = name
      BY <1>2, <1>3, <2>3
    <3> HIDE DEF old, new
    <3>2. /\ Len(new) = Len(old) + 1 /\ \A m \in 1 .. Len(old) : new[m] = old[m]
          /\ new[Len(old) + 1] = t
      BY <2>1, <3>1, AppendProperties
    <3>3. \A m \in 1 .. Len(new) : m \in 1 .. Len(old) \/ m = Len(old) + 1
      BY <2>1, <3>2
    <3>4. \A m \in 1 .. Len(new) : new[m] \in Tests /\ SuiteOf[new[m]] = suites[k].name
      BY <2>1, <3>1, <3>2, <3>3 DEF name
    <3>5. \A m, n \in 1 .. Len(new) : new[m] = new[n] => m = n
      BY <2>1, <3>2, <3>3
    <3> QED BY <3>4, <3>5 DEF new
  <2> QED BY <2>2, <2>3
<1>6. /\ lastDeath' \in 0 .. Count'
      /\ \A k \in 1 .. Count' : suites'[k].name \in DeathSuites <=> k <= lastDeath'
      /\ \A k, l \in 1 .. Count' : suites'[k].name = suites'[l].name => k = l
  BY <1>1, <1>3, <1>4 DEF Registered
<1>7. \A k \in 1 .. Count' : \A n \in 1 .. Len(suites'[k].tests) : SuiteOf[suites'[k].tests[n]] = suites'[k].name
  BY <1>3, <1>4, <1>5
<1>8. \A k \in 1 .. Count' : \A m, n \in 1 .. Len(suites'[k].tests) :
        suites'[k].tests[m] = suites'[k].tests[n] => m = n
  BY <1>4, <1>5
<1> QED BY <1>4, <1>6, <1>7, <1>8 DEF Registered, Suite

(* A test that is the first of its suite. *)
LEMMA Founds ==
  ASSUME Registered, NEW t \in Tests, AddTestInfo(t), Position(SuiteOf[t]) = {}
  PROVE  Registered' /\ Count' = Count + 1
<1> DEFINE name == SuiteOf[t]
           new  == [name |-> name, tests |-> <<t>>]
<1>0. /\ suites \in Seq(Suite) /\ Count \in Nat /\ lastDeath \in 0 .. Count
      /\ \A k \in 1 .. Count : suites[k].name # name
  <2>1. suites \in Seq(Suite) /\ Count \in Nat /\ lastDeath \in 0 .. Count
    BY RegisteredSized DEF Registered, Suite, Sized
  <2>2. \A k \in 1 .. Count : suites[k].name # name
    BY DEF Position
  <2> QED BY <2>1, <2>2
<1>1. new \in Suite /\ new.name = name /\ new.tests = <<t>> /\ Len(new.tests) = 1 /\ new.tests[1] = t
  BY DEF Suite, Suites
<1> DEFINE d == IF name \in DeathSuites THEN lastDeath ELSE Count
<1>2. /\ suites' \in Seq(Suite) /\ Count' = Count + 1
      /\ \A k \in 1 .. Count + 1 :
           suites'[k] = IF k <= d THEN suites[k] ELSE IF k = d + 1 THEN new ELSE suites[k - 1]
      /\ lastDeath' = IF name \in DeathSuites THEN lastDeath + 1 ELSE lastDeath
  <2>1. CASE name \in DeathSuites
    <3>1. suites' = InsertAt(suites, lastDeath + 1, new) /\ lastDeath' = lastDeath + 1
      BY <2>1 DEF AddTestInfo
    <3> HIDE DEF new
    <3>2. /\ InsertAt(suites, lastDeath + 1, new) \in Seq(Suite)
          /\ Len(InsertAt(suites, lastDeath + 1, new)) = Len(suites) + 1
          /\ \A k \in 1 .. Len(suites) + 1 :
               InsertAt(suites, lastDeath + 1, new)[k] =
                 IF k <= lastDeath THEN suites[k] ELSE IF k = lastDeath + 1 THEN new ELSE suites[k - 1]
      <4>1. suites \in Seq(Suite) /\ new \in Suite /\ lastDeath \in 0 .. Len(suites)
        BY <1>0, <1>1 DEF Count
      <4> QED BY <4>1, Inserted
    <3> QED BY <2>1, <3>1, <3>2 DEF Count
  <2>2. CASE name \notin DeathSuites
    <3>1. suites' = Append(suites, new) /\ lastDeath' = lastDeath
      BY <2>2 DEF AddTestInfo
    <3> HIDE DEF new
    <3>2. /\ suites' \in Seq(Suite) /\ Len(suites') = Count + 1
          /\ \A k \in 1 .. Count : suites'[k] = suites[k]
          /\ suites'[Count + 1] = new
      BY <1>0, <1>1, <3>1, AppendProperties DEF Count
    <3>3. \A k \in 1 .. Count + 1 : k \in 1 .. Count \/ k = Count + 1
      BY <1>0
    <3>4. \A k \in 1 .. Count : k <= Count
      BY <1>0
    <3>5. \A k \in 1 .. Count + 1 :
            suites'[k] = IF k <= Count THEN suites[k] ELSE IF k = Count + 1 THEN new ELSE suites[k - 1]
      BY <1>0, <3>2, <3>3, <3>4
    <3> QED BY <2>2, <3>1, <3>2, <3>5 DEF Count
  <2> QED BY <2>1, <2>2
<1>3. d \in 0 .. Count
  BY <1>0
<1> HIDE DEF new, d
(* Where each suite was, or 0 *)
<1> DEFINE from(k) == IF k <= d THEN k ELSE IF k = d + 1 THEN 0 ELSE k - 1
<1>4. \A k \in 1 .. Count + 1 :
        /\ from(k) \in 0 .. Count
        /\ suites'[k] = IF from(k) = 0 THEN new ELSE suites[from(k)]
        /\ from(k) = 0 <=> k = d + 1
  BY <1>0, <1>2, <1>3
<1>5. \A k, l \in 1 .. Count + 1 : from(k) = from(l) => k = l
  BY <1>0, <1>3
<1>6. \A k \in 1 .. Count + 1 : \/ from(k) = 0 /\ suites'[k] = new
                                \/ from(k) \in 1 .. Count /\ suites'[k] = suites[from(k)]
  BY <1>0, <1>4
<1>7. lastDeath' \in 0 .. Count'
  BY <1>0, <1>2
<1>8. \A k \in 1 .. Count : suites[k].name \in DeathSuites <=> k <= lastDeath
  BY DEF Registered
<1>9. \A k \in 1 .. Count' : suites'[k].name \in DeathSuites <=> k <= lastDeath'
  <2> SUFFICES ASSUME NEW k \in 1 .. Count + 1
               PROVE  suites'[k].name \in DeathSuites <=> k <= lastDeath'
    BY <1>2
  <2>1. CASE k = d + 1
    <3>1. suites'[k].name = name
      BY <1>1, <1>4, <2>1
    <3> QED BY <1>0, <1>2, <2>1, <3>1 DEF d
  <2>2. CASE k # d + 1
    <3>1. from(k) \in 1 .. Count /\ suites'[k].name = suites[from(k)].name
      BY <1>4, <1>6, <2>2
    <3>2. suites'[k].name \in DeathSuites <=> from(k) <= lastDeath
      BY <1>8, <3>1
    <3>3. from(k) <= lastDeath <=> k <= lastDeath'
      BY <1>0, <1>2, <2>2, <1>3 DEF d
    <3> QED BY <3>2, <3>3
  <2> QED BY <2>1, <2>2
<1>10. \A k, l \in 1 .. Count : suites[k].name = suites[l].name => k = l
  BY DEF Registered
<1>11. \A k, l \in 1 .. Count' : suites'[k].name = suites'[l].name => k = l
  <2> HIDE DEF from
  <2> SUFFICES ASSUME NEW k \in 1 .. Count + 1, NEW l \in 1 .. Count + 1,
                      suites'[k].name = suites'[l].name
               PROVE  from(k) = from(l)
    BY <1>2, <1>5
  <2> QED BY <1>0, <1>1, <1>6, <1>10
<1>12. \A k \in 1 .. Count' : \A n \in 1 .. Len(suites'[k].tests) :
         SuiteOf[suites'[k].tests[n]] = suites'[k].name
  <2> HIDE DEF from
  <2> SUFFICES ASSUME NEW k \in 1 .. Count + 1, NEW n \in 1 .. Len(suites'[k].tests)
               PROVE  SuiteOf[suites'[k].tests[n]] = suites'[k].name
    BY <1>2
  <2>1. CASE from(k) = 0 /\ suites'[k] = new
    <3>1. suites'[k].tests = new.tests /\ Len(new.tests) = 1
      BY <1>1, <2>1
    <3>2. n \in 1 .. 1
      BY <3>1
    <3> QED BY <1>1, <2>1, <3>2
  <2>2. CASE from(k) \in 1 .. Count /\ suites'[k] = suites[from(k)]
    BY <2>2 DEF Registered
  <2> QED BY <1>6, <2>1, <2>2
<1>13. \A k \in 1 .. Count' : \A m, n \in 1 .. Len(suites'[k].tests) :
         suites'[k].tests[m] = suites'[k].tests[n] => m = n
  <2> HIDE DEF from
  <2> SUFFICES ASSUME NEW k \in 1 .. Count + 1, NEW m \in 1 .. Len(suites'[k].tests),
                      NEW n \in 1 .. Len(suites'[k].tests),
                      suites'[k].tests[m] = suites'[k].tests[n]
               PROVE  m = n
    BY <1>2
  <2>1. CASE from(k) = 0 /\ suites'[k] = new
    <3>1. suites'[k].tests = new.tests /\ Len(new.tests) = 1
      BY <1>1, <2>1
    <3>2. m \in 1 .. 1 /\ n \in 1 .. 1
      BY <3>1
    <3> QED BY <3>2
  <2>2. CASE from(k) \in 1 .. Count /\ suites'[k] = suites[from(k)]
    BY <2>2 DEF Registered
  <2> QED BY <1>6, <2>1, <2>2
<1> QED BY <1>2, <1>7, <1>9, <1>11, <1>12, <1>13 DEF Registered, Suite

--------------------------------------------------------------------------------
(* The invariant *)

Typed ==
  /\ phase \in {"registering", "iterating", "running", "over", "exited"}
  /\ matching \in Filters /\ alsoDisabled \in BOOLEAN /\ shuffle \in BOOLEAN
  /\ state \in State /\ randomSeed \in 0 .. MaxRandomSeed
  /\ phase \in {"iterating", "running", "over"} => randomSeed # 0
  /\ i \in 0 .. Repeat /\ (phase = "running" => i < Repeat)
  /\ \E S : orders \in Seq(S)

(* Outside of an iteration the order is that of registration. *)
InOrder ==
  /\ suiteIndices \in Orders(Count) /\ testIndices \in TestOrders
  /\ phase # "running" => suiteIndices = Identity(Count) /\ testIndices = Identities

(* What is selected is registered and may run. *)
Chosen ==
  IF phase \in {"registering", "exited"} THEN selected = {} /\ orders = <<>>
  ELSE Listed = Tests /\ \A t \in selected : t \in Tests /\ IsRunnable(t, matching)

AllSound == \A k \in 1 .. Len(orders) : Sound(orders[k].order, orders[k].visits)

IInv == Typed /\ Registered /\ InOrder /\ Chosen /\ AllSound /\ Reproducible /\ InSourceOrder

LEMMA Initially ==
  ASSUME Init
  PROVE  IInv
<1>1. Count = 0 /\ suites = <<>>
  BY DEF Init, Count
<1>2. Typed
  BY TestSelectionAssumption DEF Init, Typed, State
<1>3. Registered
  BY <1>1 DEF Init, Registered
<1>4. Identity(0) = <<>> /\ Identities = <<>>
  BY <1>1 DEF Identity, Identities
<1>5. InOrder
  <2>1. Identities \in TestOrders
    BY <1>1, IdentitiesOrder DEF Sized
  <2>2. Identity(0) \in Orders(0)
    BY IdentityOrders
  <2> QED BY <1>1, <1>4, <2>1, <2>2 DEF Init, InOrder
<1> QED BY <1>2, <1>3, <1>5 DEF Init, IInv, Chosen, AllSound, Reproducible, InSourceOrder

(* What an order is depends on the sorted registry and the selection only. *)
SameShape ==
  /\ Count' = Count /\ lastDeath' = lastDeath /\ selected' = selected /\ Listed' = Listed
  /\ \A k \in 1 .. Count : Len(suites'[k].tests) = Len(suites[k].tests)
  /\ Sorted(1 .. Count)' = Sorted(1 .. Count)

LEMMA Unsorted ==
  ASSUME suites' = suites, lastDeath' = lastDeath, selected' = selected
  PROVE  SameShape
<1>1. Count' = Count
  BY DEF Count
<1>2. Places' = Places
  BY <1>1 DEF Places
<1>3. Listed' = Listed
  BY <1>2 DEF Listed, At
<1> QED BY <1>1, <1>3 DEF SameShape, Sorted

LEMMA SameOrders ==
  ASSUME SameShape
  PROVE  /\ \A order, visits : Sound(order, visits)' <=> Sound(order, visits)
         /\ \A seed, visits : OrderOf(seed, visits)' = OrderOf(seed, visits)
         /\ Identities' = Identities /\ Count' = Count /\ TestOrders' = TestOrders
         /\ Listed' = Listed
<1>1. /\ Count' = Count /\ lastDeath' = lastDeath /\ selected' = selected /\ Listed' = Listed
      /\ Sorted(1 .. Count)' = Sorted(1 .. Count)
      /\ \A k \in 1 .. Count : Len(suites'[k].tests) = Len(suites[k].tests)
  BY DEF SameShape
<1>2. \A order, visits : Sound(order, visits)' <=> Sound(order, visits)
  BY <1>1 DEF Sound, HasTurn
<1>3. Identities' = Identities
  BY <1>1 DEF Identities
<1>4. TestOrders' = TestOrders
  BY <1>1 DEF TestOrders
<1>5. \A lists, suiteIdx, testIdx, visits :
        OrderBy(lists, suiteIdx, testIdx, visits)' = OrderBy(lists, suiteIdx, testIdx, visits)
  BY <1>1 DEF OrderBy, Redirected
<1>6. \A s, seq : ShuffleSuites(s, seq)' = ShuffleSuites(s, seq)
  BY <1>1 DEF ShuffleSuites
<1>7. \A s, testIdx : SuiteBySuite(s, testIdx)' = SuiteBySuite(s, testIdx)
  BY <1>1 DEF SuiteBySuite
<1>8. \A seed, visits : OrderOf(seed, visits)' = OrderOf(seed, visits)
  <2>1. \A seed, visits :
          OrderOf(seed, visits) =
            LET first == Shuffled(Reseed(seed), Identity(Count), Identities)
            IN  OrderBy(Sorted(1 .. Count), first[2], first[3], visits)
    BY DEF OrderOf, Identities
  <2>2. \A s, a, b : Shuffled(s, a, b)' = Shuffled(s, a, b)
    BY <1>1, <1>6, <1>7 DEF Shuffled
  <2> QED BY <1>1, <1>3, <1>5, <2>2 DEF OrderOf, Identities
<1> QED BY <1>1, <1>2, <1>3, <1>4, <1>8

LEMMA SameRegistered ==
  ASSUME Registered, suites' = suites, lastDeath' = lastDeath
  PROVE  Registered'
BY DEF Registered, Count

LEMMA ListedMeans ==
  /\ \A t : t \in Listed <=> \E k \in 1 .. Count : \E n \in 1 .. Len(suites[k].tests) : t = suites[k].tests[n]
  /\ \A t : t \in Listed' <=> \E k \in 1 .. Count' : \E n \in 1 .. Len(suites'[k].tests) : t = suites'[k].tests[n]
<1>1. \A p : p \in Places <=> \E k \in 1 .. Count : \E n \in 1 .. Len(suites[k].tests) : p = <<k, n>>
  BY DEF Places
<1>2. \A p : p \in Places' <=> \E k \in 1 .. Count' : \E n \in 1 .. Len(suites'[k].tests) : p = <<k, n>>
  BY DEF Places
<1>3. \A t : t \in Listed <=> \E p \in Places : t = suites[p[1]].tests[p[2]]
  BY DEF Listed, At
<1>4. \A t : t \in Listed' <=> \E p \in Places' : t = suites'[p[1]].tests[p[2]]
  BY DEF Listed, At
<1>5. \A t : t \in Listed <=> \E k \in 1 .. Count : \E n \in 1 .. Len(suites[k].tests) : t = suites[k].tests[n]
  <2>1. ASSUME NEW p \in Places PROVE \E k \in 1 .. Count : \E n \in 1 .. Len(suites[k].tests) :
               suites[p[1]].tests[p[2]] = suites[k].tests[n]
    <3>1. PICK k \in 1 .. Count : \E n \in 1 .. Len(suites[k].tests) : p = <<k, n>>
      BY <1>1
    <3>2. PICK n \in 1 .. Len(suites[k].tests) : p = <<k, n>>
      BY <3>1
    <3>3. p[1] = k /\ p[2] = n
      BY <3>2
    <3> QED BY <3>3
  <2>2. ASSUME NEW k \in 1 .. Count, NEW n \in 1 .. Len(suites[k].tests)
        PROVE  \E p \in Places : suites[k].tests[n] = suites[p[1]].tests[p[2]]
    <3>1. PICK p : p = <<k, n>>
      OBVIOUS
    <3>2. p \in Places /\ p[1] = k /\ p[2] = n
      BY <1>1, <3>1
    <3> QED BY <3>2
  <2>3. ASSUME NEW t \in Listed
        PROVE  \E k \in 1 .. Count : \E n \in 1 .. Len(suites[k].tests) : t = suites[k].tests[n]
    <3>1. PICK p \in Places : t = suites[p[1]].tests[p[2]]
      BY <1>3
    <3> QED BY <2>1, <3>1
  <2>4. ASSUME NEW k \in 1 .. Count, NEW n \in 1 .. Len(suites[k].tests)
        PROVE  suites[k].tests[n] \in Listed
    BY <1>3, <2>2
  <2> QED BY <2>3, <2>4
<1>6. \A t : t \in Listed' <=> \E k \in 1 .. Count' : \E n \in 1 .. Len(suites'[k].tests) : t = suites'[k].tests[n]
  <2>1. ASSUME NEW p \in Places' PROVE \E k \in 1 .. Count' : \E n \in 1 .. Len(suites'[k].tests) :
               suites'[p[1]].tests[p[2]] = suites'[k].tests[n]
    <3>1. PICK k \in 1 .. Count' : \E n \in 1 .. Len(suites'[k].tests) : p = <<k, n>>
      BY <1>2
    <3>2. PICK n \in 1 .. Len(suites'[k].tests) : p = <<k, n>>
      BY <3>1
    <3>3. p[1] = k /\ p[2] = n
      BY <3>2
    <3> QED BY <3>3
  <2>2. ASSUME NEW k \in 1 .. Count', NEW n \in 1 .. Len(suites'[k].tests)
        PROVE  \E p \in Places' : suites'[k].tests[n] = suites'[p[1]].tests[p[2]]
    <3>1. PICK p : p = <<k, n>>
      OBVIOUS
    <3>2. p \in Places' /\ p[1] = k /\ p[2] = n
      BY <1>2, <3>1
    <3> QED BY <3>2
  <2>3. ASSUME NEW t \in Listed'
        PROVE  \E k \in 1 .. Count' : \E n \in 1 .. Len(suites'[k].tests) : t = suites'[k].tests[n]
    <3>1. PICK p \in Places' : t = suites'[p[1]].tests[p[2]]
      BY <1>4
    <3> QED BY <2>1, <3>1
  <2>4. ASSUME NEW k \in 1 .. Count', NEW n \in 1 .. Len(suites'[k].tests)
        PROVE  suites'[k].tests[n] \in Listed'
    BY <1>4, <2>2
  <2> QED BY <2>3, <2>4
<1> QED BY <1>5, <1>6

(* Sorting the tests of some suites leaves all of them registered, each in its *)
(* suite.                                                                     *)
LEMMA SortKeeps ==
  ASSUME Registered, NEW running, lastDeath' = lastDeath, selected' = selected,
         suites' = [k \in 1 .. Count |-> [suites[k] EXCEPT !.tests = Sorted(running)[k]]]
  PROVE  Registered' /\ SameShape
<1> DEFINE L == Sorted(running)
           N == Count
<1>1. /\ N \in Nat
      /\ \A k \in 1 .. N : suites[k] \in [name : Suites, tests : Seq(Tests)] /\ Len(suites[k].tests) \in Nat
  BY RegisteredSized DEF Sized
<1>2. PICK perms \in TestOrders : Rearranges(L, perms)
  BY SortedRearranges
<1>3. \A k \in 1 .. N : L[k] \in Seq(Tests) /\ Len(L[k]) = Len(suites[k].tests)
  BY SortedRearranges
<1>4. \A k \in 1 .. N : L[k] = IF k \in running THEN StableSort(suites[k].tests) ELSE suites[k].tests
  BY DEF Sorted
<1> HIDE DEF L
<1>5. suites' = [k \in 1 .. N |-> [suites[k] EXCEPT !.tests = L[k]]]
  BY DEF L
<1> HIDE DEF N
<1>6. ASSUME NEW k \in 1 .. N
      PROVE  /\ suites'[k] \in [name : Suites, tests : Seq(Tests)]
             /\ suites'[k].name = suites[k].name /\ suites'[k].tests = L[k]
  BY <1>1, <1>3, <1>5
<1>7. suites' \in Seq([name : Suites, tests : Seq(Tests)]) /\ Count' = N
  <2>0. PICK S : S = [name : Suites, tests : Seq(Tests)]
    OBVIOUS
  <2>1. suites' \in [1 .. N -> S]
    BY <1>5, <1>6, <2>0
  <2>2. PICK f, n : f = suites' /\ n = N
    OBVIOUS
  <2>3. n \in Nat /\ f \in [1 .. n -> S]
    BY <1>1, <2>1, <2>2
  <2>4. f \in Seq(S) /\ Len(f) = n
    BY <2>3, SeqLen
  <2> QED BY <2>0, <2>2, <2>4 DEF Count
<1>8. ASSUME NEW k \in 1 .. N
      PROVE  LET n == Len(suites[k].tests) IN
             /\ \A a \in 1 .. n : L[k][a] = suites[k].tests[perms[k][a]] /\ perms[k][a] \in 1 .. n
             /\ \A a, b \in 1 .. n : perms[k][a] = perms[k][b] => a = b
             /\ \A c \in 1 .. n : \E a \in 1 .. n : perms[k][a] = c
  <2> DEFINE n == Len(suites[k].tests)
             f == perms[k]
  <2>1. n \in Nat /\ f \in Orders(n)
    BY <1>1 DEF TestOrders, N
  <2>2. \A a \in 1 .. n : L[k][a] = suites[k].tests[f[a]]
    BY <1>2 DEF Rearranges, N
  <2> HIDE DEF n, f
  <2>3. /\ f \in [1 .. n -> 1 .. n]
        /\ \A a, b \in 1 .. n : f[a] = f[b] => a = b
        /\ \A c \in 1 .. n : \E a \in 1 .. n : f[a] = c
    BY <2>1, OrdersMean
  <2> QED BY <2>2, <2>3 DEF n, f
<1>9. Registered'
  <2>1. /\ lastDeath \in 0 .. N
        /\ \A k \in 1 .. N : suites[k].name \in DeathSuites <=> k <= lastDeath
        /\ \A k, l \in 1 .. N : suites[k].name = suites[l].name => k = l
        /\ \A k \in 1 .. N : \A n \in 1 .. Len(suites[k].tests) :
             SuiteOf[suites[k].tests[n]] = suites[k].name
        /\ \A k \in 1 .. N : \A m, n \in 1 .. Len(suites[k].tests) :
             suites[k].tests[m] = suites[k].tests[n] => m = n
    BY DEF Registered, N
  <2>2. /\ \A k \in 1 .. N : suites'[k].name \in DeathSuites <=> k <= lastDeath
        /\ \A k, l \in 1 .. N : suites'[k].name = suites'[l].name => k = l
    BY <1>6, <2>1
  <2>3. ASSUME NEW k \in 1 .. N, NEW n \in 1 .. Len(suites'[k].tests)
        PROVE  SuiteOf[suites'[k].tests[n]] = suites'[k].name
    <3>1. n \in 1 .. Len(suites[k].tests) /\ suites'[k].tests[n] = L[k][n]
      BY <1>3, <1>6
    <3>2. L[k][n] = suites[k].tests[perms[k][n]] /\ perms[k][n] \in 1 .. Len(suites[k].tests)
      BY <1>8, <3>1
    <3>3. SuiteOf[L[k][n]] = suites[k].name
      BY <2>1, <3>2
    <3> QED BY <1>6, <3>1, <3>3
  <2>4. ASSUME NEW k \in 1 .. N, NEW m \in 1 .. Len(suites'[k].tests), NEW n \in 1 .. Len(suites'[k].tests),
               suites'[k].tests[m] = suites'[k].tests[n]
        PROVE  m = n
    <3>1. m \in 1 .. Len(suites[k].tests) /\ n \in 1 .. Len(suites[k].tests) /\ L[k][m] = L[k][n]
      BY <1>3, <1>6, <2>4
    <3>2. /\ suites[k].tests[perms[k][m]] = suites[k].tests[perms[k][n]]
          /\ perms[k][m] \in 1 .. Len(suites[k].tests) /\ perms[k][n] \in 1 .. Len(suites[k].tests)
      BY <1>8, <3>1
    <3>3. perms[k][m] = perms[k][n]
      BY <2>1, <3>2
    <3>4. \A a, b \in 1 .. Len(suites[k].tests) : perms[k][a] = perms[k][b] => a = b
      BY <1>8
    <3> QED BY <3>1, <3>3, <3>4
  <2> QED BY <1>7, <2>1, <2>2, <2>3, <2>4 DEF Registered
<1>10. Sorted(1 .. Count)' = Sorted(1 .. Count)
  <2>1. Sorted(1 .. Count) = [k \in 1 .. N |-> StableSort(suites[k].tests)]
    BY DEF Sorted, N
  <2>2. Sorted(1 .. Count)' = [k \in 1 .. N |-> StableSort(suites'[k].tests)]
    BY <1>7 DEF Sorted
  <2>3. ASSUME NEW k \in 1 .. N PROVE StableSort(suites'[k].tests) = StableSort(suites[k].tests)
    <3>1. StableSort(StableSort(suites[k].tests)) = StableSort(suites[k].tests)
      BY <1>1, SortTwice
    <3> QED BY <1>4, <1>6, <3>1
  <2> QED BY <2>1, <2>2, <2>3
<1>11. Listed' = Listed
  <2>1. \A t : t \in Listed <=> \E k \in 1 .. N : \E n \in 1 .. Len(suites[k].tests) : t = suites[k].tests[n]
    BY ListedMeans DEF N
  <2>2. \A t : t \in Listed' <=> \E k \in 1 .. N : \E n \in 1 .. Len(L[k]) : t = L[k][n]
    <3>1. \A t : t \in Listed' <=> \E k \in 1 .. N : \E n \in 1 .. Len(suites'[k].tests) : t = suites'[k].tests[n]
      <4>1. Count' = N
        BY <1>7
      <4> QED BY <4>1, ListedMeans
    <3>2. \A k \in 1 .. N : suites'[k].tests = L[k]
      BY <1>6
    <3> QED BY <3>1, <3>2
  <2>3. ASSUME NEW t, NEW k \in 1 .. N, NEW n \in 1 .. Len(suites[k].tests), t = suites[k].tests[n]
        PROVE  t \in Listed'
    <3>1. PICK a \in 1 .. Len(suites[k].tests) : perms[k][a] = n
      BY <1>8
    <3>2. t = L[k][a] /\ a \in 1 .. Len(L[k])
      BY <1>3, <1>8, <2>3, <3>1
    <3> QED BY <2>2, <3>2
  <2>4. ASSUME NEW t, NEW k \in 1 .. N, NEW n \in 1 .. Len(L[k]), t = L[k][n]
        PROVE  t \in Listed
    <3>1. n \in 1 .. Len(suites[k].tests)
      BY <1>3
    <3>2. t = suites[k].tests[perms[k][n]] /\ perms[k][n] \in 1 .. Len(suites[k].tests)
      BY <1>8, <2>4, <3>1
    <3> QED BY <2>1, <3>2
  <2>5. \A t : t \in Listed' <=> t \in Listed
    BY <2>1, <2>2, <2>3, <2>4
  <2> QED BY <2>5
<1>12. \A k \in 1 .. Count : Len(suites'[k].tests) = Len(suites[k].tests)
  BY <1>3, <1>6 DEF N
<1> QED BY <1>7, <1>9, <1>10, <1>11, <1>12 DEF SameShape, N

(* The lists that count are those of the suites that run, which are sorted. *)
LEMMA RunEnough ==
  ASSUME Registered, NEW suiteIdx \in Orders(Count), NEW testIdx \in TestOrders, NEW visits \in 0 .. Count
  PROVE  LET lists == Sorted(Run(suiteIdx, visits)) IN
         /\ OrderBy(lists, suiteIdx, testIdx, visits) = OrderBy(Sorted(1 .. Count), suiteIdx, testIdx, visits)
         /\ \A k \in 1 .. visits : \A a \in 1 .. Len(suites[suiteIdx[k]].tests) :
              lists[suiteIdx[k]][a] \in selected => lists[suiteIdx[k]] = StableSort(suites[suiteIdx[k]].tests)
<1> DEFINE lists == Sorted(Run(suiteIdx, visits))
           all == Sorted(1 .. Count)
           V == UNION {{k} \X (1 .. Len(testIdx[suiteIdx[k]])) : k \in 1 .. visits}
           one(p) == lists[suiteIdx[p[1]]][testIdx[suiteIdx[p[1]]][p[2]]]
           other(p) == all[suiteIdx[p[1]]][testIdx[suiteIdx[p[1]]][p[2]]]
<1>0. Count \in Nat /\ \A k \in 1 .. Count : Len(suites[k].tests) \in Nat
  BY RegisteredSized DEF Sized
<1>1. \A k \in 1 .. visits : suiteIdx[k] \in 1 .. Count
  <2>1. PICK n \in Nat : n = Count
    BY <1>0
  <2>2. suiteIdx \in [1 .. n -> 1 .. n]
    BY <2>1, OrdersMean
  <2> QED BY <1>0, <2>1, <2>2
<1>2. PICK p1 \in TestOrders : Rearranges(lists, p1)
  BY SortedRearranges
<1>3. PICK p2 \in TestOrders : Rearranges(all, p2)
  BY SortedRearranges
<1>4. ASSUME NEW l \in 1 .. Count, NEW a \in 1 .. Len(suites[l].tests)
      PROVE  /\ testIdx[l][a] \in 1 .. Len(suites[l].tests) /\ Len(testIdx[l]) = Len(suites[l].tests)
             /\ p1[l][a] \in 1 .. Len(suites[l].tests) /\ p2[l][a] \in 1 .. Len(suites[l].tests)
  <2>1. PICK n \in Nat : n = Len(suites[l].tests)
    BY <1>0
  <2>2. testIdx[l] \in Orders(n) /\ p1[l] \in Orders(n) /\ p2[l] \in Orders(n)
    BY <2>1 DEF TestOrders
  <2>3. Len(testIdx[l]) = n
    BY <2>2, OrdersLen
  <2>4. testIdx[l] \in [1 .. n -> 1 .. n] /\ p1[l] \in [1 .. n -> 1 .. n] /\ p2[l] \in [1 .. n -> 1 .. n]
    BY <2>2, OrdersMean
  <2> QED BY <2>1, <2>3, <2>4
<1>5. ASSUME NEW l \in 1 .. Count
      PROVE  /\ lists[l] = IF l \in Run(suiteIdx, visits) THEN StableSort(suites[l].tests) ELSE suites[l].tests
             /\ all[l] = StableSort(suites[l].tests)
  BY DEF Sorted
<1> HIDE DEF lists, all
<1>6. ASSUME NEW k \in 1 .. visits, suiteIdx[k] \notin Run(suiteIdx, visits),
             NEW a \in 1 .. Len(suites[suiteIdx[k]].tests)
      PROVE  lists[suiteIdx[k]][a] \notin selected /\ all[suiteIdx[k]][a] \notin selected
  <2>1. \A n \in 1 .. Len(suites[suiteIdx[k]].tests) : suites[suiteIdx[k]].tests[n] \notin selected
    BY <1>6 DEF Run, ShouldRun
  <2>2. suiteIdx[k] \in 1 .. Count
    BY <1>1
  <2> QED BY <1>2, <1>3, <1>4, <2>1, <2>2 DEF Rearranges
<1>7. ASSUME NEW k \in 1 .. visits, NEW a \in 1 .. Len(suites[suiteIdx[k]].tests)
      PROVE  \/ lists[suiteIdx[k]] = StableSort(suites[suiteIdx[k]].tests) /\ all[suiteIdx[k]] = lists[suiteIdx[k]]
             \/ lists[suiteIdx[k]][a] \notin selected /\ all[suiteIdx[k]][a] \notin selected
  BY <1>1, <1>5, <1>6
<1>8. ASSUME NEW p \in V
      PROVE  one(p) = other(p) \/ (one(p) \notin selected /\ other(p) \notin selected)
  <2>1. PICK k \in 1 .. visits : \E b \in 1 .. Len(testIdx[suiteIdx[k]]) : p = <<k, b>>
    OBVIOUS
  <2>2. PICK b \in 1 .. Len(testIdx[suiteIdx[k]]) : p = <<k, b>>
    BY <2>1
  <2>3. suiteIdx[k] \in 1 .. Count
    BY <1>1
  <2>4. Len(testIdx[suiteIdx[k]]) = Len(suites[suiteIdx[k]].tests)
    <3>1. PICK l : l = suiteIdx[k]
      OBVIOUS
    <3>2. PICK n \in Nat : n = Len(suites[l].tests)
      BY <1>0, <2>3, <3>1
    <3>3. testIdx[l] \in Orders(n)
      BY <2>3, <3>1, <3>2 DEF TestOrders
    <3>4. Len(testIdx[l]) = n
      BY <3>3, OrdersLen
    <3> QED BY <3>1, <3>2, <3>4
  <2>5. testIdx[suiteIdx[k]][b] \in 1 .. Len(suites[suiteIdx[k]].tests)
    BY <1>4, <2>3, <2>4
  <2>6. p[1] = k /\ p[2] = b
    BY <2>2
  <2>7. PICK a \in 1 .. Len(suites[suiteIdx[k]].tests) : a = testIdx[suiteIdx[p[1]]][p[2]]
    BY <2>5, <2>6
  <2>8. one(p) = lists[suiteIdx[k]][a] /\ other(p) = all[suiteIdx[k]][a]
    BY <2>6, <2>7
  <2> HIDE DEF one, other
  <2> QED BY <1>7, <2>8
<1>9. /\ OrderBy(lists, suiteIdx, testIdx, visits) = [p \in {q \in V : one(q) \in selected} |-> one(p)]
      /\ OrderBy(all, suiteIdx, testIdx, visits) = [p \in {q \in V : other(q) \in selected} |-> other(p)]
  BY DEF OrderBy, Redirected
<1> HIDE DEF one, other, V
<1>10. {q \in V : one(q) \in selected} = {q \in V : other(q) \in selected}
  BY <1>8
<1>11. OrderBy(lists, suiteIdx, testIdx, visits) = OrderBy(all, suiteIdx, testIdx, visits)
  BY <1>8, <1>9, <1>10
<1> QED BY <1>7, <1>11 DEF lists, all

(* Also after a step. *)
LEMMA Ordered == Registered => Identities \in TestOrders
BY RegisteredSized, IdentitiesOrder

LEMMA OrderedThen == Registered' => Identities' \in TestOrders'
<1>1. (Registered => Identities \in TestOrders)'
  BY Ordered, PTL
<1> QED BY <1>1

LEMMA AddKeeps ==
  ASSUME IInv, NEW t \in Tests, AddTestInfo(t)
  PROVE  IInv'
<1>1. Registered' /\ Count' = (IF Position(SuiteOf[t]) # {} THEN Count ELSE Count + 1)
  BY Joins, Founds DEF IInv
<1>2. Count \in Nat /\ suiteIndices = Identity(Count) /\ phase = "registering"
  BY RegisteredSized DEF IInv, InOrder, Sized, AddTestInfo
<1>3. suiteIndices' = Identity(Count') /\ Count' \in Nat
  <2>1. CASE Position(SuiteOf[t]) # {}
    BY <1>1, <1>2, <2>1 DEF AddTestInfo
  <2>2. CASE Position(SuiteOf[t]) = {}
    <3>1. suiteIndices' = Append(suiteIndices, Count + 1) /\ Count' = Count + 1
      BY <1>1, <2>2 DEF AddTestInfo
    <3>2. PICK n \in Nat : n = Count
      BY <1>2
    <3>3. Append(Identity(n), n + 1) = Identity(n + 1)
      BY IdentityGrows
    <3> QED BY <1>2, <3>1, <3>2, <3>3
  <2> QED BY <2>1, <2>2
<1>4. testIndices' = Identities'
  BY DEF AddTestInfo, Identities, Count
<1>5. InOrder'
  <2>2. Identities' \in TestOrders'
    BY <1>1, OrderedThen
  <2>3. PICK n \in Nat : n = Count'
    BY <1>3
  <2>4. Identity(n) \in Orders(n)
    BY IdentityOrders
  <2> QED BY <1>3, <1>4, <2>2, <2>3, <2>4 DEF InOrder
<1>6. Typed'
  BY <1>2 DEF IInv, Typed, AddTestInfo, flags
<1>7. Chosen' /\ orders' = <<>>
  BY <1>2 DEF IInv, Chosen, AddTestInfo
<1>8. AllSound' /\ Reproducible' /\ InSourceOrder'
  BY <1>7 DEF AllSound, Reproducible, InSourceOrder
<1> QED BY <1>1, <1>5, <1>6, <1>7, <1>8 DEF IInv

(* The seed is one that may be typed. *)
LEMMA Seeded ==
  ASSUME NEW raw \in Seeds
  PROVE  GetRandomSeedFromFlag(raw) \in 1 .. MaxRandomSeed
<1>1. raw - 1 \in Int /\ Word \in Nat \ {0} /\ MaxRandomSeed \in Nat \ {0}
  BY TestSelectionAssumption
<1>2. (raw - 1) % Word \in Nat
  BY <1>1
<1> DEFINE s == (raw - 1) % Word
<1> HIDE DEF s
<1>3. s % MaxRandomSeed \in 0 .. MaxRandomSeed - 1
  BY <1>1, <1>2 DEF s
<1> QED BY <1>1, <1>3 DEF GetRandomSeedFromFlag, s

LEMMA StartKeeps ==
  ASSUME IInv, NEW env \in Environments, NEW raw \in Seeds, Start(env, raw)
  PROVE  IInv'
<1>1. /\ suites' = suites /\ lastDeath' = lastDeath
      /\ phase = "registering" /\ Listed = Tests /\ orders = <<>> /\ orders' = orders
  BY DEF Start, registry, IInv, Chosen
<1>2. Registered'
  BY <1>1, SameRegistered DEF IInv
<1>3. Count' = Count /\ Identities' = Identities /\ TestOrders' = TestOrders /\ Listed' = Listed
  <2>1. Count' = Count
    BY <1>1 DEF Count
  <2>2. Places' = Places
    BY <1>1, <2>1 DEF Places
  <2> QED BY <1>1, <2>1, <2>2 DEF Identities, TestOrders, Listed, At
<1>4. InOrder'
  BY <1>1, <1>3 DEF InOrder, IInv, Start, indices
<1>5. Typed'
  <2>1. GetRandomSeedFromFlag(raw) \in 1 .. MaxRandomSeed
    BY Seeded
  <2>2. /\ matching' = matching /\ alsoDisabled' = alsoDisabled /\ shuffle' = shuffle
        /\ state' = state /\ i' = i /\ orders' = orders
    BY DEF Start, flags
  <2>3. \/ phase' = "iterating" /\ randomSeed' \in 1 .. MaxRandomSeed
        \/ phase' = "exited" /\ randomSeed' = randomSeed
    BY <2>1 DEF Start
  <2>4. randomSeed' \in 0 .. MaxRandomSeed /\ (phase' = "iterating" => randomSeed' # 0)
    BY <2>3, TestSelectionAssumption DEF IInv, Typed
  <2> QED BY <2>2, <2>3, <2>4 DEF IInv, Typed
<1>6. Chosen'
  <2>1. CASE Consistent(env)
    <3>1. /\ phase' = "iterating" /\ selected' = FilterTests(matching, env, FALSE)
          /\ matching' = matching /\ alsoDisabled' = alsoDisabled
      BY <2>1 DEF Start, flags
    <3>2. \A t \in selected' : t \in Listed /\ IsRunnable(t, matching)
      BY <3>1 DEF FilterTests, Listed
    <3> QED BY <1>1, <1>3, <3>1, <3>2 DEF Chosen, IsRunnable
  <2>2. CASE ~ Consistent(env)
    BY <1>1, <2>2 DEF Start, Chosen, IInv
  <2> QED BY <2>1, <2>2
<1>7. AllSound' /\ Reproducible' /\ InSourceOrder'
  BY <1>1 DEF AllSound, Reproducible, InSourceOrder
<1> QED BY <1>2, <1>4, <1>5, <1>6, <1>7 DEF IInv

LEMMA IterateKeeps ==
  ASSUME IInv, NEW visits \in 0 .. Count, Iterate(visits)
  PROVE  IInv'
<1>1. /\ lastDeath' = lastDeath /\ selected' = selected
      /\ matching' = matching /\ alsoDisabled' = alsoDisabled /\ shuffle' = shuffle
      /\ randomSeed' = randomSeed /\ i' = i /\ phase = "iterating" /\ phase' = "running" /\ i < Repeat
  BY DEF Iterate, flags
<1>0. PICK si, ti : si = suiteIndices' /\ ti = testIndices'
  OBVIOUS
<1> DEFINE lists == Sorted(Run(si, visits))
           order == OrderBy(lists, si, ti, visits)
           new == [seed |-> randomSeed, visits |-> visits, order |-> order]
<1>2. /\ suites' = [k \in 1 .. Count |-> [suites[k] EXCEPT !.tests = lists[k]]]
      /\ orders' = Append(orders, new)
  BY <1>0 DEF Iterate
<1>3. Registered /\ Registered' /\ SameShape
  BY <1>1, <1>2, SortKeeps DEF IInv
<1>4. /\ \A o, v : Sound(o, v)' <=> Sound(o, v)
      /\ \A seed, v : OrderOf(seed, v)' = OrderOf(seed, v)
      /\ Count' = Count /\ TestOrders' = TestOrders /\ Listed' = Listed
  BY <1>3, SameOrders
<1>5. Sized /\ lastDeath \in 0 .. Count /\ Count \in Nat
  BY <1>3, RegisteredSized DEF Registered, Sized
<1>6. suiteIndices = Identity(Count) /\ testIndices = Identities
  BY <1>1 DEF IInv, InOrder
<1>7. randomSeed \in State /\ Reseed(randomSeed) = randomSeed
  BY TestSelectionAssumption DEF IInv, Typed, State, Reseed
<1> DEFINE all == Shuffled(Reseed(randomSeed), Identity(Count), Identities)
<1>8. /\ all[1] \in State /\ all[2] \in Orders(Count) /\ Blocks(all[2]) /\ all[3] \in TestOrders
  BY <1>5, <1>7, ShuffledOrders
<1>9. OrderOf(randomSeed, visits) = OrderBy(Sorted(1 .. Count), all[2], all[3], visits)
  BY DEF OrderOf, Identities
<1> HIDE DEF all
<1>10. /\ state' \in State /\ si \in Orders(Count) /\ Blocks(si) /\ ti \in TestOrders
  <2>1. CASE shuffle /\ selected # {}
    BY <1>0, <1>6, <1>8, <2>1 DEF Iterate, all
  <2>2. CASE ~ (shuffle /\ selected # {})
    <3>1. UNCHANGED <<state, suiteIndices, testIndices>>
      BY <2>2 DEF Iterate, indices
    <3>2. \A k \in 1 .. Count : suiteIndices[k] = k
      BY <1>5, <1>6, IdentityOrders
    <3>3. Blocks(suiteIndices)
      BY <3>2 DEF Blocks
    <3>4. suiteIndices \in Orders(Count) /\ testIndices \in TestOrders /\ state \in State
      BY DEF IInv, InOrder, Typed
    <3> QED BY <1>0, <3>1, <3>3, <3>4
  <2> QED BY <2>1, <2>2
<1>11. /\ order = OrderBy(Sorted(1 .. Count), si, ti, visits)
       /\ \A k \in 1 .. visits : \A a \in 1 .. Len(suites[si[k]].tests) :
            lists[si[k]][a] \in selected => lists[si[k]] = StableSort(suites[si[k]].tests)
  BY <1>3, <1>10, RunEnough
<1>12. Sound(order, visits)
  <2>1. selected \subseteq Listed
    BY <1>1 DEF IInv, Chosen
  <2>2. PICK perms \in TestOrders : Rearranges(lists, perms)
    BY <1>3, SortedRearranges
  <2> HIDE DEF lists
  <2> QED BY <1>3, <1>10, <2>1, <2>2, PermutedSound
<1>13. shuffle => order = OrderOf(randomSeed, visits)
  <2>1. CASE selected # {}
    <3>1. shuffle => si = all[2] /\ ti = all[3]
      BY <1>0, <1>6, <2>1 DEF Iterate, all
    <3> HIDE DEF order
    <3> QED BY <1>9, <1>11, <3>1
  <2>2. CASE selected = {}
    <3>1. \A l, a, b : OrderBy(l, a, b, visits) = [p \in {} |-> p]
      BY <2>2 DEF OrderBy
    <3> QED BY <1>9, <3>1
  <2> QED BY <2>1, <2>2
<1>14. ASSUME ~ shuffle, NEW p \in DOMAIN order, NEW q \in DOMAIN order, p[1] = q[1], p[2] < q[2]
       PROVE  Location[order[p]] <= Location[order[q]]
  <2>1. si = Identity(Count) /\ ti = Identities
    BY <1>0, <1>6, <1>14 DEF Iterate, indices
  <2>2. ASSUME NEW r \in DOMAIN order
        PROVE  /\ r[1] \in 1 .. visits /\ r[1] \in 1 .. Count /\ r[2] \in 1 .. Len(suites[r[1]].tests)
               /\ order[r] = StableSort(suites[r[1]].tests)[r[2]]
    <3>1. PICK k \in 1 .. visits : \E a \in 1 .. Len(ti[si[k]]) : r = <<k, a>>
      BY DEF OrderBy
    <3>2. PICK a \in 1 .. Len(ti[si[k]]) : r = <<k, a>>
      BY <3>1
    <3>3. k \in 1 .. Count /\ si[k] = k
      BY <1>5, <2>1, IdentityOrders
    <3>4. PICK n \in Nat : n = Len(suites[k].tests)
      BY <1>5, <3>3 DEF Sized
    <3>5. ti[k] = Identity(n) /\ Identity(n) \in Orders(n)
      BY <2>1, <3>3, <3>4, IdentityOrders DEF Identities
    <3>6. Len(ti[k]) = n
      BY <3>4, <3>5, OrdersLen
    <3>7. a \in 1 .. n /\ ti[k][a] = a
      BY <3>2, <3>3, <3>4, <3>5, <3>6, IdentityOrders
    <3>8. order[r] = lists[si[r[1]]][ti[si[r[1]]][r[2]]] /\ order[r] \in selected
      BY DEF OrderBy, Redirected
    <3>9. r[1] = k /\ r[2] = a
      BY <3>2
    <3> HIDE DEF lists, order
    <3>10. order[r] = lists[k][a] /\ lists[k][a] \in selected
      BY <3>3, <3>7, <3>8, <3>9
    <3>11. lists[k] = StableSort(suites[k].tests)
      BY <1>11, <3>3, <3>4, <3>7, <3>10
    <3> QED BY <3>3, <3>4, <3>7, <3>9, <3>10, <3>11
  <2> HIDE DEF order
  <2>3. PICK list : list = suites[p[1]].tests
    OBVIOUS
  <2>4. list \in Seq(Tests)
    BY <1>3, <2>2, <2>3, RegisteredSized
  <2>5. /\ p[2] \in 1 .. Len(list) /\ q[2] \in 1 .. Len(list)
        /\ order[p] = StableSort(list)[p[2]] /\ order[q] = StableSort(list)[q[2]]
    BY <1>14, <2>2, <2>3
  <2> QED BY <1>14, <2>4, <2>5, SortTwice
<1>15. PICK S : orders \in Seq(S)
  BY DEF IInv, Typed
<1>16. PICK x : x = new
  OBVIOUS
<1>17. /\ orders' \in Seq(S \union {x}) /\ Len(orders) \in Nat /\ Len(orders') = Len(orders) + 1
       /\ \A k \in 1 .. Len(orders) : orders'[k] = orders[k]
       /\ orders'[Len(orders) + 1] = x
  <2>1. orders \in Seq(S \union {x}) /\ x \in S \union {x}
    BY <1>15, SeqMonotonic
  <2> HIDE DEF new
  <2> QED BY <1>2, <1>16, <2>1, AppendProperties, LenProperties
<1>18. \A k \in 1 .. Len(orders') : k \in 1 .. Len(orders) \/ k = Len(orders) + 1
  BY <1>17
<1>19. x.seed = randomSeed /\ x.order = order /\ x.visits = visits
  BY <1>16
<1> HIDE DEF new, order, lists
<1>20. AllSound'
  <2>1. \A k \in 1 .. Len(orders') : Sound(orders'[k].order, orders'[k].visits)
    BY <1>12, <1>17, <1>18, <1>19 DEF IInv, AllSound
  <2>2. \A k \in 1 .. Len(orders') : Sound(orders[k].order, orders[k].visits)'
    <3> TAKE k \in 1 .. Len(orders')
    <3>1. PICK y, v : y = orders'[k].order /\ v = orders'[k].visits
      OBVIOUS
    <3>2. Sound(y, v)'
      BY <1>4, <2>1, <3>1
    <3> QED BY <3>1, <3>2
  <2> QED BY <2>2 DEF AllSound
<1>21. Reproducible'
  <2>1. \A k \in 1 .. Len(orders') : shuffle => orders'[k].order = OrderOf(orders'[k].seed, orders'[k].visits)
    BY <1>13, <1>17, <1>18, <1>19 DEF IInv, Reproducible
  <2>2. \A k \in 1 .. Len(orders') :
          shuffle' => orders'[k].order = OrderOf(orders[k].seed, orders[k].visits)'
    <3> TAKE k \in 1 .. Len(orders')
    <3>1. PICK y, v : y = orders'[k].seed /\ v = orders'[k].visits
      OBVIOUS
    <3>2. shuffle => orders'[k].order = OrderOf(y, v)
      BY <2>1, <3>1
    <3>3. OrderOf(y, v)' = OrderOf(y, v)
      BY <1>4
    <3> QED BY <1>1, <3>1, <3>2, <3>3
  <2> QED BY <2>2 DEF Reproducible
<1>22. InSourceOrder'
  <2>1. ASSUME ~ shuffle, NEW k \in 1 .. Len(orders')
        PROVE  \A p, q \in DOMAIN orders'[k].order :
                 p[1] = q[1] /\ p[2] < q[2] => Location[orders'[k].order[p]] <= Location[orders'[k].order[q]]
    <3>1. CASE k \in 1 .. Len(orders)
      BY <1>17, <2>1, <3>1 DEF IInv, InSourceOrder
    <3>2. CASE k = Len(orders) + 1
      BY <1>14, <1>17, <1>19, <2>1, <3>2
    <3> QED BY <1>18, <3>1, <3>2
  <2> QED BY <1>1, <2>1 DEF InSourceOrder
<1>23. Typed'
  BY <1>1, <1>10, <1>17 DEF IInv, Typed
<1>24. InOrder'
  BY <1>0, <1>1, <1>4, <1>10 DEF InOrder
<1>25. Chosen'
  BY <1>1, <1>4 DEF IInv, Chosen, IsRunnable
<1> QED BY <1>3, <1>20, <1>21, <1>22, <1>23, <1>24, <1>25 DEF IInv

LEMMA EndKeeps ==
  ASSUME IInv, EndIteration
  PROVE  IInv'
<1>1. /\ suites' = suites /\ lastDeath' = lastDeath /\ selected' = selected
      /\ matching' = matching /\ alsoDisabled' = alsoDisabled /\ shuffle' = shuffle
      /\ orders' = orders /\ state' = state
      /\ phase = "running" /\ phase' \in {"iterating", "over"} /\ i' = i + 1
  BY DEF EndIteration, registry, flags
<1>2. Registered' /\ Registered
  BY <1>1, SameRegistered DEF IInv
<1>3. /\ \A o, v : Sound(o, v)' <=> Sound(o, v)
      /\ \A seed, v : OrderOf(seed, v)' = OrderOf(seed, v)
      /\ Count' = Count /\ TestOrders' = TestOrders /\ Listed' = Listed /\ Identities' = Identities
  BY <1>1, Unsorted, SameOrders
<1>4. Sized /\ Count \in Nat
  BY <1>2, RegisteredSized DEF Sized
<1>5. suiteIndices' = Identity(Count) /\ testIndices' = Identities
  <2>1. \A k \in 1 .. Count : Len(testIndices[k]) = Len(suites[k].tests)
    BY <1>4, OrdersLen DEF IInv, InOrder, TestOrders, Sized
  <2> QED BY <2>1 DEF EndIteration, UnshuffleTests, Identities
<1>6. InOrder'
  <2>1. Identity(Count) \in Orders(Count) /\ Identities \in TestOrders
    BY <1>4, IdentityOrders, IdentitiesOrder
  <2> QED BY <1>3, <1>5, <2>1 DEF InOrder
<1>7. Typed'
  <2>1. randomSeed' \in 1 .. MaxRandomSeed
    BY <1>1, TestSelectionAssumption DEF IInv, Typed, EndIteration, GetNextRandomSeed
  <2>2. i' \in 0 .. Repeat
    BY <1>1, TestSelectionAssumption DEF IInv, Typed
  <2> QED BY <1>1, <2>1, <2>2 DEF IInv, Typed
<1>8. Chosen'
  BY <1>1, <1>3 DEF IInv, Chosen, IsRunnable
<1>9. AllSound'
  BY <1>1, <1>3 DEF IInv, AllSound
<1>10. Reproducible' /\ InSourceOrder'
  BY <1>1, <1>3 DEF IInv, Reproducible, InSourceOrder
<1> QED BY <1>2, <1>6, <1>7, <1>8, <1>9, <1>10 DEF IInv

LEMMA NextKeeps ==
  ASSUME IInv, [Next]_vars
  PROVE  IInv'
<1>1. ASSUME NEW t \in Tests, AddTestInfo(t) PROVE IInv'
  BY <1>1, AddKeeps
<1>2. ASSUME NEW env \in Environments, NEW raw \in Seeds, Start(env, raw) PROVE IInv'
  BY <1>2, StartKeeps
<1>3. ASSUME NEW visits \in 0 .. Count, Iterate(visits) PROVE IInv'
  BY <1>3, IterateKeeps
<1>4. CASE EndIteration
  BY <1>4, EndKeeps
<1>5. CASE UNCHANGED vars
  <2>1. /\ suites' = suites /\ lastDeath' = lastDeath /\ selected' = selected
        /\ matching' = matching /\ alsoDisabled' = alsoDisabled /\ shuffle' = shuffle
        /\ orders' = orders /\ state' = state /\ phase' = phase /\ i' = i
        /\ randomSeed' = randomSeed /\ suiteIndices' = suiteIndices /\ testIndices' = testIndices
    BY <1>5 DEF vars, registry, flags, indices
  <2>2. /\ \A o, v : Sound(o, v)' <=> Sound(o, v)
        /\ \A seed, v : OrderOf(seed, v)' = OrderOf(seed, v)
        /\ Count' = Count /\ TestOrders' = TestOrders /\ Listed' = Listed /\ Identities' = Identities
    BY <2>1, Unsorted, SameOrders
  <2>3. Registered'
    BY <2>1, SameRegistered DEF IInv
  <2>4. Typed' /\ InOrder' /\ Chosen'
    BY <2>1, <2>2 DEF IInv, Typed, InOrder, Chosen, IsRunnable
  <2>5. AllSound' /\ Reproducible' /\ InSourceOrder'
    BY <2>1, <2>2 DEF IInv, AllSound, Reproducible, InSourceOrder
  <2> QED BY <2>3, <2>4, <2>5 DEF IInv
<1> QED BY <1>1, <1>2, <1>3, <1>4, <1>5 DEF Next

(* The registry lists each test once, death test suites first, also once      *)
(* suites have sorted their tests, and all orders made so far are sound and    *)
(* those of their seeds or of the source (UnitTestImpl::AddTestInfo,          *)
(* FilterTests, ShuffleTests, UnshuffleTests, TestSuite::Run).               *)
THEOREM Invariant == Spec => []IInv
<1>1. Init => IInv
  BY Initially
<1>2. IInv /\ [Next]_vars => IInv'
  BY NextKeeps
<1> QED BY <1>1, <1>2, PTL DEF Spec

LEMMA InvariantTyped == IInv => TypeOK
<1> SUFFICES ASSUME IInv PROVE TypeOK
  OBVIOUS
<1>1. Count \in Nat /\ testIndices \in TestOrders
  BY RegisteredSized DEF IInv, InOrder, Sized
<1>2. Len(testIndices) = Count
  <2>1. testIndices \in [1 .. Count -> Seq(Nat)]
    BY <1>1 DEF TestOrders
  <2> QED BY <1>1, <2>1, SeqLen
<1>3. selected \subseteq Tests
  BY DEF IInv, Chosen
<1> QED BY <1>1, <1>2, <1>3 DEF TypeOK, IInv, Typed, Registered, InOrder, TestOrders, State

LEMMA InvariantFinds == IInv => ChildFindsItsTest
<1> SUFFICES ASSUME IInv, phase = "iterating", NEW t \in selected, NEW env \in Environments
             PROVE  FilterTests({t}, env, TRUE) = {t}
  BY DEF ChildFindsItsTest
<1>1. t \in Listed /\ IsRunnable(t, {t})
  BY DEF IInv, Chosen, IsRunnable
<1>2. FilterTests({t}, env, TRUE) = {At(p) : p \in {q \in Places : IsRunnable(At(q), {t})}}
  BY DEF FilterTests, ShouldShard
<1>3. \A q \in Places : IsRunnable(At(q), {t}) <=> At(q) = t
  BY <1>1 DEF IsRunnable
<1> QED BY <1>1, <1>2, <1>3 DEF Listed

(* Each test that may run is on exactly one shard, no shard has two tests more  *)
(* than another, and the child of a death test has its test, for any number of *)
(* tests, suites and shards (FilterTests, ShouldRunTestOnShard, ShouldShard).  *)
THEOREM Selection == Spec => []SelectionSound
<1>1. IInv => ShardsPartition
  BY Partition DEF IInv, Chosen
<1>2. IInv => SelectionSound
  BY <1>1, InvariantTyped, InvariantFinds DEF SelectionSound
<1> QED BY <1>2, Invariant, PTL

(* Every iteration gives each selected test of the suites it gets to its turn  *)
(* once, death tests first and suites whole, in an order that the seed alone   *)
(* decides, whatever was shuffled, run or sorted before, and that of the source *)
(* when nothing is shuffled (ShuffleTests, UnshuffleTests, TestSuite::Run).   *)
THEOREM Orderly == Spec => []OrdersRepeat
<1>1. IInv => OrderSound
  BY DEF IInv, AllSound, OrderSound, Sound, HasTurn
<1>2. IInv => Reproducible /\ InSourceOrder
  BY DEF IInv
<1>3. IInv => OrdersRepeat
  BY <1>1, <1>2 DEF OrdersRepeat
<1> QED BY <1>3, Invariant, PTL

--------------------------------------------------------------------------------
(* Sequences of tests and their reasons *)

(* Every place of a sequence has a reason of its own, and every reason a     *)
(* place: reasons are pairs, with what they are for.                         *)
GivesReasons(seq, reasons, b) ==
  /\ b \in [DOMAIN seq -> reasons]
  /\ \A n \in DOMAIN seq : b[n][2] = seq[n]
  /\ \A m, n \in DOMAIN seq : b[m] = b[n] => m = n
  /\ \A r \in reasons : \E n \in DOMAIN seq : b[n] = r
Accounts(seq, reasons) == \E b : GivesReasons(seq, reasons, b)

(* Sequences of whatever *)
LEMMA SeqDomain ==
  ASSUME NEW s, IsSeq(s)
  PROVE  Len(s) \in Nat /\ DOMAIN s = 1 .. Len(s) /\ s = [n \in 1 .. Len(s) |-> s[n]]
BY LenProperties DEF IsSeq

LEMMA FunctionIsSeq ==
  ASSUME NEW n \in Nat, NEW s, s = [k \in 1 .. n |-> s[k]]
  PROVE  IsSeq(s) /\ Len(s) = n /\ DOMAIN s = 1 .. n
<1>1. DOMAIN s = 1 .. n
  OBVIOUS
<1>2. s \in [1 .. n -> Range(s)]
  BY <1>1 DEF Range
<1>3. s \in Seq(Range(s))
  BY <1>2, IsASeq
<1> QED BY <1>1, <1>3, LenProperties DEF IsSeq

LEMMA JoinedIsSeq ==
  ASSUME NEW s, NEW t, IsSeq(s), IsSeq(t)
  PROVE  /\ IsSeq(s \o t) /\ DOMAIN (s \o t) = 1 .. Len(s) + Len(t)
         /\ \A n \in DOMAIN s : n \in DOMAIN (s \o t) /\ (s \o t)[n] = s[n]
         /\ \A n \in DOMAIN t : Len(s) + n \in DOMAIN (s \o t) /\ (s \o t)[Len(s) + n] = t[n]
         /\ \A n \in DOMAIN (s \o t) : n \notin DOMAIN s => n - Len(s) \in DOMAIN t
<1> DEFINE T == Range(s) \union Range(t)
<1>1. s \in Seq(T) /\ t \in Seq(T)
  BY SeqMonotonic DEF IsSeq
<1>2. /\ Len(s) \in Nat /\ DOMAIN s = 1 .. Len(s)
      /\ Len(t) \in Nat /\ DOMAIN t = 1 .. Len(t)
  BY SeqDomain
<1> HIDE DEF T
<1>3. /\ s \o t \in Seq(T) /\ Len(s \o t) = Len(s) + Len(t)
      /\ \A n \in 1 .. Len(s) + Len(t) : (s \o t)[n] = IF n <= Len(s) THEN s[n] ELSE t[n - Len(s)]
  BY <1>1, ConcatProperties
<1>4. DOMAIN (s \o t) = 1 .. Len(s) + Len(t) /\ s \o t = [n \in 1 .. Len(s) + Len(t) |-> (s \o t)[n]]
  BY <1>3, LenProperties
<1>5. IsSeq(s \o t)
  BY <1>2, <1>4, FunctionIsSeq
<1> HIDE DEF IsSeq
<1>6. \A n \in DOMAIN s : n \in DOMAIN (s \o t) /\ (s \o t)[n] = s[n]
  BY <1>2, <1>3, <1>4
<1>7. \A n \in DOMAIN t : Len(s) + n \in DOMAIN (s \o t) /\ (s \o t)[Len(s) + n] = t[n]
  BY <1>2, <1>3, <1>4
<1>8. \A n \in DOMAIN (s \o t) : n \notin DOMAIN s => n - Len(s) \in DOMAIN t
  BY <1>2, <1>4
<1> QED BY <1>4, <1>5, <1>6, <1>7, <1>8

(* One after the other, with reasons that differ *)
LEMMA JoinedAccounts ==
  ASSUME NEW s, NEW t, IsSeq(s), IsSeq(t), NEW P, NEW Q, P \cap Q = {}, Accounts(s, P), Accounts(t, Q)
  PROVE  IsSeq(s \o t) /\ Accounts(s \o t, P \union Q)
<1>1. PICK b : GivesReasons(s, P, b)
  BY DEF Accounts
<1>2. PICK c : GivesReasons(t, Q, c)
  BY DEF Accounts
<1> DEFINE D == DOMAIN (s \o t)
           d == [n \in D |-> IF n \in DOMAIN s THEN b[n] ELSE c[n - Len(s)]]
<1>3. /\ IsSeq(s \o t) /\ D = 1 .. Len(s) + Len(t)
      /\ \A n \in DOMAIN s : n \in D /\ (s \o t)[n] = s[n]
      /\ \A n \in DOMAIN t : Len(s) + n \in D /\ (s \o t)[Len(s) + n] = t[n]
      /\ \A n \in D : n \notin DOMAIN s => n - Len(s) \in DOMAIN t
  BY JoinedIsSeq
<1>4. Len(s) \in Nat /\ DOMAIN s = 1 .. Len(s) /\ Len(t) \in Nat /\ DOMAIN t = 1 .. Len(t)
  BY SeqDomain
<1> HIDE DEF D
<1>5. \A n \in DOMAIN s : d[n] = b[n] /\ d[n] \in P /\ d[n][2] = s[n]
  BY <1>1, <1>3 DEF GivesReasons
<1>6. ASSUME NEW n \in D, n \notin DOMAIN s
      PROVE  n - Len(s) \in DOMAIN t /\ d[n] = c[n - Len(s)] /\ d[n] \in Q /\ d[n][2] = (s \o t)[n]
  <2>1. n - Len(s) \in DOMAIN t /\ d[n] = c[n - Len(s)]
    BY <1>3, <1>6
  <2>2. c[n - Len(s)] \in Q /\ c[n - Len(s)][2] = t[n - Len(s)]
    BY <1>2, <2>1 DEF GivesReasons
  <2>3. n \in Int /\ Len(s) + (n - Len(s)) = n
    BY <1>3, <1>4
  <2>4. (s \o t)[n] = t[n - Len(s)]
    BY <1>3, <2>1, <2>3
  <2> QED BY <2>1, <2>2, <2>4
<1>7. d \in [D -> P \union Q]
  BY <1>5, <1>6
<1>8. ASSUME NEW n \in D PROVE d[n][2] = (s \o t)[n]
  <2> HIDE DEF d
  <2>1. CASE n \in DOMAIN s
    BY <1>3, <1>5, <2>1
  <2>2. CASE n \notin DOMAIN s
    BY <1>6, <2>2
  <2> QED BY <2>1, <2>2
<1>9. ASSUME NEW m \in D, NEW n \in D, d[m] = d[n] PROVE m = n
  <2>1. CASE m \in DOMAIN s /\ n \in DOMAIN s
    BY <1>1, <1>5, <1>9, <2>1 DEF GivesReasons
  <2>2. CASE m \notin DOMAIN s /\ n \notin DOMAIN s
    <3> HIDE DEF d
    <3>1. c[m - Len(s)] = c[n - Len(s)] /\ m - Len(s) \in DOMAIN t /\ n - Len(s) \in DOMAIN t
      BY <1>6, <1>9, <2>2
    <3>2. m - Len(s) = n - Len(s)
      BY <1>2, <3>1 DEF GivesReasons
    <3> QED BY <1>3, <1>4, <3>2
  <2>3. CASE ~ (m \in DOMAIN s <=> n \in DOMAIN s)
    <3> HIDE DEF d
    <3> QED BY <1>5, <1>6, <1>9, <2>3
  <2> QED BY <2>1, <2>2, <2>3
<1>10. ASSUME NEW r \in P \union Q PROVE \E n \in D : d[n] = r
  <2>1. CASE r \in P
    BY <1>1, <1>3, <1>5, <2>1 DEF GivesReasons
  <2>2. CASE r \in Q
    <3>1. PICK n \in DOMAIN t : c[n] = r
      BY <1>2, <2>2 DEF GivesReasons
    <3>2. Len(s) + n \in D /\ Len(s) + n \notin DOMAIN s /\ (Len(s) + n) - Len(s) = n
      BY <1>3, <1>4
    <3> QED BY <3>1, <3>2
  <2> QED BY <2>1, <2>2
<1> HIDE DEF d
<1>11. GivesReasons(s \o t, P \union Q, d)
  BY <1>7, <1>8, <1>9, <1>10 DEF GivesReasons, D
<1> QED BY <1>3, <1>11 DEF Accounts

(* Nothing has no reason. *)
LEMMA EmptyAccounts == IsSeq(<<>>) /\ Accounts(<<>>, {})
<1>1. IsSeq(<<>>) /\ DOMAIN <<>> = {}
  BY DEF IsSeq
<1>2. GivesReasons(<<>>, {}, <<>>)
  BY <1>1 DEF GivesReasons
<1> QED BY <1>1, <1>2 DEF Accounts

(* Different things need no reasons to be told apart. *)
LEMMA InjectiveAccounts ==
  ASSUME NEW s, IsInjective(s), NEW r
  PROVE  Accounts(s, {r} \X Range(s))
<1> DEFINE b == [n \in DOMAIN s |-> <<r, s[n]>>]
<1>1. GivesReasons(s, {r} \X Range(s), b)
  BY DEF GivesReasons, Range, IsInjective
<1> QED BY <1>1 DEF Accounts

(* How often something is there is how many reasons there are for it. *)
LEMMA AccountsCount ==
  ASSUME NEW s, IsSeq(s), NEW P, Accounts(s, P), NEW t
  PROVE  Cardinality({n \in DOMAIN s : s[n] = t}) = Cardinality({p \in P : p[2] = t})
<1>1. PICK b : GivesReasons(s, P, b)
  BY DEF Accounts
<1> DEFINE A == {n \in DOMAIN s : s[n] = t}
           B == {p \in P : p[2] = t}
           c == [n \in A |-> b[n]]
<1>2. c \in [A -> B] /\ \A m, n \in A : c[m] = c[n] => m = n
  BY <1>1 DEF GivesReasons
<1>3. \A p \in B : \E n \in A : c[n] = p
  BY <1>1 DEF GivesReasons
<1>4. IsFiniteSet(A)
  <2>1. IsFiniteSet(DOMAIN s)
    BY SeqDomain, FS_Interval
  <2> QED BY <2>1, FS_Subset
<1> HIDE DEF A, B, c
<1>5. c \in Bijection(A, B)
  BY <1>2, <1>3, Fun_IsBij
<1>6. ExistsBijection(A, B)
  BY <1>5 DEF ExistsBijection
<1> QED BY <1>4, <1>6, FS_Bijection DEF A, B

(* Many, one after the other: P[k] are the reasons of the k-th. *)
AllOf(P, N) == UNION {P[k] : k \in 1 .. N}
LEMMA FlattenAccounts ==
  ASSUME NEW N \in Nat, NEW ss, ss = [k \in 1 .. N |-> ss[k]], NEW P,
         \A k \in 1 .. N : IsSeq(ss[k]) /\ Accounts(ss[k], P[k]),
         \A j, k \in 1 .. N : j # k => P[j] \cap P[k] = {}
  PROVE  IsSeq(FlattenSeq(ss)) /\ Accounts(FlattenSeq(ss), AllOf(P, N))
<1>1. IsSeq(ss) /\ Len(ss) = N /\ DOMAIN ss = 1 .. N
  BY FunctionIsSeq
<1>2. CASE N = 0
  <2>1. FlattenSeq(ss) = ss
    BY <1>1, <1>2 DEF FlattenSeq
  <2>2. GivesReasons(ss, {}, ss)
    BY <1>1, <1>2 DEF GivesReasons
  <2>3. AllOf(P, N) = {}
    BY <1>2 DEF AllOf
  <2> QED BY <1>1, <2>1, <2>2, <2>3 DEF Accounts
<1>3. CASE N # 0
  <2> DEFINE T == UNION {Range(ss[k]) : k \in 1 .. N}
             D == Seq(T)
             Body(k, v) == IF k = 1 THEN ss[k] ELSE v \o ss[k]
             G == [k \in 1 .. N |-> [v \in D |-> Body(k, v)]]
             Fl == CHOOSE h : h = [k \in 1 .. N |-> IF k = 1 THEN ss[k] ELSE h[k - 1] \o ss[k]]
  <2>1. \A k \in 1 .. N : ss[k] \in D
    <3> SUFFICES ASSUME NEW k \in 1 .. N PROVE ss[k] \in D
      OBVIOUS
    <3>1. ss[k] \in Seq(Range(ss[k])) /\ Range(ss[k]) \subseteq T
      BY DEF IsSeq
    <3> HIDE DEF T
    <3> QED BY <3>1, SeqMonotonic
  <2> HIDE DEF T
  <2>2. \A k \in 1 .. N, v \in D : Body(k, v) \in D
    BY <2>1, ConcatProperties
  <2> HIDE DEF D, Body
  <2>3. G \in [1 .. N -> [D -> D]]
    BY <2>2
  <2>4. <<>> \in D
    BY DEF D
  <2>5. PICK f \in [0 .. N -> D] : f[0] = <<>> /\ \A k \in 1 .. N : f[k] = G[k][f[k - 1]]
    <3> HIDE DEF G, Fl
    <3>1. Recursive(N, D, <<>>, G)
      BY <2>3, <2>4, Recursion
    <3> QED BY <3>1 DEF Recursive
  <2>6. \A k \in 1 .. N : f[k] = Body(k, f[k - 1])
    <3>1. \A k \in 1 .. N : k - 1 \in 0 .. N
      OBVIOUS
    <3> QED BY <2>5, <3>1
  <2> DEFINE g == [k \in 1 .. N |-> f[k]]
  <2>7. g = [k \in 1 .. N |-> IF k = 1 THEN ss[k] ELSE g[k - 1] \o ss[k]]
    <3> HIDE DEF G, Fl
    <3>1. \A k \in 1 .. N : k # 1 => k - 1 \in 1 .. N
      OBVIOUS
    <3>2. \A k \in 1 .. N : f[k] = IF k = 1 THEN ss[k] ELSE f[k - 1] \o ss[k]
      BY <2>6 DEF Body
    <3> QED BY <3>1, <3>2
  <2> HIDE DEF g, G
  <2>8. Fl = [k \in 1 .. N |-> IF k = 1 THEN ss[k] ELSE Fl[k - 1] \o ss[k]]
    BY <2>7
  <2>9. FlattenSeq(ss) = Fl[N]
    BY <1>1, <1>3 DEF FlattenSeq
  <2> HIDE DEF Fl
  <2> DEFINE R(m) == UNION {P[k] : k \in 1 .. m}
             S == {m \in 0 .. N : m # 0 => IsSeq(Fl[m]) /\ Accounts(Fl[m], R(m))}
  <2>10. 0 \in S
    OBVIOUS
  <2>11. ASSUME NEW m \in 0 .. N - 1, m \in S PROVE m + 1 \in S
    <3>1. m + 1 \in 1 .. N /\ m + 1 \in 0 .. N /\ (m + 1) - 1 = m
      OBVIOUS
    <3>2. R(m + 1) = R(m) \union P[m + 1]
      BY \A k : k \in 1 .. m + 1 <=> k \in 1 .. m \/ k = m + 1
    <3>3. IsSeq(ss[m + 1]) /\ Accounts(ss[m + 1], P[m + 1])
      BY <3>1
    <3>4. CASE m = 0
      <4>1. R(m + 1) = P[m + 1]
        BY <3>2, <3>4
      <4>2. Fl[m + 1] = ss[m + 1]
        BY <2>8, <3>1, <3>4
      <4> HIDE DEF R
      <4> QED BY <3>1, <3>3, <4>1, <4>2
    <3>5. CASE m # 0
      <4>1. Fl[m + 1] = Fl[m] \o ss[m + 1]
        <5>1. m + 1 # 1
          BY <3>5
        <5> HIDE DEF R, S
        <5> QED BY <2>8, <3>1, <5>1
      <4>2. IsSeq(Fl[m]) /\ Accounts(Fl[m], R(m))
        BY <2>11, <3>5
      <4>3. R(m) \cap P[m + 1] = {}
        BY <3>1
      <4> HIDE DEF R
      <4>4. IsSeq(Fl[m] \o ss[m + 1]) /\ Accounts(Fl[m] \o ss[m + 1], R(m) \union P[m + 1])
        BY <3>3, <4>2, <4>3, JoinedAccounts
      <4> QED BY <3>1, <3>2, <4>1, <4>4
    <3> QED BY <3>4, <3>5
  <2> HIDE DEF S
  <2>12. 0 .. N \subseteq S
    BY <2>10, <2>11, Climb
  <2>13. N \in S
    BY <2>12
  <2> QED BY <1>3, <2>9, <2>13 DEF S, AllOf
<1> QED BY <1>2, <1>3

(* The members of a finite set, in some order *)
LEMMA SetToSeqProperties ==
  ASSUME NEW S, IsFiniteSet(S)
  PROVE  IsSeq(SetToSeq(S)) /\ IsInjective(SetToSeq(S)) /\ Range(SetToSeq(S)) = S
<1> DEFINE N == Cardinality(S)
           s == SetToSeq(S)
<1>1. N \in Nat /\ \E f : f \in Bijection(1 .. N, S)
  BY FS_CardinalityType DEF ExistsBijection
<1>2. PICK f : f \in Bijection(1 .. N, S)
  BY <1>1
<1>3. f \in [1 .. N -> S] /\ IsInjective(f)
  BY <1>2 DEF Bijection, Injection, IsInjective
<1>4. s \in [1 .. N -> S] /\ IsInjective(s)
  BY <1>3 DEF SetToSeq
<1> HIDE DEF s
<1>5. IsSeq(s)
  BY <1>1, <1>4, FunctionIsSeq
<1>6. s \in Injection(1 .. N, S)
  BY <1>4 DEF Injection, IsInjective
<1>7. s \in Surjection(1 .. N, S)
  <2>1. IsFiniteSet(1 .. N) /\ Cardinality(1 .. N) = N
    BY <1>1, FS_Interval
  <2> HIDE DEF N
  <2> QED BY <1>6, <2>1, FS_Injection DEF N
<1>8. Range(s) = S
  BY <1>4, <1>7 DEF Surjection, Range
<1> QED BY <1>4, <1>5, <1>8 DEF s

--------------------------------------------------------------------------------
(* The declarations of a kind and a suite, so far *)
Of(kind, suite) == OfSuite(suite, Kind(kind, Declared))
Lists(seq, set) == IsSeq(seq) /\ IsInjective(seq) /\ Range(seq) = set

(* The registries say what has been declared. *)
KnowsTests ==
  /\ DOMAIN tests = SuiteNames /\ DOMAIN instantiations = SuiteNames
  /\ \A s \in SuiteNames : Lists(tests[s], Of("TEST_P", s)) /\ Lists(instantiations[s], Of("INSTANTIATE", s))
KnowsFixtures ==
  /\ fixture = [s \in DOMAIN fixture |-> fixture[s]]
  /\ DOMAIN fixture = {s \in SuiteNames : Of("TEST_P", s) \union Of("INSTANTIATE", s) # {}}
  /\ \A s \in SuiteNames : \A x \in Of("TEST_P", s) \union Of("INSTANTIATE", s) : Decl(x).fixture = fixture[s]
  /\ Lists(suite_infos, DOMAIN fixture)
KnowsIgnored == ignored = {s \in SuiteNames : Of("ALLOW", s) # {}}
NamedIn(u, s) == {Decl(x).test : x \in {y \in Of("TYPED_TEST_P", s) : y[1] = u}}
KnowsTyped ==
  /\ DOMAIN typed_state = (DOMAIN program) \X SuiteNames
  /\ \A u \in DOMAIN program, s \in SuiteNames :
       /\ DOMAIN typed_state[<<u, s>>] = {"registered", "registered_tests"}
       /\ typed_state[<<u, s>>].registered_tests = NamedIn(u, s)
       /\ typed_state[<<u, s>>].registered <=> \E y \in Of("REGISTER_TYPED", s) : y[1] = u
KnowsSuites ==
  /\ typed_suites \in [{s \in SuiteNames : Of("REGISTER_TYPED", s) # {}} -> BOOLEAN]
  /\ IsFiniteSet(DOMAIN typed_suites)
  /\ \A s \in DOMAIN typed_suites : typed_suites[s] <=> Of("INSTANTIATE_TYPED", s) # {}
(* A typed suite that is registered lists what was declared before, and       *)
(* nothing comes after.                                                      *)
ListedTruly ==
  \A s \in SuiteNames : \A x \in Of("REGISTER_TYPED", s) :
    /\ IsInjective(Decl(x).names) /\ ToSet(Decl(x).names) = NamedIn(x[1], s)
    /\ \A y \in Of("TYPED_TEST_P", s) : y[1] = x[1] => y[2] < x[2]
Known == KnowsTests /\ KnowsFixtures /\ KnowsIgnored /\ KnowsTyped /\ KnowsSuites /\ ListedTruly

(* Names that were given to the values of a generator, where they were used *)
NamesRight ==
  parameterized_tests_registered =>
    \A x \in Kind("INSTANTIATE", in_time) :
      OfSuite(Decl(x).suite, Kind("TEST_P", in_time)) # {} => FitNames(NamesOf(Decl(x)))

(* The reasons there are so far *)
Owed(x) == {<<"declared", x>>} \X MeantBy(x)
OwedNow(x) == IF Decl(x).decl = "INSTANTIATE" /\ ~ parameterized_tests_registered THEN {} ELSE Owed(x)
Missing(m) == {<<w, Synthetic(w[1], w[2])>> : w \in {p \in {m} \X SuiteNames : Wanting(p[1], p[2])}}
Given ==
  (UNION {OwedNow(x) : x \in Declared})
    \union IF parameterized_tests_registered THEN Missing("values") \union Missing("types") ELSE {}
Accounted == IsSeq(registered) /\ Accounts(registered, Given)

RegTyped ==
  /\ program \in Programs
  /\ done \in [DOMAIN program -> Nat] /\ \A u \in DOMAIN program : done[u] <= Len(program[u])
  /\ stage \in {"static", "main", "run", "died"} /\ parameterized_tests_registered \in BOOLEAN
  /\ in_time \subseteq Declared /\ (~ parameterized_tests_registered => in_time = Declared)
  /\ stage = "run" => parameterized_tests_registered

RegInv ==
  /\ RegTyped
  /\ stage # "died" => Known /\ NamesRight /\ Accounted
  /\ stage = "died" => Mistaken

(* What the compiler has seen to *)
LEMMA ProgramCompiles ==
  ASSUME program \in Programs
  PROVE  Compiles(program)
BY TestRegistrationAssumption

LEMMA DeclaredPlaces ==
  ASSUME RegTyped
  PROVE  /\ Declared \subseteq PlacesOf(program)
         /\ \A x : x \in Declared <=> \E u \in DOMAIN program : \E k \in 1 .. done[u] : x = <<u, k>>
         /\ \A x \in PlacesOf(program) : Decl(x).suite \in SuiteNames
         /\ \A x \in Declared : x[1] \in DOMAIN program /\ x[2] \in 1 .. done[x[1]] /\ x = <<x[1], x[2]>>
<1>1. \A u \in DOMAIN program : Len(program[u]) \in Nat
  BY ProgramCompiles, SeqDomain DEF RegTyped, Compiles
<1>2. \A u \in DOMAIN program : 1 .. done[u] \subseteq 1 .. Len(program[u])
  BY <1>1 DEF RegTyped
<1> QED BY <1>2 DEF Declared, PlacesOf, SuiteNames

(* One more declaration is initialised, at x. *)
NextOf(u) == <<u, done[u] + 1>>
Adds(x) ==
  /\ program' = program /\ UNCHANGED parameterized_tests_registered
  /\ x \in PlacesOf(program) /\ x \notin Declared
  /\ x[1] \in DOMAIN program /\ x = <<x[1], x[2]>> /\ x[2] \in Nat
  /\ Decl(x).suite \in SuiteNames
  /\ Declared' = Declared \union {x}
  /\ in_time' = IF parameterized_tests_registered THEN in_time ELSE in_time \union {x}
  /\ \A y \in Declared : y[1] = x[1] => y[2] < x[2]
  /\ \A kind, s : Of(kind, s)' = Of(kind, s) \union IF Decl(x).decl = kind /\ Decl(x).suite = s THEN {x} ELSE {}

LEMMA DeclareAdds ==
  ASSUME RegTyped, NEW u \in DOMAIN program, Declare(u)
  PROVE  Adds(NextOf(u))
<1> DEFINE x == NextOf(u)
<1>1. /\ program' = program /\ UNCHANGED parameterized_tests_registered
      /\ done' = [done EXCEPT ![u] = @ + 1] /\ done[u] < Len(program[u])
      /\ in_time' = IF parameterized_tests_registered THEN in_time ELSE in_time \union {x}
  BY DEF Declare, NextOf
<1>2. done[u] \in Nat /\ Len(program[u]) \in Nat
  BY ProgramCompiles, SeqDomain DEF RegTyped, Compiles
<1>3. x[1] = u /\ x[2] = done[u] + 1 /\ x = <<x[1], x[2]>> /\ x[2] \in Nat
  BY <1>2 DEF NextOf
<1>4. x \in PlacesOf(program)
  BY <1>1, <1>2 DEF NextOf, PlacesOf
<1>5. \A y \in Declared : y[1] = u => y[2] < x[2]
  BY <1>2, <1>3, DeclaredPlaces
<1>6. x \notin Declared
  BY <1>2, <1>3, <1>5
<1>7. Declared' = Declared \union {x}
  <2>1. \A v \in DOMAIN program : done'[v] = IF v = u THEN done[u] + 1 ELSE done[v]
    BY <1>1 DEF RegTyped
  <2>2. 1 .. done[u] + 1 = (1 .. done[u]) \union {done[u] + 1}
    BY <1>2
  <2>3. Declared' = UNION {{v} \X (1 .. done'[v]) : v \in DOMAIN program}
    BY <1>1 DEF Declared
  <2> HIDE DEF x
  <2>4. \A y : y \in Declared' <=> \E v \in DOMAIN program : \E k \in 1 .. done'[v] : y = <<v, k>>
    BY <2>3
  <2>5. \A y : y \in Declared <=> \E v \in DOMAIN program : \E k \in 1 .. done[v] : y = <<v, k>>
    BY DeclaredPlaces
  <2>6. ASSUME NEW y PROVE y \in Declared' <=> y \in Declared \/ y = x
    <3>1. CASE y \in Declared'
      <4>1. PICK v \in DOMAIN program : \E k \in 1 .. done'[v] : y = <<v, k>>
        BY <2>4, <3>1
      <4>0. PICK k \in 1 .. done'[v] : y = <<v, k>>
        BY <4>1
      <4>2. k \in 1 .. done[v] \/ (v = u /\ k = done[u] + 1)
        BY <2>1, <2>2, <4>0
      <4> QED BY <2>5, <3>1, <4>0, <4>2 DEF x, NextOf
    <3>2. CASE y \in Declared
      <4>1. PICK v \in DOMAIN program : \E k \in 1 .. done[v] : y = <<v, k>>
        BY <2>5, <3>2
      <4>0. PICK k \in 1 .. done[v] : y = <<v, k>>
        BY <4>1
      <4>2. k \in 1 .. done'[v]
        BY <2>1, <2>2, <4>0
      <4> QED BY <2>4, <3>2, <4>0, <4>2
    <3>3. CASE y = x
      <4>1. done[u] + 1 \in 1 .. done'[u]
        BY <2>1, <2>2
      <4> QED BY <2>4, <3>3, <4>1 DEF x, NextOf
    <3> QED BY <3>1, <3>2, <3>3
  <2> QED BY <2>6
<1>8. Decl(x).suite \in SuiteNames
  BY <1>4, DeclaredPlaces
<1> HIDE DEF x
<1>9. ASSUME NEW kind, NEW s
      PROVE  Of(kind, s)' = Of(kind, s) \union IF Decl(x).decl = kind /\ Decl(x).suite = s THEN {x} ELSE {}
  <2>1. \A y : Decl(y)' = Decl(y)
    BY <1>1 DEF Decl
  <2>2. Of(kind, s) = {y \in Declared : Decl(y).decl = kind /\ Decl(y).suite = s}
    BY DEF Of, OfSuite, Kind
  <2>3. Of(kind, s)' = {y \in Declared' : (Decl(y)').decl = kind /\ (Decl(y)').suite = s}
    BY DEF Of, OfSuite, Kind
  <2> QED BY <1>7, <2>1, <2>2, <2>3
<1> QED BY <1>1, <1>3, <1>4, <1>5, <1>6, <1>7, <1>8, <1>9 DEF Adds, x

(* What RegTyped says stays so. *)
LEMMA DeclareTypesStay ==
  ASSUME RegTyped, NEW u \in DOMAIN program, Declare(u), stage' \in {stage, "died"}
  PROVE  RegTyped'
<1>1. /\ program' = program /\ UNCHANGED parameterized_tests_registered
      /\ done' = [done EXCEPT ![u] = @ + 1] /\ done[u] < Len(program[u])
      /\ stage \in {"static", "main"}
  BY DEF Declare
<1>2. done[u] \in Nat /\ Len(program[u]) \in Nat
  BY ProgramCompiles, SeqDomain DEF RegTyped, Compiles
<1>3. done' \in [DOMAIN program -> Nat] /\ \A v \in DOMAIN program : done'[v] <= Len(program[v])
  BY <1>1, <1>2 DEF RegTyped
<1>4. in_time' \subseteq Declared' /\ (~ parameterized_tests_registered => in_time' = Declared')
  BY DeclareAdds DEF Adds, RegTyped
<1> QED BY <1>1, <1>3, <1>4 DEF RegTyped

LEMMA OfMember ==
  ASSUME NEW x, NEW kind, NEW s
  PROVE  x \in Of(kind, s) <=> x \in Declared /\ Decl(x).decl = kind /\ Decl(x).suite = s
BY DEF Of, OfSuite, Kind

(* The kinds are different words. *)
LEMMA AddsOther ==
  ASSUME NEW x, Adds(x), NEW kind, kind # Decl(x).decl
  PROVE  \A s : Of(kind, s)' = Of(kind, s)
BY DEF Adds

LEMMA AddsStays ==
  ASSUME NEW x, Adds(x)
  PROVE  SuiteNames' = SuiteNames /\ \A y : Decl(y)' = Decl(y)
<1>1. \A y : Decl(y)' = Decl(y)
  BY DEF Adds, Decl
<1>2. SuiteNames' = {(Decl(y)').suite : y \in PlacesOf(program)}
  BY DEF Adds, SuiteNames, PlacesOf
<1> QED BY <1>1, <1>2 DEF SuiteNames

--------------------------------------------------------------------------------
(* What the registries know stays true, one part after the other. *)
LEMMA ListsMore ==
  ASSUME NEW seq, NEW S, Lists(seq, S), NEW x, x \notin S
  PROVE  Lists(Append(seq, x), S \union {x})
<1>1. Len(seq) \in Nat /\ DOMAIN seq = 1 .. Len(seq) /\ seq = [n \in 1 .. Len(seq) |-> seq[n]]
  BY SeqDomain DEF Lists
<1> DEFINE N == Len(seq) + 1
           t == [n \in 1 .. N |-> IF n = N THEN x ELSE seq[n]]
<1>2. Append(seq, x) = t
  <2> DEFINE T == Range(seq) \union {x}
  <2>1. seq \in Seq(T) /\ x \in T
    BY SeqMonotonic DEF Lists, IsSeq
  <2> HIDE DEF T
  <2>2. /\ Append(seq, x) \in Seq(T) /\ Len(Append(seq, x)) = N
        /\ \A n \in 1 .. Len(seq) : Append(seq, x)[n] = seq[n]
        /\ Append(seq, x)[N] = x
    BY <2>1, AppendProperties
  <2>3. Append(seq, x) = [n \in 1 .. N |-> Append(seq, x)[n]]
    BY <2>2, LenProperties
  <2>4. \A n \in 1 .. N : n # N => n \in 1 .. Len(seq)
    BY <1>1
  <2> QED BY <2>2, <2>3, <2>4
<1>3. N \in Nat /\ t = [n \in 1 .. N |-> t[n]]
  BY <1>1
<1>4. IsSeq(t) /\ DOMAIN t = 1 .. N
  <2> HIDE DEF t, N
  <2> QED BY <1>3, FunctionIsSeq
<1>5. \A n \in 1 .. N : t[n] = IF n = N THEN x ELSE seq[n]
  OBVIOUS
<1>6. \A n \in 1 .. N : n # N => n \in DOMAIN seq
  BY <1>1
<1>7. N \in 1 .. N /\ \A n \in DOMAIN seq : n \in 1 .. N /\ n # N
  BY <1>1
<1> HIDE DEF t, N
<1>8. Range(t) = S \union {x}
  BY <1>4, <1>5, <1>6, <1>7 DEF Lists, Range
<1>9. IsInjective(t)
  <2>1. \A n \in DOMAIN seq : seq[n] \in S
    BY DEF Lists, Range
  <2> QED BY <1>4, <1>5, <1>6, <2>1 DEF Lists, IsInjective
<1> QED BY <1>2, <1>4, <1>8, <1>9 DEF Lists

LEMMA TestsStay ==
  ASSUME KnowsTests, NEW x, Adds(x),
         \/ Decl(x).decl \notin {"TEST_P", "INSTANTIATE"} /\ UNCHANGED <<tests, instantiations>>
         \/ /\ Decl(x).decl = "TEST_P" /\ UNCHANGED instantiations
            /\ tests' = [tests EXCEPT ![Decl(x).suite] = Append(@, x)]
         \/ /\ Decl(x).decl = "INSTANTIATE" /\ UNCHANGED tests
            /\ instantiations' = [instantiations EXCEPT ![Decl(x).suite] = Append(@, x)]
  PROVE  KnowsTests'
<1>1. SuiteNames' = SuiteNames /\ Decl(x).suite \in SuiteNames /\ x \notin Declared
  BY AddsStays DEF Adds
<1>2. DOMAIN tests' = SuiteNames /\ DOMAIN instantiations' = SuiteNames
  BY DEF KnowsTests
<1>3. ASSUME NEW s \in SuiteNames PROVE Lists(tests'[s], Of("TEST_P", s)')
  <2>1. Lists(tests[s], Of("TEST_P", s))
    BY <1>3 DEF KnowsTests
  <2>2. CASE Decl(x).decl = "TEST_P" /\ Decl(x).suite = s
    <3>1. tests'[s] = Append(tests[s], x)
      BY <2>2 DEF KnowsTests
    <3>2. Of("TEST_P", s)' = Of("TEST_P", s) \union {x} /\ x \notin Of("TEST_P", s)
      BY <1>1, <2>2, OfMember DEF Adds
    <3> QED BY <2>1, <3>1, <3>2, ListsMore
  <2>3. CASE ~ (Decl(x).decl = "TEST_P" /\ Decl(x).suite = s)
    <3>1. tests'[s] = tests[s]
      BY <2>3 DEF KnowsTests
    <3>2. Of("TEST_P", s)' = Of("TEST_P", s)
      BY <2>3 DEF Adds
    <3> QED BY <2>1, <3>1, <3>2
  <2> QED BY <2>2, <2>3
<1>4. ASSUME NEW s \in SuiteNames PROVE Lists(instantiations'[s], Of("INSTANTIATE", s)')
  <2>1. Lists(instantiations[s], Of("INSTANTIATE", s))
    BY <1>4 DEF KnowsTests
  <2>2. CASE Decl(x).decl = "INSTANTIATE" /\ Decl(x).suite = s
    <3>1. instantiations'[s] = Append(instantiations[s], x)
      BY <2>2 DEF KnowsTests
    <3>2. Of("INSTANTIATE", s)' = Of("INSTANTIATE", s) \union {x} /\ x \notin Of("INSTANTIATE", s)
      BY <1>1, <2>2, OfMember DEF Adds
    <3> QED BY <2>1, <3>1, <3>2, ListsMore
  <2>3. CASE ~ (Decl(x).decl = "INSTANTIATE" /\ Decl(x).suite = s)
    <3>1. instantiations'[s] = instantiations[s]
      BY <2>3 DEF KnowsTests
    <3>2. Of("INSTANTIATE", s)' = Of("INSTANTIATE", s)
      BY <2>3 DEF Adds
    <3> QED BY <2>1, <3>1, <3>2
  <2> QED BY <2>2, <2>3
<1>5. \A s \in SuiteNames : Lists(tests[s], Of("TEST_P", s))' /\ Lists(instantiations[s], Of("INSTANTIATE", s))'
  BY <1>3, <1>4 DEF Lists
<1> QED BY <1>1, <1>2, <1>5 DEF KnowsTests

LEMMA FixturesStay ==
  ASSUME KnowsFixtures, NEW x, Adds(x),
         \/ Decl(x).decl \notin {"TEST_P", "INSTANTIATE"} /\ UNCHANGED <<fixture, suite_infos>>
         \/ Decl(x).decl \in {"TEST_P", "INSTANTIATE"} /\ ~ OtherFixture(Decl(x)) /\ Holder(Decl(x))
  PROVE  KnowsFixtures'
<1> DEFINE Both(s) == Of("TEST_P", s) \union Of("INSTANTIATE", s)
           mine == Decl(x).suite
<1>1. /\ SuiteNames' = SuiteNames /\ mine \in SuiteNames
      /\ \A y : Decl(y)' = Decl(y)
  BY AddsStays DEF Adds
<1>2. \A s : Both(s)' = Both(s) \union
               IF Decl(x).decl \in {"TEST_P", "INSTANTIATE"} /\ mine = s THEN {x} ELSE {}
  BY DEF Adds
<1>3. /\ fixture = [s \in DOMAIN fixture |-> fixture[s]]
      /\ DOMAIN fixture = {s \in SuiteNames : Both(s) # {}}
      /\ \A s \in SuiteNames : \A y \in Both(s) : Decl(y).fixture = fixture[s]
      /\ Lists(suite_infos, DOMAIN fixture)
  BY DEF KnowsFixtures
<1> SUFFICES /\ fixture' = [s \in DOMAIN fixture' |-> fixture'[s]]
             /\ DOMAIN fixture' = {s \in SuiteNames : Both(s)' # {}}
             /\ \A s \in SuiteNames : \A y \in Both(s)' : Decl(y).fixture = fixture'[s]
             /\ Lists(suite_infos', DOMAIN fixture')
  BY <1>1 DEF KnowsFixtures, Lists
<1> HIDE DEF Both
<1>4. CASE Decl(x).decl \notin {"TEST_P", "INSTANTIATE"} /\ UNCHANGED <<fixture, suite_infos>>
  BY <1>2, <1>3, <1>4
<1>5. CASE Decl(x).decl \in {"TEST_P", "INSTANTIATE"} /\ mine \in DOMAIN fixture
  <2>1. UNCHANGED <<fixture, suite_infos>> /\ Decl(x).fixture = fixture[mine]
    BY <1>5 DEF Holder, OtherFixture
  <2> QED BY <1>2, <1>3, <1>5, <2>1
<1>6. CASE Decl(x).decl \in {"TEST_P", "INSTANTIATE"} /\ mine \notin DOMAIN fixture
  <2>1. fixture' = Put(fixture, mine, Decl(x).fixture) /\ suite_infos' = Append(suite_infos, mine)
    BY <1>6 DEF Holder
  <2>2. /\ fixture' = [s \in DOMAIN fixture' |-> fixture'[s]]
        /\ DOMAIN fixture' = DOMAIN fixture \union {mine}
        /\ \A s \in DOMAIN fixture' : fixture'[s] = IF s = mine THEN Decl(x).fixture ELSE fixture[s]
    BY <2>1 DEF Put
  <2>3. Lists(suite_infos', DOMAIN fixture')
    BY <1>3, <1>6, <2>1, <2>2, ListsMore
  <2>4. DOMAIN fixture' = {s \in SuiteNames : Both(s)' # {}}
    BY <1>1, <1>2, <1>3, <1>6, <2>2
  <2>5. ASSUME NEW s \in SuiteNames, NEW y \in Both(s)' PROVE Decl(y).fixture = fixture'[s]
    <3>1. CASE s = mine
      <4>1. Both(s) = {}
        BY <1>3, <1>6, <3>1
      <4>2. y = x
        BY <1>2, <2>5, <3>1, <4>1
      <4> QED BY <2>2, <3>1, <4>2
    <3>2. CASE s # mine
      <4>1. y \in Both(s)
        BY <1>2, <2>5, <3>2
      <4>2. s \in DOMAIN fixture
        BY <1>3, <4>1
      <4> QED BY <1>3, <2>2, <3>2, <4>1, <4>2
    <3> QED BY <3>1, <3>2
  <2> QED BY <2>2, <2>3, <2>4, <2>5
<1> QED BY <1>4, <1>5, <1>6

LEMMA IgnoredStays ==
  ASSUME KnowsIgnored, NEW x, Adds(x),
         \/ Decl(x).decl # "ALLOW" /\ UNCHANGED ignored
         \/ Decl(x).decl = "ALLOW" /\ ignored' = ignored \union {Decl(x).suite}
  PROVE  KnowsIgnored'
<1>1. SuiteNames' = SuiteNames /\ Decl(x).suite \in SuiteNames
  BY AddsStays DEF Adds
<1>2. \A s : Of("ALLOW", s)' = Of("ALLOW", s) \union IF Decl(x).decl = "ALLOW" /\ Decl(x).suite = s THEN {x} ELSE {}
  BY DEF Adds
<1> QED BY <1>1, <1>2 DEF KnowsIgnored

LEMMA NamedInGrows ==
  ASSUME NEW x, Adds(x)
  PROVE  \A u, s : NamedIn(u, s)' = NamedIn(u, s) \union
           IF Decl(x).decl = "TYPED_TEST_P" /\ Decl(x).suite = s /\ x[1] = u THEN {Decl(x).test} ELSE {}
<1>1. \A s : Of("TYPED_TEST_P", s)' = Of("TYPED_TEST_P", s) \union
               IF Decl(x).decl = "TYPED_TEST_P" /\ Decl(x).suite = s THEN {x} ELSE {}
  BY DEF Adds
<1>2. \A y : Decl(y)' = Decl(y)
  BY AddsStays
<1> TAKE u, s
<1>3. NamedIn(u, s)' = {Decl(y).test : y \in {z \in Of("TYPED_TEST_P", s)' : z[1] = u}}
  BY <1>2 DEF NamedIn
<1>4. NamedIn(u, s) = {Decl(y).test : y \in {z \in Of("TYPED_TEST_P", s) : z[1] = u}}
  BY DEF NamedIn
<1>5. CASE Decl(x).decl = "TYPED_TEST_P" /\ Decl(x).suite = s /\ x[1] = u
  <2>1. {z \in Of("TYPED_TEST_P", s)' : z[1] = u} = {z \in Of("TYPED_TEST_P", s) : z[1] = u} \union {x}
    BY <1>1, <1>5
  <2> QED BY <1>3, <1>4, <1>5, <2>1
<1>6. CASE ~ (Decl(x).decl = "TYPED_TEST_P" /\ Decl(x).suite = s /\ x[1] = u)
  <2>1. {z \in Of("TYPED_TEST_P", s)' : z[1] = u} = {z \in Of("TYPED_TEST_P", s) : z[1] = u}
    BY <1>1, <1>6
  <2> QED BY <1>3, <1>4, <1>6, <2>1
<1> QED BY <1>5, <1>6

LEMMA TypedStays ==
  ASSUME KnowsTyped, NEW x, Adds(x),
         \/ Decl(x).decl \notin {"TYPED_TEST_P", "REGISTER_TYPED"} /\ UNCHANGED typed_state
         \/ /\ Decl(x).decl = "TYPED_TEST_P"
            /\ typed_state' = [typed_state EXCEPT ![<<x[1], Decl(x).suite>>].registered_tests = @ \union {Decl(x).test}]
         \/ /\ Decl(x).decl = "REGISTER_TYPED"
            /\ typed_state' = [typed_state EXCEPT ![<<x[1], Decl(x).suite>>].registered = TRUE]
  PROVE  KnowsTyped'
<1> DEFINE Ours(u, s) == Decl(x).suite = s /\ x[1] = u
           Declares(u, s) == \E y \in Of("REGISTER_TYPED", s) : y[1] = u
           Knows(key, truth, names) == /\ DOMAIN typed_state'[key] = {"registered", "registered_tests"}
                                       /\ typed_state'[key].registered_tests = names
                                       /\ typed_state'[key].registered <=> truth
<1>1. SuiteNames' = SuiteNames /\ program' = program /\ Decl(x).suite \in SuiteNames /\ x[1] \in DOMAIN program
  BY AddsStays DEF Adds
<1>2. DOMAIN typed_state' = (DOMAIN program) \X SuiteNames
  BY DEF KnowsTyped
<1>3. ASSUME NEW u \in DOMAIN program, NEW s \in SuiteNames
      PROVE  Knows(<<u, s>>, Declares(u, s)', NamedIn(u, s)')
  <2> DEFINE key == <<u, s>>
  <2>1. /\ DOMAIN typed_state[key] = {"registered", "registered_tests"}
        /\ typed_state[key].registered_tests = NamedIn(u, s)
        /\ typed_state[key].registered <=> Declares(u, s)
    BY <1>3 DEF KnowsTyped
  <2>2. <<x[1], Decl(x).suite>> = key <=> Ours(u, s)
    OBVIOUS
  <2>3. key \in DOMAIN typed_state
    BY DEF KnowsTyped
  <2>4. NamedIn(u, s)' = NamedIn(u, s) \union IF Decl(x).decl = "TYPED_TEST_P" /\ Ours(u, s) THEN {Decl(x).test} ELSE {}
    BY NamedInGrows
  <2>5. Declares(u, s)' <=> Declares(u, s) \/ (Decl(x).decl = "REGISTER_TYPED" /\ Ours(u, s))
    <3>1. Of("REGISTER_TYPED", s)' = Of("REGISTER_TYPED", s) \union
            IF Decl(x).decl = "REGISTER_TYPED" /\ Decl(x).suite = s THEN {x} ELSE {}
      BY DEF Adds
    <3> QED BY <3>1
  <2> HIDE DEF Declares, key
  <2>6. CASE Ours(u, s) /\ Decl(x).decl = "TYPED_TEST_P"
    <3>1. typed_state' = [typed_state EXCEPT ![key].registered_tests = @ \union {Decl(x).test}]
      BY <2>2, <2>6
    <3> DEFINE r == typed_state[key]
               q == [r EXCEPT !.registered_tests = @ \union {Decl(x).test}]
    <3>2. typed_state'[key] = q
      BY <2>3, <3>1
    <3>3. DOMAIN r = {"registered", "registered_tests"}
      BY <2>1
    <3> HIDE DEF r
    <3>4. DOMAIN q = DOMAIN r /\ q.registered_tests = r.registered_tests \union {Decl(x).test} /\ q.registered = r.registered
      BY <3>3
    <3> HIDE DEF q
    <3> QED BY <2>1, <2>4, <2>5, <2>6, <3>2, <3>4 DEF key, r
  <2>7. CASE Ours(u, s) /\ Decl(x).decl = "REGISTER_TYPED"
    <3>1. typed_state' = [typed_state EXCEPT ![key].registered = TRUE]
      BY <2>2, <2>7
    <3> DEFINE r == typed_state[key]
               q == [r EXCEPT !.registered = TRUE]
    <3>2. typed_state'[key] = q
      BY <2>3, <3>1
    <3>3. DOMAIN r = {"registered", "registered_tests"}
      BY <2>1
    <3> HIDE DEF r
    <3>4. "registered" \in DOMAIN r
      BY <3>3
    <3>5. DOMAIN q = DOMAIN r /\ q.registered_tests = r.registered_tests
      BY <3>3
    <3>6. q.registered = TRUE
      BY <3>4
    <3> HIDE DEF q
    <3> QED BY <2>1, <2>4, <2>5, <2>7, <3>2, <3>5, <3>6 DEF key, r
  <2>8. CASE Decl(x).decl \notin {"TYPED_TEST_P", "REGISTER_TYPED"} \/ ~ Ours(u, s)
    <3>1. typed_state'[key] = typed_state[key]
      BY <2>2, <2>3, <2>8
    <3> QED BY <2>1, <2>4, <2>5, <2>8, <3>1 DEF key
  <2> QED BY <2>6, <2>7, <2>8
<1>4. \A u \in DOMAIN program, s \in SuiteNames : Knows(<<u, s>>, Declares(u, s)', NamedIn(u, s)')
  BY <1>3
<1> HIDE DEF Adds
<1> QED BY <1>1, <1>2, <1>4 DEF KnowsTyped

(* The compiler wants the list of tests before an instantiation. *)
LEMMA InstantiatedIsRegistered ==
  ASSUME RegTyped, NEW x \in PlacesOf(program), Decl(x).decl = "INSTANTIATE_TYPED",
         x[1] \in DOMAIN program, x[2] \in Nat, x[2] <= done[x[1]] + 1
  PROVE  \E y \in Of("REGISTER_TYPED", Decl(x).suite) : y[1] = x[1] /\ Decl(y).names = Decl(x).names
<1>1. PICK y \in PlacesOf(program) : /\ y[1] = x[1] /\ y[2] < x[2]
                                   /\ Decl(y).decl = "REGISTER_TYPED" /\ Decl(y).suite = Decl(x).suite
                                   /\ Decl(y).names = Decl(x).names
  BY ProgramCompiles DEF Compiles, Decl, RegTyped
<1>2. done[x[1]] \in Nat
  BY DEF RegTyped
<1>3. y[2] \in Nat \ {0} /\ y = <<y[1], y[2]>>
  BY DEF PlacesOf
<1>4. y[2] \in 1 .. done[x[1]]
  BY <1>1, <1>2, <1>3
<1>5. y \in Declared
  BY <1>1, <1>3, <1>4, DeclaredPlaces
<1> QED BY <1>1, <1>5, OfMember

LEMMA SuitesStay ==
  ASSUME KnowsSuites, RegTyped, NEW x, Adds(x), x[2] = done[x[1]] + 1,
         \/ Decl(x).decl \notin {"REGISTER_TYPED", "INSTANTIATE_TYPED"} /\ UNCHANGED typed_suites
         \/ Decl(x).decl = "REGISTER_TYPED" /\ RegisterTestSuite(Decl(x).suite)
         \/ Decl(x).decl = "INSTANTIATE_TYPED" /\ RegisterInstantiation(Decl(x).suite)
  PROVE  KnowsSuites'
<1> DEFINE mine == Decl(x).suite
           Registrations == {s \in SuiteNames : Of("REGISTER_TYPED", s) # {}}
<1>1. SuiteNames' = SuiteNames /\ mine \in SuiteNames /\ x[1] \in DOMAIN program /\ x[2] \in Nat /\ x \in PlacesOf(program)
  BY AddsStays DEF Adds
<1>2. \A kind, s : Of(kind, s)' = Of(kind, s) \union IF Decl(x).decl = kind /\ mine = s THEN {x} ELSE {}
  BY DEF Adds
<1>3. /\ typed_suites \in [Registrations -> BOOLEAN] /\ IsFiniteSet(Registrations)
      /\ \A s \in Registrations : typed_suites[s] <=> Of("INSTANTIATE_TYPED", s) # {}
  BY DEF KnowsSuites
<1>4. \A s : Of("INSTANTIATE_TYPED", s) # {} => Of("REGISTER_TYPED", s) # {}
  <2> SUFFICES ASSUME NEW s, NEW y \in Of("INSTANTIATE_TYPED", s) PROVE Of("REGISTER_TYPED", s) # {}
    OBVIOUS
  <2>1. y \in Declared /\ Decl(y).decl = "INSTANTIATE_TYPED" /\ Decl(y).suite = s
    BY OfMember
  <2>2. y \in PlacesOf(program) /\ y[1] \in DOMAIN program /\ y[2] \in 1 .. done[y[1]]
    BY <2>1, DeclaredPlaces
  <2>3. done[y[1]] \in Nat
    BY <2>2 DEF RegTyped
  <2> QED BY <2>1, <2>2, <2>3, InstantiatedIsRegistered
<1> SUFFICES /\ typed_suites' \in [Registrations' -> BOOLEAN] /\ IsFiniteSet(Registrations')
             /\ \A s \in Registrations' : typed_suites'[s] <=> Of("INSTANTIATE_TYPED", s)' # {}
  BY DEF KnowsSuites
<1>5. Registrations' = Registrations \union IF Decl(x).decl = "REGISTER_TYPED" THEN {mine} ELSE {}
  BY <1>1, <1>2
<1>6. IsFiniteSet(Registrations')
  <2> HIDE DEF Registrations
  <2> QED BY <1>3, <1>5, FS_AddElement
<1>7. \A s \in Registrations : s \in SuiteNames
  OBVIOUS
<1>8. \A s \in SuiteNames : s \in Registrations <=> Of("REGISTER_TYPED", s) # {}
  OBVIOUS
<1> HIDE DEF Registrations
<1>9. CASE Decl(x).decl \notin {"REGISTER_TYPED", "INSTANTIATE_TYPED"}
  BY <1>2, <1>3, <1>5, <1>6, <1>9
<1>10. CASE Decl(x).decl = "REGISTER_TYPED"
  <2>1. \A s : Of("INSTANTIATE_TYPED", s)' = Of("INSTANTIATE_TYPED", s)
    BY <1>2, <1>10
  <2>2. CASE mine \in Registrations
    <3>1. typed_suites' = typed_suites /\ Registrations' = Registrations
      BY <1>3, <1>5, <1>10, <2>2 DEF RegisterTestSuite
    <3> QED BY <1>3, <1>6, <2>1, <3>1
  <2>3. CASE mine \notin Registrations
    <3>1. typed_suites' = Put(typed_suites, mine, FALSE)
      BY <1>3, <1>10, <2>3 DEF RegisterTestSuite
    <3>2. typed_suites' \in [Registrations' -> BOOLEAN]
      BY <1>3, <1>5, <1>10, <3>1 DEF Put
    <3>3. \A s \in Registrations' : typed_suites'[s] = IF s = mine THEN FALSE ELSE typed_suites[s]
      BY <1>3, <1>5, <1>10, <3>1 DEF Put
    <3>4. Of("INSTANTIATE_TYPED", mine) = {}
      BY <1>1, <1>4, <1>8, <2>3
    <3>5. \A s \in Registrations' : Of("INSTANTIATE_TYPED", s)' = Of("INSTANTIATE_TYPED", s)
      BY <2>1
    <3>6. \A s \in Registrations' : typed_suites'[s] <=> Of("INSTANTIATE_TYPED", s)' # {}
      BY <1>3, <1>5, <1>10, <3>3, <3>4, <3>5
    <3> QED BY <1>6, <3>2, <3>6
  <2> QED BY <2>2, <2>3
<1>11. CASE Decl(x).decl = "INSTANTIATE_TYPED"
  <2>1. mine \in Registrations /\ Registrations' = Registrations
    <3>1. x[2] <= done[x[1]] + 1
      BY <1>1
    <3>2. Of("REGISTER_TYPED", mine) # {}
      BY <1>1, <1>11, <3>1, InstantiatedIsRegistered
    <3> QED BY <1>1, <1>5, <1>8, <1>11, <3>2
  <2>2. typed_suites' = Put(typed_suites, mine, TRUE)
    BY <1>3, <1>11, <2>1 DEF RegisterInstantiation
  <2>3. /\ typed_suites' \in [Registrations -> BOOLEAN]
        /\ \A s \in Registrations : typed_suites'[s] = IF s = mine THEN TRUE ELSE typed_suites[s]
    BY <1>3, <2>1, <2>2 DEF Put
  <2> QED BY <1>2, <1>3, <1>6, <1>11, <2>1, <2>3
<1> QED BY <1>9, <1>10, <1>11

LEMMA ListedStays ==
  ASSUME ListedTruly, KnowsTyped, RegTyped, NEW x, Adds(x),
         \/ Decl(x).decl \notin {"TYPED_TEST_P", "REGISTER_TYPED"}
         \/ Decl(x).decl = "TYPED_TEST_P" /\ ~ typed_state[<<x[1], Decl(x).suite>>].registered
         \/ Decl(x).decl = "REGISTER_TYPED" /\ ListedRight(typed_state[<<x[1], Decl(x).suite>>], Decl(x).names)
  PROVE  ListedTruly'
<1>1. /\ SuiteNames' = SuiteNames /\ Decl(x).suite \in SuiteNames /\ x[1] \in DOMAIN program
      /\ \A y : Decl(y)' = Decl(y)
  BY AddsStays DEF Adds
<1>2. /\ \A kind, s : Of(kind, s)' = Of(kind, s) \union IF Decl(x).decl = kind /\ Decl(x).suite = s THEN {x} ELSE {}
      /\ \A y \in Declared : y[1] = x[1] => y[2] < x[2]
  BY DEF Adds
<1> SUFFICES ASSUME NEW s \in SuiteNames, NEW y \in Of("REGISTER_TYPED", s)'
             PROVE  /\ IsInjective(Decl(y).names) /\ ToSet(Decl(y).names) = NamedIn(y[1], s)'
                    /\ \A z \in Of("TYPED_TEST_P", s)' : z[1] = y[1] => z[2] < y[2]
  BY <1>1 DEF ListedTruly, IsInjective, ToSet
<1>3. NamedIn(y[1], s)' = NamedIn(y[1], s) \union
        IF Decl(x).decl = "TYPED_TEST_P" /\ Decl(x).suite = s /\ x[1] = y[1] THEN {Decl(x).test} ELSE {}
  BY NamedInGrows
<1>4. CASE y \in Of("REGISTER_TYPED", s)
  <2>1. /\ IsInjective(Decl(y).names) /\ ToSet(Decl(y).names) = NamedIn(y[1], s)
        /\ \A z \in Of("TYPED_TEST_P", s) : z[1] = y[1] => z[2] < y[2]
    BY <1>4 DEF ListedTruly
  <2>2. ~ (Decl(x).decl = "TYPED_TEST_P" /\ Decl(x).suite = s /\ x[1] = y[1])
    BY <1>1, <1>4 DEF KnowsTyped
  <2> QED BY <1>2, <1>3, <2>1, <2>2
<1>5. CASE y \notin Of("REGISTER_TYPED", s)
  <2>1. y = x /\ Decl(x).decl = "REGISTER_TYPED" /\ Decl(x).suite = s
    BY <1>2, <1>5
  <2>2. typed_state[<<x[1], s>>].registered_tests = NamedIn(x[1], s)
    BY <1>1, <2>1 DEF KnowsTyped
  <2>3. IsInjective(Decl(y).names) /\ ToSet(Decl(y).names) = NamedIn(y[1], s)'
    BY <1>3, <2>1, <2>2 DEF ListedRight
  <2>4. Of("TYPED_TEST_P", s)' = Of("TYPED_TEST_P", s) /\ Of("TYPED_TEST_P", s) \subseteq Declared
    BY <1>2, <2>1, OfMember
  <2> QED BY <1>2, <2>1, <2>3, <2>4
<1> QED BY <1>4, <1>5

LEMMA NextPlace ==
  ASSUME RegTyped, NEW u \in DOMAIN program, Declare(u)
  PROVE  Adds(NextOf(u)) /\ NextOf(u)[1] = u /\ NextOf(u)[2] = done[u] + 1 /\ stage \in {"static", "main"}
BY DeclareAdds DEF NextOf, Declare

(* The registries know one declaration more. *)
LEMMA KnownStays ==
  ASSUME RegTyped, Known, NEW u \in DOMAIN program, Declare(u), stage' # "died"
  PROVE  Known'
<1>0. PICK x : x = NextOf(u)
  OBVIOUS
<1> DEFINE d == Decl(x)
<1>1. Adds(x) /\ x[1] = u /\ x[2] = done[x[1]] + 1
  BY <1>0, NextPlace
<1>2. /\ KnowsTests /\ KnowsFixtures /\ KnowsIgnored /\ KnowsTyped /\ KnowsSuites /\ ListedTruly
  BY DEF Known
<1>3. \/ d.decl = "TEST" /\ DeclareTest(d)
      \/ d.decl = "TEST_P" /\ DeclareTestP(x)
      \/ d.decl = "INSTANTIATE" /\ DeclareInstantiation(x)
      \/ d.decl = "ALLOW" /\ MarkAsIgnored(d)
      \/ d.decl = "TYPED_TEST" /\ DeclareTypedTest(d)
      \/ d.decl = "TYPED_TEST_P" /\ AddTestName(u, d)
      \/ d.decl = "REGISTER_TYPED" /\ VerifyRegisteredTestNames(u, d)
      \/ d.decl = "INSTANTIATE_TYPED" /\ InstantiateTyped(u, d)
  BY <1>0 DEF Declare, DeclareTyped, NextOf
<1>4. ~ Dies
  BY DEF Dies
<1>5. KnowsTests'
  <2>1. \/ d.decl \notin {"TEST_P", "INSTANTIATE"} /\ UNCHANGED <<tests, instantiations>>
        \/ /\ d.decl = "TEST_P" /\ UNCHANGED instantiations
           /\ tests' = [tests EXCEPT ![d.suite] = Append(@, x)]
        \/ /\ d.decl = "INSTANTIATE" /\ UNCHANGED tests
           /\ instantiations' = [instantiations EXCEPT ![d.suite] = Append(@, x)]
    BY <1>3, <1>4 DEF DeclareTest, DeclareTestP, DeclareInstantiation, MarkAsIgnored, DeclareTypedTest,
                      AddTestName, VerifyRegisteredTestNames, InstantiateTyped, tables
  <2> QED BY <1>1, <1>2, <2>1, TestsStay
<1>6. KnowsFixtures'
  <2>1. \/ d.decl \notin {"TEST_P", "INSTANTIATE"} /\ UNCHANGED <<fixture, suite_infos>>
        \/ d.decl \in {"TEST_P", "INSTANTIATE"} /\ ~ OtherFixture(d) /\ Holder(d)
    BY <1>3, <1>4 DEF DeclareTest, DeclareTestP, DeclareInstantiation, MarkAsIgnored, DeclareTypedTest,
                      AddTestName, VerifyRegisteredTestNames, InstantiateTyped, tables
  <2> QED BY <1>1, <1>2, <2>1, FixturesStay
<1>7. KnowsIgnored'
  <2>1. \/ d.decl # "ALLOW" /\ UNCHANGED ignored
        \/ d.decl = "ALLOW" /\ ignored' = ignored \union {d.suite}
    BY <1>3, <1>4 DEF DeclareTest, DeclareTestP, DeclareInstantiation, MarkAsIgnored, DeclareTypedTest,
                      AddTestName, VerifyRegisteredTestNames, InstantiateTyped, tables
  <2> QED BY <1>1, <1>2, <2>1, IgnoredStays
<1>8. KnowsTyped'
  <2>1. \/ d.decl \notin {"TYPED_TEST_P", "REGISTER_TYPED"} /\ UNCHANGED typed_state
        \/ /\ d.decl = "TYPED_TEST_P"
           /\ typed_state' = [typed_state EXCEPT ![<<x[1], d.suite>>].registered_tests = @ \union {d.test}]
        \/ /\ d.decl = "REGISTER_TYPED"
           /\ typed_state' = [typed_state EXCEPT ![<<x[1], d.suite>>].registered = TRUE]
    BY <1>1, <1>3, <1>4 DEF DeclareTest, DeclareTestP, DeclareInstantiation, MarkAsIgnored, DeclareTypedTest,
                      AddTestName, VerifyRegisteredTestNames, InstantiateTyped, tables
  <2> QED BY <1>1, <1>2, <2>1, TypedStays
<1>9. KnowsSuites'
  <2>1. \/ d.decl \notin {"REGISTER_TYPED", "INSTANTIATE_TYPED"} /\ UNCHANGED typed_suites
        \/ d.decl = "REGISTER_TYPED" /\ RegisterTestSuite(d.suite)
        \/ d.decl = "INSTANTIATE_TYPED" /\ RegisterInstantiation(d.suite)
    BY <1>3, <1>4 DEF DeclareTest, DeclareTestP, DeclareInstantiation, MarkAsIgnored, DeclareTypedTest,
                      AddTestName, VerifyRegisteredTestNames, InstantiateTyped, tables
  <2> QED BY <1>1, <1>2, <2>1, SuitesStay
<1>10. ListedTruly'
  <2>1. \/ d.decl \notin {"TYPED_TEST_P", "REGISTER_TYPED"}
        \/ d.decl = "TYPED_TEST_P" /\ ~ typed_state[<<x[1], d.suite>>].registered
        \/ d.decl = "REGISTER_TYPED" /\ ListedRight(typed_state[<<x[1], d.suite>>], d.names)
    BY <1>1, <1>3, <1>4 DEF AddTestName, VerifyRegisteredTestNames
  <2> QED BY <1>1, <1>2, <2>1, ListedStays
<1> QED BY <1>5, <1>6, <1>7, <1>8, <1>9, <1>10 DEF Known

(* A declaration that the program dies of is a mistake. *)
LEMMA DeclareDiesOfMistake ==
  ASSUME RegTyped, Known, NEW u \in DOMAIN program, Declare(u), stage' = "died"
  PROVE  Mistaken'
<1>0. PICK x : x = NextOf(u)
  OBVIOUS
<1> DEFINE d == Decl(x)
<1>1. Adds(x) /\ x[1] = u /\ x[2] = done[u] + 1 /\ stage \in {"static", "main"}
  BY <1>0, NextPlace
<1>2. /\ \A y : Decl(y)' = Decl(y)
      /\ Declared' = Declared \union {x} /\ x \notin Declared /\ d.suite \in SuiteNames
      /\ \A y \in Declared : y[1] = x[1] => y[2] < x[2]
      /\ u \in DOMAIN program
  BY <1>1, AddsStays DEF Adds
<1>3. /\ KnowsFixtures /\ KnowsTyped
  BY DEF Known
<1>4. \/ d.decl \in {"TEST_P", "INSTANTIATE"} /\ OtherFixture(d)
      \/ d.decl = "TYPED_TEST_P" /\ typed_state[<<u, d.suite>>].registered
      \/ d.decl = "REGISTER_TYPED" /\ ~ ListedRight(typed_state[<<u, d.suite>>], d.names)
      \/ d.decl = "INSTANTIATE_TYPED" /\ \E n \in DOMAIN d.names : d.names[n] \notin typed_state[<<u, d.suite>>].registered_tests
  BY <1>0, <1>1 DEF Declare, DeclareTyped, NextOf, DeclareTest, DeclareTestP, DeclareInstantiation, MarkAsIgnored,
        DeclareTypedTest, AddTestName, VerifyRegisteredTestNames, InstantiateTyped
<1>5. \A kind : Kind(kind, Declared)' = {y \in Declared' : Decl(y).decl = kind}
  BY <1>2 DEF Kind
<1>6. \A kind, s : OfSuite(s, Kind(kind, Declared))' = {y \in Declared' : Decl(y).decl = kind /\ Decl(y).suite = s}
  BY <1>2, <1>5 DEF OfSuite
<1>7. CASE d.decl \in {"TEST_P", "INSTANTIATE"} /\ OtherFixture(d)
  <2>1. d.suite \in DOMAIN fixture /\ fixture[d.suite] # d.fixture
    BY <1>7 DEF OtherFixture
  <2>2. PICK y \in Of("TEST_P", d.suite) \union Of("INSTANTIATE", d.suite) : Decl(y).fixture = fixture[d.suite]
    BY <1>3, <2>1 DEF KnowsFixtures
  <2>3. y \in Declared /\ Decl(y).decl \in {"TEST_P", "INSTANTIATE"} /\ Decl(y).suite = d.suite
    BY <2>2, OfMember
  <2>4. x \in Declared' /\ y \in Declared'
    BY <1>2, <2>3
  <2>5. /\ x \in (Kind("TEST_P", Declared) \union Kind("INSTANTIATE", Declared))'
        /\ y \in (Kind("TEST_P", Declared) \union Kind("INSTANTIATE", Declared))'
    BY <1>5, <1>7, <2>3, <2>4
  <2>6. (Decl(x)').suite = (Decl(y)').suite /\ (Decl(x)').fixture # (Decl(y)').fixture
    BY <1>2, <2>1, <2>2, <2>3
  <2> QED BY <2>5, <2>6 DEF Mistaken, TwoFixtures
<1>8. CASE d.decl = "TYPED_TEST_P" /\ typed_state[<<u, d.suite>>].registered
  <2>1. PICK y \in Of("REGISTER_TYPED", d.suite) : y[1] = u
    BY <1>2, <1>3, <1>8 DEF KnowsTyped
  <2>2. y \in Declared /\ Decl(y).decl = "REGISTER_TYPED" /\ Decl(y).suite = d.suite
    BY <2>1, OfMember
  <2>3. y[1] = x[1] /\ y[2] < x[2]
    BY <1>1, <1>2, <2>1, <2>2
  <2>4. x \in Kind("TYPED_TEST_P", Declared)'
    BY <1>2, <1>5, <1>8
  <2>5. y \in OfSuite(d.suite, Kind("REGISTER_TYPED", Declared))'
    BY <1>2, <2>2 DEF OfSuite, Kind
  <2>6. d = (Decl(x))'
    BY <1>2
  <2> QED BY <2>3, <2>4, <2>5, <2>6 DEF Mistaken, NamedAfterList
<1>9. CASE d.decl = "REGISTER_TYPED" /\ ~ ListedRight(typed_state[<<u, d.suite>>], d.names)
  <2>1. typed_state[<<u, d.suite>>].registered_tests = NamedIn(u, d.suite)
    BY <1>2, <1>3 DEF KnowsTyped
  <2>2. x \in Kind("REGISTER_TYPED", Declared)' /\ d = (Decl(x))'
    BY <1>2, <1>5, <1>9
  <2>3. CASE ~ IsInjective(d.names)
    BY <2>2, <2>3 DEF Mistaken, MisListed, IsInjective
  <2>4. CASE ToSet(d.names) # NamedIn(u, d.suite)
    <3>1. {z \in OfSuite(d.suite, Kind("TYPED_TEST_P", Declared))' : z[1] = x[1] /\ z[2] < x[2]} =
            {y \in Of("TYPED_TEST_P", d.suite) : y[1] = u}
      <4>1. ASSUME NEW z
            PROVE  z \in OfSuite(d.suite, Kind("TYPED_TEST_P", Declared))' <=> z \in Of("TYPED_TEST_P", d.suite)
        <5>1. z \in OfSuite(d.suite, Kind("TYPED_TEST_P", Declared))' <=>
                z \in Declared' /\ Decl(z).decl = "TYPED_TEST_P" /\ Decl(z).suite = d.suite
          BY <1>2 DEF OfSuite, Kind
        <5> QED BY <1>2, <1>9, <5>1, OfMember
      <4>2. \A z \in Of("TYPED_TEST_P", d.suite) : z[1] = x[1] => z[2] < x[2]
        BY <1>2, OfMember
      <4> QED BY <1>1, <4>1, <4>2
    <3>2. NamedIn(u, d.suite) =
            {(Decl(y)').test : y \in {z \in OfSuite(d.suite, Kind("TYPED_TEST_P", Declared))' : z[1] = x[1] /\ z[2] < x[2]}}
      BY <1>2, <3>1 DEF NamedIn
    <3> QED BY <2>2, <2>4, <3>2 DEF Mistaken, MisListed, NamedBefore
  <2> QED BY <1>9, <2>1, <2>3, <2>4 DEF ListedRight
<1>10. CASE d.decl = "INSTANTIATE_TYPED" /\ \E n \in DOMAIN d.names : d.names[n] \notin typed_state[<<u, d.suite>>].registered_tests
  <2>1. x \in PlacesOf(program) /\ x[2] \in Nat
    BY <1>1 DEF Adds
  <2>2. PICK y \in Of("REGISTER_TYPED", d.suite) : y[1] = u /\ Decl(y).names = d.names
    BY <1>1, <1>10, <2>1, InstantiatedIsRegistered
  <2>3. ToSet(d.names) = NamedIn(u, d.suite)
    BY <1>2, <2>2 DEF Known, ListedTruly
  <2>4. typed_state[<<u, d.suite>>].registered_tests = NamedIn(u, d.suite)
    BY <1>2, <1>3 DEF KnowsTyped
  <2> QED BY <1>10, <2>3, <2>4 DEF ToSet
<1> QED BY <1>4, <1>7, <1>8, <1>9, <1>10

--------------------------------------------------------------------------------
(* What a declaration registers, it is a reason for. *)
LEMMA MeantByKind ==
  ASSUME NEW x, NEW d, d = Decl(x)
  PROVE  /\ d.decl = "TEST" => MeantBy(x) = OneTest(d)
         /\ d.decl = "TYPED_TEST" => MeantBy(x) = TestForTypes(d)
         /\ d.decl = "INSTANTIATE_TYPED" => MeantBy(x) = TestsForTypes(d)
         /\ d.decl = "INSTANTIATE" => MeantBy(x) = IF x \in in_time THEN TestsForValues(d) ELSE {}
         /\ d.decl \in {"TEST_P", "ALLOW", "TYPED_TEST_P", "REGISTER_TYPED"} => MeantBy(x) = {}
BY DEF MeantBy

LEMMA KindOfPlace ==
  ASSUME RegTyped, NEW x \in PlacesOf(program)
  PROVE  Decl(x).decl \in Kinds
BY ProgramCompiles DEF RegTyped, Compiles, Decl

LEMMA MeantByStays ==
  ASSUME RegTyped, NEW x, Adds(x), NEW y \in PlacesOf(program), parameterized_tests_registered \/ Decl(y).decl # "INSTANTIATE"
  PROVE  MeantBy(y)' = MeantBy(y)
<1>1. \A z : Decl(z)' = Decl(z)
  BY AddsStays
<1>2. \A e : /\ OneTest(e)' = OneTest(e) /\ TestForTypes(e)' = TestForTypes(e)
            /\ TestsForTypes(e)' = TestsForTypes(e)
  BY DEF OneTest, TestForTypes, TestsForTypes, Test, ToSet
<1> DEFINE d == Decl(y)
<1>3. CASE d.decl # "INSTANTIATE"
  <2>1. d.decl \in {"TEST", "TYPED_TEST", "INSTANTIATE_TYPED", "TEST_P", "ALLOW", "TYPED_TEST_P", "REGISTER_TYPED"}
    BY <1>3, KindOfPlace DEF Kinds
  <2> QED BY <1>1, <1>2, <2>1 DEF MeantBy
<1>4. CASE parameterized_tests_registered
  <2>1. in_time' = in_time
    BY <1>4 DEF Adds
  <2>2. \A s : Patterns(s)' = Patterns(s)
    BY <1>1, <2>1 DEF Patterns, OfSuite, Kind
  <2>3. \A e : TestsForValues(e)' = TestsForValues(e)
    BY <2>2 DEF TestsForValues, Test
  <2>4. d.decl \in Kinds
    BY KindOfPlace
  <2> QED BY <1>1, <1>2, <2>1, <2>3, <2>4 DEF MeantBy, Kinds
<1> QED BY <1>3, <1>4

LEMMA MissingStays ==
  ASSUME RegTyped, NEW x, Adds(x), parameterized_tests_registered, NEW m
  PROVE  Missing(m)' = Missing(m)
<1>1. SuiteNames' = SuiteNames /\ in_time' = in_time /\ \A z : Decl(z)' = Decl(z)
  BY AddsStays DEF Adds
<1>2. \A k : Kind(k, in_time)' = Kind(k, in_time)
  BY <1>1 DEF Kind
<1>3. \A s, k : OfSuite(s, Kind(k, in_time))' = OfSuite(s, Kind(k, in_time))
  BY <1>1, <1>2 DEF OfSuite
<1>4. \A s, j, k : OfSuite(s, Kind(j, in_time) \union Kind(k, in_time))' = OfSuite(s, Kind(j, in_time) \union Kind(k, in_time))
  BY <1>1, <1>2 DEF OfSuite
<1>5. \A s, k : \A z \in OfSuite(s, Kind(k, in_time)) : MeantBy(z)' = MeantBy(z)
  <2>1. \A s, k : OfSuite(s, Kind(k, in_time)) \subseteq PlacesOf(program)
    BY DeclaredPlaces DEF OfSuite, Kind, RegTyped
  <2> QED BY <2>1, MeantByStays
<1>6. \A s : Allowed(s)' <=> Allowed(s)
  BY <1>3 DEF Allowed
<1>7. \A s : WantsValues(s)' <=> WantsValues(s)
  BY <1>3, <1>4, <1>5 DEF WantsValues
<1>8. \A s : WantsTypes(s)' <=> WantsTypes(s)
  BY <1>3 DEF WantsTypes
<1>9. \A n, s : Wanting(n, s)' <=> Wanting(n, s)
  BY <1>6, <1>7, <1>8 DEF Wanting
<1> QED BY <1>1, <1>9 DEF Missing, Synthetic, Test

LEMMA GivenMember ==
  ASSUME NEW g
  PROVE  g \in Given <=>
           \/ \E y \in Declared : g \in Owed(y) /\ (Decl(y).decl # "INSTANTIATE" \/ parameterized_tests_registered)
           \/ parameterized_tests_registered /\ g \in Missing("values") \union Missing("types")
<1>1. g \in Given <=>
        \/ \E y \in Declared : g \in OwedNow(y)
        \/ parameterized_tests_registered /\ g \in Missing("values") \union Missing("types")
  <2>1. g \in UNION {OwedNow(y) : y \in Declared} <=> \E y \in Declared : g \in OwedNow(y)
    OBVIOUS
  <2> QED BY <2>1 DEF Given
<1>2. \A y : g \in OwedNow(y) <=> g \in Owed(y) /\ (Decl(y).decl # "INSTANTIATE" \/ parameterized_tests_registered)
  BY DEF OwedNow
<1> QED BY <1>1, <1>2

LEMMA OwedTo ==
  ASSUME NEW x
  PROVE  /\ \A g \in Owed(x) : g[1] = <<"declared", x>>
         /\ \A m \in {"values", "types"} : \A g \in Missing(m) : g[1][1] = m /\ g[1] = <<g[1][1], g[1][2]>>
BY DEF Owed, Missing

LEMMA GivenGrows ==
  ASSUME RegTyped, NEW x, Adds(x)
  PROVE  /\ Given' = Given \union IF Decl(x).decl = "INSTANTIATE" THEN {} ELSE Owed(x)
         /\ Given \cap Owed(x) = {}
<1>1. /\ Declared' = Declared \union {x} /\ x \notin Declared /\ Declared' \subseteq PlacesOf(program) /\ in_time \subseteq Declared
      /\ UNCHANGED parameterized_tests_registered
      /\ parameterized_tests_registered => in_time' = in_time
      /\ \A y : Decl(y)' = Decl(y)
  BY AddsStays, DeclaredPlaces DEF Adds, RegTyped
<1>2. ASSUME NEW y \in PlacesOf(program), parameterized_tests_registered \/ Decl(y).decl # "INSTANTIATE"
      PROVE  Owed(y)' = Owed(y)
  BY <1>2, MeantByStays DEF Owed
<1>3. parameterized_tests_registered => Missing("values")' = Missing("values") /\ Missing("types")' = Missing("types")
  BY MissingStays
<1>4. Decl(x).decl = "INSTANTIATE" /\ parameterized_tests_registered => Owed(x) = {}
  BY <1>1, MeantByKind DEF Owed
<1>5. ASSUME NEW g
      PROVE  g \in Given' <=> g \in Given \/ (Decl(x).decl # "INSTANTIATE" /\ g \in Owed(x))
  <2>1. g \in Given' <=>
           \/ \E y \in Declared' : g \in Owed(y)' /\ (Decl(y).decl # "INSTANTIATE" \/ parameterized_tests_registered)
           \/ parameterized_tests_registered /\ g \in Missing("values")' \union Missing("types")'
    <3>1. Given' = (UNION {OwedNow(y)' : y \in Declared'})
                     \union IF parameterized_tests_registered THEN Missing("values")' \union Missing("types")' ELSE {}
      BY <1>1 DEF Given
    <3>2. \A y : OwedNow(y)' = IF Decl(y).decl = "INSTANTIATE" /\ ~ parameterized_tests_registered THEN {} ELSE Owed(y)'
      BY <1>1 DEF OwedNow
    <3>3. \A y : g \in OwedNow(y)' <=> g \in Owed(y)' /\ (Decl(y).decl # "INSTANTIATE" \/ parameterized_tests_registered)
      BY <3>2
    <3>4. g \in UNION {OwedNow(y)' : y \in Declared'} <=> \E y \in Declared' : g \in OwedNow(y)'
      OBVIOUS
    <3> QED BY <3>1, <3>3, <3>4
  <2> QED BY <1>1, <1>2, <1>3, <1>4, <2>1, GivenMember
<1>6. ASSUME NEW g \in Given, g \in Owed(x) PROVE FALSE
  <2>1. g[1] = <<"declared", x>>
    BY <1>6, OwedTo
  <2>2. CASE \E y \in Declared : g \in Owed(y)
    <3>1. PICK y \in Declared : g \in Owed(y)
      BY <2>2
    <3>2. g[1] = <<"declared", y>>
      BY <3>1, OwedTo
    <3> QED BY <1>1, <2>1, <3>1, <3>2
  <2>3. CASE g \in Missing("values") \union Missing("types")
    <3>1. g[1][1] = "values" \/ g[1][1] = "types"
      BY <2>3, OwedTo
    <3> QED BY <2>1, <3>1
  <2> QED BY <1>6, <2>2, <2>3, GivenMember
<1> QED BY <1>5, <1>6

LEMMA AccountedGrows ==
  ASSUME RegTyped, Accounted, NEW x, Adds(x), Decl(x).decl # "INSTANTIATE",
         NEW seq, IsSeq(seq), Accounts(seq, Owed(x)), registered' = registered \o seq
  PROVE  Accounted'
<1>1. Given' = Given \union Owed(x) /\ Given \cap Owed(x) = {}
  BY GivenGrows
<1>2. IsSeq(registered \o seq) /\ Accounts(registered \o seq, Given \union Owed(x))
  BY <1>1, JoinedAccounts DEF Accounted
<1>3. IsSeq(registered') /\ Accounts(registered', Given')
  BY <1>1, <1>2
<1> QED BY <1>3 DEF Accounted, Accounts, GivesReasons, IsSeq

LEMMA AccountedStays ==
  ASSUME RegTyped, Accounted, NEW x, Adds(x), UNCHANGED registered,
         Decl(x).decl \in {"TEST_P", "INSTANTIATE", "ALLOW", "TYPED_TEST_P", "REGISTER_TYPED"}
  PROVE  Accounted'
<1>1. Decl(x).decl # "INSTANTIATE" => Owed(x) = {}
  BY MeantByKind DEF Owed
<1>2. Given' = Given
  BY <1>1, GivenGrows
<1>3. registered' = registered /\ IsSeq(registered') /\ Accounts(registered', Given')
  BY <1>2 DEF Accounted
<1> QED BY <1>3 DEF Accounted, Accounts, GivesReasons, IsSeq

(* What a declaration registers, for all its types *)
LEMMA TuplesJoin ==
  ASSUME NEW a, NEW b, NEW c
  PROVE  <<>> \o <<b, c>> = <<b, c>> /\ <<a>> \o <<b, c>> = <<a, b, c>>
<1>1. <<b, c>> \in Seq({b, c})
  OBVIOUS
<1>2. <<>> \o <<b, c>> = <<b, c>>
  BY <1>1, ConcatEmptySeq
<1>3. <<a>> \o <<b, c>> = <<a, b, c>>
  <2> DEFINE S == {a, b, c}
             s == <<a>> \o <<b, c>>
             t == <<a, b, c>>
  <2>1. <<a>> \in Seq(S) /\ <<b, c>> \in Seq(S) /\ Len(<<a>>) = 1 /\ Len(<<b, c>>) = 2 /\ t \in [1 .. 3 -> S]
    OBVIOUS
  <2> HIDE DEF S
  <2>2. /\ s \in Seq(S) /\ Len(s) = 3
        /\ \A n \in 1 .. 3 : s[n] = IF n <= 1 THEN <<a>>[n] ELSE <<b, c>>[n - 1]
    BY <2>1, ConcatProperties
  <2>3. s \in [1 .. 3 -> S]
    BY <2>2, LenProperties
  <2>4. s[1] = a /\ s[2] = b /\ s[3] = c
    BY <2>2
  <2> HIDE DEF s
  <2>5. \A n \in 1 .. 3 : s[n] = t[n]
    BY <2>4
  <2> HIDE DEF t
  <2>6. s = t
    BY <2>1, <2>3, <2>5
  <2> QED BY <2>6 DEF s, t
<1> QED BY <1>2, <1>3

TypesMeant(prefix, suite, test, types) ==
  {Test(prefix \o <<suite, n - 1>>, <<test>>, types[n]) : n \in DOMAIN types}

LEMMA ForTypesLists ==
  ASSUME NEW prefix, NEW suite, NEW test, NEW types, IsSeq(types), prefix = <<>> \/ \E p : prefix = <<p>>
  PROVE  Lists(ForTypes(prefix, suite, test, types), TypesMeant(prefix, suite, test, types))
<1> DEFINE s == ForTypes(prefix, suite, test, types)
<1>1. Len(types) \in Nat /\ DOMAIN types = 1 .. Len(types)
  BY SeqDomain
<1>2. DOMAIN s = DOMAIN types /\ \A n \in DOMAIN types : s[n] = Test(prefix \o <<suite, n - 1>>, <<test>>, types[n])
  BY DEF ForTypes
<1>3. s = [n \in 1 .. Len(types) |-> s[n]]
  BY <1>1 DEF ForTypes
<1> HIDE DEF s
<1>4. IsSeq(s)
  BY <1>1, <1>3, FunctionIsSeq
<1>5. Range(s) = TypesMeant(prefix, suite, test, types)
  BY <1>2 DEF Range, TypesMeant
<1>6. ASSUME NEW m \in DOMAIN s, NEW n \in DOMAIN s, s[m] = s[n] PROVE m = n
  <2>1. prefix \o <<suite, m - 1>> = prefix \o <<suite, n - 1>>
    BY <1>2, <1>6 DEF Test
  <2>2. m - 1 = n - 1
    <3>1. CASE prefix = <<>>
      <4>1. <<suite, m - 1>> = <<suite, n - 1>>
        BY <2>1, <3>1, TuplesJoin
      <4> QED BY <4>1
    <3>2. CASE \E p : prefix = <<p>>
      <4>1. PICK p : prefix = <<p>>
        BY <3>2
      <4>2. <<p, suite, m - 1>> = <<p, suite, n - 1>>
        BY <2>1, <4>1, TuplesJoin
      <4> QED BY <4>2
    <3> QED BY <3>1, <3>2
  <2> QED BY <1>1, <1>2, <2>2
<1> QED BY <1>4, <1>5, <1>6 DEF s, Lists, IsInjective

LEMMA ListedAccounts ==
  ASSUME NEW s, NEW S, Lists(s, S), NEW r
  PROVE  IsSeq(s) /\ Accounts(s, {r} \X S)
BY InjectiveAccounts DEF Lists

LEMMA TestAccounts ==
  ASSUME NEW x, Decl(x).decl = "TEST"
  PROVE  LET s == <<Test(<<Decl(x).suite>>, <<Decl(x).test>>, "")>> IN IsSeq(s) /\ Accounts(s, Owed(x))
<1> DEFINE t == Test(<<Decl(x).suite>>, <<Decl(x).test>>, "")
<1>1. MeantBy(x) = {t}
  BY MeantByKind DEF OneTest
<1> HIDE DEF t
<1>2. Lists(<<t>>, {t})
  BY DEF Lists, IsSeq, Range, IsInjective
<1> QED BY <1>1, <1>2, ListedAccounts DEF Owed, t

LEMMA TypedTestAccounts ==
  ASSUME RegTyped, NEW x \in PlacesOf(program), Decl(x).decl = "TYPED_TEST"
  PROVE  LET s == ForTypes(<<>>, Decl(x).suite, Decl(x).test, Decl(x).types) IN IsSeq(s) /\ Accounts(s, Owed(x))
<1> DEFINE d == Decl(x)
           s == ForTypes(<<>>, d.suite, d.test, d.types)
<1>1. IsSeq(d.types)
  BY ProgramCompiles DEF RegTyped, Compiles, Decl
<1>2. Lists(s, TypesMeant(<<>>, d.suite, d.test, d.types))
  BY <1>1, ForTypesLists
<1>3. TypesMeant(<<>>, d.suite, d.test, d.types) = TestForTypes(d)
  BY TuplesJoin DEF TestForTypes, TypesMeant
<1>4. MeantBy(x) = TestForTypes(d)
  BY MeantByKind
<1> HIDE DEF s, d
<1> QED BY <1>2, <1>3, <1>4, ListedAccounts DEF Owed, s, d

LEMMA InstantiateTypedAccounts ==
  ASSUME RegTyped, NEW x \in PlacesOf(program), Decl(x).decl = "INSTANTIATE_TYPED", IsInjective(Decl(x).names),
         IsSeq(Decl(x).names)
  PROVE  LET d == Decl(x)
             s == FlattenSeq([n \in DOMAIN d.names |-> ForTypes(<<d.prefix>>, d.suite, d.names[n], d.types)])
         IN  IsSeq(s) /\ Accounts(s, Owed(x))
<1> DEFINE d == Decl(x)
           N == Len(d.names)
           ss == [n \in DOMAIN d.names |-> ForTypes(<<d.prefix>>, d.suite, d.names[n], d.types)]
           TestsOf(k) == {Test(<<d.prefix, d.suite, n - 1>>, <<d.names[k]>>, d.types[n]) : n \in DOMAIN d.types}
           P == [k \in 1 .. N |-> {<<"declared", x>>} \X TestsOf(k)]
<1>1. IsSeq(d.types)
  BY ProgramCompiles DEF RegTyped, Compiles, Decl
<1>2. N \in Nat /\ DOMAIN d.names = 1 .. N
  BY SeqDomain
<1> HIDE DEF d
<1>3. ss = [k \in 1 .. N |-> ss[k]]
  BY <1>2
<1>4. ASSUME NEW k \in 1 .. N PROVE IsSeq(ss[k]) /\ Accounts(ss[k], P[k])
  <2>1. ss[k] = ForTypes(<<d.prefix>>, d.suite, d.names[k], d.types)
    BY <1>2
  <2>2. Lists(ss[k], TypesMeant(<<d.prefix>>, d.suite, d.names[k], d.types))
    <3> HIDE DEF ss
    <3> QED BY <1>1, <2>1, ForTypesLists
  <2>3. TypesMeant(<<d.prefix>>, d.suite, d.names[k], d.types) = TestsOf(k)
    BY TuplesJoin DEF TypesMeant
  <2> HIDE DEF ss, TestsOf
  <2>4. Lists(ss[k], TestsOf(k))
    BY <2>2, <2>3
  <2> QED BY <2>4, ListedAccounts
<1>5. ASSUME NEW j \in 1 .. N, NEW k \in 1 .. N, j # k PROVE P[j] \cap P[k] = {}
  <2>1. d.names[j] # d.names[k]
    BY <1>2, <1>5 DEF IsInjective, d
  <2>2. \A t \in TestsOf(j) : t.test = <<d.names[j]>>
    BY DEF Test
  <2>3. \A t \in TestsOf(k) : t.test = <<d.names[k]>>
    BY DEF Test
  <2> HIDE DEF TestsOf
  <2> QED BY <2>1, <2>2, <2>3
<1>6. AllOf(P, N) = Owed(x)
  <2>1. MeantBy(x) = TestsForTypes(d)
    BY MeantByKind DEF d
  <2>2. ASSUME NEW t PROVE t \in TestsForTypes(d) <=> \E k \in 1 .. N : t \in TestsOf(k)
    <3>1. ASSUME t \in TestsForTypes(d) PROVE \E k \in 1 .. N : t \in TestsOf(k)
      <4>1. PICK n \in DOMAIN d.types, name \in ToSet(d.names) : t = Test(<<d.prefix, d.suite, n - 1>>, <<name>>, d.types[n])
        BY <3>1 DEF TestsForTypes
      <4>2. PICK k \in 1 .. N : name = d.names[k]
        BY <1>2 DEF ToSet
      <4> QED BY <4>1, <4>2
    <3>2. ASSUME NEW k \in 1 .. N, t \in TestsOf(k) PROVE t \in TestsForTypes(d)
      <4>1. PICK n \in DOMAIN d.types : t = Test(<<d.prefix, d.suite, n - 1>>, <<d.names[k]>>, d.types[n])
        BY <3>2
      <4>2. d.names[k] \in ToSet(d.names)
        BY <1>2 DEF ToSet
      <4> QED BY <4>1, <4>2 DEF TestsForTypes
    <3> QED BY <3>1, <3>2
  <2>3. \A k \in 1 .. N : P[k] = {<<"declared", x>>} \X TestsOf(k)
    OBVIOUS
  <2> HIDE DEF TestsOf, P
  <2>4. \A g : g \in AllOf(P, N) <=> \E k \in 1 .. N : g \in {<<"declared", x>>} \X TestsOf(k)
    BY <2>3 DEF AllOf
  <2>5. \A g : g \in Owed(x) <=> g \in {<<"declared", x>>} \X TestsForTypes(d)
    BY <2>1 DEF Owed
  <2>6. ASSUME NEW g PROVE g \in AllOf(P, N) <=> g \in Owed(x)
    <3>1. g \in {<<"declared", x>>} \X TestsForTypes(d) <=>
            \E t : t \in TestsForTypes(d) /\ g = <<<<"declared", x>>, t>>
      OBVIOUS
    <3>2. \A k : g \in {<<"declared", x>>} \X TestsOf(k) <=> \E t : t \in TestsOf(k) /\ g = <<<<"declared", x>>, t>>
      OBVIOUS
    <3> QED BY <2>2, <2>4, <2>5, <3>1, <3>2
  <2> QED BY <2>6
<1> HIDE DEF N, ss, P
<1>7. IsSeq(FlattenSeq(ss)) /\ Accounts(FlattenSeq(ss), AllOf(P, N))
  BY <1>2, <1>3, <1>4, <1>5, FlattenAccounts
<1> QED BY <1>6, <1>7 DEF ss, d

(* One declaration more is accounted for. *)
LEMMA DeclareAccounted ==
  ASSUME RegTyped, Known, Accounted, NEW u \in DOMAIN program, Declare(u), stage' # "died"
  PROVE  Accounted'
<1>0. PICK x : x = NextOf(u)
  OBVIOUS
<1> DEFINE d == Decl(x)
<1>1. Adds(x) /\ x[1] = u /\ x[2] = done[x[1]] + 1 /\ x \in PlacesOf(program) /\ x[2] \in Nat
  BY <1>0, NextPlace DEF Adds
<1>2. \/ d.decl = "TEST" /\ DeclareTest(d)
      \/ d.decl = "TEST_P" /\ DeclareTestP(x)
      \/ d.decl = "INSTANTIATE" /\ DeclareInstantiation(x)
      \/ d.decl = "ALLOW" /\ MarkAsIgnored(d)
      \/ d.decl = "TYPED_TEST" /\ DeclareTypedTest(d)
      \/ d.decl = "TYPED_TEST_P" /\ AddTestName(u, d)
      \/ d.decl = "REGISTER_TYPED" /\ VerifyRegisteredTestNames(u, d)
      \/ d.decl = "INSTANTIATE_TYPED" /\ InstantiateTyped(u, d)
  BY <1>0 DEF Declare, DeclareTyped, NextOf
<1>3. ~ Dies
  BY DEF Dies
<1>4. CASE d.decl \in {"TEST_P", "INSTANTIATE", "ALLOW", "TYPED_TEST_P", "REGISTER_TYPED"}
  <2>1. UNCHANGED registered
    BY <1>2, <1>3, <1>4 DEF DeclareTestP, DeclareInstantiation, MarkAsIgnored, AddTestName, VerifyRegisteredTestNames
  <2> QED BY <1>1, <1>4, <2>1, AccountedStays
<1>5. CASE d.decl = "TEST"
  <2> DEFINE s == <<Test(<<d.suite>>, <<d.test>>, "")>>
  <2>1. registered' = registered \o s
    BY <1>2, <1>5 DEF DeclareTest, Register
  <2>2. IsSeq(s) /\ Accounts(s, Owed(x))
    BY <1>5, TestAccounts
  <2> HIDE DEF s
  <2> QED BY <1>1, <1>5, <2>1, <2>2, AccountedGrows
<1>6. CASE d.decl = "TYPED_TEST"
  <2> DEFINE s == ForTypes(<<>>, d.suite, d.test, d.types)
  <2>1. registered' = registered \o s
    BY <1>2, <1>6 DEF DeclareTypedTest, Register
  <2>2. IsSeq(s) /\ Accounts(s, Owed(x))
    BY <1>1, <1>6, TypedTestAccounts
  <2> HIDE DEF s
  <2> QED BY <1>1, <1>6, <2>1, <2>2, AccountedGrows
<1>7. CASE d.decl = "INSTANTIATE_TYPED"
  <2> DEFINE s == FlattenSeq([n \in DOMAIN d.names |-> ForTypes(<<d.prefix>>, d.suite, d.names[n], d.types)])
  <2>1. registered' = registered \o s
    BY <1>2, <1>3, <1>7 DEF InstantiateTyped, Register
  <2>2. PICK y \in Of("REGISTER_TYPED", d.suite) : y[1] = u /\ Decl(y).names = d.names
    BY <1>1, <1>7, InstantiatedIsRegistered
  <2>3. y \in Declared /\ Decl(y).decl = "REGISTER_TYPED" /\ Decl(y).suite = d.suite
    BY <2>2, OfMember
  <2>4. y \in PlacesOf(program) /\ d.suite \in SuiteNames
    BY <1>1, <2>3, DeclaredPlaces
  <2>5. IsSeq(d.names)
    BY <2>2, <2>3, <2>4, ProgramCompiles DEF RegTyped, Compiles, Decl
  <2>6. IsInjective(d.names)
    BY <2>2, <2>4 DEF Known, ListedTruly
  <2>7. IsSeq(s) /\ Accounts(s, Owed(x))
    BY <1>1, <1>7, <2>5, <2>6, InstantiateTypedAccounts
  <2> HIDE DEF s
  <2> QED BY <1>1, <1>7, <2>1, <2>7, AccountedGrows
<1> QED BY <1>2, <1>4, <1>5, <1>6, <1>7

LEMMA NamesStayRight ==
  ASSUME NamesRight, NEW u \in DOMAIN program, RegTyped, Declare(u)
  PROVE  NamesRight'
<1>0. PICK x : x = NextOf(u)
  OBVIOUS
<1>1. Adds(x)
  BY <1>0, NextPlace
<1>2. UNCHANGED parameterized_tests_registered /\ \A y : Decl(y)' = Decl(y)
  BY <1>1, AddsStays DEF Adds
<1>3. CASE parameterized_tests_registered
  <2>1. in_time' = in_time
    BY <1>1, <1>3 DEF Adds
  <2>2. \A kind : Kind(kind, in_time)' = Kind(kind, in_time)
    BY <1>2, <2>1 DEF Kind
  <2>3. \A s, kind : OfSuite(s, Kind(kind, in_time))' = OfSuite(s, Kind(kind, in_time))
    BY <1>2, <2>2 DEF OfSuite
  <2>4. \A e : FitNames(NamesOf(e))' <=> FitNames(NamesOf(e))
    BY DEF FitNames, NamesOf, ParamName, InvalidName, Range, IsInjective
  <2> QED BY <1>2, <1>3, <2>2, <2>3, <2>4 DEF NamesRight
<1>4. CASE ~ parameterized_tests_registered
  BY <1>2, <1>4 DEF NamesRight
<1> QED BY <1>3, <1>4

--------------------------------------------------------------------------------
(* What the registration of parameterised tests adds *)
ExpandMeant(t, d) ==
  LET values == Meant(d.generator)
  IN  {Test(Prefixed(d.prefix, d.suite), <<t, ParamName(d.naming, values[n], n)>>, ToString(values[n])) :
         n \in DOMAIN values}
ReasonsOf(s, t) == UNION {{<<"declared", x>>} \X ExpandMeant(t, Decl(x)) : x \in Of("INSTANTIATE", s)}
OwedIn(s) == UNION {Owed(x) : x \in Of("INSTANTIATE", s)}
MissingOf(m, s) == IF Wanting(m, s) THEN {<<<<m, s>>, Synthetic(m, s)>>} ELSE {}

LEMMA ValuesAreMeant ==
  ASSUME RegTyped, GeneratorsRight, NEW x \in PlacesOf(program), Decl(x).decl = "INSTANTIATE"
  PROVE  ValuesOf(Decl(x).generator) = Meant(Decl(x).generator) /\ IsSeq(Meant(Decl(x).generator))
BY ProgramCompiles DEF RegTyped, Compiles, Decl, GeneratorsRight

LEMMA NamesFit ==
  ASSUME RegTyped, Known, ~ BadNames, NEW s \in SuiteNames, tests[s] # <<>>, NEW x \in Of("INSTANTIATE", s)
  PROVE  FitNames(NamesOf(Decl(x)))
<1>1. s \in DOMAIN fixture
  BY DEF Known, KnowsFixtures
<1>2. Range(instantiations[s]) = Of("INSTANTIATE", s)
  BY DEF Known, KnowsTests, Lists
<1>3. PICK k \in DOMAIN instantiations[s] : instantiations[s][k] = x
  BY <1>2 DEF Range
<1> QED BY <1>1, <1>3 DEF BadNames

LEMMA ExpandLists ==
  ASSUME RegTyped, GeneratorsRight, NEW x \in PlacesOf(program), Decl(x).decl = "INSTANTIATE",
         FitNames(NamesOf(Decl(x))), NEW t
  PROVE  Lists(Expand(t, Decl(x)), ExpandMeant(t, Decl(x)))
<1> DEFINE d == Decl(x)
           values == ValuesOf(d.generator)
           s == Expand(t, d)
<1>1. values = Meant(d.generator) /\ IsSeq(values)
  BY ValuesAreMeant
<1>2. Len(values) \in Nat /\ DOMAIN values = 1 .. Len(values)
  BY <1>1, SeqDomain
<1> HIDE DEF d, values
<1>3. /\ DOMAIN s = DOMAIN values
      /\ \A n \in DOMAIN values :
           s[n] = Test(Prefixed(d.prefix, d.suite), <<t, ParamName(d.naming, values[n], n)>>, ToString(values[n]))
  BY DEF Expand, values
<1>4. s = [n \in 1 .. Len(values) |-> s[n]]
  BY <1>2 DEF Expand, values
<1> HIDE DEF s
<1>5. IsSeq(s)
  BY <1>2, <1>4, FunctionIsSeq
<1>6. Range(s) = ExpandMeant(t, d)
  BY <1>1, <1>3 DEF Range, ExpandMeant
<1>7. ASSUME NEW m \in DOMAIN s, NEW n \in DOMAIN s, s[m] = s[n] PROVE m = n
  <2>1. ParamName(d.naming, values[m], m) = ParamName(d.naming, values[n], n)
    <3> DEFINE a == ParamName(d.naming, values[m], m)
               b == ParamName(d.naming, values[n], n)
    <3>1. <<t, a>> = <<t, b>>
      BY <1>3, <1>7 DEF Test
    <3> HIDE DEF a, b
    <3>2. a = b
      BY <3>1
    <3> QED BY <3>2 DEF a, b
  <2>2. DOMAIN NamesOf(d) = DOMAIN values /\ \A k \in DOMAIN values : NamesOf(d)[k] = ParamName(d.naming, values[k], k)
    BY DEF NamesOf, values
  <2>3. IsInjective(NamesOf(d))
    BY DEF FitNames, d
  <2> QED BY <1>3, <1>7, <2>1, <2>2, <2>3 DEF IsInjective
<1> QED BY <1>5, <1>6, <1>7 DEF Lists, IsInjective, d, s

LEMMA ExpandTestAccounts ==
  ASSUME RegTyped, Known, ~ BadNames, GeneratorsRight, NEW s \in SuiteNames, tests[s] # <<>>, NEW t
  PROVE  IsSeq(ExpandTest(s, t)) /\ Accounts(ExpandTest(s, t), ReasonsOf(s, t))
<1> DEFINE I == instantiations[s]
           N == Len(I)
           ss == [k \in DOMAIN I |-> Expand(t, Decl(I[k]))]
           P == [k \in 1 .. N |-> {<<"declared", I[k]>>} \X ExpandMeant(t, Decl(I[k]))]
<1>1. Lists(I, Of("INSTANTIATE", s))
  BY DEF Known, KnowsTests
<1>2. N \in Nat /\ DOMAIN I = 1 .. N
  BY <1>1, SeqDomain DEF Lists
<1> HIDE DEF I, N
<1>3. \A k \in 1 .. N : I[k] \in Of("INSTANTIATE", s)
  BY <1>1, <1>2 DEF Lists, Range
<1>4. ss = [k \in 1 .. N |-> ss[k]]
  BY <1>2
<1>5. ASSUME NEW k \in 1 .. N PROVE IsSeq(ss[k]) /\ Accounts(ss[k], P[k])
  <2>1. I[k] \in PlacesOf(program) /\ Decl(I[k]).decl = "INSTANTIATE"
    BY <1>3, OfMember, DeclaredPlaces
  <2>2. FitNames(NamesOf(Decl(I[k])))
    BY <1>3, NamesFit
  <2>3. Lists(Expand(t, Decl(I[k])), ExpandMeant(t, Decl(I[k])))
    BY <2>1, <2>2, ExpandLists
  <2>4. ss[k] = Expand(t, Decl(I[k]))
    BY <1>2
  <2> HIDE DEF ss
  <2> QED BY <2>3, <2>4, ListedAccounts
<1>6. ASSUME NEW j \in 1 .. N, NEW k \in 1 .. N, j # k PROVE P[j] \cap P[k] = {}
  <2>1. I[j] # I[k]
    BY <1>1, <1>2, <1>6 DEF Lists, IsInjective
  <2> QED BY <2>1
<1>7. AllOf(P, N) = ReasonsOf(s, t)
  <2>1. \A g : g \in AllOf(P, N) <=> \E k \in 1 .. N : g \in {<<"declared", I[k]>>} \X ExpandMeant(t, Decl(I[k]))
    <3>1. \A k \in 1 .. N : P[k] = {<<"declared", I[k]>>} \X ExpandMeant(t, Decl(I[k]))
      OBVIOUS
    <3> HIDE DEF P
    <3> QED BY <3>1 DEF AllOf
  <2>2. \A g : g \in ReasonsOf(s, t) <=> \E x \in Of("INSTANTIATE", s) : g \in {<<"declared", x>>} \X ExpandMeant(t, Decl(x))
    BY DEF ReasonsOf
  <2>3. \A x \in Of("INSTANTIATE", s) : \E k \in 1 .. N : I[k] = x
    BY <1>1, <1>2 DEF Lists, Range
  <2> HIDE DEF P
  <2>4. \A g : g \in AllOf(P, N) <=> g \in ReasonsOf(s, t)
    BY <1>3, <2>1, <2>2, <2>3
  <2> QED BY <2>4
<1> HIDE DEF ss, P
<1>8. IsSeq(FlattenSeq(ss)) /\ Accounts(FlattenSeq(ss), AllOf(P, N))
  BY <1>2, <1>4, <1>5, <1>6, FlattenAccounts
<1>9. ExpandTest(s, t) = FlattenSeq(ss)
  BY DEF ExpandTest, ss, I
<1> QED BY <1>7, <1>8, <1>9

(* The reasons for the tests of a suite, by pattern or by instantiation *)
LEMMA OwedInMember ==
  ASSUME RegTyped, in_time = Declared, NEW s \in SuiteNames, NEW g
  PROVE  g \in OwedIn(s) <=> \E y \in Of("TEST_P", s) : g \in ReasonsOf(s, Decl(y).test)
<1>1. g \in OwedIn(s) <=> \E x \in Of("INSTANTIATE", s) : g \in Owed(x)
  BY DEF OwedIn
<1>2. \A t : g \in ReasonsOf(s, t) <=> \E x \in Of("INSTANTIATE", s) : g \in {<<"declared", x>>} \X ExpandMeant(t, Decl(x))
  BY DEF ReasonsOf
<1>3. ASSUME NEW x \in Of("INSTANTIATE", s)
      PROVE  g \in Owed(x) <=>
               \E y \in Of("TEST_P", s) : g \in {<<"declared", x>>} \X ExpandMeant(Decl(y).test, Decl(x))
  <2> DEFINE d == Decl(x)
  <2>1. x \in in_time /\ d.decl = "INSTANTIATE" /\ d.suite = s
    BY <1>3, OfMember
  <2>2. MeantBy(x) = TestsForValues(d)
    BY <2>1, MeantByKind
  <2> HIDE DEF d
  <2>3. ASSUME NEW t PROVE t \in TestsForValues(d) <=> \E y \in Of("TEST_P", s) : t \in ExpandMeant(Decl(y).test, d)
    <3>1. \A p : p \in Patterns(s) <=> \E y \in Of("TEST_P", s) : p = Decl(y).test
      BY DEF Patterns, Of
    <3>2. t \in TestsForValues(d) <=> \E p \in Patterns(s) : t \in ExpandMeant(p, d)
      BY <2>1 DEF TestsForValues, ExpandMeant
    <3> QED BY <3>1, <3>2
  <2>4. g \in Owed(x) <=> \E t : t \in TestsForValues(d) /\ g = <<<<"declared", x>>, t>>
    BY <2>2 DEF Owed
  <2>5. \A e : g \in {<<"declared", x>>} \X ExpandMeant(e, d) <=>
               \E t : t \in ExpandMeant(e, d) /\ g = <<<<"declared", x>>, t>>
    OBVIOUS
  <2> QED BY <2>3, <2>4, <2>5 DEF d
<1> QED BY <1>1, <1>2, <1>3

LEMMA ExpandSuiteAccounts ==
  ASSUME RegTyped, Known, ~ BadNames, GeneratorsRight, in_time = Declared, NEW s \in SuiteNames
  PROVE  IsSeq(ExpandSuite(s)) /\ Accounts(ExpandSuite(s), OwedIn(s))
<1> DEFINE I == tests[s]
           N == Len(I)
           T(k) == Decl(I[k]).test
           ss == [k \in DOMAIN I |-> ExpandTest(s, T(k))]
           P == [k \in 1 .. N |-> ReasonsOf(s, T(k))]
<1>1. Lists(I, Of("TEST_P", s))
  BY DEF Known, KnowsTests
<1>2. N \in Nat /\ DOMAIN I = 1 .. N
  BY <1>1, SeqDomain DEF Lists
<1>3. \A k \in 1 .. N : I[k] \in Of("TEST_P", s) /\ tests[s] # <<>>
  BY <1>1, <1>2 DEF Lists, Range
<1>0. ExpandSuite(s) = FlattenSeq(ss)
  BY DEF ExpandSuite
<1> HIDE DEF I, N
<1>4. ss = [k \in 1 .. N |-> ss[k]]
  BY <1>2
<1>5. ASSUME NEW k \in 1 .. N PROVE IsSeq(ss[k]) /\ Accounts(ss[k], P[k])
  <2>1. ss[k] = ExpandTest(s, T(k)) /\ P[k] = ReasonsOf(s, T(k))
    BY <1>2
  <2> HIDE DEF ss, P, T
  <2> QED BY <1>3, <2>1, ExpandTestAccounts
<1>6. ASSUME NEW j \in 1 .. N, NEW k \in 1 .. N, j # k PROVE P[j] \cap P[k] = {}
  <2>1. I[j] # I[k]
    BY <1>1, <1>2, <1>6 DEF Lists, IsInjective
  <2>2. /\ I[j] \in PlacesOf(program) /\ Decl(I[j]).decl = "TEST_P" /\ Decl(I[j]).suite = s
        /\ I[k] \in PlacesOf(program) /\ Decl(I[k]).decl = "TEST_P" /\ Decl(I[k]).suite = s
    BY <1>3, OfMember, DeclaredPlaces
  <2>3. T(j) # T(k)
    BY <2>1, <2>2, ProgramCompiles DEF RegTyped, Compiles, Decl, DefinesTest
  <2>4. \A t : \A g \in ReasonsOf(s, t) : g[2].test[1] = t
    BY DEF ReasonsOf, ExpandMeant, Test
  <2> HIDE DEF T
  <2> QED BY <2>3, <2>4
<1>7. AllOf(P, N) = OwedIn(s)
  <2>1. \A g : g \in AllOf(P, N) <=> \E k \in 1 .. N : g \in ReasonsOf(s, T(k))
    <3>1. \A k \in 1 .. N : P[k] = ReasonsOf(s, T(k))
      OBVIOUS
    <3> HIDE DEF P, T
    <3> QED BY <3>1 DEF AllOf
  <2>2. \A y \in Of("TEST_P", s) : \E k \in 1 .. N : I[k] = y
    BY <1>1, <1>2 DEF Lists, Range
  <2> HIDE DEF P
  <2>3. \A g : g \in AllOf(P, N) <=> g \in OwedIn(s)
    BY <1>3, <2>1, <2>2, OwedInMember
  <2> QED BY <2>3
<1> HIDE DEF ss, P
<1>8. IsSeq(FlattenSeq(ss)) /\ Accounts(FlattenSeq(ss), AllOf(P, N))
  BY <1>2, <1>4, <1>5, <1>6, FlattenAccounts
<1> QED BY <1>0, <1>7, <1>8

LEMMA NothingAccounts ==
  ASSUME NEW s, IsSeq(s), NEW P, Accounts(s, P)
  PROVE  s = <<>> <=> P = {}
<1>1. PICK b : GivesReasons(s, P, b)
  BY DEF Accounts
<1>2. Len(s) \in Nat /\ DOMAIN s = 1 .. Len(s) /\ s = [n \in 1 .. Len(s) |-> s[n]]
  BY SeqDomain
<1>3. ASSUME s = <<>> PROVE P = {}
  <2>1. DOMAIN s = {}
    BY <1>3
  <2> QED BY <1>1, <2>1 DEF GivesReasons
<1>4. ASSUME P = {} PROVE s = <<>>
  <2>1. DOMAIN s = {}
    BY <1>1, <1>4 DEF GivesReasons
  <2>2. 1 .. Len(s) = {}
    BY <1>2, <2>1
  <2>3. Len(s) = 0
    BY <1>2, <2>2
  <2>4. s \in Seq(Range(s))
    BY DEF IsSeq
  <2> QED BY <2>3, <2>4, EmptySeq
<1> QED BY <1>3, <1>4

(* What is wanting, as the registries tell *)
LEMMA WantingKnown ==
  ASSUME RegTyped, Known, in_time = Declared, NEW s \in SuiteNames
  PROVE  /\ Wanting("values", s) <=> s \in DOMAIN fixture /\ s \notin ignored /\ OwedIn(s) = {}
         /\ Wanting("types", s) <=> s \in DOMAIN typed_suites /\ s \notin ignored /\ ~ typed_suites[s]
<1>1. \A kind : OfSuite(s, Kind(kind, in_time)) = Of(kind, s)
  BY DEF Of
<1>2. Allowed(s) <=> s \in ignored
  BY <1>1 DEF Allowed, Known, KnowsIgnored
<1>3. OfSuite(s, Kind("TEST_P", in_time) \union Kind("INSTANTIATE", in_time)) = Of("TEST_P", s) \union Of("INSTANTIATE", s)
  BY DEF Of, OfSuite
<1>4. OwedIn(s) = {} <=> \A x \in Of("INSTANTIATE", s) : MeantBy(x) = {}
  <2>1. \A x : Owed(x) = {} <=> MeantBy(x) = {}
    <3> TAKE x
    <3>1. \A t \in MeantBy(x) : <<<<"declared", x>>, t>> \in Owed(x)
      BY DEF Owed
    <3>2. \A g \in Owed(x) : g[2] \in MeantBy(x)
      BY DEF Owed
    <3> QED BY <3>1, <3>2
  <2>2. OwedIn(s) = {} <=> \A x \in Of("INSTANTIATE", s) : Owed(x) = {}
    BY DEF OwedIn
  <2> QED BY <2>1, <2>2
<1>5. WantsValues(s) <=> s \in DOMAIN fixture /\ OwedIn(s) = {}
  BY <1>1, <1>3, <1>4 DEF WantsValues, Known, KnowsFixtures
<1>6. WantsTypes(s) <=> s \in DOMAIN typed_suites /\ ~ typed_suites[s]
  <2>1. s \in DOMAIN typed_suites <=> Of("REGISTER_TYPED", s) # {}
    BY DEF Known, KnowsSuites
  <2>2. s \in DOMAIN typed_suites => (typed_suites[s] <=> Of("INSTANTIATE_TYPED", s) # {})
    BY DEF Known, KnowsSuites
  <2> QED BY <1>1, <2>1, <2>2 DEF WantsTypes
<1> QED BY <1>2, <1>5, <1>6 DEF Wanting

LEMMA OneListed ==
  ASSUME NEW t, NEW r
  PROVE  IsSeq(<<t>>) /\ Accounts(<<t>>, {<<r, t>>})
<1>1. Lists(<<t>>, {t})
  BY DEF Lists, IsSeq, Range, IsInjective
<1>2. {r} \X {t} = {<<r, t>>}
  OBVIOUS
<1>3. IsSeq(<<t>>) /\ Accounts(<<t>>, {r} \X {t})
  BY <1>1, ListedAccounts
<1> QED BY <1>2, <1>3

LEMMA OwedInFor ==
  ASSUME NEW s
  PROVE  /\ \A g \in OwedIn(s) : \E x \in Of("INSTANTIATE", s) : g \in Owed(x) /\ g[1] = <<"declared", x>>
         /\ \A m : \A g \in MissingOf(m, s) : g[1] = <<m, s>>
BY OwedTo DEF OwedIn, MissingOf

LEMMA RegisterTestsAccounts ==
  ASSUME RegTyped, Known, ~ BadNames, GeneratorsRight, in_time = Declared, NEW s \in DOMAIN fixture
  PROVE  IsSeq(RegisterTests(s)) /\ Accounts(RegisterTests(s), OwedIn(s) \union MissingOf("values", s))
<1> DEFINE t == IF GeneratedNothing(s) /\ s \notin ignored THEN <<Synthetic("values", s)>> ELSE <<>>
<1>1. s \in SuiteNames
  BY DEF Known, KnowsFixtures
<1>2. IsSeq(ExpandSuite(s)) /\ Accounts(ExpandSuite(s), OwedIn(s))
  BY <1>1, ExpandSuiteAccounts
<1>3. GeneratedNothing(s) <=> OwedIn(s) = {}
  BY <1>2, NothingAccounts DEF GeneratedNothing
<1>4. Wanting("values", s) <=> GeneratedNothing(s) /\ s \notin ignored
  BY <1>1, <1>3, WantingKnown
<1>5. IsSeq(t) /\ Accounts(t, MissingOf("values", s))
  <2>1. CASE Wanting("values", s)
    <3>1. t = <<Synthetic("values", s)>> /\ MissingOf("values", s) = {<<<<"values", s>>, Synthetic("values", s)>>}
      BY <1>4, <2>1 DEF MissingOf
    <3> HIDE DEF t
    <3> QED BY <3>1, OneListed
  <2>2. CASE ~ Wanting("values", s)
    <3>1. t = <<>> /\ MissingOf("values", s) = {}
      BY <1>4, <2>2 DEF MissingOf
    <3> HIDE DEF t
    <3> QED BY <3>1, EmptyAccounts
  <2> QED BY <2>1, <2>2
<1>6. OwedIn(s) \cap MissingOf("values", s) = {}
  <2> SUFFICES ASSUME NEW g \in OwedIn(s), g \in MissingOf("values", s) PROVE FALSE
    OBVIOUS
  <2>1. PICK x : g[1] = <<"declared", x>>
    BY OwedInFor
  <2>2. g[1] = <<"values", s>>
    BY OwedInFor
  <2> QED BY <2>1, <2>2
<1>7. RegisterTests(s) = ExpandSuite(s) \o t
  BY DEF RegisterTests
<1> HIDE DEF t
<1>8. IsSeq(ExpandSuite(s) \o t) /\ Accounts(ExpandSuite(s) \o t, OwedIn(s) \union MissingOf("values", s))
  BY <1>2, <1>5, <1>6, JoinedAccounts
<1> QED BY <1>7, <1>8

(* All the reasons that the instantiations are *)
OwedValues == UNION {OwedIn(s) : s \in SuiteNames}

LEMMA AllSuitesAccounts ==
  ASSUME RegTyped, Known, ~ BadNames, GeneratorsRight, in_time = Declared
  PROVE  LET all == FlattenSeq([k \in DOMAIN suite_infos |-> RegisterTests(suite_infos[k])])
         IN  IsSeq(all) /\ Accounts(all, OwedValues \union Missing("values"))
<1> DEFINE N == Len(suite_infos)
           ss == [k \in DOMAIN suite_infos |-> RegisterTests(suite_infos[k])]
           Q(s) == OwedIn(s) \union MissingOf("values", s)
           P == [k \in 1 .. N |-> Q(suite_infos[k])]
<1>1. Lists(suite_infos, DOMAIN fixture)
  BY DEF Known, KnowsFixtures
<1>2. N \in Nat /\ DOMAIN suite_infos = 1 .. N
  BY <1>1, SeqDomain DEF Lists
<1> HIDE DEF N
<1>3. \A k \in 1 .. N : suite_infos[k] \in DOMAIN fixture
  BY <1>1, <1>2 DEF Lists, Range
<1>4. ss = [k \in 1 .. N |-> ss[k]]
  BY <1>2
<1>5. ASSUME NEW k \in 1 .. N PROVE IsSeq(ss[k]) /\ Accounts(ss[k], P[k])
  <2>1. ss[k] = RegisterTests(suite_infos[k])
    BY <1>2
  <2> HIDE DEF ss
  <2> QED BY <1>3, <2>1, RegisterTestsAccounts
<1>6. ASSUME NEW s, NEW r, s # r PROVE Q(s) \cap Q(r) = {}
  <2> SUFFICES ASSUME NEW g \in Q(s), g \in Q(r) PROVE FALSE
    OBVIOUS
  <2>1. (\E x \in Of("INSTANTIATE", s) : g[1] = <<"declared", x>>) \/ g[1] = <<"values", s>>
    BY OwedInFor
  <2>2. (\E x \in Of("INSTANTIATE", r) : g[1] = <<"declared", x>>) \/ g[1] = <<"values", r>>
    BY OwedInFor
  <2>3. ASSUME NEW x \in Of("INSTANTIATE", s), NEW y \in Of("INSTANTIATE", r) PROVE x # y
    BY <1>6, OfMember
  <2> QED BY <1>6, <2>1, <2>2, <2>3
<1> HIDE DEF Q
<1>7. ASSUME NEW j \in 1 .. N, NEW k \in 1 .. N, j # k PROVE P[j] \cap P[k] = {}
  <2>1. suite_infos[j] # suite_infos[k]
    BY <1>1, <1>2, <1>7 DEF Lists, IsInjective
  <2> QED BY <1>6, <2>1
<1>8. AllOf(P, N) = OwedValues \union Missing("values")
  <2>1. \A g : g \in AllOf(P, N) <=> \E k \in 1 .. N : g \in Q(suite_infos[k])
    <3>1. \A k \in 1 .. N : P[k] = Q(suite_infos[k])
      OBVIOUS
    <3> HIDE DEF P
    <3> QED BY <3>1 DEF AllOf
  <2>2. \A s \in DOMAIN fixture : \E k \in 1 .. N : suite_infos[k] = s
    BY <1>1, <1>2 DEF Lists, Range
  <2>3. \A s \in SuiteNames : s \notin DOMAIN fixture => OwedIn(s) = {} /\ ~ Wanting("values", s)
    <3>1. \A s \in SuiteNames : s \notin DOMAIN fixture => Of("INSTANTIATE", s) = {}
      BY DEF Known, KnowsFixtures
    <3> QED BY <3>1, WantingKnown DEF OwedIn
  <2>4. ASSUME NEW g PROVE g \in Missing("values") <=> \E s \in SuiteNames : g \in MissingOf("values", s)
    <3>1. g \in Missing("values") <=>
            \E p \in {"values"} \X SuiteNames : Wanting(p[1], p[2]) /\ g = <<p, Synthetic(p[1], p[2])>>
      BY DEF Missing
    <3>2. \A p : p \in {"values"} \X SuiteNames <=> \E s \in SuiteNames : p = <<"values", s>>
      OBVIOUS
    <3>3. \A s : g \in MissingOf("values", s) <=> Wanting("values", s) /\ g = <<<<"values", s>>, Synthetic("values", s)>>
      BY DEF MissingOf
    <3> QED BY <3>1, <3>2, <3>3
  <2>5. \A g : g \in OwedValues <=> \E s \in SuiteNames : g \in OwedIn(s)
    BY DEF OwedValues
  <2>6. DOMAIN fixture \subseteq SuiteNames
    BY DEF Known, KnowsFixtures
  <2>7. \A s, g : g \in Q(s) <=> g \in OwedIn(s) \/ g \in MissingOf("values", s)
    BY DEF Q
  <2>8. \A s : ~ Wanting("values", s) => MissingOf("values", s) = {}
    BY DEF MissingOf
  <2> HIDE DEF P
  <2>9. ASSUME NEW g PROVE g \in AllOf(P, N) <=> \E s \in SuiteNames : g \in Q(s)
    <3>1. ASSUME NEW s \in SuiteNames, g \in Q(s) PROVE s \in DOMAIN fixture
      BY <2>3, <2>7, <2>8, <3>1
    <3> QED BY <1>3, <2>1, <2>2, <2>6, <3>1
  <2> QED BY <2>4, <2>5, <2>7, <2>9
<1> HIDE DEF ss, P
<1>9. IsSeq(FlattenSeq(ss)) /\ Accounts(FlattenSeq(ss), AllOf(P, N))
  BY <1>2, <1>4, <1>5, <1>7, FlattenAccounts
<1> QED BY <1>8, <1>9 DEF ss

LEMMA CheckAccounts ==
  ASSUME RegTyped, Known, in_time = Declared
  PROVE  IsSeq(CheckForInstantiations) /\ Accounts(CheckForInstantiations, Missing("types"))
<1> DEFINE M == {s \in DOMAIN typed_suites : ~ typed_suites[s] /\ s \notin ignored}
           missing == SetToSeq(M)
           N == Len(missing)
           c == [k \in DOMAIN missing |-> Synthetic("types", missing[k])]
           b == [k \in DOMAIN missing |-> <<<<"types", missing[k]>>, Synthetic("types", missing[k])>>]
<1>1. IsFiniteSet(M)
  <2>1. IsFiniteSet(DOMAIN typed_suites)
    BY DEF Known, KnowsSuites
  <2> QED BY <2>1, FS_Subset
<1>2. M = {s \in SuiteNames : Wanting("types", s)}
  <2>1. DOMAIN typed_suites \subseteq SuiteNames
    BY DEF Known, KnowsSuites
  <2> QED BY <2>1, WantingKnown
<1>0. CheckForInstantiations = c
  BY DEF CheckForInstantiations
<1> HIDE DEF M
<1>3. IsSeq(missing) /\ IsInjective(missing) /\ Range(missing) = M
  BY <1>1, SetToSeqProperties
<1> HIDE DEF missing
<1>4. N \in Nat /\ DOMAIN missing = 1 .. N
  BY <1>3, SeqDomain
<1> HIDE DEF N
<1>5. c = [k \in 1 .. N |-> c[k]]
  BY <1>4
<1>6. IsSeq(c) /\ DOMAIN c = 1 .. N
  <2> HIDE DEF c
  <2> QED BY <1>4, <1>5, FunctionIsSeq
<1>7. \A g : g \in Missing("types") <=> \E s \in M : g = <<<<"types", s>>, Synthetic("types", s)>>
  <2> TAKE g
  <2>1. g \in Missing("types") <=>
            \E p \in {"types"} \X SuiteNames : Wanting(p[1], p[2]) /\ g = <<p, Synthetic(p[1], p[2])>>
    BY DEF Missing
  <2>2. \A p : p \in {"types"} \X SuiteNames <=> \E s \in SuiteNames : p = <<"types", s>>
    OBVIOUS
  <2> QED BY <1>2, <2>1, <2>2
<1>8. GivesReasons(c, Missing("types"), b)
  <2>1. \A k \in 1 .. N : missing[k] \in M
    BY <1>3, <1>4 DEF Range
  <2>2. \A s \in M : \E k \in 1 .. N : missing[k] = s
    BY <1>3, <1>4 DEF Range
  <2>3. \A k \in 1 .. N : c[k] = Synthetic("types", missing[k]) /\ b[k] = <<<<"types", missing[k]>>, Synthetic("types", missing[k])>>
    BY <1>4
  <2>4. b = [k \in 1 .. N |-> b[k]]
    BY <1>4
  <2> HIDE DEF b, c
  <2>5. \A k \in 1 .. N : b[k] \in Missing("types") /\ b[k][2] = c[k]
    BY <1>7, <2>1, <2>3
  <2>6. ASSUME NEW j \in 1 .. N, NEW k \in 1 .. N, b[j] = b[k] PROVE j = k
    <3>1. missing[j] = missing[k]
      <4>1. b[j][1] = <<"types", missing[j]>> /\ b[k][1] = <<"types", missing[k]>>
        BY <2>3
      <4> QED BY <2>6, <4>1
    <3> QED BY <1>3, <1>4, <3>1 DEF IsInjective
  <2>7. \A g \in Missing("types") : \E k \in 1 .. N : b[k] = g
    BY <1>7, <2>2, <2>3
  <2> QED BY <1>6, <2>4, <2>5, <2>6, <2>7 DEF GivesReasons
<1> HIDE DEF b, c
<1> QED BY <1>0, <1>6, <1>8 DEF Accounts

--------------------------------------------------------------------------------
(* Steps that declare nothing *)
LEMMA DeclaredStays ==
  ASSUME RegTyped, UNCHANGED <<program, done, in_time>>
  PROVE  /\ Declared' = Declared /\ SuiteNames' = SuiteNames /\ \A y : Decl(y)' = Decl(y)
         /\ \A kind, s : Of(kind, s)' = Of(kind, s)
         /\ \A u, s : NamedIn(u, s)' = NamedIn(u, s)
<1>1. \A y : Decl(y)' = Decl(y)
  BY DEF Decl
<1>2. Declared' = Declared
  BY DEF Declared
<1>3. SuiteNames' = SuiteNames
  <2>1. SuiteNames' = {(Decl(y)').suite : y \in PlacesOf(program)}
    BY DEF SuiteNames, PlacesOf
  <2> QED BY <1>1, <2>1 DEF SuiteNames
<1>4. \A kind, s : Of(kind, s)' = Of(kind, s)
  BY <1>1, <1>2 DEF Of, OfSuite, Kind
<1>5. \A u, s : NamedIn(u, s)' = NamedIn(u, s)
  BY <1>1, <1>4 DEF NamedIn
<1> QED BY <1>1, <1>2, <1>3, <1>4, <1>5

LEMMA KnownUnchanged ==
  ASSUME RegTyped, Known, UNCHANGED <<program, done, in_time, tables>>
  PROVE  Known'
<1>1. UNCHANGED <<tests, instantiations, fixture, suite_infos, ignored, typed_state, typed_suites>>
  BY DEF tables
<1>2. /\ SuiteNames' = SuiteNames /\ \A y : Decl(y)' = Decl(y)
      /\ \A kind, s : Of(kind, s)' = Of(kind, s)
      /\ \A u, s : NamedIn(u, s)' = NamedIn(u, s)
  BY DeclaredStays
<1>3. KnowsTests' /\ KnowsIgnored'
  BY <1>1, <1>2 DEF Known, KnowsTests, KnowsIgnored, Lists
<1>4. KnowsFixtures'
  BY <1>1, <1>2 DEF Known, KnowsFixtures, Lists
<1>5. KnowsTyped'
  BY <1>1, <1>2 DEF Known, KnowsTyped
<1>6. KnowsSuites'
  BY <1>1, <1>2 DEF Known, KnowsSuites
<1>7. ListedTruly'
  BY <1>1, <1>2 DEF Known, ListedTruly, IsInjective, ToSet
<1> QED BY <1>3, <1>4, <1>5, <1>6, <1>7 DEF Known

LEMMA ReasonsStay ==
  ASSUME RegTyped, UNCHANGED <<program, done, in_time>>
  PROVE  (\A y \in Declared : Owed(y)' = Owed(y)) /\ (\A m : Missing(m)' = Missing(m))
<1>1. /\ Declared' = Declared /\ SuiteNames' = SuiteNames /\ \A y : Decl(y)' = Decl(y)
      /\ Declared \subseteq PlacesOf(program)
  BY DeclaredStays, DeclaredPlaces
<1>2. \A k : Kind(k, in_time)' = Kind(k, in_time)
  BY <1>1 DEF Kind
<1>3. \A s, k : OfSuite(s, Kind(k, in_time))' = OfSuite(s, Kind(k, in_time))
  BY <1>1, <1>2 DEF OfSuite
<1>4. \A s, j, k : OfSuite(s, Kind(j, in_time) \union Kind(k, in_time))' = OfSuite(s, Kind(j, in_time) \union Kind(k, in_time))
  BY <1>1, <1>2 DEF OfSuite
<1>5. \A s : Patterns(s)' = Patterns(s)
  BY <1>1, <1>3 DEF Patterns
<1>6. \A e : /\ OneTest(e)' = OneTest(e) /\ TestForTypes(e)' = TestForTypes(e)
             /\ TestsForTypes(e)' = TestsForTypes(e)
  BY DEF OneTest, TestForTypes, TestsForTypes, Test, ToSet
<1>7. \A e : TestsForValues(e)' = TestsForValues(e)
  BY <1>5 DEF TestsForValues, Test
<1>8. ASSUME NEW y \in PlacesOf(program) PROVE MeantBy(y)' = MeantBy(y)
  <2>1. Decl(y).decl \in Kinds
    BY KindOfPlace
  <2> QED BY <1>1, <1>6, <1>7, <2>1 DEF MeantBy, Kinds
<1>9. \A s, k : \A z \in OfSuite(s, Kind(k, in_time)) : MeantBy(z)' = MeantBy(z)
  <2>1. \A s, k : OfSuite(s, Kind(k, in_time)) \subseteq PlacesOf(program)
    BY DeclaredPlaces DEF OfSuite, Kind, RegTyped
  <2> QED BY <1>8, <2>1
<1>10. \A s : Allowed(s)' <=> Allowed(s)
  BY <1>3 DEF Allowed
<1>11. \A s : WantsValues(s)' <=> WantsValues(s)
  BY <1>3, <1>4, <1>9 DEF WantsValues
<1>12. \A s : WantsTypes(s)' <=> WantsTypes(s)
  BY <1>3 DEF WantsTypes
<1>13. \A m, s : Wanting(m, s)' <=> Wanting(m, s)
  BY <1>10, <1>11, <1>12 DEF Wanting
<1>14. \A m : Missing(m)' = Missing(m)
  BY <1>1, <1>13 DEF Missing, Synthetic, Test
<1> QED BY <1>1, <1>8, <1>14 DEF Owed

(* Everything else being the same, the reasons are those of before with those *)
(* of the instantiations and of what is missing.                             *)
LEMMA RegisterGives ==
  ASSUME RegTyped, in_time = Declared, ~ parameterized_tests_registered, parameterized_tests_registered',
         UNCHANGED <<program, done, in_time>>
  PROVE  /\ Given' = Given \union ((OwedValues \union Missing("values")) \union Missing("types"))
         /\ Given \cap ((OwedValues \union Missing("values")) \union Missing("types")) = {}
         /\ (OwedValues \union Missing("values")) \cap Missing("types") = {}
<1>1. /\ Declared' = Declared /\ \A y : Decl(y)' = Decl(y)
  BY DeclaredStays
<1>2. (\A y \in Declared : Owed(y)' = Owed(y)) /\ (\A m : Missing(m)' = Missing(m))
  BY ReasonsStay
<1>3. ASSUME NEW g PROVE g \in OwedValues <=> \E y \in Declared : Decl(y).decl = "INSTANTIATE" /\ g \in Owed(y)
  <2>1. g \in OwedValues <=> \E s \in SuiteNames : \E y \in Of("INSTANTIATE", s) : g \in Owed(y)
    BY DEF OwedValues, OwedIn
  <2>2. \A y \in Declared : Decl(y).suite \in SuiteNames
    BY DeclaredPlaces
  <2> QED BY <2>1, <2>2, OfMember
<1>4. \A g : g \in Given <=> \E y \in Declared : g \in Owed(y) /\ Decl(y).decl # "INSTANTIATE"
  BY GivenMember
<1>5. \A g : g \in Given' <=> \/ \E y \in Declared : g \in Owed(y)
                              \/ g \in Missing("values") \union Missing("types")
  <2>1. Given' = (UNION {OwedNow(y)' : y \in Declared'}) \union (Missing("values")' \union Missing("types")')
    BY DEF Given
  <2>2. \A y \in Declared : OwedNow(y)' = Owed(y)
    BY <1>2 DEF OwedNow
  <2> QED BY <1>1, <1>2, <2>1, <2>2
<1>6. Given' = Given \union ((OwedValues \union Missing("values")) \union Missing("types"))
  BY <1>3, <1>4, <1>5
<1>7. \A y : \A g \in Owed(y) : g[1] = <<"declared", y>>
  BY OwedTo
<1>8. \A m \in {"values", "types"} : \A g \in Missing(m) : g[1][1] = m
  BY OwedTo
<1>9. ASSUME NEW m \in {"values", "types"}, NEW g \in Missing(m), NEW y PROVE g \notin Owed(y)
  <2> SUFFICES ASSUME g \in Owed(y) PROVE FALSE
    OBVIOUS
  <2>1. g[1][1] = m /\ g[1] = <<"declared", y>>
    BY <1>7, <1>8
  <2> QED BY <2>1
<1>10. ASSUME NEW g \in Given, g \in OwedValues PROVE FALSE
  <2>1. PICK y \in Declared : g \in Owed(y) /\ Decl(y).decl # "INSTANTIATE"
    BY <1>4
  <2>2. PICK z \in Declared : g \in Owed(z) /\ Decl(z).decl = "INSTANTIATE"
    BY <1>3, <1>10
  <2>3. <<"declared", y>> = <<"declared", z>>
    BY <1>7, <2>1, <2>2
  <2> QED BY <2>1, <2>2, <2>3
<1>11. ASSUME NEW g \in Missing("values"), g \in Missing("types") PROVE FALSE
  BY <1>8, <1>11
<1> QED BY <1>3, <1>4, <1>6, <1>9, <1>10, <1>11

(* The registration of the parameterised tests keeps the accounts. *)
LEMMA RegisterAccounted ==
  ASSUME RegTyped, Known, Accounted, GeneratorsRight, ~ BadNames, ~ parameterized_tests_registered,
         parameterized_tests_registered', UNCHANGED <<program, done, in_time>>,
         Register(FlattenSeq([k \in DOMAIN suite_infos |-> RegisterTests(suite_infos[k])]) \o CheckForInstantiations)
  PROVE  Accounted'
<1> DEFINE all == FlattenSeq([k \in DOMAIN suite_infos |-> RegisterTests(suite_infos[k])])
           A == OwedValues \union Missing("values")
           C == Missing("types")
<1>1. in_time = Declared
  BY DEF RegTyped
<1>2. IsSeq(all) /\ Accounts(all, A)
  BY <1>1, AllSuitesAccounts
<1>3. IsSeq(CheckForInstantiations) /\ Accounts(CheckForInstantiations, C)
  BY <1>1, CheckAccounts
<1>4. Given' = Given \union (A \union C) /\ Given \cap (A \union C) = {} /\ A \cap C = {}
  BY <1>1, RegisterGives
<1>5. registered' = registered \o (all \o CheckForInstantiations)
  BY DEF Register
<1> HIDE DEF all, A, C
<1>6. IsSeq(all \o CheckForInstantiations) /\ Accounts(all \o CheckForInstantiations, A \union C)
  BY <1>2, <1>3, <1>4, JoinedAccounts
<1>7. IsSeq(registered \o (all \o CheckForInstantiations)) /\ Accounts(registered \o (all \o CheckForInstantiations), Given \union (A \union C))
  BY <1>4, <1>6, JoinedAccounts DEF Accounted
<1>8. IsSeq(registered') /\ Accounts(registered', Given')
  BY <1>4, <1>5, <1>7
<1> QED BY <1>8 DEF Accounted, Accounts, GivesReasons, IsSeq

LEMMA RegistrationNamesRight ==
  ASSUME RegTyped, Known, ~ BadNames, ~ parameterized_tests_registered, UNCHANGED <<program, done, in_time>>
  PROVE  NamesRight'
<1>1. /\ in_time = Declared /\ \A y : Decl(y)' = Decl(y)
  BY DeclaredStays DEF RegTyped
<1>2. \A s, kind : OfSuite(s, Kind(kind, in_time))' = Of(kind, s)
  BY <1>1, DeclaredStays DEF Of
<1>3. ASSUME NEW x \in Kind("INSTANTIATE", in_time)', OfSuite(Decl(x).suite, Kind("TEST_P", in_time))' # {}
      PROVE  FitNames(NamesOf(Decl(x)))
  <2> DEFINE s == Decl(x).suite
  <2>1. x \in Declared /\ Decl(x).decl = "INSTANTIATE"
    BY <1>1, <1>3 DEF Kind
  <2>2. s \in SuiteNames /\ x \in Of("INSTANTIATE", s)
    BY <2>1, DeclaredPlaces, OfMember
  <2>3. Of("TEST_P", s) # {}
    <3>1. OfSuite(Decl(x).suite, Kind("TEST_P", in_time))' = {y \in in_time : Decl(y).decl = "TEST_P" /\ Decl(y).suite = s}
      BY <1>1 DEF OfSuite, Kind
    <3> QED BY <1>1, <1>3, <3>1, OfMember
  <2>4. tests[s] # <<>>
    <3>1. Lists(tests[s], Of("TEST_P", s))
      BY <2>2 DEF Known, KnowsTests
    <3> QED BY <2>3, <3>1 DEF Lists, Range
  <2> QED BY <2>2, <2>4, NamesFit
<1>4. \A e : FitNames(NamesOf(e))' <=> FitNames(NamesOf(e))
  BY DEF FitNames, NamesOf, ParamName, InvalidName, Range, IsInjective
<1> QED BY <1>1, <1>3, <1>4 DEF NamesRight

(* The names that googletest dies of are names that the program gave. *)
LEMMA NamesGiven ==
  ASSUME RegTyped, GeneratorsRight, NEW x \in PlacesOf(program), Decl(x).decl = "INSTANTIATE"
  PROVE  /\ Decl(x).naming = <<>> => FitNames(NamesOf(Decl(x)))
         /\ Decl(x).naming # <<>> => NamesOf(Decl(x)) = GivenNames(x)
<1> DEFINE d == Decl(x)
           values == Meant(d.generator)
<1>1. ValuesOf(d.generator) = values /\ IsSeq(values)
  BY ValuesAreMeant
<1>2. Len(values) \in Nat /\ DOMAIN values = 1 .. Len(values)
  BY <1>1, SeqDomain
<1> HIDE DEF d, values
<1>3. NamesOf(d) = [n \in DOMAIN values |-> ParamName(d.naming, values[n], n)]
  BY <1>1 DEF NamesOf
<1>4. ASSUME d.naming = <<>> PROVE FitNames(NamesOf(d))
  <2>1. DOMAIN NamesOf(d) = 1 .. Len(values) /\ \A n \in 1 .. Len(values) : NamesOf(d)[n] = n - 1
    BY <1>2, <1>3, <1>4 DEF ParamName
  <2> QED BY <1>2, <2>1 DEF FitNames, InvalidName, Range, IsInjective
<1>5. ASSUME d.naming # <<>> PROVE NamesOf(d) = GivenNames(x)
  BY <1>3, <1>5 DEF ParamName, GivenNames, d, values
<1> QED BY <1>4, <1>5 DEF d

LEMMA BadNamesMistaken ==
  ASSUME RegTyped, Known, GeneratorsRight, ~ parameterized_tests_registered, BadNames
  PROVE  Mistaken
<1>1. PICK s \in DOMAIN fixture : tests[s] # <<>> /\
        \E k \in DOMAIN instantiations[s] : ~ FitNames(NamesOf(Decl(instantiations[s][k])))
  BY DEF BadNames
<1>2. PICK k \in DOMAIN instantiations[s] : ~ FitNames(NamesOf(Decl(instantiations[s][k])))
  BY <1>1
<1>3. s \in SuiteNames /\ Lists(tests[s], Of("TEST_P", s)) /\ Lists(instantiations[s], Of("INSTANTIATE", s))
  BY DEF Known, KnowsFixtures, KnowsTests
<1> DEFINE x == instantiations[s][k]
<1>4. x \in Of("INSTANTIATE", s)
  BY <1>3 DEF Lists, Range
<1> HIDE DEF x
<1>5. x \in Declared /\ Decl(x).decl = "INSTANTIATE" /\ Decl(x).suite = s /\ x \in PlacesOf(program) /\ in_time = Declared
  BY <1>4, OfMember, DeclaredPlaces DEF RegTyped
<1>6. Of("TEST_P", s) # {}
  <2>1. Len(tests[s]) \in Nat /\ DOMAIN tests[s] = 1 .. Len(tests[s]) /\ tests[s] \in Seq(Range(tests[s]))
    BY <1>3, SeqDomain DEF Lists, IsSeq
  <2>2. 1 \in DOMAIN tests[s]
    BY <1>1, <2>1, EmptySeq
  <2> QED BY <1>3, <2>2 DEF Lists, Range
<1>7. Decl(x).naming # <<>> /\ NamesOf(Decl(x)) = GivenNames(x)
  BY <1>2, <1>5, NamesGiven DEF x
<1>8. ~ FitNames(GivenNames(x))
  BY <1>2, <1>7 DEF x
<1>9. InvalidName \in Range(GivenNames(x)) \/ ~ IsInjective(GivenNames(x))
  BY <1>8 DEF FitNames
<1>10. x \in Kind("INSTANTIATE", in_time) /\ OfSuite(Decl(x).suite, Kind("TEST_P", in_time)) # {}
  BY <1>5, <1>6 DEF Kind, Of
<1> QED BY <1>7, <1>9, <1>10 DEF Mistaken, MisNamed

LEMMA MistakenStays ==
  ASSUME RegTyped, Mistaken, UNCHANGED <<program, done, in_time>>
  PROVE  Mistaken'
<1>1. /\ Declared' = Declared /\ \A y : Decl(y)' = Decl(y)
  BY DeclaredStays
<1>2. \A k : Kind(k, Declared)' = Kind(k, Declared) /\ Kind(k, in_time)' = Kind(k, in_time)
  BY <1>1 DEF Kind
<1>3. \A s, k : /\ OfSuite(s, Kind(k, Declared))' = OfSuite(s, Kind(k, Declared))
                /\ OfSuite(s, Kind(k, in_time))' = OfSuite(s, Kind(k, in_time))
  BY <1>1, <1>2 DEF OfSuite
<1>4. ASSUME TwoFixtures PROVE TwoFixtures'
  BY <1>1, <1>2, <1>4 DEF TwoFixtures
<1>5. ASSUME NEW x, MisListed(x) PROVE MisListed(x)'
  <2>1. NamedBefore(x)' = NamedBefore(x)
    BY <1>1, <1>3 DEF NamedBefore
  <2> QED BY <1>1, <1>5, <2>1 DEF MisListed, ToSet
<1>6. ASSUME NamedAfterList PROVE NamedAfterList'
  BY <1>1, <1>2, <1>3, <1>6 DEF NamedAfterList
<1>7. ASSUME NEW x, MisNamed(x) PROVE MisNamed(x)'
  <2>1. GivenNames(x)' = GivenNames(x)
    BY <1>1 DEF GivenNames
  <2> QED BY <1>1, <1>3, <1>7, <2>1 DEF MisNamed, Range, IsInjective, InvalidName
<1> QED BY <1>2, <1>4, <1>5, <1>6, <1>7 DEF Mistaken

LEMMA RegisterKeeps ==
  ASSUME RegInv, GeneratorsRight, stage # "died", NEW next \in {"main", "run"},
         RegisterParameterizedTests(next), UNCHANGED <<program, done, in_time>>
  PROVE  RegInv'
<1>1. RegTyped /\ Known /\ NamesRight /\ Accounted
  BY DEF RegInv
<1>2. Declared' = Declared
  BY <1>1, DeclaredStays
<1>3. CASE NotYet /\ BadNames
  <2>1. stage' = "died" /\ UNCHANGED parameterized_tests_registered
    BY <1>3 DEF RegisterParameterizedTests, Dies
  <2>2. Mistaken'
    BY <1>1, <1>3, BadNamesMistaken, MistakenStays DEF NotYet
  <2>3. RegTyped'
    BY <1>1, <1>2, <2>1 DEF RegTyped
  <2> QED BY <2>1, <2>2, <2>3 DEF RegInv
<1>4. CASE ~ (NotYet /\ BadNames)
  <2>1. stage' = next /\ parameterized_tests_registered' = TRUE /\ UNCHANGED tables
    BY <1>4 DEF RegisterParameterizedTests
  <2>2. RegTyped'
    BY <1>1, <1>2, <2>1 DEF RegTyped
  <2>3. Known'
    BY <1>1, <2>1, KnownUnchanged
  <2>4. CASE NotYet
    <3>1. Register(FlattenSeq([k \in DOMAIN suite_infos |-> RegisterTests(suite_infos[k])]) \o CheckForInstantiations)
      BY <1>4, <2>4 DEF RegisterParameterizedTests
    <3>2. Accounted'
      BY <1>1, <1>4, <2>1, <2>4, <3>1, RegisterAccounted DEF NotYet
    <3>3. NamesRight'
      BY <1>1, <1>4, <2>4, RegistrationNamesRight DEF NotYet
    <3> QED BY <2>1, <2>2, <2>3, <3>2, <3>3 DEF RegInv
  <2>5. CASE ~ NotYet
    <3>1. registered' = registered /\ parameterized_tests_registered /\ parameterized_tests_registered'
      BY <1>4, <2>1, <2>5 DEF RegisterParameterizedTests, NotYet
    <3>2. /\ \A y \in Declared : Owed(y)' = Owed(y)
          /\ \A m : Missing(m)' = Missing(m)
          /\ \A y : Decl(y)' = Decl(y)
      BY <1>1, ReasonsStay, DeclaredStays
    <3>3. Given' = Given
      <4>1. \A y \in Declared : OwedNow(y)' = OwedNow(y)
        BY <3>1, <3>2 DEF OwedNow
      <4> QED BY <1>2, <3>1, <3>2, <4>1 DEF Given
    <3>4. IsSeq(registered') /\ Accounts(registered', Given')
      BY <1>1, <3>1, <3>3 DEF Accounted
    <3>5. Accounted'
      BY <3>4 DEF Accounted, Accounts, GivesReasons, IsSeq
    <3>6. NamesRight'
      <4>1. \A kind : Kind(kind, in_time)' = Kind(kind, in_time)
        BY <3>2 DEF Kind
      <4>2. \A s, kind : OfSuite(s, Kind(kind, in_time))' = OfSuite(s, Kind(kind, in_time))
        BY <3>2, <4>1 DEF OfSuite
      <4>3. \A e : FitNames(NamesOf(e))' <=> FitNames(NamesOf(e))
        BY DEF FitNames, NamesOf, ParamName, InvalidName, Range, IsInjective
      <4> QED BY <1>1, <3>1, <3>2, <4>1, <4>2, <4>3 DEF NamesRight
    <3> QED BY <2>1, <2>2, <2>3, <3>5, <3>6 DEF RegInv
  <2> QED BY <2>4, <2>5
<1> QED BY <1>3, <1>4

LEMMA SkipKeeps ==
  ASSUME RegInv, SkipInit
  PROVE  RegInv'
<1>1. /\ UNCHANGED <<program, done, in_time, tables, parameterized_tests_registered, registered>>
      /\ stage = "static" /\ stage' = "main"
  BY DEF SkipInit
<1>2. RegTyped /\ Known /\ NamesRight /\ Accounted
  BY <1>1 DEF RegInv
<1>3. Declared' = Declared /\ \A y : Decl(y)' = Decl(y)
  BY <1>1, <1>2, DeclaredStays
<1>4. RegTyped'
  BY <1>1, <1>2, <1>3 DEF RegTyped
<1>5. Known'
  BY <1>1, <1>2, KnownUnchanged
<1>6. Given' = Given
  <2>1. (\A y \in Declared : Owed(y)' = Owed(y)) /\ (\A m : Missing(m)' = Missing(m))
    BY <1>1, <1>2, ReasonsStay
  <2>2. \A y \in Declared : OwedNow(y)' = OwedNow(y)
    BY <1>1, <1>3, <2>1 DEF OwedNow
  <2> QED BY <1>1, <1>3, <2>1, <2>2 DEF Given
<1>7. IsSeq(registered') /\ Accounts(registered', Given')
  BY <1>1, <1>2, <1>6 DEF Accounted
<1>8. Accounted'
  BY <1>7 DEF Accounted, Accounts, GivesReasons, IsSeq
<1>9. NamesRight'
  <2>1. \A kind : Kind(kind, in_time)' = Kind(kind, in_time)
    BY <1>1, <1>3 DEF Kind
  <2>2. \A s, kind : OfSuite(s, Kind(kind, in_time))' = OfSuite(s, Kind(kind, in_time))
    BY <1>3, <2>1 DEF OfSuite
  <2>3. \A e : FitNames(NamesOf(e))' <=> FitNames(NamesOf(e))
    BY DEF FitNames, NamesOf, ParamName, InvalidName, Range, IsInjective
  <2> QED BY <1>1, <1>2, <1>3, <2>1, <2>2, <2>3 DEF NamesRight
<1> QED BY <1>1, <1>4, <1>5, <1>8, <1>9 DEF RegInv

LEMMA RegInvInit ==
  ASSUME RegistrationInit
  PROVE  RegInv
<1>1. \A u \in DOMAIN program : done[u] = 0 /\ Len(program[u]) \in Nat
  BY ProgramCompiles, SeqDomain DEF RegistrationInit, Compiles
<1>2. Declared = {}
  BY <1>1 DEF Declared
<1>3. RegTyped
  <2>1. done \in [DOMAIN program -> Nat] /\ \A u \in DOMAIN program : done[u] <= Len(program[u])
    BY <1>1 DEF RegistrationInit
  <2> QED BY <1>2, <2>1 DEF RegistrationInit, RegTyped
<1>4. \A kind, s : Of(kind, s) = {}
  BY <1>2 DEF Of, OfSuite, Kind
<1>5. Lists(<<>>, {})
  BY DEF Lists, IsSeq, Range, IsInjective
<1>6. KnowsTests
  BY <1>4, <1>5 DEF RegistrationInit, KnowsTests
<1>7. KnowsFixtures
  BY <1>4, <1>5 DEF RegistrationInit, KnowsFixtures
<1>8. KnowsIgnored
  BY <1>4 DEF RegistrationInit, KnowsIgnored
<1>9. KnowsTyped
  <2>1. \A u, s : NamedIn(u, s) = {}
    BY <1>4 DEF NamedIn
  <2> QED BY <1>4, <2>1 DEF RegistrationInit, KnowsTyped
<1>10. KnowsSuites
  <2>1. typed_suites = <<>> /\ {s \in SuiteNames : Of("REGISTER_TYPED", s) # {}} = {}
    BY <1>4 DEF RegistrationInit
  <2>2. <<>> \in [{} -> BOOLEAN] /\ DOMAIN <<>> = {}
    OBVIOUS
  <2> QED BY <2>1, <2>2, FS_EmptySet DEF KnowsSuites
<1>11. ListedTruly
  BY <1>4 DEF ListedTruly
<1>12. Accounted
  <2>1. Given = {} /\ registered = <<>>
    BY <1>2 DEF RegistrationInit, Given
  <2> QED BY <2>1, EmptyAccounts DEF Accounted
<1> QED BY <1>3, <1>6, <1>7, <1>8, <1>9, <1>10, <1>11, <1>12 DEF RegInv, Known, NamesRight, RegistrationInit

LEMMA RegInvNext ==
  ASSUME RegInv, GeneratorsRight, [RegistrationNext]_registration_vars
  PROVE  RegInv'
<1>1. ASSUME NEW u \in DOMAIN program, Declare(u) PROVE RegInv'
  <2>1. stage \in {"static", "main"}
    BY <1>1 DEF Declare
  <2>2. RegTyped /\ Known /\ NamesRight /\ Accounted
    BY <2>1 DEF RegInv
  <2>3. stage' \in {stage, "died"}
    BY <1>1 DEF Declare, DeclareTyped, DeclareTest, DeclareTestP, DeclareInstantiation, MarkAsIgnored, DeclareTypedTest,
                AddTestName, VerifyRegisteredTestNames, InstantiateTyped, Dies
  <2>4. RegTyped'
    BY <1>1, <2>2, <2>3, DeclareTypesStay
  <2>5. CASE stage' = "died"
    BY <1>1, <2>2, <2>4, <2>5, DeclareDiesOfMistake DEF RegInv
  <2>6. CASE stage' # "died"
    BY <1>1, <2>2, <2>4, <2>6, KnownStays, DeclareAccounted, NamesStayRight DEF RegInv
  <2> QED BY <2>5, <2>6
<1>2. CASE InitGoogleTest
  BY <1>2, RegisterKeeps DEF InitGoogleTest
<1>3. CASE RunAllTests
  BY <1>3, RegisterKeeps DEF RunAllTests
<1>4. CASE UNCHANGED registration_vars
  <2>1. /\ UNCHANGED <<program, done, in_time, tables, parameterized_tests_registered, registered, stage>>
    BY <1>4 DEF registration_vars
  <2>2. RegTyped
    BY DEF RegInv
  <2>3. Declared' = Declared /\ \A y : Decl(y)' = Decl(y)
    BY <2>1, <2>2, DeclaredStays
  <2>4. RegTyped'
    BY <2>1, <2>2, <2>3 DEF RegTyped
  <2>5. CASE stage = "died"
    <3>1. Mistaken'
      BY <2>1, <2>2, <2>5, MistakenStays DEF RegInv
    <3> QED BY <2>1, <2>4, <2>5, <3>1 DEF RegInv
  <2>6. CASE stage # "died"
    <3>1. Known'
      BY <2>1, <2>2, <2>6, KnownUnchanged DEF RegInv
    <3>2. Given' = Given
      <4>1. (\A y \in Declared : Owed(y)' = Owed(y)) /\ (\A m : Missing(m)' = Missing(m))
        BY <2>1, <2>2, ReasonsStay
      <4>2. \A y \in Declared : OwedNow(y)' = OwedNow(y)
        BY <2>1, <2>3, <4>1 DEF OwedNow
      <4> QED BY <2>1, <2>3, <4>1, <4>2 DEF Given
    <3>3. IsSeq(registered') /\ Accounts(registered', Given')
      BY <2>1, <2>6, <3>2 DEF RegInv, Accounted
    <3>4. Accounted'
      BY <3>3 DEF Accounted, Accounts, GivesReasons, IsSeq
    <3>5. NamesRight'
      <4>1. \A kind : Kind(kind, in_time)' = Kind(kind, in_time)
        BY <2>1, <2>3 DEF Kind
      <4>2. \A s, kind : OfSuite(s, Kind(kind, in_time))' = OfSuite(s, Kind(kind, in_time))
        BY <2>3, <4>1 DEF OfSuite
      <4>3. \A e : FitNames(NamesOf(e))' <=> FitNames(NamesOf(e))
        BY DEF FitNames, NamesOf, ParamName, InvalidName, Range, IsInjective
      <4>4. NamesRight
        BY <2>6 DEF RegInv
      <4> QED BY <2>1, <2>3, <4>1, <4>2, <4>3, <4>4 DEF NamesRight
    <3> QED BY <2>1, <2>4, <2>6, <3>1, <3>4, <3>5 DEF RegInv
  <2> QED BY <2>5, <2>6
<1> QED BY <1>1, <1>2, <1>3, <1>4, SkipKeeps DEF RegistrationNext

--------------------------------------------------------------------------------
(* What the inductive invariant says of a program that runs *)

(* The reasons are all the program's. *)
LEMMA GivenIsReasons ==
  ASSUME parameterized_tests_registered
  PROVE  Given = Reasons
<1>1. \A x \in Declared : OwedNow(x) = {<<"declared", x>>} \X MeantBy(x)
  BY DEF OwedNow, Owed
<1>2. \A w : w \in {"values", "types"} \X SuiteNames <=>
               w \in {"values"} \X SuiteNames \/ w \in {"types"} \X SuiteNames
  OBVIOUS
<1>3. Missing("values") \union Missing("types") =
        {<<w, Synthetic(w[1], w[2])>> : w \in {p \in {"values", "types"} \X SuiteNames : Wanting(p[1], p[2])}}
  BY <1>2 DEF Missing
<1> QED BY <1>1, <1>3 DEF Given, Reasons

LEMMA RunsAsAsked ==
  ASSUME RegInv
  PROVE  RegisteredExactly
<1> SUFFICES ASSUME stage = "run", NEW test
             PROVE  Cardinality({n \in DOMAIN registered : registered[n] = test}) =
                      Cardinality({r \in Reasons : r[2] = test})
  BY DEF RegisteredExactly
<1>1. parameterized_tests_registered /\ IsSeq(registered) /\ Accounts(registered, Given)
  BY DEF RegInv, RegTyped, Accounted
<1> QED BY <1>1, GivenIsReasons, AccountsCount

(* What was listed truly, with one fixture and fit names, is no mistake. *)
LEMMA RunsWithoutMistake ==
  ASSUME RegInv, GeneratorsRight, stage = "run"
  PROVE  ~ Mistaken
<1>1. RegTyped /\ Known /\ NamesRight /\ parameterized_tests_registered
  BY DEF RegInv, RegTyped
<1>2. /\ Declared \subseteq PlacesOf(program) /\ in_time \subseteq Declared
      /\ \A x \in Declared : Decl(x).suite \in SuiteNames /\ x[2] \in Int
  BY <1>1, DeclaredPlaces DEF RegTyped
<1>3. \A kind : \A x \in Kind(kind, Declared) : x \in Declared /\ x \in Of(kind, Decl(x).suite)
  BY DEF Of, OfSuite, Kind
<1>4. ~ TwoFixtures
  <2>1. ASSUME NEW x \in Kind("TEST_P", Declared) \union Kind("INSTANTIATE", Declared)
        PROVE  Decl(x).fixture = fixture[Decl(x).suite]
    BY <1>1, <1>2, <1>3 DEF Known, KnowsFixtures
  <2> QED BY <2>1 DEF TwoFixtures
<1>5. ASSUME NEW x \in Kind("REGISTER_TYPED", Declared) PROVE ~ MisListed(x)
  <2>1. /\ IsInjective(Decl(x).names) /\ ToSet(Decl(x).names) = NamedIn(x[1], Decl(x).suite)
        /\ \A y \in Of("TYPED_TEST_P", Decl(x).suite) : y[1] = x[1] => y[2] < x[2]
    BY <1>1, <1>2, <1>3 DEF Known, ListedTruly
  <2>2. NamedBefore(x) = NamedIn(x[1], Decl(x).suite)
    BY <2>1 DEF NamedBefore, NamedIn, Of
  <2> QED BY <2>1, <2>2 DEF MisListed, IsInjective
<1>6. ~ NamedAfterList
  <2> SUFFICES ASSUME NEW x \in Kind("TYPED_TEST_P", Declared),
                      NEW y \in OfSuite(Decl(x).suite, Kind("REGISTER_TYPED", Declared)),
                      y[1] = x[1], y[2] < x[2]
               PROVE  FALSE
    BY DEF NamedAfterList
  <2>1. y \in Declared /\ Decl(y).suite = Decl(x).suite /\ y \in Of("REGISTER_TYPED", Decl(x).suite)
    BY DEF OfSuite, Kind, Of
  <2>2. x[2] < y[2]
    BY <1>1, <1>2, <1>3, <2>1 DEF Known, ListedTruly
  <2> QED BY <1>2, <1>3, <2>1, <2>2
<1>7. ASSUME NEW x \in Kind("INSTANTIATE", in_time) PROVE ~ MisNamed(x)
  <2>1. x \in PlacesOf(program) /\ Decl(x).decl = "INSTANTIATE"
    BY <1>2 DEF Kind
  <2>2. Decl(x).naming # <<>> => NamesOf(Decl(x)) = GivenNames(x)
    BY <1>1, <2>1, NamesGiven
  <2> QED BY <1>1, <2>2 DEF NamesRight, MisNamed, FitNames
<1> QED BY <1>4, <1>5, <1>6, <1>7 DEF Mistaken

(* What a test says of the declaration that it is meant by *)
OfTypedTest(d, t) == \E n \in Nat : t = Test(<<d.suite, n - 1>>, <<d.test>>, d.types[n])
OfTypes(d, t) == \E n \in Nat : \E name \in ToSet(d.names) : t = Test(<<d.prefix, d.suite, n - 1>>, <<name>>, d.types[n])
OfValues(d, t) ==
  \E p \in Patterns(d.suite), n \in DOMAIN Meant(d.generator) :
    t = Test(Prefixed(d.prefix, d.suite), <<p, ParamName(d.naming, Meant(d.generator)[n], n)>>,
             ToString(Meant(d.generator)[n]))

LEMMA NamesMeant ==
  ASSUME RegTyped, NEW x \in Declared, NEW t \in MeantBy(x)
  PROVE  \/ Decl(x).decl = "TEST" /\ t = Test(<<Decl(x).suite>>, <<Decl(x).test>>, "")
         \/ Decl(x).decl = "TYPED_TEST" /\ OfTypedTest(Decl(x), t)
         \/ Decl(x).decl = "INSTANTIATE_TYPED" /\ OfTypes(Decl(x), t)
         \/ Decl(x).decl = "INSTANTIATE" /\ x \in in_time /\ OfValues(Decl(x), t)
<1> DEFINE d == Decl(x)
<1>1. x \in PlacesOf(program) /\ d.decl \in Kinds
  BY DeclaredPlaces, KindOfPlace
<1>2. d.decl \in {"TYPED_TEST", "INSTANTIATE_TYPED"} => DOMAIN d.types \subseteq Nat
  <2>1. d.decl \in {"TYPED_TEST", "INSTANTIATE_TYPED"} => IsSeq(d.types)
    BY <1>1, ProgramCompiles DEF Compiles, Decl, RegTyped
  <2> QED BY <2>1, SeqDomain
<1> HIDE DEF d
<1>3. d.decl \in {"TEST", "TYPED_TEST", "INSTANTIATE_TYPED", "INSTANTIATE"}
  BY <1>1, MeantByKind DEF Kinds, d
<1>4. CASE d.decl = "TEST"
  BY <1>4, MeantByKind DEF OneTest, d
<1>5. CASE d.decl = "TYPED_TEST"
  <2>1. t \in TestForTypes(d)
    BY <1>5, MeantByKind DEF d
  <2> QED BY <1>2, <1>5, <2>1 DEF TestForTypes, OfTypedTest, d
<1>6. CASE d.decl = "INSTANTIATE_TYPED"
  <2>1. t \in TestsForTypes(d)
    BY <1>6, MeantByKind DEF d
  <2>2. PICK n \in DOMAIN d.types, name \in ToSet(d.names) : t = Test(<<d.prefix, d.suite, n - 1>>, <<name>>, d.types[n])
    BY <2>1 DEF TestsForTypes
  <2> QED BY <1>2, <1>6, <2>2 DEF OfTypes, d
<1>7. CASE d.decl = "INSTANTIATE"
  <2>1. x \in in_time /\ t \in TestsForValues(d)
    BY <1>7, MeantByKind DEF d
  <2> QED BY <1>7, <2>1 DEF TestsForValues, OfValues, d
<1> QED BY <1>3, <1>4, <1>5, <1>6, <1>7

(* Names of different kinds have different lengths. *)
LEMMA NamesTellKinds ==
  ASSUME RegTyped, NEW x \in Declared, NEW t \in MeantBy(x)
  PROVE  /\ Len(t.test) = (IF Decl(x).decl = "INSTANTIATE" THEN 2 ELSE 1)
         /\ Decl(x).decl = "TEST" => Len(t.suite) = 1
         /\ Decl(x).decl = "TYPED_TEST" => Len(t.suite) = 2
         /\ Decl(x).decl = "INSTANTIATE_TYPED" => Len(t.suite) = 3
<1> DEFINE d == Decl(x)
<1>1. CASE d.decl = "TEST" /\ t = Test(<<d.suite>>, <<d.test>>, "")
  BY <1>1 DEF Test
<1>2. CASE d.decl = "TYPED_TEST" /\ OfTypedTest(d, t)
  BY <1>2 DEF OfTypedTest, Test
<1>3. CASE d.decl = "INSTANTIATE_TYPED" /\ OfTypes(d, t)
  BY <1>3 DEF OfTypes, Test
<1>4. CASE d.decl = "INSTANTIATE" /\ OfValues(d, t)
  BY <1>4 DEF OfValues, Test
<1> QED BY <1>1, <1>2, <1>3, <1>4, NamesMeant

DistinctPrefixes ==
  \A x, y \in Kind("INSTANTIATE", Declared) \union Kind("INSTANTIATE_TYPED", Declared) :
    x # y => Decl(x).prefix # Decl(y).prefix
SameNames(t, s) == t.suite = s.suite /\ t.test = s.test

LEMMA MeantApart ==
  ASSUME RegTyped, NamesRight, GeneratorsRight, parameterized_tests_registered, DistinctPrefixes,
         NEW x \in Declared, NEW y \in Declared, NEW t \in MeantBy(x), NEW s \in MeantBy(y), SameNames(t, s)
  PROVE  x = y /\ t = s
<1> DEFINE d == Decl(x)  e == Decl(y)
<1>1. d.decl = e.decl /\ d.decl \in {"TEST", "TYPED_TEST", "INSTANTIATE_TYPED", "INSTANTIATE"}
  <2>1. /\ d.decl \in {"TEST", "TYPED_TEST", "INSTANTIATE_TYPED", "INSTANTIATE"}
        /\ e.decl \in {"TEST", "TYPED_TEST", "INSTANTIATE_TYPED", "INSTANTIATE"}
    BY NamesMeant
  <2> QED BY <2>1, NamesTellKinds DEF SameNames
<1>2. x \in PlacesOf(program) /\ y \in PlacesOf(program)
  BY DeclaredPlaces
<1>3. DefinesTest(d) /\ DefinesTest(e) /\ d.suite = e.suite /\ d.test = e.test => x = y
  BY <1>2, ProgramCompiles DEF RegTyped, Compiles, Decl
<1>4. d.decl \in {"INSTANTIATE_TYPED", "INSTANTIATE"} /\ d.prefix = e.prefix => x = y
  BY <1>1 DEF DistinctPrefixes, Kind
<1>5. CASE d.decl = "TEST"
  <2>1. t = Test(<<d.suite>>, <<d.test>>, "") /\ s = Test(<<e.suite>>, <<e.test>>, "")
    BY <1>1, <1>5, NamesMeant
  <2>2. d.suite = e.suite /\ d.test = e.test
    BY <2>1 DEF Test, SameNames
  <2> QED BY <1>1, <1>3, <1>5, <2>1, <2>2 DEF DefinesTest
<1>6. CASE d.decl = "TYPED_TEST"
  <2>1. PICK n \in Nat : t = Test(<<d.suite, n - 1>>, <<d.test>>, d.types[n])
    BY <1>6, NamesMeant DEF OfTypedTest
  <2>2. PICK m \in Nat : s = Test(<<e.suite, m - 1>>, <<e.test>>, e.types[m])
    BY <1>1, <1>6, NamesMeant DEF OfTypedTest
  <2>3. d.suite = e.suite /\ n - 1 = m - 1 /\ d.test = e.test
    BY <2>1, <2>2 DEF Test, SameNames
  <2> QED BY <1>1, <1>3, <1>6, <2>1, <2>2, <2>3 DEF DefinesTest
<1>7. CASE d.decl = "INSTANTIATE_TYPED"
  <2>1. PICK n \in Nat, name \in ToSet(d.names) : t = Test(<<d.prefix, d.suite, n - 1>>, <<name>>, d.types[n])
    BY <1>7, NamesMeant DEF OfTypes
  <2>2. PICK m \in Nat, other \in ToSet(e.names) : s = Test(<<e.prefix, e.suite, m - 1>>, <<other>>, e.types[m])
    BY <1>1, <1>7, NamesMeant DEF OfTypes
  <2>3. d.prefix = e.prefix /\ n - 1 = m - 1 /\ name = other
    BY <2>1, <2>2 DEF Test, SameNames
  <2> QED BY <1>4, <1>7, <2>1, <2>2, <2>3
<1>8. CASE d.decl = "INSTANTIATE"
  <2>1. PICK p \in Patterns(d.suite), n \in DOMAIN Meant(d.generator) :
          t = Test(Prefixed(d.prefix, d.suite), <<p, ParamName(d.naming, Meant(d.generator)[n], n)>>,
                   ToString(Meant(d.generator)[n]))
    BY <1>8, NamesMeant DEF OfValues
  <2>2. PICK q \in Patterns(e.suite), m \in DOMAIN Meant(e.generator) :
          s = Test(Prefixed(e.prefix, e.suite), <<q, ParamName(e.naming, Meant(e.generator)[m], m)>>,
                   ToString(Meant(e.generator)[m]))
    BY <1>1, <1>8, NamesMeant DEF OfValues
  <2>3. /\ Prefixed(d.prefix, d.suite) = Prefixed(e.prefix, e.suite) /\ p = q
        /\ ParamName(d.naming, Meant(d.generator)[n], n) = ParamName(e.naming, Meant(e.generator)[m], m)
    BY <2>1, <2>2 DEF Test, SameNames
  <2>4. x = y
    BY <1>4, <1>8, <2>3 DEF Prefixed
  <2>5. FitNames(NamesOf(d))
    <3>1. x \in Kind("INSTANTIATE", in_time)
      BY <1>8, NamesMeant DEF Kind
    <3>2. OfSuite(d.suite, Kind("TEST_P", in_time)) # {}
      BY <2>1 DEF Patterns
    <3> QED BY <3>1, <3>2 DEF NamesRight
  <2>6. NamesOf(d) = [k \in DOMAIN Meant(d.generator) |-> ParamName(d.naming, Meant(d.generator)[k], k)]
    BY <1>2, <1>8, ValuesAreMeant DEF NamesOf
  <2>7. n = m
    <3>1. NamesOf(d)[n] = NamesOf(d)[m] /\ m \in DOMAIN NamesOf(d) /\ n \in DOMAIN NamesOf(d)
      BY <2>3, <2>4, <2>6
    <3> QED BY <2>5, <3>1 DEF FitNames, IsInjective
  <2> QED BY <2>1, <2>2, <2>3, <2>4, <2>7
<1> QED BY <1>1, <1>5, <1>6, <1>7, <1>8

LEMMA ReasonsApart ==
  ASSUME RegTyped, NamesRight, GeneratorsRight, parameterized_tests_registered, DistinctPrefixes,
         NEW g \in Reasons, NEW h \in Reasons, SameNames(g[2], h[2])
  PROVE  g = h
<1>1. \A r \in Reasons :
        \/ \E x \in Declared : \E t \in MeantBy(x) : r = <<<<"declared", x>>, t>>
        \/ \E m \in {"values", "types"}, s \in SuiteNames : r = <<<<m, s>>, Synthetic(m, s)>>
  BY DEF Reasons
<1>2. \A m, s : Len(Synthetic(m, s).test) = 3
  BY DEF Synthetic, Test
<1>3. \A x \in Declared : \A t \in MeantBy(x) : Len(t.test) \in {1, 2}
  BY NamesTellKinds
<1>4. CASE \E x \in Declared : \E t \in MeantBy(x) : g = <<<<"declared", x>>, t>>
  <2>1. PICK x \in Declared : \E t \in MeantBy(x) : g = <<<<"declared", x>>, t>>
    BY <1>4
  <2>2. PICK t \in MeantBy(x) : g = <<<<"declared", x>>, t>>
    BY <2>1
  <2>3. \E y \in Declared : \E s \in MeantBy(y) : h = <<<<"declared", y>>, s>>
    BY <1>1, <1>2, <1>3, <2>2 DEF SameNames
  <2>4. PICK y \in Declared : \E s \in MeantBy(y) : h = <<<<"declared", y>>, s>>
    BY <2>3
  <2>5. PICK s \in MeantBy(y) : h = <<<<"declared", y>>, s>>
    BY <2>4
  <2>6. SameNames(t, s)
    BY <2>2, <2>5
  <2> QED BY <2>2, <2>5, <2>6, MeantApart
<1>5. CASE \E m \in {"values", "types"}, s \in SuiteNames : g = <<<<m, s>>, Synthetic(m, s)>>
  <2>1. PICK m, s : g = <<<<m, s>>, Synthetic(m, s)>>
    BY <1>5
  <2>2. PICK k, r : h = <<<<k, r>>, Synthetic(k, r)>>
    BY <1>1, <1>2, <1>3, <2>1 DEF SameNames
  <2> QED BY <2>1, <2>2 DEF SameNames, Synthetic, Test
<1> QED BY <1>1, <1>4, <1>5

LEMMA RunsNamedApart ==
  ASSUME RegInv, GeneratorsRight
  PROVE  NamesDistinguish
<1> SUFFICES ASSUME stage = "run", DistinctPrefixes, NEW j \in DOMAIN registered, NEW k \in DOMAIN registered,
                    <<registered[j].suite, registered[j].test>> = <<registered[k].suite, registered[k].test>>
             PROVE  j = k
  BY DEF NamesDistinguish, DistinctPrefixes
<1>1. RegTyped /\ NamesRight /\ parameterized_tests_registered /\ Accounts(registered, Reasons)
  BY GivenIsReasons DEF RegInv, RegTyped, Accounted
<1>2. PICK b : GivesReasons(registered, Reasons, b)
  BY <1>1 DEF Accounts
<1>3. b[j] \in Reasons /\ b[k] \in Reasons /\ b[j][2] = registered[j] /\ b[k][2] = registered[k]
  BY <1>2 DEF GivesReasons
<1>4. b[j] = b[k]
  BY <1>1, <1>3, ReasonsApart DEF SameNames
<1> QED BY <1>2, <1>4 DEF GivesReasons

(* The inductive invariant.  The iterators of a generator, which Generators   *)
(* models, go through the values that it stands for.                         *)
THEOREM RegistrationInductive == GeneratorsRight /\ RegistrationSpec => []RegInv
<1> SUFFICES ASSUME GeneratorsRight PROVE RegistrationSpec => []RegInv
  OBVIOUS
<1>1. RegistrationInit => RegInv
  BY RegInvInit
<1>2. RegInv /\ [RegistrationNext]_registration_vars => RegInv'
  BY RegInvNext
<1> QED BY <1>1, <1>2, PTL DEF RegistrationSpec

(* In whatever order the units of a program are initialised, and whether or   *)
(* not main() initialises googletest, a program that runs has registered     *)
(* every test it asks for, each as often as it has a reason, and no other;   *)
(* and where its instantiations have prefixes of their own, the tests have   *)
(* names of their own (gtest-param-util.h, RegisterTests).                   *)
THEOREM RegisteredSoundly == GeneratorsRight /\ RegistrationSpec => []RegistrationSound
<1> SUFFICES ASSUME GeneratorsRight PROVE RegistrationSpec => []RegistrationSound
  OBVIOUS
<1>1. RegistrationSpec => []RegInv
  BY RegistrationInductive
<1>2. RegInv => RegistrationSound
  BY RunsAsAsked, RunsNamedApart DEF RegistrationSound
<1> QED BY <1>1, <1>2, PTL

(* A program that dies before its tests run is mistaken, and one that is      *)
(* mistaken never runs (gtest-typed-test.cc, VerifyRegisteredTestNames).     *)
THEOREM DeathsAreMistakes == GeneratorsRight /\ RegistrationSpec => []DiesOfMistakes
<1> SUFFICES ASSUME GeneratorsRight PROVE RegistrationSpec => []DiesOfMistakes
  OBVIOUS
<1>1. RegistrationSpec => []RegInv
  BY RegistrationInductive
<1>2. RegInv => DiesOfMistakes
  BY RunsWithoutMistake DEF RegInv, DiesOfMistakes
<1> QED BY <1>1, <1>2, PTL
================================================================================
