---------------------------- MODULE FunctionProofs ----------------------------
(***************************************************************************)
(* Proofs about the functions: that the pairing Compute() finds is            *)
(* consistent and a greatest one, for any number of elements and matchers;   *)
(* that Factorial() is exact, for an int of any width; and that the globs     *)
(* and filters of --gtest_filter select the names, and the simple regular     *)
(* expressions accept the texts, that they mean, whatever their length; that  *)
(* numbers of any widths are almost equal just if few others lie between      *)
(* them, and what EXPECT_NEAR() says of its bound is true; and that the       *)
(* difference of two texts turns the one into the other.                     *)
(***************************************************************************)
EXTENDS BipartiteMatching, Diffs, Factorial, FloatingPoint, Patterns, FunctionTheorems, FiniteSetTheorems, SequenceTheorems,
        TLAPS

TypeOK ==
  /\ size \in Nat \X Nat
  /\ edges \subseteq Elements \X Matchers
  /\ left \in [Elements -> Matchers \union {kUnused}]
  /\ right \in [Matchers -> Elements \union {kUnused}]
  /\ ilhs \in Nat \ {0}
  /\ seen \subseteq Matchers
  /\ path \in Seq([lhs : Elements, rhs : Nat \ {0}])
  /\ found \in BOOLEAN

(* The activations that have taken an edge: all but the one whose loop runs *)
Taken == IF found THEN 1 .. Len(path) ELSE 1 .. Len(path) - 1

(* The path starts at the element Compute() is at; each edge it has taken is *)
(* of a matcher of its own, and leads to the element that holds it.          *)
Way ==
  /\ found => path # <<>>
  /\ path # <<>> => path[1].lhs = ilhs
  /\ \A i \in 1 .. Len(path) - 1 : right[path[i].rhs] = path[i + 1].lhs
  /\ \A i \in Taken : path[i].rhs \in seen /\ <<path[i].lhs, path[i].rhs>> \in edges
  /\ \A i, j \in Taken : i < j => path[i].rhs # path[j].rhs

(* An element is paired at its search at the earliest. *)
Unreached == \A l \in Elements : l >= ilhs => left[l] = kUnused

(* The sides agree, but for the matcher that is about to be linked: nobody   *)
(* holds it any more.                                                        *)
Agreed ==
  /\ \A l \in Elements : left[l] # kUnused =>
       right[left[l]] = l /\ <<l, left[l]>> \in edges /\ (found => left[l] # Top.rhs)
  /\ \A r \in Matchers : right[r] # kUnused /\ (found => r # Top.rhs) => left[right[r]] = r

(* Matchers with no way out: they are held, and neither the elements that     *)
(* hold them nor those that were left without one have an edge to others.    *)
DeadEnd(D) ==
  /\ \A r \in D : right[r] # kUnused
  /\ \A l \in Elements : left[l] \in D \/ (l < ilhs /\ left[l] = kUnused) =>
       \A r \in Matchers : <<l, r>> \in edges => r \in D

(* A path that enters a dead end stays in it, and finds nothing. *)
Outside(D) ==
  /\ \A i, j \in Taken : i < j /\ path[i].rhs \in D => path[j].rhs \in D
  /\ found => \A i \in Taken : path[i].rhs \notin D

(* What a search has passed over it has seen; a matcher it has seen is held,  *)
(* by an element of the path or one whose edges it has seen.                 *)
Explored ==
  ~ found /\ path # <<>> =>
    /\ \A i \in 1 .. Len(path) : \A r \in Matchers :
         r < path[i].rhs /\ <<path[i].lhs, r>> \in edges => r \in seen
    /\ \A r \in seen :
         /\ right[r] # kUnused
         /\ \/ \E i \in 1 .. Len(path) : path[i].lhs = right[r]
            \/ \A q \in Matchers : <<right[r], q>> \in edges => q \in seen

Consistent == TypeOK /\ Way /\ Unreached /\ Agreed
IInv == Consistent /\ Explored /\ \E D \in SUBSET Matchers : DeadEnd(D) /\ Outside(D)

--------------------------------------------------------------------------------
(* The path *)

Activation == [lhs : Elements, rhs : Nat \ {0}]

(* What SubSeq leaves of a sequence when its end is cut off *)
LEMMA Prefix ==
  ASSUME NEW S, NEW s \in Seq(S), NEW m \in Nat, m <= Len(s)
  PROVE  /\ SubSeq(s, 1, m) \in Seq(S) /\ Len(SubSeq(s, 1, m)) = m
         /\ \A i \in 1 .. m : SubSeq(s, 1, m)[i] = s[i]
<1>1. m \in Int /\ 1 \in Int /\ \A i \in 1 .. m : s[i] \in S
  OBVIOUS
<1>2. /\ SubSeq(s, 1, m) \in Seq(S)
      /\ Len(SubSeq(s, 1, m)) = IF 1 <= m THEN m - 1 + 1 ELSE 0
      /\ \A i \in 1 .. m - 1 + 1 : SubSeq(s, 1, m)[i] = s[1 + i - 1]
  BY <1>1, SubSeqProperties
<1>3. Len(SubSeq(s, 1, m)) = m
  BY <1>2
<1>4. ASSUME NEW i \in 1 .. m
      PROVE  SubSeq(s, 1, m)[i] = s[i]
  <2>1. i \in 1 .. m - 1 + 1 /\ 1 + i - 1 = i
    OBVIOUS
  <2> QED
    BY <1>2, <2>1
<1> QED
  BY <1>2, <1>3, <1>4

(* The innermost activation and those that called it *)
LEMMA PathShape ==
  ASSUME TypeOK, path # <<>>
  PROVE  /\ Len(path) \in Nat \ {0}
         /\ Top \in Activation /\ Top = path[Len(path)]
         /\ \A i \in 1 .. Len(path) : path[i] \in Activation
         /\ Callers \in Seq(Activation) /\ Len(Callers) = Len(path) - 1
         /\ \A i \in 1 .. Len(path) - 1 : Callers[i] = path[i]
         /\ Callers = <<>> <=> Len(path) = 1
<1> DEFINE n == Len(path)
<1>1. path \in Seq(Activation)
  BY DEF TypeOK, Activation
<1>2. n \in Nat /\ n # 0 /\ \A i \in 1 .. n : path[i] \in Activation
  BY <1>1
<1>3. Callers \in Seq(Activation) /\ Len(Callers) = n - 1 /\ \A i \in 1 .. n - 1 : Callers[i] = path[i]
  <2> DEFINE m == n - 1
  <2>1. m \in Nat /\ m <= Len(path)
    BY <1>2
  <2>2. Callers = SubSeq(path, 1, m)
    BY DEF Callers
  <2> HIDE DEF m
  <2>3. Callers \in Seq(Activation) /\ Len(Callers) = m /\ \A i \in 1 .. m : Callers[i] = path[i]
    BY <1>1, <2>1, <2>2, Prefix
  <2> QED
    BY <2>3 DEF m
<1>4. Callers = <<>> <=> n = 1
  BY <1>2, <1>3
<1> QED
  BY <1>2, <1>3, <1>4 DEF Top

(* An activation tries each matcher once, and keeps its element *)
LEMMA FrameShape ==
  ASSUME NEW l \in Elements
  PROVE  Frame(l) \in Activation /\ Frame(l).lhs = l /\ Frame(l).rhs = 1
BY DEF Frame, Activation

--------------------------------------------------------------------------------
(* The sides stay consistent *)

(* Nothing is paired and no search has been made at the start. *)
LEMMA InitConsistent ==
  ASSUME Init
  PROVE  IInv
<1>1. size \in Nat \X Nat
  BY MatchingAssumption DEF Init
<1>2. TypeOK
  <2>1. left \in [Elements -> Matchers \union {kUnused}] /\ right \in [Matchers -> Elements \union {kUnused}]
    BY DEF Init
  <2>2. edges \subseteq Elements \X Matchers /\ seen \subseteq Matchers /\ found \in BOOLEAN
    BY DEF Init
  <2>4. ilhs \in Nat \ {0}
    BY DEF Init
  <2>3. path \in Seq([lhs : Elements, rhs : Nat \ {0}])
    BY DEF Init
  <2> QED
    BY <1>1, <2>1, <2>2, <2>3, <2>4 DEF TypeOK
<1>3. Way /\ Unreached /\ Agreed /\ Explored
  BY <1>1 DEF Init, Way, Unreached, Agreed, Explored, Taken, kUnused, Elements, Matchers
<1>4. DeadEnd({}) /\ Outside({})
  BY <1>1 DEF Init, DeadEnd, Outside, Taken, Elements, kUnused
<1> QED
  BY <1>2, <1>3, <1>4 DEF IInv, Consistent

(* A search begins with a path of one activation. *)
LEMMA SearchConsistent ==
  ASSUME IInv, Search
  PROVE  IInv'
<1>1. Elements' = Elements /\ Matchers' = Matchers
  BY DEF Search, matrix, Elements, Matchers
<1>2. path' = <<Frame(ilhs)>> /\ Len(path') = 1 /\ path'[1] = Frame(ilhs) /\ Frame(ilhs).lhs = ilhs
      /\ Frame(ilhs).rhs = 1 /\ ilhs \in Elements /\ Frame(ilhs) \in Activation
  BY FrameShape DEF Search
<1>3. ~ found /\ ~ found' /\ Taken' = {} /\ seen' = {}
  BY <1>2 DEF Search, IInv, Consistent, Way, TypeOK, Taken
<1>4. TypeOK'
  BY <1>1, <1>2, <1>3 DEF Search, matrix, IInv, Consistent, TypeOK, Activation
<1>5. Way'
  BY <1>2, <1>3 DEF Search, Way
<1>6. Unreached' /\ Agreed'
  BY <1>1, <1>3 DEF Search, matrix, IInv, Consistent, Unreached, Agreed
<1>7. Explored'
  <2>1. size[2] \in Nat
    BY DEF IInv, Consistent, TypeOK
  <2> QED
    BY <1>1, <1>2, <1>3, <2>1 DEF Explored, Matchers
<1>8. ASSUME NEW D \in SUBSET Matchers, DeadEnd(D)
      PROVE  DeadEnd(D)' /\ Outside(D)'
  BY <1>1, <1>3, <1>8 DEF Search, matrix, DeadEnd, Outside
<1> QED
  BY <1>1, <1>4, <1>5, <1>6, <1>7, <1>8 DEF IInv, Consistent

(* A matcher that is passed over leads nowhere new. *)
LEMMA SkipConsistent ==
  ASSUME IInv, Skip
  PROVE  IInv'
<1> DEFINE n == Len(path)
<1>1. Elements' = Elements /\ Matchers' = Matchers /\ left' = left /\ right' = right /\ edges' = edges
      /\ ilhs' = ilhs /\ seen' = seen /\ found' = found /\ ~ found /\ path # <<>>
  BY DEF Skip, Searching, matrix, Elements, Matchers
<1>2. TypeOK /\ Way /\ Unreached /\ Agreed /\ Explored
  BY DEF IInv, Consistent
<1>3. /\ n \in Nat \ {0} /\ Top \in Activation /\ Top = path[n]
      /\ Callers \in Seq(Activation) /\ Len(Callers) = n - 1
      /\ \A i \in 1 .. n - 1 : Callers[i] = path[i]
  BY <1>1, <1>2, PathShape
<1>4. [Top EXCEPT !.rhs = @ + 1] \in Activation
  BY <1>3 DEF Activation
<1>5. /\ path' \in Seq(Activation) /\ Len(path') = n
      /\ \A i \in 1 .. n - 1 : path'[i] = path[i]
      /\ path'[n].lhs = Top.lhs /\ path'[n].rhs = Top.rhs + 1
  BY <1>3, <1>4 DEF Skip, Activation
<1>6. Taken' = Taken /\ Taken = 1 .. n - 1
  BY <1>1, <1>5 DEF Taken
<1>7. \A i \in 1 .. n : path'[i].lhs = path[i].lhs
  BY <1>3, <1>5
<1>8. TypeOK'
  BY <1>1, <1>2, <1>5 DEF TypeOK, Skip, matrix, Activation
<1>9. Way'
  <2>1. path' # <<>> /\ path'[1].lhs = ilhs
    BY <1>1, <1>2, <1>3, <1>5, <1>7 DEF Way
  <2>2. \A i \in 1 .. n - 1 : right[path'[i].rhs] = path'[i + 1].lhs
    BY <1>2, <1>3, <1>5, <1>7 DEF Way
  <2>3. \A i \in Taken : path'[i].rhs \in seen /\ <<path'[i].lhs, path'[i].rhs>> \in edges
    BY <1>2, <1>5, <1>6 DEF Way
  <2>4. \A i, j \in Taken : i < j => path'[i].rhs # path'[j].rhs
    BY <1>2, <1>5, <1>6 DEF Way
  <2> QED
    BY <1>1, <1>5, <1>6, <2>1, <2>2, <2>3, <2>4 DEF Way
<1>10. Unreached' /\ Agreed'
  BY <1>1, <1>2 DEF Unreached, Agreed
<1>11. Explored'
  <2>1. ASSUME NEW i \in 1 .. n, NEW r \in Matchers, r < path'[i].rhs, <<path'[i].lhs, r>> \in edges
        PROVE  r \in seen
    <3>1. CASE i < n
      BY <1>1, <1>2, <1>3, <1>5, <2>1, <3>1 DEF Explored
    <3>2. CASE i = n /\ r < Top.rhs
      BY <1>1, <1>2, <1>3, <1>5, <2>1, <3>2 DEF Explored
    <3>3. CASE i = n /\ r = Top.rhs
      BY <1>5, <2>1, <3>3 DEF Skip
    <3>4. r \in Nat /\ Top.rhs \in Nat
      BY <1>2, <1>3 DEF Matchers, Activation
    <3> QED
      BY <1>3, <1>5, <2>1, <3>1, <3>2, <3>3, <3>4
  <2>2. ASSUME NEW r \in seen
        PROVE  /\ right[r] # kUnused
               /\ \/ \E i \in 1 .. n : path'[i].lhs = right[r]
                  \/ \A q \in Matchers : <<right[r], q>> \in edges => q \in seen
    BY <1>1, <1>2, <1>7 DEF Explored
  <2> QED
    BY <1>1, <1>5, <2>1, <2>2 DEF Explored
<1>12. ASSUME NEW D \in SUBSET Matchers, DeadEnd(D), Outside(D)
       PROVE  DeadEnd(D)' /\ Outside(D)'
  BY <1>1, <1>5, <1>6, <1>12 DEF DeadEnd, Outside
<1> QED
  BY <1>1, <1>8, <1>9, <1>10, <1>11, <1>12 DEF IInv, Consistent

(* An edge is taken to a free matcher, which is in no dead end. *)
LEMMA FollowToFree ==
  ASSUME IInv, Follow, right[Top.rhs] = kUnused
  PROVE  IInv'
<1> DEFINE n == Len(path)
           r0 == Top.rhs
<1>1. Elements' = Elements /\ Matchers' = Matchers /\ left' = left /\ right' = right /\ edges' = edges
      /\ ilhs' = ilhs /\ seen' = seen \union {r0} /\ path' = path /\ ~ found /\ found' /\ found' = TRUE
      /\ path # <<>> /\ r0 \in Matchers /\ r0 \notin seen /\ <<Top.lhs, r0>> \in edges /\ right[r0] = kUnused
  BY DEF Follow, Searching, matrix, Elements, Matchers
<1>2. TypeOK /\ Way /\ Unreached /\ Agreed
  BY DEF IInv, Consistent
<1>3. n \in Nat \ {0} /\ Top \in Activation /\ Top = path[n]
  BY <1>1, <1>2, PathShape
<1>4. Taken = 1 .. n - 1 /\ Taken' = 1 .. n /\ Top' = Top
  BY <1>1 DEF Taken, Top
<1>5. TypeOK'
  BY <1>1, <1>2 DEF TypeOK, Follow, matrix
<1>6. Way'
  <2>1. \A i \in 1 .. n : path[i].rhs \in seen' /\ <<path[i].lhs, path[i].rhs>> \in edges
    BY <1>1, <1>2, <1>3, <1>4 DEF Way
  <2>2. \A i, j \in 1 .. n : i < j => path[i].rhs # path[j].rhs
    <3> SUFFICES ASSUME NEW i \in 1 .. n, NEW j \in 1 .. n, i < j
                 PROVE  path[i].rhs # path[j].rhs
      OBVIOUS
    <3>1. CASE j < n
      BY <1>2, <1>3, <1>4, <3>1 DEF Way
    <3>2. CASE j = n
      <4>1. i \in Taken
        BY <1>3, <1>4, <3>2
      <4>2. path[i].rhs \in seen
        BY <1>2, <4>1 DEF Way
      <4> QED
        BY <1>1, <1>3, <3>2, <4>2
    <3> QED
      BY <1>3, <3>1, <3>2
  <2> QED
    BY <1>1, <1>2, <1>4, <2>1, <2>2 DEF Way
<1>7. Unreached' /\ Agreed'
  <2>1. \A l \in Elements : left[l] # kUnused => left[l] # r0
    <3> SUFFICES ASSUME NEW l \in Elements, left[l] # kUnused, left[l] = r0
                 PROVE  FALSE
      OBVIOUS
    <3>1. right[r0] = l
      BY <1>2 DEF Agreed
    <3> QED
      BY <1>1, <1>2, <3>1 DEF TypeOK, Elements, kUnused
  <2> QED
    BY <1>1, <1>2, <1>4, <2>1 DEF Unreached, Agreed
<1>8. Explored'
  BY <1>1 DEF Explored
<1>9. ASSUME NEW D \in SUBSET Matchers, DeadEnd(D), Outside(D)
      PROVE  DeadEnd(D)' /\ Outside(D)'
  <2>1. r0 \notin D
    BY <1>1, <1>9 DEF DeadEnd
  <2>2. \A i \in 1 .. n : path[i].rhs \notin D
    <3> SUFFICES ASSUME NEW i \in 1 .. n, path[i].rhs \in D
                 PROVE  FALSE
      OBVIOUS
    <3>1. i < n
      BY <1>3, <2>1
    <3>2. path[n - 1].rhs \in D
      <4>1. i \in Taken /\ n - 1 \in Taken
        BY <1>3, <1>4, <3>1
      <4>2. CASE i = n - 1
        BY <4>2
      <4>3. CASE i < n - 1
        BY <1>9, <4>1, <4>3 DEF Outside
      <4> QED
        BY <1>3, <3>1, <4>2, <4>3
    <3>3. right[path[n - 1].rhs] = Top.lhs
      BY <1>2, <1>3, <3>1 DEF Way
    <3>4. path[n - 1].rhs \in Matchers /\ right[path[n - 1].rhs] # kUnused
      BY <1>9, <3>2 DEF DeadEnd
    <3>5. left[Top.lhs] = path[n - 1].rhs
      BY <1>1, <1>2, <3>3, <3>4 DEF Agreed
    <3>6. r0 \in D
      BY <1>1, <1>3, <1>9, <3>2, <3>5 DEF DeadEnd, Activation
    <3> QED
      BY <2>1, <3>6
  <2> QED
    BY <1>1, <1>4, <1>9, <2>2 DEF DeadEnd, Outside
<1> QED
  BY <1>1, <1>5, <1>6, <1>7, <1>8, <1>9 DEF IInv, Consistent

(* An edge is taken to a matcher that is held: its element is next. *)
LEMMA FollowToHeld ==
  ASSUME IInv, Follow, right[Top.rhs] # kUnused
  PROVE  IInv'
<1> DEFINE n == Len(path)
           r0 == Top.rhs
           next == right[r0]
<1>1. Elements' = Elements /\ Matchers' = Matchers /\ left' = left /\ right' = right /\ edges' = edges
      /\ ilhs' = ilhs /\ seen' = seen \union {r0} /\ path' = Append(path, Frame(next)) /\ ~ found /\ ~ found'
      /\ found' = found
      /\ path # <<>> /\ r0 \in Matchers /\ r0 \notin seen /\ <<Top.lhs, r0>> \in edges
  BY DEF Follow, Searching, matrix, Elements, Matchers
<1>2. TypeOK /\ Way /\ Unreached /\ Agreed /\ Explored
  BY DEF IInv, Consistent
<1>3. n \in Nat \ {0} /\ Top \in Activation /\ Top = path[n] /\ path \in Seq(Activation)
  BY <1>1, <1>2, PathShape DEF TypeOK, Activation
<1>4. next \in Elements
  BY <1>1, <1>2 DEF TypeOK
<1>5. /\ path' \in Seq(Activation) /\ Len(path') = n + 1
      /\ \A i \in 1 .. n : path'[i] = path[i]
      /\ path'[n + 1].lhs = next /\ path'[n + 1].rhs = 1
  BY <1>1, <1>3, <1>4, FrameShape
<1>6. Taken = 1 .. n - 1 /\ Taken' = 1 .. n
  BY <1>1, <1>3, <1>5 DEF Taken
<1>7. TypeOK'
  BY <1>1, <1>2, <1>5 DEF TypeOK, Follow, matrix, Activation
<1>8. Way'
  <2>1. path' # <<>> /\ path'[1].lhs = ilhs
    BY <1>1, <1>2, <1>3, <1>5 DEF Way
  <2>2. \A i \in 1 .. n : right[path'[i].rhs] = path'[i + 1].lhs
    <3> SUFFICES ASSUME NEW i \in 1 .. n
                 PROVE  right[path'[i].rhs] = path'[i + 1].lhs
      OBVIOUS
    <3>1. CASE i < n
      BY <1>2, <1>3, <1>5, <3>1 DEF Way
    <3>2. CASE i = n
      BY <1>3, <1>5, <3>2
    <3> QED
      BY <1>3, <3>1, <3>2
  <2>3. ASSUME NEW i \in 1 .. n
        PROVE  path'[i].rhs \in seen' /\ <<path'[i].lhs, path'[i].rhs>> \in edges
    <3>1. CASE i < n
      <4>1. i \in Taken
        BY <1>3, <1>6, <3>1
      <4> QED
        BY <1>1, <1>2, <1>5, <4>1 DEF Way
    <3>2. CASE i = n
      BY <1>1, <1>3, <1>5, <3>2
    <3> QED
      BY <1>3, <3>1, <3>2
  <2>4. \A i, j \in 1 .. n : i < j => path'[i].rhs # path'[j].rhs
    <3> SUFFICES ASSUME NEW i \in 1 .. n, NEW j \in 1 .. n, i < j
                 PROVE  path[i].rhs # path[j].rhs
      BY <1>5
    <3>1. CASE j < n
      BY <1>2, <1>3, <1>6, <3>1 DEF Way
    <3>2. CASE j = n
      <4>1. i \in Taken
        BY <1>3, <1>6, <3>2
      <4>2. path[i].rhs \in seen
        BY <1>2, <4>1 DEF Way
      <4> QED
        BY <1>1, <1>3, <3>2, <4>2
    <3> QED
      BY <1>3, <3>1, <3>2
  <2> QED
    BY <1>1, <1>3, <1>5, <1>6, <2>1, <2>2, <2>3, <2>4 DEF Way
<1>9. Unreached' /\ Agreed'
  BY <1>1, <1>2 DEF Unreached, Agreed
<1>10. Explored'
  <2>1. ASSUME NEW i \in 1 .. n + 1, NEW r \in Matchers, r < path'[i].rhs, <<path'[i].lhs, r>> \in edges
        PROVE  r \in seen'
    <3>1. CASE i <= n
      BY <1>1, <1>2, <1>3, <1>5, <2>1, <3>1 DEF Explored
    <3>2. CASE i = n + 1
      <4>1. r \in Nat \ {0}
        BY <1>2 DEF Matchers, TypeOK
      <4> QED
        BY <1>5, <2>1, <3>2, <4>1
    <3> QED
      BY <1>3, <3>1, <3>2
  <2>2. ASSUME NEW r \in seen'
        PROVE  /\ right[r] # kUnused
               /\ \/ \E i \in 1 .. n + 1 : path'[i].lhs = right[r]
                  \/ \A q \in Matchers : <<right[r], q>> \in edges => q \in seen'
    <3>1. CASE r = r0
      BY <1>3, <1>5, <3>1
    <3>2. CASE r \in seen
      <4>1. CASE \E i \in 1 .. n : path[i].lhs = right[r]
        BY <1>1, <1>2, <1>3, <1>5, <3>2, <4>1 DEF Explored
      <4>2. CASE \A q \in Matchers : <<right[r], q>> \in edges => q \in seen
        BY <1>1, <1>2, <3>2, <4>2 DEF Explored
      <4> QED
        BY <1>1, <1>2, <3>2, <4>1, <4>2 DEF Explored
    <3> QED
      BY <1>1, <3>1, <3>2
  <2> QED
    BY <1>1, <1>5, <2>1, <2>2 DEF Explored
<1>11. ASSUME NEW D \in SUBSET Matchers, DeadEnd(D), Outside(D)
       PROVE  DeadEnd(D)' /\ Outside(D)'
  <2>1. ASSUME NEW i \in 1 .. n, NEW j \in 1 .. n, i < j, path[i].rhs \in D
        PROVE  path[j].rhs \in D
    <3>1. CASE j < n
      BY <1>3, <1>6, <1>11, <2>1, <3>1 DEF Outside
    <3>2. CASE j = n
      <4>1. path[n - 1].rhs \in D
        <5>1. i \in Taken /\ n - 1 \in Taken
          BY <1>3, <1>6, <2>1, <3>2
        <5>2. CASE i = n - 1
          BY <2>1, <5>2
        <5>3. CASE i < n - 1
          BY <1>11, <2>1, <5>1, <5>3 DEF Outside
        <5> QED
          BY <1>3, <2>1, <3>2, <5>2, <5>3
      <4>2. right[path[n - 1].rhs] = Top.lhs
        BY <1>2, <1>3, <2>1, <3>2 DEF Way
      <4>3. path[n - 1].rhs \in Matchers /\ right[path[n - 1].rhs] # kUnused
        BY <1>11, <4>1 DEF DeadEnd
      <4>4. left[Top.lhs] = path[n - 1].rhs
        BY <1>1, <1>2, <4>2, <4>3 DEF Agreed
      <4>5. r0 \in D
        BY <1>1, <1>3, <1>11, <4>1, <4>4 DEF DeadEnd, Activation
      <4> QED
        BY <1>3, <3>2, <4>5
    <3> QED
      BY <1>3, <3>1, <3>2
  <2> QED
    BY <1>1, <1>5, <1>6, <1>11, <2>1 DEF DeadEnd, Outside
<1> QED
  BY <1>1, <1>7, <1>8, <1>9, <1>10, <1>11 DEF IInv, Consistent

(* An activation that found nothing has seen all its element could take. *)
LEMMA GivenUp ==
  ASSUME IInv, GiveUp
  PROVE  \A q \in Matchers : <<Top.lhs, q>> \in edges => q \in seen
<1> SUFFICES ASSUME NEW q \in Matchers, <<Top.lhs, q>> \in edges
             PROVE  q \in seen
  OBVIOUS
<1>1. path # <<>> /\ ~ found /\ Top.rhs \notin Matchers
  BY DEF GiveUp, Searching
<1>2. Len(path) \in Nat \ {0} /\ Top \in Activation /\ Top = path[Len(path)]
  BY <1>1, PathShape DEF IInv, Consistent
<1>3. q < Top.rhs
  <2>1. size[2] \in Nat
    BY DEF IInv, Consistent, TypeOK
  <2> QED
    BY <1>1, <1>2, <2>1 DEF Matchers, Activation
<1> QED
  BY <1>1, <1>2, <1>3 DEF IInv, Explored

(* It returns to its caller, which goes on. *)
LEMMA GiveUpToCaller ==
  ASSUME IInv, GiveUp, Callers # <<>>
  PROVE  IInv'
<1> DEFINE n == Len(path)
<1>1. Elements' = Elements /\ Matchers' = Matchers /\ left' = left /\ right' = right /\ edges' = edges
      /\ ilhs' = ilhs /\ seen' = seen /\ path' = Callers /\ ~ found /\ ~ found' /\ found' = found /\ path # <<>>
  BY DEF GiveUp, Searching, matrix, Elements, Matchers
<1>2. TypeOK /\ Way /\ Unreached /\ Agreed /\ Explored
  BY DEF IInv, Consistent
<1>3. /\ n \in Nat \ {0} /\ n # 1 /\ Top = path[n]
      /\ Callers \in Seq(Activation) /\ Len(path') = n - 1
      /\ \A i \in 1 .. n - 1 : path'[i] = path[i]
  BY <1>1, <1>2, PathShape
<1>4. Taken = 1 .. n - 1 /\ Taken' = 1 .. n - 2
  BY <1>1, <1>3 DEF Taken
<1>5. TypeOK'
  BY <1>1, <1>2, <1>3 DEF TypeOK, GiveUp, matrix, Activation
<1>6. Way'
  <2>1. path' # <<>> /\ path'[1].lhs = ilhs
    BY <1>1, <1>2, <1>3 DEF Way
  <2>2. \A i \in 1 .. n - 2 : right[path'[i].rhs] = path'[i + 1].lhs
    BY <1>2, <1>3 DEF Way
  <2>3. \A i \in 1 .. n - 2 : i \in Taken /\ path'[i] = path[i]
    BY <1>3, <1>4
  <2>4. \A i \in 1 .. n - 2 : path'[i].rhs \in seen /\ <<path'[i].lhs, path'[i].rhs>> \in edges
    BY <1>2, <2>3 DEF Way
  <2>5. \A i, j \in 1 .. n - 2 : i < j => path'[i].rhs # path'[j].rhs
    BY <1>2, <2>3 DEF Way
  <2> QED
    BY <1>1, <1>3, <1>4, <2>1, <2>2, <2>4, <2>5 DEF Way
<1>7. Unreached' /\ Agreed'
  BY <1>1, <1>2 DEF Unreached, Agreed
<1>8. Explored'
  <2>1. ASSUME NEW i \in 1 .. n - 1, NEW r \in Matchers, r < path'[i].rhs, <<path'[i].lhs, r>> \in edges
        PROVE  r \in seen
    BY <1>1, <1>2, <1>3, <2>1 DEF Explored
  <2>2. ASSUME NEW r \in seen
        PROVE  /\ right[r] # kUnused
               /\ \/ \E i \in 1 .. n - 1 : path'[i].lhs = right[r]
                  \/ \A q \in Matchers : <<right[r], q>> \in edges => q \in seen
    <3>1. CASE \E i \in 1 .. n - 1 : path[i].lhs = right[r]
      BY <1>1, <1>2, <1>3, <3>1 DEF Explored
    <3>2. CASE Top.lhs = right[r]
      BY <1>1, <1>2, <3>2, GivenUp DEF Explored
    <3>3. CASE \A q \in Matchers : <<right[r], q>> \in edges => q \in seen
      BY <1>1, <1>2, <3>3 DEF Explored
    <3>4. \A i \in 1 .. n : i \in 1 .. n - 1 \/ i = n
      BY <1>3
    <3> QED
      BY <1>1, <1>2, <1>3, <3>1, <3>2, <3>3, <3>4 DEF Explored
  <2> QED
    BY <1>1, <1>3, <2>1, <2>2 DEF Explored
<1>9. ASSUME NEW D \in SUBSET Matchers, DeadEnd(D), Outside(D)
      PROVE  DeadEnd(D)' /\ Outside(D)'
  BY <1>1, <1>3, <1>4, <1>9 DEF DeadEnd, Outside
<1> QED
  BY <1>1, <1>5, <1>6, <1>7, <1>8, <1>9 DEF IInv, Consistent

(* The search ends without a pair: what it has seen is a dead end, too. *)
LEMMA GiveUpSearch ==
  ASSUME IInv, GiveUp, Callers = <<>>
  PROVE  IInv'
<1>1. Elements' = Elements /\ Matchers' = Matchers /\ left' = left /\ right' = right /\ edges' = edges
      /\ ilhs' = ilhs + 1 /\ seen' = seen /\ path' = <<>> /\ ~ found /\ ~ found' /\ found' = found /\ path # <<>>
  BY DEF GiveUp, Searching, matrix, Elements, Matchers
<1>2. TypeOK /\ Way /\ Unreached /\ Agreed /\ Explored
  BY DEF IInv, Consistent
<1>3. Len(path) = 1 /\ Top = path[1] /\ Top.lhs = ilhs
  BY <1>1, <1>2, PathShape DEF Way
<1>4. Len(path') = 0 /\ Taken' = {}
  BY <1>1 DEF Taken
<1>5. TypeOK'
  <2>1. path' \in Seq([lhs : Elements, rhs : Nat \ {0}])
    BY <1>1
  <2>2. ilhs' \in Nat \ {0}
    BY <1>1, <1>2 DEF TypeOK
  <2> QED
    BY <1>1, <1>2, <2>1, <2>2 DEF TypeOK, GiveUp, matrix
<1>6. Way'
  BY <1>1, <1>4 DEF Way
<1>7. Unreached' /\ Agreed'
  <2>1. \A l \in Elements : l >= ilhs + 1 => l >= ilhs
    BY <1>2 DEF TypeOK, Elements
  <2> QED
    BY <1>1, <1>2, <2>1 DEF Unreached, Agreed
<1>8. Explored'
  BY <1>1 DEF Explored
<1>9. ASSUME NEW D \in SUBSET Matchers, DeadEnd(D)
      PROVE  DeadEnd(D \union seen)' /\ Outside(D \union seen)'
  <2>1. ASSUME NEW r \in D \union seen
        PROVE  right[r] # kUnused
    BY <1>1, <1>2, <1>9, <2>1 DEF DeadEnd, Explored
  <2>2. ASSUME NEW l \in Elements, left[l] \in D \union seen \/ (l < ilhs + 1 /\ left[l] = kUnused),
               NEW r \in Matchers, <<l, r>> \in edges
        PROVE  r \in D \union seen
    <3>1. CASE left[l] \in D
      BY <1>9, <2>2, <3>1 DEF DeadEnd
    <3>2. CASE left[l] \in seen
      <4>1. left[l] # kUnused
        BY <1>2, <3>2 DEF TypeOK, Matchers, kUnused
      <4>2. right[left[l]] = l
        BY <1>2, <4>1 DEF Agreed
      <4>3. CASE Top.lhs = l
        BY <2>2, <4>3, GivenUp
      <4>4. CASE \A q \in Matchers : <<l, q>> \in edges => q \in seen
        BY <2>2, <4>4
      <4>5. Top.lhs = l \/ \A q \in Matchers : <<l, q>> \in edges => q \in seen
        BY <1>1, <1>2, <1>3, <3>2, <4>2 DEF Explored
      <4> QED
        BY <4>3, <4>4, <4>5
    <3>3. CASE l < ilhs /\ left[l] = kUnused
      BY <1>9, <2>2, <3>3 DEF DeadEnd
    <3>4. CASE l = ilhs
      BY <1>3, <2>2, <3>4, GivenUp
    <3>5. l < ilhs + 1 => l < ilhs \/ l = ilhs
      BY <1>2 DEF TypeOK, Elements
    <3> QED
      BY <2>2, <3>1, <3>2, <3>3, <3>4, <3>5
  <2> QED
    BY <1>1, <1>4, <2>1, <2>2 DEF DeadEnd, Outside
<1>10. ASSUME NEW D \in SUBSET Matchers
       PROVE  D \union seen \in SUBSET Matchers
  BY <1>2 DEF TypeOK
<1> QED
  BY <1>1, <1>5, <1>6, <1>7, <1>8, <1>9, <1>10 DEF IInv, Consistent

(* What a link finds: its element and matcher are joined by an edge, and     *)
(* nobody else holds the matcher.                                            *)
LEMMA LinkShape ==
  ASSUME IInv, Link
  PROVE  /\ Elements' = Elements /\ Matchers' = Matchers /\ edges' = edges /\ seen' = seen
         /\ left' = [left EXCEPT ![Top.lhs] = Top.rhs] /\ right' = [right EXCEPT ![Top.rhs] = Top.lhs]
         /\ path' = Callers /\ path # <<>> /\ found
         /\ Top.lhs \in Elements /\ Top.rhs \in Matchers /\ <<Top.lhs, Top.rhs>> \in edges
         /\ Top.lhs # kUnused /\ Top.rhs # kUnused
<1>1. Elements' = Elements /\ Matchers' = Matchers /\ edges' = edges /\ seen' = seen
      /\ left' = [left EXCEPT ![Top.lhs] = Top.rhs] /\ right' = [right EXCEPT ![Top.rhs] = Top.lhs]
      /\ path' = Callers /\ path # <<>> /\ found
  BY DEF Link, matrix, Elements, Matchers
<1>2. TypeOK /\ Way
  BY DEF IInv, Consistent
<1>3. Len(path) \in Nat \ {0} /\ Top \in Activation /\ Top = path[Len(path)]
  BY <1>1, <1>2, PathShape
<1>4. Len(path) \in Taken
  BY <1>1, <1>3 DEF Taken
<1>5. Top.rhs \in Matchers /\ <<Top.lhs, Top.rhs>> \in edges
  BY <1>2, <1>3, <1>4 DEF Way, TypeOK
<1>6. Top.lhs \in Elements
  BY <1>3 DEF Activation
<1>7. \A x \in Elements \union Matchers : x # kUnused
  BY <1>2 DEF TypeOK, Elements, Matchers, kUnused
<1> QED
  BY <1>1, <1>5, <1>6, <1>7

(* A link of an activation that was called: its element gives up the matcher *)
(* its caller has taken, which is linked next.                               *)
LEMMA LinkCalled ==
  ASSUME IInv, Link, Callers # <<>>
  PROVE  IInv'
<1> DEFINE n == Len(path)
           l0 == Top.lhs
           r0 == Top.rhs
           r1 == path[n - 1].rhs
<1>1. Elements' = Elements /\ Matchers' = Matchers /\ edges' = edges /\ seen' = seen
      /\ left' = [left EXCEPT ![l0] = r0] /\ right' = [right EXCEPT ![r0] = l0]
      /\ path' = Callers /\ path # <<>> /\ found
      /\ l0 \in Elements /\ r0 \in Matchers /\ <<l0, r0>> \in edges /\ l0 # kUnused /\ r0 # kUnused
  BY LinkShape
<1>2. found' = TRUE /\ ilhs' = ilhs
  BY DEF Link
<1>3. TypeOK /\ Way /\ Unreached /\ Agreed
  BY DEF IInv, Consistent
<1>4. /\ n \in Nat \ {0} /\ n # 1 /\ Top = path[n]
      /\ Callers \in Seq(Activation) /\ Len(path') = n - 1
      /\ \A i \in 1 .. n - 1 : path'[i] = path[i]
  BY <1>1, <1>3, PathShape
<1>5. Taken = 1 .. n /\ Taken' = 1 .. n - 1 /\ Top' = path[n - 1]
  BY <1>1, <1>2, <1>4 DEF Taken, Top
<1>6. \A l \in Elements : left'[l] = IF l = l0 THEN r0 ELSE left[l]
  BY <1>1, <1>3 DEF TypeOK
<1>7. \A r \in Matchers : right'[r] = IF r = r0 THEN l0 ELSE right[r]
  BY <1>1, <1>3 DEF TypeOK
<1>8. r1 \in Matchers /\ right[r1] = l0 /\ r1 # r0 /\ left[l0] = r1
  <2>1. n - 1 \in Taken /\ n \in Taken /\ n - 1 < n /\ n - 1 \in 1 .. n - 1 /\ n - 1 + 1 = n
    BY <1>4, <1>5
  <2>2. r1 \in Matchers
    BY <1>3, <2>1 DEF Way, TypeOK
  <2>3. right[r1] = l0
    BY <1>3, <1>4, <2>1 DEF Way
  <2>4. r1 # r0
    BY <1>3, <1>4, <2>1 DEF Way
  <2> QED
    BY <1>1, <1>3, <2>2, <2>3, <2>4 DEF Agreed
<1>9. TypeOK'
  <2>1. left' \in [Elements -> Matchers \union {kUnused}] /\ right' \in [Matchers -> Elements \union {kUnused}]
    BY <1>1, <1>3 DEF TypeOK
  <2> QED
    BY <1>1, <1>2, <1>3, <1>4, <2>1 DEF TypeOK, Link, matrix, Activation
<1>10. Way'
  <2>1. path' # <<>> /\ path'[1].lhs = ilhs
    BY <1>1, <1>3, <1>4 DEF Way
  <2>2. ASSUME NEW i \in 1 .. n - 2
        PROVE  right'[path'[i].rhs] = path'[i + 1].lhs
    <3>1. i \in Taken /\ n \in Taken /\ i < n /\ i \in 1 .. n - 1 /\ i + 1 \in 1 .. n - 1
      BY <1>4, <1>5
    <3>2. path[i].rhs \in Matchers /\ path[i].rhs # r0
      BY <1>3, <1>4, <3>1 DEF Way, TypeOK
    <3>3. right[path[i].rhs] = path[i + 1].lhs
      BY <1>3, <3>1 DEF Way
    <3> QED
      BY <1>4, <1>7, <3>1, <3>2, <3>3
  <2>3. \A i \in 1 .. n - 1 : path'[i].rhs \in seen /\ <<path'[i].lhs, path'[i].rhs>> \in edges
    BY <1>3, <1>4, <1>5 DEF Way
  <2>4. \A i, j \in 1 .. n - 1 : i < j => path'[i].rhs # path'[j].rhs
    BY <1>3, <1>4, <1>5, SMTT(60) DEF Way
  <2>5. Len(path') - 1 = n - 2
    BY <1>4
  <2> QED
    BY <1>1, <1>2, <1>5, <2>1, <2>2, <2>3, <2>4, <2>5 DEF Way
<1>11. Unreached'
  <2>1. left[l0] # kUnused
    BY <1>3, <1>8 DEF TypeOK, Matchers, kUnused
  <2> QED
    BY <1>1, <1>2, <1>3, <1>6, <2>1 DEF Unreached
<1>12. Agreed'
  <2>1. ASSUME NEW l \in Elements, left'[l] # kUnused
        PROVE  right'[left'[l]] = l /\ <<l, left'[l]>> \in edges /\ left'[l] # r1
    <3>1. CASE l = l0
      BY <1>1, <1>6, <1>7, <1>8, <3>1
    <3>2. CASE l # l0
      <4>1. left'[l] = left[l] /\ left[l] # kUnused
        BY <1>6, <2>1, <3>2
      <4>2. right[left[l]] = l /\ <<l, left[l]>> \in edges /\ left[l] # r0
        BY <1>1, <1>3, <4>1 DEF Agreed
      <4>3. left[l] \in Matchers
        BY <1>3, <4>1 DEF TypeOK
      <4> QED
        BY <1>7, <1>8, <3>2, <4>1, <4>2, <4>3
    <3> QED
      BY <3>1, <3>2
  <2>2. ASSUME NEW r \in Matchers, right'[r] # kUnused, r # r1
        PROVE  left'[right'[r]] = r
    <3>1. CASE r = r0
      BY <1>1, <1>6, <1>7, <3>1
    <3>2. CASE r # r0
      <4>1. right'[r] = right[r] /\ right[r] # kUnused
        BY <1>7, <2>2, <3>2
      <4>2. left[right[r]] = r /\ right[r] \in Elements
        BY <1>1, <1>3, <3>2, <4>1 DEF Agreed, TypeOK
      <4>3. right[r] # l0
        BY <1>8, <2>2, <4>2
      <4> QED
        BY <1>6, <4>1, <4>2, <4>3
    <3> QED
      BY <3>1, <3>2
  <2> QED
    BY <1>1, <1>2, <1>5, <2>1, <2>2 DEF Agreed
<1>13. Explored'
  BY <1>2 DEF Explored
<1>14. ASSUME NEW D \in SUBSET Matchers, DeadEnd(D), Outside(D)
       PROVE  DeadEnd(D)' /\ Outside(D)'
  <2>1. \A i \in 1 .. n : path[i].rhs \notin D
    BY <1>1, <1>5, <1>14 DEF Outside
  <2>2. r0 \notin D
    BY <1>4, <2>1
  <2>3. \A r \in D : right'[r] # kUnused
    BY <1>7, <1>14, <2>2 DEF DeadEnd
  <2>4. ASSUME NEW l \in Elements, left'[l] \in D \/ (l < ilhs /\ left'[l] = kUnused)
        PROVE  left[l] \in D \/ (l < ilhs /\ left[l] = kUnused)
    BY <1>1, <1>6, <2>2, <2>4
  <2>5. DeadEnd(D)'
    BY <1>1, <1>2, <1>14, <2>3, <2>4 DEF DeadEnd
  <2>6. \A i \in 1 .. n - 1 : path'[i].rhs \notin D
    BY <1>4, <2>1
  <2> QED
    BY <1>2, <1>5, <2>5, <2>6 DEF Outside
<1> QED
  BY <1>1, <1>9, <1>10, <1>11, <1>12, <1>13, <1>14 DEF IInv, Consistent

(* The last link is of the element Compute() is at, and the search is over. *)
LEMMA LinkFirst ==
  ASSUME IInv, Link, Callers = <<>>
  PROVE  IInv'
<1> DEFINE l0 == Top.lhs
           r0 == Top.rhs
<1>1. Elements' = Elements /\ Matchers' = Matchers /\ edges' = edges /\ seen' = seen
      /\ left' = [left EXCEPT ![l0] = r0] /\ right' = [right EXCEPT ![r0] = l0]
      /\ path' = <<>> /\ path # <<>> /\ found
      /\ l0 \in Elements /\ r0 \in Matchers /\ <<l0, r0>> \in edges /\ l0 # kUnused /\ r0 # kUnused
  BY LinkShape
<1>2. ~ found' /\ found' = FALSE /\ ilhs' = ilhs + 1
  BY DEF Link
<1>3. TypeOK /\ Way /\ Unreached /\ Agreed
  BY DEF IInv, Consistent
<1>4. Len(path) = 1 /\ Top = path[1] /\ l0 = ilhs /\ left[l0] = kUnused
  <2>1. Len(path) = 1 /\ Top = path[1] /\ l0 = ilhs
    BY <1>1, <1>3, PathShape DEF Way
  <2>2. ilhs >= ilhs
    BY <1>3 DEF TypeOK
  <2> QED
    BY <1>1, <1>3, <2>1, <2>2 DEF Unreached
<1>5. Len(path') = 0 /\ Taken' = {}
  BY <1>1, <1>2 DEF Taken
<1>6. \A l \in Elements : left'[l] = IF l = l0 THEN r0 ELSE left[l]
  BY <1>1, <1>3 DEF TypeOK
<1>7. \A r \in Matchers : right'[r] = IF r = r0 THEN l0 ELSE right[r]
  BY <1>1, <1>3 DEF TypeOK
<1>8. TypeOK'
  <2>1. left' \in [Elements -> Matchers \union {kUnused}] /\ right' \in [Matchers -> Elements \union {kUnused}]
    BY <1>1, <1>3 DEF TypeOK
  <2>2. path' \in Seq([lhs : Elements, rhs : Nat \ {0}])
    BY <1>1
  <2>3. ilhs' \in Nat \ {0}
    BY <1>2, <1>3 DEF TypeOK
  <2> QED
    BY <1>1, <1>2, <1>3, <2>1, <2>2, <2>3 DEF TypeOK, Link, matrix
<1>9. Way'
  BY <1>1, <1>2, <1>5 DEF Way
<1>10. Unreached'
  <2>1. \A l \in Elements : l >= ilhs + 1 => l >= ilhs /\ l # l0
    BY <1>3, <1>4 DEF TypeOK, Elements
  <2> QED
    BY <1>1, <1>2, <1>3, <1>6, <2>1 DEF Unreached
<1>11. Agreed'
  <2>1. ASSUME NEW l \in Elements, left'[l] # kUnused
        PROVE  right'[left'[l]] = l /\ <<l, left'[l]>> \in edges
    <3>1. CASE l = l0
      BY <1>1, <1>6, <1>7, <3>1
    <3>2. CASE l # l0
      <4>1. left'[l] = left[l] /\ left[l] # kUnused
        BY <1>6, <2>1, <3>2
      <4>2. right[left[l]] = l /\ <<l, left[l]>> \in edges /\ left[l] # r0
        BY <1>1, <1>3, <4>1 DEF Agreed
      <4>3. left[l] \in Matchers
        BY <1>3, <4>1 DEF TypeOK
      <4> QED
        BY <1>7, <4>1, <4>2, <4>3
    <3> QED
      BY <3>1, <3>2
  <2>2. ASSUME NEW r \in Matchers, right'[r] # kUnused
        PROVE  left'[right'[r]] = r
    <3>1. CASE r = r0
      BY <1>1, <1>6, <1>7, <3>1
    <3>2. CASE r # r0
      <4>1. right'[r] = right[r] /\ right[r] # kUnused
        BY <1>7, <2>2, <3>2
      <4>2. left[right[r]] = r /\ right[r] \in Elements
        BY <1>1, <1>3, <3>2, <4>1 DEF Agreed, TypeOK
      <4>3. r # kUnused
        BY <1>3 DEF TypeOK, Matchers, kUnused
      <4>4. right[r] # l0
        BY <1>4, <4>2, <4>3
      <4> QED
        BY <1>6, <4>1, <4>2, <4>4
    <3> QED
      BY <3>1, <3>2
  <2> QED
    BY <1>1, <1>2, <2>1, <2>2 DEF Agreed
<1>12. Explored'
  BY <1>1 DEF Explored
<1>13. ASSUME NEW D \in SUBSET Matchers, DeadEnd(D), Outside(D)
       PROVE  DeadEnd(D)' /\ Outside(D)'
  <2>1. r0 \notin D
    BY <1>1, <1>4, <1>13 DEF Outside, Taken
  <2>2. \A r \in D : right'[r] # kUnused
    BY <1>1, <1>7, <1>13, <2>1 DEF DeadEnd
  <2>3. ASSUME NEW l \in Elements, left'[l] \in D \/ (l < ilhs + 1 /\ left'[l] = kUnused)
        PROVE  left[l] \in D \/ (l < ilhs /\ left[l] = kUnused)
    <3>1. l # l0 /\ left'[l] = left[l]
      BY <1>1, <1>6, <2>1, <2>3
    <3>2. l < ilhs + 1 => l < ilhs
      BY <1>3, <1>4, <3>1 DEF TypeOK, Elements
    <3> QED
      BY <2>3, <3>1, <3>2
  <2>4. DeadEnd(D)'
    BY <1>1, <1>2, <1>13, <2>2, <2>3 DEF DeadEnd
  <2> QED
    BY <1>2, <1>5, <2>4 DEF Outside
<1> QED
  BY <1>1, <1>8, <1>9, <1>10, <1>11, <1>12, <1>13 DEF IInv, Consistent

--------------------------------------------------------------------------------
(* Theorems *)

(* Every step of Compute() and TryAugment() keeps the invariant. *)
LEMMA StepConsistent ==
  ASSUME IInv, [Next]_vars
  PROVE  IInv'
<1>1. CASE UNCHANGED vars
  <2>1. Elements' = Elements /\ Matchers' = Matchers /\ left' = left /\ right' = right /\ edges' = edges
        /\ ilhs' = ilhs /\ seen' = seen /\ path' = path /\ found' = found /\ size' = size
    BY <1>1 DEF vars, matrix, Elements, Matchers
  <2>2. Taken' = Taken /\ Top' = Top
    BY <2>1 DEF Taken, Top
  <2>3. Consistent' /\ Explored'
    BY <2>1, <2>2 DEF IInv, Consistent, TypeOK, Way, Unreached, Agreed, Explored
  <2>4. ASSUME NEW D \in SUBSET Matchers, DeadEnd(D), Outside(D)
        PROVE  DeadEnd(D)' /\ Outside(D)'
    BY <2>1, <2>2, <2>4 DEF DeadEnd, Outside
  <2> QED
    BY <2>1, <2>3, <2>4 DEF IInv
<1>2. CASE Follow
  BY <1>2, FollowToFree, FollowToHeld
<1>3. CASE GiveUp
  BY <1>3, GiveUpToCaller, GiveUpSearch
<1>4. CASE Link
  BY <1>4, LinkCalled, LinkFirst
<1> QED
  BY <1>1, <1>2, <1>3, <1>4, SearchConsistent, SkipConsistent DEF Next

(* At every moment of Compute() the path of TryAugment() alternates, the two
   directions of the pairing agree but for the matcher about to be linked, and
   failed searches are behind a dead end (gmock-matchers.cc). *)
THEOREM Invariance == Spec => []IInv
<1>1. Init => IInv
  BY InitConsistent
<1>2. IInv /\ [Next]_vars => IInv'
  BY StepConsistent
<1> QED
  BY <1>1, <1>2, PTL DEF Spec

(* Between two searches the two directions of the pairing agree everywhere. *)
LEMMA ConsistentAgrees ==
  ASSUME IInv
  PROVE  MutuallyReferent
BY DEF IInv, Consistent, Agreed, MutuallyReferent

(* Every pairing can be mapped into the one that was found: a pair whose      *)
(* matcher is in the dead end to the one that holds the matcher, another to  *)
(* the one that its element is in.                                           *)
LEMMA NoPairingIsLarger ==
  ASSUME IInv, Computed, NEW pairs \in SUBSET edges, IsMatching(pairs)
  PROVE  Cardinality(pairs) <= Cardinality(Pairs)
<1>1. TypeOK /\ Agreed /\ ~ found
  BY DEF IInv, Consistent, Way, TypeOK, Computed
<1>2. PICK D \in SUBSET Matchers : DeadEnd(D)
  BY DEF IInv
<1>3. \A l \in Elements : l < ilhs
  BY <1>1 DEF Computed, TypeOK, Elements
<1>4. \A r \in Matchers : right[r] # kUnused => right[r] \in Elements /\ left[right[r]] = r
  BY <1>1 DEF Agreed, TypeOK
<1>5. \A x \in Elements \union Matchers : x # kUnused
  BY <1>1 DEF TypeOK, Elements, Matchers, kUnused
<1> DEFINE Image(p) == IF p[2] \in D THEN <<right[p[2]], p[2]>> ELSE <<p[1], left[p[1]]>>
           f == [p \in pairs |-> Image(p)]
<1>6. ASSUME NEW p \in pairs
      PROVE  p = <<p[1], p[2]>> /\ p[1] \in Elements /\ p[2] \in Matchers /\ p \in edges
  BY <1>1 DEF TypeOK
<1>7. ASSUME NEW p \in pairs, p[2] \notin D
      PROVE  left[p[1]] # kUnused /\ left[p[1]] \notin D /\ right[left[p[1]]] = p[1]
  <2>1. <<p[1], p[2]>> \in edges /\ p[1] < ilhs
    BY <1>3, <1>6
  <2>2. left[p[1]] # kUnused /\ left[p[1]] \notin D
    BY <1>2, <1>6, <1>7, <2>1 DEF DeadEnd
  <2> QED
    BY <1>1, <1>6, <2>2 DEF Agreed
<1>8. ASSUME NEW p \in pairs
      PROVE  Image(p) \in Pairs
  <2>1. CASE p[2] \in D
    <3>1. right[p[2]] \in Elements /\ left[right[p[2]]] = p[2] /\ p[2] # kUnused
      BY <1>2, <1>4, <1>5, <1>6, <2>1 DEF DeadEnd
    <3> QED
      BY <2>1, <3>1 DEF Pairs
  <2>2. CASE p[2] \notin D
    BY <1>6, <1>7, <2>2 DEF Pairs
  <2> QED
    BY <2>1, <2>2
<1>9. ASSUME NEW p \in pairs, NEW q \in pairs, Image(p) = Image(q)
      PROVE  p = q
  <2>1. p # q => p[1] # q[1] /\ p[2] # q[2]
    BY DEF IsMatching
  <2>2. CASE p[2] \in D /\ q[2] \in D
    BY <1>9, <2>1, <2>2
  <2>3. CASE p[2] \notin D /\ q[2] \notin D
    BY <1>9, <2>1, <2>3
  <2>4. CASE p[2] \in D /\ q[2] \notin D
    BY <1>7, <1>9, <2>4
  <2>5. CASE p[2] \notin D /\ q[2] \in D
    BY <1>7, <1>9, <2>5
  <2> QED
    BY <2>2, <2>3, <2>4, <2>5
<1>10. f \in Injection(pairs, Pairs)
  <2>1. f \in [pairs -> Pairs]
    BY <1>8
  <2>2. \A p, q \in pairs : f[p] = f[q] => p = q
    BY <1>9
  <2> QED
    BY <2>1, <2>2 DEF Injection, IsInjective
<1>11. IsFiniteSet(Pairs)
  <2>1. IsFiniteSet(Elements) /\ IsFiniteSet(Matchers)
    BY <1>1, FS_Interval DEF TypeOK, Elements, Matchers
  <2>2. IsFiniteSet(Elements \X Matchers)
    BY <2>1, FS_Product
  <2>3. Pairs \subseteq Elements \X Matchers
    BY <1>1 DEF TypeOK, Pairs
  <2> QED
    BY <2>2, <2>3, FS_Subset
<1> QED
  BY <1>10, <1>11, FS_Injection

(* "Elements of left_ and right_ are either kUnused or mutually referent", in  *)
(* every state between two links, and what Compute() returns is a pairing     *)
(* along edges, with as many pairs as any has (gmock-matchers.cc).           *)
THEOREM Maximum == Spec => []PairingIsMaximum
<1>1. IInv => PairingIsMaximum
  <2> SUFFICES ASSUME IInv
               PROVE  PairingIsMaximum
    OBVIOUS
  <2>1. MutuallyReferent
    BY ConsistentAgrees
  <2>2. ASSUME Computed
        PROVE  IsMatching(Pairs) /\ Pairs \subseteq edges
    <3>1. ~ found /\ Agreed
      BY <2>2 DEF IInv, Consistent, Way, Computed
    <3>2. \A p \in Pairs : p[1] \in Elements /\ p = <<p[1], left[p[1]]>> /\ left[p[1]] # kUnused
      BY DEF Pairs
    <3>3. Pairs \subseteq edges
      BY <3>1, <3>2 DEF Agreed
    <3>4. ASSUME NEW p \in Pairs, NEW q \in Pairs, p[1] = q[1] \/ p[2] = q[2]
          PROVE  p = q
      <4>1. right[left[p[1]]] = p[1] /\ right[left[q[1]]] = q[1]
        BY <3>1, <3>2 DEF Agreed
      <4>2. p[1] = q[1]
        BY <3>2, <3>4, <4>1
      <4> QED
        BY <3>2, <4>2
    <3> QED
      BY <3>3, <3>4 DEF IsMatching
  <2> QED
    BY <2>1, <2>2, NoPairingIsLarger DEF PairingIsMaximum
<1> QED
  BY <1>1, Invariance, PTL
--------------------------------------------------------------------------------
(* n! *)

(* What a definition of products, of one weight after the other, says of f,   *)
(* as far as n                                                               *)
Counts(w, f, n) == f[0] = 1 /\ \A k \in 1 .. n : f[k] = w[k] * f[k - 1]

(* A set of numbers that is not empty has a least member. *)
LEMMA LeastNumber ==
  ASSUME NEW T, T \subseteq Nat, T # {}
  PROVE  \E x \in T : \A y \in T : x <= y
<1> DEFINE R == OpToRel(<, Nat)
<1>1. IsWellFoundedOn(R, Nat)
  BY NatLessThanWellFounded
<1> HIDE DEF R
<1>2. PICK x \in T : \A y \in T : ~ (<<y, x>> \in R)
  BY <1>1, WFMin
<1>3. \A y \in T : ~ (y < x)
  BY <1>2, Zenon DEF OpToRel, R
<1> QED BY <1>3

(* Who has 0, and the next of every number it has, has them all. *)
LEMMA AllNumbers ==
  ASSUME NEW S, 0 \in S, \A k \in Nat : k \in S => k + 1 \in S
  PROVE  Nat \subseteq S
<1> SUFFICES ASSUME Nat \ S # {} PROVE FALSE
  OBVIOUS
<1>1. PICK x \in Nat \ S : \A y \in Nat \ S : x <= y
  BY LeastNumber, Nat \ S \subseteq Nat
<1>2. x # 0 /\ x - 1 \in Nat /\ x - 1 \in S
  BY <1>1
<1>3. (x - 1) + 1 \in S
  BY <1>2
<1> QED BY <1>1, <1>3

(* As far as any number the products can be listed, *)
LEMMA CountsFar ==
  ASSUME NEW w \in [Nat -> Nat], NEW n \in Nat
  PROVE  \E f \in [0 .. n -> Nat] : Counts(w, f, n)
<1> DEFINE S == {m \in Nat : \E f \in [0 .. m -> Nat] : Counts(w, f, m)}
<1>1. 0 \in S
  <2>1. [k \in 0 .. 0 |-> 1] \in [0 .. 0 -> Nat] /\ Counts(w, [k \in 0 .. 0 |-> 1], 0)
    BY DEF Counts
  <2> QED BY <2>1
<1>2. ASSUME NEW m \in Nat, m \in S PROVE m + 1 \in S
  <2>1. PICK f \in [0 .. m -> Nat] : Counts(w, f, m)
    BY <1>2
  <2> DEFINE g == [k \in 0 .. m + 1 |-> IF k = m + 1 THEN w[m + 1] * f[m] ELSE f[k]]
  <2>2. m + 1 \in Nat /\ f[m] \in Nat /\ w[m + 1] * f[m] \in Nat
    <3>1. m + 1 \in Nat /\ f[m] \in Nat /\ w[m + 1] \in Nat
      OBVIOUS
    <3>2. \A x, y \in Nat : x * y \in Nat
      OBVIOUS
    <3> QED BY <3>1, <3>2, Zenon
  <2>3. g \in [0 .. m + 1 -> Nat]
    <3> DEFINE p == w[m + 1] * f[m]
    <3>1. p \in Nat
      BY <2>2
    <3> HIDE DEF p
    <3>2. \A k \in 0 .. m + 1 : (IF k = m + 1 THEN p ELSE f[k]) \in Nat
      BY <3>1
    <3>3. [k \in 0 .. m + 1 |-> IF k = m + 1 THEN p ELSE f[k]] \in [0 .. m + 1 -> Nat]
      BY <3>2
    <3> QED BY <3>3 DEF p
  <2>4. g[0] = 1
    BY <2>1 DEF Counts
  <2>5. ASSUME NEW k \in 1 .. m + 1 PROVE g[k] = w[k] * g[k - 1]
    <3>1. g[k - 1] = f[k - 1]
      OBVIOUS
    <3>2. CASE k = m + 1
      BY <3>1, <3>2
    <3>3. CASE k # m + 1
      BY <2>1, <3>1, <3>3 DEF Counts
    <3> QED BY <3>2, <3>3
  <2> HIDE DEF g
  <2>6. Counts(w, g, m + 1)
    BY <2>4, <2>5 DEF Counts
  <2> QED BY <2>2, <2>3, <2>6, Zenon
<1>3. Nat \subseteq S
  <2> HIDE DEF S
  <2> QED BY <1>1, <1>2, AllNumbers
<1> QED BY <1>3

(* in one way only, *)
LEMMA CountsAlike ==
  ASSUME NEW w \in [Nat -> Nat],
         NEW m \in Nat, NEW n \in Nat, NEW f \in [0 .. m -> Nat], NEW g \in [0 .. n -> Nat],
         Counts(w, f, m), Counts(w, g, n), NEW k \in 0 .. m, k <= n
  PROVE  f[k] = g[k]
<1> DEFINE S == {j \in Nat : j <= m /\ j <= n => f[j] = g[j]}
<1>1. 0 \in S
  BY DEF Counts
<1>2. ASSUME NEW j \in Nat, j \in S PROVE j + 1 \in S
  <2>1. CASE j + 1 <= m /\ j + 1 <= n
    <3>1. f[j + 1] = w[j + 1] * f[j] /\ g[j + 1] = w[j + 1] * g[j]
      <4>1. j + 1 \in 1 .. m /\ j + 1 \in 1 .. n /\ (j + 1) - 1 = j
        BY <2>1
      <4> QED BY <4>1 DEF Counts
    <3>2. f[j] = g[j]
      BY <1>2, <2>1
    <3> QED BY <3>1, <3>2
  <2> QED BY <2>1
<1>3. Nat \subseteq S
  <2> HIDE DEF S
  <2> QED BY <1>1, <1>2, AllNumbers
<1> QED BY <1>3

(* so there is a function the definition of products holds for, *)
LEMMA ProductsExist ==
  ASSUME NEW w \in [Nat -> Nat]
  PROVE  \E f \in [Nat -> Nat] : f = [k \in Nat |-> IF k = 0 THEN 1 ELSE w[k] * f[k - 1]]
<1> DEFINE Far(n) == CHOOSE f \in [0 .. n -> Nat] : Counts(w, f, n)
           all == [n \in Nat |-> Far(n)[n]]
<1>1. \A n \in Nat : Far(n) \in [0 .. n -> Nat] /\ Counts(w, Far(n), n)
  BY CountsFar
<1> HIDE DEF Far
<1>2. \A n \in Nat : all[n] \in Nat
  BY <1>1
<1>3. all[0] = 1
  BY <1>1 DEF Counts
<1>4. ASSUME NEW k \in Nat \ {0} PROVE all[k] = w[k] * all[k - 1]
  <2>1. Far(k)[k] = w[k] * Far(k)[k - 1]
    <3>1. k \in 1 .. k /\ k \in Nat
      OBVIOUS
    <3> QED BY <1>1, <3>1 DEF Counts
  <2>2. Far(k)[k - 1] = Far(k - 1)[k - 1]
    <3>1. k \in Nat /\ k - 1 \in Nat /\ k - 1 \in 0 .. k /\ k - 1 <= k - 1
      OBVIOUS
    <3> DEFINE f == Far(k)
               g == Far(k - 1)
    <3>2. f \in [0 .. k -> Nat] /\ Counts(w, f, k) /\ g \in [0 .. k - 1 -> Nat] /\ Counts(w, g, k - 1)
      BY <1>1, <3>1
    <3> HIDE DEF f, g
    <3>3. f[k - 1] = g[k - 1]
      BY <3>1, <3>2, CountsAlike, ZenonT(60)
    <3> QED BY <3>3 DEF f, g
  <2> QED BY <2>1, <2>2
<1>5. all = [k \in Nat |-> IF k = 0 THEN 1 ELSE w[k] * all[k - 1]]
  <2>1. \A k \in Nat : all[k] = IF k = 0 THEN 1 ELSE w[k] * all[k - 1]
    BY <1>3, <1>4
  <2> DEFINE b == [k \in Nat |-> IF k = 0 THEN 1 ELSE w[k] * all[k - 1]]
  <2>2. DOMAIN all = Nat /\ DOMAIN b = Nat /\ \A k \in Nat : all[k] = b[k]
    BY <2>1
  <2>3. all = [k \in DOMAIN all |-> all[k]] /\ b = [k \in DOMAIN b |-> b[k]]
    OBVIOUS
  <2> HIDE DEF all, b
  <2>4. all = b
    BY <2>2, <2>3
  <2> QED BY <2>4 DEF b
<1>6. all \in [Nat -> Nat]
  BY <1>2
<1> HIDE DEF all
<1> QED BY <1>5, <1>6

(* and factorial is what its definition says. *)
LEMMA FactorialMeans ==
  /\ factorial[0] = 1
  /\ \A k \in Nat \ {0} : factorial[k] = k * factorial[k - 1]
  /\ \A k \in Nat : factorial[k] \in Nat
<1> DEFINE Is(f) == f = [k \in Nat |-> IF k = 0 THEN 1 ELSE k * f[k - 1]]
           w == [k \in Nat |-> k]
<1>1. w \in [Nat -> Nat] /\ \A k \in Nat : w[k] = k
  OBVIOUS
<1> HIDE DEF w
<1>2. PICK f \in [Nat -> Nat] : f = [k \in Nat |-> IF k = 0 THEN 1 ELSE w[k] * f[k - 1]]
  BY <1>1, ProductsExist
<1>3. f = [k \in Nat |-> f[k]] /\ \A k \in Nat : f[k] = IF k = 0 THEN 1 ELSE k * f[k - 1]
  BY <1>1, <1>2
<1>4. Is(f)
  BY <1>3
<1>5. Is(factorial)
  <2>1. factorial = CHOOSE g : Is(g)
    BY DEF factorial
  <2> HIDE DEF Is
  <2> QED BY <1>4, <2>1
<1>6. \A k \in Nat : factorial[k] = IF k = 0 THEN 1 ELSE k * factorial[k - 1]
  BY <1>5
<1> DEFINE N == {k \in Nat : factorial[k] \in Nat}
<1>7. 0 \in N
  BY <1>6
<1>8. ASSUME NEW k \in Nat, k \in N PROVE k + 1 \in N
  <2>1. factorial[k + 1] = (k + 1) * factorial[k]
    BY <1>6
  <2> QED BY <2>1, <1>8
<1>9. Nat \subseteq N
  <2> HIDE DEF N
  <2> QED BY <1>7, <1>8, AllNumbers
<1> QED BY <1>6, <1>9

(* Factorials grow, *)
LEMMA FactorialGrows ==
  ASSUME NEW n \in Nat
  PROVE  \A k \in 0 .. n : factorial[k] <= factorial[n] /\ 1 <= factorial[k]
<1> DEFINE S == {m \in Nat : \A k \in 0 .. m : factorial[k] <= factorial[m] /\ 1 <= factorial[k]}
<1>1. 0 \in S
  BY FactorialMeans
<1>2. ASSUME NEW m \in Nat, m \in S PROVE m + 1 \in S
  <2>1. factorial[m + 1] = (m + 1) * factorial[m] /\ factorial[m] \in Nat /\ 1 <= factorial[m]
    <3>1. m + 1 \in Nat \ {0} /\ (m + 1) - 1 = m
      OBVIOUS
    <3>2. m \in 0 .. m
      OBVIOUS
    <3> QED BY <1>2, <3>1, <3>2, FactorialMeans
  <2>2. factorial[m] <= factorial[m + 1]
    BY <2>1
  <2>3. ASSUME NEW k \in 0 .. m + 1 PROVE factorial[k] <= factorial[m + 1] /\ 1 <= factorial[k]
    <3>1. CASE k = m + 1
      BY <2>1, <2>2, <3>1
    <3>2. CASE k # m + 1
      <4>1. factorial[k] <= factorial[m] /\ 1 <= factorial[k] /\ factorial[k] \in Nat
        BY <1>2, <3>2, FactorialMeans
      <4> QED BY <4>1, <2>1, <2>2
    <3> QED BY <3>1, <3>2
  <2> QED BY <2>3
<1>3. Nat \subseteq S
  <2> HIDE DEF S
  <2> QED BY <1>1, <1>2, AllNumbers
<1> QED BY <1>3

(* and an argument whose factorial is an int is less than the greatest int. *)
LEMMA CounterFits ==
  ASSUME NEW n \in Nat \ {0}, factorial[n] \in IntValues
  PROVE  n + 1 \in IntValues
<1>1. CASE n <= 2
  BY <1>1, FactorialAssumption DEF IntValues
<1>2. CASE n > 2
  <2>1. factorial[1] = 1 * factorial[0] /\ factorial[2] = 2 * factorial[1]
    BY FactorialMeans
  <2>2. factorial[2] = 2
    BY <2>1, FactorialMeans
  <2>3. n - 1 \in Nat /\ factorial[n - 1] \in Nat /\ 2 <= factorial[n - 1]
    BY <1>2, <2>2, FactorialGrows, FactorialMeans
  <2>4. factorial[n] = n * factorial[n - 1]
    BY FactorialMeans
  <2>5. n * factorial[n - 1] >= n * 2
    BY <2>3
  <2> QED BY <1>2, <2>3, <2>4, <2>5, FactorialAssumption DEF IntValues
<1> QED BY <1>1, <1>2

--------------------------------------------------------------------------------
(* The loop of Factorial() *)

(* Before each turn of a call whose result fits, the product is the factorial *)
(* of the number before the counter.                                         *)
Partial ==
  /\ fact_n \in IntValues /\ fact_pc \in {"loop", "done"}
  /\ fact_n < 1 => fact_i = 1 /\ fact_result = 1
  /\ fact_n >= 1 /\ factorial[fact_n] \in IntValues =>
       /\ fact_i \in 1 .. fact_n + 1 /\ fact_result = factorial[fact_i - 1]
       /\ fact_pc = "done" => fact_i = fact_n + 1

(* One more turn: the product fits, and so does the counter. *)
LEMMA TurnKeeps ==
  ASSUME Partial, Turn
  PROVE  Partial'
<1>1. fact_n \in Int /\ fact_n' = fact_n /\ fact_pc' = fact_pc /\ fact_pc = "loop"
  BY FactorialAssumption DEF Partial, Turn, IntValues
<1>2. CASE fact_n < 1
  BY <1>1, <1>2 DEF Partial, Turn, InLoop
<1>3. CASE fact_n >= 1 /\ factorial[fact_n] \notin IntValues
  BY <1>1, <1>3 DEF Partial
<1>4. CASE fact_n >= 1 /\ factorial[fact_n] \in IntValues
  <2>1. fact_i \in 1 .. fact_n /\ fact_result = factorial[fact_i - 1]
    BY <1>1, <1>4 DEF Partial, Turn, InLoop
  <2>2. fact_i \in Nat \ {0} /\ fact_n \in Nat \ {0} /\ fact_i \in 0 .. fact_n
    BY <1>1, <1>4, <2>1
  <2>3. factorial[fact_i] = fact_i * factorial[fact_i - 1]
        /\ factorial[fact_i] \in Nat /\ factorial[fact_i - 1] \in Nat /\ factorial[fact_n] \in Nat
    BY <2>2, fact_i - 1 \in Nat, FactorialMeans
  <2>4. fact_result * fact_i = factorial[fact_i]
    BY <2>1, <2>2, <2>3
  <2>5. factorial[fact_i] <= factorial[fact_n]
    BY <2>2, FactorialGrows
  <2>6. factorial[fact_i] \in IntValues
    BY <1>4, <2>3, <2>5, FactorialAssumption DEF IntValues
  <2>7. fact_i + 1 \in IntValues
    BY <1>4, <2>2, CounterFits, FactorialAssumption DEF IntValues
  <2>8. fact_result' = factorial[fact_i] /\ fact_i' = fact_i + 1
    BY <2>4, <2>6, <2>7 DEF Turn, Fit
  <2>9. fact_i' \in 1 .. fact_n + 1 /\ fact_result' = factorial[fact_i' - 1]
    BY <2>1, <2>2, <2>8
  <2> QED BY <1>1, <1>4, <2>9 DEF Partial
<1> QED BY <1>1, <1>2, <1>3, <1>4

(* Factorial(n) is n! for every n whose factorial is an int, and 1 for every  *)
(* n below 1, whatever the width of an int is (test.cpp).                    *)
THEOREM FactorialFits == FactorialSpec => []FactorialExact
<1>1. FactorialInit => Partial
  <2>1. 0 \in Nat /\ factorial[0] = 1
    BY FactorialMeans
  <2> QED BY <2>1, FactorialAssumption DEF FactorialInit, Partial, IntValues
<1>2. Partial /\ [FactorialNext]_fact_vars => Partial'
  <2> SUFFICES ASSUME Partial, [FactorialNext]_fact_vars PROVE Partial'
    OBVIOUS
  <2>1. CASE Turn
    BY <2>1, TurnKeeps
  <2>2. CASE Return
    BY <2>2, FactorialAssumption DEF Return, Partial, InLoop, IntValues
  <2>3. CASE UNCHANGED fact_vars
    BY <2>3 DEF fact_vars, Partial
  <2> QED BY <2>1, <2>2, <2>3 DEF FactorialNext
<1>3. Partial => FactorialExact
  BY FactorialAssumption DEF Partial, FactorialExact, IntValues
<1> QED BY <1>1, <1>2, <1>3, PTL DEF FactorialSpec
--------------------------------------------------------------------------------

(* Who climbs from 0, and from every number below n to the next, reaches n. *)
LEMMA Climb ==
  ASSUME NEW n \in Nat, NEW S, 0 \in S, \A k \in 0 .. n - 1 : k \in S => k + 1 \in S
  PROVE  0 .. n \subseteq S
<1> SUFFICES ASSUME (0 .. n) \ S # {} PROVE FALSE
  OBVIOUS
<1>1. PICK x \in (0 .. n) \ S : \A y \in (0 .. n) \ S : x <= y
  BY LeastNumber, (0 .. n) \ S \subseteq Nat
<1>2. x # 0 /\ x - 1 \in 0 .. n - 1 /\ x - 1 \in S
  BY <1>1
<1>3. (x - 1) + 1 \in S
  BY <1>2
<1> QED BY <1>1, <1>3

(* A set that has each place from which on it has all has all places. *)
LEMMA Backwards ==
  ASSUME NEW N \in Nat, NEW G, \A i \in 1 .. N + 1 : i + 1 .. N + 1 \subseteq G => i \in G
  PROVE  1 .. N + 1 \subseteq G
<1> DEFINE T == {m \in 0 .. N : N + 1 - m .. N + 1 \subseteq G}
<1>1. 0 \in T
  <2>1. N + 1 \in 1 .. N + 1 /\ (N + 1) + 1 .. N + 1 = {} /\ N + 1 - 0 .. N + 1 = {N + 1}
    OBVIOUS
  <2> QED BY <2>1
<1>2. ASSUME NEW m \in 0 .. N - 1, m \in T PROVE m + 1 \in T
  <2> DEFINE b == N + 1 - (m + 1)
  <2>1. b \in 1 .. N + 1 /\ b + 1 .. N + 1 = N + 1 - m .. N + 1 /\ m + 1 \in 0 .. N
    OBVIOUS
  <2>2. \A i \in b .. N + 1 : i = b \/ i \in b + 1 .. N + 1
    OBVIOUS
  <2> HIDE DEF b
  <2>3. b \in G
    BY <1>2, <2>1
  <2>4. b .. N + 1 \subseteq G
    BY <1>2, <2>1, <2>2, <2>3
  <2> QED BY <2>1, <2>4 DEF b
<1>3. N \in T
  <2>1. \A k \in 0 .. N - 1 : k \in T => k + 1 \in T
    BY <1>2
  <2> HIDE DEF T
  <2> QED BY <1>1, <2>1, Climb
<1>4. N + 1 - N = 1
  OBVIOUS
<1> QED BY <1>3, <1>4

(* The loop of PatternMatchesString() takes another turn. *)
Continues(name, pattern, at) == AtStar(pattern, at) \/ Fits(name, pattern, at) \/ Restarts(name, at)
(* What the recursion says of every place *)
Answers(name, pattern, f) ==
  f = [at \in Places(name, pattern) |->
         AtEnd(name, pattern, at) \/ (Continues(name, pattern, at) /\ f[GlobTurn(name, pattern, at)])]

(* The answer of the loop is one that the recursion gives. *)
LEMMA MatchesAnswers ==
  ASSUME NEW name, NEW pattern
  PROVE  PatternMatchesString(name, pattern) = (CHOOSE f : Answers(name, pattern, f))[Start]
BY DEF PatternMatchesString, Answers, Continues

(* In k turns from the place at the loop comes to the end. *)
Runs(name, pattern, at, k, g) ==
  /\ g \in [0 .. k -> Places(name, pattern)] /\ g[0] = at /\ AtEnd(name, pattern, g[k])
  /\ \A i \in 0 .. k - 1 :
       ~ AtEnd(name, pattern, g[i]) /\ Continues(name, pattern, g[i]) /\ g[i + 1] = GlobTurn(name, pattern, g[i])

Place(n, p, name_next, pattern_next) ==
  [n |-> n, p |-> p, name_next |-> name_next, pattern_next |-> pattern_next]

(* A place and what a turn makes of it, part by part *)
LEMMA Turns ==
  ASSUME NEW name, NEW pattern, NEW at \in Places(name, pattern)
  PROVE  /\ at.n \in 1 .. Len(name) + 1 /\ at.p \in 1 .. Len(pattern) + 1
         /\ at.name_next \in Nat /\ at.pattern_next \in 1 .. Len(pattern) + 1
         /\ at = Place(at.n, at.p, at.name_next, at.pattern_next)
         /\ AtStar(pattern, at) => GlobTurn(name, pattern, at) = Place(at.n, at.p + 1, at.n + 1, at.p)
         /\ ~ AtStar(pattern, at) /\ Fits(name, pattern, at) =>
              GlobTurn(name, pattern, at) = Place(at.n + 1, at.p + 1, at.name_next, at.pattern_next)
         /\ ~ AtStar(pattern, at) /\ ~ Fits(name, pattern, at) =>
              GlobTurn(name, pattern, at) = Place(at.name_next, at.pattern_next, at.name_next, at.pattern_next)
BY DEF Places, Place, GlobTurn, RestartAfter

(* A turn comes to a place again. *)
LEMMA TurnPlace ==
  ASSUME NEW name, NEW pattern, Len(name) \in Nat, Len(pattern) \in Nat,
         NEW at \in Places(name, pattern), Continues(name, pattern, at)
  PROVE  GlobTurn(name, pattern, at) \in Places(name, pattern)
<1>0. \A n \in 1 .. Len(name) + 1, p \in 1 .. Len(pattern) + 1, m \in Nat, q \in 1 .. Len(pattern) + 1 :
        Place(n, p, m, q) \in Places(name, pattern)
  BY DEF Place, Places
<1> DEFINE N == 1 .. Len(name) + 1
           P == 1 .. Len(pattern) + 1
<1>1. at.n \in N /\ at.p \in P /\ at.name_next \in Nat /\ at.pattern_next \in P
  BY Turns
<1>2. CASE AtStar(pattern, at)
  <2>1. at.p + 1 \in P /\ at.n + 1 \in Nat
    BY <1>1, <1>2 DEF AtStar
  <2>2. Place(at.n, at.p + 1, at.n + 1, at.p) \in Places(name, pattern)
    BY <1>0, <1>1, <2>1
  <2> QED BY <1>2, <2>2, Turns
<1>3. CASE ~ AtStar(pattern, at) /\ Fits(name, pattern, at)
  <2>1. at.p + 1 \in P /\ at.n + 1 \in N
    BY <1>1, <1>3 DEF Fits
  <2>2. Place(at.n + 1, at.p + 1, at.name_next, at.pattern_next) \in Places(name, pattern)
    BY <1>0, <1>1, <2>1
  <2> QED BY <1>3, <2>2, Turns
<1>4. CASE ~ AtStar(pattern, at) /\ ~ Fits(name, pattern, at)
  <2>1. at.name_next \in N
    BY <1>1, <1>4 DEF Continues, Restarts
  <2>2. Place(at.name_next, at.pattern_next, at.name_next, at.pattern_next) \in Places(name, pattern)
    BY <1>0, <1>1, <2>1
  <2> QED BY <1>4, <2>2, Turns
<1> QED BY <1>2, <1>3, <1>4

(* Whether there is a run to the end satisfies the recursion, though not all  *)
(* places need come to one.                                                  *)
LEMMA SomeAnswer ==
  ASSUME NEW name, NEW pattern, Len(name) \in Nat, Len(pattern) \in Nat
  PROVE  \E f : Answers(name, pattern, f)
<1> DEFINE P == Places(name, pattern)
           Ends(at) == \E k \in Nat : \E g \in [0 .. k -> P] : Runs(name, pattern, at, k, g)
           f == [at \in P |-> Ends(at)]
           Turned(at) == GlobTurn(name, pattern, at)
<1>1. ASSUME NEW at \in P, AtEnd(name, pattern, at) PROVE Ends(at)
  <2> DEFINE g == [i \in 0 .. 0 |-> at]
  <2>1. g \in [0 .. 0 -> P] /\ g[0] = at /\ \A i \in 0 .. 0 - 1 : FALSE
    OBVIOUS
  <2>2. Runs(name, pattern, at, 0, g)
    <3> HIDE DEF g
    <3> QED BY <1>1, <2>1 DEF Runs
  <2> QED BY <2>1, <2>2
<1>2. ASSUME NEW at \in P, Continues(name, pattern, at), ~ AtEnd(name, pattern, at), Ends(Turned(at)) PROVE Ends(at)
  <2>0. PICK k \in Nat : \E g \in [0 .. k -> P] : Runs(name, pattern, Turned(at), k, g)
    BY <1>2
  <2>1. PICK g \in [0 .. k -> P] : Runs(name, pattern, Turned(at), k, g)
    BY <2>0
  <2> DEFINE h == [i \in 0 .. k + 1 |-> IF i = 0 THEN at ELSE g[i - 1]]
  <2>2. h \in [0 .. k + 1 -> P] /\ h[0] = at /\ h[k + 1] = g[k]
    <3>1. \A i \in 0 .. k + 1 : i # 0 => i - 1 \in 0 .. k
      OBVIOUS
    <3> QED BY <3>1
  <2>3. \A i \in 0 .. k : h[i + 1] = g[i]
    OBVIOUS
  <2>4. \A i \in 0 .. k : i = 0 \/ (i - 1 \in 0 .. k - 1 /\ h[i] = g[i - 1] /\ (i - 1) + 1 = i)
    OBVIOUS
  <2> HIDE DEF h
  <2>5. ASSUME NEW i \in 0 .. (k + 1) - 1
        PROVE  ~ AtEnd(name, pattern, h[i]) /\ Continues(name, pattern, h[i]) /\ h[i + 1] = Turned(h[i])
    <3>1. i \in 0 .. k
      OBVIOUS
    <3>2. CASE i = 0
      BY <1>2, <2>1, <2>2, <2>3, <3>1, <3>2 DEF Runs
    <3>3. CASE i # 0
      BY <2>1, <2>3, <2>4, <3>1, <3>3 DEF Runs
    <3> QED BY <3>2, <3>3
  <2>6. Runs(name, pattern, at, k + 1, h)
    BY <2>1, <2>2, <2>5 DEF Runs
  <2> QED BY <2>2, <2>6
<1>3. ASSUME NEW at \in P, Ends(at), ~ AtEnd(name, pattern, at) PROVE Continues(name, pattern, at) /\ Ends(Turned(at))
  <2>0. PICK k \in Nat : \E g \in [0 .. k -> P] : Runs(name, pattern, at, k, g)
    BY <1>3
  <2>1. PICK g \in [0 .. k -> P] : Runs(name, pattern, at, k, g)
    BY <2>0
  <2>2. k # 0 /\ 0 \in 0 .. k - 1
    BY <1>3, <2>1 DEF Runs
  <2> DEFINE h == [i \in 0 .. k - 1 |-> g[i + 1]]
  <2>3. h \in [0 .. k - 1 -> P] /\ h[0] = g[1] /\ h[k - 1] = g[k]
    BY <2>2
  <2>4. \A i \in 0 .. (k - 1) - 1 : h[i] = g[i + 1] /\ h[i + 1] = g[(i + 1) + 1] /\ i + 1 \in 0 .. k - 1
    BY <2>2
  <2> HIDE DEF h
  <2>5. Continues(name, pattern, at) /\ g[1] = Turned(at)
    BY <2>1, <2>2 DEF Runs
  <2>6. Runs(name, pattern, Turned(at), k - 1, h)
    BY <2>1, <2>2, <2>3, <2>4, <2>5 DEF Runs
  <2> QED BY <2>2, <2>3, <2>5, <2>6
<1>4. \A at \in P : Continues(name, pattern, at) => Turned(at) \in P
  BY TurnPlace
<1>5. \A at \in P : Ends(at) = (AtEnd(name, pattern, at) \/ (Continues(name, pattern, at) /\ Ends(Turned(at))))
  BY <1>1, <1>2, <1>3
<1>6. f = [at \in P |-> AtEnd(name, pattern, at) \/ (Continues(name, pattern, at) /\ f[Turned(at)])]
  <2> HIDE DEF Ends, Turned, P
  <2>1. \A at \in P : Continues(name, pattern, at) => f[Turned(at)] = Ends(Turned(at))
    BY <1>4
  <2> QED BY <1>5, <2>1, Zenon
<1> HIDE DEF f
<1> QED BY <1>6 DEF Answers

--------------------------------------------------------------------------------
(* What a glob means: the places of the name where each of its symbols begins *)
(* and the last ends.  Between those of a "*" is any text, between those of   *)
(* another symbol one character, which that stands for.                      *)
Stands(name, symbol, a, b) == IF symbol = "*" THEN a <= b ELSE b = a + 1 /\ symbol \in {"?", name[a]}
Lines(name, pattern, p) == [p .. Len(pattern) + 1 -> 1 .. Len(name) + 1]
Aligned(name, pattern, n, p, at) ==
  /\ at[p] = n /\ at[Len(pattern) + 1] = Len(name) + 1
  /\ \A i \in p .. Len(pattern) : Stands(name, pattern[i], at[i], at[i + 1])
(* From the place n of the name and the symbol p on *)
Means(name, pattern, n, p) == \E at \in Lines(name, pattern, p) : Aligned(name, pattern, n, p, at)

(* An empty glob means the empty text. *)
LEMMA MeansEnd ==
  ASSUME NEW name, NEW pattern, Len(name) \in Nat, Len(pattern) \in Nat, NEW n \in 1 .. Len(name) + 1
  PROVE  Means(name, pattern, n, Len(pattern) + 1) <=> n = Len(name) + 1
<1> DEFINE e == Len(pattern) + 1
           at == [i \in e .. e |-> n]
<1>1. at \in Lines(name, pattern, e) /\ at[e] = n /\ \A i \in e .. Len(pattern) : FALSE
  BY DEF Lines
<1>2. n = Len(name) + 1 => Aligned(name, pattern, n, e, at)
  <2> HIDE DEF at
  <2> QED BY <1>1 DEF Aligned
<1> QED BY <1>1, <1>2 DEF Means, Aligned

(* A glob means what its first symbol stands for, and then the rest of it. *)
LEMMA MeansNext ==
  ASSUME NEW name, NEW pattern, Len(name) \in Nat, Len(pattern) \in Nat,
         NEW n \in 1 .. Len(name) + 1, NEW p \in 1 .. Len(pattern)
  PROVE  Means(name, pattern, n, p) <=>
           \E m \in 1 .. Len(name) + 1 : Stands(name, pattern[p], n, m) /\ Means(name, pattern, m, p + 1)
<1>1. ASSUME NEW at \in Lines(name, pattern, p), Aligned(name, pattern, n, p, at)
      PROVE  \E m \in 1 .. Len(name) + 1 : Stands(name, pattern[p], n, m) /\ Means(name, pattern, m, p + 1)
  <2> DEFINE l == [i \in p + 1 .. Len(pattern) + 1 |-> at[i]]
  <2>1. \A i \in p + 1 .. Len(pattern) + 1 : i \in p .. Len(pattern) + 1 /\ l[i] = at[i]
    OBVIOUS
  <2>2. l \in Lines(name, pattern, p + 1)
    BY <2>1 DEF Lines
  <2>3. \A i \in p + 1 .. Len(pattern) : i \in p .. Len(pattern) /\ l[i] = at[i] /\ l[i + 1] = at[i + 1]
    OBVIOUS
  <2>4. l[p + 1] = at[p + 1] /\ l[Len(pattern) + 1] = at[Len(pattern) + 1]
    OBVIOUS
  <2> HIDE DEF l
  <2>5. Aligned(name, pattern, at[p + 1], p + 1, l)
    BY <1>1, <2>3, <2>4 DEF Aligned
  <2>6. at[p + 1] \in 1 .. Len(name) + 1 /\ Stands(name, pattern[p], n, at[p + 1])
    <3>1. p \in p .. Len(pattern) /\ p + 1 \in p .. Len(pattern) + 1
      OBVIOUS
    <3> QED BY <1>1, <3>1 DEF Aligned, Lines
  <2> QED BY <2>2, <2>5, <2>6 DEF Means
<1>2. ASSUME NEW m \in 1 .. Len(name) + 1, Stands(name, pattern[p], n, m), Means(name, pattern, m, p + 1)
      PROVE  Means(name, pattern, n, p)
  <2>1. PICK at \in Lines(name, pattern, p + 1) : Aligned(name, pattern, m, p + 1, at)
    BY <1>2 DEF Means
  <2> DEFINE l == [i \in p .. Len(pattern) + 1 |-> IF i = p THEN n ELSE at[i]]
  <2>2. \A i \in p .. Len(pattern) + 1 : i # p => i \in p + 1 .. Len(pattern) + 1
    OBVIOUS
  <2>3. l \in Lines(name, pattern, p)
    BY <2>2 DEF Lines
  <2>4. l[p] = n /\ \A i \in p + 1 .. Len(pattern) + 1 : l[i] = at[i]
    OBVIOUS
  <2> HIDE DEF l
  <2>5. \A i \in p .. Len(pattern) : i = p \/ (i \in p + 1 .. Len(pattern) /\ i \in p + 1 .. Len(pattern) + 1)
    OBVIOUS
  <2>6. \A i \in p .. Len(pattern) : i + 1 \in p + 1 .. Len(pattern) + 1
    OBVIOUS
  <2>7. l[p + 1] = m /\ l[Len(pattern) + 1] = Len(name) + 1
    BY <2>1, <2>4 DEF Aligned
  <2>8. ASSUME NEW i \in p .. Len(pattern) PROVE Stands(name, pattern[i], l[i], l[i + 1])
    <3>1. CASE i = p
      BY <1>2, <2>4, <2>7, <3>1
    <3>2. CASE i # p
      BY <2>1, <2>4, <2>5, <2>6, <3>2 DEF Aligned
    <3> QED BY <3>1, <3>2
  <2>9. Aligned(name, pattern, n, p, l)
    BY <2>4, <2>7, <2>8 DEF Aligned
  <2> QED BY <2>3, <2>9 DEF Means
<1> QED BY <1>1, <1>2 DEF Means

(* A character is followed by what comes after it. *)
LEMMA MeansCharacter ==
  ASSUME NEW name, NEW pattern, Len(name) \in Nat, Len(pattern) \in Nat,
         NEW n \in 1 .. Len(name) + 1, NEW p \in 1 .. Len(pattern), pattern[p] # "*"
  PROVE  Means(name, pattern, n, p) <=>
           n <= Len(name) /\ pattern[p] \in {"?", name[n]} /\ Means(name, pattern, n + 1, p + 1)
BY MeansNext DEF Stands

(* A star is over, or stands for one character more. *)
LEMMA MeansStar ==
  ASSUME NEW name, NEW pattern, Len(name) \in Nat, Len(pattern) \in Nat,
         NEW n \in 1 .. Len(name) + 1, NEW p \in 1 .. Len(pattern), pattern[p] = "*"
  PROVE  Means(name, pattern, n, p) <=>
           Means(name, pattern, n, p + 1) \/ (n <= Len(name) /\ Means(name, pattern, n + 1, p))
<1>1. \A k \in 1 .. Len(name) + 1 :
        Means(name, pattern, k, p) <=> \E m \in 1 .. Len(name) + 1 : k <= m /\ Means(name, pattern, m, p + 1)
  BY MeansNext DEF Stands
<1>2. n <= Len(name) => n + 1 \in 1 .. Len(name) + 1
  OBVIOUS
<1>3. \A m \in 1 .. Len(name) + 1 : n <= m <=> m = n \/ (n <= Len(name) /\ n + 1 <= m)
  OBVIOUS
<1> QED BY <1>1, <1>2, <1>3

(* The longer a star is, the more it leaves out. *)
LEMMA MeansEarlier ==
  ASSUME NEW name, NEW pattern, Len(name) \in Nat, Len(pattern) \in Nat, NEW p \in 1 .. Len(pattern), pattern[p] = "*",
         NEW n \in 1 .. Len(name) + 1, NEW m \in n .. Len(name) + 1, Means(name, pattern, m, p)
  PROVE  Means(name, pattern, n, p)
<1>1. \A k \in 1 .. Len(name) + 1 :
        Means(name, pattern, k, p) <=> \E j \in 1 .. Len(name) + 1 : k <= j /\ Means(name, pattern, j, p + 1)
  BY MeansNext DEF Stands
<1>2. PICK j \in 1 .. Len(name) + 1 : m <= j /\ Means(name, pattern, j, p + 1)
  BY <1>1
<1>3. n <= j
  BY <1>2
<1> QED BY <1>1, <1>2, <1>3

(* What follows a star and has none itself takes at least its length. *)
LEMMA MeansAfter ==
  ASSUME NEW name, NEW pattern, Len(name) \in Nat, Len(pattern) \in Nat,
         NEW q \in 1 .. Len(pattern), pattern[q] = "*", NEW r \in q + 1 .. Len(pattern) + 1,
         \A i \in q + 1 .. r - 1 : pattern[i] # "*",
         NEW k \in 1 .. Len(name) + 1, Means(name, pattern, k, q)
  PROVE  \E m \in 1 .. Len(name) + 1 : m >= k + (r - q - 1) /\ Means(name, pattern, m, r)
<1> DEFINE N == Len(name)
           l == r - q - 1
           S == {j \in 0 .. l : \E m \in 1 .. N + 1 : m >= k + j /\ Means(name, pattern, m, q + 1 + j)}
<1>1. l \in Nat
  OBVIOUS
<1>2. 0 \in S
  <2>1. \E m \in 1 .. N + 1 : k <= m /\ Means(name, pattern, m, q + 1)
    BY MeansNext DEF Stands
  <2>2. q + 1 + 0 = q + 1 /\ k + 0 = k
    OBVIOUS
  <2> QED BY <1>1, <2>1, <2>2
<1>3. ASSUME NEW j \in 0 .. l - 1, j \in S PROVE j + 1 \in S
  <2>1. PICK m \in 1 .. N + 1 : m >= k + j /\ Means(name, pattern, m, q + 1 + j)
    BY <1>3
  <2>2. q + 1 + j \in 1 .. Len(pattern) /\ q + 1 + j \in q + 1 .. r - 1
    OBVIOUS
  <2>3. m <= N /\ Means(name, pattern, m + 1, (q + 1 + j) + 1)
    BY <2>1, <2>2, MeansCharacter
  <2>4. (q + 1 + j) + 1 = q + 1 + (j + 1) /\ m + 1 >= k + (j + 1) /\ m + 1 \in 1 .. N + 1 /\ j + 1 \in 0 .. l
    BY <2>1, <2>3
  <2> QED BY <2>3, <2>4
<1>4. l \in S
  <2> HIDE DEF S, l
  <2>1. 0 .. l \subseteq S
    BY <1>1, <1>2, <1>3, Climb
  <2> QED BY <1>1, <2>1
<1>5. q + 1 + l = r
  OBVIOUS
<1> QED BY <1>4, <1>5

--------------------------------------------------------------------------------
(* The loop: before the first star there is nothing to go back to; after one  *)
(* the place is as far behind it as the places of the pattern are apart, with *)
(* no other star between, or just at the one it has gone back to.            *)
Sound(pattern, at) ==
  \/ at.name_next = 1
  \/ /\ at.name_next > 1 /\ at.pattern_next <= Len(pattern) /\ pattern[at.pattern_next] = "*"
     /\ \/ at.n = at.name_next /\ at.p = at.pattern_next
        \/ /\ at.p > at.pattern_next
           /\ at.n = at.name_next - 1 + (at.p - at.pattern_next - 1)
           /\ \A i \in at.pattern_next + 1 .. at.p - 1 : pattern[i] # "*"
(* What is left decides, or what the last star leaves. *)
Decides(name, pattern, at) ==
  \/ Means(name, pattern, at.n, at.p)
  \/ Restarts(name, at) /\ Means(name, pattern, at.name_next, at.pattern_next)
(* The loop goes on in the name, or else in the pattern. *)
Rank(at) == IF at.name_next > 1 /\ at.p = at.pattern_next THEN at.name_next + 1 ELSE at.name_next
Further(at, to) == Rank(to) > Rank(at) \/ (Rank(to) = Rank(at) /\ to.p > at.p)

(* The parts of a place *)
LEMMA PlaceOf ==
  ASSUME NEW n, NEW p, NEW m, NEW q
  PROVE  /\ Place(n, p, m, q).n = n /\ Place(n, p, m, q).p = p
         /\ Place(n, p, m, q).name_next = m /\ Place(n, p, m, q).pattern_next = q
BY DEF Place

(* Going past a star decides nothing: what the star before leaves, it leaves. *)
LEMMA StarTurns ==
  ASSUME NEW name, NEW pattern, Len(name) \in Nat, Len(pattern) \in Nat,
         NEW at \in Places(name, pattern), Sound(pattern, at), AtStar(pattern, at),
         NEW to, to = GlobTurn(name, pattern, at)
  PROVE  Sound(pattern, to) /\ Further(at, to) /\ (Decides(name, pattern, to) <=> Decides(name, pattern, at))
<1> DEFINE n == at.n
           p == at.p
           m == at.name_next
           q == at.pattern_next
<1>1. /\ n \in 1 .. Len(name) + 1 /\ p \in 1 .. Len(pattern) + 1 /\ m \in Nat /\ q \in 1 .. Len(pattern) + 1
      /\ to = Place(n, p + 1, n + 1, p)
  BY Turns
<1>2. to.n = n /\ to.p = p + 1 /\ to.name_next = n + 1 /\ to.pattern_next = p
  BY <1>1, PlaceOf
<1>3. p \in 1 .. Len(pattern) /\ pattern[p] = "*"
  BY <1>1 DEF AtStar
<1>4. Sound(pattern, to)
  <2>1. n + 1 > 1 /\ p + 1 > p /\ n = (n + 1) - 1 + ((p + 1) - p - 1) /\ \A i \in p + 1 .. (p + 1) - 1 : FALSE
    BY <1>1
  <2> QED BY <1>2, <1>3, <2>1 DEF Sound
<1>5. Further(at, to)
  <2>1. Rank(to) = n + 1
    BY <1>1, <1>2 DEF Rank
  <2>2. CASE m = 1
    BY <1>1, <2>1, <2>2 DEF Further, Rank
  <2>3. CASE m > 1 /\ n = m /\ p = q
    BY <1>1, <1>2, <2>1, <2>3 DEF Further, Rank
  <2>4. CASE m > 1 /\ p > q /\ n = m - 1 + (p - q - 1)
    <3>1. Rank(at) = m
      BY <1>1, <2>4 DEF Rank
    <3>2. n + 1 >= m /\ to.p > p
      BY <1>1, <1>2, <2>4, SMTT(60)
    <3> QED BY <1>1, <2>1, <3>1, <3>2 DEF Further
  <2> QED BY <2>2, <2>3, <2>4 DEF Sound
<1>6. Decides(name, pattern, to) <=> Means(name, pattern, n, p)
  <2>1. Restarts(name, to) <=> n <= Len(name)
    BY <1>1, <1>2 DEF Restarts
  <2> QED BY <1>1, <1>2, <1>3, <2>1, MeansStar DEF Decides
<1>7. ASSUME Restarts(name, at), Means(name, pattern, m, q) PROVE Means(name, pattern, n, p)
  <2>1. m \in 1 .. Len(name) + 1 /\ m > 1
    BY <1>1, <1>7 DEF Restarts
  <2>2. CASE n = m /\ p = q
    BY <1>7, <2>2
  <2>3. CASE ~ (n = m /\ p = q)
    <3>1. /\ p > q /\ q \in 1 .. Len(pattern) /\ pattern[q] = "*" /\ p \in q + 1 .. Len(pattern) + 1
          /\ n = m - 1 + (p - q - 1) /\ \A i \in q + 1 .. p - 1 : pattern[i] # "*"
      BY <1>1, <1>3, <2>1, <2>3 DEF Sound
    <3>2. PICK k \in 1 .. Len(name) + 1 : k >= m + (p - q - 1) /\ Means(name, pattern, k, p)
      BY <1>7, <2>1, <3>1, MeansAfter
    <3>3. k \in n .. Len(name) + 1
      <4> HIDE DEF n, p, m, q
      <4> QED BY <1>1, <2>1, <3>1, <3>2
    <3> QED BY <1>1, <1>3, <3>2, <3>3, MeansEarlier
  <2> QED BY <2>2, <2>3
<1> QED BY <1>4, <1>5, <1>6, <1>7 DEF Decides

(* Nor does going past a character that fits, *)
LEMMA CharacterTurns ==
  ASSUME NEW name, NEW pattern, Len(name) \in Nat, Len(pattern) \in Nat,
         NEW at \in Places(name, pattern), Sound(pattern, at), ~ AtStar(pattern, at), Fits(name, pattern, at),
         NEW to, to = GlobTurn(name, pattern, at)
  PROVE  Sound(pattern, to) /\ Further(at, to) /\ (Decides(name, pattern, to) <=> Decides(name, pattern, at))
<1> DEFINE n == at.n
           p == at.p
           m == at.name_next
           q == at.pattern_next
<1>1. /\ n \in 1 .. Len(name) + 1 /\ p \in 1 .. Len(pattern) + 1 /\ m \in Nat /\ q \in 1 .. Len(pattern) + 1
      /\ to = Place(n + 1, p + 1, m, q)
  BY Turns
<1>2. to.n = n + 1 /\ to.p = p + 1 /\ to.name_next = m /\ to.pattern_next = q
  BY <1>1, PlaceOf
<1>3. p \in 1 .. Len(pattern) /\ pattern[p] # "*" /\ n <= Len(name) /\ pattern[p] \in {"?", name[n]}
  BY <1>1 DEF AtStar, Fits
<1>4. m = 1 \/ (m > 1 /\ p > q)
  BY <1>1, <1>3 DEF Sound
<1>5. Sound(pattern, to)
  <2>1. CASE m = 1
    BY <1>2, <2>1 DEF Sound
  <2>2. CASE m > 1 /\ p > q
    <3>1. /\ q <= Len(pattern) /\ pattern[q] = "*" /\ n = m - 1 + (p - q - 1)
          /\ \A i \in q + 1 .. p - 1 : pattern[i] # "*"
      BY <1>1, <2>2 DEF Sound
    <3>2. \A i \in q + 1 .. (p + 1) - 1 : i \in q + 1 .. p - 1 \/ i = p
      BY <1>1
    <3>3. \A i \in q + 1 .. (p + 1) - 1 : pattern[i] # "*"
      BY <1>3, <3>1, <3>2
    <3>4. n + 1 = m - 1 + ((p + 1) - q - 1) /\ p + 1 > q
      <4> HIDE DEF n, p, m, q
      <4> QED BY <1>1, <2>2, <3>1
    <3> QED BY <1>2, <2>2, <3>1, <3>3, <3>4 DEF Sound
  <2> QED BY <1>4, <2>1, <2>2
<1>6. Further(at, to)
  BY <1>1, <1>2, <1>4 DEF Further, Rank
<1>7. Means(name, pattern, n + 1, p + 1) <=> Means(name, pattern, n, p)
  BY <1>1, <1>3, MeansCharacter
<1>8. Restarts(name, to) <=> Restarts(name, at)
  BY <1>2 DEF Restarts
<1> QED BY <1>2, <1>5, <1>6, <1>7, <1>8 DEF Decides

(* Where nothing fits, only the last star can help, *)
LEMMA Misfits ==
  ASSUME NEW name, NEW pattern, Len(name) \in Nat, Len(pattern) \in Nat,
         NEW at \in Places(name, pattern), ~ AtEnd(name, pattern, at), ~ AtStar(pattern, at), ~ Fits(name, pattern, at)
  PROVE  ~ Means(name, pattern, at.n, at.p)
<1>1. at.n \in 1 .. Len(name) + 1 /\ at.p \in 1 .. Len(pattern) + 1
  BY Turns
<1>2. CASE at.p = Len(pattern) + 1
  BY <1>1, <1>2, MeansEnd DEF AtEnd
<1>3. CASE at.p # Len(pattern) + 1
  <2>1. at.p \in 1 .. Len(pattern) /\ pattern[at.p] # "*"
    BY <1>1, <1>3 DEF AtStar
  <2> QED BY <1>1, <2>1, MeansCharacter DEF Fits
<1> QED BY <1>2, <1>3

(* so that going back to it decides nothing either. *)
LEMMA RestartTurns ==
  ASSUME NEW name, NEW pattern, Len(name) \in Nat, Len(pattern) \in Nat,
         NEW at \in Places(name, pattern), Sound(pattern, at), ~ AtEnd(name, pattern, at),
         ~ AtStar(pattern, at), ~ Fits(name, pattern, at), Restarts(name, at),
         NEW to, to = GlobTurn(name, pattern, at)
  PROVE  Sound(pattern, to) /\ Further(at, to) /\ (Decides(name, pattern, to) <=> Decides(name, pattern, at))
<1> DEFINE n == at.n
           p == at.p
           m == at.name_next
           q == at.pattern_next
<1>1. /\ n \in 1 .. Len(name) + 1 /\ p \in 1 .. Len(pattern) + 1 /\ m \in Nat /\ q \in 1 .. Len(pattern) + 1
      /\ to = Place(m, q, m, q)
  BY Turns
<1>2. to.n = m /\ to.p = q /\ to.name_next = m /\ to.pattern_next = q
  BY <1>1, PlaceOf
<1>3. m > 1 /\ q <= Len(pattern) /\ pattern[q] = "*" /\ p # q
  BY <1>1 DEF Sound, Restarts, AtStar
<1>4. Sound(pattern, to)
  BY <1>2, <1>3 DEF Sound
<1>5. Further(at, to)
  BY <1>1, <1>2, <1>3 DEF Further, Rank
<1>6. ~ Means(name, pattern, n, p)
  BY Misfits
<1>7. Restarts(name, to)
  BY <1>2 DEF Restarts
<1> QED BY <1>2, <1>4, <1>5, <1>6, <1>7 DEF Decides

(* The loop cannot go further for ever. *)
LEMMA RankBounded ==
  ASSUME NEW name, NEW pattern, Len(name) \in Nat, Len(pattern) \in Nat,
         NEW at \in Places(name, pattern), Sound(pattern, at)
  PROVE  Rank(at) \in 0 .. Len(name) + 2 /\ at.p \in 0 .. Len(pattern) + 1
<1> DEFINE n == at.n
           p == at.p
           m == at.name_next
           q == at.pattern_next
<1>1. n \in 1 .. Len(name) + 1 /\ p \in 1 .. Len(pattern) + 1 /\ m \in Nat /\ q \in 1 .. Len(pattern) + 1
  BY Turns
<1>2. CASE m = 1
  BY <1>1, <1>2 DEF Rank
<1>3. CASE m > 1 /\ n = m /\ p = q
  BY <1>1, <1>3 DEF Rank
<1>4. CASE m > 1 /\ p > q /\ n = m - 1 + (p - q - 1)
  <2>1. Rank(at) = m
    BY <1>1, <1>4 DEF Rank
  <2>2. m <= Len(name) + 2
    <3> HIDE DEF n, p, m, q
    <3> QED BY <1>1, <1>4
  <2> QED BY <1>1, <2>1, <2>2
<1> QED BY <1>2, <1>3, <1>4 DEF Sound

(* At every place the loop can be at, its answer is the right one. *)
LEMMA LoopRight ==
  ASSUME NEW name, NEW pattern, Len(name) \in Nat, Len(pattern) \in Nat, NEW f, Answers(name, pattern, f),
         NEW start \in Places(name, pattern), Sound(pattern, start)
  PROVE  f[start] = TRUE <=> Decides(name, pattern, start)
<1> DEFINE P == Places(name, pattern)
           Wrong == {at \in P : Sound(pattern, at) /\ ~ (f[at] = TRUE <=> Decides(name, pattern, at))}
           Left(at) == Len(name) + 2 - Rank(at)
           Todo(at) == Len(pattern) + 1 - at.p
<1>0. \A at \in P : f[at] = (AtEnd(name, pattern, at) \/ (Continues(name, pattern, at) /\ f[GlobTurn(name, pattern, at)]))
  BY DEF Answers
<1>1. \A at \in P : Sound(pattern, at) => Left(at) \in Nat /\ Todo(at) \in Nat
  BY RankBounded
<1>2. ASSUME NEW at \in Wrong PROVE \E to \in Wrong : Further(at, to)
  <2>1. at \in P /\ Sound(pattern, at) /\ ~ (f[at] = TRUE <=> Decides(name, pattern, at))
    OBVIOUS
  <2>2. CASE AtEnd(name, pattern, at)
    <3>1. f[at] = TRUE
      BY <1>0, <2>1, <2>2
    <3>2. at.n = Len(name) + 1 /\ at.p = Len(pattern) + 1
      BY <2>1, <2>2, Turns DEF AtEnd
    <3>3. Means(name, pattern, at.n, at.p)
      BY <2>1, <3>2, MeansEnd, Turns
    <3> QED BY <2>1, <3>1, <3>3 DEF Decides
  <2>3. CASE ~ AtEnd(name, pattern, at) /\ Continues(name, pattern, at)
    <3> DEFINE to == GlobTurn(name, pattern, at)
    <3>1. to \in P
      BY <2>1, <2>3, TurnPlace
    <3>2. f[at] = (TRUE /\ f[to])
      BY <1>0, <2>1, <2>3
    <3>3. Sound(pattern, to) /\ Further(at, to) /\ (Decides(name, pattern, to) <=> Decides(name, pattern, at))
      BY <2>1, <2>3, StarTurns, CharacterTurns, RestartTurns DEF Continues
    <3>4. f[to] \in BOOLEAN
      BY <1>0, <3>1
    <3> HIDE DEF to
    <3>5. to \in Wrong
      BY <2>1, <3>1, <3>2, <3>3, <3>4
    <3> QED BY <3>3, <3>5
  <2>4. CASE ~ AtEnd(name, pattern, at) /\ ~ Continues(name, pattern, at)
    <3>1. f[at] = FALSE
      BY <1>0, <2>1, <2>4
    <3>2. ~ Decides(name, pattern, at)
      BY <2>1, <2>4, Misfits DEF Decides, Continues
    <3> QED BY <2>1, <3>1, <3>2
  <2> QED BY <2>2, <2>3, <2>4
<1>3. Wrong = {}
  <2> SUFFICES ASSUME Wrong # {} PROVE FALSE
    OBVIOUS
  <2>1. \A at \in Wrong : at \in P /\ Left(at) \in Nat /\ Todo(at) \in Nat /\ Rank(at) \in Int /\ at.p \in Int
    BY <1>1, RankBounded
  <2> HIDE DEF Wrong
  <2> DEFINE T == {Left(at) : at \in Wrong}
  <2>2. PICK l \in T : \A k \in T : l <= k
    <3>1. T \subseteq Nat /\ T # {}
      BY <2>1
    <3> HIDE DEF T
    <3> QED BY <3>1, LeastNumber
  <2> DEFINE U == {Todo(at) : at \in {at \in Wrong : Left(at) = l}}
  <2>3. PICK d \in U : \A k \in U : d <= k
    <3>1. U \subseteq Nat /\ U # {}
      BY <2>1, <2>2
    <3> HIDE DEF U
    <3> QED BY <3>1, LeastNumber
  <2>4. PICK at \in Wrong : Left(at) = l /\ Todo(at) = d
    BY <2>3
  <2>5. PICK to \in Wrong : Further(at, to)
    BY <1>2
  <2>6. l <= Left(to)
    BY <2>2
  <2>7. Rank(to) = Rank(at) /\ to.p > at.p
    BY <2>1, <2>4, <2>5, <2>6, SMTT(60) DEF Further
  <2>8. Left(to) = l
    BY <2>4, <2>7
  <2>9. d <= Todo(to)
    BY <2>3, <2>8
  <2>10. at.p \in Int /\ to.p \in Int
    BY <2>1
  <2>11. Len(pattern) + 1 - at.p <= Len(pattern) + 1 - to.p
    BY <2>4, <2>9
  <2> HIDE DEF T, U
  <2> QED BY <2>7, <2>10, <2>11
<1> QED BY <1>3

(* Whatever the glob and the name: matching, which goes back to the last star *)
(* only, finds whether the places of the name can be told where each symbol   *)
(* of the glob begins, so that each stands for what is between its place and  *)
(* the next (gtest.cc, PatternMatchesString).                                *)
THEOREM GlobsMatch ==
  ASSUME NEW S, NEW name \in Seq(S), NEW pattern \in Seq(S)
  PROVE  PatternMatchesString(name, pattern) <=> Means(name, pattern, 1, 1)
<1> DEFINE f == CHOOSE f : Answers(name, pattern, f)
<1>1. Len(name) \in Nat /\ Len(pattern) \in Nat
  BY LenProperties
<1>2. Answers(name, pattern, f)
  BY <1>1, SomeAnswer
<1>3. PatternMatchesString(name, pattern) = f[Start]
  BY MatchesAnswers
<1> HIDE DEF f
<1>4. Start \in Places(name, pattern) /\ Sound(pattern, Start)
  BY <1>1 DEF Start, Places, Sound
<1>5. f[Start] \in BOOLEAN
  BY <1>2, <1>4 DEF Answers
<1>6. Decides(name, pattern, Start) <=> Means(name, pattern, 1, 1)
  BY DEF Start, Decides, Restarts
<1> QED BY <1>1, <1>2, <1>3, <1>4, <1>5, <1>6, LoopRight

--------------------------------------------------------------------------------
(* The parts of a text *)

(* What the loop of SplitString() makes of the text from pos on *)
ParsedFrom(text, delimiter, pos, parsed) ==
  IF Delimiters(text, delimiter, pos) = {} THEN <<SubSeq(text, pos, Len(text))>>
  ELSE LET colon == Min(Delimiters(text, delimiter, pos))
       IN  <<SubSeq(text, pos, colon - 1)>> \o parsed[colon + 1]

(* Each part ends where the next delimiter is, the last with the text. *)
Parted(S, text, delimiter, pos, parts, ends) ==
  /\ parts \in Seq(Seq(S)) /\ Len(parts) >= 1
  /\ ends \in [0 .. Len(parts) -> 0 .. Len(text) + 1]
  /\ ends[0] = pos - 1 /\ ends[Len(parts)] = Len(text) + 1
  /\ \A k \in 1 .. Len(parts) :
       /\ ends[k - 1] < ends[k]
       /\ parts[k] = SubSeq(text, ends[k - 1] + 1, ends[k] - 1)
       /\ \A i \in ends[k - 1] + 1 .. ends[k] - 1 : text[i] # delimiter
  /\ \A k \in 1 .. Len(parts) - 1 : text[ends[k]] = delimiter
PartsFrom(S, text, delimiter, pos, parts) ==
  \E ends \in [0 .. Len(parts) -> 0 .. Len(text) + 1] : Parted(S, text, delimiter, pos, parts, ends)

(* The delimiter that find() finds is the next one. *)
LEMMA FirstDelimiter ==
  ASSUME NEW text, Len(text) \in Nat, NEW delimiter, NEW pos \in 1 .. Len(text) + 1,
         Delimiters(text, delimiter, pos) # {},
         NEW colon, colon = Min(Delimiters(text, delimiter, pos))
  PROVE  colon \in pos .. Len(text) /\ text[colon] = delimiter /\ \A i \in pos .. colon - 1 : text[i] # delimiter
<1> DEFINE T == Delimiters(text, delimiter, pos)
<1>1. T \subseteq Nat
  BY DEF Delimiters
<1>2. \E x \in T : \A y \in T : x <= y
  <2>1. T # {}
    OBVIOUS
  <2> HIDE DEF T
  <2> QED BY <1>1, <2>1, LeastNumber
<1>3. colon \in T /\ \A y \in T : colon <= y
  <2> HIDE DEF T
  <2>1. colon = CHOOSE x \in T : \A y \in T : x <= y
    BY DEF Min, T
  <2> QED BY <1>2, <2>1
<1>4. colon \in pos .. Len(text) /\ text[colon] = delimiter
  BY <1>3 DEF Delimiters
<1>5. ASSUME NEW i \in pos .. colon - 1 PROVE text[i] # delimiter
  <2>1. i \in pos .. Len(text) /\ ~ (colon <= i)
    BY <1>4
  <2>2. i \notin T
    BY <1>3, <2>1
  <2> QED BY <2>1, <2>2 DEF Delimiters
<1> QED BY <1>4, <1>5

(* A piece of a text *)
LEMMA Piece ==
  ASSUME NEW S, NEW text \in Seq(S), NEW b \in 1 .. Len(text) + 1, NEW e \in b - 1 .. Len(text)
  PROVE  /\ SubSeq(text, b, e) \in Seq(S) /\ Len(SubSeq(text, b, e)) = e - b + 1
         /\ \A i \in 1 .. e - b + 1 : SubSeq(text, b, e)[i] = text[b + i - 1]
<1>1. Len(text) \in Nat /\ \A i \in 1 .. Len(text) : text[i] \in S
  BY LenProperties
<1>2. b \in Int /\ e \in Int /\ \A i \in b .. e : text[i] \in S
  BY <1>1
<1>3. /\ SubSeq(text, b, e) \in Seq(S) /\ Len(SubSeq(text, b, e)) = IF b <= e THEN e - b + 1 ELSE 0
      /\ \A i \in 1 .. e - b + 1 : SubSeq(text, b, e)[i] = text[b + i - 1]
  BY <1>2, SubSeqProperties
<1>4. e - b + 1 = IF b <= e THEN e - b + 1 ELSE 0
  BY <1>1
<1> QED BY <1>3, <1>4

(* Without a delimiter the rest of the text is its last part. *)
LEMMA PartedLast ==
  ASSUME NEW S, NEW text \in Seq(S), NEW delimiter, NEW pos \in 1 .. Len(text) + 1,
         Delimiters(text, delimiter, pos) = {}
  PROVE  PartsFrom(S, text, delimiter, pos, <<SubSeq(text, pos, Len(text))>>)
<1> DEFINE part == SubSeq(text, pos, Len(text))
           parts == <<part>>
           ends == [k \in 0 .. 1 |-> IF k = 0 THEN pos - 1 ELSE Len(text) + 1]
<1>0. Len(text) \in Nat
  BY LenProperties
<1>1. part \in Seq(S)
  BY <1>0, Piece
<1>2. parts \in Seq(Seq(S)) /\ Len(parts) = 1 /\ parts[1] = part
  BY <1>1
<1>3. ends \in [0 .. 1 -> 0 .. Len(text) + 1] /\ ends[0] = pos - 1 /\ ends[1] = Len(text) + 1
  BY <1>0
<1>4. \A i \in pos .. Len(text) : text[i] # delimiter
  BY DEF Delimiters
<1> HIDE DEF parts, ends
<1>5. ASSUME NEW k \in 1 .. 1
      PROVE  /\ ends[k - 1] < ends[k] /\ parts[k] = SubSeq(text, ends[k - 1] + 1, ends[k] - 1)
             /\ \A i \in ends[k - 1] + 1 .. ends[k] - 1 : text[i] # delimiter
  <2>1. k = 1 /\ k - 1 = 0 /\ (pos - 1) + 1 = pos /\ (Len(text) + 1) - 1 = Len(text) /\ pos - 1 < Len(text) + 1
    BY <1>0
  <2> QED BY <1>2, <1>3, <1>4, <2>1
<1>6. Parted(S, text, delimiter, pos, parts, ends)
  BY <1>2, <1>3, <1>5 DEF Parted
<1> QED BY <1>2, <1>3, <1>6 DEF PartsFrom, parts

(* A part that ends at a delimiter is followed by the parts after it. *)
LEMMA PartedFirst ==
  ASSUME NEW S, NEW text \in Seq(S), NEW delimiter, NEW pos \in 1 .. Len(text) + 1,
         NEW colon \in pos .. Len(text), text[colon] = delimiter, \A i \in pos .. colon - 1 : text[i] # delimiter,
         NEW rest, PartsFrom(S, text, delimiter, colon + 1, rest)
  PROVE  PartsFrom(S, text, delimiter, pos, <<SubSeq(text, pos, colon - 1)>> \o rest)
<1> DEFINE part == SubSeq(text, pos, colon - 1)
           parts == <<part>> \o rest
           n == Len(rest)
           N == Len(text)
<1>0. N \in Nat
  BY LenProperties
<1>1. PICK after \in [0 .. n -> 0 .. N + 1] : Parted(S, text, delimiter, colon + 1, rest, after)
  BY DEF PartsFrom
<1>2. rest \in Seq(Seq(S)) /\ n \in Nat \ {0}
  BY <1>1 DEF Parted
<1>3. part \in Seq(S)
  BY <1>0, Piece
<1>4. parts \in Seq(Seq(S)) /\ Len(parts) = n + 1 /\ parts[1] = part /\ \A k \in 2 .. n + 1 : parts[k] = rest[k - 1]
  <2>1. <<part>> \in Seq(Seq(S)) /\ Len(<<part>>) = 1 /\ <<part>>[1] = part
    BY <1>3
  <2>2. /\ parts \in Seq(Seq(S)) /\ Len(parts) = 1 + n
        /\ \A k \in 1 .. 1 + n : parts[k] = IF k <= 1 THEN <<part>>[k] ELSE rest[k - 1]
    <3> HIDE DEF part
    <3> QED BY <1>2, <2>1, ConcatProperties
  <2> HIDE DEF parts, part
  <2> QED BY <1>2, <2>1, <2>2, SMTT(60)
<1> DEFINE ends == [k \in 0 .. n + 1 |-> IF k = 0 THEN pos - 1 ELSE after[k - 1]]
<1>5. /\ ends \in [0 .. n + 1 -> 0 .. N + 1]
      /\ ends[0] = pos - 1 /\ \A k \in 1 .. n + 1 : ends[k] = after[k - 1]
  <2>1. \A k \in 1 .. n + 1 : k - 1 \in 0 .. n
    BY <1>2
  <2>2. pos - 1 \in 0 .. N + 1
    BY <1>0
  <2> QED BY <2>1, <2>2
<1> HIDE DEF parts, ends, part, n, N
<1>6. /\ after[0] = colon /\ after[n] = N + 1
      /\ \A k \in 1 .. n : /\ after[k - 1] < after[k] /\ rest[k] = SubSeq(text, after[k - 1] + 1, after[k] - 1)
                           /\ \A i \in after[k - 1] + 1 .. after[k] - 1 : text[i] # delimiter
      /\ \A k \in 1 .. n - 1 : text[after[k]] = delimiter
  <2>1. (colon + 1) - 1 = colon
    OBVIOUS
  <2> QED BY <1>1, <2>1 DEF Parted, n, N
<1>7. ASSUME NEW k \in 1 .. n + 1
      PROVE  /\ ends[k - 1] < ends[k] /\ parts[k] = SubSeq(text, ends[k - 1] + 1, ends[k] - 1)
             /\ \A i \in ends[k - 1] + 1 .. ends[k] - 1 : text[i] # delimiter
  <2>1. CASE k = 1
    <3>1. k - 1 = 0 /\ ends[k - 1] = pos - 1 /\ ends[k] = colon /\ (pos - 1) + 1 = pos /\ pos - 1 < colon
      BY <1>2, <1>5, <1>6, <2>1
    <3> QED BY <1>4, <2>1, <3>1 DEF part
  <2>2. CASE k # 1
    <3>1. k - 1 \in 1 .. n /\ k - 1 \in 1 .. n + 1 /\ k \in 2 .. n + 1
      BY <1>2, <2>2
    <3>2. ends[k - 1] = after[(k - 1) - 1] /\ ends[k] = after[k - 1] /\ parts[k] = rest[k - 1]
      BY <1>4, <1>5, <3>1
    <3> QED BY <1>6, <3>1, <3>2
  <2> QED BY <2>1, <2>2
<1>8. ASSUME NEW k \in 1 .. (n + 1) - 1 PROVE text[ends[k]] = delimiter
  <2>1. CASE k = 1
    <3>1. 1 \in 1 .. n + 1 /\ 1 - 1 = 0
      BY <1>2
    <3>2. ends[1] = colon
      BY <1>5, <1>6, <3>1
    <3> QED BY <2>1, <3>2
  <2>2. CASE k # 1
    <3>1. k - 1 \in 1 .. n - 1 /\ k \in 1 .. n + 1
      BY <1>2, <2>2
    <3> QED BY <1>5, <1>6, <3>1
  <2> QED BY <2>1, <2>2
<1>9. ends[n + 1] = N + 1
  <2>1. n + 1 \in 1 .. n + 1 /\ (n + 1) - 1 = n
    BY <1>2
  <2> QED BY <1>5, <1>6, <2>1
<1>10. Parted(S, text, delimiter, pos, parts, ends)
  <2>1. n + 1 >= 1
    BY <1>2
  <2> QED BY <1>4, <1>5, <1>7, <1>8, <1>9, <2>1 DEF Parted, N
<1> QED BY <1>4, <1>5, <1>10 DEF PartsFrom, parts, part, N

(* Some function is what the loop makes of the text from every place on: one  *)
(* can be found for the end of the text, and from each place for the one     *)
(* before.                                                                   *)
LEMMA SomeParsed ==
  ASSUME NEW text, Len(text) \in Nat, NEW delimiter
  PROVE  \E f : f = [pos \in 1 .. Len(text) + 1 |-> ParsedFrom(text, delimiter, pos, f)]
<1> DEFINE N == Len(text)
           E(pos, f) == ParsedFrom(text, delimiter, pos, f)
           T == {m \in 0 .. N : \E f : f = [pos \in N + 1 - m .. N + 1 |-> E(pos, f)]}
<1>1. 0 \in T
  <2> DEFINE f == [pos \in N + 1 - 0 .. N + 1 |-> <<SubSeq(text, pos, N)>>]
  <2>1. \A pos \in N + 1 - 0 .. N + 1 : Delimiters(text, delimiter, pos) = {}
    BY DEF Delimiters
  <2>2. f = [pos \in N + 1 - 0 .. N + 1 |-> E(pos, f)]
    BY <2>1 DEF ParsedFrom
  <2> HIDE DEF f
  <2> QED BY <2>2
<1>2. ASSUME NEW m \in 0 .. N - 1, m \in T PROVE m + 1 \in T
  <2>1. PICK f : f = [pos \in N + 1 - m .. N + 1 |-> E(pos, f)]
    BY <1>2
  <2> DEFINE b == N + 1 - (m + 1)
             g == [pos \in b .. N + 1 |-> IF pos = b THEN E(b, f) ELSE f[pos]]
  <2>2. b \in 1 .. N /\ \A pos \in b .. N + 1 : pos = b \/ pos \in N + 1 - m .. N + 1
    OBVIOUS
  <2>3. \A pos \in N + 1 - m .. N + 1 : g[pos] = f[pos]
    OBVIOUS
  <2>4. ASSUME NEW pos \in b .. N + 1 PROVE E(pos, g) = E(pos, f)
    <3>1. CASE Delimiters(text, delimiter, pos) = {}
      BY <3>1 DEF ParsedFrom
    <3>2. CASE Delimiters(text, delimiter, pos) # {}
      <4> DEFINE colon == Min(Delimiters(text, delimiter, pos))
      <4>1. pos \in 1 .. N + 1
        BY <2>2
      <4>2. colon \in pos .. N
        BY <3>2, <4>1, FirstDelimiter
      <4>3. colon + 1 \in N + 1 - m .. N + 1
        <5> HIDE DEF colon
        <5> QED BY <2>2, <4>2
      <4>4. g[colon + 1] = f[colon + 1]
        <5> HIDE DEF colon, g
        <5> QED BY <2>3, <4>3
      <4> QED BY <3>2, <4>4 DEF ParsedFrom
    <3> QED BY <3>1, <3>2
  <2>5. \A pos \in b .. N + 1 : g[pos] = E(pos, f)
    <3> HIDE DEF E
    <3> QED BY <2>1, <2>2
  <2>6. g = [pos \in b .. N + 1 |-> E(pos, g)]
    <3>1. g = [pos \in b .. N + 1 |-> g[pos]]
      OBVIOUS
    <3> HIDE DEF g, E
    <3> QED BY <2>4, <2>5, <3>1
  <2> HIDE DEF g, E
  <2> QED BY <2>6
<1>3. N \in T
  <2>1. \A k \in 0 .. N - 1 : k \in T => k + 1 \in T
    BY <1>2
  <2> HIDE DEF T
  <2>2. 0 .. N \subseteq T
    BY <1>1, <2>1, Climb
  <2> QED BY <2>2
<1>4. N + 1 - N = 1
  OBVIOUS
<1> QED BY <1>3, <1>4

(* SplitString() finds all the parts, in their order, whatever the text. *)
LEMMA SplitParts ==
  ASSUME NEW S, NEW text \in Seq(S), NEW delimiter
  PROVE  PartsFrom(S, text, delimiter, 1, SplitString(text, delimiter))
<1> DEFINE N == Len(text)
           f == CHOOSE f : f = [pos \in 1 .. Len(text) + 1 |-> ParsedFrom(text, delimiter, pos, f)]
<1>0. N \in Nat
  BY LenProperties
<1>1. f = [pos \in 1 .. N + 1 |-> ParsedFrom(text, delimiter, pos, f)]
  BY <1>0, SomeParsed
<1>2. SplitString(text, delimiter) = f[1]
  BY DEF SplitString, ParsedFrom
<1> HIDE DEF f
<1>3. \A pos \in 1 .. N + 1 : f[pos] = ParsedFrom(text, delimiter, pos, f)
  BY <1>1
<1> DEFINE T == {m \in 0 .. N : \A pos \in N + 1 - m .. N + 1 : PartsFrom(S, text, delimiter, pos, f[pos])}
<1>4. ASSUME NEW pos \in 1 .. N + 1,
             \A to \in pos + 1 .. N + 1 : PartsFrom(S, text, delimiter, to, f[to])
      PROVE  PartsFrom(S, text, delimiter, pos, f[pos])
  <2>1. CASE Delimiters(text, delimiter, pos) = {}
    BY <1>3, <2>1, PartedLast DEF ParsedFrom
  <2>2. CASE Delimiters(text, delimiter, pos) # {}
    <3> DEFINE colon == Min(Delimiters(text, delimiter, pos))
    <3>1. colon \in pos .. N /\ text[colon] = delimiter /\ \A i \in pos .. colon - 1 : text[i] # delimiter
      BY <1>0, <2>2, FirstDelimiter
    <3>2. f[pos] = <<SubSeq(text, pos, colon - 1)>> \o f[colon + 1]
      BY <1>3, <2>2 DEF ParsedFrom
    <3> HIDE DEF colon
    <3>3. PartsFrom(S, text, delimiter, colon + 1, f[colon + 1])
      BY <1>0, <1>4, <3>1
    <3> QED BY <3>1, <3>2, <3>3, PartedFirst
  <2> QED BY <2>1, <2>2
<1>5. 0 \in T
  <2>1. \A pos \in N + 1 - 0 .. N + 1 : pos \in 1 .. N + 1 /\ pos + 1 .. N + 1 = {}
    BY <1>0
  <2> QED BY <1>0, <1>4, <2>1
<1>6. ASSUME NEW m \in 0 .. N - 1, m \in T PROVE m + 1 \in T
  <2> DEFINE b == N + 1 - (m + 1)
  <2>1. b \in 1 .. N + 1 /\ \A to \in b .. N + 1 : to = b \/ to \in N + 1 - m .. N + 1
    BY <1>0
  <2>2. \A to \in b + 1 .. N + 1 : to \in N + 1 - m .. N + 1
    BY <1>0
  <2>3. PartsFrom(S, text, delimiter, b, f[b])
    BY <1>4, <1>6, <2>1, <2>2
  <2> QED BY <1>0, <1>6, <2>1, <2>3
<1>7. N \in T
  <2>1. \A k \in 0 .. N - 1 : k \in T => k + 1 \in T
    BY <1>6
  <2> HIDE DEF T
  <2>2. 0 .. N \subseteq T
    BY <1>0, <1>5, <2>1, Climb
  <2> QED BY <1>0, <2>2
<1>8. 1 \in N + 1 - N .. N + 1
  BY <1>0
<1> QED BY <1>2, <1>7, <1>8

(* The parts of a text are the longest pieces of it without a delimiter. *)
IsPart(text, delimiter, b, e) ==
  /\ b = 1 \/ text[b - 1] = delimiter
  /\ e = Len(text) \/ text[e + 1] = delimiter
  /\ \A i \in b .. e : text[i] # delimiter

(* SplitString() finds these parts, and no others. *)
LEMMA SplitFindsParts ==
  ASSUME NEW S, NEW text \in Seq(S), NEW delimiter, NEW part
  PROVE  part \in ToSet(SplitString(text, delimiter)) <=>
           \E b \in 1 .. Len(text) + 1 : \E e \in b - 1 .. Len(text) :
             IsPart(text, delimiter, b, e) /\ part = SubSeq(text, b, e)
<1> DEFINE parts == SplitString(text, delimiter)
           n == Len(parts)
           N == Len(text)
<1>0. N \in Nat
  BY LenProperties
<1>1. PICK ends \in [0 .. n -> 0 .. N + 1] : Parted(S, text, delimiter, 1, parts, ends)
  BY SplitParts DEF PartsFrom
<1> HIDE DEF parts
<1>2. /\ n \in Nat /\ n >= 1 /\ DOMAIN parts = 1 .. n
      /\ ends[0] = 0 /\ ends[n] = N + 1
      /\ \A k \in 1 .. n : /\ ends[k - 1] < ends[k] /\ parts[k] = SubSeq(text, ends[k - 1] + 1, ends[k] - 1)
                           /\ \A i \in ends[k - 1] + 1 .. ends[k] - 1 : text[i] # delimiter
      /\ \A k \in 1 .. n - 1 : text[ends[k]] = delimiter
  <2>1. parts \in Seq(Seq(S)) /\ 1 - 1 = 0
    BY <1>1 DEF Parted
  <2> QED BY <1>1, <2>1, LenProperties DEF Parted
<1> HIDE DEF n, N
<1>3. \A k \in 0 .. n : ends[k] \in 0 .. N + 1
  OBVIOUS
<1>4. ASSUME NEW k \in 1 .. n
      PROVE  \E b \in 1 .. N + 1 : \E e \in b - 1 .. N : IsPart(text, delimiter, b, e) /\ parts[k] = SubSeq(text, b, e)
  <2> DEFINE b == ends[k - 1] + 1
             e == ends[k] - 1
  <2>1. k - 1 \in 0 .. n /\ k \in 0 .. n /\ ends[k - 1] < ends[k]
    BY <1>2
  <2>2. ends[k - 1] \in 0 .. N + 1 /\ ends[k] \in 0 .. N + 1
    BY <1>3, <2>1
  <2>3. b \in 1 .. N + 1 /\ e \in b - 1 .. N /\ b - 1 = ends[k - 1] /\ e + 1 = ends[k]
    BY <1>0, <2>1, <2>2
  <2>4. b = 1 \/ text[b - 1] = delimiter
    <3>1. CASE k = 1
      BY <1>2, <3>1
    <3>2. CASE k # 1
      <4>1. k - 1 \in 1 .. n - 1
        BY <1>2, <3>2
      <4> QED BY <1>2, <2>3, <4>1
    <3> QED BY <3>1, <3>2
  <2>5. e = N \/ text[e + 1] = delimiter
    <3>1. CASE k = n
      BY <1>0, <1>2, <3>1
    <3>2. CASE k # n
      <4>1. k \in 1 .. n - 1
        BY <1>2, <3>2
      <4> QED BY <1>2, <2>3, <4>1
    <3> QED BY <3>1, <3>2
  <2>6. (\A i \in b .. e : text[i] # delimiter) /\ parts[k] = SubSeq(text, b, e)
    BY <1>2
  <2>7. IsPart(text, delimiter, b, e)
    BY <2>4, <2>5, <2>6 DEF IsPart, N
  <2> QED BY <2>3, <2>6, <2>7
<1>5. ASSUME NEW i \in 1 .. N, text[i] = delimiter
      PROVE  \E k \in 1 .. n - 1 : ends[k] = i
  <2> DEFINE T == {k \in 0 .. n : ends[k] >= i}
  <2>1. PICK k \in T : \A j \in T : k <= j
    <3>1. n \in T /\ T \subseteq Nat
      BY <1>0, <1>2
    <3>2. T # {}
      BY <3>1
    <3> HIDE DEF T
    <3> QED BY <3>1, <3>2, LeastNumber
  <2>2. k \in 1 .. n /\ ends[k] >= i
    BY <1>2, <2>1
  <2>3. k - 1 \in 0 .. n /\ k - 1 < k
    BY <1>2, <2>2
  <2>4. k - 1 \notin T
    BY <2>1, <2>3
  <2>5. ends[k - 1] \in 0 .. N + 1 /\ ends[k] \in 0 .. N + 1 /\ ~ (ends[k - 1] >= i)
    BY <1>2, <1>3, <2>2, <2>3, <2>4
  <2>6. i \notin ends[k - 1] + 1 .. ends[k] - 1
    BY <1>2, <1>5, <2>2
  <2>7. ends[k] = i
    BY <2>2, <2>5, <2>6
  <2>8. k # n
    BY <1>0, <1>2, <2>7
  <2> QED BY <1>2, <2>2, <2>7, <2>8
<1>6. ASSUME NEW b \in 1 .. N + 1, NEW e \in b - 1 .. N, IsPart(text, delimiter, b, e)
      PROVE  \E k \in 1 .. n : parts[k] = SubSeq(text, b, e)
  <2>1. PICK k \in 1 .. n : ends[k - 1] = b - 1
    <3>1. CASE b = 1
      <4>1. 1 \in 1 .. n /\ 1 - 1 = 0 /\ b - 1 = 0
        BY <1>2, <3>1
      <4> QED BY <1>2, <4>1
    <3>2. CASE b # 1
      <4>1. b - 1 \in 1 .. N /\ text[b - 1] = delimiter
        BY <1>0, <1>6, <3>2 DEF IsPart
      <4>2. PICK k \in 1 .. n - 1 : ends[k] = b - 1
        BY <1>5, <4>1
      <4>3. k + 1 \in 1 .. n /\ (k + 1) - 1 = k
        BY <1>2
      <4> QED BY <4>2, <4>3
    <3> QED BY <3>1, <3>2
  <2>2. /\ ends[k] \in 0 .. N + 1 /\ b - 1 < ends[k] /\ (b - 1) + 1 = b
        /\ parts[k] = SubSeq(text, b, ends[k] - 1) /\ \A i \in b .. ends[k] - 1 : text[i] # delimiter
    <3>1. k \in 0 .. n /\ (b - 1) + 1 = b
      BY <1>2
    <3> QED BY <1>2, <1>3, <2>1, <3>1
  <2>3. ~ (e < ends[k] - 1)
    <3> SUFFICES ASSUME e < ends[k] - 1 PROVE FALSE
      OBVIOUS
    <3>1. e + 1 \in b .. ends[k] - 1 /\ e # N
      BY <1>0, <2>2
    <3> QED BY <1>6, <2>2, <3>1 DEF IsPart, N
  <2>4. ~ (ends[k] - 1 < e)
    <3> SUFFICES ASSUME ends[k] - 1 < e PROVE FALSE
      OBVIOUS
    <3>1. ends[k] \in b .. e /\ ends[k] # N + 1
      BY <1>0, <2>2
    <3>2. k # n
      BY <1>2, <3>1
    <3>3. k \in 1 .. n - 1
      BY <1>2, <3>2
    <3>4. text[ends[k]] = delimiter
      BY <1>2, <3>3
    <3> QED BY <1>6, <3>1, <3>4 DEF IsPart
  <2>5. e = ends[k] - 1
    BY <1>0, <2>2, <2>3, <2>4
  <2> QED BY <2>2, <2>5
<1>7. part \in ToSet(parts) <=> \E k \in 1 .. n : part = parts[k]
  BY <1>2 DEF ToSet
<1> QED BY <1>4, <1>6, <1>7 DEF parts, n, N

--------------------------------------------------------------------------------
(* What a filter means *)

(* A part of the text means the name. *)
Lists(text, name) ==
  \E b \in 1 .. Len(text) + 1 : \E e \in b - 1 .. Len(text) :
    IsPart(text, ":", b, e) /\ Means(name, SubSeq(text, b, e), 1, 1)

(* What is before the first "-" lists the name, or is left out; what follows  *)
(* it does not.                                                              *)
Selects(filter, name) ==
  \/ (\A i \in 1 .. Len(filter) : filter[i] # "-") /\ Lists(filter, name)
  \/ \E m \in 1 .. Len(filter) :
       /\ filter[m] = "-" /\ \A i \in 1 .. m - 1 : filter[i] # "-"
       /\ m = 1 \/ Lists(SubSeq(filter, 1, m - 1), name)
       /\ ~ Lists(SubSeq(filter, m + 1, Len(filter)), name)

(* Without a wildcard only the text itself is meant. *)
LEMMA ExactMeans ==
  ASSUME NEW S, NEW name \in Seq(S), NEW pattern \in Seq(S), ~ IsGlobPattern(pattern)
  PROVE  Means(name, pattern, 1, 1) <=> name = pattern
<1> DEFINE N == Len(name)
           M == Len(pattern)
<1>0. N \in Nat /\ M \in Nat /\ DOMAIN pattern = 1 .. M
  BY LenProperties
<1>1. \A i \in 1 .. M : pattern[i] \notin {"?", "*"}
  BY <1>0 DEF IsGlobPattern
<1>2. ASSUME NEW at \in Lines(name, pattern, 1), Aligned(name, pattern, 1, 1, at)
      PROVE  name = pattern
  <2>1. /\ at[1] = 1 /\ at[M + 1] = N + 1
        /\ \A i \in 1 .. M : at[i + 1] = at[i] + 1 /\ pattern[i] = name[at[i]]
    BY <1>1, <1>2 DEF Aligned, Stands
  <2> DEFINE T == {k \in 0 .. M : at[k + 1] = k + 1}
  <2>2. 0 .. M \subseteq T
    <3>1. 0 \in T
      BY <1>0, <2>1
    <3>2. ASSUME NEW k \in 0 .. M - 1, k \in T PROVE k + 1 \in T
      <4>1. k + 1 \in 1 .. M /\ k + 1 \in 0 .. M /\ at[k + 1] = k + 1
        BY <1>0, <3>2
      <4>2. at[(k + 1) + 1] = at[k + 1] + 1
        BY <2>1, <4>1
      <4> QED BY <4>1, <4>2
    <3> HIDE DEF T
    <3> QED BY <1>0, <3>1, <3>2, Climb
  <2>3. M = N
    <3>1. at[M + 1] = M + 1
      BY <1>0, <2>2
    <3> QED BY <1>0, <2>1, <3>1
  <2>4. ASSUME NEW i \in 1 .. M PROVE pattern[i] = name[i]
    <3>1. i - 1 \in 0 .. M /\ (i - 1) + 1 = i
      BY <1>0
    <3>2. i - 1 \in T
      BY <2>2, <3>1
    <3>3. at[i] = i
      BY <3>1, <3>2
    <3> QED BY <2>1, <3>3
  <2> QED BY <1>0, <2>3, <2>4, SeqEqual
<1>3. ASSUME name = pattern PROVE Means(name, pattern, 1, 1)
  <2> DEFINE at == [i \in 1 .. M + 1 |-> i]
  <2>1. at \in Lines(name, pattern, 1) /\ at[1] = 1 /\ at[M + 1] = N + 1 /\ \A i \in 1 .. M : at[i] = i /\ at[i + 1] = i + 1
    BY <1>0, <1>3 DEF Lines
  <2> HIDE DEF at
  <2>2. Aligned(name, pattern, 1, 1, at)
    BY <1>0, <1>1, <1>3, <2>1 DEF Aligned, Stands
  <2> QED BY <2>1, <2>2 DEF Means
<1> QED BY <1>2, <1>3 DEF Means

(* A list of patterns matches what a part of it means. *)
LEMMA ListMatches ==
  ASSUME NEW S, NEW name \in Seq(S), NEW text \in Seq(S)
  PROVE  MatchesName(UnitTestFilter(text), name) <=> Lists(text, name)
<1> DEFINE all == ToSet(SplitString(text, ":"))
           Right(p) == \E b \in 1 .. Len(text) + 1 : \E e \in b - 1 .. Len(text) :
                         IsPart(text, ":", b, e) /\ p = SubSeq(text, b, e)
<1>1. MatchesName(UnitTestFilter(text), name) <=>
        \/ name \in all /\ ~ IsGlobPattern(name)
        \/ \E p \in all : IsGlobPattern(p) /\ PatternMatchesString(name, p)
  BY Zenon DEF MatchesName, UnitTestFilter
<1>2. \A p : p \in all <=> Right(p)
  BY SplitFindsParts
<1>3. \A b \in 1 .. Len(text) + 1 : \A e \in b - 1 .. Len(text) : SubSeq(text, b, e) \in Seq(S)
  BY Piece
<1> HIDE DEF all
<1>4. ASSUME NEW p \in all PROVE p \in Seq(S)
  <2>1. PICK b \in 1 .. Len(text) + 1 : \E e \in b - 1 .. Len(text) : p = SubSeq(text, b, e)
    BY <1>2
  <2> QED BY <1>3, <2>1
<1>5. Lists(text, name) <=> \E p \in all : Means(name, p, 1, 1)
  <2>1. ASSUME NEW p \in all, Means(name, p, 1, 1) PROVE Lists(text, name)
    <3>1. PICK b \in 1 .. Len(text) + 1 : \E e \in b - 1 .. Len(text) : IsPart(text, ":", b, e) /\ p = SubSeq(text, b, e)
      BY <1>2
    <3> QED BY <2>1, <3>1 DEF Lists
  <2>2. ASSUME Lists(text, name) PROVE \E p \in all : Means(name, p, 1, 1)
    <3>1. PICK b \in 1 .. Len(text) + 1 : \E e \in b - 1 .. Len(text) :
                 IsPart(text, ":", b, e) /\ Means(name, SubSeq(text, b, e), 1, 1)
      BY <2>2 DEF Lists
    <3>2. PICK e \in b - 1 .. Len(text) : IsPart(text, ":", b, e) /\ Means(name, SubSeq(text, b, e), 1, 1)
      BY <3>1
    <3>3. SubSeq(text, b, e) \in all
      BY <1>2, <3>2
    <3> QED BY <3>2, <3>3
  <2> QED BY <2>1, <2>2
<1>6. \A p \in all : IsGlobPattern(p) => (PatternMatchesString(name, p) <=> Means(name, p, 1, 1))
  BY <1>4, GlobsMatch
<1>7. \A p \in all : ~ IsGlobPattern(p) => (Means(name, p, 1, 1) <=> name = p)
  BY <1>4, ExactMeans
<1> QED BY <1>1, <1>5, <1>6, <1>7

(* The parts after the first "-" make up again what they were split from. *)
LEMMA JoinedAgain ==
  ASSUME NEW S, NEW filter \in Seq(S), NEW parts, NEW ends \in [0 .. Len(parts) -> 0 .. Len(filter) + 1],
         Parted(S, filter, "-", 1, parts, ends), Len(parts) >= 2
  PROVE  JoinedFrom2(parts) = SubSeq(filter, ends[1] + 1, Len(filter))
<1> DEFINE n == Len(parts)
           N == Len(filter)
           Joint(f) == f = [i \in 2 .. n |-> IF i = 2 THEN parts[2] ELSE f[i - 1] \o <<"-">> \o parts[i]]
           w == [i \in 2 .. n |-> SubSeq(filter, ends[1] + 1, ends[i] - 1)]
           f == CHOOSE f : Joint(f)
<1>0. N \in Nat
  BY LenProperties
<1>1. /\ n \in Nat /\ n >= 2 /\ ends[n] = N + 1
      /\ \A k \in 1 .. n : ends[k - 1] < ends[k] /\ parts[k] = SubSeq(filter, ends[k - 1] + 1, ends[k] - 1)
      /\ \A k \in 1 .. n - 1 : filter[ends[k]] = "-"
  <2>1. parts \in Seq(Seq(S))
    BY DEF Parted
  <2> QED BY <2>1, LenProperties DEF Parted
<1>2. \A k \in 0 .. n : ends[k] \in 0 .. N + 1
  OBVIOUS
<1>3. \A i \in 2 .. n : w[i] = SubSeq(filter, ends[1] + 1, ends[i] - 1)
  OBVIOUS
<1> HIDE DEF n, N, w
<1>4. ASSUME NEW i \in 2 .. n PROVE ends[1] < ends[i] /\ ends[1] \in 1 .. N
  <2> DEFINE T == {k \in 0 .. n - 2 : ends[1] < ends[k + 2]}
  <2>1. 2 \in 1 .. n /\ 2 - 1 = 1 /\ 1 \in 1 .. n /\ 1 - 1 = 0 /\ 0 \in 0 .. n /\ 1 \in 0 .. n /\ 2 \in 0 .. n
    BY <1>1
  <2>2. ends[0] < ends[1] /\ ends[1] < ends[2] /\ ends[0] \in 0 .. N + 1 /\ ends[1] \in 0 .. N + 1 /\ ends[2] \in 0 .. N + 1
    BY <1>1, <1>2, <2>1
  <2>3. ends[1] \in 1 .. N
    BY <1>0, <2>2
  <2>4. 0 \in T
    BY <1>1, <2>2
  <2>5. ASSUME NEW k \in 0 .. (n - 2) - 1, k \in T PROVE k + 1 \in T
    <3>1. k + 3 \in 1 .. n /\ (k + 3) - 1 = k + 2 /\ (k + 1) + 2 = k + 3 /\ k + 2 \in 0 .. n /\ k + 3 \in 0 .. n /\ k + 1 \in 0 .. n - 2
      BY <1>1
    <3>2. ends[k + 2] < ends[k + 3] /\ ends[k + 2] \in 0 .. N + 1 /\ ends[k + 3] \in 0 .. N + 1
      BY <1>1, <1>2, <3>1
    <3> QED BY <2>3, <2>5, <3>1, <3>2
  <2>6. 0 .. n - 2 \subseteq T
    <3>1. n - 2 \in Nat /\ \A k \in 0 .. (n - 2) - 1 : k \in T => k + 1 \in T
      BY <1>1, <2>5
    <3> HIDE DEF T
    <3> QED BY <2>4, <3>1, Climb
  <2>7. i - 2 \in 0 .. n - 2 /\ (i - 2) + 2 = i
    BY <1>1
  <2> QED BY <2>3, <2>6, <2>7
<1>5. w[2] = parts[2]
  <2>1. 2 \in 2 .. n /\ 2 \in 1 .. n /\ 2 - 1 = 1
    BY <1>1
  <2>2. parts[2] = SubSeq(filter, ends[2 - 1] + 1, ends[2] - 1)
    BY <1>1, <2>1
  <2>3. parts[2] = SubSeq(filter, ends[1] + 1, ends[2] - 1)
    BY <2>1, <2>2, Zenon
  <2> QED BY <1>3, <2>1, <2>3
<1>6. ASSUME NEW i \in 2 .. n, i # 2 PROVE w[i] = w[i - 1] \o <<"-">> \o parts[i]
  <2> DEFINE b == ends[1] + 1
             m == ends[i - 1]
             e == ends[i] - 1
  <2>1. i \in 1 .. n /\ i - 1 \in 1 .. n - 1 /\ i - 1 \in 2 .. n /\ i \in 0 .. n /\ i - 1 \in 0 .. n
    BY <1>1, <1>6
  <2>2. /\ ends[1] \in 1 .. N /\ ends[1] < m /\ m < ends[i] /\ m \in 0 .. N + 1 /\ ends[i] \in 0 .. N + 1
        /\ filter[m] = "-" /\ parts[i] = SubSeq(filter, m + 1, e)
    BY <1>1, <1>2, <1>4, <2>1
  <2>3. b \in 1 .. N /\ m \in b .. N /\ e \in m .. N /\ b \in 1 .. N + 1 /\ m \in b - 1 .. N
    <3> DEFINE first == ends[1]
               end == ends[i]
    <3>1. first \in 1 .. N /\ first < m /\ m < end /\ m \in 0 .. N + 1 /\ end \in 0 .. N + 1
      BY <2>2
    <3> HIDE DEF first, end, m
    <3>2. first + 1 \in 1 .. N /\ m \in first + 1 .. N /\ end - 1 \in m .. N
      BY <1>0, <3>1
    <3> QED BY <1>0, <3>1, <3>2 DEF first, end
  <2> HIDE DEF b, m, e
  <2>4. SubSeq(filter, b, m) = SubSeq(filter, b, m - 1) \o <<"-">>
    BY <2>2, <2>3, SubSeqRecursiveSecond DEF N
  <2>5. SubSeq(filter, b, m) \o SubSeq(filter, m + 1, e) = SubSeq(filter, b, e)
    BY <2>3, ConcatAdjacentSubSeq DEF N
  <2>6. w[i - 1] = SubSeq(filter, b, m - 1) /\ w[i] = SubSeq(filter, b, e)
    BY <1>3, <2>1 DEF b, m, e
  <2> QED BY <2>2, <2>4, <2>5, <2>6
<1>7. Joint(w)
  <2>1. w = [i \in 2 .. n |-> w[i]]
    BY DEF w
  <2> QED BY <1>5, <1>6, <2>1
<1>8. Joint(f)
  BY <1>7
<1>9. JoinedFrom2(parts) = f[n]
  BY DEF JoinedFrom2, n
<1> HIDE DEF f
<1>10. \A i \in 2 .. n : f[i] = IF i = 2 THEN parts[2] ELSE f[i - 1] \o <<"-">> \o parts[i]
  BY <1>8
<1> DEFINE T == {k \in 0 .. n - 2 : f[k + 2] = w[k + 2]}
<1>11. 0 \in T
  BY <1>1, <1>5, <1>10
<1>12. ASSUME NEW k \in 0 .. (n - 2) - 1, k \in T PROVE k + 1 \in T
  <2>1. k + 3 \in 2 .. n /\ k + 3 # 2 /\ (k + 3) - 1 = k + 2 /\ (k + 1) + 2 = k + 3 /\ k + 1 \in 0 .. n - 2
    BY <1>1
  <2>2. f[k + 3] = f[k + 2] \o <<"-">> \o parts[k + 3] /\ w[k + 3] = w[k + 2] \o <<"-">> \o parts[k + 3]
    BY <1>6, <1>10, <2>1
  <2> QED BY <1>12, <2>1, <2>2
<1>13. 0 .. n - 2 \subseteq T
  <2>1. n - 2 \in Nat /\ \A k \in 0 .. (n - 2) - 1 : k \in T => k + 1 \in T
    BY <1>1, <1>12
  <2> HIDE DEF T
  <2> QED BY <1>11, <2>1, Climb
<1>14. n - 2 \in 0 .. n - 2 /\ (n - 2) + 2 = n /\ n \in 2 .. n /\ (N + 1) - 1 = N
  BY <1>0, <1>1
<1>15. f[n] = w[n]
  BY <1>13, <1>14
<1> QED BY <1>1, <1>3, <1>9, <1>14, <1>15 DEF N

(* "*" means every name. *)
LEMMA AllMeant ==
  ASSUME NEW S, NEW name \in Seq(S)
  PROVE  Lists(<<"*">>, name)
<1> DEFINE all == <<"*">>
<1>1. all \in Seq({"*"}) /\ Len(all) = 1 /\ all[1] = "*" /\ Len(name) \in Nat
  BY LenProperties
<1> HIDE DEF all
<1>2. Means(name, all, 1, 1)
  <2>1. 1 \in 1 .. Len(name) + 1 /\ 1 \in 1 .. Len(all) /\ Len(name) + 1 \in 1 .. Len(name) + 1
        /\ 1 <= Len(name) + 1 /\ Len(all) + 1 = 1 + 1 /\ Len(all) \in Nat
    BY <1>1
  <2>2. Means(name, all, Len(name) + 1, 1 + 1)
    BY <1>1, <2>1, MeansEnd
  <2>3. Stands(name, all[1], 1, Len(name) + 1)
    BY <1>1, <2>1 DEF Stands
  <2> QED BY <1>1, <2>1, <2>2, <2>3, MeansNext
<1>3. SubSeq(all, 1, Len(all)) = all
  BY <1>1, SubSeqFull
<1>4. IsPart(all, ":", 1, 1)
  BY <1>1 DEF IsPart
<1>5. 1 \in 1 .. Len(all) + 1 /\ 1 \in 1 - 1 .. Len(all) /\ SubSeq(all, 1, 1) = all
  BY <1>1, <1>3
<1> QED BY <1>2, <1>4, <1>5 DEF Lists, all

(* Whatever the filter and the name: the test runs if the name is meant by a  *)
(* pattern of the list before the first "-", or there is none there, and by   *)
(* no pattern of the list after it, further "-" included (gtest.cc,          *)
(* PositiveAndNegativeUnitTestFilter).                                       *)
THEOREM FiltersSelect ==
  ASSUME NEW S, NEW name \in Seq(S), NEW filter \in Seq(S)
  PROVE  FilterMatchesTest(filter, name) <=> Selects(filter, name)
<1> DEFINE parts == SplitString(filter, "-")
           n == Len(parts)
           N == Len(filter)
<1>0. N \in Nat
  BY LenProperties
<1>1. PICK ends \in [0 .. n -> 0 .. N + 1] : Parted(S, filter, "-", 1, parts, ends)
  BY SplitParts DEF PartsFrom
<1> HIDE DEF parts
<1>2. /\ n \in Nat /\ n >= 1 /\ ends[0] = 0 /\ ends[n] = N + 1
      /\ \A k \in 1 .. n : /\ ends[k - 1] < ends[k] /\ parts[k] = SubSeq(filter, ends[k - 1] + 1, ends[k] - 1)
                           /\ \A i \in ends[k - 1] + 1 .. ends[k] - 1 : filter[i] # "-"
      /\ \A k \in 1 .. n - 1 : filter[ends[k]] = "-"
  <2>1. parts \in Seq(Seq(S)) /\ 1 - 1 = 0
    BY <1>1 DEF Parted
  <2> QED BY <1>1, <2>1, LenProperties DEF Parted
<1>3. CASE n = 1
  <2>1. PositiveAndNegative(filter) = [positive |-> UnitTestFilter(filter), negative |-> NoFilter]
    BY <1>3 DEF PositiveAndNegative, parts
  <2>2. FilterMatchesTest(filter, name) <=> MatchesName(UnitTestFilter(filter), name) /\ ~ MatchesName(NoFilter, name)
    BY <2>1 DEF FilterMatchesTest
  <2>3. ~ MatchesName(NoFilter, name)
    BY DEF MatchesName, NoFilter
  <2>4. \A i \in 1 .. N : filter[i] # "-"
    <3>1. 1 \in 1 .. n /\ 1 - 1 = 0 /\ 0 + 1 = 1 /\ (N + 1) - 1 = N
      BY <1>0, <1>3
    <3> QED BY <1>2, <1>3, <3>1
  <2> QED BY <2>2, <2>3, <2>4, ListMatches DEF Selects
<1>4. CASE n # 1
  <2> DEFINE m == ends[1]
             before == SubSeq(filter, 1, m - 1)
             after == SubSeq(filter, m + 1, N)
             positive == IF before = <<>> THEN <<"*">> ELSE before
  <2>1. n >= 2 /\ 1 \in 1 .. n /\ 2 \in 1 .. n /\ 1 - 1 = 0 /\ 2 - 1 = 1 /\ 1 \in 1 .. n - 1
        /\ 1 \in 0 .. n /\ 2 \in 0 .. n /\ 0 + 1 = 1
    <3>1. n \in Nat /\ n >= 1
      BY <1>2
    <3> HIDE DEF n
    <3> QED BY <1>4, <3>1
  <2>2. /\ 0 < m /\ m < ends[2] /\ m \in 0 .. N + 1 /\ ends[2] \in 0 .. N + 1
        /\ parts[1] = before /\ filter[m] = "-" /\ \A i \in 1 .. m - 1 : filter[i] # "-"
    BY <1>2, <2>1, ZenonT(60)
  <2>3. m \in 1 .. N
    BY <1>0, <2>2
  <2>4. JoinedFrom2(parts) = after
    BY <1>1, <2>1, JoinedAgain
  <2> HIDE DEF m
  <2>5. PositiveAndNegative(filter) = [positive |-> UnitTestFilter(positive), negative |-> UnitTestFilter(after)]
    BY <1>4, <2>2, <2>4 DEF PositiveAndNegative, parts
  <2>6. FilterMatchesTest(filter, name) <=> MatchesName(UnitTestFilter(positive), name) /\ ~ MatchesName(UnitTestFilter(after), name)
    BY <2>5 DEF FilterMatchesTest
  <2>7. before \in Seq(S) /\ after \in Seq(S) /\ Len(before) = m - 1
    <3>1. 1 \in 1 .. N + 1 /\ m - 1 \in 1 - 1 .. N /\ m + 1 \in 1 .. N + 1 /\ N \in (m + 1) - 1 .. N /\ (m - 1) - 1 + 1 = m - 1
      BY <1>0, <2>3
    <3> QED BY <3>1, Piece
  <2> HIDE DEF before, after, N
  <2>8. before = <<>> <=> m = 1
    BY <2>3, <2>7, EmptySeq
  <2>9. MatchesName(UnitTestFilter(positive), name) <=> m = 1 \/ Lists(before, name)
    <3>1. CASE before = <<>>
      <4> DEFINE Z == S \union {"*"}
      <4>1. name \in Seq(Z) /\ <<"*">> \in Seq(Z)
        <5>1. S \subseteq Z /\ "*" \in Z
          OBVIOUS
        <5> HIDE DEF Z
        <5> QED BY <5>1, SeqMonotonic
      <4> HIDE DEF Z
      <4>2. MatchesName(UnitTestFilter(<<"*">>), name) <=> Lists(<<"*">>, name)
        BY <4>1, ListMatches
      <4> QED BY <2>8, <3>1, <4>2, AllMeant
    <3>2. CASE before # <<>>
      BY <2>7, <2>8, <3>2, ListMatches
    <3> QED BY <3>1, <3>2
  <2>10. MatchesName(UnitTestFilter(after), name) <=> Lists(after, name)
    BY <2>7, ListMatches
  <2>11. Selects(filter, name) <=> (m = 1 \/ Lists(before, name)) /\ ~ Lists(after, name)
    <3>1. ASSUME NEW k \in 1 .. N, filter[k] = "-", \A i \in 1 .. k - 1 : filter[i] # "-" PROVE k = m
      BY <1>0, <2>2, <2>3, <3>1
    <3> QED BY <2>2, <2>3, <3>1 DEF Selects, before, after, N
  <2> QED BY <2>6, <2>9, <2>10, <2>11
<1> QED BY <1>3, <1>4

--------------------------------------------------------------------------------
(* Simple regular expressions *)

Mark(atom) == ~ atom.escaped /\ IsRepeat(atom.c)

(* What an expression means: the places of the text where what each of its    *)
(* atoms stands for begins.  An anchor is at its end of the text; an atom     *)
(* stands for one character, or as many as the mark that follows allows.     *)
Denotes(atoms, str, i, b, e) ==
  /\ b <= e
  /\ Plain(atoms[i], "^") => b = 1 /\ e = 1
  /\ Plain(atoms[i], "$") => b = Len(str) + 1
  /\ Mark(atoms[i]) => e = b
  /\ ~ Plain(atoms[i], "^") /\ ~ Plain(atoms[i], "$") /\ ~ Mark(atoms[i]) =>
       /\ \A k \in b .. e - 1 : AtomMatchesChar(atoms[i], str[k])
       /\ ~ Repeated(atoms, i) => e = b + 1
       /\ Repeated(atoms, i) /\ atoms[i + 1].c = "?" => e <= b + 1
       /\ Repeated(atoms, i) /\ atoms[i + 1].c = "+" => b < e
PlacesFrom(atoms, str, a) == [a .. Len(atoms) + 1 -> 1 .. Len(str) + 1]
Laid(atoms, str, a, at) == \A i \in a .. Len(atoms) : Denotes(atoms, str, i, at[i], at[i + 1])
(* From the atom a and the place s of the text on *)
MeantAt(atoms, str, a, s) == \E at \in PlacesFrom(atoms, str, a) : at[a] = s /\ Laid(atoms, str, a, at)

(* An expression without atoms is met everywhere. *)
LEMMA MeantEnd ==
  ASSUME NEW atoms, NEW str, Len(atoms) \in Nat, Len(str) \in Nat, NEW s \in 1 .. Len(str) + 1
  PROVE  MeantAt(atoms, str, Len(atoms) + 1, s)
<1> DEFINE e == Len(atoms) + 1
           at == [i \in e .. e |-> s]
<1>1. at \in PlacesFrom(atoms, str, e) /\ at[e] = s /\ \A i \in e .. Len(atoms) : FALSE
  BY DEF PlacesFrom
<1> HIDE DEF at
<1>2. Laid(atoms, str, e, at)
  BY <1>1 DEF Laid
<1> QED BY <1>1, <1>2 DEF MeantAt

(* An expression means what its first atom denotes, and then the rest of it. *)
LEMMA MeantNext ==
  ASSUME NEW atoms, NEW str, Len(atoms) \in Nat, Len(str) \in Nat,
         NEW a \in 1 .. Len(atoms), NEW s \in 1 .. Len(str) + 1
  PROVE  MeantAt(atoms, str, a, s) <=>
           \E t \in 1 .. Len(str) + 1 : Denotes(atoms, str, a, s, t) /\ MeantAt(atoms, str, a + 1, t)
<1> DEFINE L == Len(atoms)
           N == Len(str)
<1>1. ASSUME NEW at \in PlacesFrom(atoms, str, a), at[a] = s, Laid(atoms, str, a, at)
      PROVE  \E t \in 1 .. N + 1 : Denotes(atoms, str, a, s, t) /\ MeantAt(atoms, str, a + 1, t)
  <2> DEFINE l == [i \in a + 1 .. L + 1 |-> at[i]]
  <2>1. \A i \in a + 1 .. L + 1 : i \in a .. L + 1 /\ l[i] = at[i]
    OBVIOUS
  <2>2. l \in PlacesFrom(atoms, str, a + 1)
    BY <2>1 DEF PlacesFrom
  <2>3. \A i \in a + 1 .. L : i \in a .. L /\ l[i] = at[i] /\ l[i + 1] = at[i + 1]
    OBVIOUS
  <2>4. l[a + 1] = at[a + 1] /\ a \in a .. L /\ a + 1 \in a .. L + 1
    OBVIOUS
  <2> HIDE DEF l
  <2>5. Laid(atoms, str, a + 1, l)
    BY <1>1, <2>3 DEF Laid
  <2>6. at[a + 1] \in 1 .. N + 1 /\ Denotes(atoms, str, a, s, at[a + 1])
    BY <1>1, <2>4 DEF Laid, PlacesFrom
  <2> QED BY <2>2, <2>4, <2>5, <2>6 DEF MeantAt
<1>2. ASSUME NEW t \in 1 .. N + 1, Denotes(atoms, str, a, s, t), MeantAt(atoms, str, a + 1, t)
      PROVE  MeantAt(atoms, str, a, s)
  <2>1. PICK at \in PlacesFrom(atoms, str, a + 1) : at[a + 1] = t /\ Laid(atoms, str, a + 1, at)
    BY <1>2 DEF MeantAt
  <2> DEFINE l == [i \in a .. L + 1 |-> IF i = a THEN s ELSE at[i]]
  <2>2. \A i \in a .. L + 1 : i # a => i \in a + 1 .. L + 1
    OBVIOUS
  <2>3. l \in PlacesFrom(atoms, str, a)
    BY <2>2 DEF PlacesFrom
  <2>4. l[a] = s /\ \A i \in a + 1 .. L + 1 : l[i] = at[i]
    OBVIOUS
  <2> HIDE DEF l
  <2>5. \A i \in a .. L : i + 1 \in a + 1 .. L + 1 /\ (i = a \/ (i \in a + 1 .. L /\ i \in a + 1 .. L + 1))
    OBVIOUS
  <2>6. ASSUME NEW i \in a .. L PROVE Denotes(atoms, str, i, l[i], l[i + 1])
    <3>1. CASE i = a
      BY <1>2, <2>1, <2>4, <2>5, <3>1
    <3>2. CASE i # a
      BY <2>1, <2>4, <2>5, <3>2 DEF Laid
    <3> QED BY <3>1, <3>2
  <2>7. Laid(atoms, str, a, l)
    BY <2>6 DEF Laid
  <2> QED BY <2>3, <2>4, <2>7 DEF MeantAt
<1> QED BY <1>1, <1>2 DEF MeantAt

(* An expression without "^" that is valid at its head *)
Headed(atoms) ==
  \A i \in 1 .. Len(atoms) :
    /\ ~ Plain(atoms[i], "^")
    /\ Plain(atoms[i], "$") => i = Len(atoms)
    /\ Mark(atoms[i]) => i > 1 /\ ~ Mark(atoms[i - 1]) /\ ~ Plain(atoms[i - 1], "$")

(* What MatchRegexAtHead() says of the atom a and the place s, given what it  *)
(* says of those that follow                                                 *)
HeadMatches(atoms, str, a, s, f) ==
  IF a > Len(atoms) THEN TRUE
  ELSE IF Plain(atoms[a], "$") THEN s = Len(str) + 1
  ELSE IF Repeated(atoms, a) THEN MatchRepetitionAndRegexAtHead(atoms[a], atoms[a + 1].c, str, s, f[a + 2])
  ELSE s <= Len(str) /\ AtomMatchesChar(atoms[a], str[s]) /\ s + 1 \in f[a + 1]
HeadAnswers(atoms, str, f) ==
  f = [a \in 1 .. Len(atoms) + 1 |-> {s \in 1 .. Len(str) + 1 : HeadMatches(atoms, str, a, s, f)}]

(* The answer of MatchRegexAtHead() is one that the recursion gives. *)
LEMMA HeadAnswered ==
  ASSUME NEW atoms, NEW str
  PROVE  MatchRegexAtHead(atoms, str) <=> 1 \in (CHOOSE f : HeadAnswers(atoms, str, f))[1]
BY DEF MatchRegexAtHead, HeadAnswers, HeadMatches

(* The meaning says of itself what the matching does. *)
LEMMA MeantMatches ==
  ASSUME NEW atoms, NEW str, Len(atoms) \in Nat, Len(str) \in Nat, Headed(atoms),
         NEW a \in 1 .. Len(atoms), ~ Mark(atoms[a]), NEW s \in 1 .. Len(str) + 1, NEW f,
         \A b \in a + 1 .. Len(atoms) + 1 : (b <= Len(atoms) => ~ Mark(atoms[b])) =>
           \A t \in 1 .. Len(str) + 1 : t \in f[b] <=> MeantAt(atoms, str, b, t)
  PROVE  HeadMatches(atoms, str, a, s, f) <=> MeantAt(atoms, str, a, s)
<1> DEFINE L == Len(atoms)
           N == Len(str)
           Meant(b, t) == MeantAt(atoms, str, b, t)
<1>1. Meant(a, s) <=> \E t \in 1 .. N + 1 : Denotes(atoms, str, a, s, t) /\ Meant(a + 1, t)
  BY MeantNext
<1>2. ~ Plain(atoms[a], "^") /\ (Plain(atoms[a], "$") => a = L)
  BY DEF Headed
<1>3. CASE Plain(atoms[a], "$")
  <2>1. a = L /\ ~ (a > L) /\ ~ Repeated(atoms, a)
    BY <1>2, <1>3 DEF Repeated
  <2>2. HeadMatches(atoms, str, a, s, f) <=> s = N + 1
    BY <1>3, <2>1 DEF HeadMatches
  <2>3. \A t \in 1 .. N + 1 : Meant(a + 1, t)
    BY <2>1, MeantEnd
  <2>4. \A t \in 1 .. N + 1 : Denotes(atoms, str, a, s, t) <=> s = N + 1 /\ s <= t
    BY <1>2, <1>3, Zenon DEF Denotes
  <2> QED BY <1>1, <2>2, <2>3, <2>4
<1>4. CASE ~ Plain(atoms[a], "$") /\ ~ Repeated(atoms, a)
  <2>1. a + 1 <= L => ~ Mark(atoms[a + 1])
    BY <1>4 DEF Repeated, Mark
  <2>2. \A t \in 1 .. N + 1 : t \in f[a + 1] <=> Meant(a + 1, t)
    <3>1. a + 1 \in a + 1 .. L + 1
      OBVIOUS
    <3> QED BY <2>1, <3>1
  <2>3. \A t \in 1 .. N + 1 : Denotes(atoms, str, a, s, t) <=> t = s + 1 /\ AtomMatchesChar(atoms[a], str[s])
    <3>1. \A t \in 1 .. N + 1 : Denotes(atoms, str, a, s, t) <=>
            s <= t /\ (\A k \in s .. t - 1 : AtomMatchesChar(atoms[a], str[k])) /\ t = s + 1
      BY <1>2, <1>4, Zenon DEF Denotes
    <3>2. s .. (s + 1) - 1 = {s}
      OBVIOUS
    <3> QED BY <3>1, <3>2
  <2>4. HeadMatches(atoms, str, a, s, f) <=> s <= N /\ AtomMatchesChar(atoms[a], str[s]) /\ s + 1 \in f[a + 1]
    BY <1>4 DEF HeadMatches
  <2>5. s <= N <=> s + 1 \in 1 .. N + 1
    OBVIOUS
  <2> QED BY <1>1, <2>2, <2>3, <2>4, <2>5
<1>5. CASE ~ Plain(atoms[a], "$") /\ Repeated(atoms, a)
  <2> DEFINE c == atoms[a + 1].c
             All(t) == \A k \in s .. t - 1 : AtomMatchesChar(atoms[a], str[k])
  <2>1. a + 1 \in 1 .. L /\ Mark(atoms[a + 1]) /\ c \in {"?", "*", "+"}
    BY <1>5 DEF Repeated, Mark, IsRepeat
  <2>2. a + 2 <= L => ~ Mark(atoms[a + 2])
    <3>1. a + 2 <= L => a + 2 \in 1 .. L /\ (a + 2) - 1 = a + 1
      OBVIOUS
    <3> QED BY <2>1, <3>1 DEF Headed
  <2>3. \A t \in 1 .. N + 1 : t \in f[a + 2] <=> Meant(a + 2, t)
    <3>1. a + 2 \in a + 1 .. L + 1
      BY <2>1
    <3> QED BY <2>2, <3>1
  <2>4. ~ Plain(atoms[a + 1], "^") /\ ~ Plain(atoms[a + 1], "$")
    BY <2>1 DEF Plain, Mark
  <2>5. ASSUME NEW t \in 1 .. N + 1 PROVE Meant(a + 1, t) <=> Meant(a + 2, t)
    <3>1. \A u \in 1 .. N + 1 : Denotes(atoms, str, a + 1, t, u) <=> t <= u /\ u = t
      BY <2>1, <2>4, Zenon DEF Denotes
    <3>2. (a + 1) + 1 = a + 2
      OBVIOUS
    <3>3. Meant(a + 1, t) <=> \E u \in 1 .. N + 1 : Denotes(atoms, str, a + 1, t, u) /\ Meant(a + 2, u)
      BY <2>1, <3>2, MeantNext
    <3> QED BY <3>1, <3>3
  <2>6. \A t \in 1 .. N + 1 : Denotes(atoms, str, a, s, t) <=>
          s <= t /\ All(t) /\ (c = "?" => t <= s + 1) /\ (c = "+" => s < t)
    BY <1>2, <1>5, Zenon DEF Denotes
  <2>7. HeadMatches(atoms, str, a, s, f) <=>
          \E i \in Repetitions(c, N) \intersect (0 .. N + 1 - s) : All(s + i) /\ s + i \in f[a + 2]
    BY <1>5 DEF HeadMatches, MatchRepetitionAndRegexAtHead
  <2>8. \A i : i \in Repetitions(c, N) \intersect (0 .. N + 1 - s) <=>
          i \in 0 .. N + 1 - s /\ (c = "?" => i <= 1) /\ (c = "+" => 0 < i)
    <3>1. \A i \in 0 .. N + 1 - s : i <= N
      OBVIOUS
    <3> QED BY <2>1, <3>1 DEF Repetitions
  <2> HIDE DEF c, All, Meant, N
  <2>9. \A i \in 0 .. N + 1 - s : s + i \in 1 .. N + 1 /\ s <= s + i /\ (i <= 1 <=> s + i <= s + 1) /\ (0 < i <=> s < s + i)
    BY DEF N
  <2>10. \A t \in 1 .. N + 1 : s <= t => t - s \in 0 .. N + 1 - s /\ s + (t - s) = t
    BY DEF N
  <2>11. ASSUME HeadMatches(atoms, str, a, s, f) PROVE Meant(a, s)
    <3>1. PICK i \in Repetitions(c, N) \intersect (0 .. N + 1 - s) : All(s + i) /\ s + i \in f[a + 2]
      BY <2>7, <2>11
    <3>2. i \in 0 .. N + 1 - s /\ (c = "?" => i <= 1) /\ (c = "+" => 0 < i)
      BY <2>8
    <3>3. s + i \in 1 .. N + 1 /\ Denotes(atoms, str, a, s, s + i)
      BY <2>6, <2>9, <3>1, <3>2
    <3>4. Meant(a + 1, s + i)
      BY <2>3, <2>5, <3>1, <3>3
    <3> QED BY <1>1, <3>3, <3>4
  <2>12. ASSUME Meant(a, s) PROVE HeadMatches(atoms, str, a, s, f)
    <3>1. PICK t \in 1 .. N + 1 : Denotes(atoms, str, a, s, t) /\ Meant(a + 1, t)
      BY <1>1, <2>12
    <3>2. s <= t /\ All(t) /\ (c = "?" => t <= s + 1) /\ (c = "+" => s < t) /\ t \in f[a + 2]
      BY <2>3, <2>5, <2>6, <3>1
    <3>3. t - s \in 0 .. N + 1 - s /\ s + (t - s) = t
      BY <2>10, <3>2
    <3>4. (c = "?" => t - s <= 1) /\ (c = "+" => 0 < t - s)
      BY <2>9, <3>2, <3>3
    <3>5. t - s \in Repetitions(c, N) \intersect (0 .. N + 1 - s)
      BY <2>8, <3>3, <3>4
    <3>6. All(s + (t - s)) /\ s + (t - s) \in f[a + 2]
      BY <3>2, <3>3
    <3> QED BY <2>7, <3>5, <3>6
  <2> QED BY <2>11, <2>12 DEF Meant
<1> QED BY <1>3, <1>4, <1>5

(* Where the rest of an expression can begin *)
Begins(atoms, b) == b <= Len(atoms) => ~ Mark(atoms[b])
Agrees(atoms, str, f, b) ==
  Begins(atoms, b) => \A t \in 1 .. Len(str) + 1 : t \in f[b] <=> MeantAt(atoms, str, b, t)

(* Some function is what the matching says. *)
LEMMA SomeHeadAnswer ==
  ASSUME NEW atoms, NEW str, Len(atoms) \in Nat, Len(str) \in Nat, Headed(atoms)
  PROVE  \E f : HeadAnswers(atoms, str, f)
<1> DEFINE L == Len(atoms)
           Spots == 1 .. Len(str) + 1
           g == [b \in 1 .. L + 1 |-> {t \in Spots : MeantAt(atoms, str, b, t)}]
           f == [a \in 1 .. L + 1 |-> IF Begins(atoms, a) THEN g[a] ELSE {s \in Spots : HeadMatches(atoms, str, a, s, g)}]
<1>1. \A b \in 1 .. L + 1 : g[b] = {t \in Spots : MeantAt(atoms, str, b, t)}
  OBVIOUS
<1>2. \A a \in 1 .. L + 1 : f[a] = IF Begins(atoms, a) THEN g[a] ELSE {s \in Spots : HeadMatches(atoms, str, a, s, g)}
  OBVIOUS
<1>3. f = [a \in 1 .. L + 1 |-> f[a]]
  OBVIOUS
<1> HIDE DEF f, g
<1>4. \A b \in 1 .. L + 1 : Agrees(atoms, str, f, b)
  BY <1>1, <1>2 DEF Agrees
<1>5. ASSUME NEW a \in 1 .. L + 1 PROVE f[a] = {s \in Spots : HeadMatches(atoms, str, a, s, f)}
  <2>1. CASE a = L + 1
    <3>1. Begins(atoms, a) /\ a > L
      BY <2>1 DEF Begins
    <3>2. \A s \in Spots : HeadMatches(atoms, str, a, s, f)
      BY <3>1 DEF HeadMatches
    <3>3. \A s \in Spots : MeantAt(atoms, str, a, s)
      BY <2>1, MeantEnd
    <3> QED BY <1>1, <1>2, <3>1, <3>2, <3>3
  <2>2. CASE a # L + 1 /\ Begins(atoms, a)
    <3>1. a \in 1 .. L /\ ~ Mark(atoms[a])
      BY <2>2 DEF Begins
    <3>2. \A b \in a + 1 .. L + 1 : (b <= L => ~ Mark(atoms[b])) =>
            \A t \in Spots : t \in f[b] <=> MeantAt(atoms, str, b, t)
      BY <1>4, <3>1 DEF Agrees, Begins
    <3>3. \A s \in Spots : HeadMatches(atoms, str, a, s, f) <=> MeantAt(atoms, str, a, s)
      BY <3>1, <3>2, MeantMatches
    <3> QED BY <1>1, <1>2, <2>2, <3>3
  <2>3. CASE a # L + 1 /\ ~ Begins(atoms, a)
    <3>1. a \in 1 .. L /\ Mark(atoms[a]) /\ ~ Plain(atoms[a], "$")
      BY <2>3 DEF Begins, Mark, Plain, IsRepeat
    <3>2. Begins(atoms, a + 1) /\ ~ Repeated(atoms, a)
      <4>1. a + 1 <= L => a + 1 \in 1 .. L /\ (a + 1) - 1 = a
        OBVIOUS
      <4>2. a + 1 <= L => ~ Mark(atoms[a + 1])
        BY <3>1, <4>1 DEF Headed
      <4> QED BY <4>2 DEF Begins, Repeated, Mark
    <3>3. f[a + 1] = g[a + 1]
      <4>1. a + 1 \in 1 .. L + 1
        BY <3>1
      <4> QED BY <1>2, <3>2, <4>1
    <3>4. \A s \in Spots : HeadMatches(atoms, str, a, s, f) <=> HeadMatches(atoms, str, a, s, g)
      BY <3>1, <3>2, <3>3, Zenon DEF HeadMatches
    <3> QED BY <1>2, <2>3, <3>4
  <2> QED BY <2>1, <2>2, <2>3
<1>6. HeadAnswers(atoms, str, f)
  BY <1>3, <1>5, Zenon DEF HeadAnswers
<1> QED BY <1>6

(* The matching is right for what begins at the head of a text. *)
LEMMA HeadRight ==
  ASSUME NEW atoms, NEW str, Len(atoms) \in Nat, Len(str) \in Nat, Headed(atoms)
  PROVE  MatchRegexAtHead(atoms, str) <=> MeantAt(atoms, str, 1, 1)
<1> DEFINE L == Len(atoms)
           f == CHOOSE f : HeadAnswers(atoms, str, f)
           T == {m \in 0 .. L : \A b \in L + 1 - m .. L + 1 : Agrees(atoms, str, f, b)}
<1>1. HeadAnswers(atoms, str, f)
  BY SomeHeadAnswer
<1>2. MatchRegexAtHead(atoms, str) <=> 1 \in f[1]
  BY HeadAnswered
<1> HIDE DEF f
<1>3. \A a \in 1 .. L + 1 : f[a] = {s \in 1 .. Len(str) + 1 : HeadMatches(atoms, str, a, s, f)}
  BY <1>1 DEF HeadAnswers
<1>4. 0 \in T
  <2>1. Agrees(atoms, str, f, L + 1)
    <3>1. \A s \in 1 .. Len(str) + 1 : HeadMatches(atoms, str, L + 1, s, f) /\ MeantAt(atoms, str, L + 1, s)
      BY MeantEnd DEF HeadMatches
    <3>2. L + 1 \in 1 .. L + 1
      OBVIOUS
    <3> QED BY <1>3, <3>1, <3>2 DEF Agrees
  <2>2. \A b \in L + 1 - 0 .. L + 1 : b = L + 1
    OBVIOUS
  <2> QED BY <2>1, <2>2
<1>5. ASSUME NEW m \in 0 .. L - 1, m \in T PROVE m + 1 \in T
  <2> DEFINE a == L + 1 - (m + 1)
  <2>1. a \in 1 .. L /\ m + 1 \in 0 .. L /\ \A b \in a .. L + 1 : b = a \/ b \in L + 1 - m .. L + 1
    OBVIOUS
  <2>2. \A b \in a + 1 .. L + 1 : b \in L + 1 - m .. L + 1
    OBVIOUS
  <2>3. \A b \in L + 1 - m .. L + 1 : Agrees(atoms, str, f, b)
    BY <1>5
  <2> HIDE DEF a
  <2>4. Agrees(atoms, str, f, a)
    <3> SUFFICES ASSUME ~ Mark(atoms[a])
                 PROVE  \A t \in 1 .. Len(str) + 1 : t \in f[a] <=> MeantAt(atoms, str, a, t)
      BY <2>1 DEF Agrees, Begins
    <3>1. \A b \in a + 1 .. L + 1 : (b <= L => ~ Mark(atoms[b])) =>
            \A t \in 1 .. Len(str) + 1 : t \in f[b] <=> MeantAt(atoms, str, b, t)
      BY <2>2, <2>3 DEF Agrees, Begins
    <3>2. \A t \in 1 .. Len(str) + 1 : HeadMatches(atoms, str, a, t, f) <=> MeantAt(atoms, str, a, t)
      BY <2>1, <3>1, MeantMatches
    <3>3. a \in 1 .. L + 1
      BY <2>1
    <3> QED BY <1>3, <3>2, <3>3
  <2>5. \A b \in a .. L + 1 : Agrees(atoms, str, f, b)
    BY <2>1, <2>3, <2>4
  <2> QED BY <2>1, <2>5 DEF a
<1>6. Agrees(atoms, str, f, 1)
  <2>1. \A k \in 0 .. L - 1 : k \in T => k + 1 \in T
    BY <1>5
  <2>2. L \in T
    <3> HIDE DEF T
    <3>1. 0 .. L \subseteq T
      BY <1>4, <2>1, Climb
    <3> QED BY <3>1
  <2>3. 1 \in L + 1 - L .. L + 1
    OBVIOUS
  <2> QED BY <2>2, <2>3
<1>7. Begins(atoms, 1)
  BY DEF Begins, Headed
<1> QED BY <1>2, <1>6, <1>7 DEF Agrees

(* A valid expression may begin with "^"; what is remaining can begin at the head. *)
LEMMA ValidHeaded ==
  ASSUME NEW A, NEW atoms \in Seq(A), ValidAtoms(atoms)
  PROVE  /\ atoms = <<>> \/ ~ Plain(atoms[1], "^") => Headed(atoms)
         /\ atoms # <<>> /\ Plain(atoms[1], "^") => Headed(Tail(atoms))
<1> DEFINE L == Len(atoms)
<1>1. L \in Nat /\ DOMAIN atoms = 1 .. L
  BY LenProperties
<1>2. \A i \in 1 .. L :
        /\ Plain(atoms[i], "^") => i = 1
        /\ Plain(atoms[i], "$") => i = L
        /\ Mark(atoms[i]) => /\ i - 1 > 0 /\ ~ Mark(atoms[i - 1])
                             /\ ~ Plain(atoms[i - 1], "$") /\ ~ Plain(atoms[i - 1], "^")
  BY <1>1 DEF ValidAtoms, Plain, Mark, IsRepeat
<1>3. ASSUME atoms = <<>> \/ ~ Plain(atoms[1], "^") PROVE Headed(atoms)
  <2>1. \A i \in 1 .. L : ~ Plain(atoms[i], "^")
    <3>1. CASE atoms = <<>>
      BY <3>1
    <3>2. CASE ~ Plain(atoms[1], "^")
      BY <1>2, <3>2
    <3> QED BY <1>3, <3>1, <3>2
  <2> QED BY <1>2, <2>1 DEF Headed
<1>4. ASSUME atoms # <<>>, Plain(atoms[1], "^") PROVE Headed(Tail(atoms))
  <2>1. Len(Tail(atoms)) = L - 1 /\ L - 1 \in Nat /\ \A i \in 1 .. L - 1 : Tail(atoms)[i] = atoms[i + 1]
    BY <1>1, <1>4, HeadTailProperties, EmptySeq
  <2>2. ASSUME NEW i \in 1 .. L - 1
        PROVE  /\ ~ Plain(atoms[i + 1], "^") /\ (Plain(atoms[i + 1], "$") => i = L - 1)
               /\ Mark(atoms[i + 1]) => i > 1 /\ ~ Mark(atoms[i]) /\ ~ Plain(atoms[i], "$")
    <3>1. i + 1 \in 1 .. L /\ (i + 1) - 1 = i /\ i + 1 # 1
      BY <1>1
    <3>2. Mark(atoms[i + 1]) => ~ Plain(atoms[i], "^")
      BY <1>2, <3>1
    <3>3. ~ Plain(atoms[i], "^") => i > 1
      BY <1>4
    <3>4. L \in Int /\ i \in Int
      BY <1>1
    <3>5. i + 1 = L => i = L - 1
      BY <3>4
    <3> QED BY <1>2, <3>1, <3>2, <3>3, <3>5
  <2>3. \A i \in 1 .. L - 1 : i > 1 => i - 1 \in 1 .. L - 1 /\ (i - 1) + 1 = i
    BY <1>1
  <2> QED BY <2>1, <2>2, <2>3 DEF Headed
<1> QED BY <1>3, <1>4

(* Without its "^" an expression means what it means after it. *)
LEMMA TailMeant ==
  ASSUME NEW A, NEW atoms \in Seq(A), atoms # <<>>, NEW str, Len(str) \in Nat,
         Headed(Tail(atoms)), NEW s \in 1 .. Len(str) + 1
  PROVE  MeantAt(Tail(atoms), str, 1, s) <=> MeantAt(atoms, str, 2, s)
<1> DEFINE L == Len(atoms)
           rest == Tail(atoms)
           Spots == 1 .. Len(str) + 1
<1>1. Len(rest) = L - 1 /\ L \in Nat \ {0} /\ \A i \in 1 .. L - 1 : rest[i] = atoms[i + 1]
  BY HeadTailProperties, EmptySeq
<1> HIDE DEF rest, L
<1>2. ASSUME NEW i \in 1 .. L - 1
      PROVE  \A b, e \in Spots : Denotes(rest, str, i, b, e) <=> Denotes(atoms, str, i + 1, b, e)
  <2>1. rest[i] = atoms[i + 1] /\ (i < L - 1 => rest[i + 1] = atoms[(i + 1) + 1]) /\ (i < L - 1 <=> i + 1 < L)
    BY <1>1
  <2>2. Repeated(rest, i) <=> Repeated(atoms, i + 1)
    BY <1>1, <2>1, Zenon DEF Repeated, L
  <2>3. Repeated(rest, i) => rest[i + 1] = atoms[(i + 1) + 1]
    BY <1>1, <2>1 DEF Repeated
  <2> QED BY <2>1, <2>2, <2>3 DEF Denotes
<1>3. ASSUME NEW at \in PlacesFrom(rest, str, 1), at[1] = s, Laid(rest, str, 1, at)
      PROVE  MeantAt(atoms, str, 2, s)
  <2> DEFINE to == [i \in 2 .. L + 1 |-> at[i - 1]]
  <2>0. at \in [1 .. L -> Spots]
    BY <1>1 DEF PlacesFrom
  <2>1. \A i \in 2 .. L + 1 : i - 1 \in 1 .. L
    BY <1>1
  <2>2. to \in PlacesFrom(atoms, str, 2) /\ to[2] = s
    BY <1>1, <1>3, <2>0, <2>1 DEF PlacesFrom, L
  <2>3. \A i \in 2 .. L : i - 1 \in 1 .. L - 1 /\ (i - 1) + 1 = i /\ to[i] = at[i - 1] /\ to[i + 1] = at[(i - 1) + 1]
    BY <1>1
  <2> HIDE DEF to
  <2>4. ASSUME NEW i \in 2 .. L PROVE Denotes(atoms, str, i, to[i], to[i + 1])
    <3>1. Denotes(rest, str, i - 1, at[i - 1], at[(i - 1) + 1])
      BY <1>1, <1>3, <2>3 DEF Laid
    <3>2. at[i - 1] \in Spots /\ at[(i - 1) + 1] \in Spots
      BY <1>1, <2>0, <2>3
    <3> QED BY <1>2, <2>3, <3>1, <3>2
  <2> QED BY <2>2, <2>4 DEF MeantAt, Laid, L
<1>4. ASSUME NEW at \in PlacesFrom(atoms, str, 2), at[2] = s, Laid(atoms, str, 2, at)
      PROVE  MeantAt(rest, str, 1, s)
  <2> DEFINE to == [i \in 1 .. L |-> at[i + 1]]
  <2>0. at \in [2 .. L + 1 -> Spots]
    BY DEF PlacesFrom, L
  <2>1. \A i \in 1 .. L : i + 1 \in 2 .. L + 1
    BY <1>1
  <2>2. to \in PlacesFrom(rest, str, 1) /\ to[1] = s
    BY <1>1, <1>4, <2>0, <2>1 DEF PlacesFrom
  <2>3. \A i \in 1 .. L - 1 : i + 1 \in 2 .. L /\ to[i] = at[i + 1] /\ to[i + 1] = at[(i + 1) + 1]
    BY <1>1
  <2> HIDE DEF to
  <2>4. ASSUME NEW i \in 1 .. L - 1 PROVE Denotes(rest, str, i, to[i], to[i + 1])
    <3>1. Denotes(atoms, str, i + 1, at[i + 1], at[(i + 1) + 1])
      BY <1>4, <2>3 DEF Laid, L
    <3>2. at[i + 1] \in Spots /\ at[(i + 1) + 1] \in Spots
      BY <1>1, <2>0, <2>3
    <3> QED BY <1>2, <2>3, <3>1, <3>2
  <2>5. 1 .. Len(rest) = 1 .. L - 1
    BY <1>1
  <2> QED BY <2>2, <2>4, <2>5 DEF MeantAt, Laid
<1> QED BY <1>3, <1>4 DEF MeantAt, rest

(* The places are in the order of the atoms. *)
LEMMA MeantOrdered ==
  ASSUME NEW atoms, NEW str, Len(atoms) \in Nat, Len(str) \in Nat,
         NEW at \in PlacesFrom(atoms, str, 1), Laid(atoms, str, 1, at)
  PROVE  \A i \in 1 .. Len(atoms) + 1 : at[1] <= at[i]
<1> DEFINE L == Len(atoms)
           T == {m \in 0 .. L : at[1] <= at[m + 1]}
<1>1. \A i \in 1 .. L + 1 : at[i] \in 1 .. Len(str) + 1
  BY DEF PlacesFrom
<1>2. \A i \in 1 .. L : at[i] <= at[i + 1]
  BY DEF Laid, Denotes
<1>3. 0 \in T
  BY <1>1
<1>4. ASSUME NEW m \in 0 .. L - 1, m \in T PROVE m + 1 \in T
  <2>1. m + 1 \in 1 .. L /\ m + 1 \in 0 .. L /\ m + 1 \in 1 .. L + 1 /\ (m + 1) + 1 \in 1 .. L + 1 /\ 1 \in 1 .. L + 1
    OBVIOUS
  <2>2. at[m + 1] <= at[(m + 1) + 1] /\ at[1] <= at[m + 1]
    BY <1>2, <1>4, <2>1
  <2>3. at[1] \in Int /\ at[m + 1] \in Int /\ at[(m + 1) + 1] \in Int
    BY <1>1, <2>1
  <2> QED BY <2>1, <2>2, <2>3
<1>5. 0 .. L \subseteq T
  <2>1. \A k \in 0 .. L - 1 : k \in T => k + 1 \in T
    BY <1>4
  <2> HIDE DEF T
  <2> QED BY <1>3, <2>1, Climb
<1>6. \A i \in 1 .. L + 1 : i - 1 \in 0 .. L /\ (i - 1) + 1 = i
  OBVIOUS
<1> QED BY <1>5, <1>6

(* What is meant at the head of what is remaining of the text is meant there. *)
LEMMA LaterMeant ==
  ASSUME NEW S, NEW str \in Seq(S), NEW atoms, Len(atoms) \in Nat, Headed(atoms), NEW s \in 1 .. Len(str) + 1
  PROVE  MeantAt(atoms, SubSeq(str, s, Len(str)), 1, 1) <=> MeantAt(atoms, str, 1, s)
<1> DEFINE L == Len(atoms)
           N == Len(str)
           remaining == SubSeq(str, s, N)
           M == N - s + 1
<1>0. N \in Nat /\ M \in Nat /\ s + M = N + 1
  BY LenProperties
<1>1. Len(remaining) = M /\ \A i \in 1 .. M : remaining[i] = str[s + i - 1]
  BY <1>0, Piece
<1> HIDE DEF remaining, N
<1>2. ASSUME NEW i \in 1 .. L, NEW b \in 1 .. M + 1, NEW e \in 1 .. M + 1
      PROVE  Denotes(atoms, remaining, i, b, e) <=> Denotes(atoms, str, i, s + b - 1, s + e - 1)
  <2>1. b <= e <=> s + b - 1 <= s + e - 1
    OBVIOUS
  <2>2. b = Len(remaining) + 1 <=> s + b - 1 = N + 1
    BY <1>0, <1>1
  <2>3. (e = b <=> s + e - 1 = s + b - 1) /\ (e = b + 1 <=> s + e - 1 = (s + b - 1) + 1)
        /\ (e <= b + 1 <=> s + e - 1 <= (s + b - 1) + 1) /\ (b < e <=> s + b - 1 < s + e - 1)
    OBVIOUS
  <2>4. (\A k \in b .. e - 1 : AtomMatchesChar(atoms[i], remaining[k])) <=>
          \A k \in s + b - 1 .. (s + e - 1) - 1 : AtomMatchesChar(atoms[i], str[k])
    <3>0. \A k \in b .. e - 1 : k \in 1 .. M
      BY <1>0
    <3>1. \A k \in b .. e - 1 : s + k - 1 \in s + b - 1 .. (s + e - 1) - 1 /\ remaining[k] = str[s + k - 1]
      BY <1>0, <1>1, <3>0
    <3>2. \A k \in s + b - 1 .. (s + e - 1) - 1 : k - s + 1 \in b .. e - 1 /\ s + (k - s + 1) - 1 = k
      OBVIOUS
    <3>3. \A k \in s + b - 1 .. (s + e - 1) - 1 : remaining[k - s + 1] = str[k]
      BY <3>1, <3>2
    <3> QED BY <3>1, <3>2, <3>3
  <2>5. ~ Plain(atoms[i], "^")
    BY DEF Headed
  <2> QED BY <2>1, <2>2, <2>3, <2>4, <2>5, Zenon DEF Denotes, N
<1>3. ASSUME NEW at \in PlacesFrom(atoms, remaining, 1), at[1] = 1, Laid(atoms, remaining, 1, at)
      PROVE  MeantAt(atoms, str, 1, s)
  <2> DEFINE to == [i \in 1 .. L + 1 |-> s + at[i] - 1]
  <2>1. \A i \in 1 .. L + 1 : at[i] \in 1 .. M + 1
    BY <1>1 DEF PlacesFrom
  <2>2. to \in PlacesFrom(atoms, str, 1) /\ to[1] = s
    <3>1. \A i \in 1 .. L + 1 : s + at[i] - 1 \in 1 .. N + 1
      BY <1>0, <2>1
    <3> QED BY <1>3, <3>1 DEF PlacesFrom, N
  <2>3. \A i \in 1 .. L : i + 1 \in 1 .. L + 1 /\ i \in 1 .. L + 1 /\ to[i] = s + at[i] - 1 /\ to[i + 1] = s + at[i + 1] - 1
    OBVIOUS
  <2> HIDE DEF to
  <2>4. \A i \in 1 .. L : Denotes(atoms, str, i, to[i], to[i + 1])
    BY <1>2, <1>3, <2>1, <2>3 DEF Laid
  <2> QED BY <2>2, <2>4 DEF MeantAt, Laid
<1>4. ASSUME NEW at \in PlacesFrom(atoms, str, 1), at[1] = s, Laid(atoms, str, 1, at)
      PROVE  MeantAt(atoms, remaining, 1, 1)
  <2> DEFINE to == [i \in 1 .. L + 1 |-> at[i] - s + 1]
  <2>1. \A i \in 1 .. L + 1 : at[i] \in 1 .. N + 1 /\ s <= at[i]
    BY <1>0, <1>4, MeantOrdered DEF PlacesFrom, N
  <2>2. \A i \in 1 .. L + 1 : at[i] - s + 1 \in 1 .. M + 1 /\ s + (at[i] - s + 1) - 1 = at[i]
    BY <1>0, <2>1
  <2>3. to \in PlacesFrom(atoms, remaining, 1) /\ to[1] = 1
    <3>1. to \in [1 .. L + 1 -> 1 .. M + 1]
      BY <2>2
    <3>2. 1 \in 1 .. L + 1 /\ s - s + 1 = 1
      OBVIOUS
    <3>3. to[1] = 1
      BY <1>4, <3>2
    <3> HIDE DEF to, M
    <3> QED BY <1>1, <3>1, <3>3 DEF PlacesFrom
  <2>4. \A i \in 1 .. L : i + 1 \in 1 .. L + 1 /\ i \in 1 .. L + 1 /\ to[i] = at[i] - s + 1 /\ to[i + 1] = at[i + 1] - s + 1
    OBVIOUS
  <2> HIDE DEF to
  <2>5. ASSUME NEW i \in 1 .. L PROVE Denotes(atoms, remaining, i, to[i], to[i + 1])
    <3>1. Denotes(atoms, str, i, at[i], at[i + 1])
      BY <1>4 DEF Laid
    <3>2. to[i] \in 1 .. M + 1 /\ to[i + 1] \in 1 .. M + 1 /\ s + to[i] - 1 = at[i] /\ s + to[i + 1] - 1 = at[i + 1]
      BY <2>2, <2>4
    <3> QED BY <1>2, <3>1, <3>2
  <2> QED BY <2>3, <2>5 DEF MeantAt, Laid
<1> QED BY <1>3, <1>4 DEF MeantAt, remaining, N

(* A valid expression is found in a text where it is meant, and only there.  *)
LEMMA AnywhereMatches ==
  ASSUME NEW S, NEW str \in Seq(S), NEW A, NEW atoms \in Seq(A), ValidAtoms(atoms)
  PROVE  MatchRegexAnywhere(atoms, str) <=> \E at \in PlacesFrom(atoms, str, 1) : Laid(atoms, str, 1, at)
<1> DEFINE L == Len(atoms)
           N == Len(str)
<1>1. N \in Nat /\ L \in Nat
  BY LenProperties
<1>2. (\E at \in PlacesFrom(atoms, str, 1) : Laid(atoms, str, 1, at)) <=> \E s \in 1 .. N + 1 : MeantAt(atoms, str, 1, s)
  <2>1. \A at \in PlacesFrom(atoms, str, 1) : at[1] \in 1 .. N + 1
    BY <1>1 DEF PlacesFrom
  <2> QED BY <2>1 DEF MeantAt
<1>3. CASE atoms # <<>> /\ Plain(atoms[1], "^")
  <2>1. MatchRegexAnywhere(atoms, str) <=> MatchRegexAtHead(Tail(atoms), str)
    BY <1>3 DEF MatchRegexAnywhere
  <2>2. Headed(Tail(atoms)) /\ Len(Tail(atoms)) \in Nat
    BY <1>3, ValidHeaded, HeadTailProperties, LenProperties
  <2>3. MatchRegexAtHead(Tail(atoms), str) <=> MeantAt(atoms, str, 2, 1)
    <3>1. 1 \in 1 .. N + 1
      BY <1>1
    <3> QED BY <1>1, <1>3, <2>2, <3>1, HeadRight, TailMeant
  <2>4. \A s \in 1 .. N + 1 : MeantAt(atoms, str, 1, s) <=> s = 1 /\ MeantAt(atoms, str, 2, 1)
    <3>1. 1 \in 1 .. L /\ 1 + 1 = 2 /\ 1 \in 1 .. N + 1 /\ 1 <= 1
      BY <1>1, <1>3, EmptySeq
    <3>2. ~ Plain(atoms[1], "$") /\ ~ Mark(atoms[1])
      BY <1>3 DEF Plain, Mark, IsRepeat
    <3>3. \A s, t \in 1 .. N + 1 : Denotes(atoms, str, 1, s, t) <=> s <= t /\ s = 1 /\ t = 1
      BY <1>3, <3>2, Zenon DEF Denotes
    <3>4. \A s \in 1 .. N + 1 : MeantAt(atoms, str, 1, s) <=>
            \E t \in 1 .. N + 1 : Denotes(atoms, str, 1, s, t) /\ MeantAt(atoms, str, 1 + 1, t)
      BY <1>1, <3>1, MeantNext
    <3> QED BY <3>1, <3>3, <3>4
  <2>5. 1 \in 1 .. N + 1
    BY <1>1
  <2> QED BY <1>2, <2>1, <2>3, <2>4, <2>5
<1>4. CASE ~ (atoms # <<>> /\ Plain(atoms[1], "^"))
  <2>1. Headed(atoms)
    BY <1>4, ValidHeaded
  <2>2. MatchRegexAnywhere(atoms, str) <=> \E s \in 1 .. N + 1 : MatchRegexAtHead(atoms, SubSeq(str, s, N))
    BY <1>4 DEF MatchRegexAnywhere
  <2>3. ASSUME NEW s \in 1 .. N + 1
        PROVE  MatchRegexAtHead(atoms, SubSeq(str, s, N)) <=> MeantAt(atoms, str, 1, s)
    <3>1. SubSeq(str, s, N) \in Seq(S)
      <4>1. N \in s - 1 .. N
        BY <1>1
      <4> QED BY <4>1, Piece
    <3>2. Len(SubSeq(str, s, N)) \in Nat
      BY <3>1, LenProperties
    <3> QED BY <1>1, <2>1, <3>2, HeadRight, LaterMeant
  <2> QED BY <1>2, <2>2, <2>3
<1> QED BY <1>3, <1>4

(* What is read of an expression from i on *)
AtomsFrom(regex, i, atoms) ==
  IF i > Len(regex) THEN <<>>
  ELSE IF regex[i] # "\\" THEN <<[escaped |-> FALSE, c |-> regex[i]]>> \o atoms[i + 1]
  ELSE IF i = Len(regex) THEN <<[escaped |-> TRUE, c |-> "end"]>>
  ELSE <<[escaped |-> TRUE, c |-> regex[i + 1]]>> \o atoms[i + 2]

(* Some function is what is read from every place on. *)
LEMMA SomeAtoms ==
  ASSUME NEW regex, Len(regex) \in Nat
  PROVE  \E f : f = [i \in 1 .. Len(regex) + 1 |-> AtomsFrom(regex, i, f)]
<1> DEFINE N == Len(regex)
           E(i, f) == AtomsFrom(regex, i, f)
           T == {m \in 0 .. N : \E f : f = [i \in N + 1 - m .. N + 1 |-> E(i, f)]}
<1>1. 0 \in T
  <2> DEFINE f == [i \in N + 1 - 0 .. N + 1 |-> <<>>]
  <2>1. \A i \in N + 1 - 0 .. N + 1 : i > N
    OBVIOUS
  <2>2. f = [i \in N + 1 - 0 .. N + 1 |-> E(i, f)]
    BY <2>1 DEF AtomsFrom
  <2> HIDE DEF f
  <2> QED BY <2>2
<1>2. ASSUME NEW m \in 0 .. N - 1, m \in T PROVE m + 1 \in T
  <2>1. PICK f : f = [i \in N + 1 - m .. N + 1 |-> E(i, f)]
    BY <1>2
  <2> DEFINE b == N + 1 - (m + 1)
             g == [i \in b .. N + 1 |-> IF i = b THEN E(b, f) ELSE f[i]]
  <2>2. b \in 1 .. N /\ \A i \in b .. N + 1 : i = b \/ i \in N + 1 - m .. N + 1
    OBVIOUS
  <2>3. \A i \in N + 1 - m .. N + 1 : g[i] = f[i]
    OBVIOUS
  <2> HIDE DEF g
  <2>4. ASSUME NEW i \in b .. N + 1 PROVE E(i, g) = E(i, f)
    <3>1. CASE i > N
      BY <3>1 DEF AtomsFrom
    <3>2. CASE i = N
      <4>1. i + 1 \in N + 1 - m .. N + 1
        BY <2>2, <3>2
      <4>2. g[i + 1] = f[i + 1]
        BY <2>3, <4>1
      <4> QED BY <3>2, <4>2 DEF AtomsFrom
    <3>3. CASE i < N
      <4>1. i + 1 \in N + 1 - m .. N + 1 /\ i + 2 \in N + 1 - m .. N + 1
        BY <2>2, <3>3
      <4>2. g[i + 1] = f[i + 1] /\ g[i + 2] = f[i + 2]
        BY <2>3, <4>1
      <4> QED BY <4>2 DEF AtomsFrom
    <3> QED BY <2>2, <3>1, <3>2, <3>3
  <2>5. \A i \in b .. N + 1 : g[i] = E(i, f)
    <3> HIDE DEF E
    <3> QED BY <2>1, <2>2 DEF g
  <2>6. g = [i \in b .. N + 1 |-> E(i, g)]
    <3>1. g = [i \in b .. N + 1 |-> g[i]]
      BY DEF g
    <3> HIDE DEF E
    <3> QED BY <2>4, <2>5, <3>1
  <2> HIDE DEF E
  <2> QED BY <2>6
<1>3. N \in T
  <2>1. \A k \in 0 .. N - 1 : k \in T => k + 1 \in T
    BY <1>2
  <2> HIDE DEF T
  <2>2. 0 .. N \subseteq T
    BY <1>1, <2>1, Climb
  <2> QED BY <2>2
<1>4. N + 1 - N = 1
  OBVIOUS
<1> QED BY <1>3, <1>4

Atom(S) == [escaped : BOOLEAN, c : S \union {"end"}]

(* What is read of an expression from each place on *)
Readings(regex) == CHOOSE f : f = [i \in 1 .. Len(regex) + 1 |-> AtomsFrom(regex, i, f)]
(* That is the reading from each place, and gives atoms. *)
LEMMA Read ==
  ASSUME NEW S, NEW regex \in Seq(S)
  PROVE  /\ Atoms(regex) = Readings(regex)[1]
         /\ \A i \in 1 .. Len(regex) + 1 :
              /\ Readings(regex)[i] = AtomsFrom(regex, i, Readings(regex))
              /\ Readings(regex)[i] \in Seq(Atom(S))
<1> DEFINE N == Len(regex)
           f == Readings(regex)
           G == {i \in 1 .. N + 1 : f[i] \in Seq(Atom(S))}
<1>0. N \in Nat /\ \A i \in 1 .. N : regex[i] \in S
  BY LenProperties
<1>1. f = [i \in 1 .. N + 1 |-> AtomsFrom(regex, i, f)]
  BY <1>0, SomeAtoms DEF Readings
<1>2. Atoms(regex) = f[1]
  BY DEF Atoms, AtomsFrom, Readings
<1> HIDE DEF f
<1>3. \A i \in 1 .. N + 1 : f[i] = AtomsFrom(regex, i, f)
  BY <1>1
<1>4. ASSUME NEW atom \in Atom(S) PROVE <<atom>> \in Seq(Atom(S)) /\ \A s \in Seq(Atom(S)) : <<atom>> \o s \in Seq(Atom(S))
  <2>1. <<atom>> \in Seq(Atom(S))
    OBVIOUS
  <2> QED BY <2>1, ConcatProperties
<1>5. ASSUME NEW i \in 1 .. N + 1, i + 1 .. N + 1 \subseteq G PROVE i \in G
  <2>0. f[i] = AtomsFrom(regex, i, f) /\ \A j \in i + 1 .. N + 1 : f[j] \in Seq(Atom(S))
    BY <1>3, <1>5
  <2>1. CASE i > N
    <3>1. <<>> \in Seq(Atom(S))
      BY EmptySeq
    <3> QED BY <2>0, <2>1, <3>1 DEF AtomsFrom
  <2>2. CASE i = N
    <3>1. i + 1 \in i + 1 .. N + 1 /\ i \in 1 .. N /\ ~ (i > N)
      BY <1>0, <2>2
    <3>2. [escaped |-> FALSE, c |-> regex[i]] \in Atom(S) /\ [escaped |-> TRUE, c |-> "end"] \in Atom(S)
      BY <1>0, <3>1 DEF Atom
    <3>3. f[i] \in Seq(Atom(S))
      BY <1>4, <2>0, <2>2, <3>1, <3>2, Zenon DEF AtomsFrom
    <3> QED BY <3>3
  <2>3. CASE i < N
    <3>1. i + 1 \in i + 1 .. N + 1 /\ i + 2 \in i + 1 .. N + 1 /\ i \in 1 .. N /\ i + 1 \in 1 .. N /\ ~ (i > N) /\ i # N
      BY <1>0, <2>3
    <3>2. [escaped |-> FALSE, c |-> regex[i]] \in Atom(S) /\ [escaped |-> TRUE, c |-> regex[i + 1]] \in Atom(S)
      BY <1>0, <3>1 DEF Atom
    <3>3. f[i] \in Seq(Atom(S))
      BY <1>4, <2>0, <3>1, <3>2, Zenon DEF AtomsFrom
    <3> QED BY <3>3
  <2> QED BY <1>0, <2>1, <2>2, <2>3
<1>6. 1 .. N + 1 \subseteq G
  <2> HIDE DEF G
  <2> QED BY <1>0, <1>5, Backwards
<1> QED BY <1>2, <1>3, <1>6 DEF f

(* An expression is read as a sequence of atoms. *)
LEMMA AtomsRead ==
  ASSUME NEW S, NEW regex \in Seq(S)
  PROVE  Atoms(regex) \in Seq(Atom(S))
<1>1. 1 \in 1 .. Len(regex) + 1
  BY LenProperties
<1> QED BY <1>1, Read

(* Whatever the text and the expression: an expression is found in a text if  *)
(* it is valid, and places of the text can be told where what each of its    *)
(* atoms stands for begins, anchors and repetitions included, and only then  *)
(* (gtest-port.cc, PartialMatch and MatchRegexAnywhere).                     *)
THEOREM RegexesMatch ==
  ASSUME NEW S, NEW str \in Seq(S), NEW regex \in Seq(S)
  PROVE  PartialMatch(str, regex) <=>
           /\ ValidateRegex(regex)
           /\ \E at \in PlacesFrom(Atoms(regex), str, 1) : Laid(Atoms(regex), str, 1, at)
BY AtomsRead, AnywhereMatches DEF PartialMatch, ValidateRegex

Caret == [escaped |-> FALSE, c |-> "^"]
Dollar == [escaped |-> FALSE, c |-> "$"]
AtTheEnd == [escaped |-> TRUE, c |-> "end"]

(* Without a backslash at its end an expression ends in the character that   *)
(* its last atom is of.                                                      *)
LEMMA LastRead ==
  ASSUME NEW S, NEW regex \in Seq(S), regex # <<>>
  PROVE  /\ Atoms(regex) # <<>> /\ (regex[1] = "^" <=> Plain(Atoms(regex)[1], "^"))
         /\ \/ Last(Atoms(regex)) = AtTheEnd
            \/ Last(Atoms(regex)).c = Last(regex)
<1> DEFINE N == Len(regex)
           f == Readings(regex)
           Ends(s) == Len(s) > 0 /\ (s[Len(s)] = AtTheEnd \/ s[Len(s)].c = regex[N])
           G == {i \in 1 .. N + 1 : i <= N => Ends(f[i])}
<1>0. N \in Nat \ {0} /\ \A i \in 1 .. N : regex[i] \in S
  BY EmptySeq, LenProperties
<1>1. Atoms(regex) = f[1] /\ \A i \in 1 .. N + 1 : f[i] = AtomsFrom(regex, i, f) /\ f[i] \in Seq(Atom(S))
  BY Read
<1> HIDE DEF f
<1>2. ASSUME NEW atom \in Atom(S), NEW s \in Seq(Atom(S))
      PROVE  /\ (<<atom>> \o s)[1] = atom /\ Len(<<atom>> \o s) > 0
             /\ s = <<>> => (<<atom>> \o s)[Len(<<atom>> \o s)] = atom
             /\ Ends(s) => Ends(<<atom>> \o s)
  <2>1. <<atom>> \in Seq(Atom(S)) /\ Len(<<atom>>) = 1 /\ <<atom>>[1] = atom /\ Len(s) \in Nat
    BY LenProperties
  <2>2. Len(<<atom>> \o s) = 1 + Len(s) /\ (<<atom>> \o s)[1] = atom
        /\ (Len(s) > 0 => (<<atom>> \o s)[1 + Len(s)] = s[Len(s)])
    <3>1. Len(<<atom>> \o s) = 1 + Len(s) /\ \A i \in 1 .. 1 + Len(s) :
            (<<atom>> \o s)[i] = IF i <= 1 THEN <<atom>>[i] ELSE s[i - 1]
      BY <2>1, ConcatProperties
    <3>2. 1 \in 1 .. 1 + Len(s) /\ 1 + Len(s) \in 1 .. 1 + Len(s) /\ (1 + Len(s)) - 1 = Len(s)
          /\ (Len(s) > 0 => ~ (1 + Len(s) <= 1))
      BY <2>1
    <3>3. 1 <= 1
      OBVIOUS
    <3>4. (<<atom>> \o s)[1] = IF 1 <= 1 THEN <<atom>>[1] ELSE s[1 - 1]
      BY <3>1, <3>2
    <3>5. (<<atom>> \o s)[1 + Len(s)] = IF 1 + Len(s) <= 1 THEN <<atom>>[1 + Len(s)] ELSE s[Len(s)]
      BY <3>1, <3>2
    <3> QED BY <2>1, <3>1, <3>2, <3>3, <3>4, <3>5
  <2> QED BY <2>1, <2>2
<1>3. ASSUME NEW i \in 1 .. N + 1, i + 1 .. N + 1 \subseteq G PROVE i \in G
  <2>0. f[i] = AtomsFrom(regex, i, f) /\ \A j \in i + 1 .. N + 1 : f[j] \in Seq(Atom(S)) /\ (j <= N => Ends(f[j]))
    BY <1>1, <1>3
  <2>1. CASE i > N
    BY <2>1
  <2>2. CASE i = N
    <3>1. i + 1 \in 1 .. N + 1 /\ i + 1 > N /\ i \in 1 .. N /\ ~ (i > N)
      BY <1>0, <2>2
    <3>2. f[i + 1] = <<>> /\ f[i + 1] \in Seq(Atom(S))
      BY <1>1, <3>1 DEF AtomsFrom
    <3>3. [escaped |-> FALSE, c |-> regex[i]] \in Atom(S) /\ AtTheEnd \in Atom(S)
      BY <1>0, <3>1 DEF Atom, AtTheEnd
    <3>4. CASE regex[i] # "\\"
      <4>1. f[i] = <<[escaped |-> FALSE, c |-> regex[i]]>> \o f[i + 1]
        BY <2>0, <3>1, <3>4 DEF AtomsFrom
      <4>2. Ends(f[i])
        BY <1>2, <2>2, <3>2, <3>3, <4>1
      <4> QED BY <4>2
    <3>5. CASE regex[i] = "\\"
      <4>1. f[i] = <<AtTheEnd>>
        BY <2>0, <2>2, <3>1, <3>5 DEF AtomsFrom, AtTheEnd
      <4>2. Ends(f[i])
        BY <4>1
      <4> QED BY <4>2
    <3> QED BY <3>4, <3>5
  <2>3. CASE i < N
    <3>1. i + 1 \in i + 1 .. N + 1 /\ i + 2 \in i + 1 .. N + 1 /\ i \in 1 .. N /\ i + 1 \in 1 .. N /\ ~ (i > N) /\ i # N
      BY <1>0, <2>3
    <3>2. [escaped |-> FALSE, c |-> regex[i]] \in Atom(S) /\ [escaped |-> TRUE, c |-> regex[i + 1]] \in Atom(S)
      BY <1>0, <3>1 DEF Atom
    <3>3. CASE regex[i] # "\\"
      <4> DEFINE atom == [escaped |-> FALSE, c |-> regex[i]]
                 s == f[i + 1]
      <4>1. f[i] = <<atom>> \o s
        BY <2>0, <3>1, <3>3 DEF AtomsFrom
      <4>2. i + 1 <= N
        BY <3>1
      <4> HIDE DEF Ends
      <4>3. atom \in Atom(S) /\ s \in Seq(Atom(S)) /\ Ends(s)
        BY <2>0, <3>1, <3>2, <4>2
      <4> HIDE DEF atom, s
      <4>4. Ends(<<atom>> \o s)
        BY <1>2, <4>3
      <4> QED BY <4>1, <4>4
    <3>4. CASE regex[i] = "\\"
      <4>1. f[i] = <<[escaped |-> TRUE, c |-> regex[i + 1]]>> \o f[i + 2]
        BY <2>0, <3>1, <3>4 DEF AtomsFrom
      <4>2. CASE i + 2 <= N
        <5> DEFINE atom == [escaped |-> TRUE, c |-> regex[i + 1]]
                   s == f[i + 2]
        <5>1. f[i] = <<atom>> \o s
          BY <4>1
        <5> HIDE DEF Ends
        <5>2. atom \in Atom(S) /\ s \in Seq(Atom(S)) /\ Ends(s)
          BY <2>0, <3>1, <3>2, <4>2
        <5> HIDE DEF atom, s
        <5>3. Ends(<<atom>> \o s)
          BY <1>2, <5>2
        <5> QED BY <5>1, <5>3
      <4>3. CASE i + 2 > N
        <5>1. i + 1 = N /\ i + 2 \in 1 .. N + 1
          BY <1>0, <2>3, <4>3
        <5>2. f[i + 2] = <<>> /\ f[i + 2] \in Seq(Atom(S))
          BY <1>1, <4>3, <5>1 DEF AtomsFrom
        <5>3. Ends(f[i])
          BY <1>2, <3>2, <4>1, <5>1, <5>2
        <5> QED BY <5>3
      <4> QED BY <1>0, <4>2, <4>3
    <3> QED BY <3>3, <3>4
  <2> QED BY <1>0, <2>1, <2>2, <2>3
<1>4. 1 .. N + 1 \subseteq G
  <2> HIDE DEF G
  <2> QED BY <1>0, <1>3, Backwards
<1>5. 1 \in G /\ 1 \in 1 .. N /\ 1 \in 1 .. N + 1 /\ ~ (1 > N)
  BY <1>0, <1>4
<1>6. Len(f[1]) > 0 /\ (f[1][Len(f[1])] = AtTheEnd \/ f[1][Len(f[1])].c = regex[N])
  BY <1>5
<1>7. f[1] # <<>>
  BY <1>6
<1>8. regex[1] = "^" <=> Plain(f[1][1], "^")
  <2>0. f[1] = AtomsFrom(regex, 1, f)
    BY <1>1, <1>5
  <2>1. CASE regex[1] # "\\"
    <3>1. f[1] = <<[escaped |-> FALSE, c |-> regex[1]]>> \o f[1 + 1]
      BY <1>5, <2>0, <2>1 DEF AtomsFrom
    <3>2. [escaped |-> FALSE, c |-> regex[1]] \in Atom(S) /\ 1 + 1 \in 1 .. N + 1
      BY <1>0, <1>5 DEF Atom
    <3>3. f[1][1] = [escaped |-> FALSE, c |-> regex[1]]
      BY <1>1, <1>2, <3>1, <3>2
    <3> QED BY <3>3 DEF Plain
  <2>2. CASE regex[1] = "\\" /\ 1 = N
    <3>1. f[1] = <<AtTheEnd>>
      BY <1>5, <2>0, <2>2 DEF AtomsFrom, AtTheEnd
    <3>2. f[1][1] = AtTheEnd
      BY <3>1
    <3> QED BY <2>2, <3>2 DEF Plain, AtTheEnd
  <2>3. CASE regex[1] = "\\" /\ 1 # N
    <3>1. f[1] = <<[escaped |-> TRUE, c |-> regex[1 + 1]]>> \o f[1 + 2]
      BY <1>5, <2>0, <2>3 DEF AtomsFrom
    <3>2. [escaped |-> TRUE, c |-> regex[1 + 1]] \in Atom(S) /\ 1 + 2 \in 1 .. N + 1
      <4>0. \A n \in Nat \ {0} : n # 1 => 1 + 1 \in 1 .. n /\ 1 + 2 \in 1 .. n + 1
        OBVIOUS
      <4>1. 1 + 1 \in 1 .. N /\ 1 + 2 \in 1 .. N + 1
        BY <1>0, <2>3, <4>0, Zenon
      <4> QED BY <1>0, <4>1 DEF Atom
    <3>3. f[1][1] = [escaped |-> TRUE, c |-> regex[1 + 1]]
      BY <1>1, <1>2, <3>1, <3>2
    <3> QED BY <2>3, <3>3 DEF Plain
  <2> QED BY <2>1, <2>2, <2>3
<1> QED BY <1>1, <1>6, <1>7, <1>8 DEF Last

Whole(atoms) == \A k \in DOMAIN atoms : atoms[k] # AtTheEnd

(* An expression within another is read as it is read alone.                 *)
LEMMA ReadWithin ==
  ASSUME NEW S, NEW regex \in Seq(S), NEW within \in Seq(S), Whole(Atoms(regex)),
         NEW d \in Nat, d + Len(regex) <= Len(within), \A i \in 1 .. Len(regex) : within[d + i] = regex[i]
  PROVE  Readings(within)[d + 1] = Atoms(regex) \o Readings(within)[d + Len(regex) + 1]
<1> DEFINE N == Len(regex)
           M == Len(within)
           f == Readings(regex)
           g == Readings(within)
           tail == g[d + N + 1]
           G == {i \in 1 .. N + 1 : Whole(f[i]) => g[d + i] = f[i] \o tail}
<1>0. N \in Nat /\ M \in Nat /\ \A i \in 1 .. N : regex[i] \in S
  BY LenProperties
<1>1. Atoms(regex) = f[1] /\ \A i \in 1 .. N + 1 : f[i] = AtomsFrom(regex, i, f) /\ f[i] \in Seq(Atom(S))
  BY Read
<1>2. \A i \in 1 .. M + 1 : g[i] = AtomsFrom(within, i, g) /\ g[i] \in Seq(Atom(S))
  BY Read
<1> HIDE DEF f, g
<1>3. tail \in Seq(Atom(S))
  <2>1. d + N + 1 \in 1 .. M + 1
    BY <1>0
  <2> QED BY <1>2, <2>1
<1> HIDE DEF tail, N, M
<1>4. ASSUME NEW atom \in Atom(S), NEW s \in Seq(Atom(S)), Whole(<<atom>> \o s)
      PROVE  Whole(s) /\ (<<atom>> \o s) \o tail = <<atom>> \o (s \o tail)
  <2>1. <<atom>> \in Seq(Atom(S)) /\ Len(<<atom>>) = 1 /\ Len(s) \in Nat /\ DOMAIN s = 1 .. Len(s)
    BY LenProperties
  <2>2. <<atom>> \o s \in Seq(Atom(S)) /\ Len(<<atom>> \o s) = 1 + Len(s)
        /\ \A i \in 1 .. 1 + Len(s) : (<<atom>> \o s)[i] = IF i <= 1 THEN <<atom>>[i] ELSE s[i - 1]
    BY <2>1, ConcatProperties
  <2>3. DOMAIN (<<atom>> \o s) = 1 .. 1 + Len(s)
    BY <2>2, LenProperties
  <2>4. \A k \in 1 .. Len(s) : k + 1 \in 1 .. 1 + Len(s) /\ ~ (k + 1 <= 1) /\ (k + 1) - 1 = k
    BY <2>1
  <2>5. \A k \in 1 .. Len(s) : s[k] = (<<atom>> \o s)[k + 1]
    BY <2>2, <2>4
  <2>6. Whole(s)
    BY <1>4, <2>1, <2>3, <2>4, <2>5 DEF Whole
  <2>7. (<<atom>> \o s) \o tail = <<atom>> \o (s \o tail)
    BY <1>3, <2>1, ConcatAssociative
  <2> QED BY <2>6, <2>7
<1>5. ASSUME NEW i \in 1 .. N + 1, i + 1 .. N + 1 \subseteq G, Whole(f[i]) PROVE g[d + i] = f[i] \o tail
  <2>0. /\ f[i] = AtomsFrom(regex, i, f) /\ f[i] \in Seq(Atom(S))
        /\ \A j \in i + 1 .. N + 1 : f[j] \in Seq(Atom(S)) /\ (Whole(f[j]) => g[d + j] = f[j] \o tail)
    BY <1>0, <1>1, <1>5 DEF N
  <2>1. CASE i > N
    <3>1. f[i] = <<>> /\ d + i = d + N + 1
      BY <1>0, <2>0, <2>1 DEF AtomsFrom, N
    <3>2. g[d + i] = tail
      BY <3>1 DEF tail
    <3> QED BY <1>3, <3>1, <3>2, ConcatEmptySeq
  <2>2. CASE i <= N
    <3>1. /\ i \in 1 .. N /\ ~ (i > N) /\ i + 1 \in i + 1 .. N + 1
          /\ (i # N => i + 2 \in i + 1 .. N + 1 /\ i + 1 \in 1 .. N)
      BY <1>0, <2>2
    <3>2. /\ d + i \in 1 .. M + 1 /\ ~ (d + i > M) /\ (i # N => d + i # M)
          /\ (d + i) + 1 = d + (i + 1) /\ (d + i) + 2 = d + (i + 2)
      BY <1>0, <2>2 DEF N, M
    <3>3. within[d + i] = regex[i] /\ (i # N => within[(d + i) + 1] = regex[i + 1])
      <4>1. within[d + i] = regex[i] /\ (i # N => within[d + (i + 1)] = regex[i + 1])
        BY <3>1 DEF N
      <4> QED BY <3>2, <4>1, Zenon
    <3>4. g[d + i] = AtomsFrom(within, d + i, g)
      BY <1>2, <3>2
    <3>5. CASE regex[i] # "\\"
      <4> DEFINE atom == [escaped |-> FALSE, c |-> regex[i]]
      <4>1. atom \in Atom(S)
        BY <1>0, <3>1 DEF Atom
      <4>2. f[i] = <<atom>> \o f[i + 1]
        BY <2>0, <3>1, <3>5, Zenon DEF AtomsFrom, N
      <4>3. g[d + i] = <<atom>> \o g[d + (i + 1)]
        BY <3>2, <3>3, <3>4, <3>5, Zenon DEF AtomsFrom, M
      <4> HIDE DEF atom
      <4>4. Whole(f[i + 1]) /\ f[i] \o tail = <<atom>> \o (f[i + 1] \o tail)
        <5>1. f[i + 1] \in Seq(Atom(S)) /\ Whole(<<atom>> \o f[i + 1])
          BY <1>5, <2>0, <3>1, <4>2
        <5>2. Whole(f[i + 1]) /\ (<<atom>> \o f[i + 1]) \o tail = <<atom>> \o (f[i + 1] \o tail)
          BY <1>4, <4>1, <5>1
        <5> QED BY <4>2, <5>2
      <4> QED BY <2>0, <3>1, <4>3, <4>4
    <3>6. CASE regex[i] = "\\" /\ i = N
      <4>1. f[i] = <<AtTheEnd>>
        BY <2>0, <3>1, <3>6, Zenon DEF AtomsFrom, AtTheEnd, N
      <4>2. 1 \in DOMAIN f[i] /\ f[i][1] = AtTheEnd
        BY <4>1
      <4> QED BY <1>5, <4>2 DEF Whole
    <3>7. CASE regex[i] = "\\" /\ i # N
      <4> DEFINE atom == [escaped |-> TRUE, c |-> regex[i + 1]]
      <4>1. atom \in Atom(S)
        BY <1>0, <3>1, <3>7 DEF Atom
      <4>2. f[i] = <<atom>> \o f[i + 2]
        BY <2>0, <3>1, <3>7, Zenon DEF AtomsFrom, N
      <4>3. g[d + i] = <<atom>> \o g[d + (i + 2)]
        BY <3>2, <3>3, <3>4, <3>7, Zenon DEF AtomsFrom, M
      <4> HIDE DEF atom
      <4>4. Whole(f[i + 2]) /\ f[i] \o tail = <<atom>> \o (f[i + 2] \o tail)
        <5>1. f[i + 2] \in Seq(Atom(S)) /\ Whole(<<atom>> \o f[i + 2])
          BY <1>5, <2>0, <3>1, <3>7, <4>2
        <5>2. Whole(f[i + 2]) /\ (<<atom>> \o f[i + 2]) \o tail = <<atom>> \o (f[i + 2] \o tail)
          BY <1>4, <4>1, <5>1
        <5> QED BY <4>2, <5>2
      <4> QED BY <2>0, <3>1, <3>7, <4>3, <4>4
    <3> QED BY <3>5, <3>6, <3>7
  <2> QED BY <1>0, <2>1, <2>2
<1>6. 1 .. N + 1 \subseteq G
  <2>1. \A i \in 1 .. N + 1 : i + 1 .. N + 1 \subseteq G => i \in G
    BY <1>5
  <2> HIDE DEF G
  <2> QED BY <1>0, <2>1, Backwards
<1>7. 1 \in G
  BY <1>0, <1>6
<1> QED BY <1>1, <1>7 DEF tail, f, g, N

(* What RE::Init() adds to an expression is read before and after it.        *)
Opening(regex) == IF regex = <<>> \/ regex[1] # "^" THEN <<Caret>> ELSE <<>>
Closing(regex) == IF regex = <<>> \/ Last(regex) # "$" THEN <<Dollar>> ELSE <<>>
(* The atoms of what a full match is tried with *)
LEMMA FullRead ==
  ASSUME NEW S, NEW regex \in Seq(S), Whole(Atoms(regex)), "^" \in S, "$" \in S
  PROVE  FullPattern(regex) \in Seq(S) /\ Atoms(FullPattern(regex)) = Opening(regex) \o (Atoms(regex) \o Closing(regex))
<1> DEFINE N == Len(regex)
           before == IF regex = <<>> \/ regex[1] # "^" THEN <<"^">> ELSE <<>>
           after == IF regex = <<>> \/ Last(regex) # "$" THEN <<"$">> ELSE <<>>
           d == Len(before)
           e == Len(after)
           full == FullPattern(regex)
           g == Readings(full)
<1>1. before \in Seq(S) /\ after \in Seq(S) /\ N \in Nat /\ d \in {0, 1} /\ e \in {0, 1}
  <2>1. <<"^">> \in Seq(S) /\ <<"$">> \in Seq(S) /\ <<>> \in Seq(S)
    OBVIOUS
  <2>2. Len(<<"^">>) = 1 /\ Len(<<"$">>) = 1 /\ Len(<<>>) = 0
    OBVIOUS
  <2> QED BY <2>1, <2>2, LenProperties
<1>2. (d = 1 => before[1] = "^" /\ Opening(regex) = <<Caret>>) /\ (d = 0 => Opening(regex) = <<>>)
  <2>1. CASE regex = <<>> \/ regex[1] # "^"
    BY <2>1 DEF Opening
  <2>2. CASE ~ (regex = <<>> \/ regex[1] # "^")
    BY <2>2 DEF Opening
  <2> QED BY <2>1, <2>2
<1>3. (e = 1 => after[1] = "$" /\ Closing(regex) = <<Dollar>>) /\ (e = 0 => Closing(regex) = <<>>)
  <2>1. CASE regex = <<>> \/ Last(regex) # "$"
    BY <2>1 DEF Closing
  <2>2. CASE ~ (regex = <<>> \/ Last(regex) # "$")
    BY <2>2 DEF Closing
  <2> QED BY <2>1, <2>2
<1>4. full = (before \o regex) \o after
  BY DEF FullPattern
<1> HIDE DEF before, after, full
<1>5. /\ before \o regex \in Seq(S) /\ Len(before \o regex) = d + N
      /\ \A i \in 1 .. d + N : (before \o regex)[i] = IF i <= d THEN before[i] ELSE regex[i - d]
  BY <1>1, ConcatProperties
<1>6. /\ full \in Seq(S) /\ Len(full) = d + N + e
      /\ \A i \in 1 .. d + N + e :
           full[i] = IF i <= d + N THEN (before \o regex)[i] ELSE after[i - (d + N)]
  BY <1>1, <1>4, <1>5, ConcatProperties
<1> HIDE DEF d, e, N
<1>7. \A i \in 1 .. N : full[d + i] = regex[i]
  <2>1. \A i \in 1 .. N : d + i \in 1 .. d + N + e /\ d + i \in 1 .. d + N /\ d + i <= d + N /\ ~ (d + i <= d) /\ (d + i) - d = i
    BY <1>1
  <2> QED BY <1>5, <1>6, <2>1
<1>8. /\ d = 1 => full[1] = "^" /\ ~ (1 > d + N + e)
      /\ e = 1 => full[d + N + 1] = "$" /\ ~ (d + N + 1 > d + N + e)
  <2>1. d = 1 => 1 \in 1 .. d + N + e /\ 1 \in 1 .. d + N /\ 1 <= d + N /\ 1 <= d
    BY <1>1
  <2>2. e = 1 => d + N + 1 \in 1 .. d + N + e /\ ~ (d + N + 1 <= d + N) /\ (d + N + 1) - (d + N) = 1
    BY <1>1
  <2>3. ASSUME d = 1 PROVE full[1] = "^" /\ ~ (1 > d + N + e)
    <3>1. full[1] = (before \o regex)[1]
      BY <1>6, <1>1, <2>1, <2>3
    <3>2. (before \o regex)[1] = before[1]
      BY <1>5, <2>1, <2>3
    <3> QED BY <1>1, <1>2, <2>3, <3>1, <3>2
  <2>4. ASSUME e = 1 PROVE full[d + N + 1] = "$" /\ ~ (d + N + 1 > d + N + e)
    BY <1>1, <1>3, <1>6, <2>2, <2>4
  <2> QED BY <2>3, <2>4
<1>9. /\ Atoms(full) = g[1]
      /\ \A i \in 1 .. d + N + e + 1 : g[i] = AtomsFrom(full, i, g) /\ g[i] \in Seq(Atom(S))
  BY <1>6, Read
<1>10. g[d + 1] = Atoms(regex) \o g[d + N + 1]
  <2>1. d + N <= d + N + e /\ d \in Nat
    BY <1>1
  <2> QED BY <1>6, <1>7, <2>1, ReadWithin DEF N
<1> HIDE DEF g
<1>11. ASSUME NEW i \in 1 .. d + N + e + 1, i > d + N + e PROVE g[i] = <<>>
  BY <1>6, <1>9, <1>11 DEF AtomsFrom
<1>12. ASSUME NEW s \in Seq(Atom(S)) PROVE s \o <<>> = s /\ <<>> \o s = s
  BY ConcatEmptySeq
<1>13. g[d + N + 1] = Closing(regex)
  <2>1. CASE e = 0
    <3>1. d + N + 1 \in 1 .. d + N + e + 1 /\ d + N + 1 > d + N + e
      BY <1>1, <2>1
    <3> QED BY <1>3, <1>11, <2>1, <3>1
  <2>2. CASE e = 1
    <3>1. /\ d + N + 1 \in 1 .. d + N + e + 1 /\ (d + N + 1) + 1 \in 1 .. d + N + e + 1
          /\ (d + N + 1) + 1 > d + N + e
      BY <1>1, <2>2
    <3>2. g[d + N + 1] = <<Dollar>> \o g[(d + N + 1) + 1]
      BY <1>6, <1>8, <1>9, <2>2, <3>1 DEF AtomsFrom, Dollar
    <3>3. g[(d + N + 1) + 1] = <<>>
      BY <1>11, <3>1
    <3>4. <<Dollar>> \o <<>> = <<Dollar>>
      OBVIOUS
    <3> QED BY <1>3, <2>2, <3>2, <3>3, <3>4
  <2> QED BY <1>1, <2>1, <2>2
<1>14. g[1] = Opening(regex) \o g[d + 1]
  <2>0. d + 1 \in 1 .. d + N + e + 1
    BY <1>1
  <2>1. CASE d = 0
    BY <1>2, <1>9, <1>12, <2>0, <2>1
  <2>2. CASE d = 1
    <3>1. 1 \in 1 .. d + N + e + 1
      BY <1>1
    <3>2. g[1] = <<Caret>> \o g[1 + 1]
      BY <1>6, <1>8, <1>9, <2>2, <3>1 DEF AtomsFrom, Caret
    <3> QED BY <1>2, <2>2, <3>2
  <2> QED BY <1>1, <2>1, <2>2
<1> QED BY <1>6, <1>9, <1>10, <1>13, <1>14 DEF full

(* A valid expression is read to its end. *)
LEMMA ValidWhole ==
  ASSUME NEW atoms, ValidAtoms(atoms)
  PROVE  Whole(atoms)
<1> SUFFICES ASSUME NEW k \in DOMAIN atoms, atoms[k] = AtTheEnd PROVE FALSE
  BY DEF Whole
<1>1. atoms[k].escaped /\ atoms[k].c = "end"
  BY DEF AtTheEnd
<1>2. IsValidEscape("end")
  BY <1>1 DEF ValidAtoms
<1> QED BY <1>2 DEF IsValidEscape, Punctuation

(* An anchor can be put before a valid expression that begins with none.      *)
LEMMA ValidOpened ==
  ASSUME NEW A, NEW atoms \in Seq(A), Caret \in A, ValidAtoms(atoms), atoms = <<>> \/ ~ Plain(atoms[1], "^")
  PROVE  ValidAtoms(<<Caret>> \o atoms)
<1> DEFINE L == Len(atoms)
           all == <<Caret>> \o atoms
           Repeatable(seq, i) == i > 0 /\ (seq[i].escaped \/ seq[i].c \notin {"^", "$", "?", "*", "+"})
           Fine(seq, i, n) ==
             LET c == seq[i].c IN
             IF seq[i].escaped THEN IsValidEscape(c)
             ELSE /\ c = "^" => i = 1
                  /\ c = "$" => i = n
                  /\ c \notin {"(", ")", "[", "]", "{", "}", "|"}
                  /\ IsRepeat(c) => Repeatable(seq, i - 1)
<1>1. L \in Nat /\ DOMAIN atoms = 1 .. L
  BY LenProperties
<1>2. <<Caret>> \in Seq(A) /\ Len(<<Caret>>) = 1 /\ <<Caret>>[1] = Caret
  OBVIOUS
<1>3. /\ all \in Seq(A) /\ Len(all) = 1 + L
      /\ \A i \in 1 .. 1 + L : all[i] = IF i <= 1 THEN <<Caret>>[i] ELSE atoms[i - 1]
  BY <1>2, ConcatProperties
<1>4. DOMAIN all = 1 .. 1 + L
  BY <1>3, LenProperties
<1>5. \A i \in 1 .. L : Fine(atoms, i, L)
  BY <1>1 DEF ValidAtoms
<1> HIDE DEF all
<1>6. ASSUME NEW i \in 1 .. 1 + L PROVE Fine(all, i, 1 + L)
  <2>1. CASE i = 1
    <3>1. all[1] = Caret
      BY <1>2, <1>3, <2>1
    <3> QED BY <2>1, <3>1 DEF Caret, IsRepeat
  <2>2. CASE i > 1
    <3> DEFINE j == i - 1
    <3>1. /\ j \in 1 .. L /\ i = j + 1 /\ ~ (i <= 1) /\ (j > 1 => j - 1 \in 1 .. L /\ ~ (j <= 1))
          /\ (j = L => i = 1 + L) /\ (j - 1 > 0 => j > 1) /\ j > 0 /\ j \in 1 .. 1 + L
      BY <1>1, <2>2
    <3>2. all[i] = atoms[j] /\ (j > 1 => all[j] = atoms[j - 1])
      BY <1>3, <3>1
    <3> HIDE DEF j
    <3>3. Fine(atoms, j, L)
      BY <1>5, <3>1
    <3>4. ~ Plain(atoms[j], "^")
      <4>1. CASE j = 1
        <5>1. atoms # <<>>
          BY <3>1, EmptySeq
        <5> QED BY <4>1, <5>1
      <4>2. CASE j # 1
        BY <3>3, <4>2 DEF Plain
      <4> QED BY <4>1, <4>2
    <3>5. Repeatable(atoms, j - 1) => Repeatable(all, j)
      BY <3>1, <3>2
    <3> HIDE DEF Repeatable
    <3>6. Fine(all, i, 1 + L)
      <4>1. CASE atoms[j].escaped
        BY <3>2, <3>3, <4>1
      <4>2. CASE ~ atoms[j].escaped
        <5>1. atoms[j].c # "^"
          BY <3>4, <4>2 DEF Plain
        <5>2. i - 1 = j
          BY DEF j
        <5>3. /\ atoms[j].c = "$" => j = L
              /\ atoms[j].c \notin {"(", ")", "[", "]", "{", "}", "|"}
              /\ IsRepeat(atoms[j].c) => Repeatable(atoms, j - 1)
          BY <3>3, <4>2
        <5> QED BY <3>1, <3>2, <3>5, <4>2, <5>1, <5>2, <5>3
      <4> QED BY <4>1, <4>2
    <3> QED BY <3>6
  <2>3. i = 1 \/ i > 1
    BY <1>1
  <2> QED BY <2>1, <2>2, <2>3, Zenon
<1> QED BY <1>3, <1>4, <1>6 DEF ValidAtoms, all

(* And after one that does not end in an anchor *)
LEMMA ValidClosed ==
  ASSUME NEW A, NEW atoms \in Seq(A), Dollar \in A, ValidAtoms(atoms),
         atoms = <<>> \/ ~ Plain(Last(atoms), "$")
  PROVE  ValidAtoms(atoms \o <<Dollar>>)
<1> DEFINE L == Len(atoms)
           all == atoms \o <<Dollar>>
           Repeatable(seq, i) == i > 0 /\ (seq[i].escaped \/ seq[i].c \notin {"^", "$", "?", "*", "+"})
           Fine(seq, i, n) ==
             LET c == seq[i].c IN
             IF seq[i].escaped THEN IsValidEscape(c)
             ELSE /\ c = "^" => i = 1
                  /\ c = "$" => i = n
                  /\ c \notin {"(", ")", "[", "]", "{", "}", "|"}
                  /\ IsRepeat(c) => Repeatable(seq, i - 1)
<1>1. L \in Nat /\ DOMAIN atoms = 1 .. L
  BY LenProperties
<1>2. <<Dollar>> \in Seq(A) /\ Len(<<Dollar>>) = 1 /\ <<Dollar>>[1] = Dollar
  OBVIOUS
<1>3. /\ all \in Seq(A) /\ Len(all) = L + 1
      /\ \A i \in 1 .. L + 1 : all[i] = IF i <= L THEN atoms[i] ELSE <<Dollar>>[i - L]
  BY <1>2, ConcatProperties
<1>4. DOMAIN all = 1 .. L + 1
  BY <1>3, LenProperties
<1>5. \A i \in 1 .. L : Fine(atoms, i, L)
  BY <1>1 DEF ValidAtoms
<1> HIDE DEF all
<1>6. ASSUME NEW i \in 1 .. L + 1 PROVE Fine(all, i, L + 1)
  <2>1. CASE i = L + 1
    <3>0. L + 1 \in 1 .. L + 1 /\ ~ (L + 1 <= L) /\ (L + 1) - L = 1
      BY <1>1
    <3>1. all[i] = Dollar
      BY <1>2, <1>3, <2>1, <3>0
    <3> QED BY <2>1, <3>1 DEF Dollar, IsRepeat
  <2>2. CASE i <= L
    <3>1. i \in 1 .. L /\ (i > 1 => i - 1 \in 1 .. L /\ i - 1 <= L /\ i - 1 \in 1 .. L + 1) /\ (i - 1 > 0 => i > 1)
      BY <1>1, <2>2
    <3>2. all[i] = atoms[i] /\ (i > 1 => all[i - 1] = atoms[i - 1])
      BY <1>3, <2>2, <3>1
    <3>3. Fine(atoms, i, L)
      BY <1>5, <3>1
    <3>4. ~ Plain(atoms[i], "$")
      <4>1. CASE i = L
        <5>1. atoms # <<>> /\ Last(atoms) = atoms[i]
          BY <3>1, <4>1, EmptySeq DEF Last
        <5> QED BY <5>1
      <4>2. CASE i # L
        BY <3>3, <4>2 DEF Plain
      <4> QED BY <4>1, <4>2
    <3>5. Repeatable(atoms, i - 1) => Repeatable(all, i - 1)
      BY <3>1, <3>2
    <3> HIDE DEF Repeatable
    <3>6. CASE atoms[i].escaped
      BY <3>2, <3>3, <3>6
    <3>7. CASE ~ atoms[i].escaped
      <4>1. atoms[i].c # "$"
        BY <3>4, <3>7 DEF Plain
      <4> QED BY <3>2, <3>3, <3>5, <3>7, <4>1
    <3> QED BY <3>6, <3>7
  <2>3. i = L + 1 \/ i <= L
    BY <1>1
  <2> QED BY <2>1, <2>2, <2>3, Zenon
<1> QED BY <1>3, <1>4, <1>6 DEF ValidAtoms, all

(* An expression that begins with "^" means what it means after it, at the    *)
(* head of the text.                                                         *)
LEMMA OpenedMeant ==
  ASSUME NEW A, NEW atoms \in Seq(A), NEW str, Len(str) \in Nat, atoms # <<>>, Plain(atoms[1], "^"),
         Headed(Tail(atoms)), NEW s \in 1 .. Len(str) + 1
  PROVE  MeantAt(atoms, str, 1, s) <=> s = 1 /\ MeantAt(Tail(atoms), str, 1, 1)
<1> DEFINE N == Len(str)
<1>1. Len(atoms) \in Nat /\ 1 \in 1 .. Len(atoms) /\ 1 + 1 = 2 /\ 1 \in 1 .. N + 1 /\ 1 <= 1
  BY EmptySeq
<1>2. ~ Plain(atoms[1], "$") /\ ~ Mark(atoms[1])
  BY DEF Plain, Mark, IsRepeat
<1>3. \A t \in 1 .. N + 1 : Denotes(atoms, str, 1, s, t) <=> s <= t /\ s = 1 /\ t = 1
  BY <1>2, Zenon DEF Denotes
<1>4. MeantAt(atoms, str, 1, s) <=> \E t \in 1 .. N + 1 : Denotes(atoms, str, 1, s, t) /\ MeantAt(atoms, str, 2, t)
  BY <1>1, MeantNext
<1>5. MeantAt(Tail(atoms), str, 1, 1) <=> MeantAt(atoms, str, 2, 1)
  BY <1>1, TailMeant
<1> QED BY <1>1, <1>3, <1>4, <1>5

(* With "$" after it, an expression is laid out up to the end of the text.   *)
LEMMA ClosedMeant ==
  ASSUME NEW A, NEW atoms \in Seq(A), Dollar \in A, NEW str, Len(str) \in Nat, NEW s \in 1 .. Len(str) + 1
  PROVE  MeantAt(atoms \o <<Dollar>>, str, 1, s) <=>
           \E at \in PlacesFrom(atoms, str, 1) :
             Laid(atoms, str, 1, at) /\ at[1] = s /\ at[Len(atoms) + 1] = Len(str) + 1
<1> DEFINE L == Len(atoms)
           all == atoms \o <<Dollar>>
           Spots == 1 .. Len(str) + 1
<1>1. L \in Nat
  BY LenProperties
<1>2. <<Dollar>> \in Seq(A) /\ Len(<<Dollar>>) = 1 /\ <<Dollar>>[1] = Dollar
  OBVIOUS
<1>3. Len(all) = L + 1 /\ \A i \in 1 .. L + 1 : all[i] = IF i <= L THEN atoms[i] ELSE <<Dollar>>[i - L]
  BY <1>2, ConcatProperties
<1>4. (\A i \in 1 .. L : all[i] = atoms[i]) /\ all[L + 1] = Dollar
  <2>1. L + 1 \in 1 .. L + 1 /\ ~ (L + 1 <= L) /\ (L + 1) - L = 1 /\ \A i \in 1 .. L : i \in 1 .. L + 1 /\ i <= L
    BY <1>1
  <2> QED BY <1>2, <1>3, <2>1
<1> HIDE DEF all
<1>5. ASSUME NEW i \in 1 .. L, NEW b, NEW e PROVE Denotes(all, str, i, b, e) <=> Denotes(atoms, str, i, b, e)
  <2>1. i < L => i + 1 \in 1 .. L /\ i < L + 1
    BY <1>1
  <2>2. i < L \/ (i = L /\ ~ (i < L))
    BY <1>1
  <2>3. Repeated(all, i) <=> Repeated(atoms, i)
    <3>1. CASE i < L
      BY <1>3, <1>4, <2>1, <3>1 DEF Repeated
    <3>2. CASE i = L /\ ~ (i < L)
      BY <1>4, <3>2 DEF Repeated, Dollar, IsRepeat
    <3> QED BY <2>2, <3>1, <3>2
  <2>4. Repeated(atoms, i) => all[i + 1] = atoms[i + 1]
    BY <1>4, <2>1 DEF Repeated
  <2> QED BY <1>4, <2>3, <2>4, Zenon DEF Denotes
<1>6. \A b, e \in Spots : Denotes(all, str, L + 1, b, e) <=> b <= e /\ b = Len(str) + 1
  <2>1. ~ Plain(Dollar, "^") /\ Plain(Dollar, "$") /\ ~ Mark(Dollar)
    BY DEF Plain, Mark, Dollar, IsRepeat
  <2> QED BY <1>4, <2>1, Zenon DEF Denotes
<1>7. ASSUME NEW at \in PlacesFrom(all, str, 1), at[1] = s, Laid(all, str, 1, at)
      PROVE  \E to \in PlacesFrom(atoms, str, 1) :
               Laid(atoms, str, 1, to) /\ to[1] = s /\ to[L + 1] = Len(str) + 1
  <2> DEFINE to == [i \in 1 .. L + 1 |-> at[i]]
  <2>1. \A i \in 1 .. (L + 1) + 1 : at[i] \in Spots
    BY <1>3 DEF PlacesFrom
  <2>2. /\ L + 1 \in 1 .. L + 1 /\ 1 \in 1 .. L + 1 /\ (L + 1) + 1 \in 1 .. (L + 1) + 1
        /\ (\A i \in 1 .. L + 1 : i \in 1 .. (L + 1) + 1)
        /\ \A i \in 1 .. L : i \in 1 .. L + 1 /\ i + 1 \in 1 .. L + 1
    BY <1>1
  <2>3. to \in PlacesFrom(atoms, str, 1) /\ \A i \in 1 .. L + 1 : to[i] = at[i]
    BY <2>1, <2>2 DEF PlacesFrom
  <2> HIDE DEF to
  <2>4. at[L + 1] = Len(str) + 1
    BY <1>3, <1>6, <1>7, <2>1, <2>2 DEF Laid
  <2>5. Laid(atoms, str, 1, to)
    BY <1>3, <1>5, <1>7, <2>2, <2>3 DEF Laid
  <2> QED BY <1>7, <2>2, <2>3, <2>4, <2>5
<1>8. ASSUME NEW at \in PlacesFrom(atoms, str, 1), Laid(atoms, str, 1, at), at[1] = s, at[L + 1] = Len(str) + 1
      PROVE  MeantAt(all, str, 1, s)
  <2> DEFINE to == [i \in 1 .. (L + 1) + 1 |-> IF i <= L + 1 THEN at[i] ELSE Len(str) + 1]
  <2>1. Len(str) + 1 \in Spots /\ Len(str) + 1 <= Len(str) + 1 /\ \A i \in 1 .. L + 1 : at[i] \in Spots
    BY DEF PlacesFrom
  <2>2. /\ L + 1 \in 1 .. (L + 1) + 1 /\ (L + 1) + 1 \in 1 .. (L + 1) + 1 /\ ~ ((L + 1) + 1 <= L + 1)
        /\ (\A i \in 1 .. L + 1 : i <= L + 1 /\ i \in 1 .. (L + 1) + 1)
        /\ (\A i \in 1 .. (L + 1) + 1 : i <= L + 1 => i \in 1 .. L + 1)
        /\ (\A i \in 1 .. L : i \in 1 .. L + 1 /\ i + 1 \in 1 .. L + 1)
        /\ (\A i \in 1 .. L + 1 : i \in 1 .. L \/ i = L + 1) /\ 1 \in 1 .. L + 1 /\ L + 1 \in 1 .. L + 1
    BY <1>1
  <2>3. (\A i \in 1 .. L + 1 : to[i] = at[i]) /\ to[(L + 1) + 1] = Len(str) + 1
    BY <2>2
  <2>4. to \in PlacesFrom(all, str, 1)
    <3>1. \A i \in 1 .. (L + 1) + 1 : (IF i <= L + 1 THEN at[i] ELSE Len(str) + 1) \in Spots
      BY <2>1, <2>2
    <3>2. to \in [1 .. (L + 1) + 1 -> Spots]
      BY <3>1
    <3> HIDE DEF to
    <3> QED BY <1>3, <3>2 DEF PlacesFrom
  <2> HIDE DEF to
  <2>5. ASSUME NEW i \in 1 .. L + 1 PROVE Denotes(all, str, i, to[i], to[i + 1])
    <3>1. CASE i \in 1 .. L
      <4>1. to[i] = at[i] /\ to[i + 1] = at[i + 1] /\ Denotes(atoms, str, i, at[i], at[i + 1])
        BY <1>8, <2>2, <2>3, <3>1 DEF Laid
      <4> QED BY <1>5, <3>1, <4>1
    <3>2. CASE i = L + 1
      BY <1>6, <1>8, <2>1, <2>2, <2>3, <3>2
    <3> QED BY <2>2, <3>1, <3>2
  <2>6. Laid(all, str, 1, to) /\ to[1] = s
    BY <1>3, <1>8, <2>2, <2>3, <2>5 DEF Laid
  <2> QED BY <2>4, <2>6 DEF MeantAt
<1> QED BY <1>7, <1>8 DEF MeantAt, all

(* An expression that ends in an escaped "$", which RE::Init() takes for an   *)
(* anchor                                                                    *)
EndsEscaped(regex) == regex # <<>> /\ Last(Atoms(regex)) = [escaped |-> TRUE, c |-> "$"]

(* What an anchored expression means: it is laid out from the head of the     *)
(* text, to the end of it unless the anchor after it is missing.             *)
LaidWhole(regex, str) ==
  \E at \in PlacesFrom(Atoms(regex), str, 1) :
    /\ Laid(Atoms(regex), str, 1, at)
    /\ at[1] = 1 /\ (at[Len(Atoms(regex)) + 1] = Len(str) + 1 \/ EndsEscaped(regex))

(* With what RE::Init() puts after it, a valid expression is laid out over    *)
(* the whole text from the head on.                                          *)
LEMMA ClosedWhole ==
  ASSUME NEW S, NEW regex \in Seq(S), "$" \in S, ValidateRegex(regex), NEW str, Len(str) \in Nat
  PROVE  /\ MeantAt(Atoms(regex) \o Closing(regex), str, 1, 1) <=> LaidWhole(regex, str)
         /\ ValidAtoms(Atoms(regex) \o Closing(regex))
<1> DEFINE A == Atoms(regex)
           L == Len(A)
           N == Len(str)
<1>1. A \in Seq(Atom(S)) /\ L \in Nat
  BY AtomsRead, LenProperties
<1>2. ValidAtoms(A) /\ Whole(A)
  BY ValidWhole DEF ValidateRegex
<1>3. regex # <<>> => A # <<>> /\ Last(A).c = Last(regex)
  <2>1. SUFFICES ASSUME regex # <<>> PROVE A # <<>> /\ Last(A).c = Last(regex)
    OBVIOUS
  <2>2. A # <<>> /\ (Last(A) = AtTheEnd \/ Last(A).c = Last(regex))
    BY <2>1, LastRead
  <2>3. L \in DOMAIN A
    <3>1. L \in 1 .. L
      BY <1>1, <2>2, EmptySeq
    <3> QED BY <1>1, <3>1, LenProperties
  <2> QED BY <1>2, <2>2, <2>3 DEF Whole, Last
<1>4. regex = <<>> => A = <<>>
  <2>1. ASSUME regex = <<>> PROVE A = <<>>
    <3>1. 1 \in 1 .. Len(regex) + 1 /\ 1 > Len(regex)
      BY <2>1
    <3> QED BY <3>1, Read DEF AtomsFrom
  <2> QED BY <2>1
<1>5. \A at \in PlacesFrom(A, str, 1) : at[1] \in 1 .. N + 1 /\ at[L + 1] \in 1 .. N + 1
  BY <1>1 DEF PlacesFrom
<1>6. CASE regex = <<>> \/ Last(regex) # "$"
  <2>1. Closing(regex) = <<Dollar>> /\ Dollar \in Atom(S)
    BY <1>6 DEF Closing, Dollar, Atom
  <2>2. ~ EndsEscaped(regex) /\ (A = <<>> \/ ~ Plain(Last(A), "$"))
    <3>1. CASE regex = <<>>
      BY <1>4, <3>1 DEF EndsEscaped
    <3>2. CASE regex # <<>>
      BY <1>3, <1>6, <3>2 DEF EndsEscaped, Plain
    <3> QED BY <3>1, <3>2
  <2>3. ValidAtoms(A \o <<Dollar>>)
    BY <1>1, <1>2, <2>1, <2>2, ValidClosed
  <2>4. 1 \in 1 .. N + 1
    OBVIOUS
  <2>5. MeantAt(A \o <<Dollar>>, str, 1, 1) <=>
          \E at \in PlacesFrom(A, str, 1) : Laid(A, str, 1, at) /\ at[1] = 1 /\ at[L + 1] = N + 1
    BY <1>1, <2>1, <2>4, ClosedMeant
  <2> QED BY <2>1, <2>2, <2>3, <2>5 DEF LaidWhole
<1>7. CASE ~ (regex = <<>> \/ Last(regex) # "$")
  <2>1. Closing(regex) = <<>> /\ A \o <<>> = A
    BY <1>1, <1>7, ConcatEmptySeq DEF Closing
  <2>2. A # <<>> /\ Last(A).c = "$" /\ L \in 1 .. L /\ Last(A) = A[L] /\ A[L] \in Atom(S)
    <3>1. A # <<>> /\ Last(A).c = "$"
      BY <1>3, <1>7
    <3>2. L \in 1 .. L
      BY <1>1, <3>1, EmptySeq
    <3> QED BY <1>1, <3>1, <3>2, LenProperties DEF Last
  <2>3. Plain(A[L], "$") \/ EndsEscaped(regex)
    <3>1. A[L] = [escaped |-> A[L].escaped, c |-> "$"] /\ A[L].escaped \in BOOLEAN
      BY <2>2 DEF Atom
    <3> QED BY <1>7, <2>2, <3>1 DEF Plain, EndsEscaped
  <2>4. ASSUME NEW at \in PlacesFrom(A, str, 1), Laid(A, str, 1, at), Plain(A[L], "$") PROVE at[L + 1] = N + 1
    <3>1. at[L] = N + 1 /\ at[L] <= at[L + 1]
      BY <2>2, <2>4 DEF Laid, Denotes
    <3>2. at[L + 1] \in 1 .. N + 1
      BY <1>5
    <3> QED BY <3>1, <3>2
  <2> QED BY <1>2, <2>1, <2>3, <2>4 DEF MeantAt, LaidWhole
<1> QED BY <1>6, <1>7

(* Whatever the text and the expression: a full match is one of a valid       *)
(* expression that is laid out over the whole text, but that an expression   *)
(* which ends in an escaped "$" is matched with the head of the text only     *)
(* (gtest-port.cc, RE::Init and FullMatch).                                  *)
THEOREM FullMatchesWhole ==
  ASSUME NEW S, NEW str \in Seq(S), NEW regex \in Seq(S)
  PROVE  FullMatch(str, regex) <=> ValidateRegex(regex) /\ LaidWhole(regex, str)
<1> DEFINE C == S \union {"^", "$"}
           A == Atoms(regex)
           B == A \o Closing(regex)
           full == Opening(regex) \o B
           N == Len(str)
<1>1. regex \in Seq(C) /\ "^" \in C /\ "$" \in C
  <2>1. Len(regex) \in Nat /\ regex \in [1 .. Len(regex) -> S] /\ S \subseteq C
    BY LenProperties
  <2>2. regex \in [1 .. Len(regex) -> C]
    BY <2>1
  <2> QED BY <2>1, <2>2
<1> HIDE DEF C
<1>2. SUFFICES ASSUME ValidateRegex(regex)
               PROVE  MatchRegexAnywhere(Atoms(FullPattern(regex)), str) <=> LaidWhole(regex, str)
  BY DEF FullMatch
<1>3. N \in Nat /\ 1 \in 1 .. N + 1
  BY LenProperties
<1>4. ValidAtoms(B) /\ (MeantAt(B, str, 1, 1) <=> LaidWhole(regex, str))
  BY <1>1, <1>2, <1>3, ClosedWhole
<1>5. A \in Seq(Atom(C)) /\ Whole(A)
  BY <1>1, <1>2, AtomsRead, ValidWhole DEF ValidateRegex
<1>6. FullPattern(regex) \in Seq(C) /\ Atoms(FullPattern(regex)) = full
  BY <1>1, <1>5, FullRead
<1>7. Caret \in Atom(C) /\ Dollar \in Atom(C) /\ <<Caret>> \in Seq(Atom(C)) /\ <<Dollar>> \in Seq(Atom(C))
  <2>1. Caret \in Atom(C) /\ Dollar \in Atom(C)
    BY <1>1 DEF Atom, Caret, Dollar
  <2> QED BY <2>1
<1>8. /\ B \in Seq(Atom(C))
      /\ B = <<>> \/ (Plain(B[1], "^") <=> regex # <<>> /\ regex[1] = "^")
      /\ regex # <<>> => B # <<>>
  <2>1. CASE regex = <<>>
    <3>1. A = <<>> /\ Closing(regex) = <<Dollar>>
      <4>1. 1 \in 1 .. Len(regex) + 1 /\ 1 > Len(regex)
        BY <2>1
      <4> QED BY <1>1, <2>1, <4>1, Read DEF AtomsFrom, Closing
    <3>2. B = <<Dollar>>
      BY <1>7, <3>1, ConcatEmptySeq
    <3>3. B[1] = Dollar
      BY <3>2
    <3>4. ~ Plain(Dollar, "^")
      BY DEF Plain, Dollar
    <3> HIDE DEF B
    <3> QED BY <1>7, <2>1, <3>2, <3>3, <3>4
  <2>2. CASE regex # <<>>
    <3>1. A # <<>> /\ (regex[1] = "^" <=> Plain(A[1], "^"))
      BY <2>2, LastRead
    <3>2. Closing(regex) \in Seq(Atom(C))
      BY <1>7, EmptySeq DEF Closing
    <3>3. Len(A) \in Nat \ {0} /\ Len(Closing(regex)) \in Nat
      BY <1>5, <3>1, <3>2, EmptySeq, LenProperties
    <3>4. /\ B \in Seq(Atom(C)) /\ Len(B) = Len(A) + Len(Closing(regex))
          /\ \A i \in 1 .. Len(A) + Len(Closing(regex)) :
               B[i] = IF i <= Len(A) THEN A[i] ELSE Closing(regex)[i - Len(A)]
      BY <1>5, <3>2, ConcatProperties
    <3> HIDE DEF A, B
    <3>5. 1 \in 1 .. Len(A) + Len(Closing(regex)) /\ 1 <= Len(A)
      BY <3>3
    <3>6. B[1] = A[1] /\ B # <<>>
      <4>1. B[1] = A[1]
        BY <3>4, <3>5
      <4>2. Len(B) # 0
        BY <3>3, <3>4
      <4> QED BY <4>1, <4>2
    <3> QED BY <2>2, <3>1, <3>4, <3>6
  <2> QED BY <2>1, <2>2
<1> HIDE DEF A, B
<1>9. CASE regex = <<>> \/ regex[1] # "^"
  <2>1. full = <<Caret>> \o B /\ (B = <<>> \/ ~ Plain(B[1], "^"))
    BY <1>8, <1>9 DEF Opening
  <2>2. ValidAtoms(full) /\ full \in Seq(Atom(C))
    BY <1>4, <1>7, <1>8, <2>1, ValidOpened, ConcatProperties
  <2>3. full # <<>> /\ full[1] = Caret /\ Tail(full) = B
    <3> HIDE DEF full
    <3>1. Len(<<Caret>>) = 1 /\ <<Caret>>[1] = Caret /\ Len(B) \in Nat
      BY <1>8, LenProperties
    <3>2. Len(full) = 1 + Len(B) /\ \A i \in 1 .. 1 + Len(B) : full[i] = IF i <= 1 THEN <<Caret>>[i] ELSE B[i - 1]
      BY <1>7, <1>8, <2>1, <3>1, ConcatProperties
    <3>3. 1 \in 1 .. 1 + Len(B) /\ Len(full) # 0 /\ (1 + Len(B)) - 1 = Len(B) /\ \A i \in 1 .. Len(B) :
            i + 1 \in 1 .. 1 + Len(B) /\ ~ (i + 1 <= 1) /\ (i + 1) - 1 = i
      BY <3>1, <3>2
    <3>4. full[1] = Caret /\ full # <<>> /\ \A i \in 1 .. Len(B) : full[i + 1] = B[i]
      <4>1. full[1] = <<Caret>>[1] /\ \A i \in 1 .. Len(B) : full[i + 1] = B[i]
        BY <3>2, <3>3
      <4>2. full # <<>>
        BY <3>3
      <4> QED BY <3>1, <4>1, <4>2
    <3>5. /\ Tail(full) \in Seq(Atom(C)) /\ Len(Tail(full)) = Len(full) - 1
          /\ \A i \in 1 .. Len(Tail(full)) : Tail(full)[i] = full[i + 1]
      BY <2>2, <3>4, HeadTailProperties
    <3>6. Len(Tail(full)) = Len(B)
      BY <3>2, <3>3, <3>5
    <3>7. Tail(full) = B
      BY <1>8, <3>4, <3>5, <3>6, SeqEqual
    <3> QED BY <3>4, <3>7
  <2>4. Plain(full[1], "^")
    BY <2>3 DEF Plain, Caret
  <2>5. Headed(Tail(full))
    BY <2>2, <2>3, <2>4, ValidHeaded
  <2>6. \A s \in 1 .. N + 1 : MeantAt(full, str, 1, s) <=> s = 1 /\ MeantAt(Tail(full), str, 1, 1)
    BY <1>3, <2>2, <2>3, <2>4, <2>5, OpenedMeant
  <2>7. MatchRegexAnywhere(full, str) <=> \E at \in PlacesFrom(full, str, 1) : Laid(full, str, 1, at)
    BY <2>2, AnywhereMatches
  <2>8. \A at \in PlacesFrom(full, str, 1) : at[1] \in 1 .. N + 1
    <3>1. 1 \in 1 .. Len(full) + 1
      BY <2>2, LenProperties
    <3> QED BY <3>1 DEF PlacesFrom
  <2> HIDE DEF full
  <2>9. MatchRegexAnywhere(full, str) <=> \E s \in 1 .. N + 1 : MeantAt(full, str, 1, s)
    BY <2>7, <2>8 DEF MeantAt
  <2> QED BY <1>3, <1>4, <1>6, <2>3, <2>6, <2>9
<1>10. CASE ~ (regex = <<>> \/ regex[1] # "^")
  <2>1. full = B /\ B # <<>> /\ Plain(B[1], "^")
    BY <1>8, <1>10, ConcatEmptySeq DEF Opening
  <2>2. Headed(Tail(B))
    BY <1>4, <1>8, <2>1, ValidHeaded
  <2>3. \A s \in 1 .. N + 1 : MeantAt(B, str, 1, s) <=> s = 1 /\ MeantAt(Tail(B), str, 1, 1)
    BY <1>3, <1>8, <2>1, <2>2, OpenedMeant
  <2>4. MatchRegexAnywhere(B, str) <=> \E at \in PlacesFrom(B, str, 1) : Laid(B, str, 1, at)
    BY <1>4, <1>8, AnywhereMatches
  <2>5. \A at \in PlacesFrom(B, str, 1) : at[1] \in 1 .. N + 1
    <3>1. 1 \in 1 .. Len(B) + 1
      BY <1>8, LenProperties
    <3> QED BY <3>1 DEF PlacesFrom
  <2>6. MatchRegexAnywhere(B, str) <=> \E s \in 1 .. N + 1 : MeantAt(B, str, 1, s)
    BY <2>4, <2>5 DEF MeantAt
  <2> QED BY <1>3, <1>4, <1>6, <2>1, <2>3, <2>6
<1> QED BY <1>9, <1>10

--------------------------------------------------------------------------------
(* Powers of two: 1 << n is what its definition says, *)
LEMMA PowersMean ==
  /\ Pow2[0] = 1
  /\ \A n \in Nat : Pow2[n + 1] = 2 * Pow2[n]
  /\ \A n \in Nat : Pow2[n] \in Nat \ {0}
<1> DEFINE Is(f) == f = [n \in Nat |-> IF n = 0 THEN 1 ELSE 2 * f[n - 1]]
           w == [k \in Nat |-> 2]
<1>1. w \in [Nat -> Nat] /\ \A k \in Nat : w[k] = 2
  OBVIOUS
<1> HIDE DEF w
<1>2. PICK f \in [Nat -> Nat] : f = [k \in Nat |-> IF k = 0 THEN 1 ELSE w[k] * f[k - 1]]
  BY <1>1, ProductsExist
<1>3. f = [k \in Nat |-> f[k]] /\ \A k \in Nat : f[k] = IF k = 0 THEN 1 ELSE 2 * f[k - 1]
  BY <1>1, <1>2
<1>4. Is(f)
  BY <1>3
<1>5. Is(Pow2)
  <2>1. Pow2 = CHOOSE g : Is(g)
    BY DEF Pow2
  <2> HIDE DEF Is
  <2> QED BY <1>4, <2>1
<1>6. \A n \in Nat : Pow2[n] = IF n = 0 THEN 1 ELSE 2 * Pow2[n - 1]
  BY <1>5
<1>7. Pow2[0] = 1
  BY <1>6
<1>8. \A n \in Nat : Pow2[n + 1] = 2 * Pow2[n]
  <2>1. \A n \in Nat : n + 1 \in Nat /\ n + 1 # 0 /\ (n + 1) - 1 = n
    OBVIOUS
  <2> QED BY <1>6, <2>1
<1> DEFINE N == {n \in Nat : Pow2[n] \in Nat \ {0}}
<1>9. 0 \in N
  BY <1>7
<1>10. ASSUME NEW n \in Nat, n \in N PROVE n + 1 \in N
  BY <1>8, <1>10
<1>11. Nat \subseteq N
  <2> HIDE DEF N
  <2> QED BY <1>9, <1>10, AllNumbers
<1> QED BY <1>7, <1>8, <1>11

(* the power of a sum is the product of the powers, *)
LEMMA PowersMultiply ==
  ASSUME NEW a \in Nat, NEW b \in Nat
  PROVE  Pow2[a + b] = Pow2[a] * Pow2[b]
<1> DEFINE N == {n \in Nat : Pow2[a + n] = Pow2[a] * Pow2[n]}
<1>1. 0 \in N
  <2>1. a + 0 = a /\ Pow2[0] = 1 /\ Pow2[a] \in Nat
    BY PowersMean
  <2> QED BY <2>1
<1>2. ASSUME NEW n \in Nat, n \in N PROVE n + 1 \in N
  <2>1. a + (n + 1) = (a + n) + 1 /\ a + n \in Nat
    OBVIOUS
  <2>2. Pow2[a + (n + 1)] = 2 * Pow2[a + n] /\ Pow2[n + 1] = 2 * Pow2[n] /\ Pow2[a] \in Nat /\ Pow2[n] \in Nat
    BY <2>1, PowersMean
  <2>3. Pow2[a + n] = Pow2[a] * Pow2[n]
    BY <1>2
  <2>4. \A x, y \in Nat : 2 * (x * y) = x * (2 * y)
    OBVIOUS
  <2> QED BY <2>2, <2>3, <2>4
<1>3. Nat \subseteq N
  <2> HIDE DEF N
  <2> QED BY <1>1, <1>2, AllNumbers
<1> QED BY <1>3

(* and they grow. *)
LEMMA PowersGrow ==
  ASSUME NEW a \in Nat, NEW b \in Nat, a <= b
  PROVE  Pow2[a] <= Pow2[b]
<1>1. b - a \in Nat /\ a + (b - a) = b
  OBVIOUS
<1>2. Pow2[b] = Pow2[a] * Pow2[b - a]
  BY <1>1, PowersMultiply
<1>3. Pow2[a] \in Nat \ {0} /\ Pow2[b - a] \in Nat \ {0}
  BY <1>1, PowersMean
<1>4. \A x, y \in Nat \ {0} : x <= x * y
  OBVIOUS
<1> QED BY <1>2, <1>3, <1>4

--------------------------------------------------------------------------------
(* The parts of a number *)

Fractions == Pow2[kFractionBitCount]
Exponents == Pow2[kExponentBitCount]

(* How many bits without a sign there are, and how many of them come before  *)
(* those of infinity                                                         *)
LEMMA Widths ==
  /\ Fractions \in Nat \ {0} /\ Exponents \in Nat \ {0} /\ kSignBitMask = Exponents * Fractions
  /\ kSignBitMask \in Nat \ {0} /\ Pow2[kBitCount] = 2 * kSignBitMask
  /\ kInfinity = (Exponents - 1) * Fractions /\ kInfinity \in 0 .. kSignBitMask - 1
<1>1. kBitCount - 1 = kExponentBitCount + kFractionBitCount /\ kBitCount - 1 \in Nat /\ (kBitCount - 1) + 1 = kBitCount
  BY FloatingPointAssumption DEF kBitCount
<1>2. Fractions \in Nat \ {0} /\ Exponents \in Nat \ {0} /\ kSignBitMask = Exponents * Fractions
  BY <1>1, FloatingPointAssumption, PowersMean, PowersMultiply DEF Fractions, Exponents, kSignBitMask
<1>3. Pow2[kBitCount] = 2 * kSignBitMask
  BY <1>1, PowersMean DEF kSignBitMask
<1>4. kInfinity = (Exponents - 1) * Fractions
  BY DEF kInfinity, Exponents, Fractions
<1>5. \A k, f \in Nat \ {0} : k * f \in Nat \ {0} /\ (k - 1) * f \in 0 .. k * f - 1
  <2>1. ASSUME NEW k \in Nat \ {0}, NEW f \in Nat \ {0} PROVE k * f \in Nat \ {0} /\ (k - 1) * f = k * f - f /\ (k - 1) * f \in Nat
    OBVIOUS
  <2> QED BY <2>1
<1> QED BY <1>2, <1>3, <1>4, <1>5

(* The size of the number of the bits m without a sign *)
Size(m) == IF m \div Fractions = 0 THEN m % Fractions ELSE (Fractions + (m % Fractions)) * Pow2[m \div Fractions - 1]

(* Bits are a sign and bits without one. *)
LEMMA Signs ==
  ASSUME NEW x \in AllBits
  PROVE  /\ x % kSignBitMask \in 0 .. kSignBitMask - 1
         /\ \/ sign_bit(x) = 0 /\ x = x % kSignBitMask
            \/ sign_bit(x) = 1 /\ x = kSignBitMask + (x % kSignBitMask)
         /\ fraction_bits(x) = (x % kSignBitMask) % Fractions /\ exponent_bits(x) = (x % kSignBitMask) \div Fractions
<1>1. Fractions \in Nat \ {0} /\ Exponents \in Nat \ {0} /\ kSignBitMask = Exponents * Fractions /\ kSignBitMask \in Nat \ {0} /\ x \in 0 .. 2 * kSignBitMask - 1
  BY Widths DEF AllBits
<1>2. sign_bit(x) = x \div kSignBitMask /\ exponent_bits(x) = (x % kSignBitMask) \div Fractions /\ fraction_bits(x) = x % Fractions
  BY DEF sign_bit, exponent_bits, fraction_bits, kSignBitMask, Fractions
<1>3. ASSUME NEW s \in Nat \ {0}, NEW y \in 0 .. 2 * s - 1
      PROVE  y % s \in 0 .. s - 1 /\ ((y \div s = 0 /\ y = y % s) \/ (y \div s = 1 /\ y = s + (y % s)))
  <2>1. CASE y < s
    BY <2>1
  <2>2. CASE y >= s
    <3>1. y \div s = 1 /\ y % s = y - s
      BY <2>2
    <3>2. y - s \in 0 .. s - 1 /\ y = s + (y - s)
      BY <2>2
    <3> QED BY <3>1, <3>2, Zenon
  <2> QED BY <2>1, <2>2
<1>4. ASSUME NEW m \in Nat, NEW f \in Nat \ {0}, NEW k \in Nat PROVE (k * f + m) % f = m % f
  <2>1. m = f * (m \div f) + (m % f) /\ m % f \in 0 .. f - 1 /\ m \div f \in Nat
    OBVIOUS
  <2>2. k * f + m = f * (k + m \div f) + (m % f)
    BY <2>1
  <2>3. ASSUME NEW q \in Nat, NEW r \in 0 .. f - 1 PROVE (f * q + r) % f = r
    OBVIOUS
  <2>4. k + m \div f \in Nat
    BY <2>1
  <2>5. (f * (k + m \div f) + (m % f)) % f = m % f
    BY <2>1, <2>3, <2>4, Zenon
  <2> QED BY <2>2, <2>5, Zenon
<1>5. fraction_bits(x) = (x % kSignBitMask) % Fractions
  <2>1. x % kSignBitMask \in Nat
    BY <1>1, <1>3
  <2>2. CASE x = x % kSignBitMask
    BY <1>2, <2>2
  <2>3. CASE x = kSignBitMask + (x % kSignBitMask)
    <3>1. (Exponents * Fractions + (x % kSignBitMask)) % Fractions = (x % kSignBitMask) % Fractions
      BY <1>1, <1>4, <2>1, Zenon
    <3>2. x % Fractions = (Exponents * Fractions + (x % kSignBitMask)) % Fractions
      BY <1>1, <2>3, Zenon
    <3> QED BY <1>2, <3>1, <3>2, Zenon
  <2> QED BY <1>1, <1>3, <2>2, <2>3
<1> QED BY <1>1, <1>2, <1>3, <1>5

(* Of two numbers without a sign the one with the greater bits is greater.   *)
LEMMA SizesGrow ==
  ASSUME NEW m \in 0 .. kSignBitMask - 1, NEW n \in 0 .. kSignBitMask - 1
  PROVE  /\ Size(m) \in Nat /\ Size(0) = 0
         /\ m < n => Size(m) < Size(n)
<1> DEFINE f == Fractions
<1>1. f \in Nat \ {0} /\ kSignBitMask \in Nat \ {0}
  BY Widths
<1>2. \A i \in Nat : Pow2[i] \in Nat \ {0} /\ Pow2[i + 1] = 2 * Pow2[i]
  BY PowersMean
<1> HIDE DEF f
<1>3. ASSUME NEW x \in Nat
      PROVE  x = f * (x \div f) + (x % f) /\ x % f \in 0 .. f - 1 /\ x \div f \in Nat
  BY <1>1
<1>4. ASSUME NEW x \in Nat
      PROVE  /\ x \div f = 0 => Size(x) = x % f /\ Size(x) \in Nat
             /\ x \div f > 0 => /\ x \div f - 1 \in Nat /\ Size(x) \in Nat
                               /\ Size(x) = (f + (x % f)) * Pow2[x \div f - 1]
  <2>1. x % f \in 0 .. f - 1 /\ x \div f \in Nat
    BY <1>3
  <2>2. CASE x \div f = 0
    <3>1. Size(x) = x % f
      BY <2>2 DEF Size, f
    <3> QED BY <1>1, <2>1, <2>2, <3>1
  <2>3. CASE x \div f > 0
    <3>1. x \div f - 1 \in Nat /\ x \div f # 0
      BY <2>1, <2>3
    <3>2. Size(x) = (f + (x % f)) * Pow2[x \div f - 1]
      BY <3>1 DEF Size, f
    <3>3. \A a, b \in Nat : a * b \in Nat
      OBVIOUS
    <3>4. f + (x % f) \in Nat /\ Pow2[x \div f - 1] \in Nat
      BY <1>1, <1>2, <2>1, <3>1
    <3>5. Size(x) \in Nat
      BY <3>2, <3>3, <3>4
    <3> QED BY <2>3, <3>1, <3>2, <3>5
  <2> QED BY <2>1, <2>2, <2>3
<1>5. Size(0) = 0
  <2>1. 0 \div f = 0 /\ 0 % f = 0
    BY <1>1
  <2> QED BY <1>4, <2>1
(* Below the next exponent, and from its own on *)
<1>6. ASSUME NEW x \in Nat PROVE Size(x) < f * Pow2[x \div f]
  <2>0. x % f \in 0 .. f - 1 /\ x \div f \in Nat
    BY <1>3
  <2>1. CASE x \div f = 0
    <3>1. Pow2[x \div f] = 1
      BY <2>1, PowersMean
    <3> QED BY <1>1, <1>4, <2>0, <2>1, <3>1
  <2>2. CASE x \div f > 0
    <3>1. \A r \in 0 .. f - 1, p \in Nat \ {0} : (f + r) * p < f * (2 * p)
      <4>1. ASSUME NEW r \in 0 .. f - 1, NEW p \in Nat \ {0} PROVE (f + r) * p < f * (2 * p)
        <5>1. f + r < 2 * f /\ f + r \in Nat /\ 2 * f \in Nat
          BY <1>1
        <5>2. \A a, b, c \in Nat : a < b /\ c > 0 => a * c < b * c
          OBVIOUS
        <5>3. (f + r) * p < (2 * f) * p
          BY <5>1, <5>2
        <5>4. (2 * f) * p = f * (2 * p)
          BY <1>1
        <5> QED BY <5>3, <5>4
      <4> QED BY <4>1
    <3>2. x \div f - 1 \in Nat /\ (x \div f - 1) + 1 = x \div f
      BY <2>0, <2>2
    <3>3. Pow2[x \div f] = 2 * Pow2[x \div f - 1] /\ Pow2[x \div f - 1] \in Nat \ {0}
      BY <1>2, <3>2
    <3>4. (f + (x % f)) * Pow2[x \div f - 1] < f * Pow2[x \div f]
      BY <2>0, <3>1, <3>3
    <3> QED BY <1>4, <2>2, <3>4
  <2> QED BY <2>0, <2>1, <2>2
<1>7. ASSUME NEW x \in Nat, x \div f > 0 PROVE f * Pow2[x \div f - 1] <= Size(x)
  <2>1. x % f \in 0 .. f - 1 /\ x \div f - 1 \in Nat /\ Size(x) = (f + (x % f)) * Pow2[x \div f - 1]
    BY <1>3, <1>4, <1>7
  <2>2. \A r \in Nat, p \in Nat : f * p <= (f + r) * p
    <3>1. ASSUME NEW r \in Nat, NEW p \in Nat PROVE f * p <= (f + r) * p
      <4>1. (f + r) * p = f * p + r * p /\ r * p \in Nat /\ f * p \in Nat
        BY <1>1
      <4> QED BY <4>1
    <3> QED BY <3>1
  <2>3. Pow2[x \div f - 1] \in Nat /\ x % f \in Nat
    BY <1>1, <1>2, <2>1
  <2> QED BY <2>1, <2>2, <2>3
<1>8. ASSUME m < n PROVE Size(m) < Size(n)
  <2>1. m \in Nat /\ n \in Nat
    BY <1>1
  <2>2. /\ m = f * (m \div f) + (m % f) /\ m % f \in 0 .. f - 1 /\ m \div f \in Nat
        /\ n = f * (n \div f) + (n % f) /\ n % f \in 0 .. f - 1 /\ n \div f \in Nat
    BY <1>3, <2>1
  <2>3. \A a, b \in Nat : b < a => f * b + f <= f * a
    <3>1. ASSUME NEW a \in Nat, NEW b \in Nat, b < a PROVE f * b + f <= f * a
      <4>1. a - b - 1 \in Nat /\ f * a = f * b + f + f * (a - b - 1)
        BY <1>1, <3>1
      <4>2. f * (a - b - 1) \in Nat
        BY <1>1, <4>1
      <4>3. f * a \in Nat /\ f * b \in Nat
        BY <1>1
      <4> QED BY <1>1, <4>1, <4>2, <4>3
    <3> QED BY <3>1
  <2>4. m \div f <= n \div f
    <3>1. SUFFICES ASSUME n \div f < m \div f PROVE FALSE
      BY <2>2
    <3>2. f * (n \div f) + f <= f * (m \div f)
      BY <2>2, <2>3, <3>1
    <3>3. f * (n \div f) \in Nat /\ f * (m \div f) \in Nat
      BY <1>1, <2>2
    <3> QED BY <1>1, <1>8, <2>2, <3>2, <3>3
  <2>5. CASE m \div f = n \div f
    <3>1. m % f < n % f
      BY <1>1, <1>8, <2>2, <2>5
    <3>2. CASE m \div f = 0
      BY <1>4, <2>1, <2>5, <3>1, <3>2
    <3>3. CASE m \div f > 0
      <4>1. \A a, b \in Nat, p \in Nat \ {0} : a < b => (f + a) * p < (f + b) * p
        <5>1. ASSUME NEW a \in Nat, NEW b \in Nat, NEW p \in Nat \ {0}, a < b PROVE (f + a) * p < (f + b) * p
          <6>1. f + a < f + b /\ f + a \in Nat /\ f + b \in Nat
            BY <1>1, <5>1
          <6>2. \A x, y, z \in Nat : x < y /\ z > 0 => x * z < y * z
            OBVIOUS
          <6> QED BY <6>1, <6>2
        <5> QED BY <5>1
      <4>2. Pow2[m \div f - 1] \in Nat \ {0} /\ m % f \in Nat /\ n % f \in Nat
        BY <1>1, <1>2, <1>4, <2>1, <2>2, <3>3
      <4> QED BY <1>4, <2>1, <2>5, <3>1, <3>3, <4>1, <4>2
    <3> QED BY <2>2, <3>2, <3>3
  <2>6. CASE m \div f < n \div f
    <3>1. n \div f > 0 /\ n \div f - 1 \in Nat /\ m \div f <= n \div f - 1
      BY <2>2, <2>6
    <3>2. Pow2[m \div f] <= Pow2[n \div f - 1]
      BY <2>2, <3>1, PowersGrow
    <3>3. \A a, b \in Nat : a <= b => f * a <= f * b
      <4>1. ASSUME NEW a \in Nat, NEW b \in Nat, a <= b PROVE f * a <= f * b
        <5>1. b - a \in Nat /\ f * b = f * a + f * (b - a)
          BY <1>1, <4>1
        <5>2. f * (b - a) \in Nat /\ f * a \in Nat
          BY <1>1, <5>1
        <5> QED BY <5>1, <5>2
      <4> QED BY <4>1
    <3>4. Pow2[m \div f] \in Nat /\ Pow2[n \div f - 1] \in Nat
      BY <1>2, <2>2, <3>1
    <3>5. f * Pow2[m \div f] <= f * Pow2[n \div f - 1]
      BY <3>2, <3>3, <3>4
    <3>6. Size(m) < f * Pow2[m \div f] /\ f * Pow2[n \div f - 1] <= Size(n)
      BY <1>6, <1>7, <2>1, <3>1
    <3>7. Size(m) \in Nat /\ Size(n) \in Nat
      BY <1>4, <2>1, <2>2
    <3>8. f * Pow2[m \div f] \in Nat /\ f * Pow2[n \div f - 1] \in Nat
      BY <1>1, <3>4
    <3> QED BY <3>5, <3>6, <3>7, <3>8
  <2> QED BY <2>2, <2>4, <2>5, <2>6
<1>9. Size(m) \in Nat
  <2>1. m \in Nat
    BY <1>1
  <2> QED BY <1>3, <1>4, <2>1
<1> QED BY <1>5, <1>8, <1>9

(* The place of a number in the order of all, that of zero being 0, and the   *)
(* number at a place                                                         *)
PlaceOfBits(x) == IF sign_bit(x) = 1 THEN - (x % kSignBitMask) ELSE x % kSignBitMask
NumberAt(k) == IF k < 0 THEN - Size(- k) ELSE Size(k)

(* Of two places the greater one is of the greater number. *)
LEMMA NumbersGrow ==
  ASSUME NEW j \in 1 - kSignBitMask .. kSignBitMask - 1, NEW k \in 1 - kSignBitMask .. kSignBitMask - 1
  PROVE  /\ NumberAt(k) \in Int /\ (j < k => NumberAt(j) < NumberAt(k))
<1>1. kSignBitMask \in Nat \ {0}
  BY Widths
<1>2. ASSUME NEW i \in 1 - kSignBitMask .. kSignBitMask - 1
      PROVE  /\ i >= 0 => i \in 0 .. kSignBitMask - 1 /\ NumberAt(i) = Size(i) /\ Size(i) \in Nat
             /\ i < 0 => - i \in 0 .. kSignBitMask - 1 /\ NumberAt(i) = - Size(- i) /\ Size(- i) \in Nat
  <2>1. (i >= 0 => i \in 0 .. kSignBitMask - 1 /\ ~ (i < 0)) /\ (i < 0 => - i \in 0 .. kSignBitMask - 1)
    BY <1>1
  <2> QED BY <2>1, SizesGrow DEF NumberAt
<1>3. NumberAt(k) \in Int
  BY <1>1, <1>2
<1>4. 0 \in 0 .. kSignBitMask - 1 /\ Size(0) = 0
  BY <1>1, SizesGrow
<1>5. ASSUME j < k PROVE NumberAt(j) < NumberAt(k)
  <2>1. CASE j >= 0
    <3>1. k >= 0
      BY <1>1, <1>5, <2>1
    <3>2. Size(j) < Size(k)
      BY <1>2, <1>5, <2>1, <3>1, SizesGrow
    <3> QED BY <1>2, <2>1, <3>1, <3>2
  <2>2. CASE j < 0 /\ k < 0
    <3>1. - k < - j
      BY <1>1, <1>5
    <3>2. Size(- k) < Size(- j)
      BY <1>2, <2>2, <3>1, SizesGrow
    <3> QED BY <1>2, <2>2, <3>2
  <2>3. CASE j < 0 /\ k >= 0
    <3>1. 0 < - j
      BY <1>1, <2>3
    <3>2. Size(0) < Size(- j)
      BY <1>2, <1>4, <2>3, <3>1, SizesGrow
    <3> QED BY <1>2, <1>4, <2>3, <3>2
  <2> QED BY <1>1, <2>1, <2>2, <2>3
<1> QED BY <1>3, <1>5

(* Bits stand for the number at their place, and the biased form of them is   *)
(* their place counted from the least; what is not beyond infinity is one.   *)
LEMMA Placed ==
  ASSUME NEW x \in AllBits
  PROVE  /\ PlaceOfBits(x) \in 1 - kSignBitMask .. kSignBitMask - 1
         /\ Exact(x) = NumberAt(PlaceOfBits(x))
         /\ SignAndMagnitudeToBiased(x) = kSignBitMask + PlaceOfBits(x)
         /\ is_nan(x) <=> PlaceOfBits(x) \notin - kInfinity .. kInfinity
<1> DEFINE m == x % kSignBitMask
           s == kSignBitMask
<1>1. s \in Nat \ {0} /\ Pow2[kBitCount] = 2 * s /\ kInfinity \in 0 .. s - 1
  BY Widths
<1>2. /\ m \in 0 .. s - 1
      /\ (sign_bit(x) = 0 /\ x = m) \/ (sign_bit(x) = 1 /\ x = s + m)
      /\ fraction_bits(x) = m % Fractions /\ exponent_bits(x) = m \div Fractions
  BY Signs
<1>3. PlaceOfBits(x) = IF sign_bit(x) = 1 THEN - m ELSE m
  BY DEF PlaceOfBits
<1>4. Exact(x) = IF sign_bit(x) = 1 THEN - Size(m) ELSE Size(m)
  BY <1>2 DEF Exact, Size, Fractions
<1> HIDE DEF m
<1>5. Size(m) \in Nat /\ Size(0) = 0
  BY <1>1, <1>2, SizesGrow
<1>6. PlaceOfBits(x) \in 1 - s .. s - 1
  BY <1>1, <1>2, <1>3
<1>7. Exact(x) = NumberAt(PlaceOfBits(x))
  <2>1. CASE sign_bit(x) = 1
    <3>1. PlaceOfBits(x) = - m /\ Exact(x) = - Size(m)
      BY <1>3, <1>4, <2>1
    <3>2. CASE m = 0
      <4>1. Size(m) = 0
        BY <1>5, <3>2
      <4>2. PlaceOfBits(x) = 0 /\ Exact(x) = 0
        <5>1. \A a, b \in Int : a + b = 0 => - a = b
          OBVIOUS
        <5>2. m \in Int /\ Size(m) \in Int /\ m + 0 = 0 /\ Size(m) + 0 = 0
          BY <3>2, <4>1
        <5>3. - m = 0 /\ - Size(m) = 0
          BY <5>1, <5>2, 0 \in Int, Zenon
        <5> QED BY <3>1, <5>3, Zenon
      <4>3. NumberAt(0) = 0
        BY <1>5 DEF NumberAt
      <4> QED BY <4>2, <4>3
    <3>3. CASE m # 0
      <4>1. - m < 0 /\ - (- m) = m
        BY <1>2, <3>3
      <4> QED BY <3>1, <4>1 DEF NumberAt
    <3> QED BY <3>2, <3>3
  <2>2. CASE sign_bit(x) = 0
    <3>1. ~ (m < 0)
      BY <1>2
    <3> QED BY <1>3, <1>4, <2>2, <3>1 DEF NumberAt
  <2> QED BY <1>2, <2>1, <2>2
<1>8. SignAndMagnitudeToBiased(x) = s + PlaceOfBits(x)
  <2>1. CASE sign_bit(x) = 0 /\ x = m
    BY <1>3, <2>1 DEF SignAndMagnitudeToBiased
  <2>2. CASE sign_bit(x) = 1 /\ x = s + m
    <3>1. SignAndMagnitudeToBiased(x) = (2 * s - x) % (2 * s)
      BY <1>1, <2>2 DEF SignAndMagnitudeToBiased
    <3>2. 2 * s - x = s - m /\ s - m \in 0 .. 2 * s - 1 /\ 2 * s \in Nat \ {0} /\ s - m = s + (- m)
      BY <1>1, <1>2, <2>2
    <3>3. \A a \in Nat \ {0} : \A b \in 0 .. a - 1 : b % a = b
      OBVIOUS
    <3>4. (s - m) % (2 * s) = s - m
      BY <3>2, <3>3
    <3> QED BY <1>3, <2>2, <3>1, <3>2, <3>4
  <2> QED BY <1>2, <2>1, <2>2
<1>9. is_nan(x) <=> m > kInfinity
  <2> DEFINE f == Fractions
             k == Exponents
             e == m \div f
             r == m % f
  <2>1. f \in Nat \ {0} /\ k \in Nat \ {0} /\ s = k * f /\ kInfinity = (k - 1) * f
    BY Widths
  <2>2. is_nan(x) <=> e = k - 1 /\ r # 0
    BY <1>2 DEF is_nan, Exponents
  <2>3. ASSUME NEW d \in Nat \ {0}, NEW n \in Nat PROVE n = d * (n \div d) + (n % d) /\ n % d \in 0 .. d - 1 /\ n \div d \in Nat
    OBVIOUS
  <2>4. m = f * e + r /\ r \in 0 .. f - 1 /\ e \in Nat
    <3>1. m \in Nat
      BY <1>1, <1>2
    <3> HIDE DEF f
    <3> QED BY <2>1, <2>3, <3>1
  <2> HIDE DEF e, r, f, k
  <2>5. ASSUME NEW a \in Nat, NEW b \in Nat, a <= b PROVE f * a <= f * b /\ f * a \in Nat /\ f * b \in Nat
    <3>1. b - a \in Nat /\ f * b = f * a + f * (b - a)
      BY <2>1, <2>5
    <3>2. f * (b - a) \in Nat /\ f * a \in Nat /\ f * b \in Nat
      BY <2>1, <3>1
    <3> QED BY <3>1, <3>2
  <2>6. k - 1 \in Nat /\ kInfinity = f * (k - 1) /\ s = f * (k - 1) + f /\ f * (k - 1) \in Nat /\ f * e \in Nat
    BY <2>1, <2>4
  <2>7. CASE e = k - 1
    BY <2>1, <2>2, <2>4, <2>6, <2>7
  <2>8. CASE e < k - 1
    <3>1. e + 1 \in Nat /\ e + 1 <= k - 1 /\ f * (e + 1) = f * e + f
      BY <2>1, <2>4, <2>6, <2>8
    <3>2. f * (e + 1) <= f * (k - 1)
      BY <2>5, <2>6, <3>1
    <3>3. m <= kInfinity
      BY <2>1, <2>4, <2>6, <3>1, <3>2
    <3> QED BY <1>1, <1>2, <2>2, <2>8, <2>6, <2>4, <3>3
  <2>9. CASE e > k - 1
    <3>1. k \in Nat /\ k <= e /\ f * k = f * (k - 1) + f
      BY <2>1, <2>4, <2>9
    <3>2. f * k <= f * e
      BY <2>4, <2>5, <3>1
    <3>3. m >= s
      BY <2>1, <2>4, <2>6, <3>1, <3>2
    <3> QED BY <1>1, <1>2, <3>3
  <2> QED BY <2>1, <2>4, <2>6, <2>7, <2>8, <2>9
<1>10. is_nan(x) <=> PlaceOfBits(x) \notin - kInfinity .. kInfinity
  <2>1. CASE sign_bit(x) = 1
    BY <1>1, <1>2, <1>3, <1>9, <2>1
  <2>2. CASE sign_bit(x) = 0
    BY <1>1, <1>2, <1>3, <1>9, <2>2
  <2> QED BY <1>2, <2>1, <2>2
<1> QED BY <1>6, <1>7, <1>8, <1>10

(* At each place up to infinity there is a number. *)
LEMMA EachPlaceTaken ==
  ASSUME NEW k \in - kInfinity .. kInfinity
  PROVE  \E x \in AllBits : PlaceOfBits(x) = k /\ ~ is_nan(x)
<1> DEFINE s == kSignBitMask
           x == IF k < 0 THEN s + (- k) ELSE k
<1>1. s \in Nat \ {0} /\ Pow2[kBitCount] = 2 * s /\ kInfinity \in 0 .. s - 1
  BY Widths
<1>2. x \in 0 .. 2 * s - 1 /\ (k < 0 => x = s + (- k) /\ - k \in 0 .. s - 1) /\ (k >= 0 => x = k /\ k \in 0 .. s - 1)
  BY <1>1
<1> HIDE DEF x
<1>3. x \in AllBits
  BY <1>1, <1>2 DEF AllBits
<1>4. x % s \in 0 .. s - 1 /\ ((sign_bit(x) = 0 /\ x = x % s) \/ (sign_bit(x) = 1 /\ x = s + (x % s)))
  BY <1>3, Signs
<1>5. PlaceOfBits(x) = k
  <2>0. PlaceOfBits(x) = IF sign_bit(x) = 1 THEN - (x % s) ELSE x % s
    BY DEF PlaceOfBits
  <2> DEFINE m == x % s
  <2>1. m \in 0 .. s - 1 /\ ((sign_bit(x) = 0 /\ x = m) \/ (sign_bit(x) = 1 /\ x = s + m))
    BY <1>4
  <2>2. PlaceOfBits(x) = IF sign_bit(x) = 1 THEN - m ELSE m
    BY <2>0
  <2> HIDE DEF m, s
  <2>3. CASE k < 0
    BY <1>1, <1>2, <2>1, <2>2, <2>3
  <2>4. CASE k >= 0
    BY <1>1, <1>2, <2>1, <2>2, <2>4
  <2>5. k \in Int
    BY <1>1
  <2> QED BY <2>3, <2>4, <2>5
<1> QED BY <1>3, <1>5, Placed

--------------------------------------------------------------------------------
(* How far apart two numbers are: the numbers that bits can stand for from    *)
(* the lesser one on, up to the other                                        *)
Numbers == {Exact(z) : z \in {z \in AllBits : ~ is_nan(z)}}
From(v, w) == {u \in Numbers : v <= u /\ u < w}
Steps(x, y) == IF Exact(x) <= Exact(y) THEN From(Exact(x), Exact(y)) ELSE From(Exact(y), Exact(x))

(* As many as the places between them *)
LEMMA FromPlaces ==
  ASSUME NEW i \in - kInfinity .. kInfinity, NEW j \in - kInfinity .. kInfinity, i <= j
  PROVE  IsFiniteSet(From(NumberAt(i), NumberAt(j))) /\ Cardinality(From(NumberAt(i), NumberAt(j))) = j - i
<1> DEFINE T == From(NumberAt(i), NumberAt(j))
           h == [k \in i .. j - 1 |-> NumberAt(k)]
<1>1. /\ kSignBitMask \in Nat \ {0} /\ kInfinity \in 0 .. kSignBitMask - 1 /\ i \in Int /\ j \in Int
      /\ \A k \in - kInfinity .. kInfinity : k \in 1 - kSignBitMask .. kSignBitMask - 1
  <2>1. kSignBitMask \in Nat \ {0} /\ kInfinity \in 0 .. kSignBitMask - 1
    BY Widths
  <2> QED BY <2>1
<1>2. \A k, l \in - kInfinity .. kInfinity :
        NumberAt(k) \in Int /\ (k < l => NumberAt(k) < NumberAt(l))
  BY <1>1, NumbersGrow
<1>3. \A k, l \in - kInfinity .. kInfinity : NumberAt(k) < NumberAt(l) <=> k < l
  <2>1. ASSUME NEW k \in - kInfinity .. kInfinity, NEW l \in - kInfinity .. kInfinity
        PROVE  NumberAt(k) < NumberAt(l) <=> k < l
    <3>1. k \in Int /\ l \in Int /\ (k < l \/ k = l \/ l < k)
      BY <1>1
    <3> QED BY <1>2, <3>1
  <2> QED BY <2>1
<1>4. Numbers = {NumberAt(k) : k \in - kInfinity .. kInfinity}
  <2>1. ASSUME NEW z \in AllBits, ~ is_nan(z) PROVE Exact(z) \in {NumberAt(k) : k \in - kInfinity .. kInfinity}
    BY <2>1, Placed
  <2>2. ASSUME NEW k \in - kInfinity .. kInfinity PROVE NumberAt(k) \in Numbers
    <3>1. PICK z \in AllBits : PlaceOfBits(z) = k /\ ~ is_nan(z)
      BY EachPlaceTaken
    <3>2. Exact(z) = NumberAt(k)
      BY <3>1, Placed
    <3> QED BY <3>1, <3>2 DEF Numbers
  <2> QED BY <2>1, <2>2 DEF Numbers
<1>5. \A k \in i .. j - 1 : k \in - kInfinity .. kInfinity /\ i <= k /\ k < j
  BY <1>1
<1>6. T = {NumberAt(k) : k \in i .. j - 1}
  <2>1. ASSUME NEW k \in i .. j - 1 PROVE NumberAt(k) \in T
    <3>1. NumberAt(i) <= NumberAt(k) /\ NumberAt(k) < NumberAt(j)
      BY <1>1, <1>2, <1>5
    <3> QED BY <1>4, <1>5, <3>1 DEF From
  <2>2. ASSUME NEW u \in T PROVE u \in {NumberAt(k) : k \in i .. j - 1}
    <3>1. PICK k \in - kInfinity .. kInfinity : u = NumberAt(k)
      BY <1>4 DEF From
    <3>2. NumberAt(i) <= NumberAt(k) /\ NumberAt(k) < NumberAt(j)
      BY <3>1 DEF From
    <3>3. k < j
      BY <1>3, <3>2
    <3>4. ~ (k < i)
      BY <1>2, <3>2
    <3>5. k \in i .. j - 1
      BY <1>1, <3>3, <3>4
    <3> QED BY <3>1, <3>5
  <2> QED BY <2>1, <2>2
<1>7. \A k, l \in i .. j - 1 : NumberAt(k) = NumberAt(l) => k = l
  <2>1. ASSUME NEW k \in i .. j - 1, NEW l \in i .. j - 1, NumberAt(k) = NumberAt(l) PROVE k = l
    <3>1. ~ (k < l) /\ ~ (l < k)
      BY <1>2, <1>5, <2>1
    <3> QED BY <1>1, <3>1
  <2> QED BY <2>1
<1>8. h \in Bijection(i .. j - 1, T)
  <2> HIDE DEF T
  <2>1. h \in [i .. j - 1 -> T]
    BY <1>6
  <2>2. \A k, l \in i .. j - 1 : h[k] = h[l] => k = l
    BY <1>7
  <2>3. \A u \in T : \E k \in i .. j - 1 : h[k] = u
    BY <1>6
  <2> HIDE DEF h
  <2> QED BY <2>1, <2>2, <2>3 DEF Bijection, Injection, Surjection, IsInjective
<1>9. ExistsBijection(i .. j - 1, T)
  BY <1>8 DEF ExistsBijection
<1>10. IsFiniteSet(i .. j - 1) /\ Cardinality(i .. j - 1) = j - i
  <2>1. j - 1 \in Int /\ (IF i > j - 1 THEN 0 ELSE (j - 1) - i + 1) = j - i
    BY <1>1
  <2> QED BY <1>1, <2>1, FS_Interval
<1> QED BY <1>9, <1>10, FS_Bijection

(* Whatever the widths: two numbers are almost equal if neither is a NaN and  *)
(* at most kMaxUlps steps from a number to the next lie between them, across  *)
(* zero, which is one number, and up to infinity; what is less or almost     *)
(* equal is at most that much greater (gtest-internal.h, AlmostEquals;       *)
(* gtest.cc, FloatingPointLE).                                               *)
THEOREM AlmostEqual ==
  ASSUME NEW x \in AllBits, NEW y \in AllBits
  PROVE  LET close == IsFiniteSet(Steps(x, y)) /\ Cardinality(Steps(x, y)) <= kMaxUlps
             nan == is_nan(x) \/ is_nan(y)
         IN  /\ AlmostEquals(x, y) <=> ~ nan /\ close
             /\ FloatingPointLE(x, y) <=> ~ nan /\ (Exact(x) <= Exact(y) \/ close)
<1> DEFINE close == IsFiniteSet(Steps(x, y)) /\ Cardinality(Steps(x, y)) <= kMaxUlps
           i == PlaceOfBits(x)
           j == PlaceOfBits(y)
<1>1. SUFFICES ASSUME ~ is_nan(x), ~ is_nan(y)
               PROVE  (AlmostEquals(x, y) <=> close) /\ (FloatingPointLE(x, y) <=> Exact(x) <= Exact(y) \/ close)
  BY Zenon DEF AlmostEquals, FloatingPointLE, Less
<1>2. /\ i \in - kInfinity .. kInfinity /\ j \in - kInfinity .. kInfinity
      /\ Exact(x) = NumberAt(i) /\ Exact(y) = NumberAt(j)
      /\ SignAndMagnitudeToBiased(x) = kSignBitMask + i /\ SignAndMagnitudeToBiased(y) = kSignBitMask + j
  BY <1>1, Placed
<1> HIDE DEF i, j
<1>3. kSignBitMask \in Nat \ {0} /\ kInfinity \in 0 .. kSignBitMask - 1 /\ i \in Int /\ j \in Int
      /\ i \in 1 - kSignBitMask .. kSignBitMask - 1 /\ j \in 1 - kSignBitMask .. kSignBitMask - 1
  <2>1. kSignBitMask \in Nat \ {0} /\ kInfinity \in 0 .. kSignBitMask - 1
    BY Widths
  <2> QED BY <1>2, <2>1
<1>4. /\ NumberAt(i) \in Int /\ NumberAt(j) \in Int
      /\ i < j => NumberAt(i) < NumberAt(j)
      /\ j < i => NumberAt(j) < NumberAt(i)
  BY <1>3, NumbersGrow
<1>5. AlmostEquals(x, y) <=> (IF i >= j THEN i - j ELSE j - i) <= kMaxUlps
  <2>1. Distance(x, y) = IF kSignBitMask + i >= kSignBitMask + j THEN (kSignBitMask + i) - (kSignBitMask + j)
                         ELSE (kSignBitMask + j) - (kSignBitMask + i)
    BY <1>2 DEF Distance
  <2>2. Distance(x, y) = IF i >= j THEN i - j ELSE j - i
    BY <1>3, <2>1
  <2> QED BY <1>1, <2>2 DEF AlmostEquals
<1>6. IsFiniteSet(Steps(x, y)) /\ Cardinality(Steps(x, y)) = IF i >= j THEN i - j ELSE j - i
  <2>1. CASE i <= j
    <3>1. Exact(x) <= Exact(y)
      BY <1>2, <1>3, <1>4, <2>1
    <3>2. Steps(x, y) = From(NumberAt(i), NumberAt(j))
      BY <1>2, <3>1 DEF Steps
    <3>3. IsFiniteSet(Steps(x, y)) /\ Cardinality(Steps(x, y)) = j - i
      BY <1>2, <2>1, <3>2, FromPlaces
    <3> QED BY <1>3, <2>1, <3>3
  <2>2. CASE j < i
    <3>1. ~ (Exact(x) <= Exact(y))
      BY <1>2, <1>4, <2>2
    <3>2. Steps(x, y) = From(NumberAt(j), NumberAt(i))
      BY <1>2, <3>1 DEF Steps
    <3>3. IsFiniteSet(Steps(x, y)) /\ Cardinality(Steps(x, y)) = i - j
      BY <1>2, <1>3, <2>2, <3>2, FromPlaces
    <3> QED BY <1>3, <2>2, <3>3
  <2> QED BY <1>3, <2>1, <2>2
<1>7. AlmostEquals(x, y) <=> close
  BY <1>5, <1>6
<1>8. FloatingPointLE(x, y) <=> Exact(x) < Exact(y) \/ AlmostEquals(x, y)
  BY <1>1 DEF FloatingPointLE, Less
<1>9. Exact(x) = Exact(y) => AlmostEquals(x, y)
  <2>1. ASSUME Exact(x) = Exact(y) PROVE AlmostEquals(x, y)
    <3>1. i = j
      BY <1>2, <1>3, <1>4, <2>1
    <3> QED BY <1>3, <1>5, <3>1, FloatingPointAssumption
  <2> QED BY <2>1
<1> HIDE DEF close
<1>10. Exact(x) <= Exact(y) <=> Exact(x) < Exact(y) \/ Exact(x) = Exact(y)
  BY <1>2, <1>4
<1> QED BY <1>7, <1>8, <1>9, <1>10

--------------------------------------------------------------------------------
(* The step from the number of the bits m to the next *)
Gap(m) == IF m \div Fractions = 0 THEN 1 ELSE Pow2[m \div Fractions - 1]

(* It is so great, no greater than the number itself, and grows with it.     *)
LEMMA Gaps ==
  ASSUME NEW m \in Nat
  PROVE  /\ Size(m) \in Nat /\ Gap(m) \in Nat \ {0} /\ Size(m + 1) = Size(m) + Gap(m)
         /\ m > 0 => Gap(m) <= Size(m)
         /\ \A n \in Nat : m <= n => Gap(m) <= Gap(n)
<1> DEFINE f == Fractions
           e == m \div f
           r == m % f
<1>1. f \in Nat \ {0}
  BY Widths
<1>2. \A i \in Nat : Pow2[i] \in Nat \ {0} /\ Pow2[i + 1] = 2 * Pow2[i]
  BY PowersMean
<1>3. ASSUME NEW d \in Nat \ {0}, NEW x \in Nat
      PROVE  x = d * (x \div d) + (x % d) /\ x % d \in 0 .. d - 1 /\ x \div d \in Nat
  OBVIOUS
<1>4. ASSUME NEW d \in Nat \ {0}, NEW q \in Nat, NEW s \in 0 .. d - 1
      PROVE  (d * q + s) \div d = q /\ (d * q + s) % d = s
  OBVIOUS
<1> HIDE DEF f
<1>5. m = f * e + r /\ r \in 0 .. f - 1 /\ e \in Nat
  BY <1>1, <1>3
<1>6. Size(m) = (IF e = 0 THEN r ELSE (f + r) * Pow2[e - 1]) /\ Gap(m) = IF e = 0 THEN 1 ELSE Pow2[e - 1]
  BY DEF Size, Gap, f
<1> HIDE DEF e, r
<1>7. Gap(m) \in Nat \ {0}
  <2>1. e # 0 => e - 1 \in Nat
    BY <1>5
  <2> QED BY <1>2, <1>6, <2>1
<1>8. ASSUME NEW g \in Nat, NEW p \in Nat PROVE g * p \in Nat
  OBVIOUS
<1>9. Size(m) \in Nat
  <2>1. e # 0 => e - 1 \in Nat /\ f + r \in Nat
    BY <1>1, <1>5
  <2> QED BY <1>1, <1>2, <1>5, <1>6, <1>8, <2>1
<1>10. Size(m + 1) = Size(m) + Gap(m)
  <2>1. CASE r + 1 < f
    <3>1. m + 1 = f * e + (r + 1) /\ r + 1 \in 0 .. f - 1
      BY <1>1, <1>5, <2>1
    <3>2. (m + 1) \div f = e /\ (m + 1) % f = r + 1
      <4>1. (f * e + (r + 1)) \div f = e /\ (f * e + (r + 1)) % f = r + 1
        BY <1>1, <1>4, <1>5, <3>1, Zenon
      <4> QED BY <3>1, <4>1, Zenon
    <3>3. Size(m + 1) = IF e = 0 THEN r + 1 ELSE (f + (r + 1)) * Pow2[e - 1]
      BY <3>2 DEF Size, f
    <3>4. ASSUME NEW a \in Nat, NEW b \in Nat, NEW p \in Nat PROVE (a + (b + 1)) * p = (a + b) * p + p
      OBVIOUS
    <3>5. CASE e = 0
      BY <1>6, <3>3, <3>5
    <3>6. CASE e # 0
      <4>1. Pow2[e - 1] \in Nat /\ r \in Nat /\ f \in Nat
        BY <1>1, <1>2, <1>5, <3>6
      <4>2. (f + (r + 1)) * Pow2[e - 1] = (f + r) * Pow2[e - 1] + Pow2[e - 1]
        BY <3>4, <4>1
      <4> QED BY <1>6, <3>3, <3>6, <4>2
    <3> QED BY <3>5, <3>6
  <2>2. CASE r + 1 = f
    <3>1. m + 1 = f * (e + 1) + 0 /\ 0 \in 0 .. f - 1 /\ e + 1 \in Nat /\ e + 1 # 0 /\ (e + 1) - 1 = e
      BY <1>1, <1>5, <2>2
    <3>2. (m + 1) \div f = e + 1 /\ (m + 1) % f = 0
      <4>1. (f * (e + 1) + 0) \div f = e + 1 /\ (f * (e + 1) + 0) % f = 0
        BY <1>1, <1>4, <3>1, Zenon
      <4> QED BY <3>1, <4>1, Zenon
    <3>3. Size(m + 1) = (f + 0) * Pow2[e]
      BY <3>1, <3>2 DEF Size, f
    <3>4. CASE e = 0
      <4>1. Pow2[e] = 1
        BY <3>4, PowersMean
      <4> QED BY <1>1, <1>5, <1>6, <2>2, <3>3, <3>4, <4>1
    <3>5. CASE e # 0
      <4>1. e - 1 \in Nat /\ (e - 1) + 1 = e
        BY <1>5, <3>5
      <4>2. Pow2[e] = 2 * Pow2[e - 1] /\ Pow2[e - 1] \in Nat
        BY <1>2, <4>1
      <4>3. ASSUME NEW a \in Nat, NEW p \in Nat PROVE ((a + 1) + 0) * (2 * p) = ((a + 1) + a) * p + p
        OBVIOUS
      <4>4. r \in Nat
        BY <1>1, <1>5
      <4>5. ((r + 1) + 0) * (2 * Pow2[e - 1]) = ((r + 1) + r) * Pow2[e - 1] + Pow2[e - 1]
        BY <4>2, <4>3, <4>4
      <4> QED BY <1>6, <2>2, <3>3, <3>5, <4>2, <4>5
    <3> QED BY <3>4, <3>5
  <2> QED BY <1>1, <1>5, <2>1, <2>2
<1>11. ASSUME m > 0 PROVE Gap(m) <= Size(m)
  <2>1. CASE e = 0
    BY <1>1, <1>5, <1>6, <1>11, <2>1
  <2>2. CASE e # 0
    <3>1. Pow2[e - 1] \in Nat /\ f + r \in Nat \ {0}
      BY <1>1, <1>2, <1>5, <2>2
    <3>2. \A a \in Nat \ {0}, p \in Nat : p <= a * p
      OBVIOUS
    <3> QED BY <1>6, <2>2, <3>1, <3>2
  <2> QED BY <2>1, <2>2
<1>12. ASSUME NEW n \in Nat, m <= n PROVE Gap(m) <= Gap(n)
  <2> DEFINE d == n \div f
  <2>1. n = f * d + (n % f) /\ n % f \in 0 .. f - 1 /\ d \in Nat
    BY <1>1, <1>3
  <2>2. Gap(n) = IF d = 0 THEN 1 ELSE Pow2[d - 1]
    BY DEF Gap, f
  <2> HIDE DEF d
  <2>3. e <= d
    <3>1. SUFFICES ASSUME d < e PROVE FALSE
      BY <1>5, <2>1
    <3>2. e - d - 1 \in Nat /\ f * e = f * d + f + f * (e - d - 1)
      BY <1>1, <1>5, <2>1, <3>1
    <3>3. f * (e - d - 1) \in Nat /\ f * d \in Nat /\ f * e \in Nat
      BY <1>1, <1>5, <1>8, <2>1, <3>2
    <3> QED BY <1>1, <1>5, <1>12, <2>1, <3>2, <3>3
  <2>4. CASE e = 0
    <3>1. d # 0 => d - 1 \in Nat
      BY <2>1
    <3>2. \A p \in Nat \ {0} : 1 <= p
      OBVIOUS
    <3> QED BY <1>2, <1>6, <2>2, <2>4, <3>1, <3>2
  <2>5. CASE e # 0
    <3>1. d # 0 /\ e - 1 \in Nat /\ d - 1 \in Nat /\ e - 1 <= d - 1
      BY <1>5, <2>1, <2>3, <2>5
    <3>2. Pow2[e - 1] <= Pow2[d - 1]
      BY <3>1, PowersGrow
    <3> QED BY <1>6, <2>2, <2>5, <3>1, <3>2
  <2> QED BY <2>4, <2>5
<1> QED BY <1>7, <1>9, <1>10, <1>11, <1>12

(* How far apart the numbers at two places are *)
Between(i, j) == IF NumberAt(i) >= NumberAt(j) THEN NumberAt(i) - NumberAt(j) ELSE NumberAt(j) - NumberAt(i)
Distant(i) == IF i < 0 THEN - i ELSE i

(* At least the step from any number as near to zero as both *)
LEMMA GapBetween ==
  ASSUME NEW i \in 1 - kSignBitMask .. kSignBitMask - 1, NEW j \in 1 - kSignBitMask .. kSignBitMask - 1,
         NEW m \in Nat, i # j, m <= Distant(i), Distant(i) <= Distant(j)
  PROVE  Between(i, j) \in Nat /\ Gap(m) <= Between(i, j)
<1> DEFINE a == Distant(i)
           b == Distant(j)
           s == kSignBitMask
<1>1. s \in Nat \ {0}
  BY Widths
<1>2. a \in 0 .. s - 1 /\ b \in 0 .. s - 1
  BY <1>1 DEF Distant
<1>3. Size(a) \in Nat /\ Size(b) \in Nat /\ Size(0) = 0 /\ (a < b => Size(a) < Size(b))
  BY <1>2, SizesGrow
<1>4. NumberAt(i) = (IF i < 0 THEN - Size(a) ELSE Size(a)) /\ NumberAt(j) = IF j < 0 THEN - Size(b) ELSE Size(b)
  BY DEF NumberAt, Distant
<1>5. Gap(m) \in Nat /\ Gap(a) \in Nat /\ Gap(b) \in Nat /\ Gap(m) <= Gap(a) /\ Gap(a) <= Gap(b)
      /\ Size(a + 1) = Size(a) + Gap(a) /\ (b > 0 => Gap(b) <= Size(b))
  <2>1. a \in Nat /\ b \in Nat
    BY <1>1, <1>2
  <2> QED BY <2>1, Gaps
<1>6. /\ (i < 0 <=> j < 0) => a < b
      /\ ~ (i < 0 <=> j < 0) => b > 0
  BY <1>1 DEF Distant
<1> HIDE DEF a, b, s
<1>7. CASE (i < 0 <=> j < 0)
  <2>1. a < b
    BY <1>6, <1>7
  <2>2. Size(a + 1) <= Size(b)
    <3>1. CASE a + 1 = b
      BY <1>3, <3>1
    <3>2. CASE a + 1 # b
      <4>1. a + 1 \in 0 .. s - 1 /\ a + 1 < b
        BY <1>1, <1>2, <2>1, <3>2
      <4>2. Size(a + 1) \in Nat /\ Size(a + 1) < Size(b)
        BY <1>2, <4>1, SizesGrow DEF s
      <4> QED BY <1>3, <4>2
    <3> QED BY <3>1, <3>2
  <2>3. Between(i, j) = Size(b) - Size(a)
    <3>1. Size(a) < Size(b)
      BY <1>3, <2>1
    <3> QED BY <1>3, <1>4, <1>7, <3>1 DEF Between
  <2> QED BY <1>3, <1>5, <2>2, <2>3
<1>8. CASE ~ (i < 0 <=> j < 0)
  <2>1. Between(i, j) = Size(a) + Size(b)
    BY <1>3, <1>4, <1>8 DEF Between
  <2>2. Gap(b) <= Size(b)
    BY <1>5, <1>6, <1>8
  <2> QED BY <1>3, <1>5, <2>1, <2>2
<1> QED BY <1>7, <1>8

(* Numbers by the distance of their places from zero *)
LEMMA Distances ==
  ASSUME NEW x \in AllBits
  PROVE  /\ Fabs(x) = Distant(PlaceOfBits(x)) /\ Fabs(x) \in AllBits /\ Fabs(x) \in 0 .. kSignBitMask - 1
         /\ is_nan(Fabs(x)) <=> is_nan(x)
         /\ is_nan(x) <=> Fabs(x) > kInfinity
         /\ is_inf(x) <=> Fabs(x) = kInfinity
<1>1. kSignBitMask \in Nat \ {0} /\ Pow2[kBitCount] = 2 * kSignBitMask /\ kInfinity \in 0 .. kSignBitMask - 1
  BY Widths
<1>2. Fabs(x) = x % kSignBitMask /\ Fabs(x) \in 0 .. kSignBitMask - 1
  BY Signs DEF Fabs
<1>3. ASSUME NEW u \in AllBits
      PROVE  is_nan(u) <=> u % kSignBitMask > kInfinity
  <2> DEFINE m == u % kSignBitMask
  <2>1. m \in 0 .. kSignBitMask - 1
    BY Signs
  <2>2. PlaceOfBits(u) = IF sign_bit(u) = 1 THEN - m ELSE m
    BY DEF PlaceOfBits
  <2>3. is_nan(u) <=> PlaceOfBits(u) \notin - kInfinity .. kInfinity
    BY Placed
  <2> HIDE DEF m
  <2>4. is_nan(u) <=> m > kInfinity
    <3>1. CASE sign_bit(u) = 1
      BY <1>1, <2>1, <2>2, <2>3, <3>1
    <3>2. CASE sign_bit(u) # 1
      BY <1>1, <2>1, <2>2, <2>3, <3>2
    <3> QED BY <3>1, <3>2
  <2> QED BY <2>4 DEF m
<1>4. Fabs(x) = Distant(PlaceOfBits(x))
  <2> DEFINE m == x % kSignBitMask
  <2>1. m \in 0 .. kSignBitMask - 1 /\ Fabs(x) = m
    BY <1>2
  <2>2. PlaceOfBits(x) = IF sign_bit(x) = 1 THEN - m ELSE m
    BY DEF PlaceOfBits
  <2> HIDE DEF m
  <2> QED BY <1>1, <2>1, <2>2 DEF Distant
<1>5. Fabs(x) \in AllBits
  BY <1>1, <1>2 DEF AllBits
<1>6. Fabs(x) % kSignBitMask = Fabs(x)
  <2>1. ASSUME NEW s \in Nat \ {0}, NEW m \in 0 .. s - 1 PROVE m % s = m
    OBVIOUS
  <2> QED BY <1>1, <1>2, <2>1
<1>7. is_nan(x) <=> Fabs(x) > kInfinity
  BY <1>2, <1>3
<1>8. is_nan(Fabs(x)) <=> Fabs(x) > kInfinity
  BY <1>3, <1>5, <1>6
<1> QED BY <1>2, <1>4, <1>5, <1>7, <1>8 DEF is_inf

(* Bits up to infinity, without a sign, are their own place.                 *)
LEMMA Unsigned ==
  ASSUME NEW m \in 0 .. kInfinity
  PROVE  m \in AllBits /\ ~ is_nan(m) /\ Exact(m) = Size(m) /\ Size(m) \in Nat /\ m \in 0 .. kSignBitMask - 1
         /\ m % kSignBitMask = m /\ PlaceOfBits(m) = m
<1>1. kSignBitMask \in Nat \ {0} /\ Pow2[kBitCount] = 2 * kSignBitMask /\ kInfinity \in 0 .. kSignBitMask - 1
  BY Widths
<1>2. m \in AllBits /\ m \in 0 .. kSignBitMask - 1
  BY <1>1 DEF AllBits
<1>3. m % kSignBitMask = m /\ sign_bit(m) = 0
  <2>1. ASSUME NEW s \in Nat \ {0}, NEW n \in 0 .. s - 1 PROVE n % s = n /\ n \div s = 0
    OBVIOUS
  <2> QED BY <1>1, <1>2, <2>1 DEF sign_bit
<1>4. PlaceOfBits(m) = m
  BY <1>3 DEF PlaceOfBits
<1>5. NumberAt(m) = Size(m) /\ Size(m) \in Nat
  BY <1>1, <1>2, SizesGrow DEF NumberAt
<1>6. Exact(m) = Size(m) /\ ~ is_nan(m)
  BY <1>1, <1>2, <1>4, <1>5, Placed
<1> QED BY <1>2, <1>3, <1>4, <1>5, <1>6

(* What a distance is rounded to: the greatest number that is not above it,  *)
(* or the next one                                                           *)
Nearer(b, n) == 2 * n < Size(b) + Size(b + 1) \/ (2 * n = Size(b) + Size(b + 1) /\ b % 2 = 0)
IsBelow(b, n) == b \in 0 .. kInfinity /\ Size(b) <= n /\ \A c \in 0 .. kInfinity : Size(c) <= n => c <= b

(* There is a greatest one, and the rounding starts from it. *)
LEMMA Below ==
  ASSUME NEW n \in Nat
  PROVE  \E b \in 0 .. kInfinity : IsBelow(b, n) /\ Nearest(n) = IF b = kInfinity \/ Nearer(b, n) THEN b ELSE b + 1
<1>1. kInfinity \in Nat /\ kInfinity \in 0 .. kSignBitMask - 1 /\ kSignBitMask \in Nat
  BY Widths
<1> DEFINE T == {y \in 0 .. kInfinity : \A c \in 0 .. kInfinity : Size(c) <= n => c <= y}
<1>2. kInfinity \in T /\ T \subseteq Nat
  BY <1>1
<1>3. PICK b \in T : \A y \in T : b <= y
  <2> HIDE DEF T
  <2> QED BY <1>2, LeastNumber
<1>4. \A c \in 0 .. kInfinity : Size(c) \in Nat /\ (c < b => Size(c) < Size(b)) /\ Size(0) = 0
  <2>1. ASSUME NEW c \in 0 .. kInfinity PROVE Size(c) \in Nat /\ (c < b => Size(c) < Size(b)) /\ Size(0) = 0
    <3>1. c \in 0 .. kSignBitMask - 1 /\ b \in 0 .. kSignBitMask - 1
      BY <1>1
    <3> QED BY <3>1, SizesGrow
  <2> QED BY <2>1
<1>5. Size(b) <= n
  <2>1. CASE b = 0
    <3>1. Size(b) = 0
      BY <1>1, <1>4, <2>1
    <3> QED BY <3>1
  <2>2. CASE b # 0
    <3>1. b - 1 \in 0 .. kInfinity /\ ~ (b <= b - 1)
      BY <1>1, <2>2
    <3>2. PICK c \in 0 .. kInfinity : Size(c) <= n /\ ~ (c <= b - 1)
      BY <1>3, <3>1
    <3>3. c <= b
      BY <3>2
    <3>4. c = b
      BY <1>1, <3>2, <3>3
    <3> QED BY <3>2, <3>4
  <2> QED BY <2>1, <2>2
<1>6. IsBelow(b, n)
  BY <1>5 DEF IsBelow
<1>7. {x \in 0 .. kInfinity : Exact(x) <= n} = 0 .. b
  <2>1. ASSUME NEW x \in 0 .. kInfinity PROVE Exact(x) <= n <=> x <= b
    <3>1. Exact(x) = Size(x) /\ Size(x) \in Nat /\ Size(b) \in Nat
      BY <1>4, Unsigned
    <3>2. CASE x <= b
      <4>1. Size(x) <= Size(b)
        <5>1. x < b \/ x = b
          BY <1>1, <3>2
        <5> QED BY <1>4, <3>1, <5>1
      <4> QED BY <1>5, <3>1, <3>2, <4>1
    <3>3. CASE ~ (x <= b)
      BY <3>1, <3>3
    <3> QED BY <3>2, <3>3
  <2>2. \A x \in Int : x \in 0 .. b <=> x \in 0 .. kInfinity /\ x <= b
    BY <1>1
  <2> HIDE DEF T
  <2> QED BY <1>1, <2>1, <2>2
<1>8. Cardinality({x \in 0 .. kInfinity : Exact(x) <= n}) - 1 = b
  <2>1. b \in Int /\ 0 <= b
    BY <1>1
  <2>2. Cardinality(0 .. b) = b - 0 + 1
    BY <2>1, FS_Interval
  <2>3. Cardinality(0 .. b) - 1 = b
    BY <2>1, <2>2
  <2> HIDE DEF T
  <2> QED BY <1>7, <2>3, Zenon
<1>9. b # kInfinity => Exact(b) = Size(b) /\ Exact(b + 1) = Size(b + 1)
  <2>1. b # kInfinity => b + 1 \in 0 .. kInfinity
    BY <1>1
  <2> QED BY <2>1, Unsigned
<1>10. Nearest(n) = IF b = kInfinity \/ Nearer(b, n) THEN b ELSE b + 1
  BY <1>8, <1>9 DEF Nearest, Nearer
<1> QED BY <1>6, <1>10

(* Of two distances the greater one is rounded to the greater number, *)
LEMMA NearestGrows ==
  ASSUME NEW m \in Nat, NEW n \in Nat, m <= n
  PROVE  Nearest(m) \in 0 .. kInfinity /\ Nearest(n) \in 0 .. kInfinity /\ Nearest(m) <= Nearest(n)
<1>1. PICK b \in 0 .. kInfinity : IsBelow(b, m) /\ Nearest(m) = IF b = kInfinity \/ Nearer(b, m) THEN b ELSE b + 1
  BY Below
<1>2. PICK c \in 0 .. kInfinity : IsBelow(c, n) /\ Nearest(n) = IF c = kInfinity \/ Nearer(c, n) THEN c ELSE c + 1
  BY Below
<1>3. kInfinity \in Nat
  BY Widths
<1>4. Size(b) \in Nat
  BY Unsigned
<1>5. b <= c
  <2>1. Size(b) <= n
    BY <1>1, <1>4 DEF IsBelow
  <2> QED BY <1>2, <2>1 DEF IsBelow
<1>6. Nearest(m) \in 0 .. kInfinity /\ Nearest(m) \in {b, b + 1} /\ Nearest(n) \in 0 .. kInfinity /\ Nearest(n) \in {c, c + 1}
  BY <1>1, <1>2, <1>3
<1>7. CASE b < c
  BY <1>3, <1>6, <1>7
<1>8. CASE b = c
  <2>1. CASE Nearest(n) = c + 1
    BY <1>3, <1>6, <1>8, <2>1
  <2>2. CASE Nearest(n) # c + 1
    <3>1. c = kInfinity \/ Nearer(c, n)
      BY <1>2, <2>2
    <3>2. CASE c = kInfinity
      BY <1>1, <1>2, <1>8, <3>2
    <3>3. CASE c # kInfinity
      <4>1. c + 1 \in 0 .. kInfinity
        BY <1>3, <3>3
      <4>2. Size(c + 1) \in Nat /\ Size(c) \in Nat
        BY <4>1, Unsigned
      <4>3. Nearer(c, m)
        <5> DEFINE p == Size(c) + Size(c + 1)
        <5>1. p \in Nat /\ (2 * n < p \/ (2 * n = p /\ c % 2 = 0))
          BY <3>1, <3>3, <4>2 DEF Nearer
        <5> HIDE DEF p
        <5>2. 2 * m < p \/ (2 * m = p /\ c % 2 = 0)
          BY <5>1
        <5> QED BY <5>2 DEF Nearer, p
      <4> QED BY <1>1, <1>2, <1>8, <3>1, <4>3
    <3> QED BY <3>2, <3>3
  <2> QED BY <2>1, <2>2
<1> QED BY <1>3, <1>5, <1>6, <1>7, <1>8

(* none to zero, and one beyond all numbers to infinity.                     *)
LEMMA NearestEnds ==
  Nearest(0) = 0 /\ \A n \in Nat : Size(kInfinity) <= n => Nearest(n) = kInfinity
<1>1. kInfinity \in Nat /\ kInfinity \in 0 .. kInfinity
  BY Widths
<1>2. ASSUME NEW n \in Nat, Size(kInfinity) <= n PROVE Nearest(n) = kInfinity
  <2>1. PICK b \in 0 .. kInfinity : IsBelow(b, n) /\ Nearest(n) = IF b = kInfinity \/ Nearer(b, n) THEN b ELSE b + 1
    BY Below
  <2>2. b = kInfinity
    BY <1>1, <1>2, <2>1 DEF IsBelow
  <2> QED BY <2>1, <2>2
<1>3. Nearest(0) = 0
  <2>1. PICK b \in 0 .. kInfinity : IsBelow(b, 0) /\ Nearest(0) = IF b = kInfinity \/ Nearer(b, 0) THEN b ELSE b + 1
    BY Below
  <2>2. 0 \in 0 .. kInfinity /\ Size(0) = 0 /\ Size(b) \in Nat /\ (0 < b => Size(0) < Size(b))
    <3>1. 0 \in 0 .. kInfinity
      BY <1>1
    <3>2. 0 \in 0 .. kSignBitMask - 1 /\ b \in 0 .. kSignBitMask - 1
      BY <3>1, Unsigned
    <3> QED BY <3>1, <3>2, SizesGrow
  <2>3. b = 0
    BY <1>1, <2>1, <2>2 DEF IsBelow
  <2>4. kInfinity # 0 => Nearer(0, 0)
    <3>1. ASSUME kInfinity # 0 PROVE Nearer(0, 0)
      <4>1. Size(0 + 1) = Size(0) + Gap(0) /\ Gap(0) \in Nat \ {0}
        BY Gaps
      <4> QED BY <2>2, <4>1 DEF Nearer
    <3> QED BY <3>1
  <2> QED BY <2>1, <2>3, <2>4
<1> QED BY <1>2, <1>3

(* Infinity is not zero: there is a bit for the exponent.                    *)
LEMMA SomeFinite ==
  kInfinity > 0
<1>1. kExponentBitCount - 1 \in Nat /\ (kExponentBitCount - 1) + 1 = kExponentBitCount
  BY FloatingPointAssumption
<1>2. Exponents = 2 * Pow2[kExponentBitCount - 1] /\ Pow2[kExponentBitCount - 1] \in Nat \ {0}
  BY <1>1, PowersMean DEF Exponents
<1>3. Exponents - 1 \in Nat \ {0} /\ Fractions \in Nat \ {0} /\ kInfinity = (Exponents - 1) * Fractions
  BY <1>2, Widths
<1>4. \A a, b \in Nat \ {0} : a * b > 0
  OBVIOUS
<1> QED BY <1>3, <1>4

(* How far two numbers are apart, rounded                                    *)
LEMMA Aparts ==
  ASSUME NEW x \in AllBits, NEW y \in AllBits, ~ is_nan(x), ~ is_nan(y)
  PROVE  /\ ~ is_inf(x) /\ ~ is_inf(y) => Apart(x, y) = Nearest(Between(PlaceOfBits(x), PlaceOfBits(y)))
         /\ (is_inf(x) \/ is_inf(y)) /\ ~ (is_inf(x) /\ x = y) => Apart(x, y) = kInfinity
<1>1. Exact(x) = NumberAt(PlaceOfBits(x)) /\ Exact(y) = NumberAt(PlaceOfBits(y))
  BY Placed
<1> QED BY <1>1 DEF Apart, Between

(* The matchers DoubleNear() and FloatNear() agree with EXPECT_NEAR() about    *)
(* all but two infinities of one sign, which have no difference              *)
(* (gmock-matchers.h, FloatingEqMatcher; gtest.cc, DoubleNearPredFormat).    *)
THEOREM MatcherAgrees ==
  ASSUME NEW x \in AllBits, NEW y \in AllBits, NEW error \in AllBits,
         AtMost(0, error), ~ is_nan(x), ~ is_nan(y), ~ (is_inf(x) /\ x = y)
  PROVE  DoubleNearPredFormat(x, y, error) = "passed" <=> FloatingEq(x, y, FALSE, error)
<1>1. DoubleNearPredFormat(x, y, error) = "passed" <=> AtMost(Apart(x, y), error)
  BY DEF DoubleNearPredFormat
<1>2. FloatingEq(x, y, FALSE, error) <=> Exact(x) = Exact(y) \/ AtMost(Apart(x, y), error)
  BY DEF FloatingEq
<1>3. ASSUME Exact(x) = Exact(y) PROVE Apart(x, y) = 0
  <2> DEFINE i == PlaceOfBits(x)
             j == PlaceOfBits(y)
  <2>1. /\ i \in - kInfinity .. kInfinity /\ j \in - kInfinity .. kInfinity
        /\ Exact(x) = NumberAt(i) /\ Exact(y) = NumberAt(j)
    BY Placed
  <2> HIDE DEF i, j
  <2>2. kSignBitMask \in Nat /\ kInfinity \in 0 .. kSignBitMask - 1
    BY Widths
  <2>3. i \in 1 - kSignBitMask .. kSignBitMask - 1 /\ j \in 1 - kSignBitMask .. kSignBitMask - 1
    BY <2>1, <2>2
  <2>4. NumberAt(i) \in Int /\ NumberAt(j) \in Int /\ ~ (i < j) /\ ~ (j < i)
    <3>1. /\ NumberAt(i) \in Int /\ NumberAt(j) \in Int
          /\ i < j => NumberAt(i) < NumberAt(j)
          /\ j < i => NumberAt(j) < NumberAt(i)
      BY <2>3, NumbersGrow
    <3>2. NumberAt(i) = NumberAt(j)
      BY <1>3, <2>1, Zenon
    <3>3. \A a, b \in Int : a = b => ~ (a < b) /\ ~ (b < a)
      OBVIOUS
    <3> QED BY <3>1, <3>2, <3>3, Zenon
  <2>5. i = j
    BY <2>3, <2>2, <2>4
  <2>6. Fabs(x) = Fabs(y) /\ (is_inf(x) <=> is_inf(y))
    BY <2>5, Distances DEF i, j
  <2>7. ~ is_inf(x)
    <3>1. SUFFICES ASSUME is_inf(x) PROVE x = y
      OBVIOUS
    <3> DEFINE m == x % kSignBitMask
               n == y % kSignBitMask
    <3>2. /\ m \in 0 .. kSignBitMask - 1 /\ n \in 0 .. kSignBitMask - 1
          /\ (sign_bit(x) = 0 /\ x = m) \/ (sign_bit(x) = 1 /\ x = kSignBitMask + m)
          /\ (sign_bit(y) = 0 /\ y = n) \/ (sign_bit(y) = 1 /\ y = kSignBitMask + n)
      BY Signs
    <3>3. m = kInfinity /\ n = kInfinity /\ kInfinity > 0
      <4>1. m = kInfinity /\ n = kInfinity
        BY <2>6, <3>1 DEF is_inf
      <4> QED BY <4>1, SomeFinite
    <3>4. i = (IF sign_bit(x) = 1 THEN - m ELSE m) /\ j = IF sign_bit(y) = 1 THEN - n ELSE n
      BY DEF i, j, PlaceOfBits
    <3> HIDE DEF m, n
    <3>5. sign_bit(x) = sign_bit(y)
      <4>1. - kInfinity # kInfinity
        BY <2>2, <3>3
      <4> QED BY <2>5, <3>2, <3>3, <3>4, <4>1, Zenon
    <3> QED BY <3>2, <3>3, <3>5
  <2>8. Apart(x, y) = Nearest(Between(i, j))
    BY <2>6, <2>7, Aparts DEF i, j
  <2>9. Between(i, j) = 0
    BY <2>4, <2>5 DEF Between
  <2> QED BY <2>8, <2>9, NearestEnds
<1> QED BY <1>1, <1>2, <1>3

(* What fabs() of infinity less infinity gives is a NaN: there is a bit for  *)
(* the fraction.                                                             *)
LEMMA NaNIsOne ==
  is_nan(NaN)
<1>1. Fractions = 2 * Pow2[kFractionBitCount - 1] /\ Pow2[kFractionBitCount - 1] \in Nat \ {0}
  <2>1. kFractionBitCount - 1 \in Nat /\ (kFractionBitCount - 1) + 1 = kFractionBitCount
    BY FloatingPointAssumption
  <2> QED BY <2>1, PowersMean DEF Fractions
<1>2. /\ kSignBitMask \in Nat \ {0} /\ Pow2[kBitCount] = 2 * kSignBitMask /\ kInfinity \in 0 .. kSignBitMask - 1
      /\ kSignBitMask = kInfinity + Fractions
  <2>1. ASSUME NEW a \in Nat, NEW f \in Nat PROVE a * f = (a - 1) * f + f
    OBVIOUS
  <2> QED BY <2>1, Widths
<1>3. kInfinity + 1 \in 0 .. kSignBitMask - 1 /\ kInfinity + 1 \in AllBits
  BY <1>1, <1>2 DEF AllBits
<1>4. Fabs(kInfinity + 1) = kInfinity + 1
  <2>1. ASSUME NEW s \in Nat \ {0}, NEW n \in 0 .. s - 1 PROVE n % s = n
    OBVIOUS
  <2> QED BY <1>2, <1>3, <2>1 DEF Fabs
<1>5. is_nan(kInfinity + 1) <=> Fabs(kInfinity + 1) > kInfinity
  BY <1>3, Distances
<1> QED BY <1>2, <1>4, <1>5 DEF NaN

(* The bound is less than a number: all that is not less is beyond it.       *)
LEMMA BeyondBound ==
  ASSUME NEW error \in AllBits, NEW m \in 0 .. kInfinity, NEW n \in 0 .. kInfinity, Less(error, m), m <= n
  PROVE  ~ AtMost(n, error)
<1>1. Exact(m) = Size(m) /\ Exact(n) = Size(n) /\ Size(m) \in Nat /\ Size(n) \in Nat
      /\ m \in 0 .. kSignBitMask - 1 /\ n \in 0 .. kSignBitMask - 1
  BY Unsigned
<1>2. Size(m) <= Size(n)
  <2>1. CASE m = n
    BY <1>1, <2>1
  <2>2. CASE m < n
    BY <1>1, <2>2, SizesGrow
  <2>3. m \in Int /\ n \in Int
    BY Widths
  <2> QED BY <2>1, <2>2, <2>3
<1>3. Exact(error) \in Int
  <2>1. /\ Exact(error) = NumberAt(PlaceOfBits(error))
        /\ PlaceOfBits(error) \in 1 - kSignBitMask .. kSignBitMask - 1
    BY Placed
  <2> QED BY <2>1, NumbersGrow
<1>4. Exact(error) < Exact(m)
  BY DEF Less
<1>5. ~ (Exact(n) <= Exact(error))
  BY <1>1, <1>2, <1>3, <1>4
<1> QED BY <1>5 DEF AtMost

(* The advice of EXPECT_NEAR() that the bound is too small is true: with a    *)
(* bound that gets it for one number, no comparison of it passes with a      *)
(* number that is as great and differs, whatever the widths (gtest.cc,       *)
(* DoubleNearPredFormat).                                                    *)
THEOREM AdviceTrue ==
  ASSUME NEW x \in AllBits, NEW y \in AllBits, NEW error \in AllBits,
         DoubleNearPredFormat(x, y, error) = "advised",
         NEW z \in AllBits, AtMost(Fabs(x), Fabs(z)), Exact(x) # Exact(z)
  PROVE  DoubleNearPredFormat(x, z, error) # "passed"
<1> DEFINE m == IF Less(Fabs(y), Fabs(x)) THEN Fabs(y) ELSE Fabs(x)
           next == IF m = kInfinity THEN m ELSE m + 1
           i == PlaceOfBits(x)
           j == PlaceOfBits(z)
<1>1. kInfinity \in Nat /\ kInfinity > 0 /\ kInfinity \in 0 .. kSignBitMask - 1 /\ kSignBitMask \in Nat
  BY Widths, SomeFinite
<1>2. ~ is_nan(x) /\ ~ is_nan(y) /\ Less(error, Apart(next, m))
  BY DEF DoubleNearPredFormat
<1>3. SUFFICES ~ AtMost(Apart(x, z), error)
  BY DEF DoubleNearPredFormat
<1>4. /\ Fabs(x) = Distant(i) /\ Fabs(z) = Distant(j)
      /\ (is_inf(x) <=> Fabs(x) = kInfinity) /\ (is_inf(z) <=> Fabs(z) = kInfinity)
      /\ Fabs(x) \in 0 .. kInfinity /\ Fabs(y) \in 0 .. kInfinity
  <2>1. /\ Fabs(x) \in 0 .. kSignBitMask - 1 /\ ~ (Fabs(x) > kInfinity)
        /\ Fabs(y) \in 0 .. kSignBitMask - 1 /\ ~ (Fabs(y) > kInfinity)
    BY <1>2, Distances
  <2>2. Fabs(x) \in 0 .. kInfinity /\ Fabs(y) \in 0 .. kInfinity
    BY <1>1, <2>1
  <2> QED BY <2>2, Distances
<1>5. ~ is_nan(z) /\ Fabs(z) \in 0 .. kInfinity
  <2>1. ~ is_nan(Fabs(z))
    BY DEF AtMost
  <2>2. ~ is_nan(z) /\ Fabs(z) \in 0 .. kSignBitMask - 1 /\ ~ (Fabs(z) > kInfinity)
    BY <2>1, Distances
  <2> QED BY <1>1, <2>2
(* The places of the three numbers in order *)
<1>6. ASSUME NEW a \in 0 .. kInfinity, NEW b \in 0 .. kInfinity
      PROVE  (Exact(a) < Exact(b) <=> a < b) /\ (Exact(a) <= Exact(b) <=> a <= b) /\ ~ is_nan(a) /\ ~ is_nan(b)
  <2>1. /\ Exact(a) = Size(a) /\ Size(a) \in Nat /\ Exact(b) = Size(b) /\ Size(b) \in Nat /\ ~ is_nan(a) /\ ~ is_nan(b)
        /\ a \in 0 .. kSignBitMask - 1 /\ b \in 0 .. kSignBitMask - 1
    BY Unsigned
  <2>2. (a < b => Size(a) < Size(b)) /\ (b < a => Size(b) < Size(a))
    BY <2>1, SizesGrow
  <2>3. a \in Int /\ b \in Int
    BY <1>1
  <2>4. a = b => Size(a) = Size(b)
    OBVIOUS
  <2> QED BY <2>1, <2>2, <2>3, <2>4
<1>7. m \in 0 .. kInfinity /\ m <= Distant(i) /\ Distant(i) <= Distant(j)
  <2>1. Less(Fabs(y), Fabs(x)) => Fabs(y) < Fabs(x)
    BY <1>4, <1>6 DEF Less
  <2>2. Fabs(x) <= Fabs(z)
    BY <1>4, <1>5, <1>6 DEF AtMost
  <2> QED BY <1>1, <1>4, <2>1, <2>2
<1>8. /\ i \in - kInfinity .. kInfinity /\ j \in - kInfinity .. kInfinity /\ i # j
      /\ i \in 1 - kSignBitMask .. kSignBitMask - 1 /\ j \in 1 - kSignBitMask .. kSignBitMask - 1
      /\ Exact(x) = NumberAt(i) /\ Exact(z) = NumberAt(j)
  <2>1. /\ i \in - kInfinity .. kInfinity /\ j \in - kInfinity .. kInfinity
        /\ i \in 1 - kSignBitMask .. kSignBitMask - 1 /\ j \in 1 - kSignBitMask .. kSignBitMask - 1
        /\ Exact(x) = NumberAt(i) /\ Exact(z) = NumberAt(j)
    BY <1>2, <1>5, Placed
  <2> HIDE DEF i, j
  <2> QED BY <2>1
(* What the bound is compared with *)
<1>9. m # kInfinity
  <2>1. SUFFICES ASSUME m = kInfinity PROVE FALSE
    OBVIOUS
  <2>2. next = kInfinity /\ is_inf(kInfinity)
    <3>1. kInfinity % kSignBitMask = kInfinity
      BY <1>1, Unsigned
    <3> QED BY <2>1, <3>1 DEF is_inf
  <2>3. Apart(next, m) = NaN
    BY <2>1, <2>2 DEF Apart
  <2>4. is_nan(NaN)
    BY NaNIsOne
  <2> QED BY <1>2, <2>3, <2>4 DEF Less
<1>10. m < kInfinity /\ next = m + 1 /\ m + 1 \in 0 .. kInfinity /\ m \in Nat
  BY <1>1, <1>7, <1>9
<1>11. /\ m \in AllBits /\ m + 1 \in AllBits /\ ~ is_nan(m) /\ ~ is_nan(m + 1)
       /\ ~ is_inf(m) /\ (is_inf(m + 1) <=> m + 1 = kInfinity)
       /\ PlaceOfBits(m) = m /\ PlaceOfBits(m + 1) = m + 1
  <2> HIDE DEF m, next
  <2> QED BY <1>7, <1>9, <1>10, Unsigned DEF is_inf
<1>12. is_inf(x) \/ is_inf(z) => Apart(x, z) = kInfinity
  <2>1. x # z
    OBVIOUS
  <2> QED BY <1>2, <1>5, <2>1, Aparts
<1>13. ~ is_inf(x) /\ ~ is_inf(z) => Apart(x, z) = Nearest(Between(i, j))
  BY <1>2, <1>5, Aparts
<1>14. Distant(i) \in Nat /\ Distant(j) \in Nat /\ Distant(i) <= kInfinity /\ Distant(j) <= kInfinity
       /\ (is_inf(x) <=> Distant(i) = kInfinity) /\ (is_inf(z) <=> Distant(j) = kInfinity)
  BY <1>1, <1>4, <1>5
<1>15. Less(error, Apart(m + 1, m))
  <2> HIDE DEF m, next
  <2> QED BY <1>2, <1>10
<1>16. kInfinity \in 0 .. kInfinity
  BY <1>1
<1>17. Gap(m) \in Nat /\ Size(m) \in Nat /\ Size(m + 1) = Size(m) + Gap(m) /\ (m > 0 => Gap(m) <= Size(m))
  <2> HIDE DEF m
  <2> QED BY <1>10, Gaps
<1> HIDE DEF m, next, i, j
<1>18. Between(i, j) \in Nat /\ Gap(m) <= Between(i, j)
  BY <1>7, <1>8, <1>10, GapBetween
(* The next number is infinity: the two are the greatest ones of both signs.  *)
<1>19. CASE m + 1 = kInfinity
  <2>1. Apart(m + 1, m) = kInfinity
    <3>1. m + 1 # m
      BY <1>10
    <3> QED BY <1>11, <1>19, <3>1, Aparts
  <2>2. Less(error, kInfinity)
    BY <1>15, <2>1
  <2>3. Apart(x, z) = kInfinity
    <3>1. CASE is_inf(x) \/ is_inf(z)
      BY <1>12, <3>1
    <3>2. CASE ~ is_inf(x) /\ ~ is_inf(z)
      <4>1. Distant(i) = m /\ Distant(j) = m
        BY <1>1, <1>7, <1>10, <1>14, <1>19, <3>2
      <4>2. m > 0 /\ ((i = m /\ j = - m /\ j < 0) \/ (i = - m /\ j = m /\ i < 0)) /\ - (- m) = m /\ ~ (m < 0)
        BY <1>1, <1>8, <1>10, <4>1 DEF Distant
      <4>3. NumberAt(m) = Size(m) /\ NumberAt(- m) = - Size(m)
        BY <1>10, <4>2 DEF NumberAt
      <4>4. Between(i, j) = Size(m) + Size(m)
        BY <1>17, <4>2, <4>3 DEF Between
      <4>5. Size(kInfinity) <= Between(i, j)
        BY <1>17, <1>19, <4>2, <4>4
      <4> QED BY <1>13, <1>18, <3>2, <4>5, NearestEnds
    <3> QED BY <3>1, <3>2
  <2> QED BY <1>1, <1>16, <2>2, <2>3, BeyondBound
(* Else it is a step away. *)
<1>20. CASE m + 1 # kInfinity
  <2>1. Apart(m + 1, m) = Nearest(Between(m + 1, m))
    <3>1. Apart(m + 1, m) = Nearest(Between(PlaceOfBits(m + 1), PlaceOfBits(m)))
      BY <1>11, <1>20, Aparts
    <3> QED BY <1>11, <3>1
  <2>2. Between(m + 1, m) = Gap(m)
    <3>1. NumberAt(m + 1) = Size(m + 1) /\ NumberAt(m) = Size(m)
      BY <1>10 DEF NumberAt
    <3> QED BY <1>17, <3>1 DEF Between
  <2>3. Less(error, Nearest(Gap(m)))
    BY <1>15, <2>1, <2>2
  <2>4. Nearest(Gap(m)) \in 0 .. kInfinity /\ Nearest(Between(i, j)) \in 0 .. kInfinity
        /\ Nearest(Gap(m)) <= Nearest(Between(i, j))
    BY <1>17, <1>18, NearestGrows
  <2>5. CASE is_inf(x) \/ is_inf(z)
    BY <1>1, <1>12, <1>16, <2>3, <2>4, <2>5, BeyondBound
  <2>6. CASE ~ is_inf(x) /\ ~ is_inf(z)
    BY <1>13, <2>3, <2>4, <2>6, BeyondBound
  <2> QED BY <2>5, <2>6
<1> QED BY <1>19, <1>20

--------------------------------------------------------------------------------
(* Differences                                                               *)

(* T is a recursion on functions from D to V: each value depends on those of   *)
(* lower ranks only, which are bounded.                                      *)
Recursion(D, V, rank, T) ==
  /\ V # {} /\ rank \in [D -> Nat] /\ T \in [[D -> V] -> [D -> V]]
  /\ \E N \in Nat : \A p \in D : rank[p] < N
  /\ \A f, g \in [D -> V], p \in D : (\A q \in D : rank[q] < rank[p] => f[q] = g[q]) => T[f][p] = T[g][p]

(* Then it has a solution. *)
LEMMA Solved ==
  ASSUME NEW D, NEW V, NEW rank, NEW T, Recursion(D, V, rank, T)
  PROVE  \E f \in [D -> V] : T[f] = f
<1>0. PICK N \in Nat : \A p \in D : rank[p] < N
  BY DEF Recursion
<1>a. PICK v : v \in V
  BY DEF Recursion
<1> DEFINE S == {k \in Nat : \E f \in [D -> V] : \A p \in D : rank[p] < k => T[f][p] = f[p]}
<1>1. 0 \in S
  <2>1. [p \in D |-> v] \in [D -> V] /\ \A p \in D : ~ (rank[p] < 0)
    BY <1>a DEF Recursion
  <2> QED BY <2>1
<1>2. ASSUME NEW k \in Nat, k \in S PROVE k + 1 \in S
  <2>1. PICK f \in [D -> V] : \A p \in D : rank[p] < k => T[f][p] = f[p]
    BY <1>2
  <2>2. T[f] \in [D -> V]
    BY DEF Recursion
  <2>3. ASSUME NEW p \in D, rank[p] < k + 1 PROVE T[T[f]][p] = T[f][p]
    <3>1. \A q \in D : rank[q] < rank[p] => T[f][q] = f[q]
      BY <2>1, <2>3 DEF Recursion
    <3> QED BY <2>2, <3>1 DEF Recursion
  <2> QED BY <2>2, <2>3
<1>3. N \in S
  <2>1. \A k \in Nat : k \in S => k + 1 \in S
    BY <1>2
  <2> HIDE DEF S
  <2> QED BY <1>1, <2>1, AllNumbers
<1>4. PICK f \in [D -> V] : \A p \in D : rank[p] < N => T[f][p] = f[p]
  BY <1>3
<1>5. T[f] \in [D -> V] /\ \A p \in D : T[f][p] = f[p]
  BY <1>0, <1>4 DEF Recursion
<1> QED BY <1>5

(* What holds where it does at all lower ranks holds everywhere. *)
LEMMA RankInduction ==
  ASSUME NEW D, NEW rank \in [D -> Nat], NEW G,
         \A p \in D : (\A q \in D : rank[q] < rank[p] => q \in G) => p \in G
  PROVE  D \subseteq G
<1> DEFINE S == {k \in Nat : \A p \in D : rank[p] < k => p \in G}
<1>1. 0 \in S
  OBVIOUS
<1>2. ASSUME NEW k \in Nat, k \in S PROVE k + 1 \in S
  <2>1. ASSUME NEW p \in D, rank[p] < k + 1 PROVE p \in G
    <3>1. \A q \in D : rank[q] < rank[p] => q \in G
      BY <1>2, <2>1
    <3> QED BY <3>1
  <2> QED BY <2>1
<1>3. Nat \subseteq S
  <2>1. \A k \in Nat : k \in S => k + 1 \in S
    BY <1>2
  <2> HIDE DEF S
  <2> QED BY <1>1, <2>1, AllNumbers
<1>4. ASSUME NEW p \in D PROVE p \in G
  <2>1. rank[p] + 1 \in S /\ rank[p] < rank[p] + 1
    BY <1>3
  <2> QED BY <2>1
<1> QED BY <1>4

EditMoves == {"kMatch", "kAdd", "kRemove", "kReplace"}
(* The moves that lead to p from where they can *)
MoveFits(old, new, p, move) ==
  /\ move \in EditMoves
  /\ move # "kAdd" => p[1] > 0
  /\ move # "kRemove" => p[2] > 0
  /\ move = "kMatch" => old[p[1]] = new[p[2]]

(* The best moves can be found, and are moves. *)
LEMMA BestFound ==
  ASSUME NEW S, NEW old \in Seq(S), NEW new \in Seq(S)
  PROVE  \A p \in Table(old, new) : p # <<0, 0>> => MoveFits(old, new, p, BestMoves(old, new)[p].move)
<1> DEFINE D == Table(old, new)
           V == [cost : Nat, move : EditMoves]
           F(f) == [p \in D |-> BestMove(old, new, p, f)]
           T == [f \in [D -> V] |-> F(f)]
           rank == [p \in D |-> p[1] + p[2]]
<1>0. Len(old) \in Nat /\ Len(new) \in Nat
  OBVIOUS
<1>1. ASSUME NEW p \in D PROVE p[1] \in 0 .. Len(old) /\ p[2] \in 0 .. Len(new) /\ p = <<p[1], p[2]>>
  BY DEF Table
<1>2. \A a \in 0 .. Len(old), b \in 0 .. Len(new) : <<a, b>> \in D /\ rank[<<a, b>>] = a + b
  BY DEF Table
<1>3. ASSUME NEW f, NEW p \in D, \A q \in D : rank[q] < rank[p] => f[q] \in V
      PROVE  /\ BestMove(old, new, p, f) \in V
             /\ p # <<0, 0>> => MoveFits(old, new, p, BestMove(old, new, p, f).move)
  <2>1. CASE p[2] = 0
    <3>1. BestMove(old, new, p, f) = Best(p[1] * One, "kRemove") /\ p[1] \in Nat
      BY <1>0, <1>1, <2>1 DEF BestMove
    <3>2. p # <<0, 0>> => p[1] > 0
      BY <1>1, <2>1
    <3> QED BY <2>1, <3>1, <3>2 DEF Best, MoveFits, EditMoves, One
  <2>2. CASE p[1] = 0 /\ p[2] # 0
    <3>1. BestMove(old, new, p, f) = Best(p[2] * One, "kAdd") /\ p[2] \in Nat /\ p[2] > 0
      BY <1>0, <1>1, <2>2 DEF BestMove
    <3> QED BY <2>2, <3>1 DEF Best, MoveFits, EditMoves, One
  <2>3. CASE p[1] # 0 /\ p[2] # 0
    <3>1. p[1] > 0 /\ p[2] > 0 /\ p[1] - 1 \in 0 .. Len(old) /\ p[2] - 1 \in 0 .. Len(new)
      BY <1>0, <1>1, <2>3
    <3>2. /\ f[<<p[1] - 1, p[2] - 1>>].cost \in Nat
          /\ f[<<p[1], p[2] - 1>>].cost \in Nat
          /\ f[<<p[1] - 1, p[2]>>].cost \in Nat
      <4>1. <<p[1] - 1, p[2] - 1>> \in D /\ <<p[1], p[2] - 1>> \in D /\ <<p[1] - 1, p[2]>> \in D
        BY <1>1, <1>2, <3>1
      <4>2. /\ rank[<<p[1] - 1, p[2] - 1>>] < rank[p]
            /\ rank[<<p[1], p[2] - 1>>] < rank[p]
            /\ rank[<<p[1] - 1, p[2]>>] < rank[p]
        BY <1>0, <1>1, <1>2, <3>1
      <4> HIDE DEF D, rank
      <4> QED BY <1>3, <4>1, <4>2
    <3>3. ~ (p[2] = 0) /\ ~ (p[1] = 0)
      BY <2>3
    <3>4. CASE old[p[1]] = new[p[2]]
      <4>1. BestMove(old, new, p, f) = Best(f[<<p[1] - 1, p[2] - 1>>].cost, "kMatch")
        BY <3>1, <3>3, <3>4 DEF BestMove
      <4> QED BY <3>1, <3>2, <3>4, <4>1 DEF Best, MoveFits, EditMoves
    <3>5. CASE old[p[1]] # new[p[2]]
      <4>1. \/ BestMove(old, new, p, f) = Best(f[<<p[1], p[2] - 1>>].cost + One, "kAdd")
            \/ BestMove(old, new, p, f) = Best(f[<<p[1] - 1, p[2]>>].cost + One, "kRemove")
            \/ BestMove(old, new, p, f) = Best(f[<<p[1] - 1, p[2] - 1>>].cost + Replacing, "kReplace")
        BY <3>1, <3>3, <3>5 DEF BestMove
      <4> QED BY <3>1, <3>2, <4>1, SMTT(60) DEF Best, MoveFits, EditMoves, One, Replacing
    <3> QED BY <3>4, <3>5
  <2> QED BY <2>1, <2>2, <2>3
<1>4. T \in [[D -> V] -> [D -> V]]
  <2>1. \A f \in [D -> V], p \in D : BestMove(old, new, p, f) \in V
    BY <1>3
  <2> QED BY <2>1
<1>5. ASSUME NEW f \in [D -> V], NEW g \in [D -> V], NEW p \in D, \A q \in D : rank[q] < rank[p] => f[q] = g[q]
      PROVE  T[f][p] = T[g][p]
  <2>1. BestMove(old, new, p, f) = BestMove(old, new, p, g)
    <3>1. CASE p[1] = 0 \/ p[2] = 0
      BY <1>0, <1>1, <3>1 DEF BestMove
    <3>2. CASE p[1] # 0 /\ p[2] # 0
      <4>1. p[1] > 0 /\ p[2] > 0 /\ p[1] - 1 \in 0 .. Len(old) /\ p[2] - 1 \in 0 .. Len(new)
        BY <1>0, <1>1, <3>2
      <4>2. <<p[1] - 1, p[2] - 1>> \in D /\ <<p[1], p[2] - 1>> \in D /\ <<p[1] - 1, p[2]>> \in D
        BY <1>1, <1>2, <4>1
      <4>3. /\ rank[<<p[1] - 1, p[2] - 1>>] < rank[p]
            /\ rank[<<p[1], p[2] - 1>>] < rank[p]
            /\ rank[<<p[1] - 1, p[2]>>] < rank[p]
        BY <1>0, <1>1, <1>2, <4>1, SMTT(60)
      <4>4. /\ f[<<p[1] - 1, p[2] - 1>>] = g[<<p[1] - 1, p[2] - 1>>]
            /\ f[<<p[1], p[2] - 1>>] = g[<<p[1], p[2] - 1>>]
            /\ f[<<p[1] - 1, p[2]>>] = g[<<p[1] - 1, p[2]>>]
        <5> HIDE DEF D, rank
        <5> QED BY <1>5, <4>2, <4>3
      <4> QED BY <4>1, <4>4 DEF BestMove
    <3> QED BY <3>1, <3>2
  <2> QED BY <2>1
<1>6. \E f \in [D -> V] : T[f] = f
  <2>1. rank \in [D -> Nat] /\ \A p \in D : rank[p] < Len(old) + Len(new) + 1
    BY <1>0, <1>1
  <2>2. Best(0, "kAdd") \in V /\ Len(old) + Len(new) + 1 \in Nat
    BY <1>0 DEF Best, EditMoves
  <2> HIDE DEF D, V, T, rank
  <2>3. Recursion(D, V, rank, T)
    BY <1>4, <1>5, <2>1, <2>2 DEF Recursion
  <2> QED BY <2>3, Solved
<1>7. PICK f \in [D -> V] : f = F(f)
  BY <1>6
<1>8. BestMoves(old, new) = F(BestMoves(old, new))
  BY <1>7, Zenon DEF BestMoves
<1> DEFINE best == BestMoves(old, new)
<1>9. D \subseteq {p \in D : best[p] \in V}
  <2>1. ASSUME NEW p \in D, \A q \in D : rank[q] < rank[p] => q \in {r \in D : best[r] \in V}
        PROVE  p \in {r \in D : best[r] \in V}
    <3> HIDE DEF best, D, V
    <3>1. best[p] = BestMove(old, new, p, best)
      BY <1>8 DEF best
    <3> QED BY <1>3, <2>1, <3>1
  <2>2. rank \in [D -> Nat]
    BY <1>0, <1>1
  <2> DEFINE G == {p \in D : best[p] \in V}
  <2>3. \A p \in D : (\A q \in D : rank[q] < rank[p] => q \in G) => p \in G
    BY <2>1
  <2> HIDE DEF D, V, rank, best, G
  <2>4. D \subseteq G
    BY <2>2, <2>3, RankInduction
  <2> QED BY <2>4 DEF G
<1>10. ASSUME NEW p \in D PROVE best[p] = BestMove(old, new, p, best) /\ best[p] \in V
  <2> HIDE DEF best, D, V
  <2> QED BY <1>8, <1>9 DEF best
<1> HIDE DEF best, D, V
<1>11. \A p \in D : p # <<0, 0>> => MoveFits(old, new, p, best[p].move)
  BY <1>3, <1>10
<1> QED BY <1>11 DEF best, D

(* Lines of either text that one move goes over *)
OverLeft(move) == IF move = "kAdd" THEN 0 ELSE 1
OverRight(move) == IF move = "kRemove" THEN 0 ELSE 1

(* Some of the first numbers are as many as of those before, and one if the   *)
(* last is among them.                                                       *)
LEMMA OneMore ==
  ASSUME NEW A, NEW k \in Nat
  PROVE  /\ Cardinality({i \in 1 .. 0 : i \in A}) = 0
         /\ Cardinality({i \in 1 .. k : i \in A}) \in Nat
         /\ Cardinality({i \in 1 .. k + 1 : i \in A}) = Cardinality({i \in 1 .. k : i \in A}) + (IF k + 1 \in A THEN 1 ELSE 0)
<1> DEFINE F == {i \in 1 .. k : i \in A}
<1>1. IsFiniteSet(F) /\ Cardinality(F) \in Nat
  <2>1. IsFiniteSet(1 .. k) /\ F \in SUBSET (1 .. k)
    BY FS_Interval
  <2> HIDE DEF F
  <2> QED BY <2>1, FS_Subset, FS_CardinalityType
<1>2. {i \in 1 .. 0 : i \in A} = {}
  OBVIOUS
<1>3. CASE k + 1 \in A
  <2>1. {i \in 1 .. k + 1 : i \in A} = F \union {k + 1} /\ k + 1 \notin F
    BY <1>3
  <2> HIDE DEF F
  <2>2. Cardinality(F \union {k + 1}) = Cardinality(F) + 1
    BY <1>1, <2>1, FS_AddElement
  <2> QED BY <1>1, <1>2, <1>3, <2>1, <2>2, FS_EmptySet DEF F
<1>4. CASE k + 1 \notin A
  <2>1. {i \in 1 .. k + 1 : i \in A} = F
    BY <1>4
  <2> HIDE DEF F
  <2> QED BY <1>1, <1>2, <1>4, <2>1, FS_EmptySet DEF F
<1> QED BY <1>3, <1>4

(* Each edit goes over as many lines as its move. *)
LEMMA LinesGrow ==
  ASSUME NEW edits, NEW k \in Nat \ {0}
  PROVE  /\ LeftLines(edits, 1) = 0 /\ RightLines(edits, 1) = 0
         /\ LeftLines(edits, k) \in Nat /\ RightLines(edits, k) \in Nat
         /\ LeftLines(edits, k + 1) = LeftLines(edits, k) + OverLeft(edits[k])
         /\ RightLines(edits, k + 1) = RightLines(edits, k) + OverRight(edits[k])
<1> DEFINE A(move) == {i \in Nat : edits[i] # move}
           C(move, j) == Cardinality({i \in 1 .. j : i \in A(move)})
<1>1. ASSUME NEW move, NEW j \in Nat \ {0}
      PROVE  {i \in 1 .. j - 1 : edits[i] # move} = {i \in 1 .. j - 1 : i \in A(move)}
  OBVIOUS
<1>2. /\ \A j \in Nat \ {0} : LeftLines(edits, j) = C("kAdd", j - 1)
      /\ \A j \in Nat \ {0} : RightLines(edits, j) = C("kRemove", j - 1)
  BY <1>1 DEF LeftLines, RightLines
<1>3. ASSUME NEW move, NEW j \in Nat
      PROVE  C(move, 0) = 0 /\ C(move, j) \in Nat /\ C(move, j + 1) = C(move, j) + (IF edits[j + 1] = move THEN 0 ELSE 1)
  <2>1. C(move, 0) = 0 /\ C(move, j) \in Nat /\ C(move, j + 1) = C(move, j) + (IF j + 1 \in A(move) THEN 1 ELSE 0)
    <3> DEFINE B == A(move)
    <3> HIDE DEF B
    <3>1. /\ Cardinality({i \in 1 .. 0 : i \in B}) = 0
          /\ Cardinality({i \in 1 .. j : i \in B}) \in Nat
          /\ Cardinality({i \in 1 .. j + 1 : i \in B}) = Cardinality({i \in 1 .. j : i \in B}) + (IF j + 1 \in B THEN 1 ELSE 0)
      BY OneMore
    <3> QED BY <3>1 DEF B
  <2> HIDE DEF C
  <2> QED BY <2>1
<1>4. k + 1 \in Nat \ {0} /\ 1 \in Nat \ {0} /\ k - 1 \in Nat /\ (k - 1) + 1 = k /\ (k + 1) - 1 = k /\ 1 - 1 = 0
  OBVIOUS
<1> HIDE DEF C
<1>5. ASSUME NEW move
      PROVE  C(move, 0) = 0 /\ C(move, k - 1) \in Nat /\ C(move, k) = C(move, k - 1) + (IF edits[k] = move THEN 0 ELSE 1)
  <2>1. C(move, (k - 1) + 1) = C(move, k - 1) + (IF edits[(k - 1) + 1] = move THEN 0 ELSE 1)
    BY <1>3, <1>4
  <2> QED BY <1>3, <1>4, <2>1
<1> QED BY <1>2, <1>4, <1>5 DEF OverLeft, OverRight

(* Lines counted up to the same edits are the same. *)
LEMMA LinesOfSame ==
  ASSUME NEW e, NEW f, NEW k \in Nat \ {0}, \A i \in 1 .. k - 1 : e[i] = f[i]
  PROVE  LeftLines(e, k) = LeftLines(f, k) /\ RightLines(e, k) = RightLines(f, k)
<1>1. \A move : {i \in 1 .. k - 1 : e[i] # move} = {i \in 1 .. k - 1 : f[i] # move}
  OBVIOUS
<1> QED BY <1>1 DEF LeftLines, RightLines

(* The edits turn the first p[1] lines of the old text into the first p[2] of *)
(* the new.                                                                  *)
TurnsInto(edits, old, new, p) ==
  /\ edits \in Seq(EditMoves)
  /\ LeftLines(edits, Len(edits) + 1) = p[1] /\ RightLines(edits, Len(edits) + 1) = p[2]
  /\ \A i \in 1 .. Len(edits) :
       edits[i] = "kMatch" => old[LeftLines(edits, i) + 1] = new[RightLines(edits, i) + 1]

(* One more that fits goes on from there. *)
LEMMA TurnsMore ==
  ASSUME NEW old, NEW new, NEW p \in Nat \X Nat, NEW move, MoveFits(old, new, p, move),
         NEW edits, TurnsInto(edits, old, new, Before(p, move))
  PROVE  TurnsInto(Append(edits, move), old, new, p)
<1> DEFINE e == Append(edits, move)
           n == Len(edits)
<1>1. /\ n \in Nat /\ e \in Seq(EditMoves) /\ Len(e) = n + 1 /\ e[n + 1] = move
      /\ \A i \in 1 .. n : e[i] = edits[i]
  BY DEF TurnsInto, MoveFits
<1>2. \A i \in 1 .. n + 1 : LeftLines(e, i) = LeftLines(edits, i) /\ RightLines(e, i) = RightLines(edits, i)
  <2> HIDE DEF e
  <2> QED BY <1>1, LinesOfSame
<1>3. /\ LeftLines(e, n + 2) = LeftLines(edits, n + 1) + OverLeft(move)
      /\ RightLines(e, n + 2) = RightLines(edits, n + 1) + OverRight(move)
  <2>1. n + 1 \in Nat \ {0} /\ (n + 1) + 1 = n + 2 /\ n + 1 \in 1 .. n + 1
    BY <1>1
  <2> HIDE DEF e
  <2>2. LeftLines(e, n + 2) = LeftLines(e, n + 1) + OverLeft(e[n + 1]) /\ RightLines(e, n + 2) = RightLines(e, n + 1) + OverRight(e[n + 1])
    BY <2>1, LinesGrow
  <2> QED BY <1>1, <1>2, <2>1, <2>2
<1>4. LeftLines(edits, n + 1) = Before(p, move)[1] /\ RightLines(edits, n + 1) = Before(p, move)[2]
  BY DEF TurnsInto
<1>5. LeftLines(e, n + 2) = p[1] /\ RightLines(e, n + 2) = p[2]
  <2> HIDE DEF e, n
  <2> QED BY <1>3, <1>4 DEF OverLeft, OverRight, Before, MoveFits, EditMoves
<1>6. ASSUME NEW i \in 1 .. n + 1, e[i] = "kMatch" PROVE old[LeftLines(e, i) + 1] = new[RightLines(e, i) + 1]
  <2>1. CASE i \in 1 .. n
    <3> HIDE DEF e
    <3>1. edits[i] = "kMatch"
      BY <1>1, <1>6, <2>1
    <3> QED BY <1>2, <2>1, <3>1 DEF TurnsInto
  <2>2. CASE i = n + 1
    <3> HIDE DEF e
    <3>1. move = "kMatch" /\ n + 1 \in 1 .. n + 1
      BY <1>1, <1>6, <2>2
    <3>2. LeftLines(e, i) + 1 = p[1] /\ RightLines(e, i) + 1 = p[2]
      BY <1>2, <1>4, <2>2, <3>1 DEF Before
    <3> QED BY <3>1, <3>2 DEF MoveFits
  <2> QED BY <2>1, <2>2
<1>7. Len(e) + 1 = n + 2
  BY <1>1
<1> HIDE DEF e
<1> QED BY <1>1, <1>5, <1>6, <1>7 DEF TurnsInto, e

(* The paths through the best moves *)
WayTo(old, new, p, ways) ==
  LET move == BestMoves(old, new)[p].move IN IF p = <<0, 0>> THEN <<>> ELSE Append(ways[Before(p, move)], move)

(* The edits that are calculated turn the old text into the new one. *)
LEMMA EditsTurn ==
  ASSUME NEW S, NEW old \in Seq(S), NEW new \in Seq(S)
  PROVE  TurnsInto(CalculateOptimalEdits(old, new), old, new, <<Len(old), Len(new)>>)
<1> DEFINE D == Table(old, new)
           V == Seq(EditMoves)
           M(p) == BestMoves(old, new)[p].move
           F(f) == [p \in D |-> WayTo(old, new, p, f)]
           T == [f \in [D -> V] |-> F(f)]
           rank == [p \in D |-> p[1] + p[2]]
<1>0. Len(old) \in Nat /\ Len(new) \in Nat
  OBVIOUS
<1>1. ASSUME NEW p \in D PROVE p \in Nat \X Nat /\ p[1] \in 0 .. Len(old) /\ p[2] \in 0 .. Len(new) /\ p = <<p[1], p[2]>>
  BY DEF Table
<1>2. ASSUME NEW p \in D, p # <<0, 0>>
      PROVE  /\ MoveFits(old, new, p, M(p))
             /\ Before(p, M(p)) \in D /\ rank[Before(p, M(p))] < rank[p]
  <2>1. MoveFits(old, new, p, M(p))
    BY <1>2, BestFound
  <2>2. \A move : MoveFits(old, new, p, move) => Before(p, move) \in D /\ rank[Before(p, move)] < rank[p]
    BY <1>0, <1>1 DEF MoveFits, Before, EditMoves, Table
  <2> QED BY <2>1, <2>2
<1>3. ASSUME NEW f \in [D -> V], NEW p \in D PROVE WayTo(old, new, p, f) \in V
  <2>1. CASE p = <<0, 0>>
    BY <2>1, EmptySeq DEF WayTo
  <2>2. CASE p # <<0, 0>>
    <3>1. f[Before(p, M(p))] \in V /\ M(p) \in EditMoves
      <4> HIDE DEF D, M
      <4> QED BY <1>2, <2>2 DEF MoveFits
    <3>2. WayTo(old, new, p, f) = Append(f[Before(p, M(p))], M(p))
      BY <2>2 DEF WayTo
    <3> HIDE DEF M
    <3> QED BY <3>1, <3>2
  <2> QED BY <2>1, <2>2
<1>4. T \in [[D -> V] -> [D -> V]]
  BY <1>3
<1>5. ASSUME NEW f \in [D -> V], NEW g \in [D -> V], NEW p \in D, \A q \in D : rank[q] < rank[p] => f[q] = g[q]
      PROVE  T[f][p] = T[g][p]
  <2>1. WayTo(old, new, p, f) = WayTo(old, new, p, g)
    <3>1. p # <<0, 0>> => f[Before(p, M(p))] = g[Before(p, M(p))]
      <4> HIDE DEF D, M, rank
      <4> QED BY <1>2, <1>5
    <3> QED BY <3>1, Zenon DEF WayTo
  <2> QED BY <2>1
<1>6. rank \in [D -> Nat] /\ \A p \in D : rank[p] < Len(old) + Len(new) + 1
  BY <1>0, <1>1
<1>7. \E f \in [D -> V] : T[f] = f
  <2>1. <<>> \in V /\ Len(old) + Len(new) + 1 \in Nat
    BY <1>0, EmptySeq
  <2> HIDE DEF D, V, T, rank
  <2>2. Recursion(D, V, rank, T)
    BY <1>4, <1>5, <1>6, <2>1 DEF Recursion
  <2> QED BY <2>2, Solved
<1>8. PICK f \in [D -> V] : f = F(f)
  BY <1>7
<1> DEFINE ways == CHOOSE g : g = F(g)
<1>9. ways = F(ways)
  BY <1>8, Zenon
<1>10. CalculateOptimalEdits(old, new) = ways[<<Len(old), Len(new)>>]
  BY DEF CalculateOptimalEdits, WayTo
<1> HIDE DEF ways
<1> DEFINE G == {p \in D : TurnsInto(ways[p], old, new, p)}
<1>11. ASSUME NEW p \in D, \A q \in D : rank[q] < rank[p] => q \in G PROVE p \in G
  <2>0. ways[p] = WayTo(old, new, p, ways)
    BY <1>9
  <2>1. CASE p = <<0, 0>>
    <3>1. ways[p] = <<>>
      BY <2>0, <2>1 DEF WayTo
    <3>2. <<>> \in Seq(EditMoves) /\ Len(<<>>) = 0
      BY EmptySeq
    <3>3. LeftLines(<<>>, 1) = 0 /\ RightLines(<<>>, 1) = 0
      BY LinesGrow, 1 \in Nat \ {0}
    <3>4. TurnsInto(<<>>, old, new, <<0, 0>>)
      <4> DEFINE e == <<>>
      <4>1. e \in Seq(EditMoves) /\ Len(e) = 0 /\ LeftLines(e, 1) = 0 /\ RightLines(e, 1) = 0
        BY <3>2, <3>3
      <4> HIDE DEF e
      <4>2. Len(e) + 1 = 1 /\ 1 .. Len(e) = {}
        BY <4>1
      <4>3. TurnsInto(e, old, new, <<0, 0>>)
        BY <4>1, <4>2 DEF TurnsInto
      <4> QED BY <4>3 DEF e
    <3> QED BY <2>1, <3>1, <3>4
  <2>2. CASE p # <<0, 0>>
    <3>1. ways[p] = Append(ways[Before(p, M(p))], M(p))
      BY <2>0, <2>2 DEF WayTo
    <3>2. TurnsInto(ways[Before(p, M(p))], old, new, Before(p, M(p))) /\ MoveFits(old, new, p, M(p))
      <4> HIDE DEF D, rank, M
      <4> QED BY <1>2, <1>11, <2>2
    <3> HIDE DEF M
    <3>3. TurnsInto(ways[p], old, new, p)
      BY <1>1, <3>1, <3>2, TurnsMore
    <3> QED BY <3>3
  <2> QED BY <2>1, <2>2
<1>12. D \subseteq G
  <2> HIDE DEF D, rank, G
  <2> QED BY <1>6, <1>11, RankInduction
<1>13. <<Len(old), Len(new)>> \in D
  BY <1>0 DEF Table
<1> QED BY <1>10, <1>12, <1>13

(* n of the lines are marked so, and say what the text says from first on *)
TellsLines(lines, marks, text, first, n) == Marked(lines, marks) = n /\ Says(lines, marks, text, first)

(* They still do with one more that says the next. *)
LEMMA TellsMore ==
  ASSUME NEW L, NEW lines \in Seq(L), NEW line \in L, NEW marks, NEW text, NEW first \in Int, NEW n \in Nat,
         TellsLines(lines, marks, text, first, n), line[1] \in marks => line[2] = text[first + n]
  PROVE  TellsLines(Append(lines, line), marks, text, first, n + (IF line[1] \in marks THEN 1 ELSE 0))
<1> DEFINE e == Append(lines, line)
           N == Len(lines)
           A == {i \in Nat : e[i][1] \in marks}
<1>1. /\ N \in Nat /\ e \in Seq(L) /\ Len(e) = N + 1 /\ e[N + 1] = line /\ DOMAIN e = 1 .. N + 1 /\ DOMAIN lines = 1 .. N
      /\ \A i \in 1 .. N : e[i] = lines[i]
  OBVIOUS
<1>2. /\ {i \in DOMAIN e : e[i][1] \in marks} = {i \in 1 .. N + 1 : i \in A}
      /\ {i \in DOMAIN lines : lines[i][1] \in marks} = {i \in 1 .. N : i \in A}
  <2> HIDE DEF e
  <2> QED BY <1>1
<1>3. Marked(e, marks) = n + (IF line[1] \in marks THEN 1 ELSE 0)
  <2>1. Cardinality({i \in 1 .. N + 1 : i \in A}) = Cardinality({i \in 1 .. N : i \in A}) + (IF N + 1 \in A THEN 1 ELSE 0)
    <3> HIDE DEF A
    <3> QED BY <1>1, OneMore
  <2>2. N + 1 \in A <=> line[1] \in marks
    <3> HIDE DEF e
    <3> QED BY <1>1
  <2>3. Marked(e, marks) = Cardinality({i \in 1 .. N + 1 : i \in A}) /\ n = Cardinality({i \in 1 .. N : i \in A})
    <3> HIDE DEF e, A
    <3> QED BY <1>2 DEF Marked, TellsLines
  <2> HIDE DEF e, A
  <2> QED BY <2>1, <2>2, <2>3
<1>4. ASSUME NEW i \in 1 .. N + 1, e[i][1] \in marks
      PROVE  e[i][2] = text[first - 1 + Marked(SubSeq(e, 1, i), marks)]
  <2>1. CASE i \in 1 .. N
    <3> HIDE DEF e
    <3>1. /\ SubSeq(e, 1, i) \in Seq(L) /\ Len(SubSeq(e, 1, i)) = i /\ \A j \in 1 .. i : SubSeq(e, 1, i)[j] = e[j]
          /\ SubSeq(lines, 1, i) \in Seq(L) /\ Len(SubSeq(lines, 1, i)) = i /\ \A j \in 1 .. i : SubSeq(lines, 1, i)[j] = lines[j]
      BY <1>1, <2>1
    <3>2. SubSeq(e, 1, i) = SubSeq(lines, 1, i)
      <4>1. \A j \in 1 .. i : e[j] = lines[j]
        BY <1>1, <2>1
      <4> QED BY <3>1, <4>1, SeqEqual
    <3> QED BY <1>1, <1>4, <2>1, <3>2 DEF TellsLines, Says
  <2>2. CASE i = N + 1
    <3>1. SubSeq(e, 1, i) = e
      <4> HIDE DEF e
      <4> QED BY <1>1, <2>2, SubSeqFull
    <3>2. line[1] \in marks /\ e[i] = line
      BY <1>1, <1>4, <2>2
    <3>3. first - 1 + (n + 1) = first + n
      OBVIOUS
    <3> HIDE DEF e
    <3> QED BY <1>3, <3>1, <3>2, <3>3
  <2> QED BY <2>1, <2>2
<1> HIDE DEF e
<1>5. TellsLines(e, marks, text, first, n + (IF line[1] \in marks THEN 1 ELSE 0))
  BY <1>1, <1>3, <1>4 DEF TellsLines, Says
<1> QED BY <1>5 DEF e

(* So they do with a sequence more, that is all so marked or not at all. *)
LEMMA TellsOn ==
  ASSUME NEW L, NEW lines \in Seq(L), NEW more \in Seq(L), NEW marks, NEW text, NEW first \in Int, NEW n \in Nat,
         TellsLines(lines, marks, text, first, n), NEW each \in {0, 1},
         \A i \in 1 .. Len(more) : more[i][1] \in marks <=> each = 1,
         each = 1 => \A i \in 1 .. Len(more) : more[i][2] = text[first - 1 + n + i]
  PROVE  TellsLines(lines \o more, marks, text, first, n + (IF each = 1 THEN Len(more) ELSE 0))
<1> DEFINE upto(m) == lines \o SubSeq(more, 1, m)
           told(m) == n + (IF each = 1 THEN m ELSE 0)
           G == {m \in 0 .. Len(more) : TellsLines(upto(m), marks, text, first, told(m))}
<1>0. Len(more) \in Nat
  OBVIOUS
<1>1. 0 \in G
  <2>1. upto(0) = lines /\ told(0) = n
    BY SubSeqEmpty, ConcatEmptySeq
  <2> HIDE DEF upto, told
  <2> QED BY <1>0, <2>1
<1>2. ASSUME NEW m \in 0 .. Len(more) - 1, m \in G PROVE m + 1 \in G
  <2>1. m + 1 \in 1 .. Len(more) /\ more[m + 1] \in L
    BY <1>0
  <2>2. upto(m) \in Seq(L) /\ upto(m + 1) = Append(upto(m), more[m + 1])
    <3>1. /\ SubSeq(more, 1, m) \in Seq(L) /\ Len(SubSeq(more, 1, m)) = m /\ \A i \in 1 .. m : SubSeq(more, 1, m)[i] = more[i]
          /\ SubSeq(more, 1, m + 1) \in Seq(L) /\ Len(SubSeq(more, 1, m + 1)) = m + 1
          /\ \A i \in 1 .. m + 1 : SubSeq(more, 1, m + 1)[i] = more[i]
      BY <1>0, <2>1
    <3> DEFINE s == SubSeq(more, 1, m)
               t == SubSeq(more, 1, m + 1)
    <3> HIDE DEF s, t
    <3>2. /\ s \in Seq(L) /\ Len(s) = m /\ \A i \in 1 .. m : s[i] = more[i]
          /\ t \in Seq(L) /\ Len(t) = m + 1 /\ \A i \in 1 .. m + 1 : t[i] = more[i]
      BY <3>1 DEF s, t
    <3>3. \A u \in Seq(L) :
            /\ lines \o u \in Seq(L) /\ Len(lines \o u) = Len(lines) + Len(u)
            /\ \A i \in 1 .. Len(lines) + Len(u) : (lines \o u)[i] = IF i <= Len(lines) THEN lines[i] ELSE u[i - Len(lines)]
      BY ConcatProperties
    <3> DEFINE a == lines \o s
               b == lines \o t
    <3> HIDE DEF a, b
    <3>4. /\ a \in Seq(L) /\ Len(a) = Len(lines) + m /\ Len(b) = Len(lines) + (m + 1) /\ b \in Seq(L)
          /\ \A i \in 1 .. Len(lines) + m : a[i] = IF i <= Len(lines) THEN lines[i] ELSE s[i - Len(lines)]
          /\ \A i \in 1 .. Len(lines) + (m + 1) : b[i] = IF i <= Len(lines) THEN lines[i] ELSE t[i - Len(lines)]
      <4>1. /\ a \in Seq(L) /\ Len(a) = Len(lines) + Len(s)
            /\ \A i \in 1 .. Len(lines) + Len(s) : a[i] = IF i <= Len(lines) THEN lines[i] ELSE s[i - Len(lines)]
        BY <3>2, <3>3 DEF a
      <4>2. /\ b \in Seq(L) /\ Len(b) = Len(lines) + Len(t)
            /\ \A i \in 1 .. Len(lines) + Len(t) : b[i] = IF i <= Len(lines) THEN lines[i] ELSE t[i - Len(lines)]
        BY <3>2, <3>3 DEF b
      <4> QED BY <3>2, <4>1, <4>2
    <3>5. Append(a, more[m + 1]) \in Seq(L) /\ Len(Append(a, more[m + 1])) = Len(b)
      BY <2>1, <3>4
    <3>6. ASSUME NEW i \in 1 .. Len(b) PROVE b[i] = Append(a, more[m + 1])[i]
      <4>1. CASE i = Len(lines) + (m + 1)
        <5>1. b[i] = t[m + 1]
          BY <1>0, <3>4, <4>1
        <5>2. Append(a, more[m + 1])[i] = more[m + 1]
          BY <1>0, <2>1, <3>4, <4>1
        <5> QED BY <1>0, <3>2, <5>1, <5>2
      <4>2. CASE i # Len(lines) + (m + 1)
        <5>1. i \in 1 .. Len(lines) + m /\ Append(a, more[m + 1])[i] = a[i]
          BY <1>0, <2>1, <3>4, <4>2
        <5>2. ~ (i <= Len(lines)) => i - Len(lines) \in 1 .. m
          BY <1>0, <5>1
        <5>3. ~ (i <= Len(lines)) => s[i - Len(lines)] = t[i - Len(lines)]
          <6>1. \A j \in 1 .. m : s[j] = t[j]
            <7>1. ASSUME NEW j \in 1 .. m PROVE s[j] = t[j]
              <8>1. j \in 1 .. m + 1
                BY <1>0
              <8> QED BY <3>2, <8>1
            <7> QED BY <7>1
          <6> DEFINE j == i - Len(lines)
          <6>2. ~ (i <= Len(lines)) => j \in 1 .. m
            BY <5>2
          <6> HIDE DEF j
          <6>3. ~ (i <= Len(lines)) => s[j] = t[j]
            BY <6>1, <6>2
          <6> QED BY <6>3 DEF j
        <5>4. CASE i <= Len(lines)
          <6>1. a[i] = lines[i] /\ b[i] = lines[i]
            BY <3>4, <5>1, <5>4
          <6> QED BY <5>1, <6>1
        <5>5. CASE ~ (i <= Len(lines))
          <6>1. a[i] = s[i - Len(lines)]
            BY <3>4, <5>1, <5>5
          <6>2. b[i] = t[i - Len(lines)]
            BY <3>4, <5>5
          <6> QED BY <5>1, <5>3, <5>5, <6>1, <6>2
        <5> QED BY <5>4, <5>5
      <4> QED BY <4>1, <4>2
    <3>7. b = Append(a, more[m + 1])
      BY <3>4, <3>5, <3>6, SeqEqual
    <3> QED BY <3>4, <3>7 DEF a, b, s, t
  <2>3. told(m) \in Nat /\ told(m + 1) = told(m) + (IF more[m + 1][1] \in marks THEN 1 ELSE 0)
    BY <2>1
  <2>4. more[m + 1][1] \in marks => more[m + 1][2] = text[first + told(m)]
    <3>1. first - 1 + n + (m + 1) = first + (n + m)
      OBVIOUS
    <3> QED BY <2>1, <3>1
  <2>5. TellsLines(upto(m), marks, text, first, told(m))
    BY <1>2
  <2> HIDE DEF upto, told
  <2>6. TellsLines(upto(m + 1), marks, text, first, told(m + 1))
    <3> DEFINE line == more[m + 1]
               k == told(m)
               s == upto(m)
    <3>1. s \in Seq(L) /\ line \in L /\ k \in Nat /\ TellsLines(s, marks, text, first, k) /\ (line[1] \in marks => line[2] = text[first + k])
      BY <2>1, <2>2, <2>3, <2>4, <2>5
    <3> HIDE DEF line, k, s
    <3>2. TellsLines(Append(s, line), marks, text, first, k + (IF line[1] \in marks THEN 1 ELSE 0))
      BY <3>1, TellsMore
    <3> QED BY <2>2, <2>3, <3>2 DEF line, k, s
  <2> QED BY <2>1, <2>6
<1>3. Len(more) \in G
  <2>1. \A m \in 0 .. Len(more) - 1 : m \in G => m + 1 \in G
    BY <1>2
  <2> HIDE DEF G
  <2>2. 0 .. Len(more) \subseteq G
    BY <1>0, <1>1, <2>1, Climb
  <2> QED BY <1>0, <2>2
<1>4. upto(Len(more)) = lines \o more
  BY SubSeqFull
<1> HIDE DEF upto
<1> QED BY <1>3, <1>4

(* Over edits that match, both texts go on line by line; lines never go back. *)
LEMMA LinesBetween ==
  ASSUME NEW edits, NEW j \in Nat \ {0}, NEW k \in Nat, j <= k
  PROVE  /\ LeftLines(edits, j) <= LeftLines(edits, k) /\ RightLines(edits, j) <= RightLines(edits, k)
         /\ (\A i \in j .. k - 1 : edits[i] = "kMatch") =>
              LeftLines(edits, k) = LeftLines(edits, j) + (k - j) /\ RightLines(edits, k) = RightLines(edits, j) + (k - j)
<1> DEFINE l(i) == LeftLines(edits, i)
           r(i) == RightLines(edits, i)
           G == {m \in 0 .. k - j :
                   /\ l(j) <= l(j + m) /\ r(j) <= r(j + m)
                   /\ (\A i \in j .. j + m - 1 : edits[i] = "kMatch") => l(j + m) = l(j) + m /\ r(j + m) = r(j) + m}
<1>0. k - j \in Nat
  OBVIOUS
<1>1. ASSUME NEW m \in 0 .. k - j
      PROVE  /\ l(j + m) \in Nat /\ r(j + m) \in Nat
             /\ l(j + (m + 1)) = l(j + m) + OverLeft(edits[j + m]) /\ r(j + (m + 1)) = r(j + m) + OverRight(edits[j + m])
  <2>1. j + m \in Nat \ {0} /\ (j + m) + 1 = j + (m + 1)
    OBVIOUS
  <2> QED BY <2>1, LinesGrow
<1>2. 0 \in G
  <2>1. j + 0 = j /\ l(j) \in Nat /\ r(j) \in Nat /\ 0 \in 0 .. k - j
    BY <1>0, LinesGrow
  <2> HIDE DEF l, r
  <2> QED BY <2>1
<1>3. ASSUME NEW m \in 0 .. k - j - 1, m \in G PROVE m + 1 \in G
  <2>1. l(j) \in Nat /\ r(j) \in Nat /\ m \in 0 .. k - j /\ m + 1 \in 0 .. k - j
    BY LinesGrow
  <2>2. OverLeft(edits[j + m]) \in {0, 1} /\ OverRight(edits[j + m]) \in {0, 1}
    BY DEF OverLeft, OverRight
  <2>3. (\A i \in j .. j + (m + 1) - 1 : edits[i] = "kMatch") =>
          (\A i \in j .. j + m - 1 : edits[i] = "kMatch") /\ edits[j + m] = "kMatch"
    OBVIOUS
  <2>4. edits[j + m] = "kMatch" => OverLeft(edits[j + m]) = 1 /\ OverRight(edits[j + m]) = 1
    BY DEF OverLeft, OverRight
  <2> HIDE DEF l, r
  <2> QED BY <1>1, <1>3, <2>1, <2>2, <2>3, <2>4
<1>4. k - j \in G
  <2>1. \A m \in 0 .. k - j - 1 : m \in G => m + 1 \in G
    BY <1>3
  <2> HIDE DEF G
  <2>2. 0 .. k - j \subseteq G
    BY <1>0, <1>2, <2>1, Climb
  <2> QED BY <1>0, <2>2
<1>5. j + (k - j) = k
  OBVIOUS
<1> HIDE DEF l, r
<1>6. /\ l(j) <= l(k) /\ r(j) <= r(k)
      /\ (\A i \in j .. k - 1 : edits[i] = "kMatch") => l(k) = l(j) + (k - j) /\ r(k) = r(j) + (k - j)
  BY <1>4, <1>5
<1> QED BY <1>6 DEF l, r

(* Lines of hunks *)
HunkLine(W) == {Common, "-", "+"} \X W

(* The marks differ. *)
LEMMA MarksDiffer == Common # "-" /\ Common # "+"
BY Zenon DEF Common

(* A hunk that begins at the given lines says of both texts what the edits    *)
(* before the k-th went over.                                                *)
HunkSays(W, hunk, old, new, edits, oldfirst, newfirst, k) ==
  LET l == Marked(hunk.lines, OldMarks)
      r == Marked(hunk.lines, NewMarks)
  IN  /\ hunk \in [lines : Seq(HunkLine(W)), removes : Seq(HunkLine(W)), adds : Seq(HunkLine(W))]
      /\ l \in Nat /\ Says(hunk.lines, OldMarks, old, oldfirst)
      /\ r \in Nat /\ Says(hunk.lines, NewMarks, new, newfirst)
      /\ \A i \in 1 .. Len(hunk.removes) : hunk.removes[i][1] = "-" /\ hunk.removes[i][2] = old[oldfirst - 1 + l + i]
      /\ \A i \in 1 .. Len(hunk.adds) : hunk.adds[i][1] = "+" /\ hunk.adds[i][2] = new[newfirst - 1 + r + i]
      /\ oldfirst - 1 + l + Len(hunk.removes) = LeftLines(edits, k)
      /\ newfirst - 1 + r + Len(hunk.adds) = RightLines(edits, k)

(* So its lines say when it is flushed. *)
LEMMA FlushedSays ==
  ASSUME NEW W, NEW hunk, NEW old, NEW new, NEW edits, NEW oldfirst \in Int, NEW newfirst \in Int, NEW k \in Nat \ {0},
         HunkSays(W, hunk, old, new, edits, oldfirst, newfirst, k)
  PROVE  /\ Flushed(hunk) \in Seq(HunkLine(W))
         /\ TellsLines(Flushed(hunk), OldMarks, old, oldfirst, LeftLines(edits, k) - (oldfirst - 1))
         /\ TellsLines(Flushed(hunk), NewMarks, new, newfirst, RightLines(edits, k) - (newfirst - 1))
         /\ LeftLines(edits, k) - (oldfirst - 1) \in Nat /\ RightLines(edits, k) - (newfirst - 1) \in Nat
<1> DEFINE l == Marked(hunk.lines, OldMarks)
           r == Marked(hunk.lines, NewMarks)
           L == HunkLine(W)
           s == hunk.lines
           t == hunk.removes
           u == hunk.adds
<1>1. /\ s \in Seq(L) /\ t \in Seq(L) /\ u \in Seq(L) /\ s \o t \in Seq(L)
      /\ Flushed(hunk) \in Seq(L) /\ Flushed(hunk) = (s \o t) \o u
      /\ Len(t) \in Nat /\ Len(u) \in Nat
  BY DEF HunkSays, Flushed
<1>2. TellsLines(s, OldMarks, old, oldfirst, l) /\ TellsLines(s, NewMarks, new, newfirst, r) /\ l \in Nat /\ r \in Nat
  BY DEF HunkSays, TellsLines
<1>3. /\ \A i \in 1 .. Len(t) : t[i][1] \in OldMarks /\ t[i][1] \notin NewMarks
      /\ \A i \in 1 .. Len(u) : u[i][1] \notin OldMarks /\ u[i][1] \in NewMarks
      /\ \A i \in 1 .. Len(t) : t[i][2] = old[oldfirst - 1 + l + i]
      /\ \A i \in 1 .. Len(u) : u[i][2] = new[newfirst - 1 + r + i]
  BY MarksDiffer DEF HunkSays, OldMarks, NewMarks
<1>4. l + Len(t) = LeftLines(edits, k) - (oldfirst - 1) /\ r + Len(u) = RightLines(edits, k) - (newfirst - 1)
  <2>1. LeftLines(edits, k) \in Nat /\ RightLines(edits, k) \in Nat
    BY LinesGrow
  <2>2. oldfirst - 1 + l + Len(t) = LeftLines(edits, k) /\ newfirst - 1 + r + Len(u) = RightLines(edits, k)
    BY DEF HunkSays
  <2> HIDE DEF l, r, t, u
  <2> QED BY <1>1, <1>2, <2>1, <2>2
<1> HIDE DEF l, r, L, s, t, u
<1>5. TellsLines(s \o t, OldMarks, old, oldfirst, l + Len(t))
  BY <1>1, <1>2, <1>3, TellsOn
<1>6. TellsLines(s \o t, NewMarks, new, newfirst, r)
  <2>1. \A i \in 1 .. Len(t) : t[i][1] \in NewMarks <=> 0 = 1
    BY <1>3
  <2>2. TellsLines(s \o t, NewMarks, new, newfirst, r + (IF 0 = 1 THEN Len(t) ELSE 0))
    BY <1>1, <1>2, <2>1, TellsOn
  <2>3. r + (IF 0 = 1 THEN Len(t) ELSE 0) = r
    BY <1>2
  <2> QED BY <2>2, <2>3
<1>7. TellsLines((s \o t) \o u, OldMarks, old, oldfirst, l + Len(t))
  <2> DEFINE m == l + Len(t)
  <2>0. m \in Nat /\ TellsLines(s \o t, OldMarks, old, oldfirst, m)
    BY <1>1, <1>2, <1>5
  <2> HIDE DEF m
  <2>1. \A i \in 1 .. Len(u) : u[i][1] \in OldMarks <=> 0 = 1
    BY <1>3
  <2>2. TellsLines((s \o t) \o u, OldMarks, old, oldfirst, m + (IF 0 = 1 THEN Len(u) ELSE 0))
    <3> DEFINE x == s \o t
    <3>1. x \in Seq(L) /\ u \in Seq(L) /\ m \in Nat /\ TellsLines(x, OldMarks, old, oldfirst, m)
      BY <1>1, <2>0
    <3> HIDE DEF x
    <3>2. TellsLines(x \o u, OldMarks, old, oldfirst, m + (IF 0 = 1 THEN Len(u) ELSE 0))
      BY <2>1, <3>1, TellsOn
    <3> QED BY <3>2 DEF x
  <2>3. m + (IF 0 = 1 THEN Len(u) ELSE 0) = m
    BY <2>0
  <2>4. TellsLines((s \o t) \o u, OldMarks, old, oldfirst, m)
    BY <2>2, <2>3
  <2> QED BY <2>4 DEF m
<1>8. TellsLines((s \o t) \o u, NewMarks, new, newfirst, r + Len(u))
  BY <1>1, <1>2, <1>3, <1>6, TellsOn
<1> QED BY <1>1, <1>2, <1>4, <1>7, <1>8 DEF L

(* The lines that an edit goes over are there. *)
LEMMA LinesThere ==
  ASSUME NEW W, NEW old \in Seq(W), NEW new \in Seq(W), NEW edits, TurnsInto(edits, old, new, <<Len(old), Len(new)>>),
         NEW k \in 1 .. Len(edits)
  PROVE  /\ edits[k] # "kAdd" => LeftLines(edits, k) + 1 \in 1 .. Len(old) /\ old[LeftLines(edits, k) + 1] \in W
         /\ edits[k] # "kRemove" => RightLines(edits, k) + 1 \in 1 .. Len(new) /\ new[RightLines(edits, k) + 1] \in W
<1> DEFINE n == Len(edits)
<1>1. /\ n \in Nat /\ k \in Nat \ {0} /\ k + 1 \in Nat \ {0} /\ n + 1 \in Nat /\ k + 1 <= n + 1
      /\ LeftLines(edits, n + 1) = Len(old) /\ RightLines(edits, n + 1) = Len(new)
  BY DEF TurnsInto
<1> HIDE DEF n
<1>2. /\ LeftLines(edits, k) \in Nat /\ RightLines(edits, k) \in Nat
      /\ LeftLines(edits, k + 1) = LeftLines(edits, k) + OverLeft(edits[k])
      /\ RightLines(edits, k + 1) = RightLines(edits, k) + OverRight(edits[k])
  BY <1>1, LinesGrow
<1>3. LeftLines(edits, k + 1) <= Len(old) /\ RightLines(edits, k + 1) <= Len(new)
  BY <1>1, LinesBetween
<1>4. /\ edits[k] # "kAdd" => LeftLines(edits, k) + 1 \in 1 .. Len(old)
      /\ edits[k] # "kRemove" => RightLines(edits, k) + 1 \in 1 .. Len(new)
  BY <1>2, <1>3 DEF OverLeft, OverRight
<1> QED BY <1>4

(* A hunk goes on to say what the edits go over. *)
LEMMA PushedSays ==
  ASSUME NEW W, NEW old \in Seq(W), NEW new \in Seq(W), NEW edits, TurnsInto(edits, old, new, <<Len(old), Len(new)>>),
         NEW k \in 1 .. Len(edits), NEW hunk, NEW oldfirst \in Int, NEW newfirst \in Int,
         HunkSays(W, hunk, old, new, edits, oldfirst, newfirst, k)
  PROVE  HunkSays(W, Pushed(hunk, edits[k], old[LeftLines(edits, k) + 1], new[RightLines(edits, k) + 1]),
                  old, new, edits, oldfirst, newfirst, k + 1)
<1> DEFINE L == HunkLine(W)
           x == old[LeftLines(edits, k) + 1]
           y == new[RightLines(edits, k) + 1]
           h == Pushed(hunk, edits[k], x, y)
           l == Marked(hunk.lines, OldMarks)
           r == Marked(hunk.lines, NewMarks)
           a == LeftLines(edits, k)
           b == RightLines(edits, k)
<1>1. edits[k] \in EditMoves /\ k \in Nat \ {0}
  BY DEF TurnsInto
<1>2. /\ a \in Nat /\ b \in Nat
      /\ LeftLines(edits, k + 1) = a + OverLeft(edits[k]) /\ RightLines(edits, k + 1) = b + OverRight(edits[k])
  BY <1>1, LinesGrow
<1>3. (edits[k] # "kAdd" => x \in W) /\ (edits[k] # "kRemove" => y \in W) /\ (edits[k] = "kMatch" => x = y)
  BY LinesThere DEF TurnsInto
<1>4. /\ hunk.lines \in Seq(L) /\ hunk.removes \in Seq(L) /\ hunk.adds \in Seq(L)
      /\ Len(hunk.removes) \in Nat /\ Len(hunk.adds) \in Nat /\ l \in Nat /\ r \in Nat
      /\ Says(hunk.lines, OldMarks, old, oldfirst) /\ Says(hunk.lines, NewMarks, new, newfirst)
      /\ \A i \in 1 .. Len(hunk.removes) : hunk.removes[i][1] = "-" /\ hunk.removes[i][2] = old[oldfirst - 1 + l + i]
      /\ \A i \in 1 .. Len(hunk.adds) : hunk.adds[i][1] = "+" /\ hunk.adds[i][2] = new[newfirst - 1 + r + i]
      /\ oldfirst - 1 + l + Len(hunk.removes) = a
      /\ newfirst - 1 + r + Len(hunk.adds) = b
  BY SMTT(60) DEF HunkSays
<1>a. /\ Len(hunk.removes) \in Nat /\ Len(hunk.adds) \in Nat /\ l \in Nat /\ r \in Nat
      /\ oldfirst - 1 + l + Len(hunk.removes) = a /\ newfirst - 1 + r + Len(hunk.adds) = b
  BY <1>4
<1>b. oldfirst - 1 + l + (Len(hunk.removes) + 1) = a + 1 /\ newfirst - 1 + r + (Len(hunk.adds) + 1) = b + 1
  <2> DEFINE m == Len(hunk.removes)
             n == Len(hunk.adds)
  <2>1. /\ m \in Nat /\ n \in Nat /\ l \in Nat /\ r \in Nat /\ a \in Nat /\ b \in Nat
        /\ oldfirst - 1 + l + m = a /\ newfirst - 1 + r + n = b
    BY <1>2, <1>a
  <2> HIDE DEF a, b, l, r, m, n
  <2>2. oldfirst - 1 + l + (m + 1) = a + 1 /\ newfirst - 1 + r + (n + 1) = b + 1
    BY <2>1
  <2> QED BY <2>2 DEF m, n
<1>5. CASE edits[k] = "kMatch"
  <2> DEFINE F == Flushed(hunk)
             line == <<Common, x>>
             m == a - (oldfirst - 1)
             n == b - (newfirst - 1)
  <2>1. /\ F \in Seq(L) /\ m \in Nat /\ n \in Nat
        /\ TellsLines(F, OldMarks, old, oldfirst, m) /\ TellsLines(F, NewMarks, new, newfirst, n)
    BY <1>1, FlushedSays
  <2>2. line \in L /\ line[1] \in OldMarks /\ line[1] \in NewMarks /\ line[2] = x
    BY <1>3, <1>5 DEF HunkLine, OldMarks, NewMarks
  <2>3. line[2] = old[oldfirst + m] /\ line[2] = new[newfirst + n]
    <3>1. oldfirst + m = a + 1 /\ newfirst + n = b + 1
      BY <1>2
    <3> HIDE DEF m, n, line
    <3> QED BY <1>3, <1>5, <2>2, <3>1
  <2>4. h = [lines |-> Append(F, line), removes |-> <<>>, adds |-> <<>>]
    BY <1>5 DEF Pushed
  <2> HIDE DEF F, m, n, line, h
  <2>5. TellsLines(Append(F, line), OldMarks, old, oldfirst, m + 1) /\ TellsLines(Append(F, line), NewMarks, new, newfirst, n + 1)
    <3> HIDE DEF L
    <3>1. TellsLines(Append(F, line), OldMarks, old, oldfirst, m + (IF line[1] \in OldMarks THEN 1 ELSE 0))
      BY <2>1, <2>2, <2>3, TellsMore
    <3>2. TellsLines(Append(F, line), NewMarks, new, newfirst, n + (IF line[1] \in NewMarks THEN 1 ELSE 0))
      BY <2>1, <2>2, <2>3, TellsMore
    <3> QED BY <2>2, <3>1, <3>2
  <2>6. LeftLines(edits, k + 1) = a + 1 /\ RightLines(edits, k + 1) = b + 1
    BY <1>2, <1>5 DEF OverLeft, OverRight
  <2>7. oldfirst - 1 + (m + 1) + 0 = a + 1 /\ newfirst - 1 + (n + 1) + 0 = b + 1
    BY <1>2, SMTT(60) DEF m, n
  <2>8. h.lines = Append(F, line) /\ h.removes = <<>> /\ h.adds = <<>> /\ h \in [lines : Seq(L), removes : Seq(L), adds : Seq(L)]
    BY <2>1, <2>2, <2>4
  <2>9. Len(h.removes) = 0 /\ Len(h.adds) = 0
    BY <2>8
  <2>10. /\ Marked(h.lines, OldMarks) = m + 1 /\ Says(h.lines, OldMarks, old, oldfirst)
         /\ Marked(h.lines, NewMarks) = n + 1 /\ Says(h.lines, NewMarks, new, newfirst)
         /\ m + 1 \in Nat /\ n + 1 \in Nat
    BY <2>1, <2>5, <2>8 DEF TellsLines
  <2> HIDE DEF a, b
  <2>11. HunkSays(W, h, old, new, edits, oldfirst, newfirst, k + 1)
    BY <2>6, <2>7, <2>8, <2>9, <2>10 DEF HunkSays
  <2> QED BY <2>11 DEF h, a, b
<1>6. CASE edits[k] # "kMatch"
  <2> DEFINE t == IF edits[k] = "kAdd" THEN hunk.removes ELSE Append(hunk.removes, <<"-", x>>)
             u == IF edits[k] = "kRemove" THEN hunk.adds ELSE Append(hunk.adds, <<"+", y>>)
  <2>1. h = [hunk EXCEPT !.removes = t, !.adds = u]
    BY <1>6 DEF Pushed
  <2>2. /\ t \in Seq(L) /\ Len(t) = Len(hunk.removes) + OverLeft(edits[k])
        /\ \A i \in 1 .. Len(t) : t[i][1] = "-" /\ t[i][2] = old[oldfirst - 1 + l + i]
    <3>1. CASE edits[k] = "kAdd"
      BY <1>4, <3>1 DEF OverLeft
    <3>2. CASE edits[k] # "kAdd"
      <4> DEFINE line == <<"-", x>>
      <4>1. line \in L /\ line[1] = "-" /\ line[2] = x /\ t = Append(hunk.removes, line)
        BY <1>3, <3>2 DEF HunkLine
      <4>2. oldfirst - 1 + l + (Len(hunk.removes) + 1) = a + 1
        BY <1>b
      <4> HIDE DEF line, L, t, l
      <4>3. t \in Seq(L) /\ Len(t) = Len(hunk.removes) + 1 /\ t[Len(hunk.removes) + 1] = line
            /\ \A i \in 1 .. Len(hunk.removes) : t[i] = hunk.removes[i]
        <5> DEFINE s == hunk.removes
        <5>1. s \in Seq(L) /\ line \in L /\ t = Append(s, line)
          BY <1>4, <4>1
        <5> HIDE DEF s
        <5>2. t \in Seq(L) /\ Len(t) = Len(s) + 1 /\ t[Len(s) + 1] = line /\ \A i \in 1 .. Len(s) : t[i] = s[i]
          BY <5>1
        <5> QED BY <5>2 DEF s
      <4>4. ASSUME NEW i \in 1 .. Len(t) PROVE t[i][1] = "-" /\ t[i][2] = old[oldfirst - 1 + l + i]
        <5>1. CASE i \in 1 .. Len(hunk.removes)
          BY <1>4, <4>3, <5>1
        <5>2. CASE i = Len(hunk.removes) + 1
          BY <4>1, <4>2, <4>3, <5>2
        <5>3. i \in 1 .. Len(hunk.removes) + 1 /\ Len(hunk.removes) \in Nat
          BY <1>a, <4>3
        <5> QED BY <5>1, <5>2, <5>3, SMTT(60)
      <4> QED BY <3>2, <4>3, <4>4 DEF OverLeft
    <3> QED BY <3>1, <3>2
  <2>3. /\ u \in Seq(L) /\ Len(u) = Len(hunk.adds) + OverRight(edits[k])
        /\ \A i \in 1 .. Len(u) : u[i][1] = "+" /\ u[i][2] = new[newfirst - 1 + r + i]
    <3>1. CASE edits[k] = "kRemove"
      BY <1>4, <3>1 DEF OverRight
    <3>2. CASE edits[k] # "kRemove"
      <4> DEFINE line == <<"+", y>>
      <4>1. line \in L /\ line[1] = "+" /\ line[2] = y /\ u = Append(hunk.adds, line)
        BY <1>3, <3>2 DEF HunkLine
      <4>2. newfirst - 1 + r + (Len(hunk.adds) + 1) = b + 1
        BY <1>b
      <4> HIDE DEF line, L, u, r
      <4>3. u \in Seq(L) /\ Len(u) = Len(hunk.adds) + 1 /\ u[Len(hunk.adds) + 1] = line
            /\ \A i \in 1 .. Len(hunk.adds) : u[i] = hunk.adds[i]
        <5> DEFINE s == hunk.adds
        <5>1. s \in Seq(L) /\ line \in L /\ u = Append(s, line)
          BY <1>4, <4>1
        <5> HIDE DEF s
        <5>2. u \in Seq(L) /\ Len(u) = Len(s) + 1 /\ u[Len(s) + 1] = line /\ \A i \in 1 .. Len(s) : u[i] = s[i]
          BY <5>1
        <5> QED BY <5>2 DEF s
      <4>4. ASSUME NEW i \in 1 .. Len(u) PROVE u[i][1] = "+" /\ u[i][2] = new[newfirst - 1 + r + i]
        <5>1. CASE i \in 1 .. Len(hunk.adds)
          BY <1>4, <4>3, <5>1
        <5>2. CASE i = Len(hunk.adds) + 1
          BY <4>1, <4>2, <4>3, <5>2
        <5>3. i \in 1 .. Len(hunk.adds) + 1 /\ Len(hunk.adds) \in Nat
          BY <1>a, <4>3
        <5> QED BY <5>1, <5>2, <5>3
      <4> QED BY <3>2, <4>3, <4>4 DEF OverRight
    <3> QED BY <3>1, <3>2
  <2> HIDE DEF t, u, h
  <2>4. /\ h \in [lines : Seq(L), removes : Seq(L), adds : Seq(L)]
        /\ h.lines = hunk.lines /\ h.removes = t /\ h.adds = u
    <3>1. hunk \in [lines : Seq(L), removes : Seq(L), adds : Seq(L)]
      BY DEF HunkSays
    <3> HIDE DEF L
    <3> QED BY <2>1, <2>2, <2>3, <3>1
  <2>5. /\ oldfirst - 1 + l + Len(t) = LeftLines(edits, k + 1)
        /\ newfirst - 1 + r + Len(u) = RightLines(edits, k + 1)
    <3>1. OverLeft(edits[k]) \in {0, 1} /\ OverRight(edits[k]) \in {0, 1}
      BY DEF OverLeft, OverRight
    <3> HIDE DEF l, r, a, b
    <3> DEFINE m == Len(hunk.removes)
               n == Len(hunk.adds)
               ml == OverLeft(edits[k])
               nr == OverRight(edits[k])
    <3>2. /\ m \in Nat /\ n \in Nat /\ l \in Nat /\ r \in Nat /\ a \in Nat /\ b \in Nat
          /\ oldfirst - 1 + l + m = a /\ newfirst - 1 + r + n = b
          /\ ml \in {0, 1} /\ nr \in {0, 1}
      BY <1>2, <1>a, <3>1
    <3>3. Len(t) = m + ml /\ Len(u) = n + nr /\ LeftLines(edits, k + 1) = a + ml /\ RightLines(edits, k + 1) = b + nr
      BY <1>2, <2>2, <2>3
    <3> HIDE DEF a, b, l, r, m, n, ml, nr
    <3>4. oldfirst - 1 + l + (m + ml) = a + ml /\ newfirst - 1 + r + (n + nr) = b + nr
      BY <3>2
    <3> QED BY <3>3, <3>4
  <2>6. HunkSays(W, h, old, new, edits, oldfirst, newfirst, k + 1)
    <3>1. /\ Marked(h.lines, OldMarks) = l /\ Marked(h.lines, NewMarks) = r /\ l \in Nat /\ r \in Nat
          /\ Says(h.lines, OldMarks, old, oldfirst) /\ Says(h.lines, NewMarks, new, newfirst)
      BY <1>4, <2>4
    <3>2. /\ \A i \in 1 .. Len(h.removes) : h.removes[i][1] = "-" /\ h.removes[i][2] = old[oldfirst - 1 + l + i]
          /\ \A i \in 1 .. Len(h.adds) : h.adds[i][1] = "+" /\ h.adds[i][2] = new[newfirst - 1 + r + i]
          /\ oldfirst - 1 + l + Len(h.removes) = LeftLines(edits, k + 1)
          /\ newfirst - 1 + r + Len(h.adds) = RightLines(edits, k + 1)
      BY <2>2, <2>3, <2>4, <2>5
    <3> HIDE DEF l, r
    <3> QED BY <2>4, <3>1, <3>2 DEF HunkSays
  <2> QED BY <2>6 DEF h
<1> QED BY <1>5, <1>6

Hunks(W) == [lines : Seq(HunkLine(W)), removes : Seq(HunkLine(W)), adds : Seq(HunkLine(W))]
(* The hunk has an edit *)
Edited(hunk) == (\E i \in DOMAIN hunk.lines : hunk.lines[i][1] # Common) \/ hunk.removes # <<>> \/ hunk.adds # <<>>

(* It shows when the hunk is flushed. *)
LEMMA FlushedEdited ==
  ASSUME NEW W, NEW hunk, NEW old, NEW new, NEW edits, NEW oldfirst \in Int, NEW newfirst \in Int, NEW k \in Nat \ {0},
         HunkSays(W, hunk, old, new, edits, oldfirst, newfirst, k), Edited(hunk)
  PROVE  \E i \in DOMAIN Flushed(hunk) : Flushed(hunk)[i][1] # Common
<1> DEFINE L == HunkLine(W)
           s == hunk.lines
           t == hunk.removes
           u == hunk.adds
           F == Flushed(hunk)
<1>1. /\ s \in Seq(L) /\ t \in Seq(L) /\ u \in Seq(L) /\ F = (s \o t) \o u
      /\ \A i \in 1 .. Len(t) : t[i][1] = "-"
      /\ \A i \in 1 .. Len(u) : u[i][1] = "+"
  BY DEF HunkSays, Flushed
<1>2. (\E i \in DOMAIN s : s[i][1] # Common) \/ t # <<>> \/ u # <<>>
  BY DEF Edited
<1> HIDE DEF L, s, t, u, F
<1>3. /\ Len(s) \in Nat /\ Len(t) \in Nat /\ Len(u) \in Nat /\ DOMAIN F = 1 .. Len(s) + Len(t) + Len(u)
      /\ \A i \in 1 .. Len(s) : F[i] = s[i]
      /\ \A i \in 1 .. Len(t) : F[Len(s) + i] = t[i]
      /\ \A i \in 1 .. Len(u) : F[Len(s) + Len(t) + i] = u[i]
  BY <1>1, SMTT(60)
<1>4. CASE \E i \in DOMAIN s : s[i][1] # Common
  <2>1. PICK i \in DOMAIN s : s[i][1] # Common
    BY <1>4
  <2>2. i \in 1 .. Len(s) /\ i \in DOMAIN F
    BY <1>1, <1>3
  <2> QED BY <1>3, <2>1, <2>2 DEF F
<1>5. CASE t # <<>>
  <2>1. 1 \in 1 .. Len(t) /\ Len(s) + 1 \in DOMAIN F
    <3>1. Len(t) # 0
      BY <1>1, <1>5
    <3> QED BY <1>3, <3>1
  <2>2. F[Len(s) + 1][1] = "-"
    BY <1>1, <1>3, <2>1
  <2> QED BY <2>1, <2>2, MarksDiffer DEF F
<1>6. CASE u # <<>>
  <2>1. 1 \in 1 .. Len(u) /\ Len(s) + Len(t) + 1 \in DOMAIN F
    <3>1. Len(u) # 0
      BY <1>1, <1>6
    <3> QED BY <1>3, <3>1
  <2>2. F[Len(s) + Len(t) + 1][1] = "+"
    BY <1>1, <1>3, <2>1
  <2> QED BY <2>1, <2>2, MarksDiffer DEF F
<1> QED BY <1>2, <1>4, <1>5, <1>6

(* Hunks stay hunks, *)
LEMMA PushedHunk ==
  ASSUME NEW W, NEW old \in Seq(W), NEW new \in Seq(W), NEW edits, TurnsInto(edits, old, new, <<Len(old), Len(new)>>),
         NEW k \in 1 .. Len(edits), NEW hunk \in Hunks(W)
  PROVE  Pushed(hunk, edits[k], old[LeftLines(edits, k) + 1], new[RightLines(edits, k) + 1]) \in Hunks(W)
<1> DEFINE L == HunkLine(W)
           x == old[LeftLines(edits, k) + 1]
           y == new[RightLines(edits, k) + 1]
<1>1. edits[k] \in EditMoves /\ (edits[k] # "kAdd" => x \in W) /\ (edits[k] # "kRemove" => y \in W)
  BY LinesThere DEF TurnsInto
<1>2. hunk.lines \in Seq(L) /\ hunk.removes \in Seq(L) /\ hunk.adds \in Seq(L) /\ Flushed(hunk) \in Seq(L)
  BY DEF Hunks, Flushed
<1> HIDE DEF x, y
<1>3. CASE edits[k] = "kMatch"
  <2>1. <<Common, x>> \in L
    BY <1>1, <1>3 DEF HunkLine
  <2>2. Append(Flushed(hunk), <<Common, x>>) \in Seq(L) /\ <<>> \in Seq(L)
    <3> HIDE DEF L
    <3>1. \A q \in Seq(L), line \in L : Append(q, line) \in Seq(L)
      OBVIOUS
    <3> QED BY <1>2, <2>1, <3>1, EmptySeq, Zenon
  <2>3. Pushed(hunk, edits[k], x, y) = [lines |-> Append(Flushed(hunk), <<Common, x>>), removes |-> <<>>, adds |-> <<>>]
    BY <1>3 DEF Pushed
  <2>4. Pushed(hunk, edits[k], x, y) \in Hunks(W)
    <3> DEFINE q == Append(Flushed(hunk), <<Common, x>>)
               none == <<>>
    <3>1. q \in Seq(L) /\ none \in Seq(L) /\ Pushed(hunk, edits[k], x, y) = [lines |-> q, removes |-> none, adds |-> none]
      BY <2>2, <2>3
    <3> HIDE DEF q, none, L
    <3> QED BY <3>1 DEF Hunks, L
  <2> QED BY <2>4 DEF x, y
<1>4. CASE edits[k] # "kMatch"
  <2> DEFINE t == IF edits[k] = "kAdd" THEN hunk.removes ELSE Append(hunk.removes, <<"-", x>>)
             u == IF edits[k] = "kRemove" THEN hunk.adds ELSE Append(hunk.adds, <<"+", y>>)
  <2>1. (edits[k] # "kAdd" => <<"-", x>> \in L) /\ (edits[k] # "kRemove" => <<"+", y>> \in L)
    BY <1>1 DEF HunkLine
  <2>2. t \in Seq(L) /\ u \in Seq(L)
    <3> HIDE DEF L
    <3>1. \A q \in Seq(L), line \in L : Append(q, line) \in Seq(L)
      OBVIOUS
    <3>2. t \in Seq(L)
      BY <1>2, <2>1, <3>1, Zenon
    <3>3. u \in Seq(L)
      BY <1>2, <2>1, <3>1, Zenon
    <3> QED BY <3>2, <3>3
  <2>3. Pushed(hunk, edits[k], x, y) = [hunk EXCEPT !.removes = t, !.adds = u]
    BY <1>4 DEF Pushed
  <2> HIDE DEF t, u
  <2>4. Pushed(hunk, edits[k], x, y) \in Hunks(W)
    <3>1. hunk \in [lines : Seq(L), removes : Seq(L), adds : Seq(L)]
      BY DEF Hunks
    <3> HIDE DEF L
    <3>2. [hunk EXCEPT !.removes = t, !.adds = u] \in [lines : Seq(L), removes : Seq(L), adds : Seq(L)]
      BY <2>2, <3>1
    <3> QED BY <2>3, <3>2 DEF Hunks, L
  <2> QED BY <2>4 DEF x, y
<1> QED BY <1>3, <1>4

(* Whatever is appended, what was there stays. *)
LEMMA Appended ==
  ASSUME NEW S, NEW s \in Seq(S), NEW x
  PROVE  Append(s, x) # <<>> /\ DOMAIN s \subseteq DOMAIN Append(s, x) /\ \A i \in DOMAIN s : Append(s, x)[i] = s[i]
<1> DEFINE Q == S \union {x}
<1>1. s \in Seq(Q) /\ x \in Q
  BY SeqMonotonic
<1> HIDE DEF Q
<1>2. Len(s) \in Nat /\ Append(s, x) \in Seq(Q) /\ Len(Append(s, x)) = Len(s) + 1 /\ \A i \in 1 .. Len(s) : Append(s, x)[i] = s[i]
  BY <1>1
<1>3. DOMAIN s = 1 .. Len(s) /\ DOMAIN Append(s, x) = 1 .. Len(s) + 1
  BY <1>1, <1>2
<1>4. Append(s, x) # <<>>
  BY <1>2
<1> QED BY <1>2, <1>3, <1>4

(* and edited, once an edit was no match. *)
LEMMA PushedEdited ==
  ASSUME NEW W, NEW old, NEW new, NEW edits \in Seq(EditMoves), NEW oldfirst \in Int, NEW newfirst \in Int,
         NEW k \in 1 .. Len(edits), NEW hunk, HunkSays(W, hunk, old, new, edits, oldfirst, newfirst, k),
         Edited(hunk) \/ edits[k] # "kMatch", NEW x, NEW y
  PROVE  Edited(Pushed(hunk, edits[k], x, y))
<1>1. k \in Nat \ {0} /\ edits[k] \in EditMoves
  OBVIOUS
<1>2. CASE edits[k] = "kMatch"
  <2> DEFINE F == Flushed(hunk)
             e == Append(F, <<Common, x>>)
  <2>1. PICK i \in DOMAIN F : F[i][1] # Common
    BY <1>1, <1>2, FlushedEdited
  <2>2. F \in Seq(HunkLine(W))
    BY <1>1, FlushedSays
  <2>3. i \in DOMAIN e /\ e[i] = F[i]
    <3> HIDE DEF F
    <3> QED BY <2>1, <2>2, Appended
  <2>4. Pushed(hunk, edits[k], x, y).lines = e
    BY <1>2 DEF Pushed
  <2> HIDE DEF F, e
  <2> QED BY <2>1, <2>3, <2>4 DEF Edited
<1>3. CASE edits[k] # "kMatch"
  <2>1. hunk.removes \in Seq(HunkLine(W)) /\ hunk.adds \in Seq(HunkLine(W))
        /\ hunk \in [lines : Seq(HunkLine(W)), removes : Seq(HunkLine(W)), adds : Seq(HunkLine(W))]
    BY DEF HunkSays
  <2>2. Append(hunk.removes, <<"-", x>>) # <<>> /\ Append(hunk.adds, <<"+", y>>) # <<>>
    BY <2>1, Appended
  <2>3. CASE edits[k] = "kAdd"
    <3>1. Pushed(hunk, edits[k], x, y).adds = Append(hunk.adds, <<"+", y>>)
      BY <2>1, <2>3 DEF Pushed
    <3> QED BY <2>2, <3>1 DEF Edited
  <2>4. CASE edits[k] # "kAdd"
    <3>1. Pushed(hunk, edits[k], x, y).removes = Append(hunk.removes, <<"-", x>>)
      BY <1>3, <2>1, <2>4 DEF Pushed
    <3> QED BY <2>2, <3>1 DEF Edited
  <2> QED BY <2>3, <2>4
<1> QED BY <1>2, <1>3

(* The hunk before the k-th edit, when it began with some lines at start *)
HunkBefore(lines, edits, old, new, start, k, hunk) ==
  IF k = start THEN [lines |-> lines, removes |-> <<>>, adds |-> <<>>]
  ELSE Pushed(hunk[k - 1], edits[k - 1], old[LeftLines(edits, k - 1) + 1], new[RightLines(edits, k - 1) + 1])

(* What is shown from an edit on says what the edits go over, and has it. *)
LEMMA ShownSays ==
  ASSUME NEW W, NEW old \in Seq(W), NEW new \in Seq(W), NEW edits, TurnsInto(edits, old, new, <<Len(old), Len(new)>>),
         NEW start \in 1 .. Len(edits), edits[start] # "kMatch", NEW end \in start + 1 .. Len(edits) + 1,
         NEW lines \in Seq(HunkLine(W)), NEW oldfirst \in Int, NEW newfirst \in Int,
         LeftLines(edits, start) - (oldfirst - 1) \in Nat, RightLines(edits, start) - (newfirst - 1) \in Nat,
         TellsLines(lines, OldMarks, old, oldfirst, LeftLines(edits, start) - (oldfirst - 1)),
         TellsLines(lines, NewMarks, new, newfirst, RightLines(edits, start) - (newfirst - 1)),
         NEW shown, shown = Shown(lines, edits, old, new, start, end)
  PROVE  /\ TellsLines(shown, OldMarks, old, oldfirst, LeftLines(edits, end) - (oldfirst - 1))
         /\ TellsLines(shown, NewMarks, new, newfirst, RightLines(edits, end) - (newfirst - 1))
         /\ \E i \in DOMAIN shown : shown[i][1] # Common
<1> DEFINE D == start .. end
           V == Hunks(W)
           E(k, f) == HunkBefore(lines, edits, old, new, start, k, f)
           F(f) == [k \in D |-> E(k, f)]
           T == [f \in [D -> V] |-> F(f)]
           rank == [k \in D |-> k - start]
           none == [lines |-> lines, removes |-> <<>>, adds |-> <<>>]
<1>0. /\ edits \in Seq(EditMoves) /\ Len(edits) \in Nat /\ start \in Nat \ {0} /\ end \in Nat /\ start < end
      /\ \A k \in D : k # start => k - 1 \in D /\ k - 1 \in 1 .. Len(edits) /\ rank[k - 1] < rank[k]
  BY DEF TurnsInto
<1>1. none \in V
  <2>1. <<>> \in Seq(HunkLine(W))
    BY EmptySeq
  <2> QED BY <2>1 DEF Hunks
<1>2. ASSUME NEW f, NEW k \in D, k # start => f[k - 1] \in V PROVE E(k, f) \in V
  <2>1. CASE k = start
    BY <1>1, <2>1 DEF HunkBefore
  <2>2. CASE k # start
    <3>1. E(k, f) = Pushed(f[k - 1], edits[k - 1], old[LeftLines(edits, k - 1) + 1], new[RightLines(edits, k - 1) + 1])
      BY <2>2 DEF HunkBefore
    <3> DEFINE j == k - 1
               h == f[k - 1]
    <3>2. j \in 1 .. Len(edits) /\ h \in Hunks(W)
      BY <1>0, <1>2, <2>2
    <3>3. E(k, f) = Pushed(h, edits[j], old[LeftLines(edits, j) + 1], new[RightLines(edits, j) + 1])
      BY <3>1
    <3> HIDE DEF j, h, E
    <3> QED BY <3>2, <3>3, PushedHunk
  <2> QED BY <2>1, <2>2
<1>3. T \in [[D -> V] -> [D -> V]]
  <2>1. \A f \in [D -> V], k \in D : E(k, f) \in V
    <3> HIDE DEF E, D, V
    <3> QED BY <1>0, <1>2
  <2> HIDE DEF E
  <2> QED BY <2>1
<1>4. ASSUME NEW f \in [D -> V], NEW g \in [D -> V], NEW k \in D, \A q \in D : rank[q] < rank[k] => f[q] = g[q]
      PROVE  T[f][k] = T[g][k]
  <2>1. k # start => f[k - 1] = g[k - 1]
    <3> HIDE DEF D, rank
    <3> QED BY <1>0, <1>4
  <2>2. E(k, f) = E(k, g)
    BY <2>1, Zenon DEF HunkBefore
  <2> HIDE DEF E
  <2> QED BY <2>2
<1>5. rank \in [D -> Nat] /\ \A k \in D : rank[k] < end - start + 1
  BY <1>0
<1>6. \E f \in [D -> V] : T[f] = f
  <2>1. V # {} /\ end - start + 1 \in Nat
    BY <1>0, <1>1
  <2> HIDE DEF D, V, T, rank
  <2>2. Recursion(D, V, rank, T)
    BY <1>3, <1>4, <1>5, <2>1 DEF Recursion
  <2> QED BY <2>2, Solved
<1>7. PICK f \in [D -> V] : f = F(f)
  BY <1>6
<1> DEFINE hunk == CHOOSE g : g = F(g)
<1>8. hunk = F(hunk)
  BY <1>7, Zenon
<1>9. shown = Flushed(hunk[end])
  BY DEF Shown, HunkBefore
<1> HIDE DEF hunk
<1>10. \A k \in D : hunk[k] = E(k, hunk)
  <2> HIDE DEF E
  <2> QED BY <1>8
<1> DEFINE Says1(k) == HunkSays(W, hunk[k], old, new, edits, oldfirst, newfirst, k)
           G == {m \in 0 .. end - start : Says1(start + m) /\ (m > 0 => Edited(hunk[start + m]))}
<1>11. 0 \in G
  <2>1. hunk[start] = none /\ start + 0 = start
    BY <1>0, <1>10 DEF HunkBefore
  <2> DEFINE l == LeftLines(edits, start) - (oldfirst - 1)
             r == RightLines(edits, start) - (newfirst - 1)
             h == none
  <2>2. /\ h \in [lines : Seq(HunkLine(W)), removes : Seq(HunkLine(W)), adds : Seq(HunkLine(W))]
        /\ h.lines = lines /\ h.removes = <<>> /\ h.adds = <<>>
    BY <1>1 DEF Hunks
  <2>3. Len(h.removes) = 0 /\ Len(h.adds) = 0
    BY <2>2
  <2>4. /\ Marked(h.lines, OldMarks) = l /\ Says(h.lines, OldMarks, old, oldfirst) /\ l \in Nat
        /\ Marked(h.lines, NewMarks) = r /\ Says(h.lines, NewMarks, new, newfirst) /\ r \in Nat
    BY <2>2 DEF TellsLines
  <2>5. oldfirst - 1 + l + 0 = LeftLines(edits, start) /\ newfirst - 1 + r + 0 = RightLines(edits, start)
    <3> DEFINE a == LeftLines(edits, start)
               b == RightLines(edits, start)
    <3>1. a \in Nat /\ b \in Nat
      BY <1>0, LinesGrow
    <3> HIDE DEF a, b
    <3>2. oldfirst - 1 + (a - (oldfirst - 1)) + 0 = a /\ newfirst - 1 + (b - (newfirst - 1)) + 0 = b
      BY <3>1
    <3> QED BY <3>2 DEF a, b
  <2> HIDE DEF h, l, r
  <2>6. HunkSays(W, h, old, new, edits, oldfirst, newfirst, start)
    BY <2>2, <2>3, <2>4, <2>5 DEF HunkSays
  <2>7. 0 \in 0 .. end - start /\ ~ (0 > 0)
    BY <1>0
  <2> QED BY <2>1, <2>6, <2>7 DEF h
<1>12. ASSUME NEW m \in 0 .. end - start - 1, m \in G PROVE m + 1 \in G
  <2> DEFINE k == start + m
             x == old[LeftLines(edits, k) + 1]
             y == new[RightLines(edits, k) + 1]
  <2>1. /\ k \in 1 .. Len(edits) /\ k + 1 \in D /\ k + 1 # start /\ (k + 1) - 1 = k /\ start + (m + 1) = k + 1
        /\ m + 1 \in 0 .. end - start
    BY <1>0
  <2>2. hunk[k + 1] = Pushed(hunk[k], edits[k], x, y)
    BY <1>10, <2>1 DEF HunkBefore
  <2>3. Says1(k) /\ (m = 0 \/ Edited(hunk[k]))
    BY <1>12
  <2>4. Edited(hunk[k]) \/ edits[k] # "kMatch"
    BY <1>0, <2>3
  <2> HIDE DEF k
  <2>5. Says1(k + 1)
    BY <2>1, <2>2, <2>3, PushedSays
  <2>6. Edited(hunk[k + 1])
    <3> DEFINE h == hunk[k]
    <3>1. k \in 1 .. Len(edits) /\ HunkSays(W, h, old, new, edits, oldfirst, newfirst, k) /\ (Edited(h) \/ edits[k] # "kMatch")
      BY <2>1, <2>3, <2>4
    <3> HIDE DEF x, y, h
    <3>2. Edited(Pushed(h, edits[k], x, y))
      BY <1>0, <3>1, PushedEdited
    <3> QED BY <2>2, <3>2 DEF h
  <2> QED BY <2>1, <2>5, <2>6
<1>13. end - start \in G
  <2>1. \A m \in 0 .. end - start - 1 : m \in G => m + 1 \in G
    BY <1>12
  <2>2. end - start \in Nat
    BY <1>0
  <2> HIDE DEF G
  <2>3. 0 .. end - start \subseteq G
    BY <1>11, <2>1, <2>2, Climb
  <2> QED BY <2>2, <2>3
<1>14. Says1(end) /\ Edited(hunk[end]) /\ end \in Nat \ {0}
  <2>1. start + (end - start) = end /\ end - start > 0 /\ end \in Nat \ {0}
    BY <1>0
  <2> HIDE DEF Says1
  <2> QED BY <1>13, <2>1
<1> QED BY <1>9, <1>14, FlushedSays, FlushedEdited, SMTT(60)

(* A set of numbers that is not empty has its minimum, *)
LEMMA MinIs ==
  ASSUME NEW A, A \subseteq Nat, A # {}
  PROVE  Min(A) \in A /\ \A x \in A : Min(A) <= x
<1>1. \E x \in A : \A y \in A : x <= y
  BY LeastNumber
<1> QED BY <1>1 DEF Min

(* and the next edit comes after matches only. *)
LEMMA NextIs ==
  ASSUME NEW edits, Len(edits) \in Nat, NEW k \in 1 .. Len(edits) + 1
  PROVE  /\ NextEdit(edits, k) \in k .. Len(edits) + 1
         /\ \A i \in k .. NextEdit(edits, k) - 1 : edits[i] = "kMatch"
         /\ NextEdit(edits, k) <= Len(edits) => edits[NextEdit(edits, k)] # "kMatch"
<1> DEFINE A == {i \in k .. Len(edits) : edits[i] # "kMatch"} \union {Len(edits) + 1}
<1>1. A \subseteq Nat /\ A # {} /\ A \subseteq k .. Len(edits) + 1
  OBVIOUS
<1>2. \A i \in k .. Len(edits) : edits[i] # "kMatch" => i \in A
  OBVIOUS
<1>3. \A i \in A : i <= Len(edits) => edits[i] # "kMatch"
  OBVIOUS
<1>4. NextEdit(edits, k) = Min(A)
  BY DEF NextEdit
<1> HIDE DEF A
<1>5. Min(A) \in A /\ \A x \in A : Min(A) <= x
  BY <1>1, MinIs
<1>6. Min(A) \in k .. Len(edits) + 1
  BY <1>1, <1>5
<1>7. ASSUME NEW i \in k .. Min(A) - 1, edits[i] # "kMatch" PROVE FALSE
  BY <1>2, <1>5, <1>6, <1>7
<1> QED BY <1>3, <1>4, <1>5, <1>6, <1>7

(* What comes next is no edit, or far enough for a hunk of its own *)
Ready(edits, k, context) ==
  k = 1 \/ NextEdit(edits, k) > Len(edits) \/ NextEdit(edits, k) - k >= context

(* A hunk takes its first edit, and ends where the next can begin. *)
LEMMA EndIs ==
  ASSUME NEW edits, Len(edits) \in Nat, NEW start \in 1 .. Len(edits), NEW context \in Nat \ {0}
  PROVE  /\ HunkEnd(edits, start, context) \in start + 1 .. Len(edits) + 1
         /\ Ready(edits, HunkEnd(edits, start, context), context)
<1> DEFINE A == {i \in start .. Len(edits) : Stops(edits, start, i, context)} \union {Len(edits) + 1}
           end == HunkEnd(edits, start, context)
<1>1. A \subseteq Nat /\ A # {} /\ A \subseteq start .. Len(edits) + 1
  OBVIOUS
<1>2. \A i \in A : i = Len(edits) + 1 \/ Stops(edits, start, i, context)
  OBVIOUS
<1>3. ~ Stops(edits, start, start, context)
  <2> DEFINE B == {i \in start .. start - 1 : edits[i] # "kMatch"} \union {start - 1}
  <2>1. B = {start - 1}
    OBVIOUS
  <2>2. Max({start - 1}) = start - 1
    BY DEF Max
  <2>a. Suffix(edits, start, start) = start - 1 - Max(B)
    BY DEF Suffix
  <2> HIDE DEF B
  <2>3. Suffix(edits, start, start) = 0
    BY <2>1, <2>2, <2>a
  <2> QED BY <2>3 DEF Stops
<1>4. end = Min(A)
  BY DEF HunkEnd
<1> HIDE DEF A, end
<1>5. end \in A
  BY <1>1, <1>4, MinIs
<1>6. end \in start .. Len(edits) + 1 /\ (end = Len(edits) + 1 \/ Stops(edits, start, end, context))
  BY <1>1, <1>2, <1>5
<1>7. end # start
  BY <1>3, <1>6
<1>8. Ready(edits, end, context)
  <2>1. CASE end = Len(edits) + 1
    <3>1. NextEdit(edits, end) \in end .. Len(edits) + 1
      BY <1>6, NextIs
    <3> QED BY <2>1, <3>1 DEF Ready
  <2>2. CASE Stops(edits, start, end, context)
    BY <2>2 DEF Stops, Ready
  <2> QED BY <1>6, <2>1, <2>2
<1>9. end \in start + 1 .. Len(edits) + 1
  BY <1>6, <1>7
<1> QED BY <1>8, <1>9 DEF end

(* Where edits match, so do the lines, *)
Agree(old, new, a, b, d) == \A m \in 1 .. d : old[a + m] = new[b + m]
AllMatch(edits, k, j) == \A i \in k .. j - 1 : edits[i] = "kMatch"
LEMMA MatchedLines ==
  ASSUME NEW old, NEW new, NEW edits, NEW p, TurnsInto(edits, old, new, p),
         NEW k \in 1 .. Len(edits) + 1, NEW j \in k .. Len(edits) + 1, AllMatch(edits, k, j)
  PROVE  /\ LeftLines(edits, j) = LeftLines(edits, k) + (j - k) /\ RightLines(edits, j) = RightLines(edits, k) + (j - k)
         /\ Agree(old, new, LeftLines(edits, k), RightLines(edits, k), j - k)
<1> USE DEF AllMatch
<1>0. Len(edits) \in Nat /\ k \in Nat \ {0} /\ j \in Nat \ {0} /\ k <= j
  BY DEF TurnsInto
<1>1. LeftLines(edits, j) = LeftLines(edits, k) + (j - k) /\ RightLines(edits, j) = RightLines(edits, k) + (j - k)
  BY <1>0, LinesBetween
<1>2. ASSUME NEW m \in 1 .. j - k PROVE old[LeftLines(edits, k) + m] = new[RightLines(edits, k) + m]
  <2> DEFINE q == k + (m - 1)
             a == LeftLines(edits, k)
             b == RightLines(edits, k)
  <2>1. q \in Nat \ {0} /\ q \in 1 .. Len(edits) /\ k <= q /\ q \in k .. j - 1 /\ q - k = m - 1 /\ \A i \in k .. q - 1 : i \in k .. j - 1
    BY <1>0
  <2> HIDE DEF q
  <2>2. \A i \in k .. q - 1 : edits[i] = "kMatch"
    BY <2>1
  <2>3. LeftLines(edits, q) = a + (m - 1) /\ RightLines(edits, q) = b + (m - 1) /\ a \in Nat /\ b \in Nat
    <3>1. LeftLines(edits, q) = LeftLines(edits, k) + (q - k) /\ RightLines(edits, q) = RightLines(edits, k) + (q - k)
      BY <1>0, <2>1, <2>2, LinesBetween
    <3>2. LeftLines(edits, k) \in Nat /\ RightLines(edits, k) \in Nat
      BY <1>0, LinesGrow
    <3> QED BY <2>1, <3>1, <3>2
  <2>4. old[LeftLines(edits, q) + 1] = new[RightLines(edits, q) + 1]
    BY <2>1 DEF TurnsInto
  <2> HIDE DEF a, b
  <2>5. (a + (m - 1)) + 1 = a + m /\ (b + (m - 1)) + 1 = b + m
    BY <2>3
  <2>6. old[a + m] = new[b + m]
    BY <2>3, <2>4, <2>5
  <2> QED BY <2>6 DEF a, b
<1> QED BY <1>1, <1>2 DEF Agree

(* and the texts in between. *)
Alike(old, new, a, b, d) == SubSeq(old, a + 1, a + d) = SubSeq(new, b + 1, b + d)
LEMMA GapAgrees ==
  ASSUME NEW W, NEW old \in Seq(W), NEW new \in Seq(W), NEW a \in Nat, NEW b \in Nat, NEW d \in Nat,
         a + d <= Len(old), b + d <= Len(new), Agree(old, new, a, b, d)
  PROVE  Alike(old, new, a, b, d)
<1> USE DEF Agree
<1> DEFINE s == SubSeq(old, a + 1, a + d)
           t == SubSeq(new, b + 1, b + d)
<1>1. Len(old) \in Nat /\ Len(new) \in Nat /\ (\A i \in a + 1 .. a + d : old[i] \in W) /\ (\A i \in b + 1 .. b + d : new[i] \in W)
  OBVIOUS
<1>2. s \in Seq(W) /\ Len(s) = d /\ \A i \in 1 .. d : s[i] = old[a + i]
  <2>1. /\ s \in Seq(W) /\ Len(s) = IF a + 1 <= a + d THEN a + d - (a + 1) + 1 ELSE 0
        /\ \A i \in 1 .. a + d - (a + 1) + 1 : s[i] = old[a + 1 + i - 1]
    BY <1>1, SubSeqProperties
  <2>2. a + d - (a + 1) + 1 = d /\ (a + 1 <= a + d <=> d > 0) /\ \A i \in 1 .. d : a + 1 + i - 1 = a + i
    OBVIOUS
  <2> HIDE DEF s
  <2> QED BY <2>1, <2>2
<1>3. t \in Seq(W) /\ Len(t) = d /\ \A i \in 1 .. d : t[i] = new[b + i]
  <2>1. /\ t \in Seq(W) /\ Len(t) = IF b + 1 <= b + d THEN b + d - (b + 1) + 1 ELSE 0
        /\ \A i \in 1 .. b + d - (b + 1) + 1 : t[i] = new[b + 1 + i - 1]
    BY <1>1, SubSeqProperties, SMTT(60)
  <2>2. b + d - (b + 1) + 1 = d /\ (b + 1 <= b + d <=> d > 0) /\ \A i \in 1 .. d : b + 1 + i - 1 = b + i
    OBVIOUS
  <2> HIDE DEF t
  <2> QED BY <2>1, <2>2, SMTT(60)
<1> HIDE DEF s, t
<1>4. s = t
  BY <1>2, <1>3, SeqEqual
<1> QED BY <1>4 DEF s, t, Alike

(* A hunk patches the texts from some lines up to others: it says what they   *)
(* say, with an edit, and before it they agree.                              *)
SaysBoth(hunk, old, new) ==
  /\ hunk.left_length = Marked(hunk.lines, OldMarks) /\ Says(hunk.lines, OldMarks, old, hunk.left_start)
  /\ hunk.right_length = Marked(hunk.lines, NewMarks) /\ Says(hunk.lines, NewMarks, new, hunk.right_start)
  /\ \E i \in DOMAIN hunk.lines : hunk.lines[i][1] # Common
AgreeBefore(old, new, a, b, oldstart, newstart) ==
  /\ a < oldstart /\ b < newstart
  /\ SubSeq(old, a + 1, oldstart - 1) = SubSeq(new, b + 1, newstart - 1)
OldEnds(hunk) == hunk.left_start + hunk.left_length - 1
NewEnds(hunk) == hunk.right_start + hunk.right_length - 1
HunkPatches(hunk, old, new, a, b, c, d) ==
  /\ SaysBoth(hunk, old, new) /\ AgreeBefore(old, new, a, b, hunk.left_start, hunk.right_start)
  /\ OldEnds(hunk) = c /\ NewEnds(hunk) = d

(* Functions on the first numbers are sequences. *)
LEMMA IsSequence ==
  ASSUME NEW L, NEW n \in Nat, NEW f \in [1 .. n -> L]
  PROVE  f \in Seq(L) /\ Len(f) = n
OBVIOUS

(* Lines that all say what a text says do so together. *)
LEMMA AllTell ==
  ASSUME NEW L, NEW lines \in Seq(L), NEW marks, NEW text, NEW first \in Int,
         \A i \in 1 .. Len(lines) : lines[i][1] \in marks /\ lines[i][2] = text[first - 1 + i]
  PROVE  TellsLines(lines, marks, text, first, Len(lines))
<1> DEFINE e == <<>>
           n == Len(lines)
<1>1. e \in Seq(L) /\ DOMAIN e = {} /\ e \o lines = lines /\ n \in Nat
  BY EmptySeq, ConcatEmptySeq
<1>2. TellsLines(e, marks, text, first, 0)
  <2> HIDE DEF e
  <2>1. {i \in DOMAIN e : e[i][1] \in marks} = {}
    BY <1>1
  <2>2. Marked(e, marks) = 0
    BY <2>1, FS_EmptySet DEF Marked
  <2> QED BY <1>1, <2>2 DEF TellsLines, Says
<1>3. \A i \in 1 .. n : lines[i][2] = text[first - 1 + 0 + i]
  <2>1. \A i \in 1 .. n : first - 1 + 0 + i = first - 1 + i
    BY <1>1
  <2> QED BY <2>1
<1> HIDE DEF e
<1>4. TellsLines(e \o lines, marks, text, first, 0 + (IF 1 = 1 THEN Len(lines) ELSE 0))
  BY <1>1, <1>2, <1>3, TellsOn
<1>5. 0 + (IF 1 = 1 THEN Len(lines) ELSE 0) = Len(lines)
  BY <1>1
<1> QED BY <1>1, <1>4, <1>5

(* The hunks are such: each begins where the one before has ended, or later. *)
LEMMA HunkFound ==
  ASSUME NEW W, NEW old \in Seq(W), NEW new \in Seq(W), NEW edits, TurnsInto(edits, old, new, <<Len(old), Len(new)>>),
         NEW context \in Nat \ {0}, NEW k \in 1 .. Len(edits), Ready(edits, k, context),
         NEW start, start = NextEdit(edits, k), start <= Len(edits), NEW end \in start + 1 .. Len(edits) + 1
  PROVE  HunkPatches(HunkAt(edits, old, new, start, end, context), old, new, LeftLines(edits, k), RightLines(edits, k),
                     LeftLines(edits, end), RightLines(edits, end))
<1> DEFINE n == Len(edits)
           l == LeftLines(edits, start)
           r == RightLines(edits, start)
           a == LeftLines(edits, k)
           b == RightLines(edits, k)
           prefix == IF l < context THEN l ELSE context
           before == [i \in 1 .. prefix |-> <<Common, old[l - prefix + i]>>]
           shown == Shown(before, edits, old, new, start, end)
           H == HunkAt(edits, old, new, start, end, context)
<1>0. n \in Nat /\ k \in Nat \ {0}
  BY DEF TurnsInto
<1>1. start \in k .. n /\ edits[start] # "kMatch" /\ \A i \in k .. start - 1 : edits[i] = "kMatch"
  BY <1>0, NextIs, SMTT(60)
<1>a. start \in Nat \ {0} /\ k <= start /\ start \in 1 .. n /\ k \in 1 .. n + 1 /\ start \in k .. n + 1 /\ end \in Nat \ {0} /\ start <= n + 1
  BY <1>0, <1>1
<1>2. /\ l = a + (start - k) /\ r = b + (start - k)
      /\ \A m \in 1 .. start - k : old[a + m] = new[b + m]
  <2>1. AllMatch(edits, k, start)
    BY <1>1 DEF AllMatch
  <2>2. TurnsInto(edits, old, new, <<Len(old), Len(new)>>) /\ k \in 1 .. Len(edits) + 1 /\ start \in k .. Len(edits) + 1
    BY <1>a
  <2> HIDE DEF l, r, a, b, n
  <2>3. /\ LeftLines(edits, start) = LeftLines(edits, k) + (start - k) /\ RightLines(edits, start) = RightLines(edits, k) + (start - k)
        /\ Agree(old, new, LeftLines(edits, k), RightLines(edits, k), start - k)
    BY <2>1, <2>2, MatchedLines
  <2> QED BY <2>3 DEF Agree, l, r, a, b
<1>3. a \in Nat /\ b \in Nat /\ l \in Nat /\ r \in Nat /\ (k = 1 => a = 0 /\ b = 0)
  BY <1>0, <1>a, LinesGrow
<1>4. l <= Len(old) /\ r <= Len(new)
  <2>1. l <= LeftLines(edits, n + 1) /\ r <= RightLines(edits, n + 1)
    BY <1>0, <1>a, LinesBetween
  <2> QED BY <2>1 DEF TurnsInto
<1>5. prefix \in Nat /\ prefix <= start - k
  <2>1. k = 1 \/ start - k >= context
    BY <1>0, <1>1 DEF Ready
  <2> DEFINE j == start - k
  <2>2. j \in Nat /\ l = a + j /\ l \in Nat /\ a \in Nat /\ (k = 1 => a = 0) /\ (k = 1 \/ j >= context)
    <3>1. j \in Nat /\ (k = 1 \/ j >= context)
      <4> HIDE DEF l, r, a, b, n, prefix
      <4> QED BY <1>0, <1>a, <2>1
    <3>2. l = a + j /\ l \in Nat /\ a \in Nat /\ (k = 1 => a = 0)
      BY <1>2, <1>3
    <3> QED BY <3>1, <3>2
  <2> HIDE DEF l, r, a, b, j
  <2>3. prefix \in Nat /\ prefix <= j
    BY <2>2
  <2> QED BY <2>3 DEF j
<1> DEFINE d == start - k - prefix
<1>6. d \in Nat /\ l - prefix = a + d /\ r - prefix = b + d
  <2> DEFINE j == start - k
  <2>1. j \in Nat /\ l = a + j /\ r = b + j /\ prefix <= j
    BY <1>2, <1>5, <1>a
  <2> HIDE DEF l, r, a, b, prefix, j
  <2>2. j - prefix \in Nat /\ l - prefix = a + (j - prefix) /\ r - prefix = b + (j - prefix)
    BY <1>3, <1>5, <2>1
  <2> QED BY <2>2 DEF j
<1>7. /\ before \in Seq(HunkLine(W))
      /\ TellsLines(before, OldMarks, old, a + d + 1, prefix) /\ TellsLines(before, NewMarks, new, b + d + 1, prefix)
  <2>1. before = [i \in 1 .. prefix |-> <<Common, old[a + d + i]>>]
    BY <1>6
  <2>2. /\ a + d \in Nat /\ a + d + prefix <= Len(old) /\ a + d + 1 \in Int /\ b + d + 1 \in Int
        /\ \A i \in 1 .. prefix : (a + d + 1) - 1 + i = a + d + i /\ (b + d + 1) - 1 + i = b + d + i
    <3> HIDE DEF l, r, a, b, prefix, d
    <3> QED BY <1>3, <1>4, <1>5, <1>6
  <2>3. \A i \in 1 .. prefix : old[a + d + i] = new[b + d + i]
    <3> DEFINE j == start - k
    <3>1. j = d + prefix /\ \A m \in 1 .. j : old[a + m] = new[b + m]
      BY <1>0, <1>1, <1>2, <1>5, SMTT(60)
    <3> HIDE DEF a, b, d, prefix, j
    <3>2. ASSUME NEW i \in 1 .. prefix PROVE old[a + d + i] = new[b + d + i]
      <4>1. d + i \in 1 .. j /\ a + (d + i) = a + d + i /\ b + (d + i) = b + d + i
        <5>1. d \in Nat /\ a \in Nat /\ b \in Nat /\ prefix \in Nat /\ j = d + prefix
          BY <1>3, <1>5, <1>6, <3>1
        <5> QED BY <5>1
      <4> QED BY <3>1, <4>1
    <3> QED BY <3>2
  <2>4. Common \in OldMarks /\ Common \in NewMarks
    BY DEF OldMarks, NewMarks
  <2>5. before \in Seq(HunkLine(W)) /\ Len(before) = prefix /\ \A i \in 1 .. prefix : before[i] = <<Common, old[a + d + i]>>
    <3> DEFINE L == HunkLine(W)
    <3>1. \A i \in 1 .. prefix : before[i] = <<Common, old[a + d + i]>>
      BY <2>1
    <3>2. ASSUME NEW i \in 1 .. prefix PROVE before[i] \in L
      <4> HIDE DEF a, d, prefix, before
      <4>0. a + d \in Nat /\ a + d + prefix <= Len(old) /\ prefix \in Nat /\ Len(old) \in Nat /\ a \in Nat /\ d \in Nat
        BY <1>3, <1>5, <1>6, <2>2
      <4>1. a + d + i \in 1 .. Len(old)
        BY <4>0
      <4>2. old[a + d + i] \in W
        BY <4>1
      <4> QED BY <3>1, <4>2 DEF HunkLine
    <3>3. before \in [1 .. prefix -> L]
      <4>1. DOMAIN before = 1 .. prefix /\ before = [i \in 1 .. prefix |-> before[i]]
        OBVIOUS
      <4> HIDE DEF before, prefix, L
      <4> QED BY <3>2, <4>1
    <3> HIDE DEF before, prefix, L
    <3>4. before \in Seq(L) /\ Len(before) = prefix
      BY <1>5, <3>3, IsSequence
    <3> QED BY <3>1, <3>4 DEF L
  <2> DEFINE of == a + d + 1
             nf == b + d + 1
  <2>6. /\ of \in Int /\ nf \in Int
        /\ \A i \in 1 .. prefix : of - 1 + i = a + d + i /\ nf - 1 + i = b + d + i
    BY <2>2
  <2> HIDE DEF before, prefix, of, nf, a, b, d
  <2>7. /\ \A i \in 1 .. Len(before) : before[i][1] \in OldMarks /\ before[i][2] = old[of - 1 + i]
        /\ \A i \in 1 .. Len(before) : before[i][1] \in NewMarks /\ before[i][2] = new[nf - 1 + i]
    <3>1. ASSUME NEW i \in 1 .. prefix
          PROVE  /\ before[i][1] \in OldMarks /\ before[i][2] = old[of - 1 + i]
                 /\ before[i][1] \in NewMarks /\ before[i][2] = new[nf - 1 + i]
      <4>1. before[i] = <<Common, old[a + d + i]>> /\ old[a + d + i] = new[b + d + i]
        BY <2>3, <2>5
      <4>2. before[i][1] = Common /\ before[i][2] = old[a + d + i] /\ before[i][2] = new[b + d + i]
        BY <4>1
      <4>3. of - 1 + i = a + d + i /\ nf - 1 + i = b + d + i
        BY <2>6
      <4> QED BY <2>4, <4>2, <4>3
    <3>2. Len(before) = prefix
      BY <2>5
    <3> QED BY <3>1, <3>2
  <2>8. TellsLines(before, OldMarks, old, of, Len(before)) /\ TellsLines(before, NewMarks, new, nf, Len(before))
    BY <2>5, <2>6, <2>7, AllTell
  <2> QED BY <2>5, <2>8 DEF of, nf
<1>8. /\ H.left_start = a + d + 1 /\ H.right_start = b + d + 1 /\ H.lines = shown
      /\ H.left_length = Marked(shown, OldMarks) /\ H.right_length = Marked(shown, NewMarks)
  <2>1. /\ H.left_start = l - prefix + 1 /\ H.right_start = r - prefix + 1 /\ H.lines = shown
        /\ H.left_length = Marked(shown, OldMarks) /\ H.right_length = Marked(shown, NewMarks)
    BY DEF HunkAt, OldMarks, NewMarks
  <2> QED BY <1>6, <2>1
<1> DEFINE c == LeftLines(edits, end)
           e == RightLines(edits, end)
           f == a + d + 1
           g == b + d + 1
<1>9. TellsLines(shown, OldMarks, old, f, c - (f - 1)) /\ TellsLines(shown, NewMarks, new, g, e - (g - 1)) /\ \E i \in DOMAIN shown : shown[i][1] # Common
  <2>1. l - (f - 1) = prefix /\ r - (g - 1) = prefix /\ f \in Int /\ g \in Int
    <3> HIDE DEF l, r, a, b, prefix, d
    <3> QED BY <1>3, <1>5, <1>6
  <2>2. start \in 1 .. n
    BY <1>0, <1>1
  <2>3. shown = Shown(before, edits, old, new, start, end)
    OBVIOUS
  <2>4. TellsLines(before, OldMarks, old, f, l - (f - 1)) /\ TellsLines(before, NewMarks, new, g, r - (g - 1)) /\ l - (f - 1) \in Nat /\ r - (g - 1) \in Nat
    BY <1>5, <1>7, <2>1
  <2>5. before \in Seq(HunkLine(W)) /\ edits[start] # "kMatch" /\ start \in 1 .. Len(edits)
    BY <1>1, <1>7, <1>a
  <2>6. TurnsInto(edits, old, new, <<Len(old), Len(new)>>)
    OBVIOUS
  <2> HIDE DEF before, prefix, f, g
  <2> DEFINE s == Shown(before, edits, old, new, start, end)
  <2>7. /\ TellsLines(s, OldMarks, old, f, LeftLines(edits, end) - (f - 1))
        /\ TellsLines(s, NewMarks, new, g, RightLines(edits, end) - (g - 1))
        /\ \E i \in DOMAIN s : s[i][1] # Common
    <3>1. /\ TellsLines(before, OldMarks, old, f, LeftLines(edits, start) - (f - 1))
          /\ TellsLines(before, NewMarks, new, g, RightLines(edits, start) - (g - 1))
          /\ LeftLines(edits, start) - (f - 1) \in Nat /\ RightLines(edits, start) - (g - 1) \in Nat
      BY <2>4
    <3> QED BY <2>1, <2>5, <2>6, <3>1, ShownSays, SMTT(60)
  <2> QED BY <2>7
<1>10. c \in Nat /\ e \in Nat
  BY <1>a, LinesGrow
<1>11. SubSeq(old, a + 1, f - 1) = SubSeq(new, b + 1, g - 1)
  <2>1. f - 1 = a + d /\ g - 1 = b + d /\ a + d <= Len(old) /\ b + d <= Len(new)
    <3> HIDE DEF l, r, a, b, prefix, d
    <3> QED BY <1>3, <1>4, <1>5, <1>6
  <2>2. \A m \in 1 .. d : old[a + m] = new[b + m]
    <3>1. \A m \in 1 .. d : m \in 1 .. start - k
      <4> HIDE DEF prefix
      <4> QED BY <1>0, <1>1, <1>5
    <3> QED BY <1>2, <3>1
  <2> HIDE DEF a, b, d, f, g
  <2>3. SubSeq(old, a + 1, a + d) = SubSeq(new, b + 1, b + d)
    <3>1. a \in Nat /\ b \in Nat /\ d \in Nat /\ a + d <= Len(old) /\ b + d <= Len(new)
      BY <1>3, <1>6, <2>1
    <3>2. old \in Seq(W) /\ new \in Seq(W)
      OBVIOUS
    <3>3. Agree(old, new, a, b, d)
      BY <2>2 DEF Agree
    <3>4. Alike(old, new, a, b, d)
      BY <3>1, <3>2, <3>3, GapAgrees
    <3> QED BY <3>4 DEF Alike
  <2> QED BY <2>1, <2>3
<1>12. a < f /\ b < g /\ f + (c - (f - 1)) - 1 = c /\ g + (e - (g - 1)) - 1 = e
  <2>1. f \in Int /\ g \in Int /\ a < f /\ b < g
    <3> HIDE DEF a, b, d
    <3> QED BY <1>3, <1>6
  <2> HIDE DEF a, b, f, g, c, e
  <2> QED BY <1>10, <2>1
<1>13. Marked(shown, OldMarks) = c - (f - 1) /\ Marked(shown, NewMarks) = e - (g - 1)
       /\ Says(shown, OldMarks, old, f) /\ Says(shown, NewMarks, new, g)
  BY <1>9 DEF TellsLines
<1> HIDE DEF H, shown, a, b, f, g, c, e
<1>14. HunkPatches(H, old, new, a, b, c, e)
  BY <1>8, <1>9, <1>11, <1>12, <1>13 DEF HunkPatches, SaysBoth, AgreeBefore, OldEnds, NewEnds, f, g
<1> QED BY <1>14 DEF H, a, b, c, e

(* Hunks that make the new text of the old one from some lines of them on *)
OldEnd(hunks, a, k) == IF k = 0 THEN a ELSE OldEnds(hunks[k])
NewEnd(hunks, b, k) == IF k = 0 THEN b ELSE NewEnds(hunks[k])
OldStart(hunks, old, k) == IF k > Len(hunks) THEN Len(old) + 1 ELSE hunks[k].left_start
NewStart(hunks, new, k) == IF k > Len(hunks) THEN Len(new) + 1 ELSE hunks[k].right_start
PatchesFrom(hunks, old, new, a, b) ==
  /\ \A k \in 1 .. Len(hunks) : SaysBoth(hunks[k], old, new)
  /\ \A k \in 0 .. Len(hunks) :
       AgreeBefore(old, new, OldEnd(hunks, a, k), NewEnd(hunks, b, k), OldStart(hunks, old, k + 1), NewStart(hunks, new, k + 1))

(* Before such hunks another can be put. *)
LEMMA PatchesMore ==
  ASSUME NEW H, NEW hunk \in H, NEW rest \in Seq(H), NEW old, NEW new, NEW a, NEW b, NEW c, NEW d,
         HunkPatches(hunk, old, new, a, b, c, d), PatchesFrom(rest, old, new, c, d)
  PROVE  PatchesFrom(<<hunk>> \o rest, old, new, a, b)
<1> DEFINE all == <<hunk>> \o rest
           n == Len(rest)
<1>1. n \in Nat /\ Len(all) = n + 1 /\ all[1] = hunk /\ \A k \in 1 .. n : all[k + 1] = rest[k]
  <2> DEFINE one == <<hunk>>
  <2>1. one \in Seq(H) /\ Len(one) = 1 /\ one[1] = hunk /\ n \in Nat
    OBVIOUS
  <2> HIDE DEF one
  <2>2. Len(one \o rest) = Len(one) + Len(rest)
        /\ \A i \in 1 .. Len(one) + Len(rest) : (one \o rest)[i] = IF i <= Len(one) THEN one[i] ELSE rest[i - Len(one)]
    BY <2>1, ConcatProperties
  <2>3. all = one \o rest
    BY DEF one
  <2> HIDE DEF all
  <2>4. ASSUME NEW k \in 1 .. n PROVE all[k + 1] = rest[k]
    <3>1. k + 1 \in 1 .. Len(one) + Len(rest) /\ ~ (k + 1 <= Len(one)) /\ k + 1 - Len(one) = k
      BY <2>1
    <3> QED BY <2>2, <2>3, <3>1
  <2>5. all[1] = hunk
    <3>1. 1 \in 1 .. Len(one) + Len(rest) /\ 1 <= Len(one)
      BY <2>1
    <3> QED BY <2>1, <2>2, <2>3, <3>1
  <2>6. Len(all) = n + 1
    BY <2>1, <2>2, <2>3
  <2> QED BY <2>1, <2>4, <2>5, <2>6
<1> HIDE DEF all
<1>2. ASSUME NEW k \in 1 .. n + 1 PROVE SaysBoth(all[k], old, new)
  <2>1. CASE k = 1
    BY <1>1, <2>1 DEF HunkPatches
  <2>2. CASE k # 1
    <3>1. k - 1 \in 1 .. n /\ (k - 1) + 1 = k
      BY <1>1, <2>2
    <3>2. all[k] = rest[k - 1] /\ SaysBoth(rest[k - 1], old, new)
      BY <1>1, <3>1 DEF PatchesFrom
    <3> QED BY <3>2
  <2> QED BY <2>1, <2>2
<1>3. ASSUME NEW k \in 0 .. n + 1
      PROVE  AgreeBefore(old, new, OldEnd(all, a, k), NewEnd(all, b, k), OldStart(all, old, k + 1), NewStart(all, new, k + 1))
  <2>1. CASE k = 0
    <3>1. OldEnd(all, a, k) = a /\ NewEnd(all, b, k) = b
      BY <2>1 DEF OldEnd, NewEnd
    <3>2. k + 1 = 1 /\ ~ (1 > Len(all))
      BY <1>1, <2>1
    <3>3. OldStart(all, old, k + 1) = hunk.left_start /\ NewStart(all, new, k + 1) = hunk.right_start
      BY <1>1, <3>2 DEF OldStart, NewStart
    <3> QED BY <3>1, <3>3 DEF HunkPatches
  <2>2. CASE k # 0
    <3> DEFINE j == k - 1
    <3>1. j \in 0 .. n /\ j + 1 = k /\ (j # 0 => j \in 1 .. n) /\ (k + 1 > n + 1 <=> k > n) /\ (~ (k > n) => k \in 1 .. n)
      BY <1>1, <2>2
    <3> HIDE DEF j
    <3>2. OldEnd(all, a, k) = OldEnd(rest, c, j) /\ NewEnd(all, b, k) = NewEnd(rest, d, j)
      <4>1. CASE j = 0
        <5>1. all[k] = hunk
          BY <1>1, <3>1, <4>1
        <5> QED BY <2>2, <4>1, <5>1 DEF HunkPatches, OldEnd, NewEnd
      <4>2. CASE j # 0
        <5>1. all[k] = rest[j]
          BY <1>1, <3>1, <4>2
        <5> QED BY <2>2, <4>2, <5>1 DEF OldEnd, NewEnd
      <4> QED BY <4>1, <4>2
    <3>3. OldStart(all, old, k + 1) = OldStart(rest, old, j + 1) /\ NewStart(all, new, k + 1) = NewStart(rest, new, j + 1)
      <4>1. ~ (k > n) => all[k + 1] = rest[k]
        BY <1>1, <3>1
      <4>2. (k + 1 > Len(all) <=> k > Len(rest))
        BY <1>1, <3>1
      <4> QED BY <3>1, <4>1, <4>2 DEF OldStart, NewStart
    <3>4. AgreeBefore(old, new, OldEnd(rest, c, j), NewEnd(rest, d, j), OldStart(rest, old, j + 1), NewStart(rest, new, j + 1))
      BY <3>1 DEF PatchesFrom
    <3> QED BY <3>2, <3>3, <3>4
  <2> QED BY <2>1, <2>2
<1>4. PatchesFrom(all, old, new, a, b)
  BY <1>1, <1>2, <1>3 DEF PatchesFrom
<1> QED BY <1>4 DEF all

(* Where no edit is left, no hunk is needed. *)
LEMMA NoneLeft ==
  ASSUME NEW W, NEW old \in Seq(W), NEW new \in Seq(W), NEW edits, TurnsInto(edits, old, new, <<Len(old), Len(new)>>),
         NEW k \in 1 .. Len(edits) + 1, NextEdit(edits, k) > Len(edits)
  PROVE  PatchesFrom(<<>>, old, new, LeftLines(edits, k), RightLines(edits, k))
<1> DEFINE n == Len(edits)
           a == LeftLines(edits, k)
           b == RightLines(edits, k)
           d == n + 1 - k
<1>0. n \in Nat /\ k \in Nat \ {0} /\ d \in Nat /\ n + 1 \in k .. n + 1 /\ Len(old) \in Nat /\ Len(new) \in Nat
  BY DEF TurnsInto
<1>1. \A i \in k .. (n + 1) - 1 : edits[i] = "kMatch"
  <2>1. NextEdit(edits, k) = n + 1 /\ \A i \in k .. NextEdit(edits, k) - 1 : edits[i] = "kMatch"
    BY <1>0, NextIs
  <2> QED BY <2>1
<1>2. /\ LeftLines(edits, n + 1) = a + d /\ RightLines(edits, n + 1) = b + d
      /\ Agree(old, new, a, b, d)
  <2> DEFINE j == n + 1
  <2>1. j \in k .. Len(edits) + 1 /\ d = j - k /\ AllMatch(edits, k, j)
    BY <1>0, <1>1 DEF AllMatch
  <2>2. TurnsInto(edits, old, new, <<Len(old), Len(new)>>) /\ k \in 1 .. Len(edits) + 1
    OBVIOUS
  <2> HIDE DEF j, d, n, a, b
  <2>3. /\ LeftLines(edits, j) = LeftLines(edits, k) + (j - k) /\ RightLines(edits, j) = RightLines(edits, k) + (j - k)
        /\ Agree(old, new, LeftLines(edits, k), RightLines(edits, k), j - k)
    BY <2>1, <2>2, MatchedLines
  <2> QED BY <2>1, <2>3 DEF j, a, b, n
<1>3. Len(old) = a + d /\ Len(new) = b + d
  BY <1>2 DEF TurnsInto
<1>4. a \in Nat /\ b \in Nat
  BY <1>0, LinesGrow
<1>5. Alike(old, new, a, b, d)
  <2>1. a + d <= Len(old) /\ b + d <= Len(new)
    BY <1>0, <1>3
  <2>2. Agree(old, new, a, b, d)
    BY <1>2
  <2> HIDE DEF a, b, d
  <2> QED BY <1>0, <1>4, <2>1, <2>2, GapAgrees
<1> DEFINE s == Len(old) + 1
           t == Len(new) + 1
<1>6. AgreeBefore(old, new, a, b, s, t)
  <2> HIDE DEF a, b, d, n
  <2>1. a < s /\ b < t /\ s - 1 = a + d /\ t - 1 = b + d
    BY <1>0, <1>3, <1>4
  <2> HIDE DEF s, t
  <2> QED BY <1>5, <2>1 DEF AgreeBefore, Alike
<1> DEFINE e == <<>>
<1>7. Len(e) = 0
  OBVIOUS
<1> HIDE DEF a, b, s, t, e
<1>8. OldEnd(e, a, 0) = a /\ NewEnd(e, b, 0) = b /\ OldStart(e, old, 0 + 1) = s /\ NewStart(e, new, 0 + 1) = t
  BY <1>7 DEF OldEnd, NewEnd, OldStart, NewStart, s, t
<1>9. PatchesFrom(e, old, new, a, b)
  <2>1. 1 .. Len(e) = {} /\ \A k_1 \in 0 .. Len(e) : k_1 = 0
    BY <1>7
  <2> QED BY <1>6, <1>8, <2>1 DEF PatchesFrom
<1> QED BY <1>9 DEF a, b, e

(* The hunks from some edit on *)
HunksAfter(edits, old, new, context, k, hunks) ==
  LET start == NextEdit(edits, k)
      end == HunkEnd(edits, start, context)
  IN  IF start > Len(edits) THEN <<>>
      ELSE <<HunkAt(edits, old, new, start, end, context)>> \o hunks[end]

(* Patches, in these terms *)
LEMMA PatchesMeans ==
  ASSUME NEW H, NEW hunks \in Seq(H), NEW old, NEW new, PatchesFrom(hunks, old, new, 0, 0)
  PROVE  Patches(hunks, old, new)
<1>1. \A k \in 1 .. Len(hunks) : SaysBoth(hunks[k], old, new) /\ ~ (k > Len(hunks))
  BY DEF PatchesFrom
<1>2. \A k \in 0 .. Len(hunks) :
        AgreeBefore(old, new, OldEnd(hunks, 0, k), NewEnd(hunks, 0, k), OldStart(hunks, old, k + 1), NewStart(hunks, new, k + 1))
  BY DEF PatchesFrom
<1> QED BY <1>1, <1>2, ZenonT(60) DEF Patches, SaysBoth, AgreeBefore, OldEnd, NewEnd, OldStart, NewStart, OldEnds, NewEnds

(* The hunks that the message of a failed EXPECT_EQ() shows make the new text *)
(* of the old one: they say what the texts say at the lines that they name,   *)
(* do not overlap, and leave out only lines that are the same.               *)
THEOREM DiffsPatch ==
  ASSUME NEW W, NEW old \in Seq(W), NEW new \in Seq(W), NEW context \in Nat \ {0}
  PROVE  Patches(CreateUnifiedDiff(old, new, context), old, new)
<1> DEFINE edits == CalculateOptimalEdits(old, new)
           n == Len(edits)
<1>0. TurnsInto(edits, old, new, <<Len(old), Len(new)>>) /\ n \in Nat
  <2>1. TurnsInto(edits, old, new, <<Len(old), Len(new)>>)
    BY EditsTurn
  <2> HIDE DEF edits
  <2> QED BY <2>1 DEF TurnsInto
<1> DEFINE D == 1 .. n + 1
           Opens(k) == NextEdit(edits, k)
           End(k) == HunkEnd(edits, NextEdit(edits, k), context)
           At(k) == HunkAt(edits, old, new, Opens(k), End(k), context)
           H == {At(k) : k \in 1 .. n}
           V == Seq(H)
           E(k, f) == HunksAfter(edits, old, new, context, k, f)
           F(f) == [k \in D |-> E(k, f)]
           T == [f \in [D -> V] |-> F(f)]
           rank == [k \in D |-> n + 1 - k]
           Found == CreateUnifiedDiff(old, new, context)
           hunks == CHOOSE f : f = F(f)
<1>a. Found = hunks[1]
  BY DEF CreateUnifiedDiff, HunksAfter
<1> HIDE DEF edits, Found
<1>1. ASSUME NEW k \in D, ~ (Opens(k) > n)
      PROVE  /\ k \in 1 .. n /\ Opens(k) \in k .. n /\ End(k) \in Opens(k) + 1 .. n + 1 /\ End(k) \in D
             /\ Ready(edits, End(k), context) /\ rank[End(k)] < rank[k] /\ At(k) \in H
  <2>1. Opens(k) \in k .. n /\ k \in 1 .. n /\ Opens(k) \in 1 .. n
    <3>1. Opens(k) \in k .. n + 1
      BY <1>0, NextIs
    <3> QED BY <1>0, <1>1, <3>1
  <2> DEFINE s == Opens(k)
             e == HunkEnd(edits, s, context)
  <2>2. s \in 1 .. Len(edits) /\ Len(edits) \in Nat
    BY <1>0, <2>1
  <2>a. e = End(k)
    OBVIOUS
  <2> HIDE DEF s
  <2>3. e \in s + 1 .. Len(edits) + 1 /\ Ready(edits, e, context)
    BY <2>2, EndIs
  <2> HIDE DEF e
  <2>4. e \in D /\ n + 1 - e < n + 1 - k
    BY <1>0, <2>1, <2>3 DEF s
  <2>5. rank[e] < rank[k]
    BY <1>1, <2>4
  <2>6. At(k) \in H
    BY <2>1
  <2> QED BY <2>1, <2>3, <2>4, <2>5, <2>6, <2>a DEF s
<1>2. ASSUME NEW k \in D, NEW f
      PROVE  /\ Opens(k) > n => E(k, f) = <<>>
             /\ ~ (Opens(k) > n) => E(k, f) = <<At(k)>> \o f[End(k)]
  BY DEF HunksAfter
<1> HIDE DEF Opens, End, At, E
<1>3. ASSUME NEW k \in D, NEW f, ~ (Opens(k) > n) => f[End(k)] \in V PROVE E(k, f) \in V
  <2>1. CASE Opens(k) > n
    BY <1>2, <2>1, EmptySeq
  <2>2. CASE ~ (Opens(k) > n)
    <3>1. At(k) \in H /\ f[End(k)] \in V
      <4> HIDE DEF D, V, H
      <4> QED BY <1>1, <1>3, <2>2
    <3>2. <<At(k)>> \o f[End(k)] \in V
      <4> DEFINE x == At(k)
                 y == f[End(k)]
      <4>1. x \in H /\ y \in Seq(H)
        BY <3>1
      <4> HIDE DEF H, x, y
      <4>2. <<x>> \in Seq(H)
        BY <4>1
      <4>3. <<x>> \o y \in Seq(H)
        BY <4>1, <4>2, ConcatProperties
      <4> QED BY <4>3 DEF x, y
    <3> QED BY <1>2, <2>2, <3>2
  <2> QED BY <2>1, <2>2
<1>4. T \in [[D -> V] -> [D -> V]]
  <2> HIDE DEF D, V, rank, H
  <2>1. \A f \in [D -> V], k \in D : E(k, f) \in V
    BY <1>1, <1>3
  <2> QED BY <2>1
<1>5. ASSUME NEW f \in [D -> V], NEW g \in [D -> V], NEW k \in D, \A q \in D : rank[q] < rank[k] => f[q] = g[q]
      PROVE  T[f][k] = T[g][k]
  <2>1. E(k, f) = E(k, g)
    <3>1. CASE Opens(k) > n
      BY <1>2, <3>1
    <3>2. CASE ~ (Opens(k) > n)
      <4>1. f[End(k)] = g[End(k)]
        <5> HIDE DEF D, rank
        <5> QED BY <1>1, <1>5, <3>2
      <4>2. E(k, f) = <<At(k)>> \o f[End(k)] /\ E(k, g) = <<At(k)>> \o g[End(k)]
        BY <1>2, <3>2
      <4> QED BY <4>1, <4>2
    <3> QED BY <3>1, <3>2
  <2>2. T[f][k] = E(k, f) /\ T[g][k] = E(k, g)
    <3> HIDE DEF D, V
    <3> QED OBVIOUS
  <2> QED BY <2>1, <2>2
<1>6. rank \in [D -> Nat] /\ \A k \in D : rank[k] < n + 1
  BY <1>0
<1>7. \E f \in [D -> V] : T[f] = f
  <2>1. <<>> \in V /\ n + 1 \in Nat
    BY <1>0, EmptySeq
  <2> HIDE DEF D, V, T, rank
  <2>2. Recursion(D, V, rank, T)
    BY <1>4, <1>5, <1>6, <2>1 DEF Recursion
  <2> QED BY <2>2, Solved
<1>8. PICK f \in [D -> V] : f = F(f)
  <2> HIDE DEF D, V
  <2> QED BY <1>7
<1>9. hunks = F(hunks)
  BY <1>8, Zenon
<1> HIDE DEF hunks
<1> DEFINE Patched(k) == PatchesFrom(hunks[k], old, new, LeftLines(edits, k), RightLines(edits, k))
           G == {k \in D : hunks[k] \in V /\ (Ready(edits, k, context) => Patched(k))}
<1>10. ASSUME NEW k \in D, \A q \in D : rank[q] < rank[k] => q \in G PROVE k \in G
  <2>0. hunks[k] = E(k, hunks)
    <3> HIDE DEF D
    <3> QED BY <1>9
  <2>1. CASE Opens(k) > n
    <3>1. hunks[k] = <<>>
      BY <1>2, <2>0, <2>1
    <3>2. PatchesFrom(<<>>, old, new, LeftLines(edits, k), RightLines(edits, k))
      BY <1>0, <2>1, NoneLeft DEF Opens
    <3>3. hunks[k] \in V
      BY <3>1, EmptySeq
    <3> QED BY <3>1, <3>2, <3>3
  <2>2. CASE ~ (Opens(k) > n)
    <3> DEFINE s == Opens(k)
               e == End(k)
               h == At(k)
               rest == hunks[e]
    <3>1. /\ k \in 1 .. n /\ s \in k .. n /\ e \in s + 1 .. n + 1 /\ e \in D
          /\ Ready(edits, e, context) /\ h \in H /\ rank[e] < rank[k]
      BY <1>1, <2>2
    <3>a. hunks[k] \in V
      <4>1. hunks[e] \in V
        <5>1. e \in G
          <6> HIDE DEF D, rank, G, e
          <6> QED BY <1>10, <3>1
        <5> QED BY <5>1
      <4> HIDE DEF D, V
      <4> QED BY <1>3, <2>0, <4>1
    <3> SUFFICES ASSUME Ready(edits, k, context) PROVE Patched(k)
      BY <3>a
    <3>2. PatchesFrom(rest, old, new, LeftLines(edits, e), RightLines(edits, e)) /\ rest \in Seq(H)
      <4>1. e \in G
        <5> HIDE DEF D, rank, G, e
        <5> QED BY <1>10, <3>1
      <4>2. hunks[e] \in V
        BY <4>1
      <4> QED BY <3>1, <4>1, <4>2
    <3>3. HunkPatches(h, old, new, LeftLines(edits, k), RightLines(edits, k), LeftLines(edits, e), RightLines(edits, e))
      <4>1. h = HunkAt(edits, old, new, s, e, context) /\ s = NextEdit(edits, k) /\ s <= Len(edits) /\ k \in 1 .. Len(edits)
            /\ e \in s + 1 .. Len(edits) + 1
        BY <1>0, <2>2, <3>1 DEF At, Opens
      <4> HIDE DEF h, s, e
      <4>2. HunkPatches(HunkAt(edits, old, new, s, e, context), old, new, LeftLines(edits, k), RightLines(edits, k),
                        LeftLines(edits, e), RightLines(edits, e))
        BY <1>0, <4>1, HunkFound
      <4> QED BY <4>1, <4>2
    <3>4. hunks[k] = <<h>> \o rest
      BY <1>2, <2>0, <2>2
    <3> HIDE DEF h, e, rest, H
    <3>5. PatchesFrom(<<h>> \o rest, old, new, LeftLines(edits, k), RightLines(edits, k))
      BY <3>1, <3>2, <3>3, PatchesMore
    <3> QED BY <3>4, <3>5
  <2> QED BY <2>1, <2>2
<1>11. D \subseteq G
  <2> HIDE DEF D, rank, G
  <2> QED BY <1>6, <1>10, RankInduction
<1>12. PatchesFrom(Found, old, new, 0, 0) /\ Found \in V
  <2>1. 1 \in D /\ Ready(edits, 1, context)
    BY <1>0 DEF Ready
  <2>2. Patched(1) /\ hunks[1] \in V
    BY <1>11, <2>1
  <2>3. LeftLines(edits, 1) = 0 /\ RightLines(edits, 1) = 0
    BY LinesGrow, 1 \in Nat \ {0}
  <2> QED BY <1>a, <2>2, <2>3
<1>13. Patches(Found, old, new)
  <2> HIDE DEF H
  <2> QED BY <1>12, PatchesMeans
<1> QED BY <1>13 DEF Found
================================================================================
