---------------------------- MODULE CallCardinality ----------------------------
(***************************************************************************)
(* The cardinalities of googlemock: how many calls an EXPECT_CALL() allows. *)
(* Every cardinality of the library is a Between(min, max), built by        *)
(* BetweenCardinalityImpl in gmock-cardinalities.cc; AtLeast and AnyNumber  *)
(* write "no upper bound" as INT_MAX.                                       *)
(***************************************************************************)
EXTENDS Integers

CONSTANT IntMax      \* INT_MAX, the largest call count

ASSUME IntMaxAssumption == IntMax \in Nat \ {0}

CardinalityType == [min : 0 .. IntMax, max : 0 .. IntMax]

(***************************************************************************)
(* The constructor clamps a negative lower bound to 0 and an upper bound    *)
(* below the lower one to the lower one; it reports a failure in each case. *)
(***************************************************************************)
Between(lo, hi) ==
  LET min == IF lo >= 0 THEN lo ELSE 0
  IN  [min |-> min, max |-> IF hi >= min THEN hi ELSE min]

InvalidBounds(lo, hi) == lo < 0 \/ hi < 0 \/ lo > hi

Exactly(n) == Between(n, n)
AtLeast(n) == Between(n, IntMax)
AtMost(n)  == Between(0, n)
AnyNumber  == AtLeast(0)

IsSatisfiedByCallCount(c, n) == c.min <= n /\ n <= c.max

IsSaturatedByCallCount(c, n) == n >= c.max

IsOverSaturatedByCallCount(c, n) ==
  /\ IsSaturatedByCallCount(c, n)
  /\ ~ IsSatisfiedByCallCount(c, n)
================================================================================
