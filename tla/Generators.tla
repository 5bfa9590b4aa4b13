------------------------------- MODULE Generators -------------------------------
(***************************************************************************)
(* The generators of the values of parameterised tests (gtest-param-util.h): *)
(* Range(), ValuesIn() and Values(), Combine() and ConvertGenerator(), each  *)
(* with its iterators.  An iterator of Range() has an index besides its      *)
(* value, one of Combine() is the sequence of the iterators it is made of.   *)
(***************************************************************************)
EXTENDS Integers, Sequences, SequencesExt

(* What begin + step is, in the type of the values: it wraps around *)
Stepped(g, value) == (value + g.step) % g.width

(* RangeGenerator::CalculateEndIndex *)
RECURSIVE CalculateEndIndex(_, _)
CalculateEndIndex(g, i) == IF i < g.end THEN 1 + CalculateEndIndex(g, Stepped(g, i)) ELSE 0

RECURSIVE Begin(_), End(_), Equals(_, _, _), Advance(_, _), Current(_, _)
Begin(g) ==
  CASE g.is = "Range"    -> [value |-> g.begin, index |-> 0]
    [] g.is = "ValuesIn" -> 1
    [] g.is = "Combine"  -> [k \in DOMAIN g.generators |-> Begin(g.generators[k])]
    [] g.is = "Convert"  -> Begin(g.generator)
End(g) ==
  CASE g.is = "Range"    -> [value |-> g.end, index |-> CalculateEndIndex(g, g.begin)]
    [] g.is = "ValuesIn" -> Len(g.container) + 1
    [] g.is = "Combine"  -> [k \in DOMAIN g.generators |-> End(g.generators[k])]
    [] g.is = "Convert"  -> End(g.generator)

(* CartesianProductGenerator::Iterator::AtEnd: one of its iterators is       *)
AtEnd(g, it) == \E k \in DOMAIN g.generators : Equals(g.generators[k], it[k], End(g.generators[k]))
EqualProducts(g, a, b) ==
  (AtEnd(g, a) /\ AtEnd(g, b)) \/ \A k \in DOMAIN g.generators : Equals(g.generators[k], a[k], b[k])
Equals(g, a, b) ==
  CASE g.is = "Range"    -> a.index = b.index
    [] g.is = "ValuesIn" -> a = b
    [] g.is = "Combine"  -> EqualProducts(g, a, b)
    [] g.is = "Convert"  -> Equals(g.generator, a, b)

(* AdvanceIfEnd: where the k-th iterator is at its end and is not the first,  *)
(* it starts again and the one before it goes on.                            *)
RECURSIVE AdvanceIfEnd(_, _, _)
AdvanceIfEnd(g, it, k) ==
  IF k = 1 \/ ~ Equals(g.generators[k], it[k], End(g.generators[k])) THEN it
  ELSE AdvanceIfEnd(g, [it EXCEPT ![k] = Begin(g.generators[k]), ![k - 1] = Advance(g.generators[k - 1], @)], k - 1)
Advance(g, it) ==
  CASE g.is = "Range"    -> [value |-> Stepped(g, it.value), index |-> it.index + 1]
    [] g.is = "ValuesIn" -> it + 1
    [] g.is = "Combine"  -> LET last == Len(g.generators) IN
                            AdvanceIfEnd(g, [it EXCEPT ![last] = Advance(g.generators[last], @)], last)
    [] g.is = "Convert"  -> Advance(g.generator, it)

Current(g, it) ==
  CASE g.is = "Range"    -> it.value
    [] g.is = "ValuesIn" -> g.container[it]
    [] g.is = "Combine"  -> [k \in DOMAIN g.generators |-> Current(g.generators[k], it[k])]
    [] g.is = "Convert"  -> g.func[Current(g.generator, it)]

(* for (const auto& param : generator) *)
RECURSIVE ValuesFrom(_, _)
ValuesFrom(g, it) ==
  IF Equals(g, it, End(g)) THEN <<>> ELSE <<Current(g, it)>> \o ValuesFrom(g, Advance(g, it))
Generated(g) == ValuesFrom(g, Begin(g))
================================================================================
