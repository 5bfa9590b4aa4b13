------------------------------ MODULE MCMatchers -------------------------------
(* Matchers for TLC: each is asked about every value of its kind.            *)
EXTENDS Matchers

VARIABLE input     \* what the state is about: a matcher and the kind of its values, or another

Ints == 0 .. 2
Is(op, v) == [is |-> "Comparison", op |-> op, rhs |-> v]
PairIs(op) == [is |-> "PairMatch", op |-> op]
Negated(m) == [is |-> "Not", inner |-> m]
Inner(name, m) == [is |-> name, inner |-> m]
Inners(name, ms) == [is |-> name, inners |-> ms]

Simple == {Is("==", 1), Is("<=", 1), Negated(Is("==", 1))}
Lists == {<<>>} \union {<<a>> : a \in Simple} \union Simple \X Simple
           \union Simple \X Simple \X Simple
Containers == UNION {[1 .. n -> Ints] : n \in 0 .. 3}
Unordered(ms) == {UnorderedElementsAreArray(ms), IsSupersetOf(ms), IsSubsetOf(ms)}
MCFold(c) == IF c = 2 THEN 1 ELSE c       \* the letters 1 and 2 differ in case
Counts == {Is(">=", 2), Is("<", 1)}
Objects == {<<>>} \union {<<a, b>> : a, b \in 0 .. 1}   \* null, or two members
Tagged == {<<t, v>> : t \in 1 .. 2, v \in Ints}      \* a type or address, a value

MatchersOf(kind) ==
  CASE kind = "int" ->
         {Is(op, v) : op \in DOMAIN OpNegated, v \in Ints}
           \union {Negated(m) : m \in Simple}
           \union {AllOfArray(ms) : ms \in Lists \ {<<>>}} \union {AnyOfArray(ms) : ms \in Lists \ {<<>>}}
           \union {Negated(Inners(n, ms)) : n \in {"AllOf", "AnyOf"}, ms \in Simple \X Simple}
           \union {[is |-> "Conditional", condition |-> c, yes |-> Is("<", 1), no |-> m]
                     : c \in BOOLEAN, m \in Simple}
           \union {[is |-> "Truly", predicate |-> {0, 2}], [is |-> "_"]}
           \union {[is |-> "ResultOf", callable |-> <<2, 0>> @@ (0 :> 1), inner |-> m] : m \in Simple}
           \union {BindSecond(PairIs(op), 1) : op \in {"<", "=="}}
    [] kind = "container" ->
         {ElementsAreArray(ms) : ms \in Lists}
           \union {Negated(ElementsAreArray(ms)) : ms \in Lists}
           \union UNION {Unordered(ms) : ms \in Lists}
           \union {Negated(m) : m \in UNION {Unordered(ms) : ms \in Simple \X Simple}}
           \union {PointwiseOf(PairIs(op), c) : op \in {"<=", "!="}, c \in Containers}
           \union {UnorderedPointwise(PairIs(op), c) : op \in {"<=", "=="}, c \in Containers}
           \union {Inner(n, m) : n \in {"Contains", "Each"}, m \in Simple}
           \union {Negated(Inner(n, m)) : n \in {"Contains", "Each"}, m \in Simple}
           \union {[is |-> "Times", inner |-> m, count |-> c] : m \in Simple, c \in Counts}
           \union {Inner(n, c) : n \in {"SizeIs", "Distance"}, c \in Counts}
           \union {[is |-> "WhenSortedBy", op |-> "<", inner |-> ElementsAreArray(ms)] :
                     ms \in Lists}
           \union {[is |-> "ContainerEq", expected |-> c] : c \in Containers}
    [] kind = "pair" ->
         {PairIs(op) : op \in DOMAIN OpNegated}
           \union {Inners(n, ms) : n \in {"Pair", "FieldsAre"}, ms \in Simple \X Simple}
           \union {Negated(Inners(n, ms)) : n \in {"Pair", "FieldsAre"}, ms \in Simple \X Simple}
           \union {Inner(n, m) : n \in {"Key", "Address"}, m \in Simple}
           \union {[is |-> "Args", k |-> k, inner |-> PairIs("<")] : k \in {<<1, 2>>, <<2, 1>>, <<1, 1>>}}
           \union {[is |-> n, type |-> 1, inner |-> m] :
                     n \in {"VariantWith", "AnyWith", "WhenDynamicCastTo&"}, m \in Simple}
           \union {[is |-> "WhenDynamicCastTo*", type |-> 1, inner |-> [is |-> n]] :
                     n \in {"IsNull", "NotNull"}}
           \union {[is |-> "Ref", object |-> 1]}
    [] kind = "pointer" ->
         {[is |-> n] : n \in {"IsNull", "NotNull"}}
           \union {Inner(n, m) : n \in {"Pointee", "Optional"}, m \in Simple}
           \union {Negated(Inner("Pointee", m)) : m \in Simple}
           \union {Inner("Pointer", [is |-> "NotNull"])}
    [] kind = "string" ->
         {[is |-> "HasSubstr", substring |-> s] : s \in Containers}
           \union {[is |-> "StartsWith", prefix |-> s] : s \in Containers}
           \union {[is |-> "EndsWith", suffix |-> s] : s \in Containers}
    [] kind = "char*" ->
         {[is |-> "StrEq", string |-> s, expect_eq |-> e, case_sensitive |-> c] :
             s \in Containers, e \in BOOLEAN, c \in BOOLEAN}
    [] kind = "object" ->
         {[is |-> "Field", field |-> 1, inner |-> m] : m \in Simple}
           \union {[is |-> "Property", property |-> 2, inner |-> m] : m \in Simple}
           \union {[is |-> "Throws", type |-> 1, inner |-> m] : m \in Simple}

Kinds == {"int", "container", "pair", "pointer", "string", "char*", "object"}
ValuesOf == [kind \in Kinds |->
  CASE kind = "int" -> Ints [] kind = "container" -> Containers
    [] kind = "pair" -> Tagged [] kind = "pointer" -> {<<>>} \union {<<v>> : v \in Ints}
    [] kind = "string" -> Containers [] kind = "char*" -> {<<>>} \union {<<c>> : c \in Containers}
    [] kind = "object" -> Objects]

MatcherInputs ==
  UNION {{[is |-> "matcher", kind |-> kind, m |-> m] : m \in MatchersOf(kind)} : kind \in Kinds}

About(P(_, _)) ==
  input.is = "matcher" => \A x \in ValuesOf[input.kind] : P(input.m, x)

(* With a listener or without, a matcher comes to the same verdict, its       *)
(* descriptions tell the truth about it, and the element the explanation      *)
(* names is the first that does not match (gmock-matchers.h, MatchAndExplain, *)
(* DescribeTo and DescribeNegationTo of each class).                          *)
VerdictsExplained ==
  /\ About(SameWhenExplained) /\ About(DescribedTruly) /\ About(NamesFirstMismatch)
  /\ About(StringsWhole)
================================================================================
