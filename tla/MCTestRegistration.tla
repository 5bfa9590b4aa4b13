---------------------------- MODULE MCTestRegistration ----------------------------
(* Programs of two units and a third that may be loaded by main().            *)
EXTENDS TestRegistration, Generators

Units == {"one", "two", "late"}
MCLate == {"late"}

(* What a generator stands for, to compare its iterators with *)
RECURSIVE MCMeant(_)
MCMeant(g) ==
  CASE g.is = "Range" ->
         SelectSeq([k \in 1 .. g.end |-> g.begin + (k - 1) * g.step], LAMBDA v : v < g.end)
    [] g.is = "ValuesIn" -> g.container
    [] g.is = "Combine" ->      \* in the order of the first, then of the second, ...
         LET Times(product, k) ==
               FlattenSeq([n \in DOMAIN product |->
                 LET values == MCMeant(g.generators[k])
                 IN  [j \in DOMAIN values |-> Append(product[n], values[j])]])
         IN  FoldLeft(Times, <<<<>>>>, [k \in DOMAIN g.generators |-> k])
    [] g.is = "Convert" -> LET values == MCMeant(g.generator) IN [n \in DOMAIN values |-> g.func[values[n]]]

P(suite, test) == [decl |-> "TEST_P", suite |-> suite, test |-> test, fixture |-> suite]
I(prefix, suite, generator, naming) ==
  [decl |-> "INSTANTIATE", suite |-> suite, prefix |-> prefix, generator |-> generator, naming |-> naming,
   fixture |-> suite]
T(suite, test) == [decl |-> "TEST", suite |-> suite, test |-> test]
TT(suite, test) == [decl |-> "TYPED_TEST", suite |-> suite, test |-> test, types |-> <<"int", "char">>]
TP(suite, test) == [decl |-> "TYPED_TEST_P", suite |-> suite, test |-> test]
R(suite, names) == [decl |-> "REGISTER_TYPED", suite |-> suite, names |-> names]
IT(prefix, suite, names) ==
  [decl |-> "INSTANTIATE_TYPED", suite |-> suite, prefix |-> prefix, names |-> names, types |-> <<"int", "char">>]
Allow(suite) == [decl |-> "ALLOW", suite |-> suite]

Values(vs) == [is |-> "ValuesIn", container |-> vs]
Odd == [is |-> "Range", begin |-> 1, end |-> 6, step |-> 2, width |-> 256]
Pairs(a, b) == [is |-> "Combine", generators |-> <<a, b>>]
Halves == [is |-> "Convert", generator |-> Odd, func |-> [v \in 0 .. 6 |-> v \div 2]]
Triples == [is |-> "Combine", generators |-> <<Values(<<0, 1>>), Odd, Values(<<2, 3>>)>>]

Named(f) == <<f>>
Generators1 ==
  {I("p", "S", g, <<>>) : g \in {Values(<<>>), Values(<<4, 4>>), Odd, Halves, Triples,
                                 Pairs(Values(<<>>), Odd), Pairs(Odd, Values(<<>>))}}
    \union {I("p", "S", Odd, Named([v \in 0 .. 6 |-> n])) : n \in {-1, 7}}
    \union {I("p", "S", Odd, Named([v \in 0 .. 6 |-> 10 - v]))}

One == {<<P("S", "a"), P("S", "b")>>, <<P("S", "a"), T("Z", "z"), P("U", "u")>>, <<Allow("S")>>,
        <<TP("Y", "m"), TP("Y", "n"), R("Y", <<"n", "m">>)>>,
        <<TP("Y", "m"), R("Y", <<"m">>), TP("Y", "n")>>,
        <<TP("Y", "m"), TP("Y", "n"), R("Y", <<"m">>)>>, <<TP("Y", "m"), R("Y", <<"m", "m">>)>>}
Two == {<<g>> : g \in Generators1} \union
       {<<g, I("q", "S", Values(<<5>>), <<>>)>> : g \in Generators1} \union
       {<<TP("Y", "m"), R("Y", <<"m">>), IT("r", "Y", <<"m">>), Allow("S")>>, <<TT("X", "x")>>,
        <<[P("S", "c") EXCEPT !.fixture = "other"]>>}
Three == {<<P("S", "late"), T("Z", "late")>>, <<I("s", "S", Values(<<6>>), <<>>)>>, <<I("p", "S", Odd, <<>>), Allow("U")>>}

MCPrograms ==
  {[u \in Units |-> CASE u = "one" -> a [] u = "two" -> b [] u = "late" -> c] :
     a \in One, b \in Two, c \in Three}

ASSUME GeneratorsRight
================================================================================
