---------------------------- MODULE TestRegistration ----------------------------
(***************************************************************************)
(* How the tests of a program come to be registered.  TEST(), TEST_P(),      *)
(* INSTANTIATE_TEST_SUITE_P(), TYPED_TEST(), TYPED_TEST_P() and the like are *)
(* static objects: those of one translation unit are initialised in their    *)
(* order, those of several in any.  Parameterised tests become tests only    *)
(* when googletest is initialised, or its tests are run without that.        *)
(***************************************************************************)
EXTENDS Integers, SequencesExt, FiniteSets, TLC

CONSTANTS Programs,      \* [units -> the declarations of each, in order]
          Late,          \* the units that are loaded, if they are, by main()
          ValuesOf(_),   \* what the iterators of a generator go through
          Meant(_)       \* the values that a generator stands for

(* Declarations: [decl, suite, ...].  The compiler sees to it that a test is  *)
(* defined once, and that INSTANTIATE_TYPED_TEST_SUITE_P() comes after the   *)
(* list of REGISTER_TYPED_TEST_SUITE_P() that it names.                      *)
PlacesOf(p) == UNION {{u} \X (1 .. Len(p[u])) : u \in DOMAIN p}
Kinds == {"TEST", "TEST_P", "INSTANTIATE", "ALLOW", "TYPED_TEST", "TYPED_TEST_P", "REGISTER_TYPED", "INSTANTIATE_TYPED"}
DefinesTest(d) == d.decl \in {"TEST", "TEST_P", "TYPED_TEST"}
IsSeq(s) == s \in Seq(Range(s))
Compiles(p) ==
  /\ \A u \in DOMAIN p : IsSeq(p[u])
  /\ \A x, y \in PlacesOf(p) :
       LET d == p[x[1]][x[2]]  e == p[y[1]][y[2]] IN
       DefinesTest(d) /\ DefinesTest(e) /\ d.suite = e.suite /\ d.test = e.test => x = y
  /\ \A x \in PlacesOf(p) :
       LET d == p[x[1]][x[2]] IN
       /\ d.decl \in Kinds
       /\ d.decl = "INSTANTIATE" => IsSeq(Meant(d.generator))
       /\ d.decl = "TYPED_TEST" => IsSeq(d.types)
       /\ d.decl = "REGISTER_TYPED" => IsSeq(d.names)
       /\ d.decl = "INSTANTIATE_TYPED" =>
            /\ IsSeq(d.types)
            /\ \E y \in PlacesOf(p) :
                 LET e == p[y[1]][y[2]] IN
                 /\ y[1] = x[1] /\ y[2] < x[2]
                 /\ e.decl = "REGISTER_TYPED" /\ e.suite = d.suite /\ e.names = d.names
(* What Generators shows of the iterators *)
GeneratorsRight ==
  \A p \in Programs : \A x \in PlacesOf(p) :
    LET d == p[x[1]][x[2]] IN d.decl = "INSTANTIATE" => ValuesOf(d.generator) = Meant(d.generator)
ASSUME TestRegistrationAssumption == \A p \in Programs : Compiles(p)

VARIABLES program, done,      \* [units -> how many of its declarations are initialised]
          stage,              \* "static", "main", "run" or "died"
          tests, instantiations,   \* of ParameterizedTestSuiteInfo: [suite -> sequence of places]
          fixture,            \* [suite -> its fixture]: suite_name_to_info_index_ and the type id
          suite_infos,        \* test_suite_infos_: the suites in their order
          ignored,            \* ignored_parameterized_test_suites_
          typed_state,        \* [<<unit, suite>> -> the TypedTestSuitePState]
          typed_suites,       \* suites_ of the type-parameterised: [suite -> instantiated?]
          parameterized_tests_registered,
          registered,         \* the tests of the program: names, and the value or type
          in_time             \* history: the declarations before tests were registered

tables == <<tests, instantiations, fixture, suite_infos, ignored, typed_state, typed_suites>>
registration_vars ==
  <<program, done, stage, tables, parameterized_tests_registered, registered, in_time>>

Put(f, key, value) == [k \in DOMAIN f \union {key} |-> IF k = key THEN value ELSE f[k]]
Decl(x) == program[x[1]][x[2]]
SuiteNames == {Decl(x).suite : x \in PlacesOf(program)}

RegistrationInit ==
  /\ program \in Programs /\ done = [u \in DOMAIN program |-> 0] /\ stage = "static"
  /\ tests = [s \in SuiteNames |-> <<>>] /\ instantiations = [s \in SuiteNames |-> <<>>]
  /\ fixture = <<>> /\ suite_infos = <<>> /\ ignored = {}
  /\ typed_state = [key \in (DOMAIN program) \X SuiteNames |->
                      [registered |-> FALSE, registered_tests |-> {}]]
  /\ typed_suites = <<>>
  /\ parameterized_tests_registered = FALSE /\ registered = <<>> /\ in_time = {}

--------------------------------------------------------------------------------
(* What a declaration, at the place x, does when it is initialised *)
Register(some) == registered' = registered \o some
Test(suite, test, of) == [suite |-> suite, test |-> test, of |-> of]
Dies == stage' = "died" /\ UNCHANGED <<tables, registered>>

(* TEST(), and RegisterTest() *)
DeclareTest(d) == Register(<<Test(<<d.suite>>, <<d.test>>, "")>>) /\ UNCHANGED <<tables, stage>>

(* GetTestSuitePatternHolder: of one fixture only *)
OtherFixture(d) == d.suite \in DOMAIN fixture /\ fixture[d.suite] # d.fixture
Holder(d) ==
  IF d.suite \in DOMAIN fixture THEN UNCHANGED <<fixture, suite_infos>>
  ELSE fixture' = Put(fixture, d.suite, d.fixture) /\ suite_infos' = Append(suite_infos, d.suite)

(* TEST_P(): AddTestPattern, which keeps the place *)
DeclareTestP(x) ==
  IF OtherFixture(Decl(x)) THEN Dies
  ELSE /\ Holder(Decl(x)) /\ tests' = [tests EXCEPT ![Decl(x).suite] = Append(@, x)]
       /\ UNCHANGED <<stage, instantiations, ignored, typed_state, typed_suites, registered>>
(* INSTANTIATE_TEST_SUITE_P(): AddTestSuiteInstantiation *)
DeclareInstantiation(x) ==
  IF OtherFixture(Decl(x)) THEN Dies
  ELSE /\ Holder(Decl(x))
       /\ instantiations' = [instantiations EXCEPT ![Decl(x).suite] = Append(@, x)]
       /\ UNCHANGED <<stage, tests, ignored, typed_state, typed_suites, registered>>
(* GTEST_ALLOW_UNINSTANTIATED_PARAMETERIZED_TEST() *)
MarkAsIgnored(d) ==
  /\ ignored' = ignored \union {d.suite}
  /\ UNCHANGED <<stage, tests, instantiations, fixture, suite_infos, typed_state, typed_suites, registered>>

(* TypeParameterizedTest::Register: one test for each type *)
ForTypes(prefix, suite, test, types) ==
  [n \in DOMAIN types |-> Test(prefix \o <<suite, n - 1>>, <<test>>, types[n])]
DeclareTypedTest(d) ==
  Register(ForTypes(<<>>, d.suite, d.test, d.types)) /\ UNCHANGED <<tables, stage>>

(* TYPED_TEST_P(): AddTestName *)
AddTestName(u, d) ==
  LET key == <<u, d.suite>> IN
  IF typed_state[key].registered THEN Dies
  ELSE /\ typed_state' = [typed_state EXCEPT ![key].registered_tests = @ \union {d.test}]
       /\ UNCHANGED <<stage, tests, instantiations, fixture, suite_infos, ignored, typed_suites, registered>>

(* TypeParameterizedTestSuiteRegistry *)
RegisterTestSuite(suite) ==
  typed_suites' = IF suite \in DOMAIN typed_suites THEN typed_suites ELSE Put(typed_suites, suite, FALSE)
RegisterInstantiation(suite) ==
  typed_suites' = IF suite \in DOMAIN typed_suites THEN Put(typed_suites, suite, TRUE) ELSE typed_suites

(* REGISTER_TYPED_TEST_SUITE_P(): each test is listed, and once; a slip:      *)
(* whether all are there is not looked at.                                   *)
ListedAtLeast(s, names) == ToSet(names) \subseteq s.registered_tests
ListedRight(s, names) == ToSet(names) = s.registered_tests /\ IsInjective(names)
VerifyRegisteredTestNames(u, d) ==
  LET key == <<u, d.suite>> IN
  IF ~ ListedRight(typed_state[key], d.names) THEN Dies
  ELSE /\ typed_state' = [typed_state EXCEPT ![key].registered = TRUE]
       /\ RegisterTestSuite(d.suite)
       /\ UNCHANGED <<stage, tests, instantiations, fixture, suite_infos, ignored, registered>>

(* INSTANTIATE_TYPED_TEST_SUITE_P(): every listed test for every type        *)
InstantiateTyped(u, d) ==
  IF \E n \in DOMAIN d.names : d.names[n] \notin typed_state[<<u, d.suite>>].registered_tests THEN Dies
  ELSE /\ RegisterInstantiation(d.suite)
       /\ Register(FlattenSeq([n \in DOMAIN d.names |-> ForTypes(<<d.prefix>>, d.suite, d.names[n], d.types)]))
       /\ UNCHANGED <<stage, tests, instantiations, fixture, suite_infos, ignored, typed_state>>

DeclareTyped(u, d) ==
  \/ d.decl = "TYPED_TEST_P" /\ AddTestName(u, d)
  \/ d.decl = "REGISTER_TYPED" /\ VerifyRegisteredTestNames(u, d)
  \/ d.decl = "INSTANTIATE_TYPED" /\ InstantiateTyped(u, d)

Declare(u) ==
  /\ stage = (IF u \in Late THEN "main" ELSE "static") /\ done[u] < Len(program[u])
  /\ done' = [done EXCEPT ![u] = @ + 1]
  /\ in_time' = IF parameterized_tests_registered THEN in_time ELSE in_time \union {<<u, done[u] + 1>>}
  /\ LET x == <<u, done[u] + 1>>
         d == Decl(x)
     IN
     \/ d.decl = "TEST" /\ DeclareTest(d)
     \/ d.decl = "TEST_P" /\ DeclareTestP(x)
     \/ d.decl = "INSTANTIATE" /\ DeclareInstantiation(x)
     \/ d.decl = "ALLOW" /\ MarkAsIgnored(d)
     \/ d.decl = "TYPED_TEST" /\ DeclareTypedTest(d)
     \/ DeclareTyped(u, d)
  /\ UNCHANGED <<program, parameterized_tests_registered>>

--------------------------------------------------------------------------------
(* ParameterizedTestSuiteInfo::RegisterTests *)

(* The name of the n-th value: by the function given, else its index *)
ParamName(naming, value, n) == IF naming = <<>> THEN n - 1 ELSE naming[1][value]
InvalidName == -1        \* names are numbers here
FitNames(names) == InvalidName \notin Range(names) /\ IsInjective(names)

NamesOf(d) ==
  LET values == ValuesOf(d.generator)
  IN  [n \in DOMAIN values |-> ParamName(d.naming, values[n], n)]

Prefixed(prefix, suite) == IF prefix = "" THEN <<suite>> ELSE <<prefix, suite>>
Expand(test, d) ==
  LET values == ValuesOf(d.generator)
  IN  [n \in DOMAIN values |->
         Test(Prefixed(d.prefix, d.suite), <<test, ParamName(d.naming, values[n], n)>>, ToString(values[n]))]
ExpandTest(suite, test) ==
  FlattenSeq([k \in DOMAIN instantiations[suite] |-> Expand(test, Decl(instantiations[suite][k]))])
ExpandSuite(suite) ==
  FlattenSeq([k \in DOMAIN tests[suite] |-> ExpandTest(suite, Decl(tests[suite][k]).test)])

(* The name has the suite and what is missing, values or types *)
Synthetic(missing, suite) == Test(<<"GoogleTestVerification">>, <<"Uninstantiated", missing, suite>>, "")
(* InsertSyntheticTestCase, where nothing was generated; a slip: only where  *)
(* there is no instantiation.                                                *)
WithoutInstantiation(suite) == instantiations[suite] = <<>>
GeneratedNothing(suite) == ExpandSuite(suite) = <<>>
RegisterTests(suite) ==
  ExpandSuite(suite)
    \o IF GeneratedNothing(suite) /\ suite \notin ignored THEN <<Synthetic("values", suite)>> ELSE <<>>

(* TypeParameterizedTestSuiteRegistry::CheckForInstantiations *)
CheckForInstantiations ==
  LET missing == SetToSeq({s \in DOMAIN typed_suites : ~ typed_suites[s] /\ s \notin ignored})
  IN  [k \in DOMAIN missing |-> Synthetic("types", missing[k])]

BadNames ==
  \E suite \in DOMAIN fixture : tests[suite] # <<>> /\
    \E k \in DOMAIN instantiations[suite] : ~ FitNames(NamesOf(Decl(instantiations[suite][k])))

(* UnitTestImpl::RegisterParameterizedTests *)
NotYet == ~ parameterized_tests_registered
RegisterParameterizedTests(next) ==
  IF NotYet /\ BadNames THEN Dies /\ UNCHANGED parameterized_tests_registered
  ELSE /\ stage' = next /\ parameterized_tests_registered' = TRUE
       /\ IF NotYet
          THEN Register(FlattenSeq([k \in DOMAIN suite_infos |-> RegisterTests(suite_infos[k])])
                        \o CheckForInstantiations)
          ELSE UNCHANGED registered
       /\ UNCHANGED tables

StaticsDone == \A u \in (DOMAIN program) \ Late : done[u] = Len(program[u])
(* main() initialises googletest, or does not *)
InitGoogleTest ==
  /\ stage = "static" /\ StaticsDone
  /\ RegisterParameterizedTests("main")
  /\ UNCHANGED <<program, done, in_time>>
SkipInit ==
  /\ stage = "static" /\ StaticsDone /\ stage' = "main"
  /\ UNCHANGED <<program, done, in_time, tables, parameterized_tests_registered, registered>>
RunAllTests ==
  /\ stage = "main" /\ \A u \in DOMAIN program : done[u] \in {0, Len(program[u])}
  /\ RegisterParameterizedTests("run")
  /\ UNCHANGED <<program, done, in_time>>

RegistrationNext == (\E u \in DOMAIN program : Declare(u)) \/ InitGoogleTest \/ SkipInit \/ RunAllTests
RegistrationSpec == RegistrationInit /\ [][RegistrationNext]_registration_vars

--------------------------------------------------------------------------------
(* What the program says, without the order *)
Declared == UNION {{u} \X (1 .. done[u]) : u \in DOMAIN program}
Kind(kind, set) == {x \in set : Decl(x).decl = kind}
OfSuite(suite, set) == {x \in set : Decl(x).suite = suite}

(* The tests that a declaration stands for: one for each type, or value      *)
Patterns(suite) == {Decl(y).test : y \in OfSuite(suite, Kind("TEST_P", in_time))}
OneTest(d) == {Test(<<d.suite>>, <<d.test>>, "")}
TestForTypes(d) == {Test(<<d.suite, n - 1>>, <<d.test>>, d.types[n]) : n \in DOMAIN d.types}
TestsForTypes(d) ==
  {Test(<<d.prefix, d.suite, n - 1>>, <<name>>, d.types[n]) : n \in DOMAIN d.types, name \in ToSet(d.names)}
TestsForValues(d) ==
  LET values == Meant(d.generator)
  IN  {Test(Prefixed(d.prefix, d.suite), <<t, ParamName(d.naming, values[n], n)>>, ToString(values[n])) :
         t \in Patterns(d.suite), n \in DOMAIN values}
MeantBy(x) ==
  LET d == Decl(x) IN
  CASE d.decl = "TEST" -> OneTest(d)
    [] d.decl = "TYPED_TEST" -> TestForTypes(d)
    [] d.decl = "INSTANTIATE_TYPED" -> TestsForTypes(d)
    [] d.decl = "INSTANTIATE" -> IF x \in in_time THEN TestsForValues(d) ELSE {}
    [] d.decl \in {"TEST_P", "ALLOW", "TYPED_TEST_P", "REGISTER_TYPED"} -> {}

(* A suite of which nothing will run for want of values, or of types, and    *)
(* that nobody has said may be                                               *)
Allowed(suite) == OfSuite(suite, Kind("ALLOW", in_time)) # {}
WantsValues(suite) ==
  /\ OfSuite(suite, Kind("TEST_P", in_time) \union Kind("INSTANTIATE", in_time)) # {}
  /\ \A x \in OfSuite(suite, Kind("INSTANTIATE", in_time)) : MeantBy(x) = {}
WantsTypes(suite) ==
  /\ OfSuite(suite, Kind("REGISTER_TYPED", in_time)) # {}
  /\ OfSuite(suite, Kind("INSTANTIATE_TYPED", in_time)) = {}
Wanting(missing, suite) ==
  ~ Allowed(suite) /\ IF missing = "values" THEN WantsValues(suite) ELSE WantsTypes(suite)

(* All the reasons for a test, each with its test *)
Reasons ==
  (UNION {{<<"declared", x>>} \X MeantBy(x) : x \in Declared})
    \union {<<w, Synthetic(w[1], w[2])>> : w \in {p \in {"values", "types"} \X SuiteNames : Wanting(p[1], p[2])}}

(* The mistakes that a program can make *)
NamedBefore(x) ==
  {Decl(y).test : y \in {z \in OfSuite(Decl(x).suite, Kind("TYPED_TEST_P", Declared)) : z[1] = x[1] /\ z[2] < x[2]}}
TwoFixtures ==
  \E x, y \in Kind("TEST_P", Declared) \union Kind("INSTANTIATE", Declared) :
    Decl(x).suite = Decl(y).suite /\ Decl(x).fixture # Decl(y).fixture
MisListed(x) ==
  LET names == Decl(x).names IN
  (\E j, k \in DOMAIN names : j # k /\ names[j] = names[k]) \/ ToSet(names) # NamedBefore(x)
NamedAfterList ==
  \E x \in Kind("TYPED_TEST_P", Declared) : \E y \in OfSuite(Decl(x).suite, Kind("REGISTER_TYPED", Declared)) :
    y[1] = x[1] /\ y[2] < x[2]
GivenNames(x) ==
  LET values == Meant(Decl(x).generator) IN [n \in DOMAIN values |-> Decl(x).naming[1][values[n]]]
MisNamed(x) ==
  /\ OfSuite(Decl(x).suite, Kind("TEST_P", in_time)) # {} /\ Decl(x).naming # <<>>
  /\ InvalidName \in Range(GivenNames(x)) \/ ~ IsInjective(GivenNames(x))
Mistaken ==
  \/ TwoFixtures
  \/ \E x \in Kind("REGISTER_TYPED", Declared) : MisListed(x)
  \/ NamedAfterList
  \/ \E x \in Kind("INSTANTIATE", in_time) : MisNamed(x)

(* Whatever the order in which the units are initialised, and however often  *)
(* googletest is, the tests are those the program says, each as often as it  *)
(* has a reason: every TEST_P() of a suite with every value of each of its   *)
(* instantiations, every typed test with every type, and for a suite of      *)
(* which nothing would run a test that fails.  The exception are             *)
(* parameterised tests that are added after the initialisation, of which     *)
(* nothing is seen.  (gtest-param-util.h, RegisterTests; gtest.cc,           *)
(* InsertSyntheticTestCase.)                                                 *)
RegisteredExactly ==
  stage = "run" =>
    \A test \in Range(registered) \union {r[2] : r \in Reasons} :
      Cardinality({n \in DOMAIN registered : registered[n] = test}) =
        Cardinality({r \in Reasons : r[2] = test})

(* A program dies of a mistake in it, wherever its declarations stand, and of *)
(* nothing else: of two fixtures for one suite, of a typed suite that does   *)
(* not list its tests, of names for the values that are no names or the same *)
(* (gtest-typed-test.cc, VerifyRegisteredTestNames).                         *)
DiesOfMistakes == (stage = "died" => Mistaken) /\ (stage = "run" => ~ Mistaken)

(* Instantiations with prefixes of their own give tests names of their own,  *)
(* so that a filter can tell them apart (gtest-param-util.h, RegisterTests). *)
NamesDistinguish ==
  stage = "run" /\ (\A x, y \in Kind("INSTANTIATE", Declared) \union Kind("INSTANTIATE_TYPED", Declared) :
                      x # y => Decl(x).prefix # Decl(y).prefix) =>
    \A j, k \in DOMAIN registered :
      <<registered[j].suite, registered[j].test>> = <<registered[k].suite, registered[k].test>> => j = k

(* The tests that were asked for are registered, each under a name of its own *)
(* (ParameterizedTestSuiteInfo::RegisterTests, RegisterTypeParameterizedTest). *)
RegistrationSound == RegisteredExactly /\ NamesDistinguish
================================================================================
