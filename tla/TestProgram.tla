----------------------------- MODULE TestProgram -------------------------------
(***************************************************************************)
(* RUN_ALL_TESTS() of googletest: the iterations, the global environments,   *)
(* the test suites and the life of each test, with user code that may fail,  *)
(* skip or throw wherever it is called.                                      *)
(*                                                                          *)
(* User code is one step: what it did to the current test result is a set of *)
(* kinds.  Which tests are selected is fixed at the start; their order is    *)
(* the order of registration.                                               *)
(***************************************************************************)
EXTENDS Integers, Sequences, FiniteSets

CONSTANTS TestCount,    \* how many tests each suite has, in order
          Environments, \* how many global environments there are
          Flags,        \* the values the command line may give
          Outcomes,     \* what user code may do: sets of Kinds
          Before,       \* what may be recorded before RUN_ALL_TESTS()
          MaxTrouble    \* at most so many pieces of user code misbehave

Kinds == {"nonfatal", "fatal", "skip", "throw"}

(* The k-th test of suite s is <<s, k>>, and so is its TestResult; <<s, 0>>   *)
(* is the suite's own result and <<0, 0>> the one outside any suite.         *)
Suites  == 1 .. Len(TestCount)
Suite(s) == <<s, 0>>
TestsIn(s) == {<<s, k>> : k \in 1 .. TestCount[s]}
Tests   == UNION {TestsIn(s) : s \in Suites}
Unit    == <<0, 0>>
Results == Tests \union {Suite(s) : s \in Suites} \union {Unit}
Environment(e) == <<0, e>>
FlagType == [repeat : Int, recreate : BOOLEAN, failFast : BOOLEAN,
             catch : BOOLEAN, throwOnFailure : BOOLEAN]

ASSUME TestProgramAssumption ==
  /\ TestCount \in Seq(Nat)
  /\ Environments \in Nat /\ MaxTrouble \in Nat
  /\ Flags \subseteq FlagType
  /\ Outcomes \subseteq SUBSET Kinds /\ {} \in Outcomes
  /\ Before \subseteq SUBSET {"nonfatal", "fatal", "skip"}

VARIABLES
  flags, selected,   \* GTEST_FLAGs; the tests whose should_run_ is true
  pc,                \* what RunAllTests does next
  i,                 \* the iteration
  env,               \* the next environment
  suite, test,       \* the next suite, and the next test in it
  currentSuite, currentTest, \* current_test_suite_, current_test_info_; Unit: null
  object,            \* the test object exists
  results,           \* what each TestResult holds
  failed,            \* RunAllTests's own flag
  status,            \* what UnitTest::Run returns
  (* the history that the properties are about *)
  up,                \* what was set up and not torn down since
  started,           \* how often each test started in this iteration
  setUpTrouble,      \* a global set-up failed fatally or skipped
  everFailed,        \* a failure was recorded
  trouble            \* pieces of user code that misbehaved

control == <<pc, i, env, suite, test, currentSuite, currentTest, object>>
fixed   == <<flags, selected>>
history == <<up, started, setUpTrouble, everFailed, trouble>>
vars    == <<fixed, control, results, failed, status, history>>

--------------------------------------------------------------------------------
(* TestResult *)

Failed(r)          == results[r] \intersect {"nonfatal", "fatal"} # {}
HasFatalFailure(r) == "fatal" \in results[r]
Skipped(r)         == "skip" \in results[r] /\ ~ Failed(r)

(* TestSuite::Failed and UnitTestImpl::Failed *)
SuiteFailed(s) == Failed(Suite(s)) \/ \E t \in TestsIn(s) \intersect selected : Failed(t)
UnitFailed     == Failed(Unit) \/ \E s \in Suites : SuiteFailed(s)

ShouldRun(s) == TestsIn(s) \intersect selected # {}

(* A slip: the suite is asked before the test *)
CurrentSuiteFirst ==
  IF currentSuite # Unit THEN currentSuite ELSE currentTest

(* UnitTestImpl::current_test_result *)
CurrentResult == IF currentTest # Unit THEN currentTest ELSE currentSuite

(* TestInfo::Skip of the selected tests of ts *)
SkipTests(ts) ==
  /\ results' = [r \in Results |->
                   IF r \in ts \intersect selected THEN results[r] \union {"skip"}
                   ELSE results[r]]
  /\ started' = [t \in Tests |->
                   IF t \in ts \intersect selected THEN started[t] + 1
                   ELSE started[t]]

--------------------------------------------------------------------------------
(* User code *)

(* What is recorded of an outcome: an exception that is caught becomes a     *)
(* fatal failure (HandleExceptionsInMethodIfSupported).                      *)
Parts(o) == (o \ {"throw"}) \union
            IF "throw" \in o /\ flags.catch THEN {"fatal"} ELSE {}

(* The exception leaves RUN_ALL_TESTS(): it is not to be caught, or a failed *)
(* assertion threw it for another test framework to catch.                   *)
Escapes(o) ==
  \/ "throw" \in o /\ ~ flags.catch
  \/ flags.throwOnFailure /\ Parts(o) \intersect {"nonfatal", "fatal"} # {}

(* User code runs, does o, and control goes to next.  An escaping exception  *)
(* ends the process.                                                         *)
Runs(o, next) ==
  /\ o # {} => trouble < MaxTrouble
  /\ trouble' = IF o = {} THEN trouble ELSE trouble + 1
  /\ results' = [results EXCEPT ![CurrentResult] = @ \union Parts(o)]
  /\ everFailed' = (everFailed \/ Parts(o) \intersect {"nonfatal", "fatal"} # {})
  /\ pc' = IF Escapes(o) THEN "aborted" ELSE next

(* The environments are called with no handler of their own: an exception    *)
(* leaves RunAllTests for the handler in UnitTest::Run.                      *)
RunsUnguarded(o, next) ==
  /\ Runs(o, IF "throw" \in o THEN "caught" ELSE next)
  /\ status' = IF "throw" \in o /\ ~ Escapes(o) THEN 1 ELSE status

Init ==
  /\ flags \in Flags /\ selected \in SUBSET Tests
  /\ pc = "iterate" /\ i = 0 /\ env = 1 /\ suite = 1 /\ test = 1
  /\ currentSuite = Unit /\ currentTest = Unit /\ object = FALSE
  /\ \E b \in Before : /\ results = [r \in Results |-> IF r = Unit THEN b ELSE {}]
                       /\ everFailed = (b \intersect {"nonfatal", "fatal"} # {})
  /\ failed = FALSE /\ status = 0
  /\ up = {} /\ started = [t \in Tests |-> 0]
  /\ setUpTrouble = FALSE /\ trouble = 0

--------------------------------------------------------------------------------
(* UnitTestImpl::RunAllTests *)

Recreate == flags.recreate \/ flags.repeat < 0

ClearNonAdHocTestResult ==
  results' = [r \in Results |-> IF r = Unit THEN results[r] ELSE {}]

StartIteration ==
  /\ pc = "iterate" /\ (flags.repeat < 0 \/ i # flags.repeat)
  /\ ClearNonAdHocTestResult
  /\ started' = [t \in Tests |-> 0]
  /\ env' = 1
  /\ pc' = IF selected = {} THEN "iterationEnd"
           ELSE IF (i = 0 \/ Recreate) /\ Environments > 0 THEN "setUpEnvironment"
           ELSE "choose"
  /\ UNCHANGED <<fixed, i, suite, test, currentSuite, currentTest, object,
                 failed, status, up, setUpTrouble, everFailed, trouble>>

SetUpEnvironment ==
  /\ pc = "setUpEnvironment"
  /\ \E o \in Outcomes :
       /\ RunsUnguarded(o, IF env < Environments THEN pc ELSE "choose")
       /\ setUpTrouble' = (setUpTrouble \/ Parts(o) \intersect {"fatal", "skip"} # {})
  /\ env' = env + 1
  /\ up' = up \union {Environment(env)}
  /\ UNCHANGED <<fixed, i, suite, test, currentSuite, currentTest, object,
                 failed, started>>

(* A slip: the environments are torn down in every iteration *)
TearDownAlways == Environments > 0

TearDownDue == (i = flags.repeat - 1 \/ Recreate) /\ Environments > 0

AfterTests == IF TearDownDue THEN "tearDownEnvironment" ELSE "iterationEnd"

(* No test runs after a skip in global set-up; after a fatal failure they    *)
(* are all marked as skipped.                                                *)
ChooseTests ==
  /\ pc = "choose"
  /\ env' = Environments
  /\ IF Skipped(Unit)
       THEN pc' = AfterTests /\ UNCHANGED <<results, started>>
     ELSE IF ~ HasFatalFailure(Unit)
       THEN pc' = "suite" /\ UNCHANGED <<results, started>>
     ELSE pc' = AfterTests /\ SkipTests(Tests)
  /\ suite' = 1
  /\ UNCHANGED <<fixed, i, test, currentSuite, currentTest, object, failed,
                 status, up, setUpTrouble, everFailed, trouble>>

TearDownEnvironment ==
  /\ pc = "tearDownEnvironment"
  /\ \E o \in Outcomes :
       RunsUnguarded(o, IF env > 1 THEN pc ELSE "iterationEnd")
  /\ env' = env - 1
  /\ up' = up \ {Environment(env)}
  /\ UNCHANGED <<fixed, i, suite, test, currentSuite, currentTest, object,
                 failed, started, setUpTrouble>>

(* A slip: what the last iteration says is returned *)
FailedInLast == UnitFailed

FailedSoFar == failed \/ UnitFailed

(* A slip: iterations that set up again are not told apart *)
NextIterationSame == IF Recreate THEN 1 ELSE i + 1

(* The iterations are counted; of an endless repetition it only matters      *)
(* whether it is in the first.                                               *)
NextIteration == IF flags.repeat < 0 THEN 1 ELSE i + 1

EndIteration ==
  /\ pc = "iterationEnd"
  /\ failed' = FailedSoFar
  /\ i' = NextIteration
  /\ pc' = "iterate"
  /\ UNCHANGED <<fixed, env, suite, test, currentSuite, currentTest, object,
                 results, status, history>>

Return ==
  /\ pc = "iterate" /\ flags.repeat >= 0 /\ i = flags.repeat
  /\ status' = IF failed THEN 1 ELSE 0
  /\ pc' = "returned"
  /\ UNCHANGED <<fixed, i, env, suite, test, currentSuite, currentTest, object,
                 results, failed, history>>

--------------------------------------------------------------------------------
(* TestSuite::Run *)

(* A suite with no selected test is passed over *)
PassOverSuite ==
  /\ pc = "suite" /\ suite \in Suites /\ ~ ShouldRun(suite)
  /\ suite' = suite + 1
  /\ UNCHANGED <<fixed, pc, i, env, test, currentSuite, currentTest, object,
                 results, failed, status, history>>

StartSuite ==
  /\ pc = "suite" /\ suite \in Suites /\ ShouldRun(suite)
  /\ currentSuite' = Suite(suite)
  /\ pc' = "setUpTestSuite"
  /\ UNCHANGED <<fixed, i, env, suite, test, currentTest, object, results,
                 failed, status, history>>

SuitesDone ==
  /\ pc = "suite" /\ suite \notin Suites
  /\ pc' = AfterTests
  /\ UNCHANGED <<fixed, i, env, suite, test, currentSuite, currentTest, object,
                 results, failed, status, history>>

SetUpTestSuite ==
  /\ pc = "setUpTestSuite"
  /\ \E o \in Outcomes : Runs(o, "chooseAll")
  /\ up' = up \union {Suite(suite)}
  /\ UNCHANGED <<fixed, i, env, suite, test, currentSuite, currentTest, object,
                 failed, status, started, setUpTrouble>>

(* skip_all, evaluated once before the tests *)
ChooseAll ==
  /\ pc = "chooseAll"
  /\ IF Failed(Suite(suite)) \/ Skipped(Suite(suite))
       THEN SkipTests(TestsIn(suite)) /\ pc' = "tearDownTestSuite"
       ELSE UNCHANGED <<results, started>> /\ pc' = "test"
  /\ test' = 1
  /\ UNCHANGED <<fixed, i, env, suite, currentSuite, currentTest, object,
                 failed, status, up, setUpTrouble, everFailed, trouble>>

TearDownTestSuite ==
  /\ pc = "tearDownTestSuite"
  /\ \E o \in Outcomes : Runs(o, "suiteEnd")
  /\ up' = up \ {Suite(suite)}
  /\ UNCHANGED <<fixed, i, env, suite, test, currentSuite, currentTest, object,
                 failed, status, started, setUpTrouble>>

EndSuite ==
  /\ pc = "suiteEnd"
  /\ currentSuite' = Unit
  /\ pc' = "afterSuite"
  /\ UNCHANGED <<fixed, i, env, suite, test, currentTest, object, results,
                 failed, status, history>>

(* RunAllTests after TestSuite::Run: with fail_fast, a failed suite has all  *)
(* later ones skipped.                                                       *)
AfterSuite ==
  /\ pc = "afterSuite"
  /\ IF flags.failFast /\ SuiteFailed(suite)
       THEN /\ SkipTests(UNION {TestsIn(s) : s \in suite + 1 .. Len(TestCount)})
            /\ pc' = AfterTests
            /\ UNCHANGED suite
       ELSE /\ suite' = suite + 1 /\ pc' = "suite"
            /\ UNCHANGED <<results, started>>
  /\ UNCHANGED <<fixed, i, env, test, currentSuite, currentTest, object,
                 failed, status, up, setUpTrouble, everFailed, trouble>>

--------------------------------------------------------------------------------
(* TestInfo::Run and Test::Run *)

Test == <<suite, test>>
LastTest == TestCount[suite]

PassOverTest ==
  /\ pc = "test" /\ test <= LastTest /\ Test \notin selected
  /\ test' = test + 1
  /\ UNCHANGED <<fixed, pc, i, env, suite, currentSuite, currentTest, object,
                 results, failed, status, history>>

StartTest ==
  /\ pc = "test" /\ test <= LastTest /\ Test \in selected
  /\ currentTest' = Test
  /\ started' = [started EXCEPT ![Test] = @ + 1]
  /\ pc' = "construct"
  /\ UNCHANGED <<fixed, i, env, suite, test, currentSuite, object, results,
                 failed, status, up, setUpTrouble, everFailed, trouble>>

TestsDone ==
  /\ pc = "test" /\ test > LastTest
  /\ pc' = "tearDownTestSuite"
  /\ UNCHANGED <<fixed, i, env, suite, test, currentSuite, currentTest, object,
                 results, failed, status, history>>

(* The fixture's constructor: there is no object if it throws *)
CreateTest ==
  /\ pc = "construct"
  /\ \E o \in Outcomes : /\ Runs(o, "constructed")
                         /\ object' = ("throw" \notin o)
  /\ UNCHANGED <<fixed, i, env, suite, test, currentSuite, currentTest,
                 failed, status, up, started, setUpTrouble>>

Sound(t) == ~ HasFatalFailure(t) /\ ~ Skipped(t)

Constructed ==
  /\ pc = "constructed"
  /\ pc' = IF Sound(Test) THEN "setUp" ELSE IF object THEN "delete" ELSE "testEnd"
  /\ UNCHANGED <<fixed, i, env, suite, test, currentSuite, currentTest, object,
                 results, failed, status, history>>

SetUp ==
  /\ pc = "setUp"
  /\ \E o \in Outcomes : Runs(o, "isSetUp")
  /\ up' = up \union {Test}
  /\ UNCHANGED <<fixed, i, env, suite, test, currentSuite, currentTest, object,
                 failed, status, started, setUpTrouble>>

(* The body runs only after a successful SetUp() *)
IsSetUp ==
  /\ pc = "isSetUp"
  /\ pc' = IF Sound(Test) THEN "body" ELSE "tearDown"
  /\ UNCHANGED <<fixed, i, env, suite, test, currentSuite, currentTest, object,
                 results, failed, status, history>>

TestBody ==
  /\ pc = "body"
  /\ \E o \in Outcomes : Runs(o, "tearDown")
  /\ UNCHANGED <<fixed, i, env, suite, test, currentSuite, currentTest, object,
                 failed, status, up, started, setUpTrouble>>

TearDown ==
  /\ pc = "tearDown"
  /\ \E o \in Outcomes : Runs(o, "delete")
  /\ up' = up \ {Test}
  /\ UNCHANGED <<fixed, i, env, suite, test, currentSuite, currentTest, object,
                 failed, status, started, setUpTrouble>>

DeleteSelf ==
  /\ pc = "delete"
  /\ \E o \in Outcomes : Runs(o, "testEnd")
  /\ object' = FALSE
  /\ UNCHANGED <<fixed, i, env, suite, test, currentSuite, currentTest,
                 failed, status, up, started, setUpTrouble>>

EndTest ==
  /\ pc = "testEnd"
  /\ currentTest' = Unit
  /\ pc' = "afterTest"
  /\ UNCHANGED <<fixed, i, env, suite, test, currentSuite, object, results,
                 failed, status, history>>

(* A slip: the test after the failed one is forgotten *)
LaterTestsButOne == {<<suite, k>> : k \in test + 2 .. LastTest}

LaterTests == {<<suite, k>> : k \in test + 1 .. LastTest}

(* TestSuite::Run after TestInfo::Run: with fail_fast, a failed test has the *)
(* rest of its suite skipped.                                                *)
AfterTest ==
  /\ pc = "afterTest"
  /\ IF flags.failFast /\ Failed(Test)
       THEN SkipTests(LaterTests) /\ pc' = "tearDownTestSuite" /\ UNCHANGED test
       ELSE UNCHANGED <<results, started>> /\ pc' = "test" /\ test' = test + 1
  /\ UNCHANGED <<fixed, i, env, suite, currentSuite, currentTest, object,
                 failed, status, up, setUpTrouble, everFailed, trouble>>

--------------------------------------------------------------------------------
Ended == pc \in {"returned", "caught", "aborted"}

Next ==
  \/ StartIteration \/ SetUpEnvironment \/ ChooseTests \/ TearDownEnvironment
  \/ EndIteration \/ Return
  \/ PassOverSuite \/ StartSuite \/ SuitesDone \/ SetUpTestSuite \/ ChooseAll
  \/ TearDownTestSuite \/ EndSuite \/ AfterSuite
  \/ PassOverTest \/ StartTest \/ TestsDone \/ CreateTest \/ Constructed
  \/ SetUp \/ IsSetUp \/ TestBody \/ TearDown \/ DeleteSelf \/ EndTest
  \/ AfterTest

Spec == Init /\ [][Next]_vars /\ WF_vars(Next)

--------------------------------------------------------------------------------
(* Properties *)

Pcs == {"iterate", "setUpEnvironment", "choose", "tearDownEnvironment",
        "iterationEnd", "suite", "setUpTestSuite", "chooseAll",
        "tearDownTestSuite", "suiteEnd", "afterSuite", "test", "construct", "constructed",
        "setUp", "isSetUp", "body", "tearDown", "delete", "testEnd", "afterTest",
        "returned", "caught", "aborted"}

(* The type of every variable; the current suite and test are those that run, *)
(* and there is a current test only in a current suite.                       *)
TypeOK ==
  /\ flags \in Flags /\ selected \subseteq Tests
  /\ pc \in Pcs /\ i \in Nat /\ env \in 0 .. Environments + 1
  /\ suite \in 1 .. Len(TestCount) + 1 /\ test \in Nat \ {0}
  /\ currentSuite \in {Unit, Suite(suite)} /\ currentTest \in {Unit, Test}
  /\ currentTest # Unit => currentSuite # Unit
  /\ object \in BOOLEAN
  /\ results \in [Results -> SUBSET {"nonfatal", "fatal", "skip"}]
  /\ failed \in BOOLEAN /\ status \in {0, 1}
  /\ up \subseteq {Environment(e) : e \in 1 .. Environments} \union Results
  /\ started \in [Tests -> Nat]
  /\ setUpTrouble \in BOOLEAN /\ everFailed \in BOOLEAN /\ trouble \in 0 .. MaxTrouble

(* UnitTest::Run returns 0 exactly if no failure was recorded, in whichever  *)
(* iteration and inside or outside a test, provided there was an iteration.  *)
StatusTellsFailures ==
  /\ pc = "returned" /\ flags.repeat # 0 => (status = 1 <=> everFailed)
  /\ pc = "caught" => status = 1 /\ everFailed

(* Set-ups nest: a test is set up inside its suite, a suite inside all the   *)
(* environments; at most one of each; and what is set up is torn down: the   *)
(* test before the next, the suite too, the environments before the end.     *)
LifetimesNest ==
  LET upTests  == up \intersect Tests
      upSuites == {s \in Suites : Suite(s) \in up}
  IN  /\ upTests # {} => upTests = {Test} /\ object
      /\ upTests # {} \/ object => upSuites = {suite}
      /\ upSuites # {} => \A e \in 1 .. Environments : Environment(e) \in up
      /\ pc = "test" => upTests = {} /\ ~ object
      /\ pc = "suite" => upSuites = {}
      /\ pc = "returned" => up = {}

(* An assertion in an environment is charged to no suite or test, one in     *)
(* SetUpTestSuite() to no test, one in a test to that test alone.            *)
ChargedWhereItBelongs ==
  /\ pc \in {"setUpEnvironment", "choose", "tearDownEnvironment"} =>
       CurrentResult = Unit
  /\ pc \in {"setUpTestSuite", "tearDownTestSuite"} => CurrentResult = Suite(suite)
  /\ pc \in {"construct", "setUp", "body", "tearDown", "delete"} =>
       CurrentResult = Test

(* With fail_fast, no test starts after anything failed in its iteration,    *)
(* in a test, in its destructor or in the set-up or tear-down of a suite.    *)
FailFastStops ==
  flags.failFast /\ pc \in {"construct", "setUpTestSuite"} =>
    \A r \in Results \ {Unit} : ~ Failed(r)

(* In each iteration the listeners hear of every selected test exactly once, *)
(* run or skipped, or of none at all; and never of one not selected.         *)
AccountedFor ==
  pc = "iterationEnd" =>
    \/ \A t \in Tests : started[t] = IF t \in selected THEN 1 ELSE 0
    \/ \A t \in Tests : started[t] = 0

(* A test starts with a clean slate, whatever earlier iterations left.       *)
CleanSlate ==
  /\ pc = "construct" => results[Test] = {}
  /\ pc = "setUpTestSuite" => results[Suite(suite)] = {}

(* A program that does not repeat for ever comes to its end, whatever user   *)
(* code does, as long as it returns.                                         *)
ComesToAnEnd == flags.repeat >= 0 ~> Ended

(* An iteration runs what it should: it starts from clean results, hears of   *)
(* every test, and stops at a failure if that is asked for                   *)
(* (ClearNonAdHocTestResult, TestSuite::Run, SkipTests).                     *)
IterationsSound == TypeOK /\ FailFastStops /\ AccountedFor /\ CleanSlate
================================================================================
