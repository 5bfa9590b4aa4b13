--------------------------- MODULE TestProgramProofs -----------------------------
(***************************************************************************)
(* Proofs about RUN_ALL_TESTS(): its status tells of every failure, what is   *)
(* set up is torn down in order, failures are charged where they belong, and *)
(* each iteration runs what it should.                                       *)
(***************************************************************************)
EXTENDS TestProgram, TLAPS

(* Where a test is current, and where a suite *)
InTest == {"construct", "constructed", "setUp", "isSetUp", "body", "tearDown",
           "delete", "testEnd"}
InSuite == InTest \union {"setUpTestSuite", "chooseAll", "test", "afterTest",
                          "tearDownTestSuite", "suiteEnd"}

(* The current suite and test are those of the place in the program. *)
Where ==
  /\ pc \in InTest => currentTest = Test
  /\ pc \in InTest \union {"afterTest"} => Test \in selected
  /\ pc \notin InTest \union {"aborted"} => currentTest = Unit
  /\ pc \in InSuite => currentSuite = Suite(suite)
  /\ pc \notin InSuite \union {"aborted"} => currentSuite = Unit
  /\ pc \in InSuite \union {"afterSuite"} => suite \in Suites
  /\ pc \in {"setUpEnvironment", "tearDownEnvironment"} => env \in 1 .. Environments
  /\ pc \in InSuite \union {"suite", "afterSuite"} => env = Environments

TInv == TypeOK /\ Where

--------------------------------------------------------------------------------
(* Results and what belongs to them *)

(* The results of tests, of suites and of the program are all different. *)
LEMMA ResultsApart ==
  /\ Unit \in Results /\ Unit \notin Tests
  /\ \A s \in Suites : Suite(s) \in Results /\ Suite(s) \notin Tests /\ Suite(s) # Unit
  /\ Tests \subseteq Results
  /\ \A e \in 1 .. Environments : Environment(e) \notin Results
<1>1. \A s \in Suites : s \in Nat /\ s > 0 /\ TestCount[s] \in Nat
  BY TestProgramAssumption DEF Suites
<1>2. \A t \in Tests : \E s \in Suites : \E k \in 1 .. TestCount[s] : t = <<s, k>>
  BY DEF Tests, TestsIn
<1>3. \A t \in Tests : t # Unit /\ \A s \in Suites : t # Suite(s)
  BY <1>1, <1>2 DEF Unit, Suite
<1>4. \A e \in 1 .. Environments : Environment(e) \notin Tests
  BY <1>1, <1>2 DEF Environment
<1>5. \A e \in 1 .. Environments : Environment(e) # Unit /\ \A s \in Suites : Environment(e) # Suite(s)
  BY <1>1, TestProgramAssumption DEF Environment, Unit, Suite
<1>6. \A s \in Suites : Suite(s) # Unit
  BY <1>1 DEF Suite, Unit
<1> QED
  BY <1>3, <1>4, <1>5, <1>6 DEF Results

(* What user code does is charged to a result that there is. *)
LEMMA CurrentResultIs ==
  ASSUME TInv, pc # "aborted"
  PROVE  /\ CurrentResult \in Results
         /\ CurrentResult \in Tests => CurrentResult \in selected
         /\ pc \in InTest => CurrentResult = Test
         /\ pc \in InSuite \ InTest => CurrentResult = Suite(suite)
         /\ pc \notin InSuite => CurrentResult = Unit
<1>1. CASE pc \in InTest
  BY <1>1, ResultsApart DEF TInv, TypeOK, Where, CurrentResult, InSuite
<1>2. CASE pc \in InSuite \ InTest
  BY <1>2, ResultsApart DEF TInv, Where, CurrentResult
<1>3. CASE pc \notin InSuite
  BY <1>3, ResultsApart DEF TInv, Where, CurrentResult, InSuite
<1> QED
  BY <1>1, <1>2, <1>3

(* User code keeps the types of what it changes. *)
LEMMA RunsTyped ==
  ASSUME TInv, pc # "aborted", NEW o \in Outcomes, NEW next, Runs(o, next)
  PROVE  /\ results' \in [Results -> SUBSET {"nonfatal", "fatal", "skip"}]
         /\ everFailed' \in BOOLEAN /\ trouble' \in 0 .. MaxTrouble
         /\ pc' \in {"aborted", next}
<1>1. Parts(o) \subseteq {"nonfatal", "fatal", "skip"}
  BY TestProgramAssumption DEF Parts, Kinds
<1>2. results' \in [Results -> SUBSET {"nonfatal", "fatal", "skip"}]
  BY <1>1, CurrentResultIs DEF Runs, TInv, TypeOK
<1>3. trouble' \in 0 .. MaxTrouble
  BY TestProgramAssumption DEF Runs, TInv, TypeOK
<1> QED
  BY <1>2, <1>3 DEF Runs, TInv, TypeOK

(* Skipping tests keeps the types of what it changes. *)
LEMMA SkipTyped ==
  ASSUME TypeOK, NEW ts, SkipTests(ts)
  PROVE  /\ results' \in [Results -> SUBSET {"nonfatal", "fatal", "skip"}]
         /\ started' \in [Tests -> Nat]
BY DEF TypeOK, SkipTests

--------------------------------------------------------------------------------
(* Types, and where the program is *)

(* The program starts outside all suites. *)
LEMMA InitTyped == Init => TInv
<1> SUFFICES ASSUME Init PROVE TInv
  OBVIOUS
<1>1. PICK b \in Before : results = [r \in Results |-> IF r = Unit THEN b ELSE {}]
                          /\ everFailed = (b \intersect {"nonfatal", "fatal"} # {})
  BY DEF Init
<1>2. results \in [Results -> SUBSET {"nonfatal", "fatal", "skip"}] /\ everFailed \in BOOLEAN
  BY <1>1, TestProgramAssumption
<1>3. suite \in 1 .. Len(TestCount) + 1 /\ env \in 0 .. Environments + 1 /\ trouble \in 0 .. MaxTrouble
  BY TestProgramAssumption DEF Init
<1>4. started \in [Tests -> Nat]
  BY DEF Init
<1>5. TypeOK
  <2>1. flags \in Flags /\ selected \subseteq Tests /\ failed \in BOOLEAN /\ status \in {0, 1}
        /\ object \in BOOLEAN /\ setUpTrouble \in BOOLEAN
    BY DEF Init
  <2>2. pc \in Pcs /\ i \in Nat /\ test \in Nat \ {0}
    BY DEF Init, Pcs
  <2>3. up = {} /\ currentSuite = Unit /\ currentTest = Unit
    BY DEF Init
  <2> QED
    BY <1>2, <1>3, <1>4, <2>1, <2>2, <2>3 DEF TypeOK
<1>6. Where
  BY DEF Init, Where, InTest, InSuite
<1> QED
  BY <1>5, <1>6 DEF TInv

(* Steps outside suites *)
LEMMA OuterTyped ==
  ASSUME TInv,
         \/ StartIteration \/ SetUpEnvironment \/ ChooseTests \/ TearDownEnvironment
         \/ EndIteration \/ Return \/ PassOverSuite \/ StartSuite \/ SuitesDone
         \/ EndSuite \/ AfterSuite
  PROVE  TInv'
<1> USE TestProgramAssumption
<1>1. CASE StartIteration
  <2>1. results' \in [Results -> SUBSET {"nonfatal", "fatal",
     "skip"}] /\ started' \in [Tests -> Nat]
    BY <1>1 DEF StartIteration, ClearNonAdHocTestResult, TInv, TypeOK
  <2> QED
    BY <1>1, <2>1 DEF StartIteration, TInv, TypeOK, Where, Pcs, InTest, InSuite, fixed, Test
<1>2. CASE SetUpEnvironment
  <2>1. PICK o \in Outcomes : RunsUnguarded(o, IF env < Environments THEN pc ELSE "choose")
        /\ setUpTrouble' = (setUpTrouble \/ Parts(o) \intersect {"fatal", "skip"} # {})
    BY <1>2 DEF SetUpEnvironment
  <2>2. pc = "setUpEnvironment" /\ env \in 1 .. Environments
    BY <1>2 DEF SetUpEnvironment, TInv, Where
  <2>3. /\ results' \in [Results -> SUBSET {"nonfatal", "fatal", "skip"}]
        /\ everFailed' \in BOOLEAN /\ trouble' \in 0 .. MaxTrouble
        /\ pc' \in {"aborted", "caught", IF env < Environments THEN pc ELSE "choose"}
    BY <2>1, <2>2, RunsTyped DEF RunsUnguarded
  <2>4. status' \in {0, 1} /\ setUpTrouble' \in BOOLEAN
    BY <2>1 DEF RunsUnguarded, TInv, TypeOK
  <2>5. TypeOK'
    BY <1>2, <2>2, <2>3, <2>4 DEF SetUpEnvironment, TInv, TypeOK, Pcs, fixed, Test
  <2> QED
    BY <1>2, <2>2, <2>3, <2>5 DEF SetUpEnvironment, TInv, Where, InTest, InSuite
<1>3. CASE ChooseTests
  <2>1. results' \in [Results -> SUBSET {"nonfatal", "fatal",
     "skip"}] /\ started' \in [Tests -> Nat]
    BY <1>3, SkipTyped DEF ChooseTests, TInv, TypeOK
  <2>2. pc' \in {"suite", AfterTests}
    BY <1>3 DEF ChooseTests
  <2>3. (AfterTests = "tearDownEnvironment" /\ Environments > 0) \/ AfterTests = "iterationEnd"
    BY DEF AfterTests, TearDownDue
  <2>4. pc = "choose" /\ currentSuite = Unit /\ currentTest = Unit
    BY <1>3 DEF ChooseTests, TInv, Where, InTest, InSuite
  <2>5. TypeOK'
    BY <1>3, <2>1, <2>2, <2>3, <2>4 DEF ChooseTests, TInv, TypeOK, Pcs, fixed
  <2> QED
    BY <1>3, <2>2, <2>3, <2>4, <2>5 DEF ChooseTests, TInv, Where, InTest, InSuite
<1>4. CASE TearDownEnvironment
  <2>1. PICK o \in Outcomes : RunsUnguarded(o, IF env > 1 THEN pc ELSE "iterationEnd")
    BY <1>4 DEF TearDownEnvironment
  <2>2. pc = "tearDownEnvironment" /\ env \in 1 .. Environments
    BY <1>4 DEF TearDownEnvironment, TInv, Where
  <2>3. /\ results' \in [Results -> SUBSET {"nonfatal", "fatal", "skip"}]
        /\ everFailed' \in BOOLEAN /\ trouble' \in 0 .. MaxTrouble
        /\ pc' \in {"aborted", "caught", IF env > 1 THEN pc ELSE "iterationEnd"}
    BY <2>1, <2>2, RunsTyped DEF RunsUnguarded
  <2>4. status' \in {0, 1}
    BY <2>1 DEF RunsUnguarded, TInv, TypeOK
  <2>5. TypeOK'
    BY <1>4, <2>2, <2>3, <2>4 DEF TearDownEnvironment, TInv, TypeOK, Pcs, fixed, Test
  <2> QED
    BY <1>4, <2>2, <2>3, <2>5 DEF TearDownEnvironment, TInv, Where, InTest, InSuite
<1>5. CASE EndIteration
  <2>1. NextIteration \in Nat
    BY DEF NextIteration, TInv, TypeOK
  <2>2. FailedSoFar \in BOOLEAN
    BY DEF FailedSoFar, UnitFailed, SuiteFailed, Failed, TInv, TypeOK
  <2> QED
    BY <1>5, <2>1, <2>2 DEF EndIteration, TInv, TypeOK, Where, Pcs, InTest, InSuite, fixed,
       history, Test
<1>6. CASE Return
  BY <1>6 DEF Return, TInv, TypeOK, Where, Pcs, InTest, InSuite, fixed, history, Test
<1>7. CASE PassOverSuite
  BY <1>7 DEF PassOverSuite, TInv, TypeOK, Where, Pcs, InTest, InSuite, fixed, history, Test,
     Suites
<1>8. CASE StartSuite
  BY <1>8 DEF StartSuite, TInv, TypeOK, Where, Pcs, InTest, InSuite, fixed, history, Test
<1>9. CASE SuitesDone
  <2>1. (AfterTests = "tearDownEnvironment" /\ Environments > 0) \/ AfterTests = "iterationEnd"
    BY DEF AfterTests, TearDownDue
  <2> QED
    BY <1>9, <2>1 DEF SuitesDone, TInv, TypeOK, Where, Pcs, InTest, InSuite, fixed, history,
       Test
<1>10. CASE EndSuite
  BY <1>10 DEF EndSuite, TInv, TypeOK, Where, Pcs, InTest, InSuite, fixed, history, Test
<1>11. CASE AfterSuite
  <2>1. results' \in [Results -> SUBSET {"nonfatal", "fatal",
     "skip"}] /\ started' \in [Tests -> Nat]
    BY <1>11, SkipTyped DEF AfterSuite, TInv, TypeOK
  <2>3. (AfterTests = "tearDownEnvironment" /\ Environments > 0) \/ AfterTests = "iterationEnd"
    BY DEF AfterTests, TearDownDue
  <2> QED
    BY <1>11, <2>1, <2>3 DEF AfterSuite, TInv, TypeOK, Where, Pcs, InTest, InSuite, fixed,
       history, Test, Suites
<1> QED
  BY <1>1, <1>2, <1>3, <1>4, <1>5, <1>6, <1>7, <1>8, <1>9, <1>10, <1>11

(* Steps inside suites *)
LEMMA InnerTyped ==
  ASSUME TInv,
         \/ SetUpTestSuite \/ ChooseAll \/ TearDownTestSuite \/ PassOverTest \/ StartTest
         \/ TestsDone \/ CreateTest \/ Constructed \/ SetUp \/ IsSetUp \/ TestBody \/ TearDown
         \/ DeleteSelf \/ EndTest \/ AfterTest
  PROVE  TInv'
<1> USE TestProgramAssumption
<1>1. CASE SetUpTestSuite
  <2>1. PICK o \in Outcomes : Runs(o, "chooseAll")
    BY <1>1 DEF SetUpTestSuite
  <2>2. /\ results' \in [Results -> SUBSET {"nonfatal", "fatal", "skip"}]
        /\ everFailed' \in BOOLEAN /\ trouble' \in 0 .. MaxTrouble
        /\ pc' \in {"aborted", "chooseAll"}
    BY <1>1, <2>1, RunsTyped DEF SetUpTestSuite
  <2>3. TypeOK'
    BY <1>1, <2>2, ResultsApart DEF SetUpTestSuite, TInv, TypeOK, Where, Pcs, InTest, InSuite,
       fixed, Test
  <2> QED
    BY <1>1, <2>2, <2>3 DEF SetUpTestSuite, TInv, Where, InTest, InSuite, fixed, Test
<1>2. CASE ChooseAll
  <2>1. results' \in [Results -> SUBSET {"nonfatal", "fatal",
     "skip"}] /\ started' \in [Tests -> Nat]
    BY <1>2, SkipTyped DEF ChooseAll, TInv, TypeOK
  <2> QED
    BY <1>2, <2>1 DEF ChooseAll, TInv, TypeOK, Where, Pcs, InTest, InSuite, fixed, history, Test
<1>3. CASE TearDownTestSuite
  <2>1. PICK o \in Outcomes : Runs(o, "suiteEnd")
    BY <1>3 DEF TearDownTestSuite
  <2>2. /\ results' \in [Results -> SUBSET {"nonfatal", "fatal", "skip"}]
        /\ everFailed' \in BOOLEAN /\ trouble' \in 0 .. MaxTrouble
        /\ pc' \in {"aborted", "suiteEnd"}
    BY <1>3, <2>1, RunsTyped DEF TearDownTestSuite
  <2>3. TypeOK'
    BY <1>3, <2>2, ResultsApart DEF TearDownTestSuite, TInv, TypeOK, Where, Pcs, InTest,
       InSuite, fixed, Test
  <2> QED
    BY <1>3, <2>2, <2>3 DEF TearDownTestSuite, TInv, Where, InTest, InSuite, fixed, Test
<1>4. CASE PassOverTest
  BY <1>4 DEF PassOverTest, TInv, TypeOK, Where, Pcs, InTest, InSuite, fixed, history, Test
<1>5. CASE StartTest
  <2>1. started' \in [Tests -> Nat]
    BY <1>5 DEF StartTest, TInv, TypeOK
  <2>2. Suite(suite) # Unit
    BY <1>5, ResultsApart DEF StartTest, TInv, Where, InSuite
  <2> QED
    BY <1>5, <2>1, <2>2 DEF StartTest, TInv, TypeOK, Where, Pcs, InTest, InSuite, fixed,
       history, Test
<1>6. CASE TestsDone
  BY <1>6 DEF TestsDone, TInv, TypeOK, Where, Pcs, InTest, InSuite, fixed, history, Test
<1>7. CASE CreateTest
  <2>1. PICK o \in Outcomes : Runs(o, "constructed") /\ object' = ("throw" \notin o)
    BY <1>7 DEF CreateTest
  <2>2. /\ results' \in [Results -> SUBSET {"nonfatal", "fatal", "skip"}]
        /\ everFailed' \in BOOLEAN /\ trouble' \in 0 .. MaxTrouble
        /\ pc' \in {"aborted", "constructed"}
    BY <1>7, <2>1, RunsTyped DEF CreateTest
  <2>3. TypeOK'
    BY <1>7, <2>1, <2>2 DEF CreateTest, TInv, TypeOK, Where, Pcs, InTest, InSuite, fixed, Test
  <2> QED
    BY <1>7, <2>2, <2>3 DEF CreateTest, TInv, Where, InTest, InSuite, fixed, Test
<1>8. CASE Constructed
  BY <1>8 DEF Constructed, TInv, TypeOK, Where, Pcs, InTest, InSuite, fixed, history, Test
<1>9. CASE SetUp
  <2>1. PICK o \in Outcomes : Runs(o, "isSetUp")
    BY <1>9 DEF SetUp
  <2>2. /\ results' \in [Results -> SUBSET {"nonfatal", "fatal", "skip"}]
        /\ everFailed' \in BOOLEAN /\ trouble' \in 0 .. MaxTrouble
        /\ pc' \in {"aborted", "isSetUp"}
    BY <1>9, <2>1, RunsTyped DEF SetUp
  <2>3. Test \in Results
    BY <1>9, ResultsApart DEF SetUp, TInv, TypeOK, Where, InTest
  <2>4. TypeOK'
    BY <1>9, <2>2, <2>3 DEF SetUp, TInv, TypeOK, Where, Pcs, InTest, InSuite, fixed, Test
  <2> QED
    BY <1>9, <2>2, <2>4 DEF SetUp, TInv, Where, InTest, InSuite, fixed, Test
<1>10. CASE IsSetUp
  BY <1>10 DEF IsSetUp, TInv, TypeOK, Where, Pcs, InTest, InSuite, fixed, history, Test
<1>11. CASE TestBody
  <2>1. PICK o \in Outcomes : Runs(o, "tearDown")
    BY <1>11 DEF TestBody
  <2>2. /\ results' \in [Results -> SUBSET {"nonfatal", "fatal", "skip"}]
        /\ everFailed' \in BOOLEAN /\ trouble' \in 0 .. MaxTrouble
        /\ pc' \in {"aborted", "tearDown"}
    BY <1>11, <2>1, RunsTyped DEF TestBody
  <2>3. TypeOK'
    BY <1>11, <2>2, ResultsApart DEF TestBody, TInv, TypeOK, Where, Pcs, InTest, InSuite,
       fixed, Test
  <2> QED
    BY <1>11, <2>2, <2>3 DEF TestBody, TInv, Where, InTest, InSuite, fixed, Test
<1>12. CASE TearDown
  <2>1. PICK o \in Outcomes : Runs(o, "delete")
    BY <1>12 DEF TearDown
  <2>2. /\ results' \in [Results -> SUBSET {"nonfatal", "fatal", "skip"}]
        /\ everFailed' \in BOOLEAN /\ trouble' \in 0 .. MaxTrouble
        /\ pc' \in {"aborted", "delete"}
    BY <1>12, <2>1, RunsTyped DEF TearDown
  <2>3. TypeOK'
    BY <1>12, <2>2, ResultsApart DEF TearDown, TInv, TypeOK, Where, Pcs, InTest, InSuite,
       fixed, Test
  <2> QED
    BY <1>12, <2>2, <2>3 DEF TearDown, TInv, Where, InTest, InSuite, fixed, Test
<1>13. CASE DeleteSelf
  <2>1. PICK o \in Outcomes : Runs(o, "testEnd")
    BY <1>13 DEF DeleteSelf
  <2>2. /\ results' \in [Results -> SUBSET {"nonfatal", "fatal", "skip"}]
        /\ everFailed' \in BOOLEAN /\ trouble' \in 0 .. MaxTrouble
        /\ pc' \in {"aborted", "testEnd"}
    BY <1>13, <2>1, RunsTyped DEF DeleteSelf
  <2>3. TypeOK'
    BY <1>13, <2>2, ResultsApart DEF DeleteSelf, TInv, TypeOK, Where, Pcs, InTest, InSuite,
       fixed, Test
  <2> QED
    BY <1>13, <2>2, <2>3 DEF DeleteSelf, TInv, Where, InTest, InSuite, fixed, Test
<1>14. CASE EndTest
  BY <1>14 DEF EndTest, TInv, TypeOK, Where, Pcs, InTest, InSuite, fixed, history, Test
<1>15. CASE AfterTest
  <2>1. results' \in [Results -> SUBSET {"nonfatal", "fatal",
     "skip"}] /\ started' \in [Tests -> Nat]
    BY <1>15, SkipTyped DEF AfterTest, TInv, TypeOK
  <2> QED
    BY <1>15, <2>1 DEF AfterTest, TInv, TypeOK, Where, Pcs, InTest, InSuite, fixed, history,
       Test
<1> QED
  BY <1>1, <1>2, <1>3, <1>4, <1>5, <1>6, <1>7, <1>8, <1>9, <1>10, <1>11, <1>12, <1>13, <1>14,
     <1>15

(* Every step keeps the types, and the current suite and test. *)
LEMMA StepTyped ==
  ASSUME TInv, [Next]_vars
  PROVE  TInv'
<1>1. CASE UNCHANGED vars
  BY <1>1 DEF vars, fixed, control, history, TInv, TypeOK, Where, Test
<1> QED
  BY <1>1, OuterTyped, InnerTyped DEF Next

(* Every variable keeps its type, whatever user code does, and there is a      *)
(* current test only in a current suite (gtest.cc, UnitTestImpl).             *)
THEOREM TypeCorrect == Spec => []TypeOK
<1>1. TInv /\ [Next]_vars => TInv'
  BY StepTyped
<1>2. TInv => TypeOK
  BY DEF TInv
<1> QED
  BY <1>1, <1>2, InitTyped, PTL DEF Spec

(* What user code does is charged to the test it belongs to, or to the suite, *)
(* or to the program: UnitTestImpl::current_test_result.                      *)
THEOREM ChargedRight == Spec => []ChargedWhereItBelongs
<1>1. TInv /\ [Next]_vars => TInv'
  BY StepTyped
<1>2. TInv => ChargedWhereItBelongs
  BY CurrentResultIs DEF ChargedWhereItBelongs, InTest, InSuite
<1> QED
  BY <1>1, <1>2, InitTyped, PTL DEF Spec

--------------------------------------------------------------------------------
(* Failures, and what the program returns *)

Failures == {r \in Results : Failed(r)}

(* What an outcome adds of failures *)
FailsBy(o) == Parts(o) \intersect {"nonfatal", "fatal"} # {}

(* Nothing was recorded of a test that was not selected, and everything else  *)
(* is asked by UnitTestImpl::Failed; what earlier iterations had is in        *)
(* RunAllTests's flag before the results are cleared.                         *)
StatusInv ==
  /\ Failures \intersect (Tests \ selected) = {}
  /\ ~ Ended => (everFailed <=> failed \/ Failures # {})
  /\ pc = "iterate" => IF i = 0 THEN Failures \subseteq {Unit} ELSE everFailed <=> failed
  /\ StatusTellsFailures

(* UnitTestImpl::Failed asks every result that can have failed. *)
LEMMA UnitFailedAsksAll ==
  ASSUME Failures \intersect (Tests \ selected) = {}
  PROVE  UnitFailed <=> Failures # {}
<1>1. ASSUME NEW r \in Failures
      PROVE  UnitFailed
  <2>1. Failed(r)
    BY DEF Failures
  <2>2. CASE r \in Tests
    <3>1. r \in selected /\ \E s \in Suites : r \in TestsIn(s)
      BY <2>2 DEF Tests
    <3> QED
      BY <2>1, <3>1 DEF UnitFailed, SuiteFailed
  <2>3. CASE r \notin Tests
    BY <2>1, <2>3 DEF Failures, Results, UnitFailed, SuiteFailed
  <2> QED
    BY <2>2, <2>3
<1>2. ASSUME UnitFailed
      PROVE  Failures # {}
  <2>1. CASE Failed(Unit)
    BY <2>1, ResultsApart DEF Failures
  <2>2. CASE \E s \in Suites : Failed(Suite(s))
    BY <2>2, ResultsApart DEF Failures
  <2>3. CASE \E s \in Suites : \E t \in TestsIn(s) : Failed(t)
    BY <2>3, ResultsApart DEF Failures, Tests
  <2> QED
    BY <1>2, <2>1, <2>2, <2>3 DEF UnitFailed, SuiteFailed
<1> QED
  BY <1>1, <1>2

(* User code adds failures to the current result, and to what was ever recorded. *)
LEMMA RunsFails ==
  ASSUME TInv, pc # "aborted", NEW o \in Outcomes, NEW next, Runs(o, next)
  PROVE  /\ Failures' = Failures \union IF FailsBy(o) THEN {CurrentResult} ELSE {}
         /\ everFailed' = (everFailed \/ FailsBy(o))
<1>1. CurrentResult \in Results
  BY CurrentResultIs
<1>2. \A r \in Results : results'[r] = IF r = CurrentResult THEN results[r] \union Parts(o) ELSE results[r]
  BY <1>1 DEF Runs, TInv, TypeOK
<1>3. \A r \in Results : Failed(r)' <=> Failed(r) \/ (r = CurrentResult /\ FailsBy(o))
  BY <1>2 DEF Failed, FailsBy
<1> QED
  BY <1>1, <1>3 DEF Failures, Runs, FailsBy

(* A test that is skipped has not failed by that. *)
LEMMA SkipFails ==
  ASSUME TypeOK, NEW ts, SkipTests(ts)
  PROVE  Failures' = Failures
<1>1. \A r \in Results : results'[r] \in {results[r], results[r] \union {"skip"}}
  BY DEF SkipTests, TypeOK
<1>2. \A r \in Results : Failed(r)' <=> Failed(r)
  BY <1>1 DEF Failed
<1> QED
  BY <1>2 DEF Failures

(* A step in which nothing is recorded *)
Quiet ==
  /\ Failures' = Failures /\ UNCHANGED <<fixed, everFailed, failed>>
  /\ ~ Ended /\ pc' \notin {"iterate", "returned", "caught", "aborted"}

(* A step of user code that does o *)
Records(o) ==
  /\ pc # "aborted" /\ ~ Ended /\ UNCHANGED <<fixed, failed>>
  /\ Failures' = Failures \union IF FailsBy(o) THEN {CurrentResult} ELSE {}
  /\ everFailed' = (everFailed \/ FailsBy(o))
  /\ pc' \notin {"iterate", "returned"}
  /\ pc' = "caught" => status' = 1 /\ everFailed'

Recorded == \E o \in Outcomes : Records(o)

(* An environment that throws out of RunAllTests has failed. *)
LEMMA UnguardedRecorded ==
  ASSUME TInv, ~ Ended, NEW o \in Outcomes, NEW next \in Pcs \ {"iterate", "returned", "caught"},
         RunsUnguarded(o, next), UNCHANGED <<fixed, failed>>
  PROVE  Recorded
<1>1. pc # "aborted"
  BY DEF Ended
<1>2. /\ Failures' = Failures \union IF FailsBy(o) THEN {CurrentResult} ELSE {}
      /\ everFailed' = (everFailed \/ FailsBy(o))
  BY <1>1, RunsFails DEF RunsUnguarded
<1>3. pc' \in {"aborted", IF "throw" \in o THEN "caught" ELSE next}
  BY DEF RunsUnguarded, Runs
<1>4. ASSUME pc' = "caught"
      PROVE  status' = 1 /\ everFailed'
  <2>1. "throw" \in o /\ ~ Escapes(o)
    BY <1>4 DEF RunsUnguarded, Runs
  <2>2. FailsBy(o)
    BY <2>1 DEF Escapes, FailsBy, Parts
  <2> QED
    BY <1>2, <2>1, <2>2 DEF RunsUnguarded
<1> QED
  BY <1>1, <1>2, <1>3, <1>4 DEF Recorded, Records

(* All other user code *)
LEMMA RunsRecorded ==
  ASSUME TInv, ~ Ended, NEW o \in Outcomes, NEW next \in Pcs \ {"iterate", "returned", "caught"},
         Runs(o, next), UNCHANGED <<fixed, failed>>
  PROVE  Recorded
<1>1. pc # "aborted"
  BY DEF Ended
<1>2. /\ Failures' = Failures \union IF FailsBy(o) THEN {CurrentResult} ELSE {}
      /\ everFailed' = (everFailed \/ FailsBy(o))
  BY <1>1, RunsFails
<1>3. pc' \in {"aborted", next}
  BY DEF Runs
<1> QED
  BY <1>1, <1>2, <1>3 DEF Recorded, Records

(* Every step is of one of these kinds. *)
LEMMA StepKinds ==
  ASSUME TInv, Next
  PROVE  StartIteration \/ EndIteration \/ Return \/ Quiet \/ Recorded
<1>1. CASE SetUpEnvironment
  <2>1. ~ Ended /\ UNCHANGED <<fixed, failed>> /\ \E o \in Outcomes : RunsUnguarded(o,
     (IF env < Environments THEN pc ELSE "choose"))
    BY <1>1 DEF SetUpEnvironment, Ended
  <2>2. (IF env < Environments THEN pc ELSE "choose") \in Pcs \ {"iterate", "returned",
     "caught"}
    BY <1>1 DEF SetUpEnvironment, Pcs
  <2> QED
    BY <2>1, <2>2, UnguardedRecorded
<1>2. CASE ChooseTests
  <2>1. Failures' = Failures
    BY <1>2, SkipFails DEF ChooseTests, Failures, Failed, TInv
  <2> QED
    BY <1>2, <2>1 DEF ChooseTests, Quiet, fixed, Ended, AfterTests
<1>3. CASE TearDownEnvironment
  <2>1. ~ Ended /\ UNCHANGED <<fixed, failed>> /\ \E o \in Outcomes : RunsUnguarded(o,
     (IF env > 1 THEN pc ELSE "iterationEnd"))
    BY <1>3 DEF TearDownEnvironment, Ended
  <2>2. (IF env > 1 THEN pc ELSE "iterationEnd") \in Pcs \ {"iterate", "returned", "caught"}
    BY <1>3 DEF TearDownEnvironment, Pcs
  <2> QED
    BY <2>1, <2>2, UnguardedRecorded
<1>4. CASE PassOverSuite
  BY <1>4 DEF PassOverSuite, Quiet, Failures, Failed, fixed, history, Ended
<1>5. CASE StartSuite
  BY <1>5 DEF StartSuite, Quiet, Failures, Failed, fixed, history, Ended
<1>6. CASE SuitesDone
  BY <1>6 DEF SuitesDone, Quiet, Failures, Failed, fixed, history, Ended, AfterTests
<1>7. CASE SetUpTestSuite
  <2>1. ~ Ended /\ UNCHANGED <<fixed, failed>> /\ \E o \in Outcomes : Runs(o, "chooseAll")
    BY <1>7 DEF SetUpTestSuite, Ended
  <2> QED
    BY <2>1, RunsRecorded DEF Pcs
<1>8. CASE ChooseAll
  <2>1. Failures' = Failures
    BY <1>8, SkipFails DEF ChooseAll, Failures, Failed, TInv
  <2> QED
    BY <1>8, <2>1 DEF ChooseAll, Quiet, fixed, Ended
<1>9. CASE TearDownTestSuite
  <2>1. ~ Ended /\ UNCHANGED <<fixed, failed>> /\ \E o \in Outcomes : Runs(o, "suiteEnd")
    BY <1>9 DEF TearDownTestSuite, Ended
  <2> QED
    BY <2>1, RunsRecorded DEF Pcs
<1>10. CASE EndSuite
  BY <1>10 DEF EndSuite, Quiet, Failures, Failed, fixed, history, Ended
<1>11. CASE AfterSuite
  <2>1. Failures' = Failures
    BY <1>11, SkipFails DEF AfterSuite, Failures, Failed, TInv
  <2> QED
    BY <1>11, <2>1 DEF AfterSuite, Quiet, fixed, Ended, AfterTests
<1>12. CASE PassOverTest
  BY <1>12 DEF PassOverTest, Quiet, Failures, Failed, fixed, history, Ended
<1>13. CASE StartTest
  BY <1>13 DEF StartTest, Quiet, Failures, Failed, fixed, history, Ended
<1>14. CASE TestsDone
  BY <1>14 DEF TestsDone, Quiet, Failures, Failed, fixed, history, Ended
<1>15. CASE CreateTest
  <2>1. ~ Ended /\ UNCHANGED <<fixed, failed>> /\ \E o \in Outcomes : Runs(o, "constructed")
    BY <1>15 DEF CreateTest, Ended
  <2> QED
    BY <2>1, RunsRecorded DEF Pcs
<1>16. CASE Constructed
  BY <1>16 DEF Constructed, Quiet, Failures, Failed, fixed, history, Ended
<1>17. CASE SetUp
  <2>1. ~ Ended /\ UNCHANGED <<fixed, failed>> /\ \E o \in Outcomes : Runs(o, "isSetUp")
    BY <1>17 DEF SetUp, Ended
  <2> QED
    BY <2>1, RunsRecorded DEF Pcs
<1>18. CASE IsSetUp
  BY <1>18 DEF IsSetUp, Quiet, Failures, Failed, fixed, history, Ended
<1>19. CASE TestBody
  <2>1. ~ Ended /\ UNCHANGED <<fixed, failed>> /\ \E o \in Outcomes : Runs(o, "tearDown")
    BY <1>19 DEF TestBody, Ended
  <2> QED
    BY <2>1, RunsRecorded DEF Pcs
<1>20. CASE TearDown
  <2>1. ~ Ended /\ UNCHANGED <<fixed, failed>> /\ \E o \in Outcomes : Runs(o, "delete")
    BY <1>20 DEF TearDown, Ended
  <2> QED
    BY <2>1, RunsRecorded DEF Pcs
<1>21. CASE DeleteSelf
  <2>1. ~ Ended /\ UNCHANGED <<fixed, failed>> /\ \E o \in Outcomes : Runs(o, "testEnd")
    BY <1>21 DEF DeleteSelf, Ended
  <2> QED
    BY <2>1, RunsRecorded DEF Pcs
<1>22. CASE EndTest
  BY <1>22 DEF EndTest, Quiet, Failures, Failed, fixed, history, Ended
<1>23. CASE AfterTest
  <2>1. Failures' = Failures
    BY <1>23, SkipFails DEF AfterTest, Failures, Failed, TInv
  <2> QED
    BY <1>23, <2>1 DEF AfterTest, Quiet, fixed, Ended
<1> QED
  BY <1>1, <1>2, <1>3, <1>4, <1>5, <1>6, <1>7, <1>8, <1>9, <1>10, <1>11, <1>12, <1>13, <1>14,
     <1>15, <1>16, <1>17, <1>18, <1>19, <1>20, <1>21, <1>22, <1>23 DEF Next

(* What was recorded before RUN_ALL_TESTS() is in the result of the program. *)
LEMMA InitStatus == Init => StatusInv
<1> SUFFICES ASSUME Init PROVE StatusInv
  OBVIOUS
<1>1. PICK b \in Before : results = [r \in Results |-> IF r = Unit THEN b ELSE {}]
                          /\ everFailed = (b \intersect {"nonfatal", "fatal"} # {})
  BY DEF Init
<1>2. \A r \in Results : Failed(r) <=> r = Unit /\ everFailed
  BY <1>1 DEF Failed
<1>3. Failures = IF everFailed THEN {Unit} ELSE {}
  BY <1>1, <1>2, ResultsApart DEF Failures
<1> QED
  BY <1>3, ResultsApart DEF Init, StatusInv, StatusTellsFailures, Ended

(* No step loses a failure. *)
LEMMA StepStatus ==
  ASSUME TInv, StatusInv, [Next]_vars
  PROVE  StatusInv'
<1>1. CASE StartIteration
  <2>1. Failures' = Failures \intersect {Unit}
    BY <1>1 DEF StartIteration, ClearNonAdHocTestResult, Failures, Failed
  <2>2. everFailed <=> failed \/ Failures' # {}
    BY <1>1, <2>1 DEF StartIteration, StatusInv, Ended, TInv, TypeOK
  <2> QED
    BY <1>1, <2>1, <2>2 DEF StartIteration, StatusInv, StatusTellsFailures, Ended, fixed
<1>2. CASE EndIteration
  <2>1. failed' <=> everFailed
    BY <1>2, UnitFailedAsksAll DEF EndIteration, FailedSoFar, StatusInv, Ended
  <2>2. Failures' = Failures
    BY <1>2 DEF EndIteration, Failures, Failed
  <2>3. i' # 0
    BY <1>2 DEF EndIteration, NextIteration, TInv, TypeOK
  <2> QED
    BY <1>2, <2>1, <2>2, <2>3 DEF EndIteration, StatusInv, StatusTellsFailures, Ended, fixed,
       history
<1>3. CASE Return
  <2>1. Failures' = Failures
    BY <1>3 DEF Return, Failures, Failed
  <2>2. flags.repeat # 0 => (failed <=> everFailed)
    BY <1>3 DEF Return, StatusInv
  <2> QED
    BY <1>3, <2>1, <2>2 DEF Return, StatusInv, StatusTellsFailures, Ended, fixed, history
<1>4. CASE Quiet
  BY <1>4 DEF Quiet, StatusInv, StatusTellsFailures, Ended, fixed
<1>5. CASE Recorded
  <2>1. PICK o \in Outcomes : Records(o)
    BY <1>5 DEF Recorded
  <2>2. CurrentResult \in Results /\ CurrentResult \notin Tests \ selected
    BY <2>1, CurrentResultIs DEF Records
  <2>3. (Failures \intersect (Tests \ selected) = {})'
    BY <2>1, <2>2 DEF StatusInv, Records, fixed
  <2>4. everFailed' <=> failed' \/ Failures' # {}
    BY <2>1 DEF StatusInv, Records
  <2> QED
    BY <2>1, <2>3, <2>4 DEF StatusInv, StatusTellsFailures, Ended, Records
<1>6. CASE UNCHANGED vars
  BY <1>6 DEF vars, fixed, control, history, StatusInv, StatusTellsFailures, Failures, Failed,
     Ended
<1> QED
  BY <1>1, <1>2, <1>3, <1>4, <1>5, <1>6, StepKinds

(* UnitTest::Run returns 0 exactly if no failure was recorded, in whichever   *)
(* iteration and result: clearing the results between iterations loses none.  *)
THEOREM StatusTold == Spec => []StatusTellsFailures
<1>1. Init => TInv /\ StatusInv
  BY InitTyped, InitStatus
<1>2. TInv /\ StatusInv /\ [Next]_vars => (TInv /\ StatusInv)'
  BY StepTyped, StepStatus
<1>3. StatusInv => StatusTellsFailures
  BY DEF StatusInv
<1> QED
  BY <1>1, <1>2, <1>3, PTL DEF Spec

--------------------------------------------------------------------------------
(* What is set up, and torn down *)

Environs(n) == {Environment(e) : e \in 1 .. n}

(* How many environments are set up at a place of the program: all while the   *)
(* suites run, and between iterations if they are kept.                       *)
EnvironsUp(p) ==
  IF p = "setUpEnvironment" THEN env - 1
  ELSE IF p = "tearDownEnvironment" THEN env
  ELSE IF \/ p = "returned"
          \/ p = "iterationEnd" /\ (selected = {} \/ i = flags.repeat - 1 \/ Recreate)
          \/ p = "iterate" /\ (selected = {} \/ i \in {0, flags.repeat} \/ Recreate)
  THEN 0 ELSE Environments

SuitesUp(p) == IF p \in InSuite \ {"setUpTestSuite", "suiteEnd"} THEN {Suite(suite)} ELSE {}
TestsUp(p)  == IF p \in {"isSetUp", "body", "tearDown"} THEN {Test} ELSE {}

(* Everything that is up is what a place of the program has up, and there is   *)
(* an object between the constructor and the destructor.                      *)
UpAt(p) ==
  /\ up = Environs(EnvironsUp(p)) \union SuitesUp(p) \union TestsUp(p)
  /\ object => p \in {"constructed", "setUp", "isSetUp", "body", "tearDown", "delete"}
  /\ p \in {"setUp", "isSetUp", "body", "tearDown", "delete"} => object
  /\ p \in InSuite => suite \in Suites
  /\ p \in InTest => Test \in Tests
  /\ p \notin {"iterate", "iterationEnd", "returned"} => selected # {}
  /\ p = "tearDownEnvironment" => env \in 1 .. Environments /\ TearDownDue

Places == Pcs \ {"aborted", "caught"}

(* An exception that ends the program leaves up what was up where it would     *)
(* have gone on.                                                              *)
NestInv ==
  /\ \E p \in Places : UpAt(p) /\ (pc \in Places => p = pc)
  /\ pc = "constructed" /\ ~ object => HasFatalFailure(Test)

(* The environments are set up and torn down one by one. *)
LEMMA EnvironsGrow ==
  /\ Environs(0) = {}
  /\ \A n \in Nat : Environs(n + 1) = Environs(n) \union {Environment(n + 1)}
  /\ \A n \in Nat : Environs(n) = Environs(n + 1) \ {Environment(n + 1)}
<1>1. Environs(0) = {}
  BY DEF Environs
<1>2. ASSUME NEW n \in Nat
      PROVE  /\ Environs(n + 1) = Environs(n) \union {Environment(n + 1)}
             /\ Environment(n + 1) \notin Environs(n)
  <2>1. 1 .. n + 1 = (1 .. n) \union {n + 1}
    OBVIOUS
  <2>2. \A e \in 1 .. n : Environment(e) # Environment(n + 1)
    BY DEF Environment
  <2> QED
    BY <2>1, <2>2 DEF Environs
<1> QED
  BY <1>1, <1>2

(* Environments, suites and tests are different things. *)
LEMMA UpApart ==
  /\ \A n \in 0 .. Environments : Environs(n) \intersect Results = {}
  /\ \A s \in Suites : Suite(s) \in Results /\ Suite(s) \notin Tests
  /\ Tests \subseteq Results
BY ResultsApart, TestProgramAssumption DEF Environs

(* How many environments are up is as many as there are, or fewer. *)
LEMMA EnvironsUpBounded ==
  ASSUME TInv, NEW p \in Places, pc \in Places => p = pc, UpAt(p)
  PROVE  p \notin {"setUpEnvironment", "tearDownEnvironment"} => EnvironsUp(p) \in {0, Environments}
BY DEF EnvironsUp, Places, Pcs

(* Set-ups nest wherever the program is or ended. *)
LEMMA PlacesNest ==
  ASSUME TInv, NestInv
  PROVE  LifetimesNest
<1>1. PICK p \in Places : UpAt(p) /\ (pc \in Places => p = pc)
  BY DEF NestInv
<1>2. \A s1, s2 \in Suites : Suite(s1) = Suite(s2) => s1 = s2
  BY DEF Suite
<1>3. CASE p \in {"setUpEnvironment", "tearDownEnvironment"}
  <2>1. up = Environs(EnvironsUp(p)) /\ ~ object /\ p \notin {"test", "suite", "returned"}
    BY <1>1, <1>3 DEF UpAt, SuitesUp, TestsUp, InSuite, InTest
  <2>2. \A e \in Nat : Environment(e) \notin Tests /\ \A s \in Suites : Suite(s) # Environment(e)
    BY TestProgramAssumption DEF Environment, Suite, Suites, Tests, TestsIn
  <2>3. up \intersect Tests = {} /\ {s \in Suites : Suite(s) \in up} = {}
    BY <2>1, <2>2 DEF Environs
  <2> QED
    BY <1>1, <2>1, <2>3 DEF LifetimesNest, Places, Pcs
<1>4. CASE p \notin {"setUpEnvironment", "tearDownEnvironment"}
  <2>1. EnvironsUp(p) \in {0, Environments}
    BY <1>1, <1>4, EnvironsUpBounded
  <2>2. Environs(EnvironsUp(p)) \intersect Results = {}
    BY <2>1, UpApart, TestProgramAssumption
  <2>3. up \intersect Tests = TestsUp(p)
    BY <1>1, <2>2, UpApart DEF UpAt, SuitesUp, TestsUp, InSuite, InTest
  <2>4. {s \in Suites : Suite(s) \in up} = IF p \in InSuite \ {"setUpTestSuite",
     "suiteEnd"} THEN {suite} ELSE {}
    BY <1>1, <1>2, <2>2, UpApart DEF UpAt, SuitesUp, TestsUp, InTest
  <2>5. p \in InSuite => \A e \in 1 .. Environments : Environment(e) \in up
    BY <1>1 DEF UpAt, EnvironsUp, Environs, InSuite, InTest
  <2>6. p \in {"isSetUp", "body", "tearDown"} => object
    BY <1>1 DEF UpAt
  <2>7. object => p \in InSuite \ {"setUpTestSuite", "suiteEnd"}
    BY <1>1 DEF UpAt, InSuite, InTest
  <2>8. pc = "returned" => up = {}
    BY <1>1, EnvironsGrow DEF UpAt, EnvironsUp, SuitesUp, TestsUp, InSuite, InTest, Places, Pcs
  <2>9. pc = "test" => up \intersect Tests = {} /\ ~ object
    BY <1>1, <2>3 DEF UpAt, TestsUp, Places, Pcs
  <2>10. pc = "suite" => {s \in Suites : Suite(s) \in up} = {}
    BY <1>1, <2>4 DEF Places, Pcs, InSuite, InTest
  <2> QED
    BY <2>3, <2>4, <2>5, <2>6, <2>7, <2>8, <2>9, <2>10 DEF LifetimesNest, TestsUp, InSuite,
       InTest
<1> QED
  BY <1>3, <1>4

(* Nothing is set up at the start. *)
LEMMA InitNest == Init => NestInv
<1> SUFFICES ASSUME Init PROVE NestInv
  OBVIOUS
<1>1. UpAt("iterate")
  BY EnvironsGrow DEF Init, UpAt, EnvironsUp, SuitesUp, TestsUp, InSuite, InTest
<1> QED
  BY <1>1 DEF Init, NestInv, Places, Pcs

(* Every step leads to what the next place has up. *)
LEMMA StepNest ==
  ASSUME TInv, NestInv, Next
  PROVE  NestInv'
<1>a. pc \in Places /\ UpAt(pc)
  <2>1. pc \in Places
    BY DEF TInv, TypeOK, Next, Places, StartIteration, SetUpEnvironment, ChooseTests,
           TearDownEnvironment, EndIteration, Return, PassOverSuite, StartSuite, SuitesDone,
           SetUpTestSuite, ChooseAll, TearDownTestSuite, EndSuite, AfterSuite, PassOverTest,
           StartTest, TestsDone, CreateTest, Constructed, SetUp, IsSetUp, TestBody, TearDown,
           DeleteSelf, EndTest, AfterTest
  <2> QED
    BY <2>1 DEF NestInv
<1>b. /\ Environs(Environments) \intersect Results = {}
      /\ suite \in Suites => Suite(suite) \in Results /\ Suite(suite) \notin Tests
      /\ Tests \subseteq Results
  BY UpApart, TestProgramAssumption
<1>c. selected \subseteq Tests
  BY DEF TInv, TypeOK
<1>1. CASE StartIteration
  <2>1. pc' \in {"iterationEnd", "setUpEnvironment", "choose"} /\ pc = "iterate"
    BY <1>1 DEF StartIteration
  <2>2. flags.repeat \in Int
    BY TestProgramAssumption DEF TInv, TypeOK, FlagType
  <2>3. ASSUME NEW q, q = pc'
        PROVE  UpAt(q)'
    BY <1>1, <2>3, <1>a, <2>1, <2>2, EnvironsGrow, TestProgramAssumption DEF StartIteration,
       UpAt, TearDownDue, EnvironsUp, SuitesUp, TestsUp, InSuite, InTest, fixed, Recreate,
       TInv, TypeOK
  <2> QED
    BY <2>1, <2>3 DEF NestInv, Places, Pcs
<1>2. CASE SetUpEnvironment
  <2>1. pc = "setUpEnvironment" /\ env \in 1 .. Environments
    BY <1>2 DEF SetUpEnvironment, TInv, Where
  <2>2. Environs(env) = Environs(env - 1) \union {Environment(env)}
    BY <2>1, EnvironsGrow, TestProgramAssumption, env - 1 \in Nat, (env - 1) + 1 = env
  <2>3. CASE env < Environments
    <3>1. UpAt("setUpEnvironment")'
      BY <1>2, <1>a, <2>1, <2>2, <2>3, TestProgramAssumption DEF SetUpEnvironment, UpAt,
         TearDownDue, EnvironsUp, SuitesUp, TestsUp, InSuite, InTest, fixed, Test, Recreate
    <3>2. pc' \in {"aborted", "caught", "setUpEnvironment"}
      BY <1>2, <2>1, <2>3 DEF SetUpEnvironment, RunsUnguarded, Runs
    <3> QED
      BY <3>1, <3>2 DEF NestInv, Places, Pcs
  <2>4. CASE ~ env < Environments
    <3>1. env = Environments
      BY <2>1, <2>4, TestProgramAssumption
    <3>2. UpAt("choose")'
      BY <1>2, <1>a, <2>1, <2>2, <3>1 DEF SetUpEnvironment, UpAt, TearDownDue, EnvironsUp,
         SuitesUp, TestsUp, InSuite, InTest, fixed, Test, Recreate
    <3>3. pc' \in {"aborted", "caught", "choose"}
      BY <1>2, <2>1, <2>4 DEF SetUpEnvironment, RunsUnguarded, Runs
    <3> QED
      BY <3>2, <3>3 DEF NestInv, Places, Pcs
  <2> QED
    BY <2>3, <2>4
<1>3. CASE ChooseTests
  <2>1. pc' \in {"suite", AfterTests}
    BY <1>3 DEF ChooseTests
  <2>2. ASSUME NEW q, q = AfterTests
        PROVE  UpAt(q)' /\ q \in {"tearDownEnvironment", "iterationEnd"}
    <3>1. env' = Environments /\ UNCHANGED <<flags, selected, i>> /\ flags.repeat \in Int
      BY <1>3, TestProgramAssumption DEF ChooseTests, TInv, TypeOK, FlagType, Where, InSuite,
         InTest, fixed
    <3>2. selected # {}
      BY <1>3, <1>a DEF ChooseTests, UpAt
    <3>3. up' = up /\ up = Environs(Environments) /\ object' = object /\ ~ object
      BY <1>3, <1>a DEF ChooseTests, UpAt, TearDownDue, EnvironsUp, SuitesUp, TestsUp,
         InSuite, InTest, history
    <3>4. CASE TearDownDue
      BY <2>2, <3>1, <3>2, <3>3, <3>4, TestProgramAssumption DEF AfterTests, UpAt,
         TearDownDue, EnvironsUp, SuitesUp, TestsUp, InSuite, InTest, Recreate
    <3>5. CASE ~ TearDownDue
      BY <2>2, <3>1, <3>2, <3>3, <3>5, TestProgramAssumption DEF AfterTests, UpAt,
         TearDownDue, EnvironsUp, SuitesUp, TestsUp, InSuite, InTest, Recreate
    <3> QED
      BY <3>4, <3>5
  <2>3. UpAt("suite")'
    BY <1>3, <1>a, <1>b, <1>c DEF ChooseTests, UpAt, TearDownDue, EnvironsUp, SuitesUp,
       TestsUp, InSuite, InTest, fixed, history, Recreate, Test
  <2> QED
    BY <2>1, <2>2, <2>3 DEF NestInv, Places, Pcs
<1>4. CASE TearDownEnvironment
  <2>1. pc = "tearDownEnvironment" /\ env \in 1 .. Environments
    BY <1>4 DEF TearDownEnvironment, TInv, Where
  <2>2. Environs(env - 1) = Environs(env) \ {Environment(env)}
    BY <2>1, EnvironsGrow, TestProgramAssumption, env - 1 \in Nat, (env - 1) + 1 = env
  <2>3. CASE env > 1
    <3>1. UpAt("tearDownEnvironment")'
      BY <1>4, <1>a, <2>1, <2>2, <2>3, TestProgramAssumption DEF TearDownEnvironment, UpAt,
         TearDownDue, EnvironsUp, SuitesUp, TestsUp, InSuite, InTest, fixed, Test, Recreate
    <3>2. pc' \in {"aborted", "caught", "tearDownEnvironment"}
      BY <1>4, <2>1, <2>3 DEF TearDownEnvironment, RunsUnguarded, Runs
    <3> QED
      BY <3>1, <3>2 DEF NestInv, Places, Pcs
  <2>4. CASE ~ env > 1
    <3>1. env - 1 = 0
      BY <2>1, <2>4, TestProgramAssumption
    <3>2. UpAt("iterationEnd")'
      BY <1>4, <1>a, <2>1, <2>2, <3>1, EnvironsGrow DEF TearDownEnvironment, UpAt,
         TearDownDue, EnvironsUp, SuitesUp, TestsUp, InSuite, InTest, fixed, Test, Recreate
    <3>3. pc' \in {"aborted", "caught", "iterationEnd"}
      BY <1>4, <2>1, <2>4 DEF TearDownEnvironment, RunsUnguarded, Runs
    <3> QED
      BY <3>2, <3>3 DEF NestInv, Places, Pcs
  <2> QED
    BY <2>3, <2>4
<1>5. CASE EndIteration
  <2>1. flags.repeat \in Int /\ i \in Nat
    BY TestProgramAssumption DEF TInv, TypeOK, FlagType
  <2>2. UpAt("iterate")'
    BY <1>5, <1>a, <2>1 DEF EndIteration, NextIteration, UpAt, TearDownDue, EnvironsUp,
       SuitesUp, TestsUp, InSuite, InTest, fixed, history, Recreate
  <2> QED
    BY <1>5, <2>2 DEF EndIteration, NestInv, Places, Pcs
<1>6. CASE Return
  <2>1. UpAt("returned")'
    BY <1>6, <1>a, <1>b, <1>c DEF Return, UpAt, TearDownDue, EnvironsUp, SuitesUp, TestsUp,
       InSuite, InTest, fixed, history, Recreate, Test
  <2> QED
    BY <1>6, <2>1 DEF Return, NestInv, Places, Pcs
<1>7. CASE PassOverSuite
  <2>1. UpAt("suite")'
    BY <1>7, <1>a, <1>b, <1>c DEF PassOverSuite, UpAt, TearDownDue, EnvironsUp, SuitesUp,
       TestsUp, InSuite, InTest, fixed, history, Recreate, Test
  <2> QED
    BY <1>7, <2>1 DEF PassOverSuite, NestInv, Places, Pcs
<1>8. CASE StartSuite
  <2>1. UpAt("setUpTestSuite")'
    BY <1>8, <1>a, <1>b, <1>c DEF StartSuite, UpAt, TearDownDue, EnvironsUp, SuitesUp,
       TestsUp, InSuite, InTest, fixed, history, Recreate, Test
  <2> QED
    BY <1>8, <2>1 DEF StartSuite, NestInv, Places, Pcs
<1>9. CASE SuitesDone
  <2>1. pc' \in {AfterTests}
    BY <1>9 DEF SuitesDone
  <2>2. ASSUME NEW q, q = AfterTests
        PROVE  UpAt(q)' /\ q \in {"tearDownEnvironment", "iterationEnd"}
    <3>1. env' = Environments /\ UNCHANGED <<flags, selected, i>> /\ flags.repeat \in Int
      BY <1>9, TestProgramAssumption DEF SuitesDone, TInv, TypeOK, FlagType, Where, InSuite,
         InTest, fixed
    <3>2. selected # {}
      BY <1>9, <1>a DEF SuitesDone, UpAt
    <3>3. up' = up /\ up = Environs(Environments) /\ object' = object /\ ~ object
      BY <1>9, <1>a DEF SuitesDone, UpAt, TearDownDue, EnvironsUp, SuitesUp, TestsUp, InSuite,
         InTest, history
    <3>4. CASE TearDownDue
      BY <2>2, <3>1, <3>2, <3>3, <3>4, TestProgramAssumption DEF AfterTests, UpAt,
         TearDownDue, EnvironsUp, SuitesUp, TestsUp, InSuite, InTest, Recreate
    <3>5. CASE ~ TearDownDue
      BY <2>2, <3>1, <3>2, <3>3, <3>5, TestProgramAssumption DEF AfterTests, UpAt,
         TearDownDue, EnvironsUp, SuitesUp, TestsUp, InSuite, InTest, Recreate
    <3> QED
      BY <3>4, <3>5
  <2> QED
    BY <2>1, <2>2 DEF NestInv, Places, Pcs
<1>10. CASE SetUpTestSuite
  <2>1. UpAt("chooseAll")'
    BY <1>10, <1>a, <1>b, <1>c DEF SetUpTestSuite, UpAt, TearDownDue, EnvironsUp, SuitesUp,
       TestsUp, InSuite, InTest, fixed, Recreate, Test
  <2>2. pc' \in {"aborted", "chooseAll"}
    BY <1>10 DEF SetUpTestSuite, Runs
  <2> QED
    BY <2>1, <2>2 DEF NestInv, Places, Pcs
<1>11. CASE ChooseAll
  <2>1. pc' \in {"tearDownTestSuite", "test"}
    BY <1>11 DEF ChooseAll
  <2>2. ASSUME NEW q, q = pc'
        PROVE  UpAt(q)'
    BY <1>11, <2>2, <1>a, <1>b, <1>c, <2>1 DEF ChooseAll, UpAt, TearDownDue, EnvironsUp,
       SuitesUp, TestsUp, InSuite, InTest, fixed, Recreate, Test
  <2> QED
    BY <2>1, <2>2 DEF NestInv, Places, Pcs
<1>12. CASE TearDownTestSuite
  <2>1. UpAt("suiteEnd")'
    BY <1>12, <1>a, <1>b, <1>c DEF TearDownTestSuite, UpAt, TearDownDue, EnvironsUp, SuitesUp,
       TestsUp, InSuite, InTest, fixed, Recreate, Test
  <2>2. pc' \in {"aborted", "suiteEnd"}
    BY <1>12 DEF TearDownTestSuite, Runs
  <2> QED
    BY <2>1, <2>2 DEF NestInv, Places, Pcs
<1>13. CASE EndSuite
  <2>1. UpAt("afterSuite")'
    BY <1>13, <1>a, <1>b, <1>c DEF EndSuite, UpAt, TearDownDue, EnvironsUp, SuitesUp, TestsUp,
       InSuite, InTest, fixed, history, Recreate, Test
  <2> QED
    BY <1>13, <2>1 DEF EndSuite, NestInv, Places, Pcs
<1>14. CASE AfterSuite
  <2>1. pc' \in {"suite", AfterTests}
    BY <1>14 DEF AfterSuite
  <2>2. ASSUME NEW q, q = AfterTests
        PROVE  UpAt(q)' /\ q \in {"tearDownEnvironment", "iterationEnd"}
    <3>1. env' = Environments /\ UNCHANGED <<flags, selected, i>> /\ flags.repeat \in Int
      BY <1>14, TestProgramAssumption DEF AfterSuite, TInv, TypeOK, FlagType, Where, InSuite,
         InTest, fixed
    <3>2. selected # {}
      BY <1>14, <1>a DEF AfterSuite, UpAt
    <3>3. up' = up /\ up = Environs(Environments) /\ object' = object /\ ~ object
      BY <1>14, <1>a DEF AfterSuite, UpAt, TearDownDue, EnvironsUp, SuitesUp, TestsUp,
         InSuite, InTest, history
    <3>4. CASE TearDownDue
      BY <2>2, <3>1, <3>2, <3>3, <3>4, TestProgramAssumption DEF AfterTests, UpAt,
         TearDownDue, EnvironsUp, SuitesUp, TestsUp, InSuite, InTest, Recreate
    <3>5. CASE ~ TearDownDue
      BY <2>2, <3>1, <3>2, <3>3, <3>5, TestProgramAssumption DEF AfterTests, UpAt,
         TearDownDue, EnvironsUp, SuitesUp, TestsUp, InSuite, InTest, Recreate
    <3> QED
      BY <3>4, <3>5
  <2>3. UpAt("suite")'
    BY <1>14, <1>a, <1>b, <1>c DEF AfterSuite, UpAt, TearDownDue, EnvironsUp, SuitesUp,
       TestsUp, InSuite, InTest, fixed, history, Recreate, Test
  <2> QED
    BY <2>1, <2>2, <2>3 DEF NestInv, Places, Pcs
<1>15. CASE PassOverTest
  <2>1. UpAt("test")'
    BY <1>15, <1>a, <1>b, <1>c DEF PassOverTest, UpAt, TearDownDue, EnvironsUp, SuitesUp,
       TestsUp, InSuite, InTest, fixed, history, Recreate, Test
  <2> QED
    BY <1>15, <2>1 DEF PassOverTest, NestInv, Places, Pcs
<1>16. CASE StartTest
  <2>1. UpAt("construct")'
    BY <1>16, <1>a, <1>b, <1>c DEF StartTest, UpAt, TearDownDue, EnvironsUp, SuitesUp,
       TestsUp, InSuite, InTest, fixed, history, Recreate, Test
  <2> QED
    BY <1>16, <2>1 DEF StartTest, NestInv, Places, Pcs
<1>17. CASE TestsDone
  <2>1. UpAt("tearDownTestSuite")'
    BY <1>17, <1>a, <1>b, <1>c DEF TestsDone, UpAt, TearDownDue, EnvironsUp, SuitesUp,
       TestsUp, InSuite, InTest, fixed, history, Recreate, Test
  <2> QED
    BY <1>17, <2>1 DEF TestsDone, NestInv, Places, Pcs
<1>18. CASE CreateTest
  <2>1. UpAt("constructed")'
    BY <1>18, <1>a, <1>b, <1>c DEF CreateTest, UpAt, TearDownDue, EnvironsUp, SuitesUp,
       TestsUp, InSuite, InTest, fixed, Recreate, Test
  <2>2. PICK o \in Outcomes : Runs(o, "constructed") /\ object' = ("throw" \notin o)
    BY <1>18 DEF CreateTest
  <2>3. CurrentResult = Test /\ Test \in Results /\ Test' = Test /\ pc # "aborted"
    BY <1>18, <1>b, <1>c, CurrentResultIs DEF CreateTest, TInv, Where, InTest, Test
  <2>4. (pc = "constructed" /\ ~ object => HasFatalFailure(Test))'
    <3>1. ASSUME pc' = "constructed", ~ object'
          PROVE  "fatal" \in Parts(o)
      BY <2>2, <3>1 DEF Runs, Escapes, Parts
    <3>2. results'[Test] = results[Test] \union Parts(o)
      BY <2>2, <2>3 DEF Runs, TInv, TypeOK
    <3> QED
      BY <2>3, <3>1, <3>2 DEF HasFatalFailure
  <2> QED
    BY <2>1, <2>2, <2>4 DEF NestInv, Places, Pcs, Runs
<1>19. CASE Constructed
  <2>1. pc' \in {"setUp", "delete", "testEnd"} /\ pc = "constructed"
    BY <1>19 DEF Constructed
  <2>2. pc' = "setUp" => object
    BY <1>19 DEF Constructed, NestInv, Sound
  <2>3. pc' = "delete" => object
    BY <1>19 DEF Constructed, NestInv, Sound
  <2>4. pc' = "testEnd" => ~ object
    BY <1>19 DEF Constructed
  <2>5. ASSUME NEW q, q = pc'
        PROVE  UpAt(q)'
    BY <1>19, <2>5, <1>a, <2>1, <2>2, <2>3, <2>4 DEF Constructed, UpAt, TearDownDue,
       EnvironsUp, SuitesUp, TestsUp, InSuite, InTest, fixed, history, Recreate, Test
  <2> QED
    BY <2>1, <2>5 DEF NestInv, Places, Pcs
<1>20. CASE SetUp
  <2>1. UpAt("isSetUp")'
    BY <1>20, <1>a, <1>b, <1>c DEF SetUp, UpAt, TearDownDue, EnvironsUp, SuitesUp, TestsUp,
       InSuite, InTest, fixed, Recreate, Test
  <2>2. pc' \in {"aborted", "isSetUp"}
    BY <1>20 DEF SetUp, Runs
  <2> QED
    BY <2>1, <2>2 DEF NestInv, Places, Pcs
<1>21. CASE IsSetUp
  <2>1. pc' \in {"body", "tearDown"}
    BY <1>21 DEF IsSetUp
  <2>2. ASSUME NEW q, q = pc'
        PROVE  UpAt(q)'
    BY <1>21, <2>2, <1>a, <2>1 DEF IsSetUp, UpAt, TearDownDue, EnvironsUp, SuitesUp, TestsUp,
       InSuite, InTest, fixed, history, Recreate, Test
  <2> QED
    BY <2>1, <2>2 DEF NestInv, Places, Pcs
<1>22. CASE TestBody
  <2>1. UpAt("tearDown")'
    BY <1>22, <1>a, <1>b, <1>c DEF TestBody, UpAt, TearDownDue, EnvironsUp, SuitesUp, TestsUp,
       InSuite, InTest, fixed, Recreate, Test
  <2>2. pc' \in {"aborted", "tearDown"}
    BY <1>22 DEF TestBody, Runs
  <2> QED
    BY <2>1, <2>2 DEF NestInv, Places, Pcs
<1>23. CASE TearDown
  <2>1. UpAt("delete")'
    BY <1>23, <1>a, <1>b, <1>c DEF TearDown, UpAt, TearDownDue, EnvironsUp, SuitesUp, TestsUp,
       InSuite, InTest, fixed, Recreate, Test
  <2>2. pc' \in {"aborted", "delete"}
    BY <1>23 DEF TearDown, Runs
  <2> QED
    BY <2>1, <2>2 DEF NestInv, Places, Pcs
<1>24. CASE DeleteSelf
  <2>1. UpAt("testEnd")'
    BY <1>24, <1>a, <1>b, <1>c DEF DeleteSelf, UpAt, TearDownDue, EnvironsUp, SuitesUp,
       TestsUp, InSuite, InTest, fixed, Recreate, Test
  <2>2. pc' \in {"aborted", "testEnd"}
    BY <1>24 DEF DeleteSelf, Runs
  <2> QED
    BY <2>1, <2>2 DEF NestInv, Places, Pcs
<1>25. CASE EndTest
  <2>1. UpAt("afterTest")'
    BY <1>25, <1>a, <1>b, <1>c DEF EndTest, UpAt, TearDownDue, EnvironsUp, SuitesUp, TestsUp,
       InSuite, InTest, fixed, history, Recreate, Test
  <2> QED
    BY <1>25, <2>1 DEF EndTest, NestInv, Places, Pcs
<1>26. CASE AfterTest
  <2>1. pc' \in {"tearDownTestSuite", "test"}
    BY <1>26 DEF AfterTest
  <2>2. ASSUME NEW q, q = pc'
        PROVE  UpAt(q)'
    BY <1>26, <2>2, <1>a, <2>1 DEF AfterTest, UpAt, TearDownDue, EnvironsUp, SuitesUp,
       TestsUp, InSuite, InTest, fixed, Recreate, Test
  <2> QED
    BY <2>1, <2>2 DEF NestInv, Places, Pcs
<1> QED
  BY <1>1, <1>2, <1>3, <1>4, <1>5, <1>6, <1>7, <1>8, <1>9, <1>10, <1>11, <1>12, <1>13, <1>14,
     <1>15, <1>16, <1>17, <1>18, <1>19, <1>20, <1>21, <1>22, <1>23, <1>24, <1>25,
     <1>26 DEF Next

(* What is set up is torn down, the test inside its suite and the suite inside *)
(* the environments, whatever user code does and wherever the program ends     *)
(* (Test::Run, TestSuite::Run, RunAllTests).                                  *)
THEOREM Nested == Spec => []LifetimesNest
<1>1. Init => TInv /\ NestInv
  BY InitTyped, InitNest
<1>2. TInv /\ NestInv /\ [Next]_vars => (TInv /\ NestInv)'
  <2>1. ASSUME TInv, NestInv, UNCHANGED vars
        PROVE  NestInv'
    BY <2>1 DEF NestInv, vars, fixed, control, history, UpAt, TearDownDue, EnvironsUp, SuitesUp,
           TestsUp, Recreate, HasFatalFailure, Test
  <2> QED
    BY <2>1, StepTyped, StepNest
<1>3. TInv /\ NestInv => LifetimesNest
  BY PlacesNest
<1> QED
  BY <1>1, <1>2, <1>3, PTL DEF Spec

--------------------------------------------------------------------------------
(* What an iteration runs *)

(* Where the suites run, and before that in the same iteration *)
During == InSuite \union {"suite", "afterSuite"}
Starting == {"setUpEnvironment", "choose"}

(* The tests that have begun, or were passed over, when the program is at p,   *)
(* and the suites that something may be charged to                            *)
Begun(p, t) ==
  p \in During /\ \/ t[1] < suite
                  \/ t[1] = suite /\ p \in {"tearDownTestSuite", "suiteEnd", "afterSuite"}
                  \/ t[1] = suite /\ p = "test" /\ t[2] < test
                  \/ t[1] = suite /\ p \in InTest \union {"afterTest"} /\ t[2] <= test
Opened(p, s) ==
  p \in During /\ \/ s < suite
                  \/ s = suite /\ p \notin {"suite", "setUpTestSuite"}

(* The listeners have heard of the selected tests that have begun. *)
Heard(p) == \A t \in Tests : started[t] = IF t \in selected /\ Begun(p, t) THEN 1 ELSE 0

(* In the end of all, or of none where no test was run *)
HeardOfAll == \/ \A t \in Tests : started[t] = IF t \in selected THEN 1 ELSE 0
              \/ \A t \in Tests : started[t] = 0

(* What has not begun has no result yet. *)
Untouched(p) ==
  /\ \A t \in Tests : ~ Begun(p, t) => results[t] = {}
  /\ \A s \in Suites : ~ Opened(p, s) => results[Suite(s)] = {}
  /\ p = "construct" => results[Test] = {}

(* With fail_fast, what has failed is what is not over yet. *)
FailuresHere(p) ==
  Failures \ {Unit} \subseteq
    IF p = "chooseAll" THEN {Suite(suite)}
    ELSE IF p \in (InTest \ {"construct"}) \union {"afterTest"} THEN {Test}
    ELSE IF p \in {"tearDownTestSuite", "suiteEnd", "afterSuite"} THEN {Suite(suite)} \union TestsIn(suite)
    ELSE {}

IterInv ==
  /\ pc \in Starting \union During => Heard(pc) /\ Untouched(pc) /\ (flags.failFast => FailuresHere(pc))
  /\ pc \in {"tearDownEnvironment", "iterationEnd"} => HeardOfAll

(* A test is the pair of its suite and its number. *)
LEMMA TestsArePairs ==
  /\ \A t \in Tests : t[1] \in Suites /\ t[2] \in 1 .. TestCount[t[1]] /\ t = <<t[1], t[2]>>
  /\ \A s \in Suites : TestsIn(s) = {t \in Tests : t[1] = s}
  /\ \A s \in Suites : s \in Nat /\ TestCount[s] \in Nat
<1>1. \A s \in Suites : s \in Nat /\ TestCount[s] \in Nat
  BY TestProgramAssumption DEF Suites
<1>2. \A s \in Suites : \A t \in TestsIn(s) : t[1] = s /\ t[2] \in 1 .. TestCount[s] /\ t = <<t[1],
   t[2]>>
  BY DEF TestsIn
<1> QED
  BY <1>1, <1>2 DEF Tests

(* User code changes no other result than the current one. *)
LEMMA RunsChanges ==
  ASSUME TInv, pc # "aborted", NEW o, NEW next, Runs(o, next)
  PROVE  \A r \in Results : r # CurrentResult => results'[r] = results[r]
BY CurrentResultIs DEF Runs, TInv, TypeOK

(* Skipping tests is heard of, and gives those that are selected a result. *)
LEMMA SkipChanges ==
  ASSUME TypeOK, NEW ts, SkipTests(ts)
  PROVE  /\ \A r \in Results : r \notin ts \intersect selected => results'[r] = results[r]
         /\ \A t \in Tests : started'[t] = IF t \in ts \intersect selected THEN started[t] + 1 ELSE started[t]
         /\ Failures' = Failures
BY SkipFails DEF TypeOK, SkipTests

(* An iteration begins with nothing heard of and no results. *)
LEMMA StartIterates ==
  ASSUME TInv, StartIteration
  PROVE  IterInv'
<1>1. pc' \in {"iterationEnd"} \union Starting
  BY DEF StartIteration, Starting
<1>2. \A t \in Tests : started'[t] = 0
  BY DEF StartIteration
<1>3. \A r \in Results : r # Unit => results'[r] = {}
  BY DEF StartIteration, ClearNonAdHocTestResult
<1>4. Failures' \subseteq {Unit}
  BY <1>3 DEF Failures, Failed
<1>5. HeardOfAll'
  BY <1>2 DEF HeardOfAll
<1>6. \A q \in Starting : q \notin During /\ q # "construct"
  BY DEF Starting, During, InSuite, InTest
<1>7. ASSUME NEW q \in Starting
      PROVE  Heard(q)' /\ Untouched(q)' /\ FailuresHere(q)'
  BY <1>2, <1>3, <1>4, <1>6, ResultsApart DEF Heard, Untouched, Begun, FailuresHere, InSuite
<1> QED
  BY <1>1, <1>5, <1>6, <1>7 DEF IterInv, Starting, During, InSuite, InTest

(* At the end of the tests all have been heard of. *)
LEMMA EndsHeard ==
  ASSUME HeardOfAll', pc' = AfterTests
  PROVE  IterInv'
BY DEF IterInv, AfterTests, Starting, During, InSuite, InTest

(* What user code is charged to has begun, and nothing else is changed. *)
LEMMA RunsLeaves ==
  ASSUME NEW p, NEW q, q # "construct", NEW cur, Untouched(p),
         \A r \in Results : r # cur => results'[r] = results[r],
         \A t \in Tests : ~ Begun(q, t)' => ~ Begun(p, t) /\ t # cur,
         \A s \in Suites : ~ Opened(q, s)' => ~ Opened(p, s) /\ Suite(s) # cur
  PROVE  Untouched(q)'
BY ResultsApart DEF Untouched

(* Steps inside suites *)
LEMMA InnerIterates ==
  ASSUME TInv, StatusInv, IterInv,
         \/ SetUpTestSuite \/ ChooseAll \/ TearDownTestSuite \/ PassOverTest \/ StartTest
         \/ TestsDone \/ CreateTest \/ Constructed \/ SetUp \/ IsSetUp \/ TestBody \/ TearDown
         \/ DeleteSelf \/ EndTest \/ AfterTest
  PROVE  IterInv'
<1>a. /\ selected \subseteq Tests /\ test \in Nat /\ suite \in Nat
      /\ flags.failFast \in BOOLEAN
  BY TestProgramAssumption DEF TInv, TypeOK, FlagType
<1>b. pc \in InSuite /\ suite \in Suites
  BY DEF TInv, Where, InSuite, InTest, SetUpTestSuite, ChooseAll, TearDownTestSuite,
     PassOverTest,
         StartTest, TestsDone, CreateTest, Constructed, SetUp, IsSetUp, TestBody, TearDown,
         DeleteSelf, EndTest, AfterTest
<1>c. Heard(pc) /\ Untouched(pc) /\ (flags.failFast => FailuresHere(pc))
  BY <1>b DEF IterInv, During
<1>d. pc \in InTest \union {"afterTest"} => Test \in TestsIn(suite)
  BY <1>a, <1>b, TestsArePairs DEF TInv, Where, Test
<1>1. CASE SetUpTestSuite
  <2>1. PICK o \in Outcomes : Runs(o, "chooseAll")
    BY <1>1 DEF SetUpTestSuite
  <2>2. pc # "aborted" /\ CurrentResult = Suite(suite) /\ CurrentResult \in Results
    BY <1>1, CurrentResultIs DEF SetUpTestSuite, During, InSuite, InTest
  <2>3. \A r \in Results : r # Suite(suite) => results'[r] = results[r]
    BY <2>1, <2>2, RunsChanges
  <2>4. Failures' \subseteq Failures \union {Suite(suite)}
    BY <2>1, <2>2, RunsFails
  <2>5. pc' \in {"aborted", "chooseAll"}
    BY <2>1 DEF Runs
  <2>6. Heard("chooseAll")'
    BY <1>1, <1>a, <1>b, <1>c DEF SetUpTestSuite, Heard, Begun, During, InSuite, InTest, fixed
  <2>7. \A t \in Tests : ~ Begun("chooseAll", t)' => ~ Begun(pc, t) /\ t # Suite(suite)
    BY <1>1, <1>a, <1>b, ResultsApart, TestsArePairs DEF SetUpTestSuite, Begun, Test, During,
       InSuite, InTest
  <2>8. \A s \in Suites : ~ Opened("chooseAll", s)' => ~ Opened(pc,
     s) /\ Suite(s) # Suite(suite)
    BY <1>1, <1>a, <1>b, ResultsApart, TestsArePairs DEF SetUpTestSuite, Opened, Suite,
       During, InSuite, InTest
  <2>9. Untouched("chooseAll")'
    BY <1>c, <2>3, <2>7, <2>8, RunsLeaves
  <2>10. (flags.failFast => FailuresHere("chooseAll"))'
    BY <1>1, <1>a, <1>b, <1>c, <2>4, TestsArePairs DEF SetUpTestSuite, FailuresHere, Test,
       During, InSuite, InTest, fixed
  <2> QED
    BY <2>6, <2>9, <2>10, <2>5 DEF IterInv, During, InSuite, InTest, Starting
<1>2. CASE ChooseAll
  <2>1. CASE Failed(Suite(suite)) \/ Skipped(Suite(suite))
    <3>1. SkipTests(TestsIn(suite)) /\ pc' = "tearDownTestSuite"
      BY <1>2, <2>1 DEF ChooseAll
    <3>2. /\ \A r \in Results : r \notin TestsIn(suite) \intersect selected => results'[r] = results[r]
          /\ \A t \in Tests : started'[t] = IF t \in TestsIn(suite) \intersect selected THEN started[t] + 1 ELSE started[t]
          /\ Failures' = Failures
      BY <3>1, SkipChanges DEF TInv
    <3>3. TestsIn(suite) \subseteq TestsIn(suite)
      BY <1>a, <1>b, TestsArePairs DEF LaterTests, LastTest, TestsIn
    <3>4. Heard("tearDownTestSuite")'
      BY <1>2, <1>a, <1>b, <1>c, <3>2, <3>3, TestsArePairs DEF ChooseAll, Heard, Begun,
         LaterTests, LastTest, During, InSuite, InTest, fixed
    <3>5. Untouched("tearDownTestSuite")'
      BY <1>2, <1>a, <1>b, <1>c, <3>2, <3>3, ResultsApart, TestsArePairs DEF ChooseAll,
         Untouched, Begun, Opened, During, InSuite, InTest, fixed
    <3>6. (flags.failFast => FailuresHere("tearDownTestSuite"))'
      BY <1>2, <1>a, <1>b, <1>c, <1>d, <3>2, TestsArePairs DEF ChooseAll, FailuresHere, Test,
         During, InSuite, InTest, fixed
    <3> QED
      BY <3>1, <3>4, <3>5, <3>6 DEF IterInv, During, InSuite, InTest, Starting
  <2>2. CASE ~ (Failed(Suite(suite)) \/ Skipped(Suite(suite)))
    <3>1. Failures' = Failures /\ pc' = "test"
      BY <1>2, <2>2 DEF ChooseAll, Failures, Failed
    <3>4. Heard("test")'
      BY <1>2, <1>a, <1>b, <1>c, <2>2, TestsArePairs DEF ChooseAll, Heard, Begun, During,
         InSuite, InTest, fixed
    <3>5. Untouched("test")'
      BY <1>2, <1>a, <1>b, <1>c, <2>2, ResultsApart, TestsArePairs DEF ChooseAll, Untouched,
         Begun, Opened, During, InSuite, InTest, fixed
    <3>6. (flags.failFast => FailuresHere("test"))'
      BY <1>2, <1>a, <1>b, <1>c, <2>2, <3>1, TestsArePairs DEF ChooseAll, FailuresHere,
         Failures, Test, During, InSuite, InTest, fixed
    <3> QED
      BY <3>1, <3>4, <3>5, <3>6 DEF IterInv, During, InSuite, InTest, Starting
  <2> QED
    BY <2>1, <2>2
<1>3. CASE TearDownTestSuite
  <2>1. PICK o \in Outcomes : Runs(o, "suiteEnd")
    BY <1>3 DEF TearDownTestSuite
  <2>2. pc # "aborted" /\ CurrentResult = Suite(suite) /\ CurrentResult \in Results
    BY <1>3, CurrentResultIs DEF TearDownTestSuite, During, InSuite, InTest
  <2>3. \A r \in Results : r # Suite(suite) => results'[r] = results[r]
    BY <2>1, <2>2, RunsChanges
  <2>4. Failures' \subseteq Failures \union {Suite(suite)}
    BY <2>1, <2>2, RunsFails
  <2>5. pc' \in {"aborted", "suiteEnd"}
    BY <2>1 DEF Runs
  <2>6. Heard("suiteEnd")'
    BY <1>3, <1>a, <1>b, <1>c DEF TearDownTestSuite, Heard, Begun, During, InSuite, InTest,
       fixed
  <2>7. \A t \in Tests : ~ Begun("suiteEnd", t)' => ~ Begun(pc, t) /\ t # Suite(suite)
    BY <1>3, <1>a, <1>b, ResultsApart, TestsArePairs DEF TearDownTestSuite, Begun, Test,
       During, InSuite, InTest
  <2>8. \A s \in Suites : ~ Opened("suiteEnd", s)' => ~ Opened(pc, s) /\ Suite(s) # Suite(suite)
    BY <1>3, <1>a, <1>b, ResultsApart, TestsArePairs DEF TearDownTestSuite, Opened, Suite,
       During, InSuite, InTest
  <2>9. Untouched("suiteEnd")'
    BY <1>c, <2>3, <2>7, <2>8, RunsLeaves
  <2>10. (flags.failFast => FailuresHere("suiteEnd"))'
    BY <1>3, <1>a, <1>b, <1>c, <2>4, TestsArePairs DEF TearDownTestSuite, FailuresHere, Test,
       During, InSuite, InTest, fixed
  <2> QED
    BY <2>6, <2>9, <2>10, <2>5 DEF IterInv, During, InSuite, InTest, Starting
<1>4. CASE PassOverTest
  <2>1. Failures' = Failures
    BY <1>4 DEF PassOverTest, Failures, Failed
  <2>2. pc' = "test"
    BY <1>4 DEF PassOverTest
  <2>3. Heard("test")'
    BY <1>4, <1>a, <1>b, <1>c, TestsArePairs DEF PassOverTest, Heard, Begun, Test, LastTest,
       During, InSuite, InTest, fixed, history, Suite
  <2>4. Untouched("test")'
    BY <1>4, <1>a, <1>b, <1>c, ResultsApart, TestsArePairs DEF PassOverTest, Untouched, Begun,
       Opened, Test, LastTest, During, InSuite, InTest, fixed, history
  <2>5. (flags.failFast => FailuresHere("test"))'
    BY <1>4, <1>a, <1>b, <1>c, <2>1, TestsArePairs DEF PassOverTest, FailuresHere, Test,
       During, InSuite, InTest, fixed
  <2> QED
    BY <2>3, <2>4, <2>5, <2>2 DEF IterInv, During, InSuite, InTest, Starting
<1>5. CASE StartTest
  <2>1. Failures' = Failures
    BY <1>5 DEF StartTest, Failures, Failed
  <2>2. pc' = "construct"
    BY <1>5 DEF StartTest
  <2>3. \A t \in Tests : started'[t] = IF t = Test THEN started[t] + 1 ELSE started[t]
    BY <1>5 DEF StartTest, TInv, TypeOK
  <2>4. \A t \in Tests : t = Test <=> t[1] = suite /\ t[2] = test
    BY TestsArePairs DEF Test
  <2>5. Heard("construct")'
    BY <1>5, <1>a, <1>b, <1>c, <2>3, <2>4, TestsArePairs DEF StartTest, Heard, Begun, Test,
       LastTest, During, InSuite, InTest, fixed, history, Suite
  <2>6. Untouched("construct")'
    BY <1>5, <1>a, <1>b, <1>c, ResultsApart, TestsArePairs DEF StartTest, Untouched, Begun,
       Opened, Test, LastTest, During, InSuite, InTest, fixed, history
  <2>7. (flags.failFast => FailuresHere("construct"))'
    BY <1>5, <1>a, <1>b, <1>c, <2>1, TestsArePairs DEF StartTest, FailuresHere, Test, During,
       InSuite, InTest, fixed
  <2> QED
    BY <2>5, <2>6, <2>7, <2>2 DEF IterInv, During, InSuite, InTest, Starting
<1>6. CASE TestsDone
  <2>1. Failures' = Failures
    BY <1>6 DEF TestsDone, Failures, Failed
  <2>2. pc' = "tearDownTestSuite"
    BY <1>6 DEF TestsDone
  <2>3. Heard("tearDownTestSuite")'
    BY <1>6, <1>a, <1>b, <1>c, TestsArePairs DEF TestsDone, Heard, Begun, Test, LastTest,
       During, InSuite, InTest, fixed, history, Suite
  <2>4. Untouched("tearDownTestSuite")'
    BY <1>6, <1>a, <1>b, <1>c, ResultsApart, TestsArePairs DEF TestsDone, Untouched, Begun,
       Opened, Test, LastTest, During, InSuite, InTest, fixed, history
  <2>5. (flags.failFast => FailuresHere("tearDownTestSuite"))'
    BY <1>6, <1>a, <1>b, <1>c, <2>1, TestsArePairs DEF TestsDone, FailuresHere, Test, During,
       InSuite, InTest, fixed
  <2> QED
    BY <2>3, <2>4, <2>5, <2>2 DEF IterInv, During, InSuite, InTest, Starting
<1>7. CASE CreateTest
  <2>1. PICK o \in Outcomes : Runs(o, "constructed")
    BY <1>7 DEF CreateTest
  <2>2. pc # "aborted" /\ CurrentResult = Test /\ CurrentResult \in Results
    BY <1>7, CurrentResultIs DEF CreateTest, During, InSuite, InTest
  <2>3. \A r \in Results : r # Test => results'[r] = results[r]
    BY <2>1, <2>2, RunsChanges
  <2>4. Failures' \subseteq Failures \union {Test}
    BY <2>1, <2>2, RunsFails
  <2>5. pc' \in {"aborted", "constructed"}
    BY <2>1 DEF Runs
  <2>6. Heard("constructed")'
    BY <1>7, <1>a, <1>b, <1>c DEF CreateTest, Heard, Begun, During, InSuite, InTest, fixed
  <2>7. \A t \in Tests : ~ Begun("constructed", t)' => ~ Begun(pc, t) /\ t # Test
    BY <1>7, <1>a, <1>b, ResultsApart, TestsArePairs DEF CreateTest, Begun, Test, During,
       InSuite, InTest
  <2>8. \A s \in Suites : ~ Opened("constructed", s)' => ~ Opened(pc, s) /\ Suite(s) # Test
    BY <1>7, <1>a, <1>b, ResultsApart, TestsArePairs, <1>d DEF CreateTest, Opened, During,
       InSuite, InTest
  <2>9. Untouched("constructed")'
    BY <1>c, <2>3, <2>7, <2>8, RunsLeaves
  <2>10. (flags.failFast => FailuresHere("constructed"))'
    BY <1>7, <1>a, <1>b, <1>c, <2>4, TestsArePairs DEF CreateTest, FailuresHere, Test, During,
       InSuite, InTest, fixed
  <2> QED
    BY <2>6, <2>9, <2>10, <2>5 DEF IterInv, During, InSuite, InTest, Starting
<1>8. CASE Constructed
  <2>1. Failures' = Failures
    BY <1>8 DEF Constructed, Failures, Failed
  <2>2. pc' \in {"setUp", "delete", "testEnd"}
    BY <1>8 DEF Constructed
  <2>3. ASSUME NEW q, q = pc'
        PROVE  Heard(q)'
    BY <1>8, <1>a, <1>b, <1>c, <2>2, <2>3, TestsArePairs DEF Constructed, Heard, Begun, Test,
       During, InSuite, InTest, fixed, history
  <2>4. ASSUME NEW q, q = pc'
        PROVE  Untouched(q)'
    BY <1>8, <1>a, <1>b, <1>c, <2>2, <2>4, ResultsApart, TestsArePairs DEF Constructed,
       Untouched, Begun, Opened, Test, During, InSuite, InTest, fixed, history
  <2>5. ASSUME NEW q, q = pc'
        PROVE  (flags.failFast => FailuresHere(q))'
    BY <1>8, <1>a, <1>b, <1>c, <2>1, <2>2, <2>5, TestsArePairs DEF Constructed, FailuresHere,
       Test, During, InSuite, InTest, fixed
  <2> QED
    BY <2>3, <2>4, <2>5, <2>2 DEF IterInv, During, InSuite, InTest, Starting
<1>9. CASE SetUp
  <2>1. PICK o \in Outcomes : Runs(o, "isSetUp")
    BY <1>9 DEF SetUp
  <2>2. pc # "aborted" /\ CurrentResult = Test /\ CurrentResult \in Results
    BY <1>9, CurrentResultIs DEF SetUp, During, InSuite, InTest
  <2>3. \A r \in Results : r # Test => results'[r] = results[r]
    BY <2>1, <2>2, RunsChanges
  <2>4. Failures' \subseteq Failures \union {Test}
    BY <2>1, <2>2, RunsFails
  <2>5. pc' \in {"aborted", "isSetUp"}
    BY <2>1 DEF Runs
  <2>6. Heard("isSetUp")'
    BY <1>9, <1>a, <1>b, <1>c DEF SetUp, Heard, Begun, During, InSuite, InTest, fixed
  <2>7. \A t \in Tests : ~ Begun("isSetUp", t)' => ~ Begun(pc, t) /\ t # Test
    BY <1>9, <1>a, <1>b, ResultsApart, TestsArePairs DEF SetUp, Begun, Test, During, InSuite,
       InTest
  <2>8. \A s \in Suites : ~ Opened("isSetUp", s)' => ~ Opened(pc, s) /\ Suite(s) # Test
    BY <1>9, <1>a, <1>b, ResultsApart, TestsArePairs, <1>d DEF SetUp, Opened, During, InSuite,
       InTest
  <2>9. Untouched("isSetUp")'
    BY <1>c, <2>3, <2>7, <2>8, RunsLeaves
  <2>10. (flags.failFast => FailuresHere("isSetUp"))'
    BY <1>9, <1>a, <1>b, <1>c, <2>4, TestsArePairs DEF SetUp, FailuresHere, Test, During,
       InSuite, InTest, fixed
  <2> QED
    BY <2>6, <2>9, <2>10, <2>5 DEF IterInv, During, InSuite, InTest, Starting
<1>10. CASE IsSetUp
  <2>1. Failures' = Failures
    BY <1>10 DEF IsSetUp, Failures, Failed
  <2>2. pc' \in {"body", "tearDown"}
    BY <1>10 DEF IsSetUp
  <2>3. ASSUME NEW q, q = pc'
        PROVE  Heard(q)'
    BY <1>10, <1>a, <1>b, <1>c, <2>2, <2>3, TestsArePairs DEF IsSetUp, Heard, Begun, Test,
       During, InSuite, InTest, fixed, history
  <2>4. ASSUME NEW q, q = pc'
        PROVE  Untouched(q)'
    BY <1>10, <1>a, <1>b, <1>c, <2>2, <2>4, ResultsApart, TestsArePairs DEF IsSetUp,
       Untouched, Begun, Opened, Test, During, InSuite, InTest, fixed, history
  <2>5. ASSUME NEW q, q = pc'
        PROVE  (flags.failFast => FailuresHere(q))'
    BY <1>10, <1>a, <1>b, <1>c, <2>1, <2>2, <2>5, TestsArePairs DEF IsSetUp, FailuresHere,
       Test, During, InSuite, InTest, fixed
  <2> QED
    BY <2>3, <2>4, <2>5, <2>2 DEF IterInv, During, InSuite, InTest, Starting
<1>11. CASE TestBody
  <2>1. PICK o \in Outcomes : Runs(o, "tearDown")
    BY <1>11 DEF TestBody
  <2>2. pc # "aborted" /\ CurrentResult = Test /\ CurrentResult \in Results
    BY <1>11, CurrentResultIs DEF TestBody, During, InSuite, InTest
  <2>3. \A r \in Results : r # Test => results'[r] = results[r]
    BY <2>1, <2>2, RunsChanges
  <2>4. Failures' \subseteq Failures \union {Test}
    BY <2>1, <2>2, RunsFails
  <2>5. pc' \in {"aborted", "tearDown"}
    BY <2>1 DEF Runs
  <2>6. Heard("tearDown")'
    BY <1>11, <1>a, <1>b, <1>c DEF TestBody, Heard, Begun, During, InSuite, InTest, fixed
  <2>7. \A t \in Tests : ~ Begun("tearDown", t)' => ~ Begun(pc, t) /\ t # Test
    BY <1>11, <1>a, <1>b, ResultsApart, TestsArePairs DEF TestBody, Begun, Test, During,
       InSuite, InTest
  <2>8. \A s \in Suites : ~ Opened("tearDown", s)' => ~ Opened(pc, s) /\ Suite(s) # Test
    BY <1>11, <1>a, <1>b, ResultsApart, TestsArePairs, <1>d DEF TestBody, Opened, During,
       InSuite, InTest
  <2>9. Untouched("tearDown")'
    BY <1>c, <2>3, <2>7, <2>8, RunsLeaves
  <2>10. (flags.failFast => FailuresHere("tearDown"))'
    BY <1>11, <1>a, <1>b, <1>c, <2>4, TestsArePairs DEF TestBody, FailuresHere, Test, During,
       InSuite, InTest, fixed
  <2> QED
    BY <2>6, <2>9, <2>10, <2>5 DEF IterInv, During, InSuite, InTest, Starting
<1>12. CASE TearDown
  <2>1. PICK o \in Outcomes : Runs(o, "delete")
    BY <1>12 DEF TearDown
  <2>2. pc # "aborted" /\ CurrentResult = Test /\ CurrentResult \in Results
    BY <1>12, CurrentResultIs DEF TearDown, During, InSuite, InTest
  <2>3. \A r \in Results : r # Test => results'[r] = results[r]
    BY <2>1, <2>2, RunsChanges
  <2>4. Failures' \subseteq Failures \union {Test}
    BY <2>1, <2>2, RunsFails
  <2>5. pc' \in {"aborted", "delete"}
    BY <2>1 DEF Runs
  <2>6. Heard("delete")'
    BY <1>12, <1>a, <1>b, <1>c DEF TearDown, Heard, Begun, During, InSuite, InTest, fixed
  <2>7. \A t \in Tests : ~ Begun("delete", t)' => ~ Begun(pc, t) /\ t # Test
    BY <1>12, <1>a, <1>b, ResultsApart, TestsArePairs DEF TearDown, Begun, Test, During,
       InSuite, InTest
  <2>8. \A s \in Suites : ~ Opened("delete", s)' => ~ Opened(pc, s) /\ Suite(s) # Test
    BY <1>12, <1>a, <1>b, ResultsApart, TestsArePairs, <1>d DEF TearDown, Opened, During,
       InSuite, InTest
  <2>9. Untouched("delete")'
    BY <1>c, <2>3, <2>7, <2>8, RunsLeaves
  <2>10. (flags.failFast => FailuresHere("delete"))'
    BY <1>12, <1>a, <1>b, <1>c, <2>4, TestsArePairs DEF TearDown, FailuresHere, Test, During,
       InSuite, InTest, fixed
  <2> QED
    BY <2>6, <2>9, <2>10, <2>5 DEF IterInv, During, InSuite, InTest, Starting
<1>13. CASE DeleteSelf
  <2>1. PICK o \in Outcomes : Runs(o, "testEnd")
    BY <1>13 DEF DeleteSelf
  <2>2. pc # "aborted" /\ CurrentResult = Test /\ CurrentResult \in Results
    BY <1>13, CurrentResultIs DEF DeleteSelf, During, InSuite, InTest
  <2>3. \A r \in Results : r # Test => results'[r] = results[r]
    BY <2>1, <2>2, RunsChanges
  <2>4. Failures' \subseteq Failures \union {Test}
    BY <2>1, <2>2, RunsFails
  <2>5. pc' \in {"aborted", "testEnd"}
    BY <2>1 DEF Runs
  <2>6. Heard("testEnd")'
    BY <1>13, <1>a, <1>b, <1>c DEF DeleteSelf, Heard, Begun, During, InSuite, InTest, fixed
  <2>7. \A t \in Tests : ~ Begun("testEnd", t)' => ~ Begun(pc, t) /\ t # Test
    BY <1>13, <1>a, <1>b, ResultsApart, TestsArePairs DEF DeleteSelf, Begun, Test, During,
       InSuite, InTest
  <2>8. \A s \in Suites : ~ Opened("testEnd", s)' => ~ Opened(pc, s) /\ Suite(s) # Test
    BY <1>13, <1>a, <1>b, ResultsApart, TestsArePairs, <1>d DEF DeleteSelf, Opened, During,
       InSuite, InTest
  <2>9. Untouched("testEnd")'
    BY <1>c, <2>3, <2>7, <2>8, RunsLeaves
  <2>10. (flags.failFast => FailuresHere("testEnd"))'
    BY <1>13, <1>a, <1>b, <1>c, <2>4, TestsArePairs DEF DeleteSelf, FailuresHere, Test,
       During, InSuite, InTest, fixed
  <2> QED
    BY <2>6, <2>9, <2>10, <2>5 DEF IterInv, During, InSuite, InTest, Starting
<1>14. CASE EndTest
  <2>1. Failures' = Failures
    BY <1>14 DEF EndTest, Failures, Failed
  <2>2. pc' = "afterTest"
    BY <1>14 DEF EndTest
  <2>3. Heard("afterTest")'
    BY <1>14, <1>a, <1>b, <1>c, TestsArePairs DEF EndTest, Heard, Begun, Test, LastTest,
       During, InSuite, InTest, fixed, history, Suite
  <2>4. Untouched("afterTest")'
    BY <1>14, <1>a, <1>b, <1>c, ResultsApart, TestsArePairs DEF EndTest, Untouched, Begun,
       Opened, Test, LastTest, During, InSuite, InTest, fixed, history
  <2>5. (flags.failFast => FailuresHere("afterTest"))'
    BY <1>14, <1>a, <1>b, <1>c, <2>1, TestsArePairs DEF EndTest, FailuresHere, Test, During,
       InSuite, InTest, fixed
  <2> QED
    BY <2>3, <2>4, <2>5, <2>2 DEF IterInv, During, InSuite, InTest, Starting
<1>15. CASE AfterTest
  <2>1. CASE flags.failFast /\ Failed(Test)
    <3>1. SkipTests(LaterTests) /\ pc' = "tearDownTestSuite"
      BY <1>15, <2>1 DEF AfterTest
    <3>2. /\ \A r \in Results : r \notin LaterTests \intersect selected => results'[r] = results[r]
          /\ \A t \in Tests : started'[t] = IF t \in LaterTests \intersect selected THEN started[t] + 1 ELSE started[t]
          /\ Failures' = Failures
      BY <3>1, SkipChanges DEF TInv
    <3>3. LaterTests \subseteq TestsIn(suite)
      BY <1>a, <1>b, TestsArePairs DEF LaterTests, LastTest, TestsIn
    <3>4. Heard("tearDownTestSuite")'
      BY <1>15, <1>a, <1>b, <1>c, <3>2, <3>3, TestsArePairs DEF AfterTest, Heard, Begun,
         LaterTests, LastTest, During, InSuite, InTest, fixed
    <3>5. Untouched("tearDownTestSuite")'
      BY <1>15, <1>a, <1>b, <1>c, <3>2, <3>3, ResultsApart, TestsArePairs DEF AfterTest,
         Untouched, Begun, Opened, During, InSuite, InTest, fixed
    <3>6. (flags.failFast => FailuresHere("tearDownTestSuite"))'
      BY <1>15, <1>a, <1>b, <1>c, <1>d, <3>2, TestsArePairs DEF AfterTest, FailuresHere, Test,
         During, InSuite, InTest, fixed
    <3> QED
      BY <3>1, <3>4, <3>5, <3>6 DEF IterInv, During, InSuite, InTest, Starting
  <2>2. CASE ~ (flags.failFast /\ Failed(Test))
    <3>1. Failures' = Failures /\ pc' = "test"
      BY <1>15, <2>2 DEF AfterTest, Failures, Failed
    <3>4. Heard("test")'
      BY <1>15, <1>a, <1>b, <1>c, <2>2, TestsArePairs DEF AfterTest, Heard, Begun, During,
         InSuite, InTest, fixed
    <3>5. Untouched("test")'
      BY <1>15, <1>a, <1>b, <1>c, <2>2, ResultsApart, TestsArePairs DEF AfterTest, Untouched,
         Begun, Opened, During, InSuite, InTest, fixed
    <3>6. (flags.failFast => FailuresHere("test"))'
      BY <1>15, <1>a, <1>b, <1>c, <2>2, <3>1, TestsArePairs DEF AfterTest, FailuresHere,
         Failures, Test, During, InSuite, InTest, fixed
    <3> QED
      BY <3>1, <3>4, <3>5, <3>6 DEF IterInv, During, InSuite, InTest, Starting
  <2> QED
    BY <2>1, <2>2
<1> QED
  BY <1>1, <1>2, <1>3, <1>4, <1>5, <1>6, <1>7, <1>8, <1>9, <1>10, <1>11, <1>12, <1>13, <1>14,
     <1>15

(* Steps outside suites *)
LEMMA OuterIterates ==
  ASSUME TInv, StatusInv, IterInv,
         \/ SetUpEnvironment \/ ChooseTests \/ TearDownEnvironment \/ EndIteration \/ Return
         \/ PassOverSuite \/ StartSuite \/ SuitesDone \/ EndSuite \/ AfterSuite
  PROVE  IterInv'
<1>a. selected \subseteq Tests /\ suite \in Nat /\ flags.failFast \in BOOLEAN
  BY TestProgramAssumption DEF TInv, TypeOK, FlagType
<1>1. CASE SetUpEnvironment
  <2>1. PICK o \in Outcomes : RunsUnguarded(o, IF env < Environments THEN pc ELSE "choose")
    BY <1>1 DEF SetUpEnvironment
  <2>2. pc = "setUpEnvironment" /\ CurrentResult = Unit
    BY <1>1, CurrentResultIs DEF SetUpEnvironment, During, InSuite, InTest
  <2>3. pc' \in {"aborted", "caught"} \union Starting
    BY <2>1, <2>2 DEF RunsUnguarded, Runs, Starting
  <2>4. Heard(pc) /\ Untouched(pc) /\ (flags.failFast => FailuresHere(pc))
    BY <2>2 DEF IterInv, Starting
  <2>5. \A r \in Results : r # Unit => results'[r] = results[r]
    BY <2>1, <2>2, RunsChanges DEF RunsUnguarded
  <2>6. Failures' \subseteq Failures \union {Unit}
    BY <2>1, <2>2, RunsFails DEF RunsUnguarded
  <2>7. ASSUME NEW q \in Starting
        PROVE  Heard(q)' /\ Untouched(q)' /\ (flags.failFast => FailuresHere(q))'
    <3>1. Heard(q)'
      BY <1>1, <2>2, <2>4 DEF SetUpEnvironment, Heard, Begun, Starting, During, InSuite,
         InTest, fixed
    <3>2. Untouched(q)'
      BY <2>2, <2>4, <2>5, ResultsApart DEF Untouched, Begun, Opened, Starting, During,
         InSuite, InTest
    <3>3. (flags.failFast => FailuresHere(q))'
      BY <1>1, <2>2, <2>4, <2>6 DEF SetUpEnvironment, FailuresHere, Starting, During, InSuite,
         InTest, fixed
    <3> QED
      BY <3>1, <3>2, <3>3
  <2> QED
    BY <2>3, <2>7 DEF IterInv, Starting, During, InSuite, InTest
<1>2. CASE ChooseTests
  <2>1. Heard("choose") /\ Untouched("choose") /\ (flags.failFast => FailuresHere("choose"))
    BY <1>2 DEF ChooseTests, IterInv, Starting
  <2>2. \A t \in Tests : started[t] = 0
    BY <2>1 DEF Heard, Begun, During, InSuite, InTest
  <2>3. CASE Skipped(Unit)
    BY <1>2, <2>2, <2>3, EndsHeard DEF ChooseTests, HeardOfAll
  <2>4. CASE ~ Skipped(Unit) /\ ~ HasFatalFailure(Unit)
    <3>1. pc' = "suite" /\ suite' = 1 /\ UNCHANGED <<results, started, fixed>>
      BY <1>2, <2>4 DEF ChooseTests
    <3>2. Heard("suite")'
      BY <2>2, <3>1, TestsArePairs DEF Heard, Begun, Suites, During, InSuite, InTest
    <3>3. Untouched("suite")'
      BY <2>1, <3>1 DEF Untouched, Begun, Opened, Suites, During, InSuite, InTest
    <3>4. (flags.failFast => FailuresHere("suite"))'
      BY <2>1, <3>1 DEF FailuresHere, Failures, Failed, During, InSuite, InTest, fixed
    <3> QED
      BY <3>1, <3>2, <3>3, <3>4 DEF IterInv, Starting, During, InSuite, InTest
  <2>5. CASE ~ Skipped(Unit) /\ HasFatalFailure(Unit)
    <3>1. SkipTests(Tests) /\ pc' = AfterTests /\ UNCHANGED selected
      BY <1>2, <2>5 DEF ChooseTests, fixed
    <3>2. \A t \in Tests : started'[t] = IF t \in selected THEN 1 ELSE 0
      BY <2>2, <3>1, SkipChanges DEF TInv
    <3> QED
      BY <3>1, <3>2, EndsHeard DEF HeardOfAll
  <2> QED
    BY <2>3, <2>4, <2>5
<1>3. CASE TearDownEnvironment
  <2>1. pc' \in {"aborted", "caught", "tearDownEnvironment", "iterationEnd"}
    BY <1>3 DEF TearDownEnvironment, RunsUnguarded, Runs
  <2>2. HeardOfAll'
    BY <1>3 DEF TearDownEnvironment, IterInv, HeardOfAll, fixed
  <2> QED
    BY <2>1, <2>2 DEF IterInv, Starting, During, InSuite, InTest
<1>4. CASE EndIteration
  BY <1>4 DEF EndIteration, IterInv, Starting, During, InSuite, InTest
<1>5. CASE Return
  BY <1>5 DEF Return, IterInv, Starting, During, InSuite, InTest
<1>6. CASE PassOverSuite
  <2>1. Failures' = Failures /\ pc' = "suite"
    BY <1>6 DEF PassOverSuite, Failures, Failed
  <2>2. Heard(pc) /\ Untouched(pc) /\ (flags.failFast => FailuresHere(pc))
    BY <1>6 DEF PassOverSuite, IterInv, During, InSuite, InTest
  <2>3. Heard("suite")'
    BY <1>6, <1>a, <2>2, TestsArePairs DEF PassOverSuite, Heard, Begun, ShouldRun, During,
       InSuite, InTest, fixed, history
  <2>4. Untouched("suite")'
    BY <1>6, <1>a, <2>2, ResultsApart, TestsArePairs DEF PassOverSuite, Untouched, Begun,
       Opened, During, InSuite, InTest, fixed, history
  <2>5. (flags.failFast => FailuresHere("suite"))'
    BY <1>6, <1>a, <2>1, <2>2 DEF PassOverSuite, FailuresHere, During, InSuite, InTest, fixed
  <2> QED
    BY <2>1, <2>3, <2>4, <2>5 DEF IterInv, Starting, During, InSuite, InTest
<1>7. CASE StartSuite
  <2>1. Failures' = Failures /\ pc' = "setUpTestSuite"
    BY <1>7 DEF StartSuite, Failures, Failed
  <2>2. Heard(pc) /\ Untouched(pc) /\ (flags.failFast => FailuresHere(pc))
    BY <1>7 DEF StartSuite, IterInv, During, InSuite, InTest
  <2>3. Heard("setUpTestSuite")'
    BY <1>7, <1>a, <2>2, TestsArePairs DEF StartSuite, Heard, Begun, ShouldRun, During,
       InSuite, InTest, fixed, history
  <2>4. Untouched("setUpTestSuite")'
    BY <1>7, <1>a, <2>2, ResultsApart, TestsArePairs DEF StartSuite, Untouched, Begun, Opened,
       During, InSuite, InTest, fixed, history
  <2>5. (flags.failFast => FailuresHere("setUpTestSuite"))'
    BY <1>7, <1>a, <2>1, <2>2 DEF StartSuite, FailuresHere, During, InSuite, InTest, fixed
  <2> QED
    BY <2>1, <2>3, <2>4, <2>5 DEF IterInv, Starting, During, InSuite, InTest
<1>8. CASE SuitesDone
  <2>1. Heard("suite")
    BY <1>8 DEF SuitesDone, IterInv, During, InSuite, InTest
  <2>2. suite = Len(TestCount) + 1
    BY <1>8, TestProgramAssumption DEF SuitesDone, TInv, TypeOK, Suites
  <2>3. \A t \in Tests : Begun("suite", t)
    BY <2>2, TestsArePairs, TestProgramAssumption DEF Begun, Suites, During, InSuite, InTest
  <2>4. HeardOfAll'
    BY <1>8, <2>1, <2>3 DEF SuitesDone, Heard, HeardOfAll, fixed, history
  <2> QED
    BY <1>8, <2>4, EndsHeard DEF SuitesDone
<1>9. CASE EndSuite
  <2>1. Failures' = Failures /\ pc' = "afterSuite"
    BY <1>9 DEF EndSuite, Failures, Failed
  <2>2. Heard(pc) /\ Untouched(pc) /\ (flags.failFast => FailuresHere(pc))
    BY <1>9 DEF EndSuite, IterInv, During, InSuite, InTest
  <2>3. Heard("afterSuite")'
    BY <1>9, <1>a, <2>2, TestsArePairs DEF EndSuite, Heard, Begun, ShouldRun, During, InSuite,
       InTest, fixed, history
  <2>4. Untouched("afterSuite")'
    BY <1>9, <1>a, <2>2, ResultsApart, TestsArePairs DEF EndSuite, Untouched, Begun, Opened,
       During, InSuite, InTest, fixed, history
  <2>5. (flags.failFast => FailuresHere("afterSuite"))'
    BY <1>9, <1>a, <2>1, <2>2 DEF EndSuite, FailuresHere, During, InSuite, InTest, fixed
  <2> QED
    BY <2>1, <2>3, <2>4, <2>5 DEF IterInv, Starting, During, InSuite, InTest
<1>10. CASE AfterSuite
  <2>1. Heard("afterSuite") /\ Untouched("afterSuite") /\ (flags.failFast => FailuresHere("afterSuite"))
    BY <1>10 DEF AfterSuite, IterInv, During, InSuite, InTest
  <2>2. suite \in Suites
    BY <1>10 DEF AfterSuite, TInv, Where
  <2>3. CASE flags.failFast /\ SuiteFailed(suite)
    <3> DEFINE later == UNION {TestsIn(s) : s \in suite + 1 .. Len(TestCount)}
    <3>1. SkipTests(later) /\ pc' = AfterTests /\ UNCHANGED selected
      BY <1>10, <2>3 DEF AfterSuite, fixed
    <3>2. \A t \in Tests : t \in later <=> t[1] > suite
      BY <1>a, <2>2, TestsArePairs, TestProgramAssumption DEF Suites
    <3>3. \A t \in Tests : Begun("afterSuite", t) <=> t[1] <= suite
      BY <1>a, TestsArePairs DEF Begun, During, InSuite, InTest
    <3>4. \A t \in Tests : started'[t] = IF t \in selected THEN 1 ELSE 0
      <4>1. \A t \in Tests : started'[t] = IF t \in later \intersect selected THEN started[t] + 1 ELSE started[t]
        BY <3>1, SkipChanges DEF TInv
      <4> QED
        BY <1>a, <2>1, <3>2, <3>3, <4>1, TestsArePairs DEF Heard
    <3> QED
      BY <3>1, <3>4, EndsHeard DEF HeardOfAll
  <2>4. CASE ~ (flags.failFast /\ SuiteFailed(suite))
    <3>1. pc' = "suite" /\ suite' = suite + 1 /\ UNCHANGED <<results, started, fixed>>
      BY <1>10, <2>4 DEF AfterSuite
    <3>2. Heard("suite")'
      BY <1>a, <2>1, <3>1, TestsArePairs DEF Heard, Begun, During, InSuite, InTest, fixed
    <3>3. Untouched("suite")'
      BY <1>a, <2>1, <3>1, TestsArePairs DEF Untouched, Begun, Opened, During, InSuite, InTest
    <3>4. flags.failFast => Failures \ {Unit} = {}
      BY <2>1, <2>2, <2>4, TestsArePairs DEF FailuresHere, StatusInv, SuiteFailed, Failures,
         During, InSuite, InTest
    <3>5. (flags.failFast => FailuresHere("suite"))'
      BY <3>1, <3>4 DEF FailuresHere, Failures, Failed, During, InSuite, InTest, fixed
    <3> QED
      BY <3>1, <3>2, <3>3, <3>5 DEF IterInv, Starting, During, InSuite, InTest
  <2> QED
    BY <2>3, <2>4
<1> QED
  BY <1>1, <1>2, <1>3, <1>4, <1>5, <1>6, <1>7, <1>8, <1>9, <1>10

(* Every step keeps what an iteration has heard of, has results of and lets fail. *)
LEMMA StepIterates ==
  ASSUME TInv, StatusInv, IterInv, [Next]_vars
  PROVE  IterInv'
<1>1. CASE UNCHANGED vars
  BY <1>1 DEF IterInv, vars, fixed, control, history, Heard, HeardOfAll, Untouched,
     FailuresHere,
         Failures, Failed, Begun, Opened, Test
<1> QED
  BY <1>1, StartIterates, OuterIterates, InnerIterates DEF Next

(* What holds of an iteration at each place is what is promised of it. *)
LEMMA IterationIsSound ==
  ASSUME TInv, IterInv
  PROVE  IterationsSound
<1>1. FailFastStops
  BY DEF IterInv, FailFastStops, FailuresHere, Failures, During, InSuite, InTest
<1>2. AccountedFor
  BY DEF IterInv, AccountedFor, HeardOfAll
<1>3. pc = "construct" => results[Test] = {}
  BY DEF IterInv, Untouched, During, InSuite, InTest
<1>4. ASSUME pc = "setUpTestSuite"
      PROVE  results[Suite(suite)] = {}
  <2>1. suite \in Suites /\ ~ Opened(pc, suite)
    BY <1>4, TestsArePairs DEF TInv, Where, Opened, InSuite
  <2> QED
    BY <1>4, <2>1 DEF IterInv, Untouched, During, InSuite
<1> QED
  BY <1>1, <1>2, <1>3, <1>4 DEF IterationsSound, CleanSlate, TInv

(* Every iteration starts its tests and suites without results of another,    *)
(* reports each selected test once or none at all, and with fail_fast starts  *)
(* nothing after a failure (RunAllTests, TestSuite::Run, TestInfo::Skip).     *)
THEOREM SoundIterations == Spec => []IterationsSound
<1>1. Init => TInv /\ StatusInv /\ IterInv
  BY InitTyped, InitStatus DEF Init, IterInv, Starting, During, InSuite, InTest
<1>2. TInv /\ StatusInv /\ IterInv /\ [Next]_vars => (TInv /\ StatusInv /\ IterInv)'
  BY StepTyped, StepStatus, StepIterates
<1>3. TInv /\ IterInv => IterationsSound
  BY IterationIsSound
<1> QED
  BY <1>1, <1>2, <1>3, PTL DEF Spec

================================================================================
