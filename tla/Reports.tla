--------------------------------- MODULE Reports ---------------------------------
(***************************************************************************)
(* What an iteration leaves behind: the counts of the tests, and how the     *)
(* console, the XML and JSON reports and the streaming listener of gtest.cc  *)
(* tell of them.                                                             *)
(*                                                                           *)
(* A result has its parts, of a type and with a message, and its properties, *)
(* pairs of a key and a value.  A test has its name, its result, whether it  *)
(* is disabled, matches the filter, is for another shard and should run; a   *)
(* suite and the unit test have a result of their own, which is called ad    *)
(* hoc, for what happens in no test.  A document is a sequence of tokens;    *)
(* how texts are escaped is in Encodings.                                    *)
(***************************************************************************)
EXTENDS Integers, Sequences, SequencesExt

--------------------------------------------------------------------------------
(* TestPartResult and TestResult *)
IsFailure(part) == part.type \in {"NonFatalFailure", "FatalFailure"}
IsSkip(part) == part.type = "Skip"
Failed(result)  == \E i \in DOMAIN result.parts : IsFailure(result.parts[i])
Skipped(result) == ~ Failed(result) /\ \E i \in DOMAIN result.parts : IsSkip(result.parts[i])
Passed(result)  == ~ Skipped(result) /\ ~ Failed(result)

(* The attributes that are googletest's own in each element of the XML       *)
(* report; and those it may write, a few more.                               *)
Reserved ==
  [testsuites |-> {"disabled", "errors", "failures", "name", "random_seed", "tests", "time", "timestamp"},
   testsuite  |-> {"disabled", "errors", "failures", "name", "tests", "time", "timestamp", "skipped"},
   testcase   |-> {"classname", "name", "status", "time", "type_param", "value_param", "file", "line"}]
ReservedOutput == [Reserved EXCEPT !.testcase = @ \union {"result", "timestamp"}]

(* TestResult::RecordProperty: a reserved key is a failure, a known one gets  *)
(* the new value.                                                            *)
RecordProperty(result, element, property) ==
  LET known == {i \in DOMAIN result.properties : result.properties[i][1] = property[1]} IN
  IF property[1] \in Reserved[element]
    THEN [result EXCEPT !.parts = Append(@, [type |-> "NonFatalFailure", message |-> "reserved"])]
  ELSE IF known = {} THEN [result EXCEPT !.properties = Append(@, property)]
  ELSE [result EXCEPT !.properties = [i \in DOMAIN @ |-> IF i \in known THEN property ELSE @[i]]]

--------------------------------------------------------------------------------
(* The counts of TestSuite and UnitTestImpl *)
CountIf(s, Test(_)) == Len(SelectSeq(s, Test))
Sum(suites, Count(_)) == FoldLeft(LAMBDA n, suite : n + Count(suite), 0, suites)

IsReportable(test) == test.matches_filter /\ ~ test.is_in_another_shard
ShouldRun(test)    == test.should_run
TestPassed(test)   == ShouldRun(test) /\ Passed(test.result)
TestSkipped(test)  == ShouldRun(test) /\ Skipped(test.result)
TestFailed(test)   == ShouldRun(test) /\ Failed(test.result)
TestReportableDisabled(test) == IsReportable(test) /\ test.is_disabled

successful_test_count(suite) == CountIf(suite.tests, TestPassed)
skipped_test_count(suite)    == CountIf(suite.tests, TestSkipped)
failed_test_count(suite)     == CountIf(suite.tests, TestFailed)
reportable_test_count(suite) == CountIf(suite.tests, IsReportable)
reportable_disabled_test_count(suite) == CountIf(suite.tests, TestReportableDisabled)
test_to_run_count(suite)     == CountIf(suite.tests, ShouldRun)

SuiteShouldRun(suite) == \E i \in DOMAIN suite.tests : ShouldRun(suite.tests[i])
SuiteFailed(suite) == SuiteShouldRun(suite) /\ (failed_test_count(suite) > 0 \/ Failed(suite.result))
successful_tests(unit) == Sum(unit.suites, successful_test_count)
skipped_tests(unit)    == Sum(unit.suites, skipped_test_count)
failed_tests(unit)     == Sum(unit.suites, failed_test_count)
reportable_tests(unit) == Sum(unit.suites, reportable_test_count)
reportable_disabled_tests(unit) == Sum(unit.suites, reportable_disabled_test_count)
tests_to_run(unit)       == Sum(unit.suites, test_to_run_count)
test_suites_to_run(unit) == CountIf(unit.suites, SuiteShouldRun)
failed_test_suites(unit) == CountIf(unit.suites, SuiteFailed)
UnitFailed(unit) == failed_test_suites(unit) > 0 \/ Failed(unit.result)

--------------------------------------------------------------------------------
(* XML *)
StartTag(element) == <<"<", element>>
EndOfStart == <<">">>
EndOfEmpty == <<"/>">>
EndTag(element) == <<"</", element>>
Text(message) == <<"text", message>>
Attribute(name, value) == <<"attribute", name, value>>
Aborts == <<"abort">>

(* OutputXmlAttribute checks the name, or ends the program *)
OutputXmlAttributes(element, pairs) ==
  [i \in DOMAIN pairs |-> IF pairs[i][1] \in ReservedOutput[element]
                            THEN Attribute(pairs[i][1], pairs[i][2]) ELSE Aborts]
TestPropertiesAsXmlAttributes(result) ==
  [i \in DOMAIN result.properties |-> Attribute(result.properties[i][1], result.properties[i][2])]
OutputXmlTestProperties(result) ==
  IF result.properties = <<>> THEN <<>>
  ELSE <<StartTag("properties"), EndOfStart>>
       \o FlattenSeq([i \in DOMAIN result.properties |->
            <<StartTag("property"), Attribute("name", result.properties[i][1]),
              Attribute("value", result.properties[i][2]), EndOfEmpty>>])
       \o <<EndTag("properties")>>

(* The start tag of the test case is ended by the first thing inside of it   *)
Message(element, part) ==
  <<StartTag(element), Attribute("message", part.message), EndOfStart, Text(part.message), EndTag(element)>>
OutputXmlTestResult(result) ==
  LET Next(s, part) ==
        CASE IsFailure(part) ->
               [failures |-> s.failures + 1, skips |-> s.skips,
                out |-> s.out \o (IF s.failures = 0 /\ s.skips = 0 THEN <<EndOfStart>> ELSE <<>>)
                        \o Message("failure", part)]
          [] IsSkip(part) ->
               [failures |-> s.failures, skips |-> s.skips + 1,
                out |-> s.out \o (IF s.skips = 0 /\ s.failures = 0 THEN <<EndOfStart>> ELSE <<>>)
                        \o Message("skipped", part)]
          [] OTHER -> s
      written == FoldLeft(Next, [failures |-> 0, skips |-> 0, out |-> <<>>], result.parts)
      nothing == written.failures = 0 /\ written.skips = 0
  IN  IF nothing /\ result.properties = <<>> THEN <<EndOfEmpty>>
      ELSE written.out \o (IF nothing THEN <<EndOfStart>> ELSE <<>>)
           \o OutputXmlTestProperties(result) \o <<EndTag("testcase")>>

Verdict(test) ==
  IF ~ ShouldRun(test) THEN "suppressed" ELSE IF Skipped(test.result) THEN "skipped" ELSE "completed"
OutputXmlTestInfo(suite, test, list_tests) ==
  <<StartTag("testcase")>>
  \o OutputXmlAttributes("testcase", <<<<"name", test.name>>, <<"file", "f">>, <<"line", 1>>>>)
  \o IF list_tests THEN <<EndOfEmpty>>
     ELSE OutputXmlAttributes("testcase",
            <<<<"status", IF ShouldRun(test) THEN "run" ELSE "notrun">>, <<"result", Verdict(test)>>,
              <<"time", 0>>, <<"timestamp", 0>>, <<"classname", suite.name>>>>)
          \o OutputXmlTestResult(test.result)

PrintXmlTestSuite(suite, list_tests) ==
  <<StartTag("testsuite")>>
  \o OutputXmlAttributes("testsuite",
       <<<<"name", suite.name>>, <<"tests", reportable_test_count(suite)>>>>
       \o IF list_tests THEN <<>>
          ELSE <<<<"failures", failed_test_count(suite)>>,
                 <<"disabled", reportable_disabled_test_count(suite)>>,
                 <<"skipped", skipped_test_count(suite)>>, <<"errors", 0>>, <<"time", 0>>, <<"timestamp", 0>>>>)
  \o (IF list_tests THEN <<>> ELSE TestPropertiesAsXmlAttributes(suite.result))
  \o <<EndOfStart>>
  \o LET reportable == SelectSeq(suite.tests, IsReportable)
     IN  FlattenSeq([i \in DOMAIN reportable |-> OutputXmlTestInfo(suite, reportable[i], list_tests)])
  \o <<EndTag("testsuite")>>

(* What failed outside of all suites is a suite of its own in the report     *)
OutputXmlTestSuiteForTestResult(result) ==
  <<StartTag("testsuite")>>
  \o OutputXmlAttributes("testsuite",
       <<<<"name", "NonTestSuiteFailure">>, <<"tests", 1>>, <<"failures", 1>>, <<"disabled", 0>>,
         <<"skipped", 0>>, <<"errors", 0>>, <<"time", 0>>, <<"timestamp", 0>>>>)
  \o <<EndOfStart, StartTag("testcase")>>
  \o OutputXmlAttributes("testcase",
       <<<<"name", "">>, <<"status", "run">>, <<"result", "completed">>, <<"classname", "">>, <<"time", 0>>,
         <<"timestamp", 0>>>>)
  \o OutputXmlTestResult(result)
  \o <<EndTag("testsuite")>>

HasReportable(suite) == reportable_test_count(suite) > 0
PrintXmlUnitTest(unit, shuffle) ==
  LET suites == SelectSeq(unit.suites, HasReportable) IN
  <<StartTag("testsuites")>>
  \o OutputXmlAttributes("testsuites",
       <<<<"tests", reportable_tests(unit)>>,
         <<"failures", failed_tests(unit)>>,
         <<"disabled", reportable_disabled_tests(unit)>>,
         <<"errors", 0>>, <<"time", 0>>, <<"timestamp", 0>>>>
       \o IF shuffle THEN <<<<"random_seed", 1>>>> ELSE <<>>)
  \o TestPropertiesAsXmlAttributes(unit.result)
  \o OutputXmlAttributes("testsuites", <<<<"name", "AllTests">>>>)
  \o <<EndOfStart>>
  \o FlattenSeq([i \in DOMAIN suites |-> PrintXmlTestSuite(suites[i], FALSE)])
  \o (IF Failed(unit.result) THEN OutputXmlTestSuiteForTestResult(unit.result) ELSE <<>>)
  \o <<EndTag("testsuites")>>

(* --gtest_list_tests with an output file *)
total_test_count(suite) == Len(suite.tests)
total_tests(suites) == Sum(suites, total_test_count)
PrintXmlTestsList(suites) ==
  <<StartTag("testsuites")>>
  \o OutputXmlAttributes("testsuites", <<<<"tests", total_tests(suites)>>, <<"name", "AllTests">>>>)
  \o <<EndOfStart>>
  \o FlattenSeq([i \in DOMAIN suites |-> PrintXmlTestSuite(suites[i], TRUE)])
  \o <<EndTag("testsuites")>>

--------------------------------------------------------------------------------
(* JSON *)
Token(mark) == <<mark>>
Comma == Token(",")
Key(name) == <<"key", name>>
Value(value) == <<"value", value>>

(* OutputJsonKey for each pair, with a comma behind it; the last one without  *)
(* if it is said to be the last.                                             *)
OutputJsonKeys(element, pairs, comma) ==
  FlattenSeq([i \in DOMAIN pairs |->
    (IF pairs[i][1] \in ReservedOutput[element] THEN <<Key(pairs[i][1]), Value(pairs[i][2])>> ELSE <<Aborts>>)
    \o (IF i < Len(pairs) \/ comma THEN <<Comma>> ELSE <<>>)])
TestPropertiesAsJson(result) ==
  FlattenSeq([i \in DOMAIN result.properties |->
    <<Comma, Key(result.properties[i][1]), Value(result.properties[i][2])>>])

(* Failures and skips, each in an array that the first of them opens         *)
JsonMessages(parts, array, key) ==
  FlattenSeq([i \in DOMAIN parts |->
    <<Comma>> \o (IF i = 1 THEN <<Key(array), Token("[")>> ELSE <<>>)
    \o <<Token("{"), Key(key), Value(parts[i].message)>>
    \o (IF key = "failure" THEN <<Comma, Key("type"), Value("")>> ELSE <<>>) \o <<Token("}")>>])
  \o (IF parts # <<>> THEN <<Token("]")>> ELSE <<>>)
OutputJsonTestResult(result) ==
  JsonMessages(SelectSeq(result.parts, IsFailure), "failures", "failure")
  \o JsonMessages(SelectSeq(result.parts, IsSkip), "skipped", "message")
  \o <<Token("}")>>

OutputJsonTestInfo(suite, test, list_tests) ==
  <<Token("{")>>
  \o OutputJsonKeys("testcase", <<<<"name", test.name>>, <<"file", "f">>, <<"line", 1>>>>, FALSE)
  \o IF list_tests THEN <<Token("}")>>
     ELSE <<Comma>>
          \o OutputJsonKeys("testcase",
               <<<<"status", IF ShouldRun(test) THEN "run" ELSE "notrun">>, <<"result", Verdict(test)>>,
                 <<"timestamp", 0>>, <<"time", 0>>, <<"classname", suite.name>>>>, FALSE)
          \o TestPropertiesAsJson(test.result) \o OutputJsonTestResult(test.result)

(* Elements of an array, commas between them *)
Separated(elements) ==
  FlattenSeq([i \in DOMAIN elements |-> (IF i = 1 THEN <<>> ELSE <<Comma>>) \o elements[i]])
PrintJsonTestSuite(suite, list_tests) ==
  <<Token("{")>>
  \o OutputJsonKeys("testsuite", <<<<"name", suite.name>>, <<"tests", reportable_test_count(suite)>>>>, TRUE)
  \o (IF list_tests THEN <<>>
      ELSE OutputJsonKeys("testsuite",
             <<<<"failures", failed_test_count(suite)>>,
               <<"disabled", reportable_disabled_test_count(suite)>>, <<"errors", 0>>,
               <<"timestamp", 0>>, <<"time", 0>>>>, FALSE)
           \o TestPropertiesAsJson(suite.result) \o <<Comma>>)
  \o <<Key("testsuite"), Token("[")>>
  \o LET reportable == SelectSeq(suite.tests, IsReportable)
     IN  Separated([i \in DOMAIN reportable |-> OutputJsonTestInfo(suite, reportable[i], list_tests)])
  \o <<Token("]"), Token("}")>>

OutputJsonTestSuiteForTestResult(result) ==
  <<Token("{")>>
  \o OutputJsonKeys("testsuite",
       <<<<"name", "NonTestSuiteFailure">>, <<"tests", 1>>, <<"failures", 1>>, <<"disabled", 0>>,
         <<"skipped", 0>>, <<"errors", 0>>, <<"time", 0>>, <<"timestamp", 0>>>>, TRUE)
  \o <<Key("testsuite"), Token("["), Token("{")>>
  \o OutputJsonKeys("testcase",
       <<<<"name", "">>, <<"status", "run">>, <<"result", "completed">>, <<"timestamp", 0>>, <<"time", 0>>,
         <<"classname", "">>>>, FALSE)
  \o TestPropertiesAsJson(result) \o OutputJsonTestResult(result)
  \o <<Token("]"), Token("}")>>

PrintJsonUnitTest(unit, shuffle) ==
  LET suites == SelectSeq(unit.suites, HasReportable)
      adHoc  == IF Failed(unit.result) THEN <<OutputJsonTestSuiteForTestResult(unit.result)>> ELSE <<>>
  IN  <<Token("{")>>
      \o OutputJsonKeys("testsuites",
           <<<<"tests", reportable_tests(unit)>>,
             <<"failures", failed_tests(unit)>>,
             <<"disabled", reportable_disabled_tests(unit)>>, <<"errors", 0>>>>
           \o (IF shuffle THEN <<<<"random_seed", 1>>>> ELSE <<>>)
           \o <<<<"timestamp", 0>>, <<"time", 0>>>>, FALSE)
      \o TestPropertiesAsJson(unit.result) \o <<Comma>>
      \o OutputJsonKeys("testsuites", <<<<"name", "AllTests">>>>, TRUE)
      \o <<Key("testsuites"), Token("[")>>
      \o Separated([i \in DOMAIN suites |-> PrintJsonTestSuite(suites[i], FALSE)] \o adHoc)
      \o <<Token("]"), Token("}")>>

PrintJsonTestList(suites) ==
  <<Token("{")>>
  \o OutputJsonKeys("testsuites", <<<<"tests", total_tests(suites)>>, <<"name", "AllTests">>>>, TRUE)
  \o <<Key("testsuites"), Token("[")>>
  \o Separated([i \in DOMAIN suites |-> PrintJsonTestSuite(suites[i], TRUE)])
  \o <<Token("]"), Token("}")>>

--------------------------------------------------------------------------------
(* The console: a line is what stands in the brackets and what follows it    *)
Line(label, said) == <<label, said>>

(* OnTestEnd of the full printer and, with --gtest_brief, of the brief one    *)
PrettyOnTestEnd(test) ==
  <<Line(IF Passed(test.result) THEN "OK" ELSE IF Skipped(test.result) THEN "SKIPPED" ELSE "FAILED", test.name)>>
BriefOnTestEnd(test) == IF Failed(test.result) THEN <<Line("FAILED", test.name)>> ELSE <<>>

(* PrintFailedTests and PrintSkippedTests skip suites by their own counts    *)
Listing(unit, label, Counts(_), Told(_)) ==
  LET Suites(suite) == SuiteShouldRun(suite) /\ Counts(suite) # 0
      suites == SelectSeq(unit.suites, Suites)
      Tests(suite) == SelectSeq(suite.tests, Told)
  IN  FlattenSeq([i \in DOMAIN suites |->
        LET told == Tests(suites[i]) IN [j \in DOMAIN told |-> Line(label, told[j].name)]])
PrintFailedTests(unit) ==
  <<Line("FAILED", failed_tests(unit))>> \o Listing(unit, "FAILED", failed_test_count, TestFailed)
PrintSkippedTests(unit) == Listing(unit, "SKIPPED", skipped_test_count, TestSkipped)
PrintFailedTestSuites(unit) ==
  LET Suites(suite) == SuiteShouldRun(suite) /\ Failed(suite.result)
      failed == SelectSeq(unit.suites, Suites)
  IN  [i \in DOMAIN failed |-> Line("FAILED", failed[i].name)]

Counted(unit) ==
  <<Line("==", <<tests_to_run(unit), test_suites_to_run(unit)>>),
    Line("PASSED", successful_tests(unit))>>
HowManySkipped(unit) ==
  IF skipped_tests(unit) = 0 THEN <<>>
  ELSE <<Line("SKIPPED", skipped_tests(unit))>>
HowManyDisabled(unit, also_run_disabled_tests) ==
  IF reportable_disabled_tests(unit) = 0 \/ also_run_disabled_tests THEN <<>>
  ELSE <<Line("DISABLED", reportable_disabled_tests(unit))>>

PrettyOnTestIterationEnd(unit, also_run_disabled_tests) ==
  Counted(unit) \o HowManySkipped(unit) \o PrintSkippedTests(unit)
  \o (IF UnitFailed(unit) THEN PrintFailedTests(unit) \o PrintFailedTestSuites(unit) ELSE <<>>)
  \o HowManyDisabled(unit, also_run_disabled_tests)
BriefOnTestIterationEnd(unit, also_run_disabled_tests) ==
  Counted(unit) \o HowManySkipped(unit) \o HowManyDisabled(unit, also_run_disabled_tests)

--------------------------------------------------------------------------------
(* StreamingListener: what it sends of the tests and suites that run (parts   *)
(* outside of tests left out), and whether they passed                       *)
StreamedParts(parts) == [i \in DOMAIN parts |-> <<"TestPartResult", parts[i].message>>]
StreamedTest(test) ==
  <<<<"TestStart", test.name>>>> \o StreamedParts(test.result.parts) \o <<<<"TestEnd", Passed(test.result)>>>>
StreamedSuite(suite) ==
  LET run == SelectSeq(suite.tests, ShouldRun)
  IN  <<<<"TestCaseStart", suite.name>>>>
      \o FlattenSeq([i \in DOMAIN run |-> StreamedTest(run[i])])
      \o <<<<"TestCaseEnd", failed_test_count(suite) = 0 /\ ~ Failed(suite.result)>>>>
Streamed(unit) ==
  LET run == SelectSeq(unit.suites, SuiteShouldRun)
  IN  <<<<"TestIterationStart", 0>>>> \o FlattenSeq([i \in DOMAIN run |-> StreamedSuite(run[i])])
      \o <<<<"TestIterationEnd", ~ UnitFailed(unit)>>>>
================================================================================
