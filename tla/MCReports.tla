-------------------------------- MODULE MCReports --------------------------------
(***************************************************************************)
(* The reports of small programs, read as their readers do.                  *)
(***************************************************************************)
EXTENDS Reports, FiniteSets, TLC

(* A reader of XML: the elements that are open, innermost last, and inside of *)
(* them what was read.  bad says that the document is not well-formed.       *)
Node(element) == [element |-> element, attributes |-> <<>>, children |-> <<>>]
Closed(open) ==
  LET n == Len(open) IN [Front(open) EXCEPT ![n - 1].children = Append(@, open[n])]
XmlNext(s, token) ==
  LET n == Len(s.open)
      top == s.open[n]
      Bad == [s EXCEPT !.bad = TRUE]
  IN CASE token[1] = "<" ->
            IF s.in_tag THEN Bad ELSE [s EXCEPT !.open = Append(@, Node(token[2])), !.in_tag = TRUE]
       [] token[1] = "attribute" ->
            IF ~ s.in_tag \/ \E i \in DOMAIN top.attributes : top.attributes[i][1] = token[2] THEN Bad
            ELSE [s EXCEPT !.open[n].attributes = Append(@, <<token[2], token[3]>>)]
       [] token[1] = ">" -> IF ~ s.in_tag THEN Bad ELSE [s EXCEPT !.in_tag = FALSE]
       [] token[1] = "/>" ->
            IF ~ s.in_tag THEN Bad ELSE [s EXCEPT !.open = Closed(@), !.in_tag = FALSE]
       [] token[1] = "</" ->
            IF s.in_tag \/ n = 1 \/ top.element # token[2] THEN Bad ELSE [s EXCEPT !.open = Closed(@)]
       [] token[1] = "text" -> IF s.in_tag THEN Bad ELSE s
       [] OTHER -> Bad
RECURSIVE XmlAfter(_, _)
XmlAfter(s, tokens) ==
  CASE s.bad \/ tokens = <<>> -> s
    [] ~ s.bad /\ Len(tokens) = 1 -> XmlNext(s, tokens[1])
    [] ~ s.bad /\ Len(tokens) > 1 ->
         LET half == Len(tokens) \div 2
         IN  XmlAfter(XmlAfter(s, SubSeq(tokens, 1, half)), SubSeq(tokens, half + 1, Len(tokens)))
ReadXml(document) ==
  LET end == XmlAfter([open |-> <<Node("document")>>, in_tag |-> FALSE, bad |-> FALSE], document)
  IN  IF end.bad \/ Len(end.open) # 1 \/ Len(end.open[1].children) # 1 THEN [bad |-> TRUE]
      ELSE [bad |-> FALSE, root |-> end.open[1].children[1]]

(* A reader of JSON: an object's members are pairs of a key and a value      *)
Container(mark) == [is |-> mark, members |-> <<>>, key |-> "", expects |-> "first"]
JsonNext(s, token) ==
  LET n == Len(s.open)
      top == s.open[n]
      Bad == [s EXCEPT !.bad = TRUE]
      TakesValue(c) == IF c.is = "{" THEN c.expects = "value" ELSE c.expects \in {"first", "next"}
      Take(c, value) ==
        [c EXCEPT !.members = Append(@, IF c.is = "{" THEN <<c.key, value>> ELSE value), !.expects = "comma"]
  IN CASE token[1] \in {"{", "["} ->
            IF ~ TakesValue(top) THEN Bad ELSE [s EXCEPT !.open = Append(@, Container(token[1]))]
       [] token[1] \in {"}", "]"} ->
            IF n = 1 \/ top.is # (IF token[1] = "}" THEN "{" ELSE "[") \/ top.expects \notin {"first", "comma"}
            THEN Bad ELSE [s EXCEPT !.open = [Front(@) EXCEPT ![n - 1] = Take(@, top.members)]]
       [] token[1] = "," -> IF top.expects # "comma" THEN Bad ELSE [s EXCEPT !.open[n].expects = "next"]
       [] token[1] = "key" ->
            IF top.is # "{" \/ top.expects \notin {"first", "next"} THEN Bad
            ELSE [s EXCEPT !.open[n].key = token[2], !.open[n].expects = "value"]
       [] token[1] = "value" -> IF ~ TakesValue(top) THEN Bad ELSE [s EXCEPT !.open[n] = Take(@, token[2])]
       [] OTHER -> Bad
RECURSIVE JsonAfter(_, _)
JsonAfter(s, tokens) ==
  CASE s.bad \/ tokens = <<>> -> s
    [] ~ s.bad /\ Len(tokens) = 1 -> JsonNext(s, tokens[1])
    [] ~ s.bad /\ Len(tokens) > 1 ->
         LET half == Len(tokens) \div 2
         IN  JsonAfter(JsonAfter(s, SubSeq(tokens, 1, half)), SubSeq(tokens, half + 1, Len(tokens)))
ReadJson(document) ==
  LET end == JsonAfter([open |-> <<Container("[")>>, bad |-> FALSE], document)
  IN  IF end.bad \/ Len(end.open) # 1 \/ Len(end.open[1].members) # 1 THEN [bad |-> TRUE]
      ELSE [bad |-> FALSE, root |-> end.open[1].members[1]]

Found(pairs, key) == pairs[CHOOSE i \in DOMAIN pairs : pairs[i][1] = key /\ \A j \in 1 .. i - 1 : pairs[j][1] # key][2]
Has(pairs, key) == \E i \in DOMAIN pairs : pairs[i][1] = key
Each(s, Of(_)) == [i \in DOMAIN s |-> Of(s[i])]
--------------------------------------------------------------------------------
(* What each reader learns *)
XmlMessages(node, element) ==
  LET Is(child) == child.element = element
      Message_(child) == Found(child.attributes, "message")
  IN  Each(SelectSeq(node.children, Is), Message_)
XmlCase(node) ==
  [name |-> Found(node.attributes, "name"), result |-> Found(node.attributes, "result"),
   failures |-> XmlMessages(node, "failure"), skipped |-> XmlMessages(node, "skipped")]
XmlSuite(node) ==
  [name |-> Found(node.attributes, "name"), tests |-> Found(node.attributes, "tests"),
   failures |-> Found(node.attributes, "failures"), disabled |-> Found(node.attributes, "disabled"),
   cases |-> Each(node.children, XmlCase)]
LearntFromXml(node) ==
  [tests |-> Found(node.attributes, "tests"), failures |-> Found(node.attributes, "failures"),
   disabled |-> Found(node.attributes, "disabled"), suites |-> Each(node.children, XmlSuite)]

(* A key that a property took as well may stand twice in JSON: the first is   *)
(* googletest's own, but for the arrays of failures and skips.               *)
JsonMessagesOf(object, array, key) ==
  LET Arrays(member) == member[1] = array /\ member[2] # "v"
      arrays == SelectSeq(object, Arrays)
      Message_(o) == Found(o, key)
  IN  IF arrays = <<>> THEN <<>> ELSE Each(arrays[1][2], Message_)
JsonCase(object) ==
  [name |-> Found(object, "name"), result |-> Found(object, "result"),
   failures |-> JsonMessagesOf(object, "failures", "failure"),
   skipped |-> JsonMessagesOf(object, "skipped", "message")]
JsonArray(object, array) ==
  LET Arrays(member) == member[1] = array /\ member[2] # "v" IN SelectSeq(object, Arrays)[1][2]
JsonSuite(object) ==
  [name |-> Found(object, "name"), tests |-> Found(object, "tests"), failures |-> Found(object, "failures"),
   disabled |-> Found(object, "disabled"), cases |-> Each(JsonArray(object, "testsuite"), JsonCase)]
LearntFromJson(object) ==
  [tests |-> Found(object, "tests"), failures |-> Found(object, "failures"),
   disabled |-> Found(object, "disabled"), suites |-> Each(JsonArray(object, "testsuites"), JsonSuite)]

(* What there is to learn: of each test that is not left out, what happened  *)
OfType(result, Type(_)) == LET Message_(part) == part.message IN Each(SelectSeq(result.parts, Type), Message_)
CaseOf(test) ==
  [name |-> test.name,
   result |-> CASE ~ test.should_run -> "suppressed"
                [] test.should_run /\ OfType(test.result, IsFailure) = <<>>
                                   /\ OfType(test.result, IsSkip) # <<>> -> "skipped"
                [] OTHER -> "completed",
   failures |-> OfType(test.result, IsFailure), skipped |-> OfType(test.result, IsSkip)]
HasFailure(case) == case.failures # <<>>
Real(suite) == suite.name # "NonTestSuiteFailure"
TruthOf(suite) ==
  LET Told(test) == test.matches_filter /\ ~ test.is_in_another_shard
      told == SelectSeq(suite.tests, Told)
      Off(test) == test.is_disabled
  IN  [name |-> suite.name, tests |-> Len(told), failures |-> Len(SelectSeq(Each(told, CaseOf), HasFailure)),
       disabled |-> Len(SelectSeq(told, Off)), cases |-> Each(told, CaseOf)]

(* Keys that stand twice in an object of the report *)
Twice(object) == {k \in {object[i][1] : i \in DOMAIN object} : Cardinality({i \in DOMAIN object : object[i][1] = k}) > 1}
OwnArrays == {"testsuites", "testsuite", "failures", "skipped"}

ReportsAgree(unit, shuffle) ==
  LET xml == ReadXml(PrintXmlUnitTest(unit, shuffle))
      json == ReadJson(PrintJsonUnitTest(unit, shuffle))
      truth == SelectSeq(Each(unit.suites, TruthOf), LAMBDA s : s.cases # <<>>)
      learnt == LearntFromXml(xml.root)
      real == SelectSeq(learnt.suites, Real)
      Total(Field(_)) == FoldLeft(LAMBDA n, s : n + Field(s), 0, real)
  IN  /\ ~ xml.bad /\ ~ json.bad
      /\ LearntFromJson(json.root) = learnt
      /\ real = truth
      /\ learnt.tests = Total(LAMBDA s : Len(s.cases))
      /\ learnt.failures = Total(LAMBDA s : Len(SelectSeq(s.cases, HasFailure)))
      /\ learnt.disabled = Total(LAMBDA s : s.disabled)
      /\ Len(learnt.suites) = Len(real) + (IF OfType(unit.result, IsFailure) = <<>> THEN 0 ELSE 1)
      /\ \A k \in Twice(json.root) : Has(unit.result.properties, k) /\ k \in OwnArrays
      /\ UnitFailed(unit) =>
           \/ \E i \in DOMAIN learnt.suites : \E j \in DOMAIN learnt.suites[i].cases : HasFailure(learnt.suites[i].cases[j])
           \/ \E i \in DOMAIN unit.suites : OfType(unit.suites[i].result, IsFailure) # <<>>

(* The list of --gtest_list_tests: well-formed, with every test that matches *)
ListsAgree(unit) ==
  LET xml == ReadXml(PrintXmlTestsList(unit.suites))
      json == ReadJson(PrintJsonTestList(unit.suites))
      XmlName(node) == Found(node.attributes, "name")
      JsonName(object) == Found(object, "name")
      xml_names == FlattenSeq(Each(xml.root.children, LAMBDA s : Each(s.children, XmlName)))
      json_names == FlattenSeq(Each(JsonArray(json.root, "testsuites"), LAMBDA s : Each(JsonArray(s, "testsuite"), JsonName)))
  IN  /\ ~ xml.bad /\ ~ json.bad /\ xml_names = json_names
      /\ xml_names = FlattenSeq(Each(unit.suites, LAMBDA s : Each(TruthOf(s).cases, LAMBDA c : c.name)))

(* The console counts the tests that ran and lists what it counts; it says    *)
(* FAILED of exactly the tests that did, and the stream tells the same.      *)
Labelled(lines, label) == SelectSeq(lines, LAMBDA l : l[1] = label)
ConsoleTells(unit, also) ==
  LET lines == PrettyOnTestIterationEnd(unit, also)
      brief == BriefOnTestIterationEnd(unit, also)
      skips == Labelled(lines, "SKIPPED")
      fails == Labelled(lines, "FAILED")
      run == FlattenSeq(Each(unit.suites, LAMBDA s : SelectSeq(s.tests, ShouldRun)))
      ends == FlattenSeq(Each(run, PrettyOnTestEnd))
      cases == Each(run, CaseOf)
      failed == SelectSeq(cases, HasFailure)
      Name(case) == case.name
      sent == Streamed(unit)
      Ends(event) == event[1] = "TestEnd"
      passed == SelectSeq(sent, LAMBDA e : Ends(e) /\ e[2])
  IN  /\ lines[1][2][1] = lines[2][2] + (IF skips = <<>> THEN 0 ELSE skips[1][2])
                          + (IF fails = <<>> THEN 0 ELSE fails[1][2])
      /\ skips # <<>> => Len(skips) = 1 + skips[1][2]
      /\ fails # <<>> => fails[1][2] = Len(failed)
                         /\ SubSeq(Each(fails, LAMBDA l : l[2]), 2, 1 + Len(failed)) = Each(failed, Name)
      /\ (fails = <<>>) = ~ UnitFailed(unit)
      /\ Each(Labelled(ends, "FAILED"), LAMBDA l : l[2]) = Each(failed, Name)
      /\ FlattenSeq(Each(run, BriefOnTestEnd)) = Labelled(ends, "FAILED")
      /\ \A i \in DOMAIN brief : \E j \in DOMAIN lines : brief[i] = lines[j]
      /\ Len(passed) = lines[2][2] /\ Len(SelectSeq(sent, Ends)) = Len(run)
      /\ Last(sent)[2] <=> /\ \A i \in DOMAIN sent : sent[i][1] = "TestCaseEnd" => sent[i][2]
                           /\ OfType(unit.result, IsFailure) = <<>>
--------------------------------------------------------------------------------
Types == {"Success", "NonFatalFailure", "FatalFailure", "Skip"}
Result(types, element, keys) ==
  FoldLeft(LAMBDA r, k : RecordProperty(r, element, <<k, "v">>),
           [parts |-> [i \in DOMAIN types |-> [type |-> types[i], message |-> types[i] \o ToString(i)]],
            properties |-> <<>>], keys)
Empty == [parts |-> <<>>, properties |-> <<>>]

RunTest(name, result, disabled) ==
  [name |-> name, matches_filter |-> TRUE, is_in_another_shard |-> FALSE, is_disabled |-> disabled,
   should_run |-> TRUE, result |-> result]
(* Left out: by the filter, for another shard, disabled, or all of them      *)
LeftOut(name, matches, elsewhere, disabled) ==
  [name |-> name, matches_filter |-> matches, is_in_another_shard |-> elsewhere, is_disabled |-> disabled,
   should_run |-> FALSE, result |-> Empty]

SomeTypes == UNION {[1 .. n -> Types] : n \in 0 .. 2}
SomeKeys == {<<>>, <<"k">>, <<"result">>, <<"name">>, <<"k", "k">>, <<"failures">>, <<"skipped">>, <<"testsuite">>,
             <<"testsuites", "k">>}
FewTypes == {<<>>, <<"FatalFailure">>, <<"Skip">>}

Suite(name, tests, result) == [name |-> name, tests |-> tests, result |-> result]
Unit(suites, result) == [suites |-> suites, result |-> result]

(* One test, with every result ...                                           *)
OneTest ==
  {[unit |-> Unit(<<Suite("A", <<RunTest("a", Result(types, "testcase", keys), FALSE)>>, Empty)>>, Empty),
    shuffle |-> FALSE, also |-> FALSE] : types \in SomeTypes, keys \in SomeKeys}
(* ... every way to be run or left out in two suites ...                     *)
SomeTests(name, also) ==
  {RunTest(name, Result(types, "testcase", <<>>), FALSE) : types \in FewTypes}
    \union {LeftOut(name, matches, matches, FALSE) : matches \in BOOLEAN}
    \union {IF also THEN RunTest(name, Empty, TRUE) ELSE LeftOut(name, TRUE, FALSE, TRUE)}
SuiteResults == {Result(types, "testsuite", <<>>) : types \in FewTypes \ {<<"Skip">>}}
TwoSuites ==
  UNION {{[unit |-> Unit(<<Suite("A", <<t, u>>, Empty), Suite("B", <<v>>, r)>>, Empty), shuffle |-> TRUE, also |-> also] :
            t \in SomeTests("a", also), u \in SomeTests("b", also),
            v \in SomeTests("c", also) \ {LeftOut("c", TRUE, TRUE, FALSE)}, r \in SuiteResults} :
         also \in BOOLEAN}
(* ... and failures and properties outside of tests.                         *)
Outside ==
  {[unit |-> Unit(<<Suite("A", <<RunTest("a", Empty, FALSE)>>, Result(s, "testsuite", k))>>, Result(u, "testsuites", l)),
    shuffle |-> k = l, also |-> FALSE] :
     s \in FewTypes, u \in FewTypes, <<k, l>> \in {<<k, l>> \in SomeKeys \X SomeKeys : <<>> \in {k, l} \/ k = l}}
Programs == OneTest \union TwoSuites \union Outside

Possible(p) ==       \* a suite that does not run has nothing to tell
  \A i \in DOMAIN p.unit.suites : SuiteShouldRun(p.unit.suites[i]) \/ p.unit.suites[i].result = Empty

ReportInputs == {p \in Programs : Possible(p)}
ResultsReadBack(p) ==
  ReportsAgree(p.unit, p.shuffle) /\ ListsAgree(p.unit) /\ ConsoleTells(p.unit, p.also)
================================================================================
