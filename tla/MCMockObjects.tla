----------------------------- MODULE MCMockObjects -----------------------------
(* Mock objects with two functions, at two addresses, where the actions of    *)
(* ON_CALL() share a round robin and a value to give away; or a statement     *)
(* EXPECT_CALL() of up to four clauses, followed by up to four calls.        *)
EXTENDS MockObjects, ExpectCall, Actions, TLC

CONSTANTS f, g

VARIABLE what    \* objects or a statement

MCSymmetry == Permutations(Addresses)   \* nothing tells addresses apart

MCFunctions == <<f, g>>
MCArgs == {1}
RoundRobin == [is |-> "ReturnRoundRobin", state |-> 1, values |-> <<7, 8>>]
ByMove == [is |-> "ReturnByMove", state |-> 1, value |-> 9]
Saves == [is |-> "DoAll", actions |-> <<[is |-> "SetArgPointee", k |-> 2, value |-> 5],
                                        [is |-> "ReturnPointee", pointer |-> 1]>>]
MCDefaults == {RoundRobin, ByMove}
MCWorld0 == [mem |-> [p \in -1 .. 3 |-> 0], next |-> <<1>>, moved |-> {}]

(* Actions to compose *)
Basic ==
  {RoundRobin, ByMove, [is |-> "Return", value |-> 4], [is |-> "ReturnVoid"], [is |-> "ReturnNull"],
   [is |-> "ReturnRef", pointer |-> 1], [is |-> "ReturnRefOfCopy", copy |-> 9],
   [is |-> "ReturnArg", k |-> 2], [is |-> "Assign", pointer |-> 2, value |-> 3],
   [is |-> "SetArgReferee", k |-> 1, value |-> 6], [is |-> "SetArrayArgument", k |-> 1, values |-> <<1, 2>>],
   [is |-> "SaveArg", k |-> 1, pointer |-> 3], [is |-> "SaveArgPointee", k |-> 2, pointer |-> 1],
   [is |-> "SetErrnoAndReturn", errno |-> 2, value |-> -1],
   [is |-> "Invoke", pointer |-> 1, value |-> 2],
   [is |-> "InvokeWithoutArgs", pointer |-> 3, value |-> 2],
   [is |-> "Throw", exception |-> -99], [is |-> "DoDefault"]}
All(list) == [is |-> "DoAll", actions |-> list]
Swap(action) == [is |-> "WithArgs", k |-> <<2, 1>>, action |-> action]
Ignore(action) == [is |-> "IgnoreResult", action |-> action]

(* Actions compose: a DoAll() in a DoAll() is flat; what leaves one of its   *)
(* actions leaves it, and what was not reached has done nothing; exchanged   *)
(* arguments exchanged again are the arguments; to ignore the result changes *)
(* nothing else (DoAllAction, WithArgsAction, IgnoreResultAction).           *)
Worlds == {MCWorld0, [MCWorld0 EXCEPT !.next = <<2>>, !.mem[2] = 4], [MCWorld0 EXCEPT !.moved = {1}]}
ActionsCompose ==
  what = "objects" /\ made = 0 => \A w \in Worlds :
  LET P(action) == Perform(action, <<1, 2>>, w) IN
  \A x, y \in Basic :
    /\ P(x).status # "returns" => P(All(<<x, y>>)) = P(x)
    /\ P(x).status = "returns" => P(All(<<x, y>>)) = Perform(y, <<1, 2>>, P(x).world)
    /\ P(Swap(Swap(x))) = P(x) /\ P(Swap(All(<<x, y>>))) = P(All(<<Swap(x), Swap(y)>>))
    /\ P(Ignore(All(<<x, y>>))) = P(All(<<x, Ignore(y)>>))
    /\ \A z \in {Saves, RoundRobin, ByMove} :
         /\ P(All(<<x, All(<<y, z>>)>>)) = P(All(<<x, y, z>>))
         /\ P(All(<<All(<<x, y>>), z>>)) = P(All(<<x, y, z>>))

(* Actions make no difference but their own, composed or shared              *)
(* (gmock-actions.h).                                                        *)
ActionsSound == ActionsCompose /\ SharedStateHolds

--------------------------------------------------------------------------------
(* Never, once, two or three times; and bounds that make no sense *)
MCBounds == {<<0, 0>>, <<1, 1>>, <<2, 3>>, <<-1, 1>>, <<2, 1>>}

MCInit ==
  /\ what \in {"objects", "statement"}
  /\ ObjectsInit /\ Init
  /\ what = "statement" => ~ throw_on_failure /\ default_mock_behavior = "warn"
MCNext ==
  \/ what = "objects" /\ ObjectsNext /\ UNCHANGED <<vars, what>>
  \/ what = "statement" /\ Next /\ UNCHANGED <<object_vars, what>>
MCSpec == MCInit /\ [][MCNext]_<<object_vars, vars, what>>
================================================================================
