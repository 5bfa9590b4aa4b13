------------------------------ MODULE MockObjects ------------------------------
(***************************************************************************)
(* The lives of mock objects: gmock-nice-strict.h, the registry of mock      *)
(* objects and the table of reactions of gmock-spec-builders.cc, ON_CALL()   *)
(* and what a call without an expectation does.  Both tables are keyed by    *)
(* address, and a new object may be given the address of one that is gone.   *)
(*                                                                          *)
(* Every expectation accepts every argument, wants some number of calls and  *)
(* does not retire; MockExpectations has the matching, ExpectCall the actions *)
(* of EXPECT_CALL, MockThreads the locks and what two threads or a re-entrant *)
(* action may do in the middle of a call, Actions what actions do.           *)
(***************************************************************************)
EXTENDS Integers, Sequences

CONSTANTS Addresses, None,
          Functions,     \* the mock functions of the class, in declaration order
          Args,          \* the arguments a function is called with
          Defaults,      \* the actions given to ON_CALL()
          PerformAction(_, _, _),  \* the outcome of an action on arguments and a world
          Wrappers,      \* among nice, naggy, strict and raw, which is no wrapper
          World0,        \* what they act on, at the start
          MaxObjects, MaxUses   \* bounds: objects, and uses of them

Reactions == {"allow", "warn", "fail"}
FunctionSet == {Functions[i] : i \in DOMAIN Functions}

Expectations == [id : Nat, wanted : Nat, calls : Nat]
Entries == [leakable : BOOLEAN, mockers : SUBSET FunctionSet]
Objects ==
  [wrapper : Wrappers, used : BOOLEAN, excused : BOOLEAN,
   old_entry : BOOLEAN,             \* history: the registry had an entry for its address
   specs : [FunctionSet -> Seq([accepts : SUBSET Args, action : Defaults])],
   exps  : [FunctionSet -> Seq(Expectations)]]

ASSUME MockObjectsAssumption ==
  /\ Functions \in Seq(FunctionSet)
  /\ \A i, j \in DOMAIN Functions : Functions[i] = Functions[j] => i = j
  /\ Wrappers \subseteq {"nice", "naggy", "strict", "raw"}
  /\ Args # {} /\ MaxObjects \in Nat /\ MaxUses \in Nat
  /\ None \notin Reactions /\ None \notin Entries /\ None \notin Objects
  /\ None \notin {"exit 0", "exit 1", "aborted", "terminated"}

VARIABLES
  throw_on_failure, default_mock_behavior,         \* flags
  object,        \* the mock object at each address, or None
  registry,      \* g_mock_object_registry.states(), by address
  reaction,      \* UninterestingCallReactionMap(), by address
  default_value, \* DefaultValue<Result>, or None: Result has no built-in default
  world,         \* what actions act on
  ended,         \* None, or how the program ended
  made, uses,    \* counters of the bounds
  reports,       \* history: failures reported for each expectation
  gone,          \* history: expectations as they were when they were deleted
  answers        \* history: the reaction to the last call, and what it should be; results

flags == <<throw_on_failure, default_mock_behavior>>
object_vars == <<flags, object, registry, reaction, default_value, world, ended,
               made, uses, reports, gone, answers>>

Entry(leakable, mockers) == [leakable |-> leakable, mockers |-> mockers]

ObjectsInit ==
  /\ throw_on_failure \in BOOLEAN /\ default_mock_behavior \in Reactions
  /\ object = [a \in Addresses |-> None]
  /\ registry = [a \in Addresses |-> None]
  /\ reaction = [a \in Addresses |-> None]
  /\ default_value = None /\ world = World0 /\ ended = None
  /\ made = 0 /\ uses = 0 /\ reports = <<>> /\ gone = {}
  /\ answers = [reaction |-> None, due |-> None, results |-> <<>>]

Lives(a) == object[a] # None /\ ended = None
Use(a) == Lives(a) /\ uses < MaxUses /\ uses' = uses + 1

ReactionOf(wrapper) ==
  CASE wrapper = "nice" -> "allow" [] wrapper = "naggy" -> "warn" [] wrapper = "strict" -> "fail"

(* NiceMockImpl and its like construct before the mock class does            *)
SetReactionOnUninterestingCalls(a, wrapper) ==
  [reaction EXCEPT ![a] = IF wrapper = "raw" THEN @ ELSE ReactionOf(wrapper)]

Construct(a, wrapper) ==
  /\ object[a] = None /\ ended = None /\ made < MaxObjects
  /\ object' = [object EXCEPT ![a] =
       [wrapper |-> wrapper, used |-> FALSE, excused |-> FALSE,
        old_entry |-> registry[a] # None,
        specs |-> [f \in FunctionSet |-> <<>>], exps |-> [f \in FunctionSet |-> <<>>]]]
  /\ reaction' = SetReactionOnUninterestingCalls(a, wrapper)
  /\ made' = made + 1
  /\ UNCHANGED <<flags, registry, default_value, world, ended, uses, reports, gone, answers>>

(* Mock::Register: operator[] makes the entry when there is none *)
Register(a, f) ==
  [registry EXCEPT ![a] = IF @ = None THEN Entry(FALSE, {f})
                          ELSE Entry(@.leakable, @.mockers \union {f})]

AllowLeak(a) ==
  /\ Use(a)
  /\ registry' = [registry EXCEPT ![a] = IF @ = None THEN Entry(TRUE, {})
                                         ELSE Entry(TRUE, @.mockers)]
  /\ object' = [object EXCEPT ![a].excused = TRUE]
  /\ UNCHANGED <<flags, reaction, default_value, world, ended, made, reports, gone, answers>>

(* ON_CALL(): FunctionMocker::AddNewOnCallSpec *)
OnCall(a, f, accepts, action) ==
  /\ Use(a)
  /\ registry' = Register(a, f)
  /\ object' = [object EXCEPT ![a].used = TRUE,
                              ![a].specs[f] = Append(@, [accepts |-> accepts, action |-> action])]
  /\ UNCHANGED <<flags, reaction, default_value, world, ended, made, reports, gone, answers>>

(* EXPECT_CALL().Times(wanted): FunctionMocker::AddNewExpectation *)
ExpectCall(a, f, wanted) ==
  /\ Use(a)
  /\ registry' = Register(a, f)
  /\ object' = [object EXCEPT ![a].used = TRUE,
       ![a].exps[f] = Append(@, [id |-> Len(reports) + 1, wanted |-> wanted, calls |-> 0])]
  /\ reports' = Append(reports, 0)
  /\ UNCHANGED <<flags, reaction, default_value, world, ended, made, gone, answers>>

SetDefaultValue(v) ==
  /\ ended = None /\ default_value # v /\ uses < MaxUses
  /\ default_value' = v /\ uses' = uses + 1
  /\ UNCHANGED <<flags, object, registry, reaction, world, ended, made, reports, gone, answers>>

(* FunctionMocker::FindOnCallSpec: the newest that accepts the argument *)
FindOnCallSpec(a, f, x) ==
  LET accepting == {i \in DOMAIN object[a].specs[f] : x \in object[a].specs[f][i].accepts}
  IN  {i \in accepting : \A j \in accepting : j <= i}

(* FunctionMocker::PerformDefaultAction *)
PerformDefaultAction(a, f, x) ==
  LET found == FindOnCallSpec(a, f, x) IN
  IF found # {} THEN LET i == CHOOSE i \in found : TRUE
                     IN  PerformAction(object[a].specs[f][i].action, <<x, x>>, world)
  ELSE IF default_value # None THEN [status |-> "returns", value |-> default_value, world |-> world]
  ELSE [status |-> "throws", value |-> "no default", world |-> world]

(* Mock::GetReactionOnUninterestingCalls *)
GetReaction(a) == IF reaction[a] = None THEN default_mock_behavior ELSE reaction[a]

Answer(outcome) == IF outcome.status = "returns" THEN outcome.value ELSE None

(* FunctionMocker::FindMatchingExpectationLocked: the newest that handles the *)
(* arguments, and all do, also one that has had all its calls.               *)
FindMatchingExpectation(exps) == Len(exps)
Saturated(e) == e.calls >= e.wanted

(* FunctionMocker::InvokeWith: with no expectation the call is uninteresting; *)
(* else it counts, in excess if the expectation was saturated before.  The    *)
(* failure that an excessive call or a strict mock's uninteresting one is    *)
(* follows the action, if that comes back, in the destructor of a cleanup    *)
(* handler: no exception can leave it.                                       *)
InvokeWith(a, f, x) ==
  /\ Use(a)
  /\ LET outcome == PerformDefaultAction(a, f, x)
         exps == object[a].exps[f]
         i == FindMatchingExpectation(exps)
         aborts == outcome.status = "aborts"
         fails == IF exps = <<>> THEN GetReaction(a) = "fail" ELSE Saturated(exps[i])
     IN
     /\ world' = outcome.world
     /\ ended' = IF aborts THEN "aborted" ELSE IF fails /\ throw_on_failure THEN "terminated" ELSE ended
     /\ \/ /\ exps = <<>>
           /\ answers' = [reaction |-> GetReaction(a),
                          due |-> IF object[a].wrapper = "raw" THEN default_mock_behavior
                                  ELSE ReactionOf(object[a].wrapper),
                          results |-> Append(answers.results, Answer(outcome))]
           /\ UNCHANGED <<object, reports>>
        \/ /\ exps # <<>>
           /\ object' = [object EXCEPT ![a].exps[f][i].calls = @ + 1]
           /\ reports' = [reports EXCEPT ![exps[i].id] = @ + IF fails /\ ~aborts THEN 1 ELSE 0]
           /\ answers' = [answers EXCEPT !.results = Append(@, Answer(outcome))]
  /\ UNCHANGED <<flags, registry, reaction, default_value, made, gone>>

--------------------------------------------------------------------------------
(* UntypedFunctionMockerBase::VerifyAndClearExpectationsLocked reports what   *)
(* has had too few calls: one with too many was reported at each.  With      *)
(* throw_on_failure the first failure leaves, before the list is cleared.    *)
Unmet(exps) == {i \in DOMAIN exps : exps[i].calls < exps[i].wanted}
Reported(exps) ==
  IF throw_on_failure
  THEN {exps[i].id : i \in {j \in Unmet(exps) : \A k \in Unmet(exps) : j <= k}}
  ELSE {exps[i].id : i \in Unmet(exps)}
Escapes(exps) == throw_on_failure /\ Unmet(exps) # {}

(* Who is declared before whom.  The registry's set is in the order of the   *)
(* addresses, which is that of declaration.                                  *)
DeclarationOrder == {<<Functions[p[1]], Functions[p[2]]>> :
                       p \in {q \in (DOMAIN Functions) \X (DOMAIN Functions) : q[1] < q[2]}}
Reversed(order) == {<<p[2], p[1]>> : p \in order}

(* The mock functions that a verification in this order gets to: all, or     *)
(* those up to the first from which an exception escapes.                    *)
Reaches(a, mockers, order) ==
  {f \in mockers : \A g \in mockers : <<g, f>> \in order => ~Escapes(object[a].exps[g])}

(* A slip: what cannot be verified is forgotten *)
ClearsAll(a, mockers, order) == mockers
Clears(a, mockers, order) == {f \in Reaches(a, mockers, order) : ~Escapes(object[a].exps[f])}

VerifyMockers(a, mockers, order) ==
  LET told == UNION {Reported(object[a].exps[f]) : f \in Reaches(a, mockers, order)} IN
  /\ reports' = [e \in DOMAIN reports |-> reports[e] + IF e \in told THEN 1 ELSE 0]
  /\ gone' = gone \union UNION {{object[a].exps[f][i] : i \in DOMAIN object[a].exps[f]} :
                                  f \in Clears(a, mockers, order)}

(* Mock::VerifyAndClearExpectations and Mock::VerifyAndClear *)
Verify(a, actions_too) ==
  /\ Use(a) /\ registry[a] # None
  /\ VerifyMockers(a, registry[a].mockers, DeclarationOrder)
  /\ object' = [object EXCEPT
       ![a].exps = [f \in FunctionSet |->
         IF f \in Clears(a, registry[a].mockers, DeclarationOrder) THEN <<>> ELSE @[f]],
       ![a].specs = [f \in FunctionSet |->
         IF actions_too /\ f \in registry[a].mockers THEN <<>> ELSE @[f]]]
  /\ UNCHANGED <<flags, registry, reaction, default_value, world, ended, made, answers>>

(* Mock::UnregisterLocked, of every mock function of a: the entry goes with  *)
(* the last that was in it.                                                  *)
UnregisterLocked(a) ==
  [registry EXCEPT ![a] = IF @ # None /\ @.mockers # {} THEN None ELSE @]

UnregisterCallReaction(a) == [reaction EXCEPT ![a] = None]

(* The mock functions destroy in reverse order, each verified, unregistered  *)
(* and cleared; then the wrapper's base.  An exception cannot leave a        *)
(* destructor.                                                               *)
Destroy(a) ==
  /\ Lives(a)
  /\ VerifyMockers(a, FunctionSet, Reversed(DeclarationOrder))
  /\ IF \E f \in FunctionSet : Escapes(object[a].exps[f])
     THEN ended' = "terminated" /\ UNCHANGED <<object, registry, reaction>>
     ELSE /\ object' = [object EXCEPT ![a] = None]
          /\ registry' = UnregisterLocked(a)
          /\ reaction' = IF object[a].wrapper = "raw" THEN reaction ELSE UnregisterCallReaction(a)
          /\ UNCHANGED ended
  /\ UNCHANGED <<flags, default_value, world, made, uses, answers>>

(* MockObjectRegistry::~MockObjectRegistry, when the program exits; a slip:  *)
(* one leakable object excuses all.                                          *)
LeakedUnlessAny == IF \E a \in Addresses : registry[a] # None /\ registry[a].leakable THEN {}
                   ELSE {a \in Addresses : registry[a] # None}
Leaked == {a \in Addresses : registry[a] # None /\ ~registry[a].leakable}
Exit ==
  /\ ended = None
  /\ ended' = IF Leaked = {} THEN "exit 0" ELSE "exit 1"
  /\ UNCHANGED <<flags, object, registry, reaction, default_value, world, made, uses, reports,
                 gone, answers>>

ObjectsNext ==
  \/ \E a \in Addresses :
       \/ \E wrapper \in Wrappers : Construct(a, wrapper)
       \/ AllowLeak(a) \/ Destroy(a)
       \/ \E actions_too \in BOOLEAN : Verify(a, actions_too)
       \/ \E f \in FunctionSet :
            \/ \E accepts \in {Args, {CHOOSE x \in Args : TRUE}}, action \in Defaults :
                 OnCall(a, f, accepts, action)
            \/ \E wanted \in 0 .. 1 : ExpectCall(a, f, wanted)
            \/ \E x \in Args : InvokeWith(a, f, x)
  \/ \E v \in {None, 1} : SetDefaultValue(v)
  \/ Exit

ObjectsSpec == ObjectsInit /\ [][ObjectsNext]_object_vars
--------------------------------------------------------------------------------
(* The reaction to an uninteresting call is that of the object's own wrapper, *)
(* or the default without one, whatever objects had its address before and   *)
(* however their lives ended (NiceMockImpl, UnregisterCallReaction).         *)
ReactionIsOwn ==
  /\ answers.reaction = answers.due
  /\ \A a \in Addresses : object[a] = None => reaction[a] = None

(* No failure is passed over, and none reported twice: for an expectation as  *)
(* many are reported as it has had calls in excess, and when it is deleted   *)
(* with too few, one more, also when an earlier function's failure threw out *)
(* of the loop over the mock functions of the object                         *)
(* (Mock::VerifyAndClearExpectationsLocked).  Where failures throw, one that *)
(* is due is reported at least once, at each verification that it leaves.    *)
(* Only an action that does not come back keeps one from being reported.     *)
Excess(e) == IF e.calls > e.wanted THEN e.calls - e.wanted ELSE 0
Missing(e) == IF e.calls < e.wanted THEN 1 ELSE 0
Settled(n, due) == IF throw_on_failure THEN due > 0 => n > 0 ELSE n = due

NothingPassedOver ==
  /\ ended # "aborted" =>
       \A a \in Addresses, f \in FunctionSet : object[a] # None =>
         \A i \in DOMAIN object[a].exps[f] :
           Settled(reports[object[a].exps[f][i].id], Excess(object[a].exps[f][i]))
  /\ \A e \in gone : Settled(reports[e.id], Excess(e) + Missing(e))

(* A program that ends while a mock object lives that ON_CALL() or           *)
(* EXPECT_CALL() was used on and that AllowLeak() does not excuse exits with *)
(* 1, and no other does (~MockObjectRegistry).  An object that was given an  *)
(* address where AllowLeak() had been called, and nothing else, on an object *)
(* that is gone is excepted: it finds that one's entry.                      *)
LeaksReported ==
  ended \in {"exit 0", "exit 1"} =>
    (ended = "exit 1" <=>
       \E a \in Addresses : object[a] # None /\ object[a].used /\ ~object[a].excused
                              /\ ~object[a].old_entry)

(* A ReturnRoundRobin() gives its values in turn, over all the copies of it  *)
(* that ON_CALL()s hold and all the calls that perform them, and a ByMove()  *)
(* gives its value once (ReturnRoundRobinAction, ReturnAction<ByMoveWrapper>). *)
GivenBy(kinds) ==
  LET values == UNION {IF a.is = "ReturnRoundRobin" THEN {a.values[i] : i \in DOMAIN a.values} ELSE {a.value} :
                         a \in {d \in Defaults : d.is \in kinds}}
  IN  SelectSeq(answers.results, LAMBDA v : v \in values)

SharedStateHolds ==
  /\ \A a \in Defaults : a.is = "ReturnRoundRobin" =>
       \A i \in DOMAIN GivenBy({"ReturnRoundRobin"}) :
         GivenBy({"ReturnRoundRobin"})[i] = a.values[1 + ((i - 1) % Len(a.values))]
  /\ Len(GivenBy({"ReturnByMove"})) <= 1

(* What is recorded of an address is about the object there: its reaction to *)
(* uninteresting calls, and whether it leaks (the reaction map and the mock   *)
(* object registry of gmock-spec-builders.cc).                               *)
RegistriesTrue == ReactionIsOwn /\ LeaksReported
================================================================================
