--------------------------- MODULE MockExpectations ----------------------------
(***************************************************************************)
(* The expectations of googlemock: how EXPECT_CALL() statements build a     *)
(* graph of expectations, how a call to a mock function is matched against  *)
(* it, and what verification reports.                                       *)
(*                                                                          *)
(* An expectation is a number, in the order of creation, so the newest one  *)
(* is the greatest: a mock function searches its list from the back.  Every *)
(* action is one critical section of g_gmock_mutex (a call, a verification) *)
(* or one clause of an EXPECT_CALL() statement; MockThreads has the steps   *)
(* around the critical sections.                                            *)
(*                                                                          *)
(* The user keeps the library's contract: expectations on a mock function   *)
(* are set before it is first called (gmock_for_dummies.md), and no         *)
(* EXPECT_CALL() is nested in a clause of another.  Other mock functions    *)
(* may be called, and verified, while a statement is half-way.              *)
(***************************************************************************)
EXTENDS CallCardinality, Reachability

CONSTANTS Mockers,        \* the mock functions
          StrictMockers,  \* those whose mock object is a StrictMock
          Args,           \* the argument tuples of a call
          ArgMatchers,    \* what the matchers of a statement may accept
          Cardinalities,  \* what a Times() clause, or the actions, may ask for
          Handles,        \* the expectations whose handle the test keeps
          Sequences,      \* the Sequence objects of the test
          Implicit,       \* the sequence of the InSequence scope, if any
          MaxExp,         \* bound: number of EXPECT_CALL() statements
          MaxScope,       \* bound: nesting of InSequence scopes
          MaxCalls        \* bound: calls matched by one expectation

ASSUME MockExpectationsAssumption ==
  /\ StrictMockers \subseteq Mockers
  /\ ArgMatchers \subseteq SUBSET Args
  /\ Cardinalities \subseteq CardinalityType
  /\ \A c \in Cardinalities : c.min <= c.max
  /\ Handles \subseteq 1 .. MaxExp
  /\ Implicit \notin Sequences
  /\ MaxExp \in Nat \ {0} /\ MaxScope \in Nat /\ MaxCalls \in Nat

VARIABLES
  count,           \* expectations created so far: 1 .. count
  matchers,        \* the arguments each expectation accepts
  cardinality,     \* cardinality_
  retires,         \* the expectations with RetiresOnSaturation()
  prereqs,         \* immediate_prerequisites_
  callCount,       \* call_count_
  retired,         \* the expectations whose retired_ is set
  expectations,    \* untyped_expectations_ of each mock function
  lastExpectation, \* last_expectation_ of each sequence; 0 when empty
  scopes,          \* living InSequence objects
  open,            \* the expectation whose statement is running; 0 if none
  clause,          \* its last_clause_
  exercised,       \* mock functions that have been called
  unexpected,      \* mock functions with a reported unexpected call
  excess,          \* expectations with a reported excessive call
  verdict,         \* what verification found of each expectation
  members          \* history: the expectations added to each sequence

graphVars  == <<count, matchers, prereqs, expectations, lastExpectation, members>>
callVars   == <<callCount, retired, exercised, unexpected, excess>>
clauseVars == <<cardinality, retires, open, clause>>
vars       == <<graphVars, callVars, clauseVars, scopes, verdict>>

Ids    == 1 .. MaxExp
Exps   == 1 .. count
AllSeq == Sequences \union {Implicit}

(* enum Clause: the order in which a statement may name its clauses *)
kNone == 0
kTimes == 2
kInSequence == 3
kAfter == 4
kRetiresOnSaturation == 7

--------------------------------------------------------------------------------
(* The state of an expectation *)

IsSatisfied(e)     == IsSatisfiedByCallCount(cardinality[e], callCount[e])
IsSaturated(e)     == IsSaturatedByCallCount(cardinality[e], callCount[e])
IsOverSaturated(e) == IsOverSaturatedByCallCount(cardinality[e], callCount[e])

Ancestors(e) == Reach(Ids, prereqs[e], prereqs)

(* A slip: only the immediate prerequisites *)
ImmediatePrerequisitesAreSatisfied(e) == \A p \in prereqs[e] : IsSatisfied(p)

AllPrerequisitesAreSatisfied(e) == \A p \in Ancestors(e) : IsSatisfied(p)

(* A slip: none is retired *)
RetireNothing(e) == retired

(* Retires every unretired prerequisite, and goes on below those it retired: *)
(* the walk does not look behind an expectation that was retired before.     *)
RetireAllPreRequisites(e) ==
  IF e \in retired
    THEN retired
    ELSE retired \union Reach(Ids, prereqs[e] \ retired,
                              [x \in Ids |-> prereqs[x] \ retired])

(* A slip: does not look below a satisfied prerequisite *)
FindUnsatisfiedImmediate(e) == {y \in prereqs[e] : ~ IsSatisfied(y)}

(* The prerequisites named in the message of a failed call: the walk goes    *)
(* through those that are satisfied without having been called.              *)
FindUnsatisfiedPrerequisites(e) ==
  LET through == [x \in Ids |-> {y \in prereqs[x] :
                                   IsSatisfied(y) /\ callCount[y] = 0}]
  IN  {y \in UNION {prereqs[x] : x \in Reach(Ids, {e}, through)} :
         ~ IsSatisfied(y)}

ShouldHandleArguments(e, a) ==
  /\ e \notin retired
  /\ AllPrerequisitesAreSatisfied(e)
  /\ a \in matchers[e]

FindMatchingExpectation(m, a) ==
  LET handlers == {e \in expectations[m] : ShouldHandleArguments(e, a)}
  IN  {e \in handlers : \A f \in handlers : f <= e}

--------------------------------------------------------------------------------
(* The initial state: no expectation, no sequence *)

Init ==
  /\ count = 0
  /\ matchers = [e \in Ids |-> {}]
  /\ cardinality = [e \in Ids |-> Exactly(1)]
  /\ retires = {}
  /\ prereqs = [e \in Ids |-> {}]
  /\ callCount = [e \in Ids |-> 0]
  /\ retired = {}
  /\ expectations = [m \in Mockers |-> {}]
  /\ lastExpectation = [s \in AllSeq |-> 0]
  /\ scopes = 0
  /\ open = 0 /\ clause = kNone
  /\ exercised = {} /\ unexpected = {} /\ excess = {}
  /\ verdict = [e \in Ids |-> "pending"]
  /\ members = [s \in AllSeq |-> {}]

--------------------------------------------------------------------------------
(* Setting expectations *)

(* A slip: the sequence's end stays at its first expectation *)
AddExpectationBehindFirst(s, e) ==
  /\ prereqs' = IF lastExpectation[s] # 0
                  THEN [prereqs EXCEPT ![e] = @ \union {lastExpectation[s]}]
                  ELSE prereqs
  /\ lastExpectation' = [lastExpectation EXCEPT ![s] = IF @ = 0 THEN e ELSE @]
  /\ members' = [members EXCEPT ![s] = @ \union {e}]

(* Sequence::AddExpectation: what e must wait for, and the sequence's new end *)
AddExpectation(s, e) ==
  IF lastExpectation[s] = e
    THEN UNCHANGED <<prereqs, lastExpectation, members>>
    ELSE /\ prereqs' = IF lastExpectation[s] # 0
                         THEN [prereqs EXCEPT ![e] = @ \union {lastExpectation[s]}]
                         ELSE prereqs
         /\ lastExpectation' = [lastExpectation EXCEPT ![s] = e]
         /\ members' = [members EXCEPT ![s] = @ \union {e}]

(* EXPECT_CALL(mock, m(A)): the expectation joins the list of its mock       *)
(* function and, within an InSequence scope, the implicit sequence.          *)
AddNewExpectation(m, A) ==
  /\ open = 0 /\ count < MaxExp /\ m \notin exercised
  /\ LET e == count + 1 IN
       /\ count' = e
       /\ matchers' = [matchers EXCEPT ![e] = A]
       /\ expectations' = [expectations EXCEPT ![m] = @ \union {e}]
       /\ IF scopes > 0
            THEN AddExpectation(Implicit, e)
            ELSE UNCHANGED <<prereqs, lastExpectation, members>>
       /\ open' = e /\ clause' = kNone
  /\ UNCHANGED <<callVars, cardinality, retires, scopes, verdict>>

(* .Times(c); the WillOnce() and WillRepeatedly() clauses infer it likewise *)
Times(c) ==
  /\ open # 0 /\ clause < kTimes
  /\ clause' = kTimes
  /\ cardinality' = [cardinality EXCEPT ![open] = c]
  /\ UNCHANGED <<graphVars, callVars, retires, open, scopes, verdict>>

(* .InSequence(s) *)
InSequence(s) ==
  /\ open # 0 /\ clause <= kInSequence
  /\ clause' = kInSequence
  /\ AddExpectation(s, open)
  /\ UNCHANGED <<count, matchers, expectations, callVars, cardinality, retires,
                 open, scopes, verdict>>

(* A slip: the statement may wait for itself *)
AfterItself(p) ==
  /\ open # 0 /\ clause <= kAfter /\ p <= open
  /\ clause' = kAfter
  /\ prereqs' = [prereqs EXCEPT ![open] = @ \union {p}]
  /\ UNCHANGED <<count, matchers, expectations, lastExpectation, members,
                 callVars, cardinality, retires, open, scopes, verdict>>

(* .After(p): p is a handle that an earlier statement returned *)
After(p) ==
  /\ open # 0 /\ clause <= kAfter /\ p < open
  /\ clause' = kAfter
  /\ prereqs' = [prereqs EXCEPT ![open] = @ \union {p}]
  /\ UNCHANGED <<count, matchers, expectations, lastExpectation, members,
                 callVars, cardinality, retires, open, scopes, verdict>>

(* .RetiresOnSaturation() *)
RetiresOnSaturation ==
  /\ open # 0 /\ clause < kRetiresOnSaturation
  /\ clause' = kRetiresOnSaturation
  /\ retires' = retires \union {open}
  /\ UNCHANGED <<graphVars, callVars, cardinality, open, scopes, verdict>>

(* The semicolon at the end of an EXPECT_CALL() statement *)
EndStatement ==
  /\ open # 0
  /\ open' = 0 /\ clause' = kNone
  /\ UNCHANGED <<graphVars, callVars, cardinality, retires, scopes, verdict>>

(* InSequence::InSequence: only the outermost scope creates a sequence *)
EnterInSequence ==
  /\ open = 0 /\ scopes < MaxScope
  /\ scopes' = scopes + 1
  /\ IF scopes = 0
       THEN /\ lastExpectation' = [lastExpectation EXCEPT ![Implicit] = 0]
            /\ members' = [members EXCEPT ![Implicit] = {}]
       ELSE UNCHANGED <<lastExpectation, members>>
  /\ UNCHANGED <<count, matchers, prereqs, expectations, callVars, clauseVars,
                 verdict>>

(* InSequence::~InSequence: the scope that created the sequence deletes it *)
LeaveInSequence ==
  /\ open = 0 /\ scopes > 0
  /\ scopes' = scopes - 1
  /\ UNCHANGED <<graphVars, callVars, clauseVars, verdict>>

--------------------------------------------------------------------------------
(* Calls *)

(* No other thread may use a mock function whose EXPECT_CALL() is half-way *)
Usable(m) == open \notin expectations[m]

(* No expectation on m: uninteresting, which only a StrictMock reports *)
UninterestingCall(m) ==
  /\ Usable(m) /\ expectations[m] = {}
  /\ exercised' = exercised \union {m}
  /\ unexpected' = IF m \in StrictMockers THEN unexpected \union {m} ELSE unexpected
  /\ UNCHANGED <<graphVars, callCount, retired, excess, clauseVars, scopes, verdict>>

UnexpectedCall(m, a) ==
  /\ Usable(m) /\ expectations[m] # {}
  /\ FindMatchingExpectation(m, a) = {}
  /\ exercised' = exercised \union {m}
  /\ unexpected' = unexpected \union {m}
  /\ UNCHANGED <<graphVars, callCount, retired, excess, clauseVars, scopes, verdict>>

(* A slip: asked after the call was counted *)
IsExcessiveAfterwards(e) ==
  IsSaturatedByCallCount(cardinality[e], callCount[e] + 1)

(* is_excessive, asked before the call is counted *)
IsExcessive(e) == IsSaturated(e)

(* GetActionForArguments on the expectation e that handles the call: a       *)
(* saturated one counts the call and nothing else, and the call is reported  *)
(* as excessive; any other retires its prerequisites and perhaps itself.     *)
MatchedCall(m, a) == \E e \in FindMatchingExpectation(m, a) :
  /\ Usable(m) /\ callCount[e] < MaxCalls
  /\ callCount' = [callCount EXCEPT ![e] = @ + 1]
  /\ IF IsExcessive(e)
       THEN /\ excess' = excess \union {e}
            /\ UNCHANGED retired
       ELSE /\ retired' = RetireAllPreRequisites(e) \union
                            (IF /\ e \in retires
                                /\ IsSaturatedByCallCount(cardinality[e],
                                                          callCount[e] + 1)
                               THEN {e} ELSE {})
            /\ UNCHANGED excess
  /\ exercised' = exercised \union {m}
  /\ UNCHANGED <<graphVars, unexpected, clauseVars, scopes, verdict>>

(* VerifyAndClearExpectationsLocked: reports the expectations that lack      *)
(* calls, counts the over-saturated ones as failed, and clears the list.     *)
VerifyAndClear(m) ==
  /\ Usable(m) /\ expectations[m] # {}
  /\ verdict' = [e \in Ids |->
                   IF e \notin expectations[m] THEN verdict[e]
                   ELSE IF IsOverSaturated(e) THEN "over"
                   ELSE IF ~ IsSatisfied(e) THEN "missing"
                   ELSE "met"]
  /\ expectations' = [expectations EXCEPT ![m] = {}]
  /\ UNCHANGED <<count, matchers, prereqs, lastExpectation, members, callVars,
                 clauseVars, scopes>>

Next ==
  \/ \E m \in Mockers, A \in ArgMatchers : AddNewExpectation(m, A)
  \/ \E c \in Cardinalities : Times(c)
  \/ \E s \in Sequences : InSequence(s)
  \/ \E p \in Handles : After(p)
  \/ RetiresOnSaturation
  \/ EndStatement
  \/ EnterInSequence
  \/ LeaveInSequence
  \/ \E m \in Mockers : UninterestingCall(m)
  \/ \E m \in Mockers, a \in Args : UnexpectedCall(m, a)
  \/ \E m \in Mockers, a \in Args : MatchedCall(m, a)
  \/ \E m \in Mockers : VerifyAndClear(m)

Spec == Init /\ [][Next]_vars

--------------------------------------------------------------------------------
(* Properties *)

(* The calls an expectation has taken within its bound: a call beyond it is *)
(* counted by the code too, but it is a failure and retires nothing.        *)
Accepted(e) == IF IsOverSaturated(e) THEN cardinality[e].max ELSE callCount[e]

(* The type of every variable; a prerequisite is an older expectation, so    *)
(* the prerequisite walks of gmock-spec-builders.cc end.                     *)
TypeOK ==
  /\ count \in 0 .. MaxExp
  /\ matchers \in [Ids -> SUBSET Args]
  /\ cardinality \in [Ids -> CardinalityType]
  /\ retires \subseteq Ids
  /\ prereqs \in [Ids -> SUBSET Ids]
  /\ \A e \in Ids : \A p \in prereqs[e] : p < e
  /\ callCount \in [Ids -> Nat]
  /\ retired \subseteq Ids
  /\ expectations \in [Mockers -> SUBSET Ids]
  /\ lastExpectation \in [AllSeq -> 0 .. MaxExp]
  /\ scopes \in 0 .. MaxScope
  /\ open \in 0 .. MaxExp
  /\ clause \in {kNone, kTimes, kInSequence, kAfter, kRetiresOnSaturation}
  /\ exercised \subseteq Mockers
  /\ unexpected \subseteq Mockers
  /\ excess \subseteq Ids
  /\ verdict \in [Ids -> {"pending", "met", "over", "missing"}]
  /\ members \in [AllSeq -> SUBSET Ids]

(* "we never retire an expectation until we have retired all its             *)
(* pre-requisites" (gmock-spec-builders.cc:112): the short-cut at the head   *)
(* of RetireAllPreRequisites, and its walk that stops at retired ones, are   *)
(* only right if everything before a retired expectation is retired.         *)
RetiredIsClosed == \A e \in retired : Ancestors(e) \subseteq retired

(* Once an expectation has taken a call, nothing that had to come before it  *)
(* may take another: all of it is retired, and was satisfied when it was.    *)
PrerequisitesFrozen ==
  \A e \in Exps : Accepted(e) > 0 =>
    Ancestors(e) \subseteq {p \in retired : IsSatisfied(p)}

(* FindUnsatisfiedPrerequisites only looks below satisfied prerequisites     *)
(* that were never called (gmock-spec-builders.cc:170).  It is right to: it  *)
(* finds nothing exactly when AllPrerequisitesAreSatisfied, so the message   *)
(* of a failed call never blames an empty list.                              *)
UnsatisfiedPrerequisitesExact ==
  \A e \in Exps :
    AllPrerequisitesAreSatisfied(e) <=> FindUnsatisfiedPrerequisites(e) = {}

(* The expectations of a sequence take their calls in the order of their     *)
(* statements, whatever else the statements asked for: when a later one has  *)
(* been called, the earlier ones are complete and can take no more.          *)
SequencesInOrder ==
  \A s \in AllSeq : \A d, e \in members[s] :
    d < e /\ Accepted(e) > 0 => d \in retired /\ IsSatisfied(d)

(* "the error was already reported when it occurred" (gmock-spec-builders.cc *)
(* :403): what verification passes over in silence was reported by the call  *)
(* and what it reports was not, also for expectations cleared long ago.      *)
ViolationsReportedOnce ==
  \A e \in Exps : verdict[e] # "pending" =>
    /\ e \in excess <=> verdict[e] = "over"
    /\ IsSatisfied(e) <=> verdict[e] = "met"

(* A retired expectation stays retired and takes no call, nor does one that  *)
(* verification cleared: no later clause, call or scope revives it.          *)
RetiredForever ==
  [][ /\ retired \subseteq retired'
      /\ \A e \in Exps : e \in retired \/ verdict[e] # "pending" =>
           callCount'[e] = callCount[e] /\ IsSatisfied(e)' = IsSatisfied(e) ]_vars

(* The promise the expectations implement: what waits for what, and who may  *)
(* be called now, told without matchers, retirement, lists or sequences.     *)
Order == INSTANCE CallOrder WITH
  Items <- Ids, Bounds <- CardinalityType,
  before <- [e \in Ids |-> Ancestors(e)],
  bound <- cardinality, calls <- callCount

(* Every call an expectation takes is one the abstract order allows: nothing *)
(* before it lacks or exceeds its calls, and nothing after it has begun.     *)
ImplementsCallOrder == Order!Spec
================================================================================
