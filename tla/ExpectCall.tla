------------------------------ MODULE ExpectCall -------------------------------
(***************************************************************************)
(* One EXPECT_CALL() statement of googlemock: the order of its clauses, the  *)
(* cardinality they give or imply, the check of the number of actions        *)
(* against it, and the action that each call of the mock function takes.     *)
(*                                                                          *)
(* The expectation is alone: it has no pre-requisites and its matchers       *)
(* accept every call.  MockExpectations has the others.                      *)
(***************************************************************************)
EXTENDS CallCardinality, Sequences

CONSTANTS MaxClauses,  \* the longest statement
          MaxCalls,    \* calls after it
          Bounds       \* the arguments of Between() in Times()

ASSUME ExpectCallAssumption ==
  /\ MaxClauses \in Nat /\ MaxCalls \in Nat /\ MaxClauses <= IntMax
  /\ Bounds \subseteq (- IntMax - 1 .. IntMax) \X (- IntMax - 1 .. IntMax)

(* ExpectationBase::Clause *)
kNone == 0
kWith == 1
kTimes == 2
kInSequence == 3
kAfter == 4
kWillOnce == 5
kWillRepeatedly == 6
kRetiresOnSaturation == 7

VARIABLES
  lastClause,            \* last_clause_
  specified, cardinality, \* cardinality_specified_, cardinality_
  actions,               \* the number of WillOnce() actions
  repeated,              \* repeated_action_specified_
  retires, retired,      \* retires_on_saturation_, retired_
  checked,               \* action_count_checked_
  callCount,             \* call_count_
  open, deleted,         \* the statement is not over; the expectation is gone
  (* what the user sees, and the history the properties are about *)
  chain,                 \* the clauses so far
  misplaced,             \* failures reported on the place of a clause
  nonsense,              \* failures reported on the bounds of Between()
  warnings,              \* warnings on the number of actions
  excess,                \* excessive calls
  ranOut,                \* the call counts at which the actions had run out
  performed              \* the WillOnce() actions performed, in order

clauses == <<specified, cardinality, actions, repeated, retires>>
life    == <<open, deleted>>
state   == <<retired, callCount, excess, ranOut, performed>>
vars    == <<lastClause, clauses, checked, state, life, chain, misplaced, nonsense, warnings>>

Init ==
  /\ lastClause = kNone /\ chain = <<>> /\ open = TRUE /\ deleted = FALSE
  /\ specified = FALSE /\ cardinality = Exactly(1)
  /\ actions = 0 /\ repeated = FALSE
  /\ retires = FALSE /\ retired = FALSE
  /\ checked = FALSE /\ callCount = 0
  /\ misplaced = 0 /\ nonsense = 0 /\ warnings = <<>>
  /\ excess = 0 /\ ranOut = {} /\ performed = <<>>

--------------------------------------------------------------------------------
(* The clauses: a misplaced one is reported and takes effect all the same *)

Clause(c, fine) ==
  /\ open /\ Len(chain) < MaxClauses
  /\ lastClause' = c
  /\ chain' = Append(chain, c)
  /\ misplaced' = misplaced + IF fine THEN 0 ELSE 1

(* A slip: one action short is not too few *)
TooFewByTwo(n, rep, c) == 0 < n /\ n < c.min - 1 /\ ~ rep

TooMany(n, rep, c) == n > c.max \/ (n = c.max /\ rep)
TooFew(n, rep, c)  == 0 < n /\ n < c.min /\ ~ rep

(* A slip: checked every time *)
CheckActionCount(n, rep, spec, c) ==
  /\ checked' = TRUE
  /\ warnings' = IF ~ spec THEN warnings
                 ELSE IF TooMany(n, rep, c) THEN Append(warnings, "too many")
                 ELSE IF TooFew(n, rep, c) THEN Append(warnings, "too few")
                 ELSE warnings

(* Once, and only against an explicit Times() *)
CheckActionCountIfNotDone(n, rep, spec, c) ==
  /\ checked' = TRUE
  /\ warnings' = IF checked \/ ~ spec THEN warnings
                 ELSE IF TooMany(n, rep, c) THEN Append(warnings, "too many")
                 ELSE IF TooFew(n, rep, c) THEN Append(warnings, "too few")
                 ELSE warnings

With ==
  /\ Clause(kWith, lastClause < kWith)
  /\ UNCHANGED <<clauses, checked, state, life, nonsense, warnings>>

(* Times(Between(lo, hi)); the bounds are reported too if they make no sense *)
Times ==
  \E b \in Bounds :
    /\ Clause(kTimes, lastClause < kTimes)
    /\ nonsense' = nonsense + IF InvalidBounds(b[1], b[2]) THEN 1 ELSE 0
    /\ specified' = TRUE /\ cardinality' = Between(b[1], b[2])
    /\ UNCHANGED <<actions, repeated, retires, checked, state, life, warnings>>

InSequence ==
  /\ Clause(kInSequence, lastClause <= kInSequence)
  /\ UNCHANGED <<clauses, checked, state, life, nonsense, warnings>>

After ==
  /\ Clause(kAfter, lastClause <= kAfter)
  /\ UNCHANGED <<clauses, checked, state, life, nonsense, warnings>>

(* The cardinality implied by n WillOnce() clauses *)
Implied(n) == Exactly(n)

WillOnce ==
  /\ Clause(kWillOnce, lastClause <= kWillOnce)
  /\ actions' = actions + 1
  /\ cardinality' = IF specified THEN cardinality ELSE Implied(actions')
  /\ UNCHANGED <<specified, repeated, retires, checked, state, life, nonsense, warnings>>

WillRepeatedly ==
  /\ Clause(kWillRepeatedly, lastClause < kWillRepeatedly)
  /\ repeated' = TRUE
  /\ cardinality' = IF specified THEN cardinality ELSE AtLeast(actions)
  /\ CheckActionCountIfNotDone(actions, TRUE, specified, cardinality)
  /\ UNCHANGED <<specified, actions, retires, state, life, nonsense>>

RetiresOnSaturation ==
  /\ Clause(kRetiresOnSaturation, lastClause < kRetiresOnSaturation)
  /\ retires' = TRUE
  /\ CheckActionCountIfNotDone(actions, repeated, specified, cardinality)
  /\ UNCHANGED <<specified, cardinality, actions, repeated, state, life, nonsense>>

EndStatement ==
  /\ open /\ open' = FALSE
  /\ UNCHANGED <<deleted, lastClause, clauses, checked, state, chain, misplaced, nonsense, warnings>>

--------------------------------------------------------------------------------
(* The calls *)

IsSaturated == IsSaturatedByCallCount(cardinality, callCount)

(* GetCurrentAction of the n-th call: the n-th WillOnce() action, or 0 for   *)
(* the repeated one, which is the default action unless specified.           *)
CurrentAction(n) == IF n <= actions THEN n ELSE 0

(* ShouldHandleArguments checks the actions, if no clause has: the call is   *)
(* not for a retired expectation.                                            *)
Retired ==
  /\ ~ open /\ ~ deleted /\ retired
  /\ CheckActionCountIfNotDone(actions, repeated, specified, cardinality)
  /\ UNCHANGED <<lastClause, clauses, state, life, chain, misplaced, nonsense>>

(* GetActionForArguments: a call too many takes the default action *)
ExcessiveCall ==
  /\ ~ open /\ ~ deleted /\ ~ retired /\ callCount < MaxCalls /\ IsSaturated
  /\ CheckActionCountIfNotDone(actions, repeated, specified, cardinality)
  /\ callCount' = callCount + 1
  /\ excess' = excess + 1
  /\ UNCHANGED <<lastClause, clauses, retired, ranOut, performed, life, chain,
                 misplaced, nonsense>>

(* Whether the n-th call saturates the expectation *)
SaturatedBy(n) == IsSaturatedByCallCount(cardinality, n)

Call ==
  /\ ~ open /\ ~ deleted /\ ~ retired /\ callCount < MaxCalls /\ ~ IsSaturated
  /\ CheckActionCountIfNotDone(actions, repeated, specified, cardinality)
  /\ callCount' = callCount + 1
  /\ retired' = (retires /\ SaturatedBy(callCount + 1))
  /\ ranOut' = IF actions > 0 /\ ~ repeated /\ callCount + 1 > actions
               THEN ranOut \union {callCount + 1} ELSE ranOut
  /\ performed' = LET k == CurrentAction(callCount + 1)
                  IN  IF k > 0 THEN Append(performed, k) ELSE performed
  /\ UNCHANGED <<lastClause, clauses, excess, life, chain, misplaced, nonsense>>

(* ~TypedExpectation checks the actions as well, if nothing has before *)
DeleteExpectation ==
  /\ ~ open /\ ~ deleted /\ deleted' = TRUE
  /\ CheckActionCountIfNotDone(actions, repeated, specified, cardinality)
  /\ UNCHANGED <<lastClause, clauses, state, open, chain, misplaced, nonsense>>

Next ==
  \/ With \/ Times \/ InSequence \/ After \/ WillOnce \/ WillRepeatedly
  \/ RetiresOnSaturation \/ EndStatement
  \/ Retired \/ ExcessiveCall \/ Call \/ DeleteExpectation

Spec == Init /\ [][Next]_vars

--------------------------------------------------------------------------------
(* Properties *)

(* The type of every variable; the bounds can be met, whatever Times() says. *)
TypeOK ==
  /\ lastClause \in kNone .. kRetiresOnSaturation
  /\ specified \in BOOLEAN /\ cardinality \in CardinalityType
  /\ actions \in 0 .. MaxClauses
  /\ repeated \in BOOLEAN /\ retires \in BOOLEAN /\ retired \in BOOLEAN
  /\ checked \in BOOLEAN /\ callCount \in Nat /\ open \in BOOLEAN /\ deleted \in BOOLEAN
  /\ chain \in Seq(kWith .. kRetiresOnSaturation)
  /\ misplaced \in Nat /\ nonsense \in Nat /\ warnings \in Seq({"too many", "too few"})
  /\ excess \in Nat /\ ranOut \subseteq Nat \ {0} /\ performed \in Seq(Nat \ {0})
  /\ cardinality.min <= cardinality.max

(* A statement is in order if its clauses are in the order of the enum, and  *)
(* none but InSequence, After and WillOnce comes twice.                      *)
InOrder ==
  \A a, b \in 1 .. Len(chain) : a < b =>
    \/ chain[a] < chain[b]
    \/ chain[a] = chain[b] /\ chain[a] \in {kInSequence, kAfter, kWillOnce}

(* A clause is compared with the one before it only, and still exactly the   *)
(* statements out of order, in whatever way, are reported.                   *)
OrderJudged == InOrder <=> misplaced = 0

(* What a statement without Times() means ("implied cardinality"), when its  *)
(* clauses are in order: once, as often as there are WillOnce() clauses, or  *)
(* at least as often if there is a WillRepeatedly() too.                     *)
ImpliedCardinality ==
  InOrder /\ ~ specified =>
    cardinality = IF repeated THEN AtLeast(actions)
                  ELSE IF actions > 0 THEN Exactly(actions) ELSE Exactly(1)

(* The warning is given at most once, and early or late as it may be checked, *)
(* in a statement in order it is what the finished statement deserves; one    *)
(* that was never called has its warning when it goes.                       *)
WarningDeserved ==
  /\ Len(warnings) <= 1
  /\ InOrder /\ (checked \/ deleted) =>
       (warnings # <<>> <=> /\ specified
                            /\ \/ TooMany(actions, repeated, cardinality)
                               \/ TooFew(actions, repeated, cardinality))

(* Without Times(), actions never run out: the call after the last one is an *)
(* excessive call.  With it, they do not run out within the lower bound      *)
(* without the warning of too few.                                           *)
RunsOutOnlyAsWarned ==
  InOrder => \A n \in ranOut : specified /\ (n <= cardinality.min => warnings # <<>>)

(* Each WillOnce() action is performed at most once, in the order of the     *)
(* clauses: what lets a OnceAction be moved from ("a WillOnce action will    *)
(* not be called more than once", gmock-spec-builders.h).                    *)
OnceActionsOnce ==
  /\ performed = [k \in 1 .. Len(performed) |-> k]
  /\ Len(performed) <= actions

(* An expectation that retires on saturation never meets an excessive call:  *)
(* it is gone before, unless no call at all is allowed.                      *)
RetiredBeforeExcess ==
  retires /\ cardinality.max > 0 => excess = 0

(* A statement is judged for what it says: misplaced clauses, the cardinality *)
(* it implies, and the warning about its actions (ExpectSpecProperty,        *)
(* WillOnce, CheckActionCountIfNotDone).                                     *)
StatementJudged == OrderJudged /\ ImpliedCardinality /\ WarningDeserved

(* Its calls find the actions it promised, each once, and no call is too many *)
(* for an expectation that retires (GetCurrentAction, GetActionForArguments). *)
ActionsSuffice == RunsOutOnlyAsWarned /\ OnceActionsOnce /\ RetiredBeforeExcess
================================================================================
