----------------------------- MODULE MockThreads -------------------------------
(***************************************************************************)
(* Mock objects used from several threads, and from their own actions: what *)
(* happens around the critical sections of MockExpectations.                *)
(*                                                                          *)
(* A call of a mock function looks at the list of expectations without the  *)
(* lock, matches under g_gmock_mutex, performs the action without it (the   *)
(* action may call, verify or delete mocks) and reports after that.  The    *)
(* verification and the destruction of a mock object hold the lock, but let *)
(* go of it to delete expectations, whose actions may own other mocks.      *)
(*                                                                          *)
(* Each thread runs a program, a sequence of operations, on a stack of      *)
(* frames: the operation on top is the one that runs.  Every expectation    *)
(* accepts every argument; MockExpectations has the matching.               *)
(***************************************************************************)
EXTENDS Integers, Sequences, FiniteSets

CONSTANTS Threads, Mockers, Objects,
          ObjectOf,       \* the mock object of each mock function
          Exps,           \* the expectations, numbered by age
          MockerOf,       \* the mock function each is set on
          Min, Max,       \* the bounds of its cardinality
          Action,         \* what its action does: an operation
          DefaultAction,  \* what the ON_CALL() of a mock function does
          Owns,           \* mock objects whose last reference its action holds
          Programs,       \* what a test may do: the operations of each thread
          Raced,          \* objects verified while other threads call them
          Nobody          \* the mutex is free

Op(op, on) == [op |-> op, on |-> on]
NoOp == Op("return", Nobody)
Operations ==
  {Op("call", m) : m \in Mockers}
    \union {Op(op, o) : op \in {"verify", "destroy"}, o \in Objects}
Joins == {Op("join", t) : t \in Threads}

ASSUME MockThreadsAssumption ==
  /\ Exps \subseteq Nat
  /\ ObjectOf \in [Mockers -> Objects] /\ MockerOf \in [Exps -> Mockers]
  /\ \A e \in Exps : Min[e] \in Nat /\ Max[e] \in Nat /\ Owns[e] \subseteq Objects
  /\ \A e \in Exps : Action[e] \in Operations \union {NoOp}
  /\ \A m \in Mockers : DefaultAction[m] \in Operations \union {NoOp}
  /\ Programs \subseteq [Threads -> Seq(Operations \union Joins)] /\ Raced \subseteq Objects
  /\ Nobody \notin Threads

VARIABLES
  mutex,        \* who holds g_gmock_mutex
  stack,        \* the running operations of each thread, innermost last
  todo,         \* what is left of the program of each thread
  list,         \* untyped_expectations_ of each mock function
  registered,   \* the mock functions in g_mock_object_registry
  alive,        \* the mock functions not yet destroyed
  freed,        \* deleted expectations
  callCount,    \* call_count_ of each expectation
  reported,     \* excessive calls reported, per expectation
  unexpected,   \* unexpected calls reported
  verdict,      \* what verification said of each expectation
  dangling      \* uses of something deleted

vars == <<mutex, stack, todo, list, registered, alive, freed,
          callCount, reported, unexpected, verdict, dangling>>

memory == <<list, registered, alive, freed, verdict>>
report == <<reported, unexpected>>

Frame(op, pc) == [op |-> op.op, on |-> op.on, pc |-> pc,
                  exp |-> 0, excess |-> FALSE, member |-> Nobody,
                  done |-> {}, doomed |-> {}]

FirstPc == [call |-> "size", verify |-> "lock", destroy |-> "member"]

Running(t) == stack[t] # <<>>
Top(t) == stack[t][Len(stack[t])]
At(t, pc) == Running(t) /\ Top(t).pc = pc
Below(t) == SubSeq(stack[t], 1, Len(stack[t]) - 1)

(* The running frame becomes f; or it ends; or it calls another operation *)
Becomes(t, frame)   == stack' = [stack EXCEPT ![t] = Append(Below(t), frame)]
Returns(t)      == stack' = [stack EXCEPT ![t] = Below(t)]
Invokes(t, frame, op) ==
  stack' = [stack EXCEPT ![t] =
              IF op = NoOp THEN Append(Below(t), frame)
              ELSE Append(Below(t), frame) \o <<Frame(op, FirstPc[op.op])>>]

Goto(t, pc) == Becomes(t, [Top(t) EXCEPT !.pc = pc])

Uses(what, m, fine) ==      \* of the mock object of the function m
  dangling' = IF fine THEN dangling ELSE dangling \union {<<what, ObjectOf[m]>>}

Finished(t) == ~ Running(t) /\ todo[t] = <<>>

Init ==
  /\ mutex = Nobody
  /\ stack = [t \in Threads |-> <<>>]
  /\ todo \in Programs
  /\ list = [m \in Mockers |-> {e \in Exps : MockerOf[e] = m}]
  /\ registered = Mockers /\ alive = Mockers
  /\ freed = {}
  /\ callCount = [e \in Exps |-> 0]
  /\ reported = [e \in Exps |-> 0] /\ unexpected = 0
  /\ verdict = [e \in Exps |-> "pending"]
  /\ dangling = {}

(* The thread takes up the next operation of its program *)
Begin(t) ==
  /\ ~ Running(t) /\ todo[t] # <<>>
  /\ LET op == Head(todo[t]) IN
       IF op.op = "join"
         THEN Finished(op.on) /\ UNCHANGED stack
         ELSE stack' = [stack EXCEPT ![t] = <<Frame(op, FirstPc[op.op])>>]
  /\ todo' = [todo EXCEPT ![t] = Tail(@)]
  /\ UNCHANGED <<mutex, memory, callCount, report, dangling>>

--------------------------------------------------------------------------------
(* A call: FunctionMocker::InvokeWith *)

(* The list is read without the lock.  With no expectation the call is       *)
(* uninteresting, and how to react is looked up under the lock.              *)
ReadSize(t) ==
  /\ At(t, "size")
  /\ Uses("mocker", Top(t).on, Top(t).on \in alive)
  /\ IF list[Top(t).on] = {}
       THEN mutex = Nobody /\ Goto(t, "default")
       ELSE Goto(t, "find")
  /\ UNCHANGED <<mutex, todo, memory, callCount, report>>

(* A slip: asked after the call was counted *)
IsExcessiveAfterwards(e) == callCount[e] + 1 >= Max[e]

(* is_excessive, read before the call is counted *)
IsExcessive(e) == callCount[e] >= Max[e]

(* A slip: a call that is too many is not counted *)
FindMatchUncounted(t) ==
  /\ At(t, "find") /\ mutex = Nobody
  /\ Uses("mocker", Top(t).on, Top(t).on \in alive)
  /\ IF list[Top(t).on] = {}
       THEN /\ Goto(t, "unexpected")
            /\ UNCHANGED callCount
       ELSE \E e \in list[Top(t).on] :
              /\ \A d \in list[Top(t).on] : d <= e
              /\ callCount' = [callCount EXCEPT ![e] = IF IsExcessive(e) THEN @ ELSE @ + 1]
              /\ Becomes(t, [Top(t) EXCEPT !.exp = e, !.excess = IsExcessive(e),
                     !.pc = IF IsExcessive(e) THEN "default" ELSE "perform"])
  /\ UNCHANGED <<mutex, todo, memory, report>>

(* UntypedFindMatchingExpectation: one critical section.  The list may have  *)
(* been cleared since its size was read; then the call is unexpected.        *)
FindMatch(t) ==
  /\ At(t, "find") /\ mutex = Nobody
  /\ Uses("mocker", Top(t).on, Top(t).on \in alive)
  /\ IF list[Top(t).on] = {}
       THEN /\ Goto(t, "unexpected")
            /\ UNCHANGED callCount
       ELSE \E e \in list[Top(t).on] :
              /\ \A d \in list[Top(t).on] : d <= e
              /\ callCount' = [callCount EXCEPT ![e] = @ + 1]
              /\ Becomes(t, [Top(t) EXCEPT !.exp = e, !.excess = IsExcessive(e),
                     !.pc = IF IsExcessive(e) THEN "default" ELSE "perform"])
  /\ UNCHANGED <<mutex, todo, memory, report>>

(* PerformAction: the action is copied out of the expectation, then it runs *)
PerformAction(t) ==
  /\ At(t, "perform")
  /\ Uses("action", Top(t).on, Top(t).exp \notin freed)
  /\ Invokes(t, [Top(t) EXCEPT !.pc = "report"], Action[Top(t).exp])
  /\ UNCHANGED <<mutex, todo, memory, callCount, report>>

(* PerformDefaultAction: the ON_CALL() action runs where it is *)
PerformDefaultAction(t) ==
  /\ At(t, "default") \/ At(t, "unexpected")
  /\ Uses("mocker", Top(t).on, Top(t).on \in alive)
  /\ LET next == IF At(t, "unexpected") THEN "reportUnexpected" ELSE "report" IN
       Invokes(t, [Top(t) EXCEPT !.pc = next], DefaultAction[Top(t).on])
  /\ UNCHANGED <<mutex, todo, memory, callCount, report>>

(* A slip: the expectation is named whether it was exceeded or not *)
ReportAlways(t) ==
  /\ At(t, "report")
  /\ Uses("location", Top(t).on, Top(t).exp \notin freed)
  /\ reported' = IF Top(t).excess THEN [reported EXCEPT ![Top(t).exp] = @ + 1]
                 ELSE reported
  /\ Returns(t)
  /\ UNCHANGED <<mutex, todo, memory, callCount, unexpected>>

(* The end of the call: FailureCleanupHandler names the expectation that was *)
(* exceeded, after the action has run.                                       *)
Report(t) ==
  /\ At(t, "report")
  /\ IF Top(t).excess
       THEN /\ Uses("location", Top(t).on, Top(t).exp \notin freed)
            /\ reported' = [reported EXCEPT ![Top(t).exp] = @ + 1]
       ELSE UNCHANGED <<reported, dangling>>
  /\ Returns(t)
  /\ UNCHANGED <<mutex, todo, memory, callCount, unexpected>>

ReportUnexpected(t) ==
  /\ At(t, "reportUnexpected")
  /\ unexpected' = unexpected + 1
  /\ Returns(t)
  /\ UNCHANGED <<mutex, todo, memory, callCount, reported, dangling>>

--------------------------------------------------------------------------------
(* Verification and destruction *)

(* The functions of a registered mock object not verified by this frame yet *)
ToVerify(t) == {m \in registered : ObjectOf[m] = Top(t).on} \ Top(t).done

(* UntypedFunctionMockerBase::VerifyAndClearExpectationsLocked, up to the    *)
(* point where it unlocks the mutex to delete what it took off the list.     *)
VerifyAndSwap(t, m, pc) ==
  /\ verdict' = [e \in Exps |->
                   IF e \notin list[m] THEN verdict[e]
                   ELSE IF callCount[e] > Max[e] THEN "over"
                   ELSE IF callCount[e] < Min[e] THEN "missing" ELSE "met"]
  /\ list' = [list EXCEPT ![m] = {}]
  /\ mutex' = Nobody
  /\ Becomes(t, [Top(t) EXCEPT !.pc = pc, !.member = m, !.done = @ \union {m},
                               !.doomed = list[m]])

(* Mock::VerifyAndClearExpectations takes the lock *)
LockToVerify(t) ==
  /\ At(t, "lock") /\ mutex = Nobody
  /\ mutex' = t
  /\ Goto(t, "each")
  /\ UNCHANGED <<todo, memory, callCount, report, dangling>>

(* ... and goes through the mock functions of the object *)
VerifyMocker(t) ==
  /\ At(t, "each")
  /\ \E m \in ToVerify(t) : VerifyAndSwap(t, m, "drop")
  /\ UNCHANGED <<todo, registered, alive, freed, callCount, report,
                 dangling>>

VerifyDone(t) ==
  /\ At(t, "each") /\ ToVerify(t) = {}
  /\ mutex' = Nobody
  /\ Returns(t)
  /\ UNCHANGED <<todo, memory, callCount, report, dangling>>

(* expectations_to_delete.clear(), without the lock: an action that holds    *)
(* the last reference to a mock object deletes that object.                  *)
DropExpectation(t) ==
  /\ At(t, "drop") /\ Top(t).doomed # {}
  /\ \E e \in Top(t).doomed :
       /\ freed' = freed \union {e}
       /\ LET rest == [Top(t) EXCEPT !.doomed = @ \ {e}] IN
            IF Owns[e] = {} THEN Becomes(t, rest)
            ELSE \E o \in Owns[e] : Invokes(t, rest, Op("destroy", o))
  /\ UNCHANGED <<mutex, todo, list, registered, alive, callCount,
                 report, verdict, dangling>>

(* A slip: the walk starts again from the first function *)
RelockAndRestart(t) ==
  /\ At(t, "drop") /\ Top(t).doomed = {} /\ mutex = Nobody
  /\ mutex' = t
  /\ IF Top(t).op = "verify"
       THEN Becomes(t, [Top(t) EXCEPT !.pc = "each", !.done = {}])
       ELSE Goto(t, "unregister")
  /\ UNCHANGED <<todo, memory, callCount, report, dangling>>

(* The lock is taken again, and the walk over the set of mock functions      *)
(* goes on from the one just verified: it must still be in the set.          *)
Relock(t) ==
  /\ At(t, "drop") /\ Top(t).doomed = {} /\ mutex = Nobody
  /\ mutex' = t
  /\ IF Top(t).op = "verify"
       THEN /\ Uses("iterator", Top(t).member, Top(t).member \in registered)
            /\ Goto(t, "each")
       ELSE /\ UNCHANGED dangling
            /\ Goto(t, "unregister")
  /\ UNCHANGED <<todo, memory, callCount, report>>

(* FunctionMocker::~FunctionMocker of one member of a mock object: verifies, *)
(* unregisters, clears the default actions (which lets go of the lock once   *)
(* more) and is gone.                                                        *)
DestroyMember(t) ==
  /\ At(t, "member") /\ mutex = Nobody
  /\ \E m \in {m \in alive : ObjectOf[m] = Top(t).on} :
       VerifyAndSwap(t, m, "drop")
  /\ UNCHANGED <<todo, registered, alive, freed, callCount, report,
                 dangling>>

Unregister(t) ==
  /\ At(t, "unregister")
  /\ registered' = registered \ {Top(t).member}
  /\ mutex' = Nobody
  /\ Goto(t, "dropDefaults")
  /\ UNCHANGED <<todo, list, alive, freed, callCount, report, verdict,
                 dangling>>

(* The default actions are deleted; one that is running goes with them *)
DropDefaults(t) ==
  /\ At(t, "dropDefaults") /\ mutex = Nobody
  /\ alive' = alive \ {Top(t).member}
  /\ Goto(t, "member")
  /\ UNCHANGED <<mutex, todo, list, registered, freed, callCount, report,
                 verdict, dangling>>

Destroyed(t) ==
  /\ At(t, "member")
  /\ {m \in alive : ObjectOf[m] = Top(t).on} = {}
  /\ Returns(t)
  /\ UNCHANGED <<mutex, todo, memory, callCount, report, dangling>>

Step(t) ==
  \/ Begin(t)
  \/ ReadSize(t) \/ FindMatch(t) \/ PerformAction(t) \/ PerformDefaultAction(t)
  \/ Report(t) \/ ReportUnexpected(t)
  \/ LockToVerify(t) \/ VerifyMocker(t) \/ VerifyDone(t)
  \/ DropExpectation(t) \/ Relock(t)
  \/ DestroyMember(t) \/ Unregister(t) \/ DropDefaults(t) \/ Destroyed(t)

Terminated == (\A t \in Threads : Finished(t)) /\ UNCHANGED vars

Next == (\E t \in Threads : Step(t)) \/ Terminated

Spec == Init /\ [][Next]_vars /\ \A t \in Threads : WF_vars(Step(t))

--------------------------------------------------------------------------------
(* Properties *)

(* Nothing is used after it was deleted: not the expectation whose action    *)
(* runs, nor the one a failure names, nor a mock function, nor the place in  *)
(* the walk over the mock functions of an object.  Not so where one thread    *)
(* verifies an object that another still calls: PerformAction() reads the     *)
(* expectation without the lock.                                             *)
NoDanglingUse == \A use \in dangling : use[2] \in Raced

(* The calls that exceed e whose failure is still to be reported: their      *)
(* actions are running, in any thread.                                       *)
Unreported(e) ==
  UNION {{<<t, i>> : i \in {j \in DOMAIN stack[t] : stack[t][j].exp = e /\ stack[t][j].excess}} :
         t \in Threads}

(* Every call beyond the upper bound is reported once, and no other call is, *)
(* however the threads take turns.                                           *)
ExcessReportedOnce ==
  \A e \in Exps :
    reported[e] + Cardinality(Unreported(e)) =
      IF callCount[e] > Max[e] THEN callCount[e] - Max[e] ELSE 0

(* When all is over, verification failed an expectation for too many calls   *)
(* exactly if calls reported it; every expectation of a mock object that is  *)
(* gone was verified, and one that never was is still on its list.           *)
VerifiedInTheEnd ==
  (\A t \in Threads : Finished(t)) =>
    \A e \in Exps :
      IF verdict[e] = "pending" THEN MockerOf[e] \in alive /\ e \in list[MockerOf[e]]
      ELSE verdict[e] = "over" <=> reported[e] > 0

(* Every operation ends, whatever the others hold or delete meanwhile: no     *)
(* thread that holds the lock runs an action, deletes an expectation or asks  *)
(* for the lock again ("we may deadlock when this method is called again",   *)
(* gmock-spec-builders.cc:432).                                              *)
ProgramsFinish == <>(\A t \in Threads : Finished(t))
================================================================================
