------------------------------- MODULE Reporters -------------------------------
(***************************************************************************)
(* Where the result of an assertion goes (gtest.cc, gtest-test-part.cc,      *)
(* gtest-spi.h): UnitTest::AddTestPartResult hands it, under its mutex, to   *)
(* the reporter of the calling thread, which may be the default one, an      *)
(* EXPECT_FATAL_FAILURE() that intercepts it, or the helper of               *)
(* ASSERT_NO_FATAL_FAILURE() that looks at it and passes it on; the default  *)
(* one asks the reporter of the process, the default of which adds it to the *)
(* current TestResult and tells every event listener.  Reporters, checkers   *)
(* and SCOPED_TRACE()s are objects on the stacks of the threads; with        *)
(* throw_on_failure, a failure unwinds them.                                 *)
(***************************************************************************)
EXTENDS Integers, Sequences, FiniteSets, SequencesExt

CONSTANTS Threads, Main, Listeners, None,
          MaxParts,    \* bound: assertions of the program
          MaxChanges,  \* bound: changes of the listeners before the last assertion
          MaxObjects   \* bound: reporters and traces alive at a time

Types == {"Success", "NonFatal", "Fatal"}
(* A report under way: the number of the result, the reporter that is called *)
(* with it, and whether a destructor makes it.                               *)
Report == [part : Nat, to : Int, owed : BOOLEAN]

(* None is none of what it stands in for; a program starts with a listener,  *)
(* its printer, whichever that is, and the user may have appended others.    *)
ASSUME ReportersAssumption ==
  /\ Main \in Threads /\ IsFiniteSet(Listeners) /\ Listeners # {}
  /\ MaxParts \in Nat /\ MaxObjects \in Nat /\ MaxChanges \in Nat
  /\ None \notin Threads /\ None \notin Listeners /\ None \notin Types /\ None \notin Report

VARIABLES
  throw_on_failure,  \* the flag
  mutex,             \* UnitTest::mutex_: the thread that holds it, or None
  stack,             \* of each thread: its reporters and traces, innermost last
  per_thread,        \* per_thread_test_part_result_reporter_, of each thread
  global,            \* global_test_part_result_reporter_
  trace_stack,       \* gtest_trace_stack(), of each thread
  call,              \* of each thread: its report under way, or None
  owes,              \* the failure that a macro or checker is about to report
  unwinding,         \* of each thread: a GoogleTestFailureException is thrown
  terminated,        \* std::terminate(): a destructor threw
  part_results,      \* the current TestResult
  listeners,         \* the repeater's list
  printer,           \* default_result_printer_
  deleted,           \* listeners deleted, as often as they were
  owner,             \* of each listener: the user or gtest
  parts,             \* history: the type of every result
  changes,           \* of the listeners, as often as the bound counts them
  audience,          \* history: the listeners in the list at every result
  heard              \* history: what each listener was told

reporting == <<mutex, call, part_results, parts, audience, heard>>
objects == <<stack, per_thread, global, trace_stack>>
listening == <<changes, listeners, printer, deleted, owner>>
ending == <<throw_on_failure, owes, unwinding, terminated>>
vars == <<reporting, objects, listening, ending>>

Failed(type) == type # "Success"
(* A reporter is called by its address: the defaults have their own, objects *)
(* on a stack have 1 and up.                                                 *)
PerThread == -1
Global == -2
Repeater == -3
Done == -4       \* every call has returned

Init ==
  /\ throw_on_failure \in BOOLEAN
  /\ mutex = None /\ global = Global /\ terminated = FALSE
  /\ stack = [t \in Threads |-> <<>>] /\ trace_stack = [t \in Threads |-> <<>>]
  /\ per_thread = [t \in Threads |-> PerThread]
  /\ call = [t \in Threads |-> None] /\ owes = [t \in Threads |-> None]
  /\ unwinding = [t \in Threads |-> FALSE]
  /\ part_results = <<>> /\ parts = <<>> /\ audience = <<>> /\ changes = 0
  /\ printer = (CHOOSE l \in Listeners : TRUE)
  /\ listeners \in {<<printer>>, <<printer>> \o SetToSeq(Listeners \ {printer})}
  /\ owner = [l \in Listeners |-> IF l \in Range(listeners) THEN "gtest" ELSE "user"]
  /\ deleted = <<>> /\ heard = [l \in Listeners |-> <<>>]

Runs(t) == call[t] = None /\ owes[t] = None /\ ~unwinding[t] /\ ~terminated
(* A statement given to ..._ON_ALL_THREADS() joins the threads it starts     *)
Joined == \A u \in Threads : call[u] = None /\ owes[u] = None

Constructed == UNION {{o.id : o \in Range(stack[t])} : t \in Threads}
OwnFake(o) == o.is = "fake" /\ ~o.all    \* INTERCEPT_ONLY_CURRENT_THREAD
AnyFake(o) == o.is = "fake" /\ o.all     \* INTERCEPT_ALL_THREADS
(* An address for a new object: one that no live object has                  *)
Free == (1 .. MaxObjects) \ Constructed
NewId == CHOOSE i \in Free : TRUE
Room == Free # {} /\ Len(parts) < MaxParts

(* A slip: failures of the current thread are intercepted as all threads' are *)
EnterFakeInAll(t, wants, all) ==
  /\ Runs(t) /\ Room /\ (all => t = Main /\ Joined)
  /\ stack' = [stack EXCEPT ![t] = Append(@,
       [is |-> "fake", id |-> NewId, old |-> global, all |-> all, wants |-> wants, caught |-> <<>>])]
  /\ global' = NewId
  /\ UNCHANGED <<reporting, per_thread, trace_stack, listening, ending>>

(* ScopedFakeTestPartResultReporter::Init, below a SingleFailureChecker      *)
EnterFake(t, wants, all) ==
  /\ Runs(t) /\ Room /\ (all => t = Main /\ Joined)
  /\ stack' = [stack EXCEPT ![t] = Append(@,
       [is |-> "fake", id |-> NewId, old |-> IF all THEN global ELSE per_thread[t],
        all |-> all, wants |-> wants, caught |-> <<>>])]
  /\ IF all THEN global' = NewId /\ UNCHANGED per_thread
     ELSE per_thread' = [per_thread EXCEPT ![t] = NewId] /\ UNCHANGED global
  /\ UNCHANGED <<reporting, trace_stack, listening, ending>>

(* HasNewFatalFailureHelper::HasNewFatalFailureHelper *)
EnterHelper(t) ==
  /\ Runs(t) /\ Room
  /\ stack' = [stack EXCEPT ![t] = Append(@,
       [is |-> "helper", id |-> NewId, old |-> per_thread[t], seen |-> FALSE])]
  /\ per_thread' = [per_thread EXCEPT ![t] = NewId]
  /\ UNCHANGED <<reporting, global, trace_stack, listening, ending>>

(* SCOPED_TRACE(): ScopedTrace::PushTrace, UnitTest::PushGTestTrace *)
EnterTrace(t) ==
  /\ Runs(t) /\ Room /\ mutex = None
  /\ stack' = [stack EXCEPT ![t] = Append(@, [is |-> "trace", id |-> NewId])]
  /\ trace_stack' = [trace_stack EXCEPT ![t] = Append(@, NewId)]
  /\ UNCHANGED <<reporting, per_thread, global, listening, ending>>

PopGTestTrace(t) == trace_stack' = [trace_stack EXCEPT ![t] = Front(@)]

(* HasOneFailure: exactly one part, and of this type *)
HasOneFailure(o) == Len(o.caught) = 1 /\ parts[o.caught[1]] = o.wants

(* What the macro that made the object reports when it is gone: a checker    *)
(* always, ASSERT_NO_FATAL_FAILURE() only when the statement has not thrown. *)
Owed(t, o) ==
  CASE o.is = "fake" /\ ~HasOneFailure(o) -> "NonFatal"
    [] o.is = "helper" /\ o.seen /\ ~unwinding[t] -> "Fatal"
    [] OTHER -> None

(* A slip: the reporter of the process is not restored *)
RestoreOfThread(t, o) == per_thread' = [per_thread EXCEPT ![t] = o.old] /\ UNCHANGED global

Restore(t, o) ==
  IF o.is = "fake" /\ o.all THEN global' = o.old /\ UNCHANGED per_thread
  ELSE per_thread' = [per_thread EXCEPT ![t] = o.old] /\ UNCHANGED global

(* The innermost object goes out of scope, at the end of its block or when   *)
(* an exception unwinds it; the macro that made it then looks at the outcome. *)
Leave(t) ==
  /\ stack[t] # <<>> /\ call[t] = None /\ owes[t] = None /\ ~terminated
  /\ LET o == Last(stack[t]) IN
     /\ stack' = [stack EXCEPT ![t] = Front(@)]
     /\ IF o.is = "trace"
        THEN /\ mutex = None
             /\ PopGTestTrace(t)
             /\ UNCHANGED <<per_thread, global, owes>>
        ELSE /\ o.is = "fake" /\ o.all => Joined
             /\ Restore(t, o)
             /\ owes' = [owes EXCEPT ![t] = Owed(t, o)]
             /\ UNCHANGED trace_stack
  /\ UNCHANGED <<reporting, listening, throw_on_failure, unwinding, terminated>>

(* An assertion, or what a macro owes: UnitTest::AddTestPartResult takes the *)
(* mutex and calls the reporter of this thread.                              *)
AddTestPartResult(t, type) ==
  /\ call[t] = None /\ ~terminated /\ mutex = None
  /\ \/ owes[t] = type
     \/ Runs(t) /\ Len(parts) < MaxParts
  /\ mutex' = t
  /\ parts' = Append(parts, type) /\ audience' = Append(audience, Range(listeners))
  /\ call' = [call EXCEPT ![t] =
       [part |-> Len(parts) + 1, to |-> per_thread[t], owed |-> owes[t] = "NonFatal"]]
  /\ owes' = [owes EXCEPT ![t] = None]
  /\ UNCHANGED <<part_results, heard, objects, listening, throw_on_failure, unwinding, terminated>>

PassOn(t, r) == call' = [call EXCEPT ![t].to = r]

(* DefaultPerThreadTestPartResultReporter::ReportTestPartResult *)
ReportPerThread(t) ==
  /\ call[t] # None /\ call[t].to = PerThread
  /\ PassOn(t, global)
  /\ UNCHANGED <<mutex, part_results, parts, audience, heard, objects, listening, ending>>

(* DefaultGlobalTestPartResultReporter::ReportTestPartResult *)
ReportGlobal(t) ==
  /\ call[t] # None /\ call[t].to = Global
  /\ part_results' = Append(part_results, call[t].part)
  /\ PassOn(t, Repeater)
  /\ UNCHANGED <<mutex, parts, audience, heard, objects, listening, ending>>

(* A slip: the first listener is told, the loop over the others left at once *)
BroadcastToFirst(t) ==
  /\ call[t] # None /\ call[t].to = Repeater
  /\ heard' = [l \in Listeners |->
       IF listeners # <<>> /\ l = Head(listeners) THEN Append(heard[l], call[t].part) ELSE heard[l]]
  /\ PassOn(t, Done)
  /\ UNCHANGED <<mutex, part_results, parts, audience, objects, listening, ending>>

(* TestEventRepeater::OnTestPartResult *)
Broadcast(t) ==
  /\ call[t] # None /\ call[t].to = Repeater
  /\ heard' = [l \in Listeners |->
       IF l \in Range(listeners) THEN Append(heard[l], call[t].part) ELSE heard[l]]
  /\ PassOn(t, Done)
  /\ UNCHANGED <<mutex, part_results, parts, audience, objects, listening, ending>>

(* A slip: the reporter in place is asked, not the old one *)
AsksCurrent(t, o) == per_thread[t]

(* HasNewFatalFailureHelper::ReportTestPartResult *)
SawFatal(o, n) == o.seen \/ parts[n] = "Fatal"
OriginalReporter(t, o) == o.old

(* ReportTestPartResult of a fake reporter or a helper: u's i-th object       *)
ReportObject(t) ==
  /\ call[t] # None
  /\ \E u \in Threads : \E i \in DOMAIN stack[u] :
       LET o == stack[u][i] IN
       /\ o.id = call[t].to
       /\ IF o.is = "fake"
          THEN /\ stack' = [stack EXCEPT ![u][i].caught = Append(@, call[t].part)]
               /\ PassOn(t, Done)
          ELSE /\ stack' = [stack EXCEPT ![u][i].seen = SawFatal(o, call[t].part)]
               /\ PassOn(t, OriginalReporter(t, o))
  /\ UNCHANGED <<mutex, part_results, parts, audience, heard, per_thread, global, trace_stack, listening, ending>>

(* The rest of AddTestPartResult, and its MutexLock's destructor.  What      *)
(* leaves a destructor, or an unwinding, terminates the program.             *)
EndReport(t) ==
  /\ call[t] # None /\ call[t].to = Done
  /\ mutex' = None /\ call' = [call EXCEPT ![t] = None]
  /\ IF throw_on_failure /\ Failed(parts[call[t].part])
     THEN IF call[t].owed THEN terminated' = TRUE /\ UNCHANGED unwinding
          ELSE unwinding' = [unwinding EXCEPT ![t] = TRUE] /\ UNCHANGED terminated
     ELSE UNCHANGED <<unwinding, terminated>>
  /\ UNCHANGED <<part_results, parts, audience, heard, objects, listening, throw_on_failure, owes>>

(* HandleExceptionsInMethodIfSupported, around the body of a test *)
Catch(t) ==
  /\ unwinding[t] /\ stack[t] = <<>> /\ call[t] = None /\ owes[t] = None
  /\ unwinding' = [unwinding EXCEPT ![t] = FALSE]
  /\ UNCHANGED <<reporting, objects, listening, throw_on_failure, owes, terminated>>

(* TestEventListeners, which the user changes between tests, when no thread  *)
(* reports: so often while assertions are left, and after them at will.      *)
Between ==
  /\ Len(parts) >= MaxParts \/ (parts # <<>> /\ changes < MaxChanges)
  /\ Joined /\ ~terminated /\ \A t \in Threads : stack[t] = <<>> /\ ~unwinding[t]
Changed == changes' = IF Len(parts) < MaxParts THEN changes + 1 ELSE changes

Mine(l) == owner[l] = "user" /\ l \notin Range(deleted)

AppendListener(l) ==
  /\ Between /\ Changed /\ Mine(l)
  /\ listeners' = Append(listeners, l) /\ owner' = [owner EXCEPT ![l] = "gtest"]
  /\ UNCHANGED <<reporting, objects, printer, deleted, ending>>

Without(l) == RemoveFirst(listeners, l)

Release(l) ==
  /\ Between /\ Changed /\ l \in Range(listeners)
  /\ printer' = IF l = printer THEN None ELSE printer
  /\ listeners' = Without(l) /\ owner' = [owner EXCEPT ![l] = "user"]
  /\ UNCHANGED <<reporting, objects, deleted, ending>>

SetDefaultResultPrinter(l) ==
  /\ Between /\ Changed /\ l # printer /\ l \in {None} \union {k \in Listeners : Mine(k)}
  /\ LET rest == Without(printer) IN
       listeners' = IF l = None THEN rest ELSE Append(rest, l)
  /\ deleted' = IF printer = None THEN deleted ELSE Append(deleted, printer)
  /\ printer' = l
  /\ owner' = IF l = None THEN owner ELSE [owner EXCEPT ![l] = "gtest"]
  /\ UNCHANGED <<reporting, objects, ending>>

ReportStep(t) ==
  \/ ReportPerThread(t) \/ ReportGlobal(t) \/ Broadcast(t) \/ ReportObject(t) \/ EndReport(t)

Next ==
  \/ \E t \in Threads :
       \/ \E wants \in {"NonFatal", "Fatal"}, all \in BOOLEAN : EnterFake(t, wants, all)
       \/ EnterHelper(t) \/ EnterTrace(t) \/ Leave(t) \/ Catch(t)
       \/ \E type \in Types : AddTestPartResult(t, type)
       \/ ReportStep(t)
  \/ \E l \in Listeners : AppendListener(l) \/ Release(l)
  \/ \E l \in Listeners \union {None} : SetDefaultResultPrinter(l)

(* A call that has begun runs on *)
Fairness == \A t \in Threads : WF_vars(ReportStep(t))

Spec == Init /\ [][Next]_vars /\ Fairness
--------------------------------------------------------------------------------
TypeOK ==
  /\ mutex \in Threads \union {None} /\ Range(part_results) \subseteq DOMAIN parts
  /\ \A t \in Threads : owes[t] \in Types \union {None} /\ unwinding[t] \in BOOLEAN
  /\ Range(listeners) \union Range(deleted) \subseteq Listeners

(* The ids are those of the traces among the objects, in their order         *)
HoldsTraces(ids, objs) ==
  \E at \in [DOMAIN ids -> DOMAIN objs] :
    /\ \A m, n \in DOMAIN at : m < n => at[m] < at[n]
    /\ Range(at) = {i \in DOMAIN objs : objs[i].is = "trace"}
    /\ \A n \in DOMAIN at : ids[n] = objs[at[n]].id

(* What is in place is alive: a reporter that is installed, remembered or     *)
(* being called is still on some stack, and the trace stack holds the traces *)
(* of the SCOPED_TRACE()s in scope, in their order, whatever ends the scopes, *)
(* blocks or exceptions (~ScopedFakeTestPartResultReporter,                  *)
(* ~HasNewFatalFailureHelper, ~ScopedTrace).                                 *)
NothingDangles ==
  LET Live == Constructed \union {PerThread, Global, Repeater, Done} IN
  /\ global \in Live
  /\ \A t \in Threads :
       /\ per_thread[t] \in Live /\ (call[t] # None => call[t].to \in Live)
       /\ \A o \in Range(stack[t]) : o.is # "trace" => o.old \in Live
       /\ HoldsTraces(trace_stack[t], stack[t])

(* The reporters that have taken the result n *)
TakenBy(n) ==
  {o.id : o \in {p \in UNION {Range(stack[t]) : t \in Threads} :
                   p.is = "fake" /\ n \in Range(p.caught)}}
    \union IF n \in Range(part_results) THEN {Global} ELSE {}

(* The one that has to take a result of thread t *)
Due(t) ==
  LET mine == {i \in DOMAIN stack[t] : OwnFake(stack[t][i])}
      everyones == {i \in DOMAIN stack[Main] : AnyFake(stack[Main][i])}
      Innermost(s, places) == {s[i].id : i \in {j \in places : \A k \in places : k <= j}}
  IN  IF mine # {} THEN Innermost(stack[t], mine)
      ELSE IF everyones # {} THEN Innermost(stack[Main], everyones) ELSE {Global}

(* Every result is taken once.  If its thread is inside an                   *)
(* EXPECT_..._FAILURE() of its own, the innermost of those takes it,         *)
(* whatever other threads do; else the innermost ..._ON_ALL_THREADS() does,  *)
(* and the TestResult if there is none, but never an EXPECT_..._FAILURE() of *)
(* another thread (ScopedFakeTestPartResultReporter).                        *)
Delivers ==
  \A t \in Threads, n \in DOMAIN parts : (call[t] # None /\ call[t].part = n) =>
    /\ TakenBy(n)' # TakenBy(n) =>
         TakenBy(n) = {} /\ TakenBy(n)' = Due(t) /\ Cardinality(TakenBy(n)') = 1
    /\ call'[t] = None => TakenBy(n) # {}

DeliveredToInnermost == [][Delivers]_vars

(* ASSERT_NO_FATAL_FAILURE() has seen a fatal failure exactly when its own   *)
(* thread has had one inside it, and no EXPECT_FATAL_FAILURE() inside it     *)
(* took that (HasNewFatalFailureHelper::ReportTestPartResult).               *)
Sees ==
  \A t \in Threads : \A i \in DOMAIN stack[t] \intersect DOMAIN stack'[t] :
    (stack[t][i].is = "helper" /\ stack[t][i].id = stack'[t][i].id) =>
      LET concerns == call[t] # None /\ parts[call[t].part] = "Fatal"
                        /\ \A j \in DOMAIN stack[t] : j > i => ~OwnFake(stack[t][j])
      IN  /\ stack[t][i].seen # stack'[t][i].seen => concerns /\ stack'[t][i].seen
          /\ concerns /\ call'[t] = None => stack[t][i].seen

FatalSeen == [][Sees]_vars

(* Listeners hear the results in the order in which the TestResult has them, *)
(* none twice.                                                               *)
ListenersHearInOrder ==
  \A l \in Listeners : \A i, j \in DOMAIN heard[l] :
    i < j => \E a, b \in DOMAIN part_results :
               a < b /\ part_results[a] = heard[l][i] /\ part_results[b] = heard[l][j]

(* A listener is told of each result that the TestResult gets and that is    *)
(* made while the listener is in the list, of these before the report        *)
(* returns, and of no others, however often it is appended and released      *)
(* (TestEventRepeater::OnTestPartResult, Append, Release).                   *)
ListenersHearAll ==
  \A n \in DOMAIN parts : \A l \in Listeners :
    n \in Range(heard[l]) <=>
      /\ n \in Range(part_results) /\ l \in audience[n]
      /\ \A t \in Threads : call[t] # None /\ call[t].part = n => call[t].to # Repeater

(* A listener is deleted once, by gtest, and never while it is in the list   *)
(* or after the user took it back (TestEventListeners::Release and           *)
(* SetDefaultResultPrinter).                                                 *)
DeletedOnceByOwner ==
  /\ \A i, j \in DOMAIN deleted : deleted[i] = deleted[j] => i = j
  /\ \A l \in Range(deleted) : owner[l] = "gtest" /\ l \notin Range(listeners)
  /\ printer # None => printer \in Range(listeners)

(* A report that has begun comes to its end, and gives the mutex back: no    *)
(* chain of reporters leads back into itself.                                *)
ReportsReturn == \A t \in Threads : call[t] # None ~> call[t] = None

(* A listener hears all there is to hear while it is in the list, in order,  *)
(* and is deleted once (TestEventRepeater, TestEventListeners).              *)
ListenersSound == TypeOK /\ ListenersHearAll /\ ListenersHearInOrder /\ DeletedOnceByOwner

(* A result is taken by the right one and seen by all that watch for it      *)
(* (ScopedFakeTestPartResultReporter, HasNewFatalFailureHelper).             *)
ResultsTaken == DeliveredToInnermost /\ FatalSeen
================================================================================
