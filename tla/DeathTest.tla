------------------------------ MODULE DeathTest --------------------------------
(***************************************************************************)
(* The death tests in the body of one test: the parent process oversees, a   *)
(* child process executes the statement, a pipe carries one status byte.     *)
(*                                                                          *)
(* In the "fast" style the child is forked on the spot; in the "threadsafe"  *)
(* style it runs the test program again, and must find, in the body that it  *)
(* repeats from its beginning, the very death test that it was started for.  *)
(***************************************************************************)
EXTENDS Integers, Sequences

CONSTANTS Programs,  \* bodies: sequences of visits to a death test statement
          Styles,    \* the values --gtest_death_test_style may have
          Repeat,    \* --gtest_repeat
          Faults     \* what may go wrong, once: a subset of FaultKinds

FaultKinds == {"check_in_parent", "exec", "other_path", "check_in_child"}

(* A visit: where the macro stands, what its statement does, which exit       *)
(* statuses its predicate accepts, and which output its matcher.             *)
Deaths == [exit0 |-> "exit_0", exit1 |-> "exit_1", kill |-> "signal",
           daemon |-> "exit_1"]
Visit == [site : Nat, accepts : SUBSET {"exit_0", "exit_1", "signal"},
          does : DOMAIN Deaths \union {"return", "throw", "live"},
          matches : SUBSET {"its_own_message", "something_else"}]

ASSUME DeathTestAssumption ==
  /\ Programs \subseteq Seq(Visit) /\ Repeat \in Nat \ {0}
  /\ Faults \subseteq FaultKinds
  /\ Styles \subseteq {"fast", "threadsafe", "unknown"}

VARIABLES
  style, program,
  iteration, at, count, \* the parent: at which visit, and death_test_count_
  pc,                   \* what the parent does next
  outcome,              \* DeathTestOutcome
  pipe, writers,        \* the bytes in it, the processes that can write to it
  child, status,        \* the child process, and what waitpid() says of it
  (* the history that the properties are about *)
  verdicts,             \* of this iteration
  executed,             \* the visit whose statement the child executed; 0: none
  fault                 \* what went wrong

inputs == <<style, program>>
parent == <<iteration, at, count, pc, outcome, verdicts>>
vars   == <<inputs, parent, pipe, writers, child, status, executed, fault>>

(* The child: what it does, the body it goes through and how far it is, its   *)
(* own death_test_count_, the flag --gtest_internal_run_death_test (index 0:  *)
(* not given), and whether its test has failed.                              *)
NoFlag == [site |-> 0, index |-> 0]
Child(phase, body, first, flag) ==
  [phase |-> phase, body |-> body, at |-> first, count |-> 0, flag |-> flag,
   failed |-> FALSE]

Visits == 1 .. Len(program)
Here   == program[at]

Init ==
  /\ style \in Styles /\ program \in Programs
  /\ iteration = 1 /\ at = 1 /\ count = 0 /\ pc = "body"
  /\ outcome = "IN_PROGRESS" /\ pipe = <<>> /\ writers = {}
  /\ child = Child("dead", <<>>, 1, NoFlag) /\ status = "none"
  /\ verdicts = [v \in Visits |-> "none"] /\ executed = 0 /\ fault = "none"

GoesWrong(kind) == kind \in Faults /\ fault = "none" /\ fault' = kind

--------------------------------------------------------------------------------
(* The parent *)

AtDeathTest == pc = "body" /\ at <= Len(program)

(* GTEST_DEATH_TEST_, where a verdict sends control on to the next statement *)
Judged(passed) ==
  /\ verdicts' = [verdicts EXCEPT ![at] = IF passed THEN "passed" ELSE "failed"]
  /\ at' = at + 1 /\ pc' = "body"

(* DefaultDeathTestFactory::Create does not know the style: the macro fails. *)
CreateFails ==
  /\ AtDeathTest /\ style = "unknown"
  /\ count' = count + 1
  /\ Judged(FALSE)
  /\ UNCHANGED <<inputs, iteration, outcome, pipe, writers, child, status,
                 executed, fault>>

(* A slip: the parent keeps its own write end of the pipe open *)
KeepWriteEnd == {"parent", "child"}

(* Who can write once AssumeRole has closed the parent's write end *)
WriteEnds == {"child"}

(* What the child of either style begins with *)
Spawned ==
  IF style = "fast" THEN Child("statement", program, at, NoFlag)
  ELSE Child("starting", program, 1, [site |-> Here.site, index |-> count + 1])

(* NoExecDeathTest::AssumeRole and ExecDeathTest::AssumeRole *)
AssumeRole ==
  /\ AtDeathTest /\ style # "unknown"
  /\ count' = count + 1
  /\ outcome' = "IN_PROGRESS" /\ pipe' = <<>> /\ writers' = WriteEnds
  /\ child' = Spawned /\ status' = "none" /\ executed' = 0
  /\ pc' = "reading"
  /\ UNCHANGED <<inputs, iteration, at, verdicts, fault>>

(* pipe(), fcntl(), fork() or clone() fails: DeathTestAbort in the parent *)
ParentCheckFails ==
  /\ AtDeathTest /\ style # "unknown" /\ GoesWrong("check_in_parent")
  /\ count' = count + 1 /\ pc' = "aborted"
  /\ UNCHANGED <<inputs, iteration, at, outcome, verdicts, pipe, writers,
                 child, status, executed>>

(* DeathTestImpl::ReadAndInterpretStatusByte: read() returns with a byte, or  *)
(* with nothing once no process can write any more.                          *)
Interpret(bytes) ==
  CASE bytes = <<>>    -> "DIED"
    [] bytes = <<"L">> -> "LIVED"
    [] bytes = <<"R">> -> "RETURNED"
    [] bytes = <<"T">> -> "THREW"

ReadStatusByte ==
  /\ pc = "reading" /\ (pipe # <<>> \/ writers = {})
  /\ IF pipe = <<"I">>
     THEN pc' = "aborted" /\ UNCHANGED outcome   \* FailFromInternalError
     ELSE pc' = "waiting" /\ outcome' = Interpret(pipe)
  /\ UNCHANGED <<inputs, iteration, at, count, verdicts, pipe, writers, child,
                 status, executed, fault>>

(* What the child has written to stderr *)
Output == IF executed = 0 THEN "something_else" ELSE "its_own_message"

(* A slip: every child that exits as expected has died *)
PassedByStatus == status \in Here.accepts /\ Output \in Here.matches

(* DeathTestImpl::Passed(predicate(status)) *)
Passed ==
  /\ outcome = "DIED"
  /\ status \in Here.accepts
  /\ Output \in Here.matches

(* ForkingDeathTest::Wait, and the verdict *)
Wait ==
  /\ pc = "waiting" /\ child.phase = "dead"
  /\ Judged(Passed)
  /\ UNCHANGED <<inputs, iteration, count, outcome, pipe, writers, child, status,
                 executed, fault>>

(* The count with which an iteration starts *)
ClearedCount == 0

(* The body is over; --gtest_repeat may run it again. *)
NextIteration ==
  /\ pc = "body" /\ at > Len(program)
  /\ IF iteration < Repeat
     THEN /\ iteration' = iteration + 1 /\ at' = 1 /\ count' = ClearedCount
          /\ verdicts' = [v \in Visits |-> "none"] /\ UNCHANGED pc
     ELSE pc' = "done" /\ UNCHANGED <<iteration, at, count, verdicts>>
  /\ UNCHANGED <<inputs, outcome, pipe, writers, child, status, executed, fault>>

--------------------------------------------------------------------------------
(* The child *)

Dies(how) ==
  /\ child' = [child EXCEPT !.phase = "dead"]
  /\ status' = how

childOnly == <<inputs, parent, pipe, executed>>

(* ExecDeathTestChildMain: execv() runs main() again.  Nothing makes the body *)
(* take the path it took in the parent.                                      *)
Exec ==
  /\ child.phase = "starting"
  /\ \/ child' = [child EXCEPT !.phase = "body"] /\ UNCHANGED fault
     \/ \E p \in Programs \ {program} :
          GoesWrong("other_path") /\ child' = [child EXCEPT !.phase = "body", !.body = p]
  /\ UNCHANGED <<childOnly, writers, status>>

(* DeathTestAbort in the child.  It looks for the flag of this process: what  *)
(* was forked from the parent has none, and abort()s without a byte.         *)
AbortChild ==
  /\ writers' = writers \ {"child"}
  /\ IF child.phase # "starting" /\ child.flag # NoFlag
     THEN Dies("exit_1") /\ pipe' = <<"I">>
     ELSE Dies("signal") /\ UNCHANGED pipe

(* chdir() or execv() fails. *)
ExecFails ==
  /\ child.phase = "starting" /\ GoesWrong("exec")
  /\ AbortChild
  /\ UNCHANGED <<inputs, parent, executed>>

(* Whether a visit is the one that --gtest_internal_run_death_test names *)
ThisOne(visit, index) ==
  visit.site = child.flag.site /\ index = child.flag.index

(* Create in the child: a death test too many fails, this one is executed,    *)
(* any other is skipped.                                                     *)
ChildCreates ==
  /\ child.phase = "body" /\ child.at <= Len(child.body)
  /\ LET index == child.count + 1
         next  == [child EXCEPT !.count = index, !.at = @ + 1]
     IN child' = IF index > child.flag.index THEN [next EXCEPT !.failed = TRUE]
                 ELSE IF ThisOne(child.body[child.at], index)
                      THEN [child EXCEPT !.phase = "statement"]
                 ELSE next
  /\ UNCHANGED <<childOnly, writers, status, fault>>

(* The child comes to the end of the body and leaves main(). *)
ChildEnds ==
  /\ child.phase = "body" /\ child.at > Len(child.body)
  /\ Dies(IF child.failed THEN "exit_1" ELSE "exit_0")
  /\ writers' = writers \ {"child"}
  /\ UNCHANGED <<childOnly, fault>>

Doing == child.body[child.at].does

(* The statement ends the process; a daemon that it started inherits the pipe. *)
StatementDies ==
  /\ child.phase = "statement" /\ Doing \in DOMAIN Deaths
  /\ executed' = child.at /\ Dies(Deaths[Doing])
  /\ writers' = (writers \ {"child"}) \union
                IF Doing = "daemon" THEN {"daemon"} ELSE {}
  /\ UNCHANGED <<inputs, parent, pipe, fault>>

(* The statement is over, has returned (~ReturnSentinel) or has thrown. *)
StatementLives ==
  /\ child.phase = "statement" /\ Doing \notin DOMAIN Deaths
  /\ executed' = child.at
  /\ child' = [child EXCEPT !.phase = "aborting"]
  /\ UNCHANGED <<inputs, parent, pipe, writers, status, fault>>

(* DeathTestImpl::Abort writes its byte, then calls _Exit(1) ... *)
StatusByte == [return |-> "R", throw |-> "T", live |-> "L"]

Abort ==
  /\ child.phase = "aborting"
  /\ pipe' = <<StatusByte[Doing]>> /\ Dies("exit_1")
  /\ writers' = writers \ {"child"}
  /\ UNCHANGED <<inputs, parent, executed, fault>>

(* ... unless its write() fails. *)
ChildCheckFails ==
  /\ child.phase = "aborting" /\ GoesWrong("check_in_child")
  /\ AbortChild
  /\ UNCHANGED <<inputs, parent, executed>>

DaemonExits ==
  /\ "daemon" \in writers /\ writers' = writers \ {"daemon"}
  /\ UNCHANGED <<childOnly, child, status, fault>>

--------------------------------------------------------------------------------
Works == \/ CreateFails \/ AssumeRole \/ ReadStatusByte \/ Wait \/ NextIteration
         \/ Exec \/ ChildCreates \/ ChildEnds \/ StatementDies \/ StatementLives
         \/ Abort \/ DaemonExits
GoesAstray == ParentCheckFails \/ ExecFails \/ ChildCheckFails

Next == Works \/ GoesAstray

(* Processes are scheduled, statements and daemons come to an end. *)
Spec == Init /\ [][Next]_vars /\ WF_vars(Works)

--------------------------------------------------------------------------------
(* The processes, the pipe and the verdicts have these values. *)
TypeOK ==
  /\ style \in Styles /\ program \in Programs
  /\ iteration \in 1 .. Repeat /\ at \in 1 .. Len(program) + 1
  /\ count \in 0 .. Len(program)
  /\ pc \in {"body", "reading", "waiting", "done", "aborted"}
  /\ outcome \in {"IN_PROGRESS", "DIED", "LIVED", "RETURNED", "THREW"}
  /\ pipe \in {<<>>} \union {<<b>> : b \in {"L", "R", "T", "I"}}
  /\ writers \subseteq {"child", "daemon"}
  /\ child.phase \in {"starting", "body", "statement", "aborting", "dead"}
  /\ child.at \in 1 .. Len(child.body) + 1
  /\ status \in {"none", "exit_0", "exit_1", "signal"}
  /\ \A v \in Visits : verdicts[v] \in {"none", "passed", "failed"}
  /\ fault \in Faults \union {"none"}

DiesAsExpected(visit) ==
  /\ visit.does \in DOMAIN Deaths /\ Deaths[visit.does] \in visit.accepts
  /\ "its_own_message" \in visit.matches

(* As long as nothing goes wrong, the verdict on each visit tells whether its *)
(* statement dies as expected, in both styles and in every iteration, and the *)
(* test program survives (DeathTestImpl::Passed, and all that leads to it).  *)
VerdictTrue ==
  fault = "none" =>
    /\ pc # "aborted"
    /\ \A v \in Visits : v < at =>
         (verdicts[v] = "passed" <=> style # "unknown" /\ DiesAsExpected(program[v]))

(* The child executes a statement of the line that the parent oversees and,   *)
(* unless its body takes another path, at the very same visit to it, also     *)
(* when the line is visited repeatedly (DefaultDeathTestFactory::Create).    *)
RightVisit ==
  pc \in {"reading", "waiting"} /\ child.phase \in {"statement", "aborting"} =>
    /\ child.body[child.at].site = Here.site
    /\ fault # "other_path" => child.at = at

(* The parent neither waits for ever for a byte or for the end of the pipe    *)
(* nor for the child, whatever went wrong (ReadAndInterpretStatusByte).      *)
ParentGoesOn == <>(pc \in {"done", "aborted"})

(* The parent oversees the statement it means, and judges it truly           *)
(* (DefaultDeathTestFactory::Create, DeathTestImpl::Passed).                 *)
JudgedTruly == TypeOK /\ RightVisit /\ VerdictTrue
================================================================================
