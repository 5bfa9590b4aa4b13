--------------------------- MODULE DeathTestProofs -----------------------------
(***************************************************************************)
(* Proofs about DeathTest, for bodies of any length and any number of       *)
(* iterations.  What relates the two processes are their counts: the child   *)
(* that runs the body again is at the visit that its own count names, and    *)
(* its flag has the count of the parent.                                     *)
(***************************************************************************)
EXTENDS DeathTest, TLAPS

Process == [phase : {"starting", "body", "statement", "aborting", "dead"},
            body : Programs \union {<<>>}, at : Nat, count : Nat,
            flag : [site : Nat, index : Nat], failed : BOOLEAN]

Contents == {<<>>} \union {<<b>> : b \in {"L", "R", "T", "I"}}

Typed ==
  /\ style \in Styles /\ program \in Programs
  /\ iteration \in 1 .. Repeat /\ at \in 1 .. Len(program) + 1 /\ count \in Nat
  /\ pc \in {"body", "reading", "waiting", "done", "aborted"}
  /\ outcome \in {"IN_PROGRESS", "DIED", "LIVED", "RETURNED", "THREW"}
  /\ pipe \in Contents
  /\ writers \in SUBSET {"child", "daemon"}
  /\ child \in Process /\ child.at \in 1 .. Len(child.body) + 1
  /\ status \in {"none", "exit_0", "exit_1", "signal"}
  /\ verdicts \in [Visits -> {"none", "passed", "failed"}]
  /\ executed \in Nat /\ fault \in Faults \union {"none"}

(* The count of the parent is that of its visits. *)
Counted ==
  /\ pc \in {"body", "done"} => count = at - 1
  /\ pc \in {"reading", "waiting", "aborted"} => count = at /\ at \in Visits /\ style # "unknown"

(* A child lives only while the parent reads, can write, and has not written. *)
Lives ==
  /\ "child" \in writers <=> child.phase # "dead"
  /\ child.phase # "dead" => pc = "reading" /\ pipe = <<>>

(* How far the child is: up to the death test it was started for. *)
OnItsWay ==
  child.phase # "dead" =>
    /\ fault # "other_path" => child.body = program
    /\ child.phase = "starting" => child.at = 1
    /\ child.body \in Programs
    /\ child.phase \in {"starting", "body"} =>
         /\ child.flag = [site |-> Here.site, index |-> at]
         /\ child.count = child.at - 1
         /\ fault # "other_path" => child.at <= at
    /\ child.phase \in {"statement", "aborting"} =>
         child.at = at /\ at \in DOMAIN child.body /\ child.body[at].site = Here.site
    /\ child.phase = "aborting" =>
         executed = at /\ child.body[at].does \notin DOMAIN Deaths

(* A child that nothing went wrong for has executed the statement. *)
Ended ==
  fault = "none" /\ pc \in {"reading", "waiting"} /\ child.phase = "dead" =>
    /\ executed = at
    /\ Here.does \in DOMAIN Deaths => pipe = <<>> /\ status = Deaths[Here.does]
    /\ Here.does \notin DOMAIN Deaths => pipe = <<StatusByte[Here.does]>> /\ status = "exit_1"

(* The parent knows what was in the pipe. *)
HasRead == fault = "none" /\ pc = "waiting" => outcome = Interpret(pipe)

DInv == Typed /\ Counted /\ Lives /\ OnItsWay /\ Ended /\ HasRead /\ VerdictTrue
--------------------------------------------------------------------------------
(* Facts about visits and bytes *)

(* A statement dies in one way or has a byte to write. *)
LEMMA Statements ==
  ASSUME NEW v \in Visit
  PROVE  /\ v.does \in DOMAIN Deaths => Deaths[v.does] \in {"exit_0", "exit_1", "signal"}
         /\ v.does \notin DOMAIN Deaths => StatusByte[v.does] \in {"L", "R", "T"}
         /\ v.site \in Nat
<1>1. DOMAIN Deaths = {"exit0", "exit1", "kill", "daemon"}
  BY Zenon DEF Deaths
<1>2. v.does \in DOMAIN Deaths \union {"return", "throw", "live"} /\ v.site \in Nat
  BY DEF Visit
<1>3. /\ Deaths["exit0"] = "exit_0" /\ Deaths["exit1"] = "exit_1"
      /\ Deaths["kill"] = "signal" /\ Deaths["daemon"] = "exit_1"
  BY DEF Deaths
<1>4. StatusByte["return"] = "R" /\ StatusByte["throw"] = "T" /\ StatusByte["live"] = "L"
  BY DEF StatusByte
<1> QED
  BY <1>1, <1>2, <1>3, <1>4

(* What the parent makes of the bytes *)
LEMMA Bytes ==
  /\ Interpret(<<>>) = "DIED"
  /\ Interpret(<<"L">>) = "LIVED" /\ Interpret(<<"R">>) = "RETURNED" /\ Interpret(<<"T">>) = "THREW"
<1>1. <<"L">> # <<>> /\ <<"R">> # <<>> /\ <<"T">> # <<>>
  OBVIOUS
<1>2. <<"L">> # <<"R">> /\ <<"L">> # <<"T">> /\ <<"R">> # <<"T">>
  OBVIOUS
<1> QED
  BY <1>1, <1>2 DEF Interpret

(* The visits of a body *)
LEMMA Bodies ==
  ASSUME NEW body \in Programs \union {<<>>}
  PROVE  Len(body) \in Nat /\ DOMAIN body = 1 .. Len(body) /\ \A i \in DOMAIN body : body[i] \in Visit
BY DeathTestAssumption

LEMMA Sizes ==
  ASSUME Typed
  PROVE  /\ Len(program) \in Nat /\ at \in Int
         /\ DOMAIN program = Visits /\ \A v \in Visits : program[v] \in Visit
         /\ at <= Len(program) => at \in Visits /\ Here \in Visit /\ Here.site \in Nat
         /\ at \in Visits => at + 1 \in 1 .. Len(program) + 1 /\ Here \in Visit
<1>1. program \in Programs \union {<<>>} /\ at \in 1 .. Len(program) + 1
  BY DEF Typed
<1>2. Len(program) \in Nat /\ DOMAIN program = 1 .. Len(program)
      /\ \A i \in DOMAIN program : program[i] \in Visit
  BY <1>1, Bodies
<1>3. DOMAIN program = Visits /\ \A v \in Visits : program[v] \in Visit
  BY <1>2 DEF Visits
<1>4. at <= Len(program) => at \in Visits
  BY <1>1, <1>2 DEF Visits
<1>5. at \in Visits => at + 1 \in 1 .. Len(program) + 1
  BY <1>1, <1>2 DEF Visits
<1>6. at \in Visits => Here \in Visit
  BY <1>3 DEF Here
<1>7. Here \in Visit => Here.site \in Nat
  BY DEF Visit
<1> QED
  BY <1>1, <1>2, <1>3, <1>4, <1>5, <1>6, <1>7

(* A verdict, and on with the next visit *)
LEMMA OneMore ==
  ASSUME Typed, at \in Visits, NEW passed \in BOOLEAN, Judged(passed), program' = program
  PROVE  /\ at' = at + 1 /\ at' \in 1 .. Len(program) + 1 /\ pc' = "body"
         /\ verdicts' \in [Visits -> {"none", "passed", "failed"}]
         /\ verdicts'[at] = "passed" <=> passed
         /\ \A v \in Visits : v # at => verdicts'[v] = verdicts[v]
<1>1. at + 1 \in 1 .. Len(program) + 1
  BY Sizes
<1> QED
  BY <1>1 DEF Typed, Judged, Visits

LEMMA InitEstablishes == Init => DInv
<1> SUFFICES ASSUME Init PROVE DInv
  OBVIOUS
<1>1. Len(program) \in Nat /\ Len(<<>>) = 0
  BY Bodies DEF Init
<1>2. Typed
  BY <1>1, DeathTestAssumption DEF Init, Typed, Process, Child, NoFlag, Contents, Visits
<1>3. Counted /\ Lives /\ OnItsWay /\ Ended /\ HasRead /\ VerdictTrue
  BY <1>1, <1>2 DEF Init, Typed, Counted, Lives, OnItsWay, Ended, HasRead, VerdictTrue, Child, Visits
<1> QED
  BY <1>2, <1>3 DEF DInv
--------------------------------------------------------------------------------
(* Steps of the parent *)

LEMMA CreateFailsStep == DInv /\ CreateFails => DInv'
<1> SUFFICES ASSUME DInv, CreateFails PROVE DInv'
  OBVIOUS
<1>1. Len(program) \in Nat /\ Typed /\ at \in Visits /\ program' = program /\ style' = style
  BY Sizes DEF DInv, CreateFails, AtDeathTest, inputs
<1>2. /\ at' = at + 1 /\ at' \in 1 .. Len(program) + 1 /\ pc' = "body"
      /\ verdicts' \in [Visits -> {"none", "passed", "failed"}]
      /\ verdicts'[at] # "passed" /\ \A v \in Visits : v # at => verdicts'[v] = verdicts[v]
  BY <1>1, OneMore DEF CreateFails
<1>3. Typed'
  BY <1>1, <1>2 DEF Typed, CreateFails, inputs, Visits
<1>4. Counted' /\ Lives' /\ OnItsWay' /\ Ended' /\ HasRead'
  BY <1>1, <1>2 DEF DInv, CreateFails, AtDeathTest, Typed, Counted, Lives, OnItsWay, Ended, HasRead
<1>5. VerdictTrue'
  BY <1>1, <1>2 DEF DInv, Typed, VerdictTrue, CreateFails, Visits
<1> QED
  BY <1>3, <1>4, <1>5 DEF DInv

LEMMA AssumeRoleStep == DInv /\ AssumeRole => DInv'
<1> SUFFICES ASSUME DInv, AssumeRole PROVE DInv'
  OBVIOUS
<1>1. /\ Len(program) \in Nat /\ at \in Visits /\ at \in 1 .. Len(program) /\ count + 1 = at
      /\ Here \in Visit /\ Here.site \in Nat
  BY Sizes DEF DInv, Counted, AssumeRole, AtDeathTest
<1>2. /\ child' \in Process /\ child'.at \in 1 .. Len(child'.body) + 1 /\ child'.body = program
      /\ child'.phase \in {"statement", "starting"}
      /\ child'.phase = "statement" => child'.at = at
      /\ child'.phase = "starting" =>
           child'.at = 1 /\ child'.count = 0 /\ child'.flag = [site |-> Here.site, index |-> at]
  <2>1. CASE style = "fast"
    BY <1>1, <2>1 DEF DInv, Typed, AssumeRole, Spawned, Child, NoFlag, Process, Visits
  <2>2. CASE style # "fast"
    BY <1>1, <2>2 DEF DInv, Typed, Counted, AssumeRole, AtDeathTest, Spawned, Child, Process, Visits
  <2> QED
    BY <2>1, <2>2
<1>3. Typed'
  BY <1>1, <1>2 DEF DInv, Typed, AssumeRole, inputs, Contents, Visits, WriteEnds
<1>4. Counted' /\ Lives' /\ Ended' /\ HasRead' /\ VerdictTrue'
  BY <1>1, <1>2 DEF DInv, AssumeRole, inputs, Counted, Lives, Ended, HasRead, VerdictTrue, Visits, WriteEnds
<1>5. OnItsWay'
  BY <1>1, <1>2 DEF DInv, Typed, AssumeRole, inputs, OnItsWay, Here, Visits
<1> QED
  BY <1>3, <1>4, <1>5 DEF DInv

LEMMA ParentCheckFailsStep == DInv /\ ParentCheckFails => DInv'
<1> SUFFICES ASSUME DInv, ParentCheckFails PROVE DInv'
  OBVIOUS
<1>1. Len(program) \in Nat /\ at \in Visits /\ count + 1 = at /\ count' = at
  BY Sizes DEF DInv, Counted, ParentCheckFails, AtDeathTest
<1>2. Typed'
  BY <1>1 DEF DInv, Typed, ParentCheckFails, GoesWrong, inputs, Visits
<1>3. Counted' /\ Lives' /\ OnItsWay' /\ Ended' /\ HasRead' /\ VerdictTrue'
  BY <1>1, DeathTestAssumption DEF DInv, ParentCheckFails, AtDeathTest, GoesWrong, FaultKinds, inputs,
     Counted, Lives, OnItsWay, Ended, HasRead, VerdictTrue, Visits
<1> QED
  BY <1>2, <1>3 DEF DInv

LEMMA ReadStatusByteStep == DInv /\ ReadStatusByte => DInv'
<1> SUFFICES ASSUME DInv, ReadStatusByte PROVE DInv'
  OBVIOUS
<1>1. child.phase = "dead" /\ at \in Visits
  BY DEF DInv, Lives, Counted, ReadStatusByte
<1>2. Typed'
  <2>1. pipe # <<"I">> => Interpret(pipe) \in {"DIED", "LIVED", "RETURNED", "THREW"}
    BY Bytes DEF DInv, Typed, Contents
  <2> QED
    BY <2>1 DEF DInv, Typed, ReadStatusByte, inputs, Visits
<1>3. pipe = <<"I">> => fault # "none"
  <2> SUFFICES ASSUME pipe = <<"I">>, fault = "none" PROVE FALSE
    OBVIOUS
  <2>1. Here \in Visit
    BY <1>1, Bodies DEF DInv, Typed, Visits, Here
  <2>2. <<"I">> # <<>> /\ <<"I">> # <<"L">> /\ <<"I">> # <<"R">> /\ <<"I">> # <<"T">>
    OBVIOUS
  <2> QED
    BY <1>1, <2>1, <2>2, Statements DEF DInv, Ended, ReadStatusByte
<1>4. Counted' /\ Lives' /\ OnItsWay' /\ Ended' /\ HasRead' /\ VerdictTrue'
  BY <1>1, <1>3 DEF DInv, ReadStatusByte, inputs, Counted, Lives, OnItsWay, Ended, HasRead, VerdictTrue, Visits, Here
<1> QED
  BY <1>2, <1>4 DEF DInv

LEMMA WaitStep == DInv /\ Wait => DInv'
<1> SUFFICES ASSUME DInv, Wait PROVE DInv'
  OBVIOUS
<1>1. /\ Len(program) \in Nat /\ Typed /\ at \in Visits /\ program' = program /\ style' = style
      /\ count = at /\ style # "unknown" /\ Here \in Visit
  BY Sizes DEF DInv, Counted, Wait, Visits, Here, inputs
<1>2. Passed \in BOOLEAN
  BY DEF Passed
<1>3. /\ at' = at + 1 /\ at' \in 1 .. Len(program) + 1 /\ pc' = "body"
      /\ verdicts' \in [Visits -> {"none", "passed", "failed"}]
      /\ verdicts'[at] = "passed" <=> Passed
      /\ \A v \in Visits : v # at => verdicts'[v] = verdicts[v]
  BY <1>1, <1>2, OneMore DEF Wait
<1>4. fault = "none" => (Passed <=> DiesAsExpected(Here))
  <2> SUFFICES ASSUME fault = "none" PROVE Passed <=> DiesAsExpected(Here)
    OBVIOUS
  <2>1. Output = "its_own_message"
    BY <1>1 DEF DInv, Ended, Wait, Output, Visits
  <2>2. CASE Here.does \in DOMAIN Deaths
    BY <2>1, <2>2, Bytes DEF DInv, Ended, HasRead, Wait, Passed, DiesAsExpected
  <2>3. CASE Here.does \notin DOMAIN Deaths
    <3>1. outcome = Interpret(<<StatusByte[Here.does]>>) /\ StatusByte[Here.does] \in {"L", "R", "T"}
      BY <1>1, <2>3, Statements DEF DInv, Ended, HasRead, Wait
    <3> QED
      BY <2>3, <3>1, Bytes DEF Passed, DiesAsExpected
  <2> QED
    BY <2>2, <2>3
<1>5. Typed'
  BY <1>1, <1>3 DEF Typed, Wait, inputs, Visits
<1>6. Counted' /\ Lives' /\ OnItsWay' /\ Ended' /\ HasRead'
  BY <1>1, <1>3 DEF DInv, Wait, Typed, Counted, Lives, OnItsWay, Ended, HasRead
<1>7. VerdictTrue'
  <2> SUFFICES ASSUME fault' = "none", NEW v \in Visits, v < at'
               PROVE  verdicts'[v] = "passed" <=> DiesAsExpected(program[v])
    BY <1>1, <1>3 DEF VerdictTrue, Visits, DiesAsExpected
  <2>1. fault = "none" /\ at \in Int /\ v \in Int
    BY <1>1 DEF Wait, Visits
  <2>2. CASE v = at
    BY <1>3, <1>4, <2>1, <2>2 DEF Here
  <2>3. CASE v # at
    BY <1>1, <1>3, <2>1, <2>3 DEF DInv, VerdictTrue
  <2> QED
    BY <2>2, <2>3
<1> QED
  BY <1>5, <1>6, <1>7 DEF DInv

LEMMA NextIterationStep == DInv /\ NextIteration => DInv'
<1> SUFFICES ASSUME DInv, NextIteration PROVE DInv'
  OBVIOUS
<1>1. Len(program) \in Nat /\ program' = program /\ style' = style
  BY Sizes DEF DInv, NextIteration, inputs
<1>2. Typed'
  BY <1>1, DeathTestAssumption DEF DInv, Typed, NextIteration, ClearedCount, inputs, Visits
<1>3. Counted' /\ Lives' /\ OnItsWay' /\ Ended' /\ HasRead'
  BY <1>1 DEF DInv, Typed, NextIteration, ClearedCount, Counted, Lives, OnItsWay, Ended, HasRead
<1>4. VerdictTrue'
  BY <1>1 DEF DInv, Typed, NextIteration, VerdictTrue, Visits, DiesAsExpected
<1> QED
  BY <1>2, <1>3, <1>4 DEF DInv
--------------------------------------------------------------------------------
(* Steps of the child *)

(* What every step of the child leaves alone *)
LEMMA ChildSteps ==
  ASSUME DInv, child.phase # "dead"
  PROVE  /\ Typed /\ pc = "reading" /\ pipe = <<>> /\ "child" \in writers
         /\ at \in Visits /\ count = at /\ style # "unknown" /\ Here \in Visit /\ at \in Int
         /\ Len(child.body) \in Nat /\ DOMAIN child.body = 1 .. Len(child.body)
         /\ \A i \in DOMAIN child.body : child.body[i] \in Visit
         /\ child.phase = "starting" \/ child.phase = "body" => Here.site \in Nat
<1>1. Typed /\ child.body \in Programs \union {<<>>}
  BY DEF DInv, Typed, Process
<1> QED
  BY <1>1, Sizes, Bodies, Statements DEF DInv, Lives, Counted

(* Dying is a step to a child that can no longer write. *)
LEMMA Dead ==
  ASSUME DInv, child.phase # "dead", NEW how \in {"exit_0", "exit_1", "signal"}, Dies(how),
         writers' \in SUBSET {"child", "daemon"}, "child" \notin writers',
         pipe' \in Contents, executed' \in Nat, fault' \in Faults \union {"none"},
         fault' = "none" => fault = "none",
         UNCHANGED <<inputs, parent>>
  PROVE  /\ Typed' /\ Counted' /\ Lives' /\ OnItsWay' /\ HasRead' /\ VerdictTrue'
         /\ child'.phase = "dead" /\ Here' = Here
<1>1. /\ child' \in Process /\ child'.phase = "dead" /\ child'.body = child.body /\ child'.at = child.at
      /\ status' = how
  BY DEF DInv, Typed, Dies, Process
<1>2. Typed'
  BY <1>1 DEF DInv, Typed, inputs, parent, Visits
<1>3. Counted' /\ Lives' /\ OnItsWay' /\ HasRead'
  BY <1>1, ChildSteps DEF DInv, Counted, Lives, OnItsWay, HasRead, inputs, parent, Visits
<1>4. VerdictTrue'
  BY ChildSteps DEF DInv, VerdictTrue, inputs, parent, Visits
<1> QED
  BY <1>1, <1>2, <1>3, <1>4 DEF Here, inputs, parent

LEMMA ExecStep == DInv /\ Exec => DInv'
<1> SUFFICES ASSUME DInv, Exec PROVE DInv'
  OBVIOUS
<1>1. child.phase # "dead" /\ UNCHANGED <<inputs, parent, pipe, executed, writers, status>>
  BY DEF Exec, childOnly
<1>2. /\ child' \in Process /\ child'.phase = "body" /\ child'.at = child.at /\ child'.count = child.count
      /\ child'.flag = child.flag /\ child'.at \in 1 .. Len(child'.body) + 1
      /\ fault' \in Faults \union {"none"}
      /\ fault' = "none" => fault = "none"
      /\ fault' # "other_path" => fault # "other_path" /\ child'.body = child.body
      /\ child'.body \in Programs
  <2>1. child.phase = "starting" /\ child.at = 1
    BY DEF Exec, DInv, OnItsWay
  <2>2. PICK p \in Programs : child' = [child EXCEPT !.phase = "body", !.body = p]
                              /\ (fault' # "other_path" => p = child.body)
    <3>1. CASE child' = [child EXCEPT !.phase = "body"] /\ UNCHANGED fault
      <4>1. child' = [child EXCEPT !.phase = "body", !.body = child.body]
        BY <3>1 DEF DInv, Typed, Process
      <4> QED
        BY <1>1, <4>1 DEF DInv, OnItsWay
    <3>2. CASE \E p \in Programs \ {program} :
                 GoesWrong("other_path") /\ child' = [child EXCEPT !.phase = "body", !.body = p]
      BY <3>2 DEF GoesWrong
    <3> QED
      BY <3>1, <3>2 DEF Exec
  <2>3. Len(p) \in Nat
    BY Bodies
  <2>4. fault' \in Faults \union {"none"} /\ (fault' = fault \/ fault' = "other_path")
    BY DEF Exec, GoesWrong, DInv, Typed
  <2>5. /\ child' \in Process /\ child'.phase = "body" /\ child'.at = child.at /\ child'.count = child.count
        /\ child'.flag = child.flag /\ child'.body = p
    BY <2>2 DEF DInv, Typed, Process
  <2> QED
    BY <2>1, <2>2, <2>3, <2>4, <2>5
<1>3. Typed'
  BY <1>1, <1>2 DEF DInv, Typed, inputs, parent, Visits
<1>4. Counted' /\ Lives' /\ OnItsWay' /\ Ended' /\ HasRead' /\ VerdictTrue'
  BY <1>1, <1>2, ChildSteps DEF DInv, Counted, Lives, OnItsWay, Ended, HasRead, VerdictTrue,
     Exec, inputs, parent, Visits, Here
<1> QED
  BY <1>3, <1>4 DEF DInv

LEMMA ExecFailsStep == DInv /\ ExecFails => DInv'
<1> SUFFICES ASSUME DInv, ExecFails PROVE DInv'
  OBVIOUS
<1>1. child.phase # "dead" /\ fault' # "none" /\ fault' \in Faults /\ Dies("signal")
  BY DeathTestAssumption DEF ExecFails, AbortChild, GoesWrong, FaultKinds
<1>2. UNCHANGED <<inputs, parent, pipe, executed>> /\ writers' = writers \ {"child"}
  BY DEF ExecFails, AbortChild
<1>3. Typed' /\ Counted' /\ Lives' /\ OnItsWay' /\ HasRead' /\ VerdictTrue'
  BY <1>1, <1>2, Dead DEF DInv, Typed
<1>4. Ended'
  BY <1>1 DEF Ended
<1> QED
  BY <1>3, <1>4 DEF DInv

(* A child that goes on to the next visit *)
LEMMA Advanced ==
  ASSUME NEW c \in Process, NEW f \in BOOLEAN
  PROVE  LET d == [[c EXCEPT !.count = c.count + 1, !.at = c.at + 1] EXCEPT !.failed = f] IN
         /\ d \in Process /\ d.phase = c.phase /\ d.body = c.body /\ d.flag = c.flag
         /\ d.count = c.count + 1 /\ d.at = c.at + 1
<1>1. c.count + 1 \in Nat /\ c.at + 1 \in Nat
  BY DEF Process
<1> QED
  BY <1>1 DEF Process

LEMMA ChildCreatesStep == DInv /\ ChildCreates => DInv'
<1> SUFFICES ASSUME DInv, ChildCreates PROVE DInv'
  OBVIOUS
<1>1. /\ child.phase = "body" /\ child.at <= Len(child.body)
      /\ UNCHANGED <<inputs, parent, pipe, executed, writers, status, fault>>
  BY DEF ChildCreates, childOnly
<1>2. /\ child \in Process /\ child.at \in DOMAIN child.body /\ child.count = child.at - 1
      /\ child.flag = [site |-> Here.site, index |-> at] /\ at \in Int /\ at \in Visits
      /\ child.at + 1 \in 1 .. Len(child.body) + 1 /\ child.count + 1 = child.at /\ child.at \in Int
      /\ child.flag.index = at /\ child.flag.site = Here.site
      /\ fault # "other_path" => child.body = program /\ child.at <= at
  BY <1>1, ChildSteps DEF DInv, Typed, OnItsWay, Process
<1>3. CASE child.at = at /\ child.body[at].site = Here.site
  <2>1. child' = [child EXCEPT !.phase = "statement"]
    BY <1>2, <1>3 DEF ChildCreates, ThisOne
  <2>2. Typed'
    BY <1>1, <1>2, <2>1 DEF DInv, Typed, Process, inputs, parent, Visits
  <2>3. Counted' /\ Lives' /\ OnItsWay' /\ Ended' /\ HasRead' /\ VerdictTrue'
    BY <1>1, <1>2, <1>3, <2>1 DEF DInv, Counted, Lives, OnItsWay, Ended, HasRead, VerdictTrue,
       Process, inputs, parent, Visits, Here
  <2> QED
    BY <2>2, <2>3 DEF DInv
<1>4. CASE ~(child.at = at /\ child.body[at].site = Here.site)
  <2>1. PICK f \in BOOLEAN :
          child' = [[child EXCEPT !.count = child.count + 1, !.at = child.at + 1] EXCEPT !.failed = f]
    <3>1. child.at > at \/ ~ThisOne(child.body[child.at], child.at)
      BY <1>2, <1>4 DEF ThisOne
    <3>2. child.failed \in BOOLEAN
      BY <1>2 DEF Process
    <3> DEFINE next == [child EXCEPT !.count = child.count + 1, !.at = child.at + 1]
    <3>3. next = [next EXCEPT !.failed = child.failed]
      BY <1>2 DEF Process
    <3>4. child' = [next EXCEPT !.failed = TRUE] \/ child' = next
      BY <1>2, <3>1 DEF ChildCreates
    <3> QED
      BY <3>2, <3>3, <3>4
  <2>2. /\ child' \in Process /\ child'.phase = "body" /\ child'.body = child.body /\ child'.flag = child.flag
        /\ child'.count = child.count + 1 /\ child'.at = child.at + 1
    BY <1>1, <1>2, <2>1, Advanced
  <2>3. fault # "other_path" => child.at + 1 <= at
    BY <1>2, <1>4 DEF Here
  <2>4. Typed'
    BY <1>1, <1>2, <2>2 DEF DInv, Typed, inputs, parent, Visits
  <2>5. Counted' /\ Lives' /\ OnItsWay' /\ Ended' /\ HasRead' /\ VerdictTrue'
    BY <1>1, <1>2, <2>2, <2>3 DEF DInv, Counted, Lives, OnItsWay, Ended, HasRead, VerdictTrue,
       inputs, parent, Visits, Here
  <2> QED
    BY <2>4, <2>5 DEF DInv
<1> QED
  BY <1>3, <1>4

LEMMA ChildEndsStep == DInv /\ ChildEnds => DInv'
<1> SUFFICES ASSUME DInv, ChildEnds PROVE DInv'
  OBVIOUS
<1>1. PICK how \in {"exit_0", "exit_1"} : Dies(how)
  BY DEF ChildEnds
<1>2. /\ child.phase = "body" /\ child.at > Len(child.body) /\ writers' = writers \ {"child"}
      /\ UNCHANGED <<inputs, parent, pipe, executed, fault>>
  BY DEF ChildEnds, childOnly
<1>3. fault # "none"
  <2> SUFFICES ASSUME fault = "none" PROVE FALSE
    OBVIOUS
  <2>1. child.body = program /\ child.at <= at /\ at \in Visits /\ at \in Int
        /\ child.at \in Int /\ Len(program) \in Nat
    BY <1>2, ChildSteps, Sizes DEF DInv, OnItsWay, Typed, Process
  <2> QED
    BY <1>2, <2>1 DEF Visits
<1>4. Typed' /\ Counted' /\ Lives' /\ OnItsWay' /\ HasRead' /\ VerdictTrue'
  BY <1>1, <1>2, Dead DEF DInv, Typed
<1>5. Ended'
  BY <1>2, <1>3 DEF Ended
<1> QED
  BY <1>4, <1>5 DEF DInv

(* A child at its statement is where the parent is. *)
LEMMA AtStatement ==
  ASSUME DInv, child.phase \in {"statement", "aborting"}
  PROVE  /\ child.at = at /\ child.body[at] \in Visit /\ Doing = child.body[at].does
         /\ fault = "none" => Doing = Here.does
BY ChildSteps DEF DInv, OnItsWay, Doing, Here

LEMMA StatementDiesStep == DInv /\ StatementDies => DInv'
<1> SUFFICES ASSUME DInv, StatementDies PROVE DInv'
  OBVIOUS
<1>1. /\ child.phase = "statement" /\ Doing \in DOMAIN Deaths /\ executed' = child.at
      /\ Dies(Deaths[Doing]) /\ UNCHANGED <<inputs, parent, pipe, fault>>
      /\ writers' \in SUBSET {"child", "daemon"} /\ "child" \notin writers'
  BY DEF StatementDies, DInv, Typed
<1>2. /\ child.at = at /\ child.body[at] \in Visit /\ Doing = child.body[at].does
      /\ fault = "none" => Doing = Here.does
  BY <1>1, AtStatement
<1>3. Deaths[Doing] \in {"exit_0", "exit_1", "signal"}
  BY <1>1, <1>2, Statements
<1>4. /\ Typed' /\ Counted' /\ Lives' /\ OnItsWay' /\ HasRead' /\ VerdictTrue'
      /\ Here' = Here
  BY <1>1, <1>3, Dead DEF DInv, Typed, Process
<1>5. Ended'
  BY <1>1, <1>2, <1>4, ChildSteps DEF Ended, Dies, inputs, parent
<1> QED
  BY <1>4, <1>5 DEF DInv

LEMMA StatementLivesStep == DInv /\ StatementLives => DInv'
<1> SUFFICES ASSUME DInv, StatementLives PROVE DInv'
  OBVIOUS
<1>1. /\ child.phase = "statement" /\ Doing \notin DOMAIN Deaths /\ executed' = child.at
      /\ child' = [child EXCEPT !.phase = "aborting"]
      /\ UNCHANGED <<inputs, parent, pipe, writers, status, fault>>
  BY DEF StatementLives
<1>2. child.at = at /\ Doing = child.body[at].does
  BY <1>1, AtStatement
<1>3. /\ child' \in Process /\ child'.phase = "aborting" /\ child'.body = child.body /\ child'.at = child.at
  BY <1>1 DEF DInv, Typed, Process
<1>4. Typed'
  BY <1>1, <1>3 DEF DInv, Typed, Process, inputs, parent, Visits
<1>5. Counted' /\ Lives' /\ OnItsWay' /\ Ended' /\ HasRead' /\ VerdictTrue'
  BY <1>1, <1>2, <1>3 DEF DInv, Counted, Lives, OnItsWay, Ended, HasRead, VerdictTrue,
     inputs, parent, Visits, Here
<1> QED
  BY <1>4, <1>5 DEF DInv

LEMMA AbortStep == DInv /\ Abort => DInv'
<1> SUFFICES ASSUME DInv, Abort PROVE DInv'
  OBVIOUS
<1>1. /\ child.phase = "aborting" /\ pipe' = <<StatusByte[Doing]>> /\ Dies("exit_1")
      /\ writers' = writers \ {"child"} /\ UNCHANGED <<inputs, parent, executed, fault>>
  BY DEF Abort
<1>2. /\ child.body[at] \in Visit /\ Doing = child.body[at].does
      /\ fault = "none" => Doing = Here.does
      /\ executed = at /\ Doing \notin DOMAIN Deaths
  BY <1>1, AtStatement DEF DInv, OnItsWay
<1>3. StatusByte[Doing] \in {"L", "R", "T"}
  BY <1>2, Statements
<1>4. pipe' \in Contents
  BY <1>1, <1>3 DEF Contents
<1>5. /\ Typed' /\ Counted' /\ Lives' /\ OnItsWay' /\ HasRead' /\ VerdictTrue'
      /\ Here' = Here
  BY <1>1, <1>4, Dead DEF DInv, Typed
<1>6. Ended'
  BY <1>1, <1>2, <1>5 DEF Ended, Dies, inputs, parent
<1> QED
  BY <1>5, <1>6 DEF DInv

LEMMA ChildCheckFailsStep == DInv /\ ChildCheckFails => DInv'
<1> SUFFICES ASSUME DInv, ChildCheckFails PROVE DInv'
  OBVIOUS
<1>1. child.phase # "dead" /\ fault' # "none" /\ fault' \in Faults
  BY DeathTestAssumption DEF ChildCheckFails, GoesWrong, FaultKinds
<1>2. /\ UNCHANGED <<inputs, parent, executed>> /\ writers' = writers \ {"child"}
      /\ (Dies("exit_1") /\ pipe' = <<"I">>) \/ (Dies("signal") /\ pipe' = pipe)
  BY DEF ChildCheckFails, AbortChild
<1>3. pipe' \in Contents
  BY <1>2 DEF DInv, Typed, Contents
<1>4. Typed' /\ Counted' /\ Lives' /\ OnItsWay' /\ HasRead' /\ VerdictTrue'
  BY <1>1, <1>2, <1>3, Dead DEF DInv, Typed
<1>5. Ended'
  BY <1>1 DEF Ended
<1> QED
  BY <1>4, <1>5 DEF DInv

LEMMA DaemonExitsStep == DInv /\ DaemonExits => DInv'
<1> SUFFICES ASSUME DInv, DaemonExits PROVE DInv'
  OBVIOUS
<1>1. writers' = writers \ {"daemon"} /\ UNCHANGED <<inputs, parent, pipe, executed, child, status, fault>>
  BY DEF DaemonExits, childOnly
<1>2. Typed'
  BY <1>1 DEF DInv, Typed, inputs, parent, Visits
<1>3. Counted' /\ Lives' /\ OnItsWay' /\ Ended' /\ HasRead' /\ VerdictTrue'
  BY <1>1 DEF DInv, Counted, Lives, OnItsWay, Ended, HasRead, VerdictTrue, inputs, parent, Visits, Here
<1> QED
  BY <1>2, <1>3 DEF DInv
--------------------------------------------------------------------------------
LEMMA StepPreserves == DInv /\ [Next]_vars => DInv'
<1> SUFFICES ASSUME DInv, [Next]_vars PROVE DInv'
  OBVIOUS
<1>1. CASE Next
  BY <1>1, CreateFailsStep, AssumeRoleStep, ReadStatusByteStep, WaitStep, NextIterationStep, ExecStep,
     ChildCreatesStep, ChildEndsStep, StatementDiesStep, StatementLivesStep, AbortStep, DaemonExitsStep,
     ParentCheckFailsStep, ExecFailsStep, ChildCheckFailsStep DEF Next, Works, GoesAstray
<1>2. CASE UNCHANGED vars
  <2>1. Typed'
    BY <1>2 DEF vars, inputs, parent, DInv, Typed, Visits
  <2>2. Counted' /\ Lives' /\ OnItsWay' /\ Ended' /\ HasRead' /\ VerdictTrue'
    BY <1>2 DEF vars, inputs, parent, DInv, Counted, Lives, OnItsWay, Ended, HasRead, VerdictTrue, Visits, Here
  <2> QED
    BY <2>1, <2>2 DEF DInv
<1> QED
  BY <1>1, <1>2

(* The counts of parent and child agree in every reachable state. *)
THEOREM Invariant == Spec => []DInv
BY InitEstablishes, StepPreserves, PTL DEF Spec

(* The child executes the statement that the parent oversees, at the visit    *)
(* it was started for, and the verdict on every visit is the true one.       *)
THEOREM Judges == Spec => []JudgedTruly
<1>1. DInv => JudgedTruly
  <2> SUFFICES ASSUME DInv PROVE JudgedTruly
    OBVIOUS
  <2>1. TypeOK
    <3>1. count \in 0 .. Len(program)
      BY Sizes DEF DInv, Typed, Counted, Visits
    <3>2. pc \in {"body", "reading", "waiting", "done", "aborted"}
      BY DEF DInv, Typed
    <3> QED
      BY <3>1 DEF DInv, Typed, TypeOK, Contents, Process, Visits
  <2>2. RightVisit
    BY DEF DInv, OnItsWay, RightVisit
  <2> QED
    BY <2>1, <2>2 DEF DInv, JudgedTruly
<1> QED
  BY <1>1, Invariant, PTL
================================================================================
