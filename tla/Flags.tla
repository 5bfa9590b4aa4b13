---------------------------------- MODULE Flags ----------------------------------
(***************************************************************************)
(* The flags of googletest and googlemock: their values from the             *)
(* environment (gtest-port.cc and the definitions of gtest.cc), and the      *)
(* parsing of the command line, in which the flags that are recognized are   *)
(* taken out of argv (gtest.cc, gmock.cc).  An argument is a record: what it *)
(* begins with, the name, and the value after "=", if there is one.          *)
(***************************************************************************)
EXTENDS Integers, Sequences, SequencesExt

CONSTANTS BoolFlags, IntFlags, StringFlags,       \* the names of the flags
          MockBoolFlags, MockIntFlags, MockStringFlags,
          Strtol,      \* [string -> [value |-> a long, all |-> nothing is left over]]
          IntMax, LongMax,
          Falsy,       \* the strings that start with 0, f or F
          Files,       \* the flag files: [name -> its lines, which are arguments]
          Default      \* [flag -> its value when nothing is said of it]

NULL == [prefix |-> "NULL", name |-> "", value |-> <<>>]
EmptyLine == [prefix |-> "", name |-> "", value |-> <<>>]
TestFlags == BoolFlags \union IntFlags \union StringFlags
MockFlags == MockBoolFlags \union MockIntFlags \union MockStringFlags

Failed == [ok |-> FALSE]
Parsed(v) == [ok |-> TRUE, value |-> v]

(* ParseInt32: LONG_MAX and LONG_MIN stand for an overflow of long; a slip:  *)
(* only they are refused.                                                    *)
FitsLong(v) == v \notin {LongMax, - LongMax - 1}
FitsInt(v) == v \notin {LongMax, - LongMax - 1} /\ v \in - IntMax - 1 .. IntMax
ParseInt32(str) ==
  LET read == Strtol[str] IN IF read.all /\ FitsInt(read.value) THEN Parsed(read.value) ELSE Failed

--------------------------------------------------------------------------------
(* The environment: [variable -> <<its value>>, or <<>> when it is not set];  *)
(* the variable of a flag goes by the name of the flag here.                 *)
BoolFromGTestEnv(env, flag, default) == IF env[flag] = <<>> THEN default ELSE env[flag] # <<"0">>
Int32FromGTestEnv(env, flag, default) ==
  IF env[flag] # <<>> /\ ParseInt32(env[flag][1]).ok THEN ParseInt32(env[flag][1]).value ELSE default
StringFromGTestEnv(env, flag, default) == IF env[flag] = <<>> THEN default ELSE env[flag][1]

(* What Bazel's variables say counts when the flag's own variable is not set *)
DefaultFrom(env, flag) ==
  LET Says(variable) == env[variable] # <<>> IN
  CASE flag = "filter" /\ Says("TESTBRIDGE_TEST_ONLY") -> env["TESTBRIDGE_TEST_ONLY"][1]
    [] flag = "fail_fast" /\ Says("TESTBRIDGE_TEST_RUNNER_FAIL_FAST") ->
         env["TESTBRIDGE_TEST_RUNNER_FAIL_FAST"] = <<"1">>
    [] flag = "output" /\ Says("XML_OUTPUT_FILE") -> "xml:" \o env["XML_OUTPUT_FILE"][1]
    [] OTHER -> Default[flag]

HasVariable(flag) == flag \notin {"list_tests", "internal_run_death_test"}
InitialFlags(env) ==
  [flag \in TestFlags \union MockFlags |->
     CASE flag \in MockFlags \/ ~ HasVariable(flag) -> Default[flag]
       [] flag \in BoolFlags /\ HasVariable(flag) -> BoolFromGTestEnv(env, flag, DefaultFrom(env, flag))
       [] flag \in IntFlags -> Int32FromGTestEnv(env, flag, DefaultFrom(env, flag))
       [] flag \in StringFlags /\ HasVariable(flag) -> StringFromGTestEnv(env, flag, DefaultFrom(env, flag))]

--------------------------------------------------------------------------------
(* ParseFlag, of each type; "--flag" alone is enough for a bool              *)
ParseBool(value) == Parsed(value = <<>> \/ value[1] \notin Falsy)
ParseFlag(arg, flag) ==
  IF arg.prefix # "--gtest_" \/ arg.name # flag THEN Failed
  ELSE CASE flag \in BoolFlags -> ParseBool(arg.value)
         [] flag \notin BoolFlags /\ arg.value = <<>> -> Failed
         [] flag \in IntFlags /\ arg.value # <<>> -> ParseInt32(arg.value[1])
         [] flag \in StringFlags /\ arg.value # <<>> -> Parsed(arg.value[1])
(* ParseGoogleMockFlag: an int needs no value either, and is 0 without one   *)
ParseGoogleMockFlag(arg, flag) ==
  IF arg.prefix # "--gmock_" \/ arg.name # flag THEN Failed
  ELSE CASE flag \in MockBoolFlags -> ParseBool(arg.value)
         [] flag \in MockIntFlags -> IF arg.value = <<>> THEN Parsed(0) ELSE ParseInt32(arg.value[1])
         [] flag \in MockStringFlags /\ arg.value = <<>> -> Failed
         [] flag \in MockStringFlags /\ arg.value # <<>> -> Parsed(arg.value[1])

(* ParseGoogleTestFlag tries every flag but flagfile; result: the new flags  *)
Recognized(arg) == \E f \in TestFlags \ {"flagfile"} : ParseFlag(arg, f).ok
SetFlag(flags, arg) == [flags EXCEPT ![arg.name] = ParseFlag(arg, arg.name).value]

(* HasGoogleTestFlagPrefix: with two dashes, one or a slash, "gtest_" or      *)
(* "gtest-", and not an internal flag.                                       *)
GTestPrefixes == {"--gtest_", "-gtest_", "/gtest_", "--gtest-", "-gtest-", "/gtest-"}
IsInternal(arg) == arg.name = "internal_run_death_test"
AsksForHelp(arg) ==
  \/ arg = [prefix |-> "--", name |-> "help", value |-> <<>>]
  \/ arg.prefix \in GTestPrefixes
     /\ ~ (IsInternal(arg) /\ arg.prefix \in {"--gtest_", "-gtest_", "/gtest_"})

(* LoadFlagsFromFile: a line that is no flag shows the help                  *)
LoadFlagsFromFile(s, name) ==
  LET Line(t, line) ==
        CASE line = EmptyLine -> t
          [] line # EmptyLine /\ Recognized(line) -> [t EXCEPT !.flags = SetFlag(@, line)]
          [] OTHER -> [t EXCEPT !.g_help_flag = TRUE]
  IN  IF name \notin DOMAIN Files THEN [s EXCEPT !.died = TRUE] ELSE FoldLeft(Line, s, Files[name])

(* The argument that was at i is taken out: argv[i] is s.argv[i + 1] here,    *)
(* with NULL behind the last argument.                                       *)
RemoveArg(s, i) ==
  [s EXCEPT !.argv = [j \in DOMAIN @ |-> CASE j \in i + 1 .. s.argc - 1 -> @[j + 1]
                                            [] j = s.argc -> NULL
                                            [] OTHER -> @[j]],
            !.argc = @ - 1]

(* ParseGoogleTestFlagsOnlyImpl *)
RECURSIVE ParseFrom(_, _)
ParseFrom(s, i) ==
  LET arg == s.argv[i + 1] IN
  CASE s.died \/ i >= s.argc -> s
    [] ~ s.died /\ i < s.argc /\ Recognized(arg) ->
         ParseFrom(RemoveArg([s EXCEPT !.flags = SetFlag(@, arg)], i), i)
    [] ~ s.died /\ i < s.argc /\ ParseFlag(arg, "flagfile").ok ->
         ParseFrom(RemoveArg(LoadFlagsFromFile([s EXCEPT !.flags = SetFlag(@, arg)], arg.value[1]), i),
                   i)
    [] OTHER -> ParseFrom([s EXCEPT !.g_help_flag = @ \/ AsksForHelp(arg)], i + 1)

(* InitGoogleTestImpl: only once, and not without a program name             *)
InitGoogleTest(s) ==
  IF s.g_argvs # <<>> \/ s.argc <= 0 THEN s
  ELSE ParseFrom([s EXCEPT !.g_argvs = SubSeq(s.argv, 1, s.argc)], 1)

(* InitGoogleMockImpl; the NULL behind the arguments moves along             *)
RECURSIVE ParseMockFrom(_, _)
ParseMockFrom(s, i) ==
  LET arg == s.argv[i + 1] IN
  CASE i = s.argc -> s
    [] i # s.argc /\ (\E f \in MockFlags : ParseGoogleMockFlag(arg, f).ok) ->
         ParseMockFrom([s EXCEPT !.flags[arg.name] = ParseGoogleMockFlag(arg, arg.name).value,
                                 !.argv = [j \in DOMAIN @ |-> IF j \in i + 1 .. s.argc THEN @[j + 1] ELSE @[j]],
                                 !.argc = @ - 1], i)
    [] OTHER -> ParseMockFrom(s, i + 1)
InitGoogleMock(s) ==
  LET t == InitGoogleTest(s) IN IF t.argc <= 0 \/ t.died THEN t ELSE ParseMockFrom(t, 1)

Started(args, env) ==
  [argv |-> Append(args, NULL), argc |-> Len(args), flags |-> InitialFlags(env), g_argvs |-> <<>>,
   g_help_flag |-> FALSE, died |-> FALSE]
================================================================================
