# A verification development for gtest_example

The repository is a small C++ program, `Factorial(int)`, with its unit test, and
the framework that test is written in: GoogleTest and GoogleMock, whole, under
`lib/gtest`, with a demonstration of a mocked service and some notes. The logic
worth verifying is in the framework: a mock's verdict, a test's result and a test
program's exit status are what everything else is judged by. This directory
models it in TLA+, checks the models with TLC on small instances, and proves the
properties that matter most of the mocks, of the test program and of the matching
of elements with TLAPS for all instances.

Paths below are relative to the repository; `gmock/` stands for
`lib/gtest/googlemock/` and `gtest/` for `lib/gtest/googletest/`.

## The system

### Parts, and how they interact

    declarations (TEST, TEST_P, ...) --static initialisation--> registration
    command line, environment --> flags --> selection: filters, shards, order
                                                |
    RUN_ALL_TESTS() ---------------------------> test program --> exit status
        |                                           ^
        v                                           | results
    test code --EXPECT_CALL--> expectations         |
        |       ON_CALL            ^ |              |
        |                    calls | | failures     |
        |   code under test -------+ v              |
        +-- assertions ---------> reporters --------+--> listeners: console,
        |   (matchers, printers,   of threads            stream, XML, JSON --> files
        |    diffs, patterns)
        +-- death tests --fork/exec--> child process --status byte--> verdict

**Expectations** (`gmock/src/gmock-spec-builders.cc`,
`gmock/include/gmock/gmock-spec-builders.h`). State: for each mock function the
list of its expectations; for each expectation its matchers, cardinality, call
count, the flags retired and retires-on-saturation, and the set of its immediate
prerequisites; for each `Sequence` the expectation last added; for the thread
the implicit sequence of the innermost living `InSequence` scope. Operations:
the clauses of `EXPECT_CALL()`, `InSequence` scopes, a call, verification. What
is hard: the prerequisites form a graph that spans mock functions, walked by
three loops with short-cuts; being satisfied is not monotone (one call too many
undoes it), so the order is only kept by retiring the prerequisites of each
call in time; excess is judged when a call arrives and judged again, by other
means, at verification. What makes it correct: calls are accepted only in the
promised order, a retired expectation is never revived, each violation is
reported exactly once, and the short-cuts lose nothing.

**Mock objects in several threads** (the same files). State: the mutex
`g_gmock_mutex`, the registry of mock functions per object, the lifetime of
expectations and mock functions. Operations: a call reads the list of
expectations without the lock, matches with it, performs the action without it,
and reports after that; verification and destructors hold the lock but let go of
it to delete expectations, because the actions in them may own other mock
objects. What is hard: every gap between two critical sections, and the action,
which may call, verify or delete anything, including the mock it belongs to.
What makes it correct: nothing deleted is used, nobody waits for a lock it
holds, each excessive call is reported once, everything ends.

**The clauses of one `EXPECT_CALL()`** (the same files,
`gmock/src/gmock-cardinalities.cc`). State: the last clause, the actions, the
cardinality and whether it was given or implied, whether the actions were
counted against it. What is hard: clauses may come in any order and a misplaced
one still takes effect; the check of the number of actions is made once, as early
as it can be, though later clauses may change what it looked at. What makes it
correct: exactly the statements out of order are reported, the implied
cardinality is what the documents say, the warning is right when the statement
is over, no `WillOnce()` action is performed twice.

**The test program** (`gtest/src/gtest.cc`). State: the results of tests, of
suites and of the program itself, the current suite and test, the iteration,
what has been set up. Operations: `RUN_ALL_TESTS()` down to `Test::Run()`, with
user code called in nine places, each of which may fail, fail fatally, skip or
throw. What is hard: which of the later pieces of user code still run after
that, to which result it is charged, and what survives into the next iteration.
What makes it correct: the exit status tells of every failure, what is set up is
torn down in order, a test starts clean, `--gtest_fail_fast` stops, every
selected test is accounted for.

**Mock objects and their lives** (the same files, `gmock/include/gmock/gmock-nice-strict.h`,
`gmock-actions.h`). State: the registry of mock objects and the table of
reactions to uninteresting calls, both by address; the `ON_CALL()`s and
expectations of each mock function; the state that copies of an action share.
What is hard: an address is used again; an object that never was verified, a
failure that throws out of the loop over its mock functions, a program that ends
while objects live. What makes it correct: no object inherits what was recorded
of another, no expectation that was not met goes unreported, exactly the leaks
are reported, an action performed in several places keeps its one state.

**Matchers and the matching of elements** (`gmock-matchers.h`, `.cc`). No state,
but for `MaxBipartiteMatchState`, whose recursive search takes matchers away
from elements along a path. What is hard: a matcher answers differently when
somebody wants an explanation, and is described in two ways; the search must not
lose a pair. What makes it correct: the verdict does not depend on who listens,
explanations and descriptions are about it, and the pairing is a greatest one.

**Results, reporters, listeners** (`gtest.cc`, `gtest-test-part.cc`, `gtest-spi.h`).
State: the mutex of the `UnitTest`, the reporter of each thread and of the
process, the reporters, checkers and traces on the stacks of the threads, the list
of listeners. What is hard: reporters nest, remember those they replace, serve
one thread or all, and are unwound by exceptions; a failure is recorded with the
mutex held. What makes it correct: nothing gone is called, each result is taken
once and by the innermost one, listeners hear in order, a report returns.

**Registration and parameterised tests** (`gtest-param-util.h`, `gtest-internal.h`,
`gtest-typed-test.cc`). Static objects of several translation units, initialised in
any order; generators that are walked by iterators; an expansion that happens once.

**Selection** (`gtest.cc`): filters, disabled tests, the numbering over shards, the
child of a death test, shuffling and undoing it in each iteration.

**Death tests** (`gtest-death-test.cc`). Two processes and a pipe; in the threadsafe
style the child runs the whole program again and counts the death tests it passes
until it is at the one it was started for. What is hard: that the two mean the
same statement, what each verdict rests on when something else goes wrong, and
that the parent does not wait for ever.

**Reports and their files** (`gtest.cc`, `gtest-filepath.cc`): what is said of an
iteration on the console, in the stream, in XML and in JSON; the directories and the
name of the file, chosen while other programs do the same.

**Flags, printers, differences, patterns, floating-point comparison, encodings**:
pure functions, each with edges that decide what a user believes of a test.

**Factorial** (`src/test.cpp`). A loop over an `int`, with two overflows.

Not modelled, and why, is listed at the end; `PROJECT.json` has every component
with its status, and under `hazards` every place of this code that a test would
hardly reach, with the properties that watch over it.

## The modules

| Module | Models | Proofs |
|---|---|---|
| `CallCardinality` | `Between()`, `Exactly()`, ...: how many calls are allowed | |
| `Reachability` | the worklist walks over prerequisites, as least closed sets | `MockExpectationsProofs` |
| `MockExpectations` | the graph of expectations, matching, retirement, verification | `MockExpectationsProofs` |
| `CallOrder` | abstract: who waits for whom and who may be called now | refined by `MockExpectations`: `MockExpectationsProofs` |
| `MockThreads` | calls, verification and destruction in several threads | `MockThreadsProofs` |
| `ExpectCall` | one `EXPECT_CALL()`: clauses, implied cardinality, actions | `MockObjectsProofs` |
| `MockObjects`, `Actions` | nice and strict mocks, `ON_CALL()`, leaks; what actions do | `MockObjectsProofs` |
| `Matchers` | the verdicts, explanations and descriptions of matchers | |
| `BipartiteMatching` | the pairing of elements with matchers, step by step | `FunctionProofs` |
| `TestProgram` | `RUN_ALL_TESTS()` | `TestProgramProofs` |
| `TestSelection` | filters, shards, order of the tests | `TestSelectionProofs` |
| `TestRegistration`, `Generators` | declarations, parameterised and typed tests | `TestSelectionProofs` |
| `Reporters` | where the result of an assertion goes; listeners | `ReportersProofs` |
| `DeathTest` | death tests: parent, child, pipe | `DeathTestProofs` |
| `Reports`, `Encodings` | counts, console, stream, XML, JSON; escapes and encodings | |
| `OutputFiles`, `FilePaths` | the files of the reports | `ReportersProofs` |
| `Flags` | command line, flag files, environment | |
| `Patterns` | globs, filters, simple regular expressions | `FunctionProofs` |
| `FloatingPoint` | comparison of floating-point numbers | `FunctionProofs` |
| `Diffs` | differences of texts | `FunctionProofs` |
| `Printers` | values | |
| `Factorial` | `Factorial(int)` | `FunctionProofs` |

The modules `MC...` give TLC its instances. `MCFunctions` puts the pure functions
under one run, each with the reference definition it is compared with; `MCMatchers`
and `MCReports` hold the references of the matchers and of the reports. A
definition whose comment calls it a slip is the way a plausible bug would write the
definition next to it; nothing else uses it.

Modules compose where components do: `MockObjects` takes what an action does as its
parameter `PerformAction`, which the run gives as `Perform` of `Actions`; `TestRegistration`
takes what the iterators of a generator go through as its parameter `ValuesOf`, which the
run gives as `Generated` of `Generators`; `OutputFiles` extends `FilePaths`;
`MockExpectations` builds on `CallCardinality` and `Reachability`. Between `TestProgram`, `TestSelection`,
`Reporters` and `Reports` the interface is small, and each takes the others at it:
the test program runs any set of selected tests and adds failures to what is
current, and the reports are of any results the test program may leave.

### How state and actions correspond to the code

`MockExpectations`. An expectation is a number in the order of creation, so "the
newest that matches", a search of the list from its back, is the greatest.
`prereqs`, `callCount`, `retired`, `expectations`, `lastExpectation` are the
fields of the code; `verdict`, `excess`, `unexpected`, `members` record what the
user is told, for the properties. Each action is one critical section of
`g_gmock_mutex` or one clause. `MatchedCall` is all of
`GetActionForArguments()`: excess asked first, then prerequisites retired, the
call counted, and the expectation itself retired if it asked for that and is now
saturated. The three worklist loops compute the least set that is closed under a
relation; `Reach` says that without a loop, and the relation of each loop keeps
its short-cut: `RetireAllPreRequisites` does not look behind what is already
retired, `FindUnsatisfiedPrerequisites` only below what is satisfied and was
never called. The user keeps two rules the documents make: expectations are set
before the mock function is called, and statements are not nested.

`CallOrder` is what all this promises: each item may be called only when all
before it have had the calls they need and nothing after it has begun. It knows
no matchers, retirement, lists or sequences.

`MockThreads`. A thread is a stack of operations; each step is what happens
between two moments where another thread may get in: reading the size of the
list, matching (under the lock), performing the action (which may push another
operation), reporting; for verification, taking the lock, verifying one mock
function and swapping its list out (which releases the lock), deleting the
expectations one by one, taking the lock again. `Unregister` is the end of the critical
section of a destructor, with the swap of the `ON_CALL()`s at its end; `DropDefaults` is their
deletion together with the empty critical section after it (h:1519-1542). `dangling`
collects each use of something deleted. Every expectation accepts every argument here; the matching
is in `MockExpectations`.

`ExpectCall` has one expectation on its own. Each clause sets `lastClause`, counts
a report if it is misplaced, and takes its effect all the same, as in the code.
`performed` lists the `WillOnce()` actions in the order of performance. The number of
actions is checked at the first call, or when the expectation is deleted if nothing has
checked it before (`DeleteExpectation`).

`TestProgram`. `pc` names the place in `RunAllTests`, `TestSuite::Run`,
`TestInfo::Run` or `Test::Run`; each piece of user code is a step that adds
what happened to the current result, by the code's own rule of what is current.
Exceptions follow `HandleExceptionsInMethodIfSupported`; the environments are
called without a handler of their own, so an exception there leaves the loop
(`"caught"`). Which tests are selected is any set, fixed at the start. The tests of a suite
have one fixture class, so that `HasSameFixtureClass()` lets each run, and are taken in an
order that does not matter here: the sort in `TestSuite::Run` is in `TestSelection`.

`MockObjects`. An address holds an object or none; `registry` and `reaction` are the
two tables of `gmock-spec-builders.cc`. Construction, `ON_CALL()`, `EXPECT_CALL()`, a
call, each kind of verification, `AllowLeak()`, destruction and the end of the
program are one action each, the lock being `MockThreads`' concern; with
`throw_on_failure` a failed verification leaves the loop over the mock functions
(`Reaches`), and with what it then leaves behind everything goes on. All expectations
accept all arguments and none retires, so a call goes to the newest of its mock function,
also when that has had all its calls (`FindMatchingExpectation`); an older one that is
unmet stays so. Whether the call is in excess is asked before it counts; the failure, like
that of a strict mock's uninteresting call, is reported after the action, from the
destructor of a cleanup handler, so that with `throw_on_failure` the program is terminated.
Only an action that aborts the program keeps the report from being made. What an
action does is the parameter `PerformAction`, a function of the arguments and the `world`
that actions write to and share; the run has `Perform` of `Actions` for it.

`BipartiteMatching`. `TryAugment` recurses; its activations are the frames of
`path`, and a step is one turn of the loop of the innermost. `ilhs` is the loop of
`Compute()`.

`Matchers`. `Matches(m, x, listening)` is `MatchAndExplain` with a listener that is
interested or not, `Describe` and `DescribeNegated` what the two descriptions
state, as conditions that can be evaluated: no text is built.

`TestSelection`. Registration puts the suites in order (death tests first), then
`FilterTests` and, in each iteration, `Reseed`, `ShuffleTests`, the run, and
`UnshuffleTests`. The generator is the code's linear congruential one, with its
constants as parameters, and the width of its word, at which its products wrap around.
`test_suite_indices_` and `test_indices_` are permutations, as in the code, and what is
run is the selected tests at the places (suite, test) they give, one after the other.
`suites` is in the order of registration until a suite runs: `TestSuite::Run` sorts its
tests by file and line (`StableSort`, on the constant `Location`, a number for the two),
and nothing undoes that, while the indices are shuffled and restored around it. So
`Iterate` changes the lists for good, but only those of the suites that run: it takes the
number of suites that have their turn, which is less than all where `fail_fast` stops the
iteration or an environment fails (what fails is `TestProgram`'s concern). Where a suite
itself stops at a failed test, the tests after it have no turn either; `orders` has the
order they would have had. A test's number over the shards is that of the tests that may
run at earlier places, in the order of registration, which is the one `FilterTests` meets.

`TestRegistration`. A step initialises the next static object of one translation
unit; units interleave. `InitGoogleTest` or the first `RUN_ALL_TESTS()` expands what
is parameterised (`RegisterTests`, with the values of `Generators`' iterators); what is
loaded later is not expanded, as in the code. A fatal error of a macro is the stage
`"died"`. A declaration is named by its place, `<<unit, number>>`, which is what the
registries of patterns and instantiations keep. What the program asks for is said without
them: `Reasons` has a pair for each test that a declaration means (`MeantBy`), and for each
suite of which nothing would run; `Mistaken` says what is wrong with a program.

`Reporters`. Reporters, helpers and traces are objects on the stack of a thread and
called by an address, so that a stale pointer would be seen. A report is a call that
goes from reporter to reporter, each hop a step, with the mutex held; a thrown
failure unwinds the stack of its thread one object at a time. Listeners are appended,
released and replaced between tests (the documents do so before any,
`docs/advanced.md:1745`): between two assertions, with no reporter on a stack and no report
under way, as often as `MaxChanges` says, and at will
after the last one. `audience` records for each result who was in the list when it was
made. The list starts with the printer alone or with others appended.

`DeathTest`. `pc` is where the parent is between the creation of the pipe and the
verdict, `child` the process it started, with the body of the test as it runs it;
`fork`, `exec`, `pipe`, `wait` are external. What may go wrong once is named by
`Faults`: a system call of the parent or the child fails, `exec` fails, the body
takes another path in the child.

`Reports`. Documents are sequences of tokens: tags, attributes, texts, keys, commas;
wording, times and colours are left out. `Encodings` has what happens to the
characters of a text. `OutputFiles`. A step is one call of the system (`stat`,
`mkdir`, `fopen`) of one program; the file system is external. `Node` is what a
path name leads to: the names on the way, where empty ones and "." lead nowhere
(`Further` reads one character more); links and ".." are left out.

`Flags`. `Started` takes the environment, `InitGoogleTest` and `InitGoogleMock` walk
`argv` as the code does, taking out what they know. `Printers`, `Diffs`, `Patterns`,
`FloatingPoint`, `Generators` are functions of the code's functions. In `Patterns` a
turn of the loop over a glob maps a place to the next one (`GlobTurn`), and
`MatchRegexAtHead` gives the places of the text from which the expression matches from
an atom on. In `Diffs` the table of costs, the way back through it and the hunks are
recursive functions of places, as their loops are; a line is a value, a hunk the lines it
shows with their marks and what its header counts.

`Factorial`. A turn of the loop; a product or an increment that does not fit may
give any `int`, since signed overflow is undefined.

## What is checked

Ten runs pass. `PROJECT.json` names a mutant for each of their properties, a
plausible bug that the run finds.

| Run | Properties | Instance |
|---|---|---|
| `mock_expectations` | `TypeOK`, `PrerequisitesFrozen`, `UnsatisfiedPrerequisitesExact`, `ViolationsReportedOnce`, `SequencesInOrder`, `ImplementsCallOrder` | 3 expectations, 2 mock functions, joined by `After()` in every way, or by one `Sequence` object and `InSequence` scopes; bounds 0, 0..1 and at least 1; up to 2 calls each (with `After()`, one failing call); 1.1 million states |
| `mock_calls` | `ExcessReportedOnce`, `VerifiedInTheEnd`, `NoDanglingUse`, `ProgramsFinish` | 3 threads, 4 mock objects, 6 mock functions; two programs: calls and a verification half-way, with one mock function calling another in its action; an action that deletes its own mock object, an expectation that owns another, an excessive call |
| `mock_objects` | `RegistriesTrue`, `NothingPassedOver`, `ActionsSound`, `StatementJudged`, `ActionsSuffice` | 2 addresses (symmetric), 2 mock functions, up to 2 objects, 4 uses of them, nice, strict and bare, failures that throw or not, a round robin and a value that is moved from; or else all statements of up to 4 clauses, bounds sensible and senseless, up to 4 calls |
| `test_program` | `StatusTellsFailures`, `LifetimesNest`, `ChargedWhereItBelongs`, `IterationsSound`, `ComesToAnEnd` | suites of 2 and 1 tests, 2 environments, every combination of the flags, up to 2 iterations or endless ones, any 2 pieces of user code misbehaving in any way |
| `death_test` | `JudgedTruly`, `ParentGoesOn` | bodies of up to 3 visits to 2 lines, each statement under each predicate; both styles and an unknown one; 2 iterations; one fault |
| `test_selection` | `SelectionSound`, `OrdersRepeat` | 6 tests in 4 suites, 2 of them of death tests, one test disabled, in every order of registration, one suite of 3 with a test that comes last in the source and two on one line; 3 filters, up to 3 shards, 2 seeds, 3 iterations, each cut short after any number of suites |
| `test_registration` | `RegistrationSound`, `DiesOfMistakes` | programs of 2 translation units in every order and one that `main()` may load; initialised once, late or never |
| `results` | `NothingDangles`, `ListenersSound`, `ResultsTaken`, `ReportsReturn` | 2 threads, 2 listeners, up to 2 assertions and 2 objects on the stacks, with and without `throw_on_failure`; one change of the listeners between the assertions, any after them; 1.6 million states |
| `output_files` | `ReportsKept` | 3 programs, 2 iterations, 3 file systems to start from, and somebody who makes files meanwhile |
| `functions` | `PairingIsMaximum`, `VerdictsExplained`, `TextsSurvive`, `ShownTruthfully`, `DiffsSound`, `PatternsExact`, `FloatsClose`, `FlagsParsed`, `FactorialExact` | every small input of each function, chosen in the first step: pairings of up to 3 elements and 3 matchers, differences of up to 5 lines, globs of up to 4 and filters of up to 5 symbols against every name of up to 3, every valid expression of up to 4 symbols, all numbers of 6 bits, up to 3 arguments under 3 environments, some 900 programs for the reports, every argument of a 4-bit `int` |

Several properties are conjunctions of named parts, each with a comment of its own:
`RegistriesTrue` of `ReactionIsOwn` and `LeaksReported`, `JudgedTruly` of `RightVisit`
and `VerdictTrue`, `SelectionSound` of `ShardsPartition` and `ChildFindsItsTest`, and
so on. A type invariant is the first conjunct where a module has one.

Why the bounds are enough. Three expectations make a chain with a middle, which
is where the short-cuts act (something behind an expectation that is retired, or
satisfied and uncalled), a fork and a join; two calls take an expectation with
an upper bound of 0 or 1 past it, which is what makes satisfaction fall again.
Two mock functions are what it takes for an order to span lists that are verified
one at a time. Two threads interleave in every way with a third operation nested
in an action. Four clauses hold each pair of clauses with something before or
between them; the proofs cover the rest. Two iterations are a first and a last
one, with a set-up or tear-down between or not (three where an order must be had
again after one that was shuffled in between); two misbehaving pieces are a
failure and something that happens because, or in spite, of it. Two addresses are one
that is used again and another that is not; two reporters are one inside another; one
change of the list between two assertions is a listener that hears the first and not the
second, or the other way round; two
visits to one line and one to another are what the counting of death tests can
confuse. A 3-by-3 pairing has paths that take two matchers away. Six bits have
zeros, denormal numbers, several exponents, infinities and NaNs of both signs. Four
bits leave 3! exact and 4! beyond the greatest `int`, and let the result and the
counter overflow in every way.

`NoDanglingUse` excepts `Raced`: the objects that one thread verifies while another
calls them (see below). `CHECK_DEADLOCK FALSE` stands where the system stops by design:
when the bounds on statements and calls are used up, or the program has returned.
The runs of `MockThreads` and `OutputFiles` check deadlock: the only steps that change
nothing are those at the end, `Terminated` and `Ended`.

### Where the code and its documents disagree

Two runs are expected to find a violation. One is `mock_exceed_delete` (`NoDanglingUse`). An
excessive call names its expectation after the default action has run; the action
may have deleted the mock object, and the expectation with it (spec-builders.h:1427).
For all other calls the code takes this precaution, and a test says deletion in an
action is fine.

The other is `edits_optimal` (`EditsOptimal`), on the instance of `functions`.
`CalculateOptimalEdits` promises the fewest edits (gtest-internal.h:168). Where adding
and removing come out at the same cost, it replaces without a look at the cost of that
(gtest.cc:1367): neither is less than the other. So it makes three replacements of the
lines a, b, a against b, a, b, where removing the first and adding the last would do, and
the difference shown is longer than it need be, though it is right (`DiffsSound`).

The following were met while modelling; the models do what the code does, and the
properties say what is left. None has a run of its own.

Mocks:
- A call that was matched under the lock performs its action through a pointer into
  the expectation after the lock is free; a verification in another thread may have
  deleted it. The cook book (`docs/gmock_cook_book.md:3114`) allows both in several
  threads. `NoDanglingUse` excepts it by `Raced`.
- Verification in another thread may pass over a call too many "since the error was
  already reported" before it is: the call reports after its action.
- `AllowLeak()` on an object that is never used leaves an entry that the next object
  at that address finds; so does a mock object that is the first member of another
  share the table entries of it.

The test program:
- `test.cpp`'s test expects `Factorial(3) == 1`; it is 6.
- A `SetUp()` with a non-fatal failure and then `GTEST_SKIP()` does not keep the test
  from running, whatever gtest.cc:2706 says.
- A fatal failure or skip in a tear-down of an environment keeps all tests of later
  iterations from running: the ad hoc result is never cleared.
- An exception in an environment leaves `RunAllTests` with no environment torn down.
- Failures of `SetUpTestSuite()` and `TearDownTestSuite()` are in no XML or JSON report,
  although the program fails for them; the suite that stands for failures outside tests
  is not in the totals; a property with a name like `result` gives a JSON key twice;
  a list of the tests counts those that are filtered out; the stream says of a skipped
  test that it did not pass.
- A `TEST_P()` that is loaded after initialisation is silently no test. The same prefix in
  two translation units gives two tests one name.

Assertions and death tests:
- `EXPECT_FATAL_FAILURE()` counts a `SUCCEED()` as a part. With `throw_on_failure`, its
  checker throws out of a destructor, which terminates the program.
- `docs/advanced.md:1795` speaks of a recursive call where a listener asserts; the
  mutex is not recursive (gtest.cc:5371).
- A threadsafe death test whose child cannot `exec` counts as one that died.

Functions:
- `Range()` over a type too narrow for its end wraps around and never ends.
- A simple regular expression that ends in an escaped `$` is not anchored in a full match.
- `EXPECT_NEAR()` fails for two infinities that the matcher accepts.
- Wide strings: `CodePointToUtf8` encodes what is beyond Unicode but below 2^21, though its
  comment calls it invalid. JSON has bytes beyond 127 as code points of their own.
- A printed NUL runs together with an octal digit after it.
- `CalculateOptimalEdits` turns "aba" into "bab" by three replacements.
- An empty value of an integer flag is 0; a value that does not fit shows the help, and no
  test runs.
- Two programs that look for a name of a report at the same time may choose the same
  (documented at `GenerateUniqueFileName`).

## Fairness

Safety needs none. `MockThreads` assumes weak fairness of each thread: that the
platform schedules every thread that can go on. That is enough for the lock
too, because the programs are finite: a thread that waits for the lock sees it
free for good once the others are done. No action of the user blocks except
through the library. `Reporters` assumes that a report that has begun goes on
(`ReportStep`); nothing is assumed of when a thread asserts. `DeathTest` assumes that the
two processes and the system go on (`Works`): that a statement returns, throws or dies
in the end, and so does a process it has left behind with the pipe open. A fault need
never happen (`GoesAstray`). `TestProgram` is sequential: weak fairness of the only
step there is says that user code returns and the processor goes on.

## What is proved

All proofs hold for every value of the constants that meets the named assumptions,
which TLC evaluates on each run that extends their module.

`MockExpectationsProofs`, under `MockExpectationsAssumption` (cardinalities have
bounds in order, which `Between()` makes sure of, strict mock functions are
mock functions, the bounds are numbers) and `IntMaxAssumption`:
`TypeCorrect`, `RetiredClosed`, `Frozen`, `DiagnosisExact` and `Refinement`, for
any number of expectations, mock functions, sequences, scopes and calls. The
inductive invariant is

    IInv == TypeOK /\ Made /\ BoundsInOrder /\ RetiredDone /\ CalledFreezes

`RetiredIsClosed` alone is not inductive: that a retired expectation's ancestors are
retired does not survive a new edge into a retired expectation, so `Made` says
that only finished statements are called or retired and only the running
statement grows edges; and it speaks of ancestors, while the steps act on edges, so
`RetiredDone` says it of immediate prerequisites, together with being satisfied,
and `CalledFreezes` adds that a call froze what was before it. From edges to
ancestors leads the first part of the module: `Reach` is the least closed set, so a
property that holds of the start and passes along edges holds of all of it.
The refinement maps each clause to a change of order that only concerns
an item not yet called, each counted call to a call allowed in `CallOrder`, and
everything else to a stutter.

Its last part proves, on top of that invariant, `ReportedOnce`, `StaysRetired` and
`InOrder`. The first two need `HInv`: an expectation is on one list at most
(`Disjoint`), a verified one on none and not the running statement's (`Cleared`), so
no later call or clause changes what its verdict said (`VerdictExact`), and
`excess` is exactly what exceeds its bound (`ExcessExact`). `InOrder` needs
`Chain`: each member of a sequence is an ancestor of every later one. A new edge
only adds ancestors, and the new end waits for the old end, hence for all before
it; together with `Frozen` that is the order of calls.

`MockObjectsProofs`, under `MockObjectsAssumption` (the mock functions of a class are
distinct, wrappers are those there are, the marks for "none" are nothing else), for any
number of addresses, objects, mock functions and uses, and whatever the actions of
`ON_CALL()` do: `Recorded`, which is `RegistriesTrue`, and `AllReported`, which is
`NothingPassedOver`. The inductive invariant is

    ObjectsInv == ObjectsTyped /\ Reacting /\ Entered /\ OnOneList /\ Owing
                  /\ GoneSettled /\ LeaksReported

Both tables are keyed by address, and what the properties say is of objects. So
`Reacting` says what the reaction at an address is, with an object there or not, and
`Entered` what an entry of the registry tells: an object is used if and only if its entry
has mock functions, and only an entry that has none, made by `AllowLeak()`, outlives
its object; without such an entry in its past, an object's entry is leakable exactly if it
was excused itself. For `NothingPassedOver`, an expectation is on one list, at one place
(`OnOneList`), and while it is there it has been reported as often as it was called in
excess, unless failures throw (`Owing`); so a call changes what is said of the newest
expectation of its list and of no other (`Counted`), and to report and clear a list adds
one report to each of those that go with too few calls (`VerifiedOnce`), which settles
them for good (`GoneSettled`). With failures that throw, a call in excess is the last the
program makes, and nothing that is unmet is ever cleared, because each mock function
reports before it clears its list (`TakenAway`).

The same module, under `ExpectCallAssumption` (bounds given to `Times()` are
`int`s, a statement has fewer clauses than `INT_MAX`), for statements and calls of any
number: the parts of what the run `mock_objects` checks of statements, and `JudgedThroughout` and
`Sufficient`, which put them together. `OrderJudged` needs that `lastClause` is the
last of the chain (in a chain in order that is also the greatest, so comparing with it
is comparing with all); `WarningDeserved` that whoever set `checked` is in the chain, so
that in a statement in order nothing changes the verdict any more; `OnceActionsOnce`
that, while calls are expected, calls and performed actions advance together.

`TestProgramProofs`, under `TestProgramAssumption` (the constants have their types; what
is recorded before the run is no exception), for any number of suites, tests,
environments, iterations and misbehaving pieces of user code: all four safety properties of the
run `test_program`. What they share is `Where`: the current suite and test are those of
the place in the program, which makes the current result the right one
(`ChargedRight`). On top of that:

- `StatusTold` needs `StatusInv`: `UnitTestImpl::Failed()` asks all results but those of
  tests that were not selected, so none of those may fail; and at the head of the loop
  over iterations `failed` alone has to say what the results are about to forget.
- `Nested` needs `NestInv`: everything that is set up is a function of the place
  (`UpAt`), where the place is the one the program would have gone on to if an exception
  ended it; the environments up are counted by the loops, and kept or not between
  iterations by the same condition that decides on the next set-up. A test whose
  constructor threw has no object, and then it has a fatal failure.
- `SoundIterations` needs `IterInv`: at each place the selected tests that have begun are
  those that were reported, what has not begun has no result, and with `fail_fast` what
  has failed is the suite or test that is not over yet.

`FunctionProofs`, under `MatchingAssumption` (the sizes are numbers), for matrices of any
size: `Invariance` and `Maximum`, that between two searches the two directions of the
pairing agree and are edges, and that no pairing has more pairs than the one
`Compute()` returns. The recursion of `TryAugment` is a path of activations, and the
invariant is about it: it alternates between edges taken and pairs held and takes no
matcher twice (`Way`), and the two directions agree but for the matcher about to be
linked (`Agreed`). That the pairing is a greatest one rests on the searches that failed:
what they have seen is a dead end (`DeadEnd`), matchers that are all held, out of which no
edge leads for those who hold them nor for those left without; a later path that gets into
it stays in it and finds nothing (`Outside`); and what the running search has seen is closed
but for its path (`Explored`), and joins the dead end when the search fails. Any other
pairing maps one to one into the one found: a pair whose matcher is in the dead end to the
element that holds the matcher, any other to the element itself (`NoPairingIsLarger`).

The same module, under `FactorialAssumption` (`INT_MAX` is at least 3, `INT_MIN` is
negative): `FactorialFits`, for an `int` of any width. Before each turn of a call whose
result fits, the product is the factorial of the number before the counter (`Partial`).
That neither the product nor the counter overflows on the way needs that factorials grow,
and that an argument whose factorial fits is not the greatest `int` (`CounterFits`).

And about `Patterns`, for texts of any length over any characters:

- `GlobsMatch`: the loop that goes back to the last "*" only finds a way to match
  whenever there is one. What is meant (`Means`) are places of the name, one where each
  symbol of the glob begins. A place of the loop is `Sound` if it is as far behind the
  last "*" as it has come in the glob since; then what is decided there, by what is left
  or by what the last "*" leaves (`Decides`), is what is decided one turn later. For a
  new "*" that is so because a way to match from the "*" before can be moved on to the new
  one. The loop ends since each turn gets `Further`, and a function that recurs along
  it exists (`SomeAnswer`).
- `FiltersSelect`: a filter selects a name exactly if a pattern of the list before the
  first "-" means it, or nothing is there, and none of the list after it does, where
  further "-" belong to the patterns. `SplitString` cuts a text at every delimiter and
  nowhere else (`SplitParts`), and the parts joined again are the text.
- `RegexesMatch`: a simple regular expression is found in a text exactly if it is valid
  and its atoms can be laid out on a part of the text, anchors at the ends, each as often
  as the mark after it allows (`Denotes`).
- `FullMatchesWhole`: with the anchors that `RE::Init` adds, it is laid out over the whole
  text, unless it ends in an escaped `$`, which `RE::Init` takes for an anchor: then it may
  end sooner. What is added is read as atoms of its own (`ReadWithin`, which needs that a
  valid expression does not end in a backslash), and leaves the expression valid.

And about `FloatingPoint`, under `FloatingPointAssumption` (a number has bits for its
exponent and for its fraction, as `float` and `double` have), for bits of any widths:

- `AlmostEqual`: `AlmostEquals()` holds exactly if neither number is a NaN and at most
  `kMaxUlps` steps from one number to the next lie between the two, where infinity is
  the number after the greatest one; and what `FloatLE()` accepts is that or less. Bits
  have a place (`PlaceOfBits`), zero of both signs the same; the biased form is the place
  counted from the least one (`Placed`). Numbers grow with their places (`NumbersGrow`,
  since a number is below the first of the next exponent, `SizesGrow`) and each place up
  to infinity is taken (`EachPlaceTaken`): so the numbers between two are as many as the
  places (`FromPlaces`).
- `MatcherAgrees`: the matchers with a bound accept what `EXPECT_NEAR()` passes with it, but
  for two infinities of one sign, whose difference is a NaN.
- `AdviceTrue`: when `EXPECT_NEAR()` says that the bound is too small, it passes for no
  other number that is as great. The steps grow with the numbers (`Gaps`), so two numbers
  are at least as far apart as the step from any number nearer to zero (`GapBetween`); and
  rounding a difference to a number keeps the order (`NearestGrows`). The step to infinity
  is a case of its own: only the greatest numbers of both signs are left then.

That the powers of two exist, which the code shifts, is what `ProductsExist` gives, as for
the factorials.

And about `Diffs`, for texts of any lines and any length:

- `EditsTurn`: the edits that the table of costs leads to match only lines that are equal,
  and go over every line of both texts. Each place of the table has a move that fits it
  (`BestFound`) whatever the costs are, and the way back gets nearer to the start.
- `DiffsPatch`: the hunks make the new text of the old one, the statement of `DiffsSound`,
  for every context but none (with none a hunk would stop before its first edit, and
  nothing would be shown; the code asks for two lines). While lines are pushed, those that are kept in order and
  the removals and additions that wait behind them say together what the edits so far go
  over (`HunkSays`): a line that matches comes after both, so it does not matter that all
  removals are shown before all additions (`FlushedSays`, `PushedSays`). A hunk begins no
  earlier than the one before has ended, because that one stopped only where the next edit
  is a whole context away (`Ready`, `EndIs`), so that what goes before its first edit is
  its own (`HunkFound`); between two hunks all edits match, and so do the texts (`GapAgrees`).

A function that recurs on others of lower rank exists (`Solved`), and what holds wherever
it does at the lower ranks holds everywhere (`RankInduction`): tables, ways, hunks and
their lines are such functions.

`MockThreadsProofs`, under `MockThreadsAssumption` (an expectation has its mock function
and a mock function its object, bounds are numbers, programs and actions consist of
operations), for any programs of any number of threads, nested to any depth:
`ReportedOnce`, `Verified` and `LockHeldShortly`. The inductive invariant is

    MInv == Typed /\ AllSound /\ Invoking /\ LockedWhileShort /\ Counted /\ Judged

A call that is too many carries its excess in its frame until it reports it, and
`Counted` weighs the two against the calls counted; only the innermost frame of a thread
moves (`Invoking`), so a step changes what one frame says. `Judged` needs what a frame
that deletes expectations knows of its mock function: its list is empty, and stays so,
because nobody sets expectations any more (`Sound`). The lock is held exactly while the
innermost frame of a thread verifies one mock function or unregisters it: no user code
runs under it. `NoDanglingUse` is no theorem: it depends on what the programs delete,
and one of the runs refutes it.

`ReportersProofs`, under `ReportersAssumption` (there is a main thread and finitely many
listeners, the marks for "none" are nothing else), for any number of threads, listeners,
results and objects: `Alive`, `ToldInOrder` and `TakenAndSeen`. What installs a reporter
remembers the one it replaces; on a stack these form a chain, for each thread and for
what all threads report, and the innermost is the one installed (`Linked`). Hence a
report only visits what is alive, from the inside out, and restoring the one remembered
is right because an object leaves the stack as its innermost. `Routed` says
where each report can be and who can have taken it there, `Asked` that the helpers it
has not met are still ahead of it. What the listeners hear is a layer of its own (`HInv`):
the list does not change while a report is under way, so those who are told a result are
those who were in the list when it was made, and each of them has heard exactly the results
of its time that the TestResult has, but for one that has not got to the listeners yet.

The same module, under `OutputFilesAssumption` (names are sequences of characters, and no
program is called what a directory is marked with), for any number of programs, names,
iterations and file systems, and whatever others make files of meanwhile:
`FilesInvariant` and `ReportsStay`. The inductive invariant, for each program, is

    Writing(p) == /\ IsPath(file[p])
                  /\ Climbing(p) /\ Reached(p) /\ Refused(p) /\ Opening(p) /\ Blocked(p)
                  /\ Fresh(p)

and every step of another program or of somebody else keeps it because the file system
only grows: folders stay folders, and what is no folder becomes none (`Grows`,
`OthersKeep`). `CreateDirectoriesRecursively` goes up by names: each of its calls is for
the name around the one before (`Climbing`). `NodeParent` says what that is for a reader of
names: the folder itself, where it ends in "/" or "/.", or the one around it. So the calls
stay on the way to the folder of the file; what is around the innermost is there when
`mkdir` is called (`Reached`), which is why only something that exists can be the reason of
a refusal (`Refused`), and the second look tells a folder that somebody else has made from
a file that stands in the way (`Blocked`). When the file is opened its folder is there
(`Opening`), so only a folder of its own name stops it. A name that was chosen was used by
nothing then, hence by nothing that was there before (`Fresh`): `MadeIsFile` says that it
never ends in a separator, for which `FileOrDirectoryExists` would look for directories
only, as `NormalizeKeeps` and `PathsConcat` keep the end of a name. What `Ways` and
`Normalize` do at each character, for names of any length, rests on `Recursion`.

`DeathTestProofs`, under `DeathTestAssumption` (bodies consist of visits, faults and
styles are those there are), for bodies and iterations of any number: `Judges`. The child
that runs the program again knows its statement by a count only, so the invariant says
what the counts mean: the parent's is that of its visits (`Counted`), and the child is no
further than the visit whose count its flag has (`OnItsWay`). How the child ended
is what it executed, what it wrote and what the system says of it (`Ended`), and the
verdict rests on what was read of that (`HasRead`, `VerdictTrue`).

`TestSelectionProofs`, under `TestSelectionAssumption` (there are finitely many tests, each
in a suite, seeds and the generator's range fit its word), for any tests, filters, shards,
seeds and iterations: `Selection` and `Orderly`. The inductive invariant is

    IInv == Typed /\ Registered /\ InOrder /\ Chosen /\ AllSound
            /\ Reproducible /\ InSourceOrder

The registry lists every test once, with the suites of death tests in front however they
come in (`Registered`), and outside an iteration nothing is shuffled (`InOrder`), which
makes each order that of its seed (`Reproducible`), whichever suites have been sorted by
then. For that, `StableSort` is shown to permute a list (`SortArranges`), so the registry
keeps its tests (`SortedRearranges`, `SortKeeps`), and to leave a sorted list as it is
(`SortTwice`); what an iteration runs is then the same whether the other suites are
sorted or not (`RunEnough`), and unshuffled it is the order of the source
(`InSourceOrder`). That the shards part the tests
rests on the numbering: the tests that may run have the numbers from 0 on, each one
(`Numbered`), and so the remainders are dealt out evenly (`Balanced`). A shuffle is a
recursion over numbers; that it permutes the suites of death tests among themselves, the
others among themselves, and the tests within a suite, is proved of the least number of
swaps for which it would not be so (`Least`), and so is that there is a function with these
steps at all (`Recursion`).

The same module, under `TestRegistrationAssumption` (what the compiler sees to, `Compiles`)
and with `GeneratorsRight` as a hypothesis (the iterators of a generator go through the
values it stands for, which recurs over data and is what the run's `ASSUME` checks of
`Generators`), for any programs of any number of units in any order: `RegisteredSoundly`
and `DeathsAreMistakes`. The inductive invariant is

    RegInv == /\ RegTyped
              /\ stage # "died" => Known /\ NamesRight /\ Accounted
              /\ stage = "died" => Mistaken

`Known` says each registry as a function of what has been declared, whatever the order:
the patterns and instantiations of each suite, its one fixture, the typed suites and
whether anything instantiates them; and that a list of typed tests was right when it was
registered and nothing was added to it since (`ListedTruly`). `Accounted` is a
bijection between the registered tests and the reasons there are so far (`Accounts`). A
step adds a sequence of tests and a set of reasons that is disjoint from the others, and
the bijections join (`JoinedAccounts`, and `FlattenAccounts` for a sequence of sequences, by
`Recursion`). That the reasons so far stay when declarations come late needs that only
what was declared in time is expanded, and that a mistake stays one (`MistakenStays`). At the
end the bijection gives the count of each test (`AccountsCount`), and, since the names of a
test lead back to its reason where prefixes differ (`ReasonsApart`), that no two tests have
the same names.

Only model-checked: liveness (`ProgramsFinish`, `ComesToAnEnd`, `ParentGoesOn`,
`ReportsReturn`), which needs fairness and `ENABLED`; `NoDanglingUse`, which is about
given programs; the functions over texts, values and trees of matchers (`VerdictsExplained`,
`TextsSurvive`, `ShownTruthfully`, `FlagsParsed`), whose definitions recur
over data, as those of the actions do (`ActionsSound`). `PatternsExact` and `FloatsClose`
compare the functions of `Patterns` and `FloatingPoint` with references that TLC
evaluates; the theorems about them state the same with the meanings of `FunctionProofs`.
`DiffsSound` is what `DiffsPatch` states, of the texts that TLC takes.

## Plan

Written: what a mock reports, from `CallCardinality` to `MockThreads`, and `ExpectCall`;
then `TestProgram` and what surrounds it, in the order of what can go wrong unnoticed:
`Reporters`, `DeathTest`, `TestSelection`, `TestRegistration`, `OutputFiles`,
`MockObjects`; then the functions, with their references.

Next: nested `EXPECT_CALL()` statements, and `--gtest_break_on_failure`.

## Not modelled, and why

- `DefaultValue<T>` beyond `Set()` and `Clear()`: one value for each of the C++ types.
  `MatcherCast`, `SafeMatcherCast` and the `MATCHER` macros, overload resolution of
  printers, type names: decided by the compiler.
- Times, dates, colours and wording of the reports.
- Of listeners: a child of a death test suppresses the forwarding of events to them; the
  writer of the XML or JSON report is one of the list that is released and deleted like the
  printer, and is not told apart; listeners that change the list in a callback.
- `HasSameFixtureClass()`: a suite that mixes `TEST` and `TEST_F` or two fixtures of one
  name fails its tests without running them.
- `Times()` out of its place: `MockExpectations` takes statements in order, and
  `ExpectCall` has the others.
- Death tests of Windows and Fuchsia, with their handles in place of a fork.
- POSIX regular expressions, where the platform has them; `Patterns` has the matcher
  that stands in.
- `Mutex`, `ThreadLocal`, `Notification`: wrappers of the platform's. What is done under
  them is modelled where it is done.
- User-defined cardinalities, and more than `INT_MAX` calls of one expectation.
- An `EXPECT_CALL()` inside a clause of another (spec-builders.h:980): nothing keeps it
  from naming the outer one as its prerequisite, and being named by it.
- `--gtest_break_on_failure`: the program stops in the debugger.
- `reverse(std::stack<int>&)` is declared in `include/test_stack.h` and defined nowhere;
  the user service and database of `gtest_gmock_demo` are not in the repository.
- Samples, documents, build files, and the tests of the libraries.
