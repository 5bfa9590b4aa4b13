----------------------------- MODULE TestSelection -----------------------------
(***************************************************************************)
(* Which tests of a googletest program run, and in which order: registration,*)
(* filter, disabled tests, shards, the shuffling of each iteration, and the  *)
(* sorting of a suite by the places of its tests in the source.              *)
(*                                                                          *)
(* A test is a member of Tests; whether its name matches --gtest_filter is a *)
(* set chosen at the start.  The pseudo-random generator is the one of the   *)
(* code, with its constants as parameters.                                   *)
(***************************************************************************)
EXTENDS Integers, FiniteSets, SequencesExt

CONSTANTS Tests, SuiteOf, \* the tests of the program, and their suites
          DeathSuites,    \* the suites named ...DeathTest
          Disabled,       \* the tests named DISABLED_..., or in such suites
          Location,       \* the file and line of each test, as one number
          Filters,        \* the sets of tests that --gtest_filter may match
          Environments,   \* GTEST_TOTAL_SHARDS and GTEST_SHARD_INDEX; -1: unset
          Seeds,          \* what --gtest_random_seed or the clock may give
          Repeat,         \* --gtest_repeat
          MaxShards,      \* properties look at so many shards
          MaxRandomSeed,  \* kMaxRandomSeed
          Word,           \* 2 to the width of an unsigned int
          Factor, Increment, MaxRange  \* of the generator

Suites == {SuiteOf[t] : t \in Tests}

ASSUME TestSelectionAssumption ==
  /\ IsFiniteSet(Tests)
  /\ DeathSuites \subseteq Suites /\ Disabled \subseteq Tests
  /\ Location \in [Tests -> Nat]
  /\ Filters \subseteq SUBSET Tests
  /\ Environments \subseteq [total : Int, index : Int]
  /\ Seeds \subseteq 0 .. Word - 1 /\ Repeat \in Nat /\ MaxShards \in Nat
  /\ Word \in Nat /\ MaxRandomSeed \in 1 .. Word - 1 /\ MaxRange \in 1 .. Word - 1
  /\ Factor \in Nat /\ Increment \in Nat

VARIABLES
  phase,         \* "registering", "iterating", "running", "over" or "exited"
  suites,        \* test_suites_: each with its test_info_list_
  lastDeath,     \* last_death_test_suite_, counted from 1; 0: there is none
  matching, alsoDisabled, shuffle,  \* flags
  selected,      \* the tests whose should_run_ is true
  randomSeed, state,          \* random_seed_, and the generator's state
  suiteIndices, testIndices,  \* test_suite_indices_ and the test_indices_
  i,             \* the iteration
  orders         \* history: of each iteration, its seed, how many suites had their
                 \* turn, and the selected test at each place: the n-th of the k-th

flags    == <<matching, alsoDisabled, shuffle>>
registry == <<suites, lastDeath>>
indices  == <<suiteIndices, testIndices>>
vars     == <<phase, registry, flags, selected, randomSeed, state, indices, i, orders>>

Count    == Len(suites)
Identity(n) == [k \in 1 .. n |-> k]

--------------------------------------------------------------------------------
(* Registration *)

(* Where the tests are: the n-th test of the k-th suite is at <<k, n>>        *)
Places == UNION {{k} \X (1 .. Len(suites[k].tests)) : k \in 1 .. Count}
At(p)  == suites[p[1]].tests[p[2]]
Listed == {At(p) : p \in Places}

Position(name) == {k \in 1 .. Count : suites[k].name = name}

Init ==
  /\ phase = "registering" /\ suites = <<>> /\ lastDeath = 0
  /\ matching \in Filters /\ alsoDisabled \in BOOLEAN /\ shuffle \in BOOLEAN
  /\ selected = {} /\ randomSeed = 0 /\ state = 0
  /\ suiteIndices = <<>> /\ testIndices = <<>> /\ i = 0 /\ orders = <<>>

(* UnitTestImpl::AddTestInfo: GetTestSuite finds the suite or creates it, the  *)
(* death test suites before all others.                                      *)
AddTestInfo(t) ==
  /\ phase = "registering" /\ t \notin Listed
  /\ LET name == SuiteOf[t]
         new  == [name |-> name, tests |-> <<t>>]
     IN  IF Position(name) # {}
         THEN /\ suites' = [k \in 1 .. Count |-> IF k \in Position(name)
                              THEN [suites[k] EXCEPT !.tests = Append(@, t)] ELSE suites[k]]
              /\ UNCHANGED <<lastDeath, suiteIndices>>
         ELSE /\ IF name \in DeathSuites
                 THEN suites' = InsertAt(suites, lastDeath + 1, new) /\ lastDeath' = lastDeath + 1
                 ELSE suites' = Append(suites, new) /\ UNCHANGED lastDeath
              /\ suiteIndices' = Append(suiteIndices, Count + 1)
  /\ testIndices' = [k \in 1 .. Len(suites') |-> Identity(Len(suites'[k].tests))]
  /\ UNCHANGED <<phase, flags, selected, randomSeed, state, i, orders>>

--------------------------------------------------------------------------------
(* Selection *)

IsRunnable(t, matches) == (alsoDisabled \/ t \notin Disabled) /\ t \in matches

(* The runnable tests that FilterTests meets before it comes to p           *)
Precedes(q, p) == q[1] < p[1] \/ (q[1] = p[1] /\ q[2] < p[2])
RunnableBefore(p, matches) == {q \in Places : Precedes(q, p) /\ IsRunnable(At(q), matches)}

(* A slip: every test is numbered, whether it may run or not *)
NumberAll(p, matches) == Cardinality({q \in Places : Precedes(q, p)})

(* num_runnable_tests then *)
TestId(p, matches) == Cardinality(RunnableBefore(p, matches))

ShouldRunTestOnShard(env, id) == id % env.total = env.index

(* ShouldShard: whether the environment is consistent ... *)
Consistent(env) ==
  \/ env.total = -1 /\ env.index = -1
  \/ env.total # -1 /\ env.index # -1 /\ env.index >= 0 /\ env.index < env.total

(* ... and asks for shards *)
ShouldShard(env, inSubprocess) == ~ inSubprocess /\ env.total > 1

(* FilterTests, with whichever ReactionToSharding RunAllTests chooses *)
FilterTests(matches, env, inSubprocess) ==
  {At(p) : p \in {q \in Places :
     /\ IsRunnable(At(q), matches)
     /\ ShouldShard(env, inSubprocess) => ShouldRunTestOnShard(env, TestId(q, matches))}}

--------------------------------------------------------------------------------
(* Shuffling *)

Reseed(seed) == seed
Generate(s)  == ((Factor * s + Increment) % Word) % MaxRange

Swap(seq, a, b) == [seq EXCEPT ![a] = seq[b], ![b] = seq[a]]

(* The generator's state and the sequence after each swap in the positions   *)
(* begin + 1 .. end, [begin, end) in the code: the range shrinks from its      *)
(* whole width to 2, its last element being swapped each time.                *)
Swaps(s, seq, begin, end) ==
  LET swapped[n \in 0 .. end - begin] ==
        IF n = 0 THEN <<s, seq>>
        ELSE LET prev  == swapped[n - 1]
                 width == end - begin + 1 - n
                 g     == Generate(prev[1])
             IN  <<g, Swap(prev[2], begin + 1 + (g % width), begin + width)>>
  IN  swapped

ShuffleRange(s, seq, begin, end) ==
  Swaps(s, seq, begin, end)[IF end - begin < 2 THEN 0 ELSE end - begin - 1]

(* ShuffleTests: the death test suites, the other suites ... *)
ShuffleSuites(s, seq) ==
  LET deaths == ShuffleRange(s, seq, 0, lastDeath)
  IN  ShuffleRange(deaths[1], deaths[2], lastDeath, Count)

(* ... and then the tests of each suite, one after the other *)
SuiteBySuite(s, testIdx) ==
  LET shuffled[k \in 0 .. Count] ==
        IF k = 0 THEN <<s, testIdx>>
        ELSE LET prev == shuffled[k - 1]
                 one  == ShuffleRange(prev[1], testIdx[k], 0, Len(testIdx[k]))
             IN  <<one[1], [prev[2] EXCEPT ![k] = one[2]]>>
  IN  shuffled

Shuffled(s, suiteIdx, testIdx) ==
  LET first == ShuffleSuites(s, suiteIdx)
      all   == SuiteBySuite(first[1], testIdx)[Count]
  IN  <<all[1], first[2], all[2]>>

(* Where the n-th test of the k-th suite to run is listed                     *)
Redirected(suiteIdx, testIdx, p) == <<suiteIdx[p[1]], testIdx[suiteIdx[p[1]]][p[2]]>>

--------------------------------------------------------------------------------
(* Running *)

(* std::stable_sort, by file and line: which of two places comes first       *)
Before(tests, m, n) ==
  \/ Location[tests[m]] < Location[tests[n]]
  \/ Location[tests[m]] = Location[tests[n]] /\ m < n

(* The r-th test is the one that r - 1 others come before                    *)
StableSort(tests) ==
  [r \in 1 .. Len(tests) |->
     tests[CHOOSE n \in 1 .. Len(tests) :
             Cardinality({m \in 1 .. Len(tests) : Before(tests, m, n)}) = r - 1]]

(* The suites that TestSuite::Run runs of the first so many to be visited:   *)
(* should_run_ is true of those with a selected test.                        *)
ShouldRun(k) == \E n \in 1 .. Len(suites[k].tests) : suites[k].tests[n] \in selected
Run(suiteIdx, visits) == {k \in {suiteIdx[j] : j \in 1 .. visits} : ShouldRun(k)}

(* The test_info_list_ of each suite when those have run *)
Sorted(running) ==
  [k \in 1 .. Count |-> IF k \in running THEN StableSort(suites[k].tests) ELSE suites[k].tests]

(* The order in which these suites run their tests, those not selected being *)
(* passed over                                                               *)
OrderBy(lists, suiteIdx, testIdx, visits) ==
  LET test(p) == LET at == Redirected(suiteIdx, testIdx, p) IN lists[at[1]][at[2]]
      visited == UNION {{k} \X (1 .. Len(testIdx[suiteIdx[k]])) : k \in 1 .. visits}
  IN  [p \in {q \in visited : test(q) \in selected} |-> test(p)]

GetRandomSeedFromFlag(raw)  == (((raw - 1) % Word) % MaxRandomSeed) + 1
GetNextRandomSeed(seed) == IF seed + 1 > MaxRandomSeed THEN 1 ELSE seed + 1

(* RunAllTests up to its loop *)
Start(env, raw) ==
  /\ phase = "registering"
  /\ Listed = Tests
  /\ IF Consistent(env)
     THEN /\ phase' = "iterating"
          /\ selected' = FilterTests(matching, env, FALSE)
          /\ randomSeed' = GetRandomSeedFromFlag(raw)
     ELSE phase' = "exited" /\ UNCHANGED <<selected, randomSeed>>
  /\ UNCHANGED <<registry, flags, state, indices, i, orders>>

(* An iteration shuffles if asked to, and its suites have their turn until   *)
(* fail_fast has the others skipped, which may be all of them when an        *)
(* environment fails.  Each suite that runs sorts its tests, for good, and   *)
(* the shuffled indices are into the sorted list.                            *)
Iterate(visits) ==
  /\ phase = "iterating" /\ i < Repeat
  /\ IF shuffle /\ selected # {}
     THEN LET all == Shuffled(Reseed(randomSeed), suiteIndices, testIndices)
          IN state' = all[1] /\ suiteIndices' = all[2] /\ testIndices' = all[3]
     ELSE UNCHANGED <<state, indices>>
  /\ LET lists == Sorted(Run(suiteIndices', visits)) IN
     /\ suites' = [k \in 1 .. Count |-> [suites[k] EXCEPT !.tests = lists[k]]]
     /\ orders' = Append(orders, [seed |-> randomSeed, visits |-> visits,
          order |-> OrderBy(lists, suiteIndices', testIndices', visits)])
  /\ phase' = "running"
  /\ UNCHANGED <<lastDeath, flags, selected, randomSeed, i>>

(* A slip: the order is not restored *)
KeepOrder == UNCHANGED indices

UnshuffleTests ==
  /\ suiteIndices' = Identity(Count)
  /\ testIndices' = [k \in 1 .. Count |-> Identity(Len(testIndices[k]))]

(* The iteration ends: the indices are restored, the next seed taken *)
EndIteration ==
  /\ phase = "running"
  /\ UnshuffleTests
  /\ randomSeed' = IF shuffle THEN GetNextRandomSeed(randomSeed) ELSE randomSeed
  /\ i' = i + 1 /\ phase' = IF i + 1 = Repeat THEN "over" ELSE "iterating"
  /\ UNCHANGED <<registry, flags, selected, state, orders>>

Next ==
  \/ \E t \in Tests : AddTestInfo(t)
  \/ \E env \in Environments, raw \in Seeds : Start(env, raw)
  \/ \E visits \in 0 .. Count : Iterate(visits)
  \/ EndIteration

Spec == Init /\ [][Next]_vars

--------------------------------------------------------------------------------
(* The orders of n things *)
Orders(n) == Bijection(1 .. n, 1 .. n)

(* The registry and the indices into it have these values; the seed is one   *)
(* that GetNextRandomSeed accepts.                                           *)
TypeOK ==
  /\ phase \in {"registering", "iterating", "running", "over", "exited"}
  /\ suites \in Seq([name : Suites, tests : Seq(Tests)])
  /\ lastDeath \in 0 .. Count
  /\ matching \in Filters /\ alsoDisabled \in BOOLEAN /\ shuffle \in BOOLEAN
  /\ selected \subseteq Tests /\ state \in 0 .. Word - 1
  /\ randomSeed \in 0 .. MaxRandomSeed
  /\ phase \in {"iterating", "running", "over"} => randomSeed # 0
  /\ suiteIndices \in Orders(Count)
  /\ Len(testIndices) = Count
  /\ \A k \in 1 .. Count : testIndices[k] \in Orders(Len(suites[k].tests))
  /\ i \in 0 .. Repeat

(* However many shards there are, each test that may run is on exactly one,   *)
(* any other on none, and no shard has two tests more than another           *)
(* (FilterTests and ShouldRunTestOnShard, "each test should be run on         *)
(* exactly one shard").                                                      *)
ShardsPartition ==
  phase = "iterating" =>
    \A n \in 2 .. MaxShards :
      LET shard == [k \in 0 .. n - 1 |->
                      FilterTests(matching, [total |-> n, index |-> k], FALSE)]
      IN  /\ \A t \in Tests : Cardinality({k \in 0 .. n - 1 : t \in shard[k]}) =
                               IF IsRunnable(t, matching) THEN 1 ELSE 0
          /\ \A j, k \in 0 .. n - 1 : Cardinality(shard[j]) <= Cardinality(shard[k]) + 1

(* The process that a threadsafe death test of a selected test starts selects *)
(* this test, whatever shard its parent is (ShouldShard).                    *)
ChildFindsItsTest ==
  phase = "iterating" =>
    \A t \in selected, env \in Environments : FilterTests({t}, env, TRUE) = {t}

(* In every iteration that no failure cuts short each selected test has its  *)
(* turn once, and in any other the tests of the suites that had theirs; all  *)
(* death tests come before all others and the tests of a suite together,     *)
(* shuffled or not (GetTestSuite, ShuffleTests, TestSuite::Run).             *)
OrderSound ==
  \A k \in 1 .. Len(orders) :
    LET order == orders[k].order
        suite(p) == SuiteOf[order[p]]
    IN  /\ \A t \in Tests :
             LET due == t \in selected
                          /\ (orders[k].visits = Count \/ \E p \in DOMAIN order : suite(p) = SuiteOf[t])
             IN  Cardinality({p \in DOMAIN order : order[p] = t}) = IF due THEN 1 ELSE 0
        /\ \A p, q \in DOMAIN order :
             /\ suite(p) = suite(q) <=> p[1] = q[1]
             /\ Precedes(p, q) /\ suite(q) \in DeathSuites => suite(p) \in DeathSuites

(* What a seed gives: the suites' lists being sorted *)
OrderOf(seed, visits) ==
  LET first == Shuffled(Reseed(seed), Identity(Count),
                        [n \in 1 .. Count |-> Identity(Len(suites[n].tests))])
  IN  OrderBy(Sorted(1 .. Count), first[2], first[3], visits)

(* The order of an iteration depends on its seed and on nothing before it,   *)
(* not on which suites earlier iterations got to and so have sorted:         *)
(* "allows the user to quickly repro a failure that happens in the N-th      *)
(* iteration without repeating the first (N - 1) iterations"                 *)
(* (UnshuffleTests, Reseed, TestSuite::Run).                                 *)
Reproducible ==
  \A k \in 1 .. Len(orders) :
    shuffle => orders[k].order = OrderOf(orders[k].seed, orders[k].visits)

(* Not shuffled, the tests of a suite come as they are in the source,        *)
(* whenever they were registered: "providing an order matching what the user *)
(* can see in the source code" (TestSuite::Run).                             *)
InSourceOrder ==
  ~ shuffle =>
    \A k \in 1 .. Len(orders) : \A p, q \in DOMAIN orders[k].order :
      p[1] = q[1] /\ p[2] < q[2] => Location[orders[k].order[p]] <= Location[orders[k].order[q]]

(* What a process runs is its share and no more, and the child of a death     *)
(* test has its test (FilterTests, ShouldShard).                             *)
SelectionSound == TypeOK /\ ShardsPartition /\ ChildFindsItsTest

(* The order is sound in every iteration, that of the source when it is not  *)
(* shuffled, and can be had again from the seed when it is (TestSuite::Run,  *)
(* ShuffleTests, UnshuffleTests).                                            *)
OrdersRepeat == OrderSound /\ Reproducible /\ InSourceOrder
================================================================================
