---------------------------- MODULE ReportersProofs ----------------------------
(***************************************************************************)
(* Proofs about Reporters, for any number of threads, listeners, results    *)
(* and objects.  A stack is a chain: each reporter remembers the next one    *)
(* outside it, so a report only ever visits live objects, from the inside    *)
(* out, and the first EXPECT_..._FAILURE() on its way is the innermost.      *)
(* Below, proofs about OutputFiles, the files of the reports, for any number *)
(* of programs, names and file systems: the folders a program makes are each *)
(* around the one before, and the file system only grows.                    *)
(***************************************************************************)
EXTENDS Reporters, OutputFiles, FunctionTheorems, SequenceTheorems, FiniteSetTheorems, TLAPS

(* Objects on a stack *)
Fake == [is : {"fake"}, id : 1 .. MaxObjects, old : Int, all : BOOLEAN,
         wants : {"NonFatal", "Fatal"}, caught : Seq(Nat)]
Helper == [is : {"helper"}, id : 1 .. MaxObjects, old : Int, seen : BOOLEAN]
Trace == [is : {"trace"}, id : 1 .. MaxObjects]
Object == Fake \union Helper \union Trace

Typed ==
  /\ throw_on_failure \in BOOLEAN /\ terminated \in BOOLEAN
  /\ mutex \in Threads \union {None}
  /\ stack \in [Threads -> Seq(Object)] /\ trace_stack \in [Threads -> Seq(1 .. MaxObjects)]
  /\ per_thread \in [Threads -> Int] /\ global \in Int
  /\ call \in [Threads -> Report \union {None}] /\ owes \in [Threads -> Types \union {None}]
  /\ unwinding \in [Threads -> BOOLEAN]
  /\ parts \in Seq(Types) /\ part_results \in Seq(Nat)
  /\ listeners \in Seq(Listeners) /\ printer \in Listeners \union {None}
  /\ deleted \in Seq(Listeners) /\ owner \in [Listeners -> {"user", "gtest"}]
  /\ heard \in [Listeners -> Seq(Nat)]

(* No two live objects have the same address. *)
Distinct ==
  \A t, u \in Threads : \A i \in DOMAIN stack[t], j \in DOMAIN stack[u] :
    stack[t][i].id = stack[u][j].id => t = u /\ i = j

(* Only the main thread intercepts what all threads report. *)
AllOfMain ==
  \A t \in Threads : \A i \in DOMAIN stack[t] : AnyFake(stack[t][i]) => t = Main

(* The places of s with a reporter of its thread, or of all threads *)
Own(s) == {i \in DOMAIN s : s[i].is = "helper" \/ OwnFake(s[i])}
OfAll(s) == {i \in DOMAIN s : AnyFake(s[i])}

(* r is the innermost reporter of s in places below n, or else the default. *)
InPlace(s, places, n, default, r) ==
  \/ r = default /\ \A i \in places : n <= i
  \/ \E i \in places : i < n /\ r = s[i].id /\ \A j \in places : j < n => j <= i

(* A reporter remembers the one outside it, and the innermost is installed. *)
Nested(s, places, default, r) ==
  /\ InPlace(s, places, Len(s) + 1, default, r)
  /\ \A i \in places : InPlace(s, places, i, default, s[i].old)

Linked ==
  /\ \A t \in Threads : Nested(stack[t], Own(stack[t]), PerThread, per_thread[t])
  /\ Nested(stack[Main], OfAll(stack[Main]), Global, global)

(* The trace stack of a thread holds the traces on its stack, in order. *)
Traced == \A t \in Threads : HoldsTraces(trace_stack[t], stack[t])

(* The thread that reports holds the mutex, and its result is the last.      *)
Calling ==
  \A t \in Threads : call[t] # None => mutex = t /\ call[t].part \in DOMAIN parts

(* Results are numbered as they are made. *)
Numbered ==
  /\ \A k \in DOMAIN part_results : part_results[k] \in DOMAIN parts
  /\ \A t \in Threads : \A i \in DOMAIN stack[t] : stack[t][i].is = "fake" =>
       \A k \in DOMAIN stack[t][i].caught : stack[t][i].caught[k] \in DOMAIN parts

Took(o, n) == o.is = "fake" /\ \E k \in DOMAIN o.caught : o.caught[k] = n
Kept(n) == \E k \in DOMAIN part_results : part_results[k] = n
Untaken(n) == ~Kept(n) /\ \A t \in Threads : \A i \in DOMAIN stack[t] : ~Took(stack[t][i], n)

(* Nothing in the places above i of thread t's stack intercepts its failures. *)
Clear(t, i) == \A j \in DOMAIN stack[t] : i < j => ~OwnFake(stack[t][j])

(* The ways of a report through the reporters. *)
OnItsWay(t) ==
  LET c == call[t] IN
  \/ /\ c.to = PerThread /\ Clear(t, 0) /\ Untaken(c.part)
  \/ /\ c.to = Global /\ OfAll(stack[Main]) = {}
     /\ Clear(t, 0) /\ Untaken(c.part)
  \/ /\ \E i \in Own(stack[t]) : c.to = stack[t][i].id /\ Clear(t, i)
     /\ Untaken(c.part)
  \/ /\ \E i \in OfAll(stack[Main]) :
          c.to = stack[Main][i].id /\ \A j \in OfAll(stack[Main]) : j <= i
     /\ Clear(t, 0) /\ Untaken(c.part)
  \/ /\ c.to = Repeater /\ Clear(t, 0)
     /\ part_results # <<>> /\ part_results[Len(part_results)] = c.part
     /\ \A l \in Listeners : \A k \in DOMAIN heard[l] : heard[l][k] # c.part
     /\ \A u \in Threads : \A i \in DOMAIN stack[u] : ~Took(stack[u][i], c.part)
  \/ /\ c.to = Done /\ ~Untaken(c.part)
     /\ \A u \in Threads : \A i \in DOMAIN stack[u] :
          Took(stack[u][i], c.part) => u = t \/ AnyFake(stack[u][i])

Routed == \A t \in Threads : call[t] # None => OnItsWay(t)

(* A helper that a fatal failure concerns has seen it or will yet be asked. *)
Asked ==
  \A t \in Threads : call[t] # None /\ parts[call[t].part] = "Fatal" =>
    \A i \in DOMAIN stack[t] : stack[t][i].is = "helper" /\ Clear(t, i) =>
      \/ stack[t][i].seen
      \/ \E k \in Own(stack[t]) : i <= k /\ call[t].to = stack[t][k].id

(* What listeners heard the TestResult has. *)
Heard == \A l \in Listeners : \A k \in DOMAIN heard[l] : Kept(heard[l][k])

(* A listener is in the list once, and then it is gtest's. *)
Listed ==
  /\ \A i, j \in DOMAIN listeners : listeners[i] = listeners[j] => i = j
  /\ \A i \in DOMAIN listeners : owner[listeners[i]] = "gtest"

RInv == /\ Typed /\ Distinct /\ AllOfMain /\ Linked /\ Traced /\ Calling /\ Numbered
        /\ Routed /\ Asked /\ Heard /\ Listed
        /\ ListenersHearInOrder /\ DeletedOnceByOwner
--------------------------------------------------------------------------------
(* Objects, stacks and chains *)

(* The fields of an object *)
LEMMA ObjectFields ==
  ASSUME NEW o \in Object
  PROVE  /\ o.is \in {"fake", "helper", "trace"} /\ o.id \in 1 .. MaxObjects /\ o.id \in Int
         /\ o.is = "fake" => o \in Fake /\ o.all \in BOOLEAN /\ o.old \in Int /\ o.caught \in Seq(Nat)
         /\ o.is = "helper" => o \in Helper /\ o.old \in Int /\ o.seen \in BOOLEAN
         /\ OwnFake(o) \/ AnyFake(o) <=> o.is = "fake"
         /\ ~(OwnFake(o) /\ AnyFake(o))
BY ReportersAssumption DEF Object, Fake, Helper, Trace, OwnFake, AnyFake

(* A fake reporter that has caught one more *)
LEMMA FakeCatches ==
  ASSUME NEW o \in Fake, NEW n \in Nat
  PROVE  LET p == [o EXCEPT !.caught = Append(@, n)] IN
         /\ p \in Fake /\ p.is = "fake" /\ p.id = o.id /\ p.old = o.old /\ p.all = o.all
         /\ p.caught = Append(o.caught, n)
<1> DEFINE c == Append(o.caught, n)
<1>1. c \in Seq(Nat)
  BY DEF Fake
<1> HIDE DEF c
<1> QED
  BY <1>1 DEF Fake, c

(* A helper that has looked at a result *)
LEMMA HelperSees ==
  ASSUME NEW o \in Helper, NEW b \in BOOLEAN
  PROVE  LET p == [o EXCEPT !.seen = b] IN
         /\ p \in Helper /\ p.is = "helper" /\ p.id = o.id /\ p.old = o.old /\ p.seen = b
BY DEF Helper

(* A stack with one object more *)
LEMMA PushFacts ==
  ASSUME NEW S, NEW s \in Seq(S), NEW o \in S
  PROVE  LET s2 == Append(s, o) IN
         /\ s2 \in Seq(S) /\ Len(s2) = Len(s) + 1
         /\ DOMAIN s2 = 1 .. Len(s) + 1 /\ DOMAIN s = 1 .. Len(s)
         /\ \A i \in DOMAIN s : s2[i] = s[i]
         /\ s2[Len(s) + 1] = o
OBVIOUS

(* A stack without its innermost object *)
LEMMA PopFacts ==
  ASSUME NEW S, NEW s \in Seq(S), s # <<>>
  PROVE  /\ Front(s) \in Seq(S) /\ Len(Front(s)) = Len(s) - 1
         /\ Len(s) \in Nat \ {0}
         /\ DOMAIN Front(s) = 1 .. Len(s) - 1 /\ DOMAIN s = 1 .. Len(s)
         /\ \A i \in DOMAIN Front(s) : Front(s)[i] = s[i]
         /\ Last(s) = s[Len(s)] /\ Last(s) \in S
<1>1. /\ Len(s) \in Nat \ {0} /\ DOMAIN s = 1 .. Len(s) /\ \A i \in 1 .. Len(s) : s[i] \in S
  OBVIOUS
<1>2. \A i \in 1 .. Len(s) - 1 : s[i] \in S
  BY <1>1
<1>3. 1 \in Int /\ Len(s) - 1 \in Int
  BY <1>1
<1> DEFINE f == SubSeq(s, 1, Len(s) - 1)
<1>4. /\ f \in Seq(S) /\ Len(f) = IF 1 <= Len(s) - 1 THEN Len(s) - 1 - 1 + 1 ELSE 0
      /\ \A i \in 1 .. Len(s) - 1 - 1 + 1 : f[i] = s[1 + i - 1]
  BY <1>2, <1>3, SubSeqProperties
<1> HIDE DEF f
<1>5. Len(f) = Len(s) - 1 /\ DOMAIN f = 1 .. Len(s) - 1
  <2>1. Len(s) \in Nat \ {0}
    BY <1>1
  <2>2. Len(f) = IF 1 <= Len(s) - 1 THEN Len(s) - 1 - 1 + 1 ELSE 0
    BY <1>4
  <2> DEFINE k == Len(s) - 1
  <2>3. k \in Nat
    BY <2>1
  <2> HIDE DEF k
  <2>4. (IF 1 <= k THEN k - 1 + 1 ELSE 0) = k
    BY <2>3
  <2>5. Len(f) = Len(s) - 1
    BY <2>2, <2>4 DEF k
  <2> QED
    BY <1>4, <2>5
<1>6. ASSUME NEW i \in DOMAIN f
      PROVE  f[i] = s[i]
  <2>1. i \in 1 .. Len(s) - 1 - 1 + 1 /\ 1 + i - 1 = i
    BY <1>1, <1>5
  <2>2. f[i] = s[1 + i - 1]
    BY <1>4, <2>1
  <2> QED
    BY <2>1, <2>2
<1> QED
  BY <1>1, <1>4, <1>5, <1>6 DEF Front, Last, f

(* A chain grows by an object that remembers what is installed, *)
LEMMA NestedPush ==
  ASSUME NEW S, NEW s \in Seq(S), NEW o \in S, NEW places \in SUBSET (DOMAIN s),
         NEW default, NEW r, Nested(s, places, default, r), o.old = r
  PROVE  Nested(Append(s, o), places \union {Len(s) + 1}, default, o.id)
BY PushFacts DEF Nested, InPlace

(* and not by one that is no part of it, *)
LEMMA NestedBeside ==
  ASSUME NEW S, NEW s \in Seq(S), NEW o \in S, NEW places \in SUBSET (DOMAIN s),
         NEW default, NEW r, Nested(s, places, default, r)
  PROVE  Nested(Append(s, o), places, default, r)
BY PushFacts DEF Nested, InPlace

(* shrinks to what the innermost object remembers, *)
LEMMA NestedPop ==
  ASSUME NEW S, NEW s \in Seq(S), s # <<>>, NEW places \in SUBSET (DOMAIN s),
         NEW default, NEW r, Nested(s, places, default, r), Len(s) \in places
  PROVE  Nested(Front(s), places \ {Len(s)}, default, Last(s).old)
<1> DEFINE f == Front(s)
<1>1. /\ Len(f) = Len(s) - 1 /\ Len(s) \in Nat \ {0} /\ DOMAIN s = 1 .. Len(s)
      /\ \A i \in 1 .. Len(s) - 1 : f[i] = s[i]
      /\ Last(s) = s[Len(s)]
  BY PopFacts
<1> HIDE DEF f
<1>2. InPlace(s, places, Len(s), default, Last(s).old)
  BY <1>1 DEF Nested
<1>3. InPlace(f, places \ {Len(s)}, Len(f) + 1, default, Last(s).old)
  BY <1>1, <1>2 DEF InPlace
<1>4. ASSUME NEW i \in places \ {Len(s)}
      PROVE  InPlace(f, places \ {Len(s)}, i, default, f[i].old)
  <2>1. InPlace(s, places, i, default, s[i].old) /\ i \in 1 .. Len(s) - 1
    BY <1>1 DEF Nested
  <2> QED
    BY <1>1, <2>1 DEF InPlace
<1> QED
  BY <1>3, <1>4 DEF Nested, f

(* not by one that is no part of it, *)
LEMMA NestedWithout ==
  ASSUME NEW S, NEW s \in Seq(S), s # <<>>, NEW places \in SUBSET (DOMAIN s),
         NEW default, NEW r, Nested(s, places, default, r), Len(s) \notin places
  PROVE  Nested(Front(s), places, default, r)
<1> DEFINE f == Front(s)
<1>1. /\ Len(f) = Len(s) - 1 /\ Len(s) \in Nat \ {0} /\ DOMAIN s = 1 .. Len(s)
      /\ \A i \in 1 .. Len(s) - 1 : f[i] = s[i]
  BY PopFacts
<1> HIDE DEF f
<1>2. InPlace(s, places, Len(s) + 1, default, r)
  BY DEF Nested
<1>3. InPlace(f, places, Len(f) + 1, default, r)
  BY <1>1, <1>2 DEF InPlace
<1>4. ASSUME NEW i \in places
      PROVE  InPlace(f, places, i, default, f[i].old)
  <2>1. InPlace(s, places, i, default, s[i].old) /\ i \in 1 .. Len(s) - 1
    BY <1>1 DEF Nested
  <2> QED
    BY <1>1, <2>1 DEF InPlace
<1> QED
  BY <1>3, <1>4 DEF Nested, f

(* and depends on nothing but addresses and what is remembered. *)
LEMMA NestedSame ==
  ASSUME NEW S, NEW s \in Seq(S), NEW s2 \in Seq(S), Len(s2) = Len(s),
         NEW places \in SUBSET (DOMAIN s),
         \A i \in places : s2[i].id = s[i].id /\ s2[i].old = s[i].old,
         NEW default, NEW r, Nested(s, places, default, r)
  PROVE  Nested(s2, places, default, r)
BY DEF Nested, InPlace

(* The trace of a SCOPED_TRACE() comes last, *)
LEMMA TracesPush ==
  ASSUME NEW s \in Seq(Object), NEW o \in Object, NEW ids \in Seq(1 .. MaxObjects),
         HoldsTraces(ids, s)
  PROVE  /\ o.is = "trace" => HoldsTraces(Append(ids, o.id), Append(s, o))
         /\ o.is # "trace" => HoldsTraces(ids, Append(s, o))
<1> PICK at \in [DOMAIN ids -> DOMAIN s] :
           /\ \A m, n \in DOMAIN at : m < n => at[m] < at[n]
           /\ Range(at) = {i \in DOMAIN s : s[i].is = "trace"}
           /\ \A n \in DOMAIN at : ids[n] = s[at[n]].id
  BY DEF HoldsTraces
<1> DEFINE s2 == Append(s, o)
           ids2 == Append(ids, o.id)
           at2 == [n \in 1 .. Len(ids) + 1 |-> IF n = Len(ids) + 1 THEN Len(s) + 1 ELSE at[n]]
<1>1. o.id \in 1 .. MaxObjects
  BY ObjectFields
<1>2. /\ Len(s) \in Nat /\ DOMAIN s = 1 .. Len(s) /\ DOMAIN s2 = 1 .. Len(s) + 1
      /\ s2[Len(s) + 1] = o /\ \A i \in DOMAIN s : s2[i] = s[i]
  OBVIOUS
<1>3. /\ Len(ids) \in Nat /\ DOMAIN ids = 1 .. Len(ids) /\ DOMAIN ids2 = 1 .. Len(ids) + 1
      /\ ids2[Len(ids) + 1] = o.id /\ \A i \in DOMAIN ids : ids2[i] = ids[i]
  BY <1>1
<1>4. \A i \in DOMAIN s : s[i].is = "trace" <=> \E n \in DOMAIN ids : at[n] = i
  BY DEF Range
<1> HIDE DEF s2, ids2
<1>5. CASE o.is = "trace"
  <2>1. at2 \in [DOMAIN ids2 -> DOMAIN s2]
    BY <1>2, <1>3
  <2>2. \A m, n \in DOMAIN at2 : m < n => at2[m] < at2[n]
    BY <1>2, <1>3
  <2>3. Range(at2) = {i \in DOMAIN s2 : s2[i].is = "trace"}
    <3>1. ASSUME NEW n \in DOMAIN at2
          PROVE  at2[n] \in DOMAIN s2 /\ s2[at2[n]].is = "trace"
      BY <1>2, <1>3, <1>4, <1>5
    <3>2. ASSUME NEW i \in DOMAIN s2, s2[i].is = "trace"
          PROVE  \E n \in DOMAIN at2 : at2[n] = i
      <4>1. CASE i = Len(s) + 1
        <5>1. Len(ids) + 1 \in DOMAIN at2 /\ at2[Len(ids) + 1] = i
          BY <1>3, <4>1
        <5> QED
          BY <5>1
      <4>2. CASE i # Len(s) + 1
        <5>1. PICK n \in DOMAIN ids : at[n] = i
          BY <1>2, <1>4, <3>2, <4>2
        <5>2. n \in DOMAIN at2 /\ at2[n] = i
          BY <1>3, <5>1
        <5> QED
          BY <5>2
      <4> QED
        BY <4>1, <4>2
    <3> HIDE DEF at2
    <3> QED
      BY <3>1, <3>2 DEF Range
  <2>4. \A n \in DOMAIN at2 : ids2[n] = s2[at2[n]].id
    BY <1>2, <1>3
  <2> HIDE DEF at2
  <2>5. HoldsTraces(ids2, s2)
    BY <2>1, <2>2, <2>3, <2>4 DEF HoldsTraces
  <2> QED
    BY <1>5, <2>5 DEF s2, ids2
<1>6. CASE o.is # "trace"
  <2>1. at \in [DOMAIN ids -> DOMAIN s2] /\ \A n \in DOMAIN at : ids[n] = s2[at[n]].id
    BY <1>2, <1>3
  <2>2. Range(at) = {i \in DOMAIN s2 : s2[i].is = "trace"}
    BY <1>2, <1>6
  <2>3. HoldsTraces(ids, s2)
    BY <2>1, <2>2 DEF HoldsTraces
  <2> QED
    BY <1>6, <2>3 DEF s2
<1> QED
  BY <1>5, <1>6

(* goes first, *)
LEMMA TracesPop ==
  ASSUME NEW s \in Seq(Object), NEW ids \in Seq(1 .. MaxObjects), s # <<>>, HoldsTraces(ids, s)
  PROVE  /\ Last(s).is = "trace" => ids # <<>> /\ HoldsTraces(Front(ids), Front(s))
         /\ Last(s).is # "trace" => HoldsTraces(ids, Front(s))
<1> PICK at \in [DOMAIN ids -> DOMAIN s] :
           /\ \A m, n \in DOMAIN at : m < n => at[m] < at[n]
           /\ Range(at) = {i \in DOMAIN s : s[i].is = "trace"}
           /\ \A n \in DOMAIN at : ids[n] = s[at[n]].id
  BY DEF HoldsTraces
<1> DEFINE s2 == Front(s)
           ids2 == Front(ids)
           at2 == [n \in 1 .. Len(ids) - 1 |-> at[n]]
<1>1. /\ Len(s) \in Nat \ {0} /\ DOMAIN s = 1 .. Len(s) /\ DOMAIN s2 = 1 .. Len(s) - 1
      /\ Last(s) = s[Len(s)] /\ \A i \in DOMAIN s2 : s2[i] = s[i]
  BY PopFacts
<1>2. Len(ids) \in Nat /\ DOMAIN ids = 1 .. Len(ids)
  OBVIOUS
<1>3. \A i \in DOMAIN s : s[i].is = "trace" <=> \E n \in DOMAIN ids : at[n] = i
  BY DEF Range
<1> HIDE DEF s2
<1>4. CASE Last(s).is = "trace"
  <2>1. PICK n \in DOMAIN ids : at[n] = Len(s)
    BY <1>1, <1>3, <1>4
  <2>2. ids # <<>>
    BY <1>2, <2>1
  <2>3. /\ Len(ids) \in Nat \ {0} /\ DOMAIN ids2 = 1 .. Len(ids) - 1
        /\ \A i \in DOMAIN ids2 : ids2[i] = ids[i]
    BY <2>2, PopFacts
  <2>4. n = Len(ids)
    <3>1. ASSUME n < Len(ids)
          PROVE  FALSE
      <4>1. at[n] < at[Len(ids)] /\ at[Len(ids)] \in 1 .. Len(s)
        BY <1>1, <1>2, <2>3, <3>1
      <4> QED
        BY <1>1, <2>1, <4>1
    <3> QED
      BY <1>2, <3>1
  <2> HIDE DEF ids2
  <2>5. ASSUME NEW k \in 1 .. Len(ids) - 1
        PROVE  at[k] \in 1 .. Len(s) - 1
    <3>1. k \in DOMAIN at /\ n \in DOMAIN at /\ k < n
      BY <1>2, <2>3, <2>4
    <3>2. at[k] < at[n] /\ at[k] \in 1 .. Len(s)
      BY <1>1, <3>1
    <3> QED
      BY <1>1, <2>1, <3>2
  <2>6. at2 \in [DOMAIN ids2 -> DOMAIN s2]
    BY <1>1, <2>3, <2>5
  <2>7. /\ \A m, k \in DOMAIN at2 : m < k => at2[m] < at2[k]
        /\ \A k \in DOMAIN at2 : ids2[k] = s2[at2[k]].id
    <3>1. DOMAIN at2 = 1 .. Len(ids) - 1 /\ \A k \in DOMAIN at2 : at2[k] = at[k] /\ k \in DOMAIN at
      BY <1>2
    <3> HIDE DEF at2
    <3> QED
      BY <1>1, <2>3, <2>5, <3>1
  <2>8. Range(at2) = {i \in DOMAIN s2 : s2[i].is = "trace"}
    <3>1. ASSUME NEW k \in DOMAIN at2
          PROVE  at2[k] \in DOMAIN s2 /\ s2[at2[k]].is = "trace"
      BY <1>1, <1>2, <1>3, <2>3, <2>5
    <3>2. ASSUME NEW i \in DOMAIN s2, s2[i].is = "trace"
          PROVE  \E k \in DOMAIN at2 : at2[k] = i
      <4>1. PICK k \in DOMAIN ids : at[k] = i
        BY <1>1, <1>3, <3>2
      <4>2. k \in DOMAIN at2 /\ at2[k] = i
        BY <1>1, <1>2, <2>1, <2>4, <4>1
      <4> QED
        BY <4>2
    <3> QED
      BY <3>1, <3>2 DEF Range
  <2> HIDE DEF at2
  <2>9. HoldsTraces(ids2, s2)
    BY <2>6, <2>7, <2>8 DEF HoldsTraces
  <2> QED
    BY <1>4, <2>2, <2>9 DEF s2, ids2
<1>5. CASE Last(s).is # "trace"
  <2>1. \A n \in DOMAIN ids : at[n] \in DOMAIN s2
    BY <1>1, <1>3, <1>5
  <2>2. at \in [DOMAIN ids -> DOMAIN s2] /\ \A n \in DOMAIN at : ids[n] = s2[at[n]].id
    BY <1>1, <2>1
  <2>3. Range(at) = {i \in DOMAIN s2 : s2[i].is = "trace"}
    BY <1>1, <1>5
  <2>4. HoldsTraces(ids, s2)
    BY <2>2, <2>3 DEF HoldsTraces
  <2> QED
    BY <1>5, <2>4 DEF s2
<1> QED
  BY <1>4, <1>5

(* and nothing else of the objects matters. *)
LEMMA TracesSame ==
  ASSUME NEW s \in Seq(Object), NEW s2 \in Seq(Object), Len(s2) = Len(s), NEW ids,
         \A i \in DOMAIN s : s2[i].id = s[i].id /\ s2[i].is = s[i].is,
         HoldsTraces(ids, s)
  PROVE  HoldsTraces(ids, s2)
<1>1. DOMAIN s2 = DOMAIN s
  OBVIOUS
<1> QED
  BY <1>1 DEF HoldsTraces

(* The places of the chains when an object comes or goes *)
LEMMA PlacesPush ==
  ASSUME NEW s \in Seq(Object), NEW o \in Object
  PROVE  LET s2 == Append(s, o) IN
         /\ Own(s2) = IF o.is = "helper" \/ OwnFake(o) THEN Own(s) \union {Len(s) + 1} ELSE Own(s)
         /\ OfAll(s2) = IF AnyFake(o) THEN OfAll(s) \union {Len(s) + 1} ELSE OfAll(s)
BY PushFacts DEF Own, OfAll

LEMMA PlacesPop ==
  ASSUME NEW s \in Seq(Object), s # <<>>
  PROVE  /\ Own(Front(s)) = IF Last(s).is = "helper" \/ OwnFake(Last(s)) THEN Own(s) \ {Len(s)} ELSE Own(s)
         /\ OfAll(Front(s)) = IF AnyFake(Last(s)) THEN OfAll(s) \ {Len(s)} ELSE OfAll(s)
         /\ Len(s) \in Own(s) <=> Last(s).is = "helper" \/ OwnFake(Last(s))
         /\ Len(s) \in OfAll(s) <=> AnyFake(Last(s))
<1> DEFINE f == Front(s)
<1>1. /\ Len(s) \in Nat \ {0} /\ DOMAIN s = 1 .. Len(s) /\ DOMAIN f = 1 .. Len(s) - 1
      /\ Last(s) = s[Len(s)] /\ \A i \in DOMAIN f : f[i] = s[i]
  BY PopFacts
<1> HIDE DEF f
<1>2. \A i \in DOMAIN s : i \in DOMAIN f \/ i = Len(s)
  BY <1>1
<1>3. Own(f) = IF Last(s).is = "helper" \/ OwnFake(Last(s)) THEN Own(s) \ {Len(s)} ELSE Own(s)
  BY <1>1, <1>2 DEF Own
<1>4. OfAll(f) = IF AnyFake(Last(s)) THEN OfAll(s) \ {Len(s)} ELSE OfAll(s)
  BY <1>1, <1>2 DEF OfAll
<1>5. Len(s) \in DOMAIN s
  BY <1>1
<1> QED
  BY <1>1, <1>3, <1>4, <1>5 DEF f, Own, OfAll

(* An address is in use exactly if an object has it. *)
LEMMA InUse ==
  ASSUME NEW i
  PROVE  i \in Constructed <=> \E t \in Threads : \E k \in DOMAIN stack[t] : i = stack[t][k].id
BY DEF Constructed, Range

LEMMA NewIdIsFree ==
  ASSUME Room
  PROVE  /\ NewId \in 1 .. MaxObjects /\ NewId \in Int
         /\ \A t \in Threads : \A k \in DOMAIN stack[t] : stack[t][k].id # NewId
<1>1. NewId \in Free
  BY DEF Room, NewId
<1> QED
  BY <1>1, InUse, ReportersAssumption DEF Free

(* At most one thread reports. *)
LEMMA OneReports ==
  ASSUME Calling, NEW t \in Threads, NEW u \in Threads, call[t] # None, call[u] # None
  PROVE  t = u
BY DEF Calling

LEMMA CallIsReport ==
  ASSUME Typed, NEW t \in Threads, call[t] # None
  PROVE  call[t] \in Report /\ call[t].part \in Nat /\ call[t].to \in Int
BY DEF Typed, Report

(* A report goes on undisturbed when an object comes that has caught nothing, *)
(* or one goes that neither took it nor is everyone's.                       *)
LEMMA RouteKept ==
  ASSUME Typed, NEW t \in Threads, call[t] # None, OnItsWay(t),
         call'[t] = call[t], stack'[t] = stack[t], part_results' = part_results, heard' = heard,
         \A u \in Threads : \A i \in DOMAIN stack'[u] :
           Took(stack'[u][i], call[t].part) \/ AnyFake(stack'[u][i])
             => i \in DOMAIN stack[u] /\ stack'[u][i] = stack[u][i],
         \A u \in Threads : \A i \in DOMAIN stack[u] :
           Took(stack[u][i], call[t].part) \/ AnyFake(stack[u][i])
             => i \in DOMAIN stack'[u] /\ stack'[u][i] = stack[u][i]
  PROVE  OnItsWay(t)'
<1> DEFINE n == call[t].part
<1>1. Clear(t, 0)' <=> Clear(t, 0)
  BY DEF Clear
<1>2. \A i \in DOMAIN stack[t] : Clear(t, i)' <=> Clear(t, i)
  BY DEF Clear
<1>3. \A u \in Threads : \A i \in DOMAIN stack'[u] :
        Took(stack'[u][i], n) => i \in DOMAIN stack[u] /\ Took(stack[u][i], n) /\ stack'[u][i] = stack[u][i]
  OBVIOUS
<1>4. \A u \in Threads : \A i \in DOMAIN stack[u] :
        Took(stack[u][i], n) => i \in DOMAIN stack'[u] /\ Took(stack'[u][i], n)
  OBVIOUS
<1>5. Untaken(n)' <=> Untaken(n)
  BY <1>3, <1>4 DEF Untaken, Kept
<1>6. OfAll(stack'[Main]) = OfAll(stack[Main])
       /\ \A i \in OfAll(stack[Main]) : stack'[Main][i] = stack[Main][i]
  BY ReportersAssumption DEF OfAll
<1>7. CASE \/ call[t].to = PerThread /\ Clear(t, 0) /\ Untaken(n)
           \/ call[t].to = Global /\ OfAll(stack[Main]) = {} /\ Clear(t, 0) /\ Untaken(n)
  BY <1>1, <1>5, <1>7, <1>6 DEF OnItsWay
<1>8. CASE (\E i \in Own(stack[t]) : call[t].to = stack[t][i].id /\ Clear(t, i)) /\ Untaken(n)
  BY <1>2, <1>5, <1>8 DEF OnItsWay, Own
<1>9. CASE /\ \E i \in OfAll(stack[Main]) :
                call[t].to = stack[Main][i].id /\ \A j \in OfAll(stack[Main]) : j <= i
           /\ Clear(t, 0) /\ Untaken(n)
  BY <1>1, <1>5, <1>9, <1>6 DEF OnItsWay
<1>10. CASE /\ call[t].to = Repeater /\ Clear(t, 0)
            /\ part_results # <<>> /\ part_results[Len(part_results)] = n
            /\ \A l \in Listeners : \A k \in DOMAIN heard[l] : heard[l][k] # n
            /\ \A u \in Threads : \A i \in DOMAIN stack[u] : ~Took(stack[u][i], n)
  BY <1>1, <1>3, <1>10 DEF OnItsWay
<1>11. CASE /\ call[t].to = Done /\ ~Untaken(n)
            /\ \A u \in Threads : \A i \in DOMAIN stack[u] :
                 Took(stack[u][i], n) => u = t \/ AnyFake(stack[u][i])
  BY <1>3, <1>5, <1>11 DEF OnItsWay
<1> QED
  BY <1>7, <1>8, <1>9, <1>10, <1>11 DEF OnItsWay

(* A helper is asked as before if its thread's stack and report are the same. *)
LEMMA AskedKept ==
  ASSUME Asked, NEW t \in Threads, call'[t] = call[t], stack'[t] = stack[t],
         call[t] # None => call[t].part \in DOMAIN parts,
         \A n \in DOMAIN parts : parts'[n] = parts[n]
  PROVE  (call[t] # None /\ parts[call[t].part] = "Fatal" =>
           \A i \in DOMAIN stack[t] : stack[t][i].is = "helper" /\ Clear(t, i) =>
             \/ stack[t][i].seen
             \/ \E k \in Own(stack[t]) : i <= k /\ call[t].to = stack[t][k].id)'
BY DEF Asked, Clear

--------------------------------------------------------------------------------
(* Objects come and go *)

(* What a new object leaves as it was *)
LEMMA Entered ==
  ASSUME RInv, NEW t \in Threads, NEW o \in Object, call[t] = None,
         \A u \in Threads : \A k \in DOMAIN stack[u] : stack[u][k].id # o.id,
         o.is = "fake" => o.caught = <<>>,
         AnyFake(o) => t = Main /\ \A u \in Threads : call[u] = None,
         stack' = [stack EXCEPT ![t] = Append(@, o)], UNCHANGED reporting
  PROVE  Distinct' /\ AllOfMain' /\ Calling' /\ Numbered' /\ Routed' /\ Asked' /\ Heard'
         /\ ListenersHearInOrder'
<1>1. /\ stack \in [Threads -> Seq(Object)] /\ stack[t] \in Seq(Object)
      /\ stack'[t] = Append(stack[t], o) /\ \A u \in Threads : u # t => stack'[u] = stack[u]
  BY DEF RInv, Typed
<1>2. /\ Len(stack[t]) \in Nat /\ DOMAIN stack[t] = 1 .. Len(stack[t])
      /\ DOMAIN stack'[t] = 1 .. Len(stack[t]) + 1
      /\ \A i \in DOMAIN stack[t] : stack'[t][i] = stack[t][i]
      /\ stack'[t][Len(stack[t]) + 1] = o
  BY <1>1, PushFacts
<1>3. \A u \in Threads : \A i \in DOMAIN stack'[u] :
        \/ i \in DOMAIN stack[u] /\ stack'[u][i] = stack[u][i]
        \/ u = t /\ i = Len(stack[t]) + 1 /\ stack'[u][i] = o
  BY <1>1, <1>2
<1>4. \A u \in Threads : \A i \in DOMAIN stack[u] :
        i \in DOMAIN stack'[u] /\ stack'[u][i] = stack[u][i]
  BY <1>1, <1>2
<1>5. Distinct'
  BY <1>3 DEF RInv, Distinct
<1>6. AllOfMain'
  BY <1>3 DEF RInv, AllOfMain
<1>7. Calling' /\ Heard' /\ ListenersHearInOrder'
  BY DEF RInv, Calling, Heard, ListenersHearInOrder, Kept, reporting
<1>8. \A n : ~Took(o, n)
  BY DEF Took
<1>9. Numbered'
  BY <1>3 DEF RInv, Numbered, reporting
<1>10. ASSUME NEW u \in Threads, call'[u] # None
       PROVE  OnItsWay(u)'
  <2>1. call[u] # None /\ call'[u] = call[u] /\ u # t /\ stack'[u] = stack[u] /\ OnItsWay(u)
    BY <1>1, <1>10 DEF RInv, Routed, reporting
  <2>2. part_results' = part_results /\ heard' = heard
    BY DEF reporting
  <2> QED
    BY <1>3, <1>4, <1>8, <2>1, <2>2, RouteKept DEF RInv
<1>11. Asked'
  <2>1. ASSUME NEW u \in Threads
        PROVE  (call[u] # None /\ parts[call[u].part] = "Fatal" =>
                 \A i \in DOMAIN stack[u] : stack[u][i].is = "helper" /\ Clear(u, i) =>
                   \/ stack[u][i].seen
                   \/ \E k \in Own(stack[u]) : i <= k /\ call[u].to = stack[u][k].id)'
    <3>1. CASE u = t
      BY <3>1 DEF reporting
    <3>2. CASE u # t
      BY <1>1, <3>2, AskedKept DEF RInv, Calling, reporting
    <3> QED
      BY <3>1, <3>2
  <2> QED
    BY <2>1 DEF Asked
<1> QED
  BY <1>5, <1>6, <1>7, <1>9, <1>10, <1>11 DEF Routed

(* What installs an object that remembers what was installed keeps the chains. *)
LEMMA LinkedPush ==
  ASSUME RInv, NEW t \in Threads, NEW o \in Object,
         stack' = [stack EXCEPT ![t] = Append(@, o)],
         \/ /\ o.is = "helper" \/ OwnFake(o)
            /\ o.old = per_thread[t] /\ global' = global
            /\ per_thread' = [per_thread EXCEPT ![t] = o.id]
         \/ /\ AnyFake(o) /\ t = Main
            /\ o.old = global /\ global' = o.id /\ per_thread' = per_thread
         \/ o.is = "trace" /\ global' = global /\ per_thread' = per_thread
  PROVE  Linked'
<1>1. /\ stack[t] \in Seq(Object) /\ per_thread \in [Threads -> Int]
      /\ stack'[t] = Append(stack[t], o) /\ \A u \in Threads : u # t => stack'[u] = stack[u]
  BY DEF RInv, Typed
<1>2. /\ \A u \in Threads : Nested(stack[u], Own(stack[u]), PerThread, per_thread[u])
      /\ Nested(stack[Main], OfAll(stack[Main]), Global, global)
  BY DEF RInv, Linked
<1>3. /\ Own(stack[t]) \in SUBSET (DOMAIN stack[t]) /\ OfAll(stack[t]) \in SUBSET (DOMAIN stack[t])
  BY DEF Own, OfAll
<1>4. /\ Own(stack'[t]) = IF o.is = "helper" \/ OwnFake(o) THEN Own(stack[t]) \union {Len(stack[t]) + 1}
                           ELSE Own(stack[t])
      /\ OfAll(stack'[t]) = IF AnyFake(o) THEN OfAll(stack[t]) \union {Len(stack[t]) + 1}
                             ELSE OfAll(stack[t])
  BY <1>1, PlacesPush
<1>5. Nested(stack'[t], Own(stack'[t]), PerThread, per_thread'[t])
  <2>1. CASE o.is = "helper" \/ OwnFake(o)
    <3>1. o.old = per_thread[t] /\ per_thread'[t] = o.id
      BY <1>1, <2>1 DEF OwnFake, AnyFake
    <3>2. Nested(Append(stack[t], o), Own(stack[t]) \union {Len(stack[t]) + 1}, PerThread, o.id)
      BY <1>1, <1>2, <1>3, <3>1, NestedPush
    <3> QED
      BY <1>1, <1>4, <2>1, <3>1, <3>2
  <2>2. CASE ~(o.is = "helper" \/ OwnFake(o))
    BY <1>1, <1>2, <1>3, <1>4, <2>2, NestedBeside
  <2> QED
    BY <2>1, <2>2
<1>6. Nested(stack'[Main], OfAll(stack'[Main]), Global, global')
  <2>1. CASE t = Main
    <3>1. CASE AnyFake(o)
      <4>1. o.old = global /\ global' = o.id
        BY <3>1, ObjectFields DEF OwnFake, AnyFake
      <4>2. Nested(Append(stack[t], o), OfAll(stack[t]) \union {Len(stack[t]) + 1}, Global, o.id)
        BY <1>1, <1>2, <1>3, <2>1, <4>1, NestedPush
      <4> QED
        BY <1>1, <1>4, <2>1, <3>1, <4>1, <4>2
    <3>2. CASE ~AnyFake(o)
      BY <1>1, <1>2, <1>3, <1>4, <2>1, <3>2, NestedBeside
    <3> QED
      BY <3>1, <3>2
  <2>2. CASE t # Main
    <3>1. ~AnyFake(o)
      BY <2>2, ObjectFields DEF AnyFake
    <3> QED
      BY <1>1, <1>2, <2>2, <3>1, ReportersAssumption
  <2> QED
    BY <2>1, <2>2
<1>7. \A u \in Threads : u # t => Nested(stack'[u], Own(stack'[u]), PerThread, per_thread'[u])
  BY <1>1, <1>2
<1> QED
  BY <1>5, <1>6, <1>7 DEF Linked

(* What restores what the innermost object remembers keeps them, too. *)
LEMMA LinkedPop ==
  ASSUME RInv, NEW t \in Threads, stack[t] # <<>>,
         stack' = [stack EXCEPT ![t] = Front(@)],
         NEW o, o = Last(stack[t]),
         \/ /\ o.is = "helper" \/ OwnFake(o)
            /\ global' = global /\ per_thread' = [per_thread EXCEPT ![t] = o.old]
         \/ AnyFake(o) /\ global' = o.old /\ per_thread' = per_thread
         \/ o.is = "trace" /\ global' = global /\ per_thread' = per_thread
  PROVE  Linked'
<1>1. /\ stack[t] \in Seq(Object) /\ per_thread \in [Threads -> Int]
      /\ stack'[t] = Front(stack[t]) /\ \A u \in Threads : u # t => stack'[u] = stack[u]
  BY DEF RInv, Typed
<1>2. /\ \A u \in Threads : Nested(stack[u], Own(stack[u]), PerThread, per_thread[u])
      /\ Nested(stack[Main], OfAll(stack[Main]), Global, global)
  BY DEF RInv, Linked
<1>3. /\ Own(stack[t]) \in SUBSET (DOMAIN stack[t]) /\ OfAll(stack[t]) \in SUBSET (DOMAIN stack[t])
  BY DEF Own, OfAll
<1>4. /\ Own(stack'[t]) = IF o.is = "helper" \/ OwnFake(o) THEN Own(stack[t]) \ {Len(stack[t])}
                           ELSE Own(stack[t])
      /\ OfAll(stack'[t]) = IF AnyFake(o) THEN OfAll(stack[t]) \ {Len(stack[t])} ELSE OfAll(stack[t])
      /\ Len(stack[t]) \in Own(stack[t]) <=> o.is = "helper" \/ OwnFake(o)
      /\ Len(stack[t]) \in OfAll(stack[t]) <=> AnyFake(o)
  BY <1>1, PlacesPop
<1>5. o \in Object /\ Len(stack[t]) \in DOMAIN stack[t] /\ o = stack[t][Len(stack[t])]
  BY <1>1, PopFacts
<1>6. Nested(stack'[t], Own(stack'[t]), PerThread, per_thread'[t])
  <2>1. CASE o.is = "helper" \/ OwnFake(o)
    <3>1. per_thread'[t] = o.old
      BY <1>1, <1>5, <2>1, ObjectFields
    <3> QED
      BY <1>1, <1>2, <1>3, <1>4, <2>1, <3>1, NestedPop, ZenonT(60)
  <2>2. CASE ~(o.is = "helper" \/ OwnFake(o))
    BY <1>1, <1>2, <1>3, <1>4, <2>2, NestedWithout
  <2> QED
    BY <2>1, <2>2
<1>7. Nested(stack'[Main], OfAll(stack'[Main]), Global, global')
  <2>1. CASE t = Main
    <3>1. CASE AnyFake(o)
      <4>1. global' = o.old
        BY <1>5, <3>1, ObjectFields DEF AnyFake
      <4> QED
        BY <1>1, <1>2, <1>3, <1>4, <2>1, <3>1, <4>1, NestedPop
    <3>2. CASE ~AnyFake(o)
      BY <1>1, <1>2, <1>3, <1>4, <2>1, <3>2, NestedWithout
    <3> QED
      BY <3>1, <3>2
  <2>2. CASE t # Main
    <3>1. ~AnyFake(o)
      BY <1>5, <2>2 DEF RInv, AllOfMain
    <3> QED
      BY <1>1, <1>2, <2>2, <3>1, ReportersAssumption
  <2> QED
    BY <2>1, <2>2
<1>8. \A u \in Threads : u # t => Nested(stack'[u], Own(stack'[u]), PerThread, per_thread'[u])
  BY <1>1, <1>2
<1> QED
  BY <1>6, <1>7, <1>8 DEF Linked

(* What an object that goes leaves as it was *)
LEMMA Left ==
  ASSUME RInv, NEW t \in Threads, call[t] = None, stack[t] # <<>>,
         AnyFake(Last(stack[t])) => \A u \in Threads : call[u] = None,
         stack' = [stack EXCEPT ![t] = Front(@)], UNCHANGED reporting
  PROVE  Distinct' /\ AllOfMain' /\ Calling' /\ Numbered' /\ Routed' /\ Asked' /\ Heard'
         /\ ListenersHearInOrder'
<1> DEFINE o == Last(stack[t])
<1>1. /\ stack \in [Threads -> Seq(Object)] /\ stack[t] \in Seq(Object)
      /\ stack'[t] = Front(stack[t]) /\ \A u \in Threads : u # t => stack'[u] = stack[u]
  BY DEF RInv, Typed
<1>2. /\ Len(stack[t]) \in Nat \ {0} /\ DOMAIN stack[t] = 1 .. Len(stack[t])
      /\ DOMAIN stack'[t] = 1 .. Len(stack[t]) - 1
      /\ \A i \in DOMAIN stack'[t] : stack'[t][i] = stack[t][i]
      /\ stack[t][Len(stack[t])] = o
  <2>1. /\ DOMAIN Front(stack[t]) = 1 .. Len(stack[t]) - 1
        /\ \A i \in DOMAIN Front(stack[t]) : Front(stack[t])[i] = stack[t][i]
    BY <1>1, PopFacts
  <2>2. /\ Len(stack[t]) \in Nat \ {0} /\ DOMAIN stack[t] = 1 .. Len(stack[t])
        /\ o = stack[t][Len(stack[t])]
    BY <1>1, PopFacts
  <2> QED
    BY <1>1, <2>1, <2>2
<1>3. \A u \in Threads : \A i \in DOMAIN stack'[u] :
        i \in DOMAIN stack[u] /\ stack'[u][i] = stack[u][i]
  BY <1>1, <1>2
<1>4. \A u \in Threads : \A i \in DOMAIN stack[u] :
        \/ i \in DOMAIN stack'[u] /\ stack'[u][i] = stack[u][i]
        \/ u = t /\ stack[u][i] = o
  BY <1>1, <1>2
<1>5. Distinct'
  BY <1>3 DEF RInv, Distinct
<1>6. AllOfMain'
  BY <1>3 DEF RInv, AllOfMain
<1>7. Calling' /\ Heard' /\ ListenersHearInOrder'
  BY DEF RInv, Calling, Heard, ListenersHearInOrder, Kept, reporting
<1>8. Numbered'
  BY <1>3 DEF RInv, Numbered, reporting
<1> HIDE DEF o
<1>9. ASSUME NEW u \in Threads, call'[u] # None
      PROVE  OnItsWay(u)'
  <2>1. call[u] # None /\ call'[u] = call[u] /\ u # t /\ stack'[u] = stack[u] /\ OnItsWay(u)
    BY <1>1, <1>9 DEF RInv, Routed, reporting
  <2>2. part_results' = part_results /\ heard' = heard
    BY DEF reporting
  <2>3. ~AnyFake(o)
    BY <2>1 DEF o
  <2>4. ~Took(o, call[u].part)
    BY <1>2, <2>1, <2>3 DEF OnItsWay, Untaken
  <2>5. \A v \in Threads : \A i \in DOMAIN stack[v] :
          Took(stack[v][i], call[u].part) \/ AnyFake(stack[v][i])
            => i \in DOMAIN stack'[v] /\ stack'[v][i] = stack[v][i]
    BY <1>4, <2>3, <2>4
  <2> QED
    BY <1>3, <2>1, <2>2, <2>5, RouteKept DEF RInv
<1>10. Asked'
  <2>1. ASSUME NEW u \in Threads
        PROVE  (call[u] # None /\ parts[call[u].part] = "Fatal" =>
                 \A i \in DOMAIN stack[u] : stack[u][i].is = "helper" /\ Clear(u, i) =>
                   \/ stack[u][i].seen
                   \/ \E k \in Own(stack[u]) : i <= k /\ call[u].to = stack[u][k].id)'
    <3>1. CASE u = t
      BY <3>1 DEF reporting
    <3>2. CASE u # t
      BY <1>1, <3>2, AskedKept DEF RInv, Calling, reporting
    <3> QED
      BY <3>1, <3>2
  <2> QED
    BY <2>1 DEF Asked
<1> QED
  BY <1>5, <1>6, <1>7, <1>8, <1>9, <1>10 DEF Routed

LEMMA ListeningKept ==
  ASSUME RInv, UNCHANGED listening
  PROVE  Listed' /\ DeletedOnceByOwner'
BY DEF RInv, Listed, DeletedOnceByOwner, listening, Range

LEMMA EnterFakeStep ==
  ASSUME RInv, NEW t \in Threads, NEW wants \in {"NonFatal", "Fatal"}, NEW all \in BOOLEAN,
         EnterFake(t, wants, all)
  PROVE  RInv'
<1> DEFINE o == [is |-> "fake", id |-> NewId, old |-> IF all THEN global ELSE per_thread[t],
                 all |-> all, wants |-> wants, caught |-> <<>>]
<1>1. NewId \in 1 .. MaxObjects /\ NewId \in Int /\ call[t] = None
      /\ \A u \in Threads : \A k \in DOMAIN stack[u] : stack[u][k].id # NewId
  BY NewIdIsFree DEF EnterFake, Runs
<1>2. o \in Fake
  BY <1>1 DEF RInv, Typed, Fake
<1>3. /\ o.is = "fake" /\ o.id = NewId /\ o.all = all /\ o.caught = <<>>
      /\ o.old = IF all THEN global ELSE per_thread[t]
  OBVIOUS
<1>4. /\ stack' = [stack EXCEPT ![t] = Append(@, o)] /\ (all => t = Main)
      /\ all => \A u \in Threads : call[u] = None
      /\ IF all THEN global' = NewId /\ per_thread' = per_thread
         ELSE per_thread' = [per_thread EXCEPT ![t] = NewId] /\ global' = global
      /\ UNCHANGED reporting /\ trace_stack' = trace_stack /\ UNCHANGED listening /\ UNCHANGED ending
  BY DEF EnterFake, Joined
<1> HIDE DEF o
<1>5. o \in Object /\ (AnyFake(o) <=> all) /\ (OwnFake(o) <=> ~all)
  BY <1>2, <1>3 DEF Object, AnyFake, OwnFake
<1>6. stack' \in [Threads -> Seq(Object)] /\ stack'[t] = Append(stack[t], o)
      /\ (\A u \in Threads : u # t => stack'[u] = stack[u]) /\ stack[t] \in Seq(Object)
  BY <1>4, <1>5 DEF RInv, Typed
<1>7. Typed'
  BY <1>1, <1>4, <1>6 DEF RInv, Typed, reporting, listening, ending
<1>8. Distinct' /\ AllOfMain' /\ Calling' /\ Numbered' /\ Routed' /\ Asked' /\ Heard'
      /\ ListenersHearInOrder'
  BY <1>1, <1>3, <1>4, <1>5, Entered
<1>9. Linked'
  BY <1>3, <1>4, <1>5, LinkedPush
<1>10. Traced'
  BY <1>3, <1>4, <1>5, <1>6, TracesPush DEF RInv, Typed, Traced
<1> QED
  BY <1>4, <1>7, <1>8, <1>9, <1>10, ListeningKept DEF RInv

LEMMA EnterHelperStep ==
  ASSUME RInv, NEW t \in Threads, EnterHelper(t)
  PROVE  RInv'
<1> DEFINE o == [is |-> "helper", id |-> NewId, old |-> per_thread[t], seen |-> FALSE]
<1>1. NewId \in 1 .. MaxObjects /\ NewId \in Int /\ call[t] = None
      /\ \A u \in Threads : \A k \in DOMAIN stack[u] : stack[u][k].id # NewId
  BY NewIdIsFree DEF EnterHelper, Runs
<1>2. o \in Helper
  BY <1>1 DEF RInv, Typed, Helper
<1>3. o.is = "helper" /\ o.id = NewId /\ o.old = per_thread[t]
  OBVIOUS
<1>4. /\ stack' = [stack EXCEPT ![t] = Append(@, o)]
      /\ per_thread' = [per_thread EXCEPT ![t] = NewId] /\ global' = global
      /\ UNCHANGED reporting /\ trace_stack' = trace_stack /\ UNCHANGED listening /\ UNCHANGED ending
  BY DEF EnterHelper
<1> HIDE DEF o
<1>5. o \in Object /\ ~AnyFake(o)
  BY <1>2, <1>3 DEF Object, AnyFake
<1>6. stack' \in [Threads -> Seq(Object)] /\ stack'[t] = Append(stack[t], o)
      /\ (\A u \in Threads : u # t => stack'[u] = stack[u]) /\ stack[t] \in Seq(Object)
  BY <1>4, <1>5 DEF RInv, Typed
<1>7. Typed'
  BY <1>1, <1>4, <1>6 DEF RInv, Typed, reporting, listening, ending
<1>8. Distinct' /\ AllOfMain' /\ Calling' /\ Numbered' /\ Routed' /\ Asked' /\ Heard'
      /\ ListenersHearInOrder'
  BY <1>1, <1>3, <1>4, <1>5, Entered
<1>9. Linked'
  BY <1>3, <1>4, <1>5, LinkedPush
<1>10. Traced'
  BY <1>3, <1>4, <1>5, <1>6, TracesPush DEF RInv, Typed, Traced
<1> QED
  BY <1>4, <1>7, <1>8, <1>9, <1>10, ListeningKept DEF RInv

LEMMA EnterTraceStep ==
  ASSUME RInv, NEW t \in Threads, EnterTrace(t)
  PROVE  RInv'
<1> DEFINE o == [is |-> "trace", id |-> NewId]
<1>1. NewId \in 1 .. MaxObjects /\ NewId \in Int /\ call[t] = None
      /\ \A u \in Threads : \A k \in DOMAIN stack[u] : stack[u][k].id # NewId
  BY NewIdIsFree DEF EnterTrace, Runs
<1>2. o \in Trace
  BY <1>1 DEF Trace
<1>3. o.is = "trace" /\ o.id = NewId
  OBVIOUS
<1>4. /\ stack' = [stack EXCEPT ![t] = Append(@, o)] /\ per_thread' = per_thread /\ global' = global
      /\ trace_stack' = [trace_stack EXCEPT ![t] = Append(@, o.id)]
      /\ UNCHANGED reporting /\ UNCHANGED listening /\ UNCHANGED ending
  BY <1>3 DEF EnterTrace
<1> HIDE DEF o
<1>5. o \in Object /\ ~AnyFake(o)
  BY <1>2, <1>3 DEF Object, AnyFake
<1>6. stack' \in [Threads -> Seq(Object)] /\ stack'[t] = Append(stack[t], o)
      /\ (\A u \in Threads : u # t => stack'[u] = stack[u]) /\ stack[t] \in Seq(Object)
  BY <1>4, <1>5 DEF RInv, Typed
<1>7. /\ trace_stack' \in [Threads -> Seq(1 .. MaxObjects)] /\ trace_stack[t] \in Seq(1 .. MaxObjects)
      /\ trace_stack'[t] = Append(trace_stack[t], o.id)
      /\ \A u \in Threads : u # t => trace_stack'[u] = trace_stack[u]
  BY <1>1, <1>3, <1>4 DEF RInv, Typed
<1>8. Typed'
  BY <1>4, <1>6, <1>7 DEF RInv, Typed, reporting, listening, ending
<1>9. Distinct' /\ AllOfMain' /\ Calling' /\ Numbered' /\ Routed' /\ Asked' /\ Heard'
      /\ ListenersHearInOrder'
  BY <1>1, <1>3, <1>4, <1>5, Entered
<1>10. Linked'
  BY <1>3, <1>4, <1>5, LinkedPush
<1>11. Traced'
  BY <1>3, <1>5, <1>6, <1>7, TracesPush DEF RInv, Traced
<1> QED
  BY <1>4, <1>8, <1>9, <1>10, <1>11, ListeningKept DEF RInv

LEMMA LeaveStep ==
  ASSUME RInv, NEW t \in Threads, Leave(t)
  PROVE  RInv'
<1> DEFINE o == Last(stack[t])
<1>1. /\ stack[t] # <<>> /\ call[t] = None /\ stack' = [stack EXCEPT ![t] = Front(@)]
      /\ UNCHANGED reporting /\ UNCHANGED listening
      /\ throw_on_failure' = throw_on_failure /\ unwinding' = unwinding /\ terminated' = terminated
      /\ IF o.is = "trace"
         THEN trace_stack' = [trace_stack EXCEPT ![t] = Front(@)] /\ UNCHANGED <<per_thread, global, owes>>
         ELSE /\ o.is = "fake" /\ o.all => Joined
              /\ Restore(t, o)
              /\ owes' = [owes EXCEPT ![t] = Owed(t, o)]
              /\ trace_stack' = trace_stack
  BY DEF Leave, PopGTestTrace
<1>2. stack[t] \in Seq(Object) /\ trace_stack[t] \in Seq(1 .. MaxObjects)
      /\ stack'[t] = Front(stack[t]) /\ \A u \in Threads : u # t => stack'[u] = stack[u]
  BY <1>1 DEF RInv, Typed
<1>3. o \in Object /\ Front(stack[t]) \in Seq(Object)
  BY <1>1, <1>2, PopFacts
<1>4. \/ o.is = "helper" \/ OwnFake(o)
      \/ AnyFake(o)
      \/ o.is = "trace"
  BY <1>3, ObjectFields
<1> HIDE DEF o
<1>5. \/ /\ o.is = "helper" \/ OwnFake(o)
         /\ global' = global /\ per_thread' = [per_thread EXCEPT ![t] = o.old]
      \/ AnyFake(o) /\ global' = o.old /\ per_thread' = per_thread
      \/ o.is = "trace" /\ global' = global /\ per_thread' = per_thread
  BY <1>1, <1>4 DEF Restore, OwnFake, AnyFake
<1>6. AnyFake(o) => \A u \in Threads : call[u] = None
  BY <1>1 DEF AnyFake, Joined
<1>7. HoldsTraces(trace_stack[t], stack[t])
  BY DEF RInv, Traced
<1>8. trace_stack' \in [Threads -> Seq(1 .. MaxObjects)]
  <2>1. CASE o.is = "trace"
    <3>1. trace_stack[t] # <<>>
      BY <1>1, <1>2, <1>7, <2>1, TracesPop DEF o
    <3>2. Front(trace_stack[t]) \in Seq(1 .. MaxObjects)
      BY <1>2, <3>1, PopFacts
    <3> QED
      BY <1>1, <2>1, <3>2 DEF RInv, Typed
  <2>2. CASE o.is # "trace"
    BY <1>1, <2>2 DEF RInv, Typed
  <2> QED
    BY <2>1, <2>2
<1>9. owes' \in [Threads -> Types \union {None}]
  BY <1>1 DEF RInv, Typed, Owed, Types
<1>10. per_thread' \in [Threads -> Int] /\ global' \in Int
  <2>1. o.is # "trace" => o.old \in Int
    BY <1>3, ObjectFields
  <2> QED
    BY <1>5, <2>1 DEF RInv, Typed, OwnFake, AnyFake
<1>11. Typed'
  BY <1>1, <1>3, <1>8, <1>9, <1>10 DEF RInv, Typed, reporting, listening
<1>12. Distinct' /\ AllOfMain' /\ Calling' /\ Numbered' /\ Routed' /\ Asked' /\ Heard'
       /\ ListenersHearInOrder'
  BY <1>1, <1>6, Left DEF o
<1>13. Linked'
  BY <1>1, <1>5, LinkedPop DEF o
<1>14. Traced'
  <2>1. HoldsTraces(trace_stack'[t], stack'[t])
    <3>1. CASE o.is = "trace"
      <4>1. trace_stack'[t] = Front(trace_stack[t])
        BY <1>1, <3>1 DEF RInv, Typed
      <4> QED
        BY <1>1, <1>2, <1>7, <3>1, <4>1, TracesPop DEF o
    <3>2. CASE o.is # "trace"
      <4>1. trace_stack'[t] = trace_stack[t]
        BY <1>1, <3>2
      <4> QED
        BY <1>1, <1>2, <1>7, <3>2, <4>1, TracesPop DEF o
    <3> QED
      BY <3>1, <3>2
  <2>2. ASSUME NEW u \in Threads, u # t
        PROVE  HoldsTraces(trace_stack'[u], stack'[u])
    <3>1. trace_stack'[u] = trace_stack[u]
      BY <1>1, <2>2 DEF RInv, Typed
    <3> QED
      BY <1>2, <2>2, <3>1 DEF RInv, Traced
  <2> QED
    BY <2>1, <2>2 DEF Traced
<1> QED
  BY <1>1, <1>11, <1>12, <1>13, <1>14, ListeningKept DEF RInv

--------------------------------------------------------------------------------
(* Reports *)

LEMMA ReportingKept ==
  ASSUME RInv, UNCHANGED <<reporting, objects>>
  PROVE  Distinct' /\ AllOfMain' /\ Linked' /\ Traced' /\ Calling' /\ Numbered' /\ Heard'
         /\ ListenersHearInOrder' /\ Routed' /\ Asked'
<1>1. Distinct' /\ AllOfMain' /\ Linked' /\ Traced' /\ Calling' /\ Numbered' /\ Heard'
      /\ ListenersHearInOrder'
  BY DEF RInv, Distinct, AllOfMain, Linked, Traced, Calling, Numbered, Heard, Kept,
         ListenersHearInOrder, reporting, objects
<1>2. Routed' /\ Asked'
  BY DEF RInv, Routed, OnItsWay, Asked, Clear, Untaken, Kept, reporting, objects
<1> QED
  BY <1>1, <1>2

LEMMA CatchStep ==
  ASSUME RInv, NEW t \in Threads, Catch(t)
  PROVE  RInv'
<1>1. UNCHANGED <<reporting, objects, listening>>
  BY DEF Catch
<1>2. Typed'
  BY <1>1 DEF Catch, RInv, Typed, reporting, objects, listening
<1> QED
  BY <1>1, <1>2, ListeningKept, ReportingKept DEF RInv

LEMMA AddTestPartResultStep ==
  ASSUME RInv, NEW t \in Threads, NEW type \in Types, AddTestPartResult(t, type)
  PROVE  RInv'
<1> PICK n \in Nat : n = Len(parts) + 1
  BY DEF RInv, Typed
<1> DEFINE c == [part |-> n, to |-> per_thread[t], owed |-> owes[t] = "NonFatal"]
<1>1. /\ call[t] = None /\ mutex = None /\ mutex' = t /\ parts' = Append(parts, type)
      /\ call' = [call EXCEPT ![t] = c] /\ owes' = [owes EXCEPT ![t] = None]
      /\ UNCHANGED <<part_results, heard, objects, listening, throw_on_failure, unwinding, terminated>>
  BY DEF AddTestPartResult
<1>2. /\ n \in Nat /\ n \notin DOMAIN parts /\ DOMAIN parts' = DOMAIN parts \union {n}
      /\ parts' \in Seq(Types) /\ parts'[n] = type
      /\ \A k \in DOMAIN parts : parts'[k] = parts[k]
  BY <1>1 DEF RInv, Typed
<1>3. c \in Report /\ c.part = n /\ c.to = per_thread[t]
  BY <1>2 DEF Report, RInv, Typed
<1> HIDE DEF c
<1>4. \A u \in Threads : call[u] = None
  BY <1>1, ReportersAssumption DEF RInv, Calling
<1>5. call'[t] = c /\ \A u \in Threads : u # t => call'[u] = None
  BY <1>1, <1>4 DEF RInv, Typed
<1>6. Typed'
  BY <1>1, <1>2, <1>3 DEF RInv, Typed, objects, listening
<1>7. Distinct' /\ AllOfMain' /\ Linked' /\ Traced' /\ Heard' /\ ListenersHearInOrder'
  BY <1>1 DEF RInv, Distinct, AllOfMain, Linked, Traced, Heard, Kept, ListenersHearInOrder, objects
<1>8. Calling' /\ Numbered'
  <2>1. Calling'
    BY <1>1, <1>2, <1>3, <1>5 DEF Calling
  <2>2. Numbered'
    BY <1>1, <1>2 DEF RInv, Numbered, objects
  <2> QED
    BY <2>1, <2>2
<1>9. stack' = stack /\ part_results' = part_results /\ heard' = heard
  BY <1>1 DEF objects
<1>10. Untaken(n)
  BY <1>2 DEF RInv, Numbered, Untaken, Kept, Took
<1>11. Untaken(n)'
  BY <1>9, <1>10 DEF Untaken, Kept
<1>12. /\ stack[t] \in Seq(Object) /\ Len(stack[t]) \in Nat /\ DOMAIN stack[t] = 1 .. Len(stack[t])
       /\ InPlace(stack[t], Own(stack[t]), Len(stack[t]) + 1, PerThread, per_thread[t])
  BY DEF RInv, Typed, Linked, Nested
<1>13. OnItsWay(t)'
  <2>1. CASE per_thread[t] = PerThread /\ \A i \in Own(stack[t]) : Len(stack[t]) + 1 <= i
    <3>1. \A i \in DOMAIN stack[t] : i \notin Own(stack[t])
      BY <1>12, <2>1
    <3>2. Clear(t, 0)'
      BY <1>9, <3>1 DEF Clear, Own
    <3> QED
      BY <1>3, <1>5, <1>11, <2>1, <3>2 DEF OnItsWay
  <2>2. CASE \E i \in Own(stack[t]) : i < Len(stack[t]) + 1 /\ per_thread[t] = stack[t][i].id
                /\ \A j \in Own(stack[t]) : j < Len(stack[t]) + 1 => j <= i
    <3>1. PICK i \in Own(stack[t]) : per_thread[t] = stack[t][i].id
                 /\ \A j \in Own(stack[t]) : j < Len(stack[t]) + 1 => j <= i
      BY <2>2
    <3>2. \A j \in DOMAIN stack[t] : i < j => j \notin Own(stack[t])
      BY <1>12, <3>1 DEF Own
    <3>3. Clear(t, i)'
      BY <1>9, <3>2 DEF Clear, Own
    <3> QED
      BY <1>3, <1>5, <1>9, <1>11, <3>1, <3>3 DEF OnItsWay
  <2> QED
    BY <1>12, <2>1, <2>2 DEF InPlace
<1>14. Routed'
  BY <1>5, <1>13 DEF Routed
<1>15. Asked'
  <2>1. ASSUME NEW i \in DOMAIN stack[t], stack[t][i].is = "helper"
        PROVE  \E k \in Own(stack[t]) : i <= k /\ per_thread[t] = stack[t][k].id
    <3>1. i \in Own(stack[t]) /\ i < Len(stack[t]) + 1
      BY <1>12, <2>1 DEF Own
    <3> QED
      BY <1>12, <3>1 DEF InPlace, Own
  <2> QED
    BY <1>3, <1>5, <1>9, <2>1 DEF Asked
<1> QED
  BY <1>1, <1>6, <1>7, <1>8, <1>14, <1>15, ListeningKept DEF RInv

(* What a step of thread t's report leaves as it was, if it changes no object *)
LEMMA Going ==
  ASSUME RInv, NEW t \in Threads, call[t] # None, NEW r \in Int, PassOn(t, r),
         UNCHANGED <<mutex, parts, objects, listening, ending>>
  PROVE  /\ call' \in [Threads -> Report \union {None}]
         /\ call'[t] # None /\ call'[t].to = r /\ call'[t].part = call[t].part
         /\ \A u \in Threads : u # t => call[u] = None /\ call'[u] = None
         /\ Calling' /\ Distinct' /\ AllOfMain' /\ Linked' /\ Traced' /\ Listed' /\ DeletedOnceByOwner'
<1> DEFINE c == [call[t] EXCEPT !.to = r]
<1>1. call[t] \in Report
  BY CallIsReport DEF RInv
<1>2. c \in Report /\ c.to = r /\ c.part = call[t].part
  BY <1>1 DEF Report
<1>3. call' = [call EXCEPT ![t] = c]
  BY DEF PassOn
<1> HIDE DEF c
<1>4. call \in [Threads -> Report \union {None}] /\ call'[t] = c /\ \A u \in Threads : u # t => call'[u] = call[u]
  BY <1>3 DEF RInv, Typed
<1>5. call' \in [Threads -> Report \union {None}] /\ c # None
  BY <1>2, <1>3, <1>4, ReportersAssumption
<1>6. \A u \in Threads : u # t => call[u] = None /\ call'[u] = None
  BY <1>4, OneReports DEF RInv
<1>7. Calling'
  BY <1>2, <1>4, <1>6 DEF RInv, Calling
<1>8. Distinct' /\ AllOfMain' /\ Linked' /\ Traced'
  BY DEF RInv, Distinct, AllOfMain, Linked, Traced, objects
<1> QED
  BY <1>2, <1>4, <1>5, <1>6, <1>7, <1>8, ListeningKept

(* No object has the address of a default. *)
LEMMA DefaultsApart ==
  ASSUME Typed, NEW u \in Threads, NEW i \in DOMAIN stack[u]
  PROVE  stack[u][i] \in Object /\ stack[u][i].id \notin {PerThread, Global, Repeater, Done}
<1>1. stack[u][i] \in Object
  BY DEF Typed
<1>2. stack[u][i].id \in 1 .. MaxObjects
  BY <1>1, ObjectFields
<1> QED
  BY <1>1, <1>2, ReportersAssumption DEF PerThread, Global, Repeater, Done

(* A report is at one place of its way. *)
LEMMA WayIsOne ==
  ASSUME RInv, NEW t \in Threads, call[t] # None
  PROVE  /\ call[t].to \in {PerThread, Global} => Clear(t, 0) /\ Untaken(call[t].part)
         /\ call[t].to = Global => OfAll(stack[Main]) = {}
         /\ call[t].to = Repeater =>
              /\ Clear(t, 0)
              /\ part_results # <<>> /\ part_results[Len(part_results)] = call[t].part
              /\ \A l \in Listeners : \A k \in DOMAIN heard[l] : heard[l][k] # call[t].part
              /\ \A u \in Threads : \A i \in DOMAIN stack[u] : ~Took(stack[u][i], call[t].part)
         /\ call[t].to = Done =>
              /\ ~Untaken(call[t].part)
              /\ \A u \in Threads : \A i \in DOMAIN stack[u] :
                   Took(stack[u][i], call[t].part) => u = t \/ AnyFake(stack[u][i])
<1>1. OnItsWay(t)
  BY DEF RInv, Routed
<1>2. /\ \A i \in Own(stack[t]) : stack[t][i].id \notin {PerThread, Global, Repeater, Done}
      /\ \A i \in OfAll(stack[Main]) : stack[Main][i].id \notin {PerThread, Global, Repeater, Done}
  BY DefaultsApart, ReportersAssumption DEF RInv, Own, OfAll
<1> QED
  BY <1>1, <1>2 DEF OnItsWay, PerThread, Global, Repeater, Done

LEMMA ReportPerThreadStep ==
  ASSUME RInv, NEW t \in Threads, ReportPerThread(t)
  PROVE  RInv'
<1>1. /\ call[t] # None /\ call[t].to = PerThread /\ PassOn(t, global) /\ global \in Int
      /\ UNCHANGED <<mutex, part_results, parts, heard, objects, listening, ending>>
  BY DEF ReportPerThread, RInv, Typed
<1>2. /\ call' \in [Threads -> Report \union {None}]
      /\ call'[t] # None /\ call'[t].to = global /\ call'[t].part = call[t].part
      /\ \A u \in Threads : u # t => call[u] = None /\ call'[u] = None
      /\ Calling' /\ Distinct' /\ AllOfMain' /\ Linked' /\ Traced' /\ Listed' /\ DeletedOnceByOwner'
  BY <1>1, Going
<1>3. Typed'
  BY <1>1, <1>2 DEF RInv, Typed, objects, listening, ending
<1>4. Numbered' /\ Heard' /\ ListenersHearInOrder'
  BY <1>1 DEF RInv, Numbered, Heard, Kept, ListenersHearInOrder, objects
<1> PICK n : n = call[t].part
  OBVIOUS
<1>5. Clear(t, 0) /\ Untaken(n)
  BY <1>1, WayIsOne
<1>6. Clear(t, 0)' /\ Untaken(n)'
  BY <1>1, <1>5 DEF Clear, Untaken, Kept, objects
<1>7. InPlace(stack[Main], OfAll(stack[Main]), Len(stack[Main]) + 1, Global, global)
  BY DEF RInv, Linked, Nested
<1>8. \/ global = Global /\ OfAll(stack[Main]) = {}
      \/ \E i \in OfAll(stack[Main]) : global = stack[Main][i].id /\ \A j \in OfAll(stack[Main]) : j <= i
  <2>1. /\ stack[Main] \in Seq(Object) /\ DOMAIN stack[Main] = 1 .. Len(stack[Main])
        /\ Len(stack[Main]) \in Nat
    BY ReportersAssumption DEF RInv, Typed
  <2>2. \A i \in OfAll(stack[Main]) : i < Len(stack[Main]) + 1 /\ ~(Len(stack[Main]) + 1 <= i)
    BY <2>1 DEF OfAll
  <2> QED
    BY <1>7, <2>2 DEF InPlace
<1>9. OnItsWay(t)'
  BY <1>1, <1>2, <1>6, <1>8 DEF OnItsWay, objects
<1>10. Routed'
  BY <1>2, <1>9 DEF Routed
<1>11. Asked'
  <2>1. \A k \in Own(stack[t]) : call[t].to # stack[t][k].id
    BY <1>1, DefaultsApart DEF RInv, Own
  <2>2. parts' = parts /\ stack' = stack
    BY <1>1 DEF objects
  <2> QED
    BY <1>1, <1>2, <2>1, <2>2 DEF RInv, Asked, Clear
<1> QED
  BY <1>2, <1>3, <1>4, <1>10, <1>11 DEF RInv

LEMMA ReportGlobalStep ==
  ASSUME RInv, NEW t \in Threads, ReportGlobal(t)
  PROVE  RInv'
<1> DEFINE n == call[t].part
<1>1. /\ call[t] # None /\ call[t].to = Global /\ PassOn(t, Repeater) /\ Repeater \in Int
      /\ part_results' = Append(part_results, n)
      /\ UNCHANGED <<mutex, parts, heard, objects, listening, ending>>
  BY DEF ReportGlobal, Repeater
<1>2. /\ call' \in [Threads -> Report \union {None}]
      /\ call'[t] # None /\ call'[t].to = Repeater /\ call'[t].part = n
      /\ \A u \in Threads : u # t => call[u] = None /\ call'[u] = None
      /\ Calling' /\ Distinct' /\ AllOfMain' /\ Linked' /\ Traced' /\ Listed' /\ DeletedOnceByOwner'
  BY <1>1, Going
<1>3. n \in Nat /\ n \in DOMAIN parts
  BY <1>1, CallIsReport DEF RInv, Calling
<1> HIDE DEF n
<1>4. /\ part_results \in Seq(Nat) /\ part_results' \in Seq(Nat) /\ Len(part_results) \in Nat
      /\ DOMAIN part_results = 1 .. Len(part_results)
      /\ Len(part_results') = Len(part_results) + 1
      /\ DOMAIN part_results' = 1 .. Len(part_results) + 1
      /\ \A k \in DOMAIN part_results : part_results'[k] = part_results[k]
      /\ part_results'[Len(part_results')] = n
  BY <1>1, <1>3 DEF RInv, Typed
<1>5. Typed'
  BY <1>1, <1>2, <1>4 DEF RInv, Typed, objects, listening, ending
<1>6. Numbered'
  BY <1>1, <1>3, <1>4 DEF RInv, Numbered, objects
<1>7. Heard' /\ ListenersHearInOrder'
  <2>1. \A k \in DOMAIN part_results : k \in DOMAIN part_results' /\ part_results'[k] = part_results[k]
    BY <1>4
  <2>2. Heard'
    BY <1>1, <2>1 DEF RInv, Heard, Kept
  <2>3. ASSUME NEW l \in Listeners, NEW i \in DOMAIN heard[l], NEW j \in DOMAIN heard[l], i < j
        PROVE  \E a, b \in DOMAIN part_results' :
                 a < b /\ part_results'[a] = heard[l][i] /\ part_results'[b] = heard[l][j]
    BY <2>1, <2>3 DEF RInv, ListenersHearInOrder
  <2> QED
    BY <1>1, <2>2, <2>3 DEF ListenersHearInOrder
<1>8. Clear(t, 0) /\ Untaken(n)
  BY <1>1, WayIsOne DEF n
<1>9. stack' = stack /\ heard' = heard /\ parts' = parts
  BY <1>1 DEF objects
<1>10. OnItsWay(t)'
  <2>1. Clear(t, 0)' /\ \A u \in Threads : \A i \in DOMAIN stack[u] : ~Took(stack[u][i], n)
    BY <1>8, <1>9 DEF Clear, Untaken
  <2>2. \A l \in Listeners : \A k \in DOMAIN heard[l] : heard[l][k] # n
    BY <1>8 DEF RInv, Heard, Untaken
  <2>3. part_results' # <<>>
    BY <1>4
  <2> QED
    BY <1>2, <1>4, <1>9, <2>1, <2>2, <2>3 DEF OnItsWay
<1>11. Routed'
  BY <1>2, <1>10 DEF Routed
<1>12. Asked'
  <2>1. \A k \in Own(stack[t]) : call[t].to # stack[t][k].id
    BY <1>1, DefaultsApart DEF RInv, Own
  <2> QED
    BY <1>1, <1>2, <1>9, <2>1 DEF RInv, Asked, Clear, n
<1> QED
  BY <1>2, <1>5, <1>6, <1>7, <1>11, <1>12 DEF RInv

LEMMA BroadcastStep ==
  ASSUME RInv, NEW t \in Threads, Broadcast(t)
  PROVE  RInv'
<1> DEFINE n == call[t].part
<1>1. /\ call[t] # None /\ call[t].to = Repeater /\ PassOn(t, Done) /\ Done \in Int
      /\ heard' = [l \in Listeners |->
                     IF l \in Range(listeners) THEN Append(heard[l], n) ELSE heard[l]]
      /\ UNCHANGED <<mutex, part_results, parts, objects, listening, ending>>
  BY DEF Broadcast, Done
<1>2. /\ call' \in [Threads -> Report \union {None}]
      /\ call'[t] # None /\ call'[t].to = Done /\ call'[t].part = n
      /\ \A u \in Threads : u # t => call[u] = None /\ call'[u] = None
      /\ Calling' /\ Distinct' /\ AllOfMain' /\ Linked' /\ Traced' /\ Listed' /\ DeletedOnceByOwner'
  BY <1>1, Going
<1>3. n \in Nat
  BY <1>1, CallIsReport DEF RInv
<1>4. /\ Clear(t, 0) /\ part_results # <<>> /\ part_results[Len(part_results)] = n
      /\ \A l \in Listeners : \A k \in DOMAIN heard[l] : heard[l][k] # n
      /\ \A u \in Threads : \A i \in DOMAIN stack[u] : ~Took(stack[u][i], n)
  BY <1>1, WayIsOne
<1> HIDE DEF n
<1>5. /\ heard \in [Listeners -> Seq(Nat)] /\ heard' \in [Listeners -> Seq(Nat)]
  BY <1>1, <1>3 DEF RInv, Typed
<1>6. Typed'
  BY <1>1, <1>2, <1>5 DEF RInv, Typed, objects, listening, ending
<1>7. stack' = stack /\ part_results' = part_results /\ parts' = parts
  BY <1>1 DEF objects
<1>8. Numbered'
  BY <1>7 DEF RInv, Numbered
<1>9. /\ part_results \in Seq(Nat) /\ Len(part_results) \in DOMAIN part_results
      /\ DOMAIN part_results = 1 .. Len(part_results) /\ Len(part_results) \in Nat
  BY <1>4 DEF RInv, Typed
<1>10. Kept(n)
  BY <1>4, <1>9 DEF Kept
<1>11. ASSUME NEW l \in Listeners
       PROVE  \/ heard'[l] = heard[l]
              \/ /\ DOMAIN heard'[l] = DOMAIN heard[l] \union {Len(heard[l]) + 1}
                 /\ DOMAIN heard[l] = 1 .. Len(heard[l]) /\ Len(heard[l]) \in Nat
                 /\ \A k \in DOMAIN heard[l] : heard'[l][k] = heard[l][k]
                 /\ heard'[l][Len(heard[l]) + 1] = n
  BY <1>1, <1>3, <1>5
<1>12. Heard'
  BY <1>7, <1>10, <1>11 DEF RInv, Heard, Kept
<1>13. ListenersHearInOrder'
  <2>1. ASSUME NEW l \in Listeners, NEW i \in DOMAIN heard'[l], NEW j \in DOMAIN heard'[l], i < j
        PROVE  \E a, b \in DOMAIN part_results :
                 a < b /\ part_results[a] = heard'[l][i] /\ part_results[b] = heard'[l][j]
    <3>1. CASE heard'[l] = heard[l] \/ j \in DOMAIN heard[l]
      <4>1. i \in DOMAIN heard[l] /\ j \in DOMAIN heard[l]
            /\ heard'[l][i] = heard[l][i] /\ heard'[l][j] = heard[l][j]
        BY <1>11, <2>1, <3>1
      <4> QED
        BY <2>1, <4>1 DEF RInv, ListenersHearInOrder
    <3>2. CASE heard'[l] # heard[l] /\ j \notin DOMAIN heard[l]
      <4>1. heard'[l][j] = n /\ i \in DOMAIN heard[l] /\ heard'[l][i] = heard[l][i]
        BY <1>11, <2>1, <3>2
      <4>2. PICK a \in DOMAIN part_results : part_results[a] = heard[l][i]
        BY <4>1 DEF RInv, Heard, Kept
      <4>3. a # Len(part_results)
        BY <1>4, <4>1, <4>2
      <4>4. a < Len(part_results)
        BY <1>9, <4>2, <4>3
      <4> QED
        BY <1>4, <1>9, <4>1, <4>2, <4>4
    <3> QED
      BY <3>1, <3>2
  <2> QED
    BY <1>7, <2>1 DEF ListenersHearInOrder
<1>14. OnItsWay(t)'
  BY <1>2, <1>4, <1>7, <1>10 DEF OnItsWay, Untaken, Kept
<1>15. Routed'
  BY <1>2, <1>14 DEF Routed
<1>16. Asked'
  <2>1. \A k \in Own(stack[t]) : call[t].to # stack[t][k].id
    BY <1>1, DefaultsApart DEF RInv, Own
  <2> QED
    BY <1>1, <1>2, <1>7, <2>1 DEF RInv, Asked, Clear, n
<1> QED
  BY <1>2, <1>6, <1>8, <1>12, <1>13, <1>15, <1>16 DEF RInv

LEMMA EndReportStep ==
  ASSUME RInv, NEW t \in Threads, EndReport(t)
  PROVE  RInv'
<1>1. /\ call[t] # None /\ mutex' = None /\ call' = [call EXCEPT ![t] = None]
      /\ terminated' \in BOOLEAN /\ unwinding' \in [Threads -> BOOLEAN]
      /\ UNCHANGED <<part_results, parts, heard, objects, listening, throw_on_failure, owes>>
  BY DEF EndReport, RInv, Typed
<1>2. call \in [Threads -> Report \union {None}]
  BY DEF RInv, Typed
<1>3. \A u \in Threads : call'[u] = None
  BY <1>1, <1>2, OneReports DEF RInv
<1>4. Typed'
  BY <1>1, <1>2 DEF RInv, Typed, objects, listening
<1>5. Calling' /\ Routed' /\ Asked'
  BY <1>3 DEF Calling, Routed, Asked
<1>6. Distinct' /\ AllOfMain' /\ Linked' /\ Traced' /\ Numbered' /\ Heard' /\ ListenersHearInOrder'
  BY <1>1 DEF RInv, Distinct, AllOfMain, Linked, Traced, Numbered, Heard, Kept,
              ListenersHearInOrder, objects
<1> QED
  BY <1>1, <1>4, <1>5, <1>6, ListeningKept DEF RInv

(* The object that a report calls is the next on its way. *)
LEMMA CalledObject ==
  ASSUME RInv, NEW t \in Threads, call[t] # None,
         NEW u \in Threads, NEW i \in DOMAIN stack[u], stack[u][i].id = call[t].to
  PROVE  /\ Untaken(call[t].part)
         /\ \/ u = t /\ i \in Own(stack[t]) /\ Clear(t, i)
            \/ /\ u = Main /\ i \in OfAll(stack[Main]) /\ Clear(t, 0)
               /\ \A j \in OfAll(stack[Main]) : j <= i
<1>1. OnItsWay(t) /\ call[t].to \notin {PerThread, Global, Repeater, Done}
  BY DefaultsApart DEF RInv, Routed
<1>2. CASE /\ \E k \in Own(stack[t]) : call[t].to = stack[t][k].id /\ Clear(t, k)
           /\ Untaken(call[t].part)
  <2>1. PICK k \in Own(stack[t]) : call[t].to = stack[t][k].id /\ Clear(t, k)
    BY <1>2
  <2>2. u = t /\ i = k
    BY <2>1 DEF RInv, Distinct, Own
  <2> QED
    BY <1>2, <2>1, <2>2
<1>3. CASE /\ \E k \in OfAll(stack[Main]) :
                call[t].to = stack[Main][k].id /\ \A j \in OfAll(stack[Main]) : j <= k
           /\ Clear(t, 0) /\ Untaken(call[t].part)
  <2>1. PICK k \in OfAll(stack[Main]) :
          call[t].to = stack[Main][k].id /\ \A j \in OfAll(stack[Main]) : j <= k
    BY <1>3
  <2>2. u = Main /\ i = k
    BY <2>1, ReportersAssumption DEF RInv, Distinct, OfAll
  <2> QED
    BY <1>3, <2>1, <2>2
<1> QED
  BY <1>1, <1>2, <1>3 DEF OnItsWay

(* What stays as it was when one object catches or sees something *)
LEMMA OneObject ==
  ASSUME RInv, NEW u \in Threads, NEW i \in DOMAIN stack[u], NEW p \in Object,
         p.is = stack[u][i].is, p.id = stack[u][i].id,
         p.is # "trace" => p.old = stack[u][i].old,
         p.is = "fake" => p.all = stack[u][i].all,
         stack' = [stack EXCEPT ![u] = [@ EXCEPT ![i] = p]],
         UNCHANGED <<per_thread, global, trace_stack>>
  PROVE  /\ stack' \in [Threads -> Seq(Object)]
         /\ \A v \in Threads : DOMAIN stack'[v] = DOMAIN stack[v] /\ Own(stack'[v]) = Own(stack[v])
         /\ OfAll(stack'[Main]) = OfAll(stack[Main])
         /\ \A v \in Threads : \A j \in DOMAIN stack[v] :
              /\ stack'[v][j].is = stack[v][j].is /\ stack'[v][j].id = stack[v][j].id
              /\ OwnFake(stack'[v][j]) <=> OwnFake(stack[v][j])
              /\ AnyFake(stack'[v][j]) <=> AnyFake(stack[v][j])
              /\ v # u \/ j # i => stack'[v][j] = stack[v][j]
         /\ stack'[u][i] = p
         /\ Distinct' /\ AllOfMain' /\ Linked' /\ Traced'
<1>1. /\ stack \in [Threads -> Seq(Object)] /\ stack' \in [Threads -> Seq(Object)]
      /\ \A v \in Threads : Len(stack'[v]) = Len(stack[v]) /\ DOMAIN stack'[v] = DOMAIN stack[v]
      /\ \A v \in Threads : \A j \in DOMAIN stack[v] :
           v # u \/ j # i => stack'[v][j] = stack[v][j]
      /\ stack'[u][i] = p
  BY DEF RInv, Typed
<1>2. \A v \in Threads : \A j \in DOMAIN stack[v] :
        stack[v][j] \in Object /\ stack'[v][j].is = stack[v][j].is /\ stack'[v][j].id = stack[v][j].id
  BY <1>1
<1>3. \A v \in Threads : \A j \in DOMAIN stack[v] :
        /\ OwnFake(stack'[v][j]) <=> OwnFake(stack[v][j])
        /\ AnyFake(stack'[v][j]) <=> AnyFake(stack[v][j])
  BY <1>1, <1>2 DEF OwnFake, AnyFake
<1>4. \A v \in Threads : Own(stack'[v]) = Own(stack[v]) /\ OfAll(stack'[v]) = OfAll(stack[v])
  BY <1>1, <1>2, <1>3 DEF Own, OfAll
<1>5. Distinct'
  BY <1>1, <1>2 DEF RInv, Distinct
<1>6. AllOfMain'
  BY <1>1, <1>3 DEF RInv, AllOfMain
<1>7. \A v \in Threads : \A j \in DOMAIN stack[v] :
        stack[v][j].is # "trace" => stack'[v][j].old = stack[v][j].old
  BY <1>1
<1>8. ASSUME NEW v \in Threads
      PROVE  /\ \A j \in Own(stack[v]) : stack'[v][j].id = stack[v][j].id /\ stack'[v][j].old = stack[v][j].old
             /\ \A j \in OfAll(stack[v]) : stack'[v][j].id = stack[v][j].id /\ stack'[v][j].old = stack[v][j].old
  BY <1>2, <1>7 DEF Own, OfAll, OwnFake, AnyFake
<1>9. Linked'
  <2>1. ASSUME NEW v \in Threads
        PROVE  Nested(stack'[v], Own(stack'[v]), PerThread, per_thread'[v])
    <3>1. /\ Nested(stack[v], Own(stack[v]), PerThread, per_thread[v])
          /\ Own(stack[v]) \in SUBSET (DOMAIN stack[v])
          /\ stack[v] \in Seq(Object) /\ stack'[v] \in Seq(Object)
      BY <1>1 DEF RInv, Linked, Own
    <3>2. Nested(stack'[v], Own(stack[v]), PerThread, per_thread[v])
      BY <1>1, <1>8, <3>1, NestedSame
    <3> QED
      BY <1>4, <3>2
  <2>2. Nested(stack'[Main], OfAll(stack'[Main]), Global, global')
    <3>1. /\ Nested(stack[Main], OfAll(stack[Main]), Global, global)
          /\ OfAll(stack[Main]) \in SUBSET (DOMAIN stack[Main])
          /\ stack[Main] \in Seq(Object) /\ stack'[Main] \in Seq(Object) /\ Main \in Threads
      BY <1>1, ReportersAssumption DEF RInv, Linked, OfAll
    <3>2. Nested(stack'[Main], OfAll(stack[Main]), Global, global)
      BY <1>1, <1>8, <3>1, NestedSame
    <3> QED
      BY <1>4, <3>1, <3>2
  <2> QED
    BY <2>1, <2>2 DEF Linked
<1>10. Traced'
  <2>1. ASSUME NEW v \in Threads
        PROVE  HoldsTraces(trace_stack'[v], stack'[v])
    <3>1. stack[v] \in Seq(Object) /\ stack'[v] \in Seq(Object) /\ HoldsTraces(trace_stack[v], stack[v])
      BY <1>1 DEF RInv, Traced
    <3>2. /\ Len(stack'[v]) = Len(stack[v])
          /\ \A j \in DOMAIN stack[v] : stack'[v][j].id = stack[v][j].id /\ stack'[v][j].is = stack[v][j].is
      BY <1>1, <1>2
    <3>3. HoldsTraces(trace_stack[v], stack'[v])
      BY ONLY <3>1, <3>2, TracesSame
    <3> QED
      BY <3>3
  <2> QED
    BY <2>1 DEF Traced
<1> QED
  BY <1>1, <1>2, <1>3, <1>4, <1>5, <1>6, <1>9, <1>10, ReportersAssumption

LEMMA ReportObjectStep ==
  ASSUME RInv, NEW t \in Threads, ReportObject(t)
  PROVE  RInv'
<1> PICK n \in Nat : n = call[t].part
  BY CallIsReport DEF ReportObject, RInv
<1>1. PICK u \in Threads, i \in Nat :
        /\ i \in DOMAIN stack[u]
        /\ call[t] # None /\ stack[u][i].id = call[t].to
        /\ IF stack[u][i].is = "fake"
           THEN /\ stack' = [stack EXCEPT ![u][i].caught = Append(@, n)]
                /\ PassOn(t, Done)
           ELSE /\ stack' = [stack EXCEPT ![u][i].seen = SawFatal(stack[u][i], n)]
                /\ PassOn(t, OriginalReporter(t, stack[u][i]))
        /\ UNCHANGED <<mutex, part_results, parts, heard, per_thread, global, trace_stack, listening, ending>>
  <2>1. \A u \in Threads : DOMAIN stack[u] \subseteq Nat
    BY DEF RInv, Typed
  <2> QED
    BY <2>1 DEF ReportObject
<1> DEFINE o == stack[u][i]
<1>2. o \in Object /\ n \in DOMAIN parts
  BY <1>1 DEF RInv, Typed, Calling
<1>3. /\ Untaken(n)
      /\ \/ u = t /\ i \in Own(stack[t]) /\ Clear(t, i)
         \/ u = Main /\ i \in OfAll(stack[Main]) /\ Clear(t, 0)
  BY <1>1, CalledObject
<1>4. o.is \in {"fake", "helper"} /\ (o.is = "fake" => o \in Fake) /\ (o.is = "helper" => o \in Helper)
  BY <1>2, <1>3, ObjectFields DEF Own, OfAll, OwnFake, AnyFake
<1> DEFINE p == IF o.is = "fake" THEN [o EXCEPT !.caught = Append(@, n)]
                ELSE [o EXCEPT !.seen = SawFatal(o, n)]
           r == IF o.is = "fake" THEN Done ELSE o.old
<1>5. /\ p \in Object /\ p.is = o.is /\ p.id = o.id /\ p.old = o.old
      /\ o.is = "fake" => p.all = o.all /\ p.caught = Append(o.caught, n) /\ o.caught \in Seq(Nat)
      /\ o.is = "helper" => p.seen = SawFatal(o, n)
  <2>1. CASE o.is = "fake"
    BY <1>4, <2>1, FakeCatches DEF Object, Fake
  <2>2. CASE o.is = "helper"
    <3>1. SawFatal(o, n) \in BOOLEAN
      BY <1>4, <2>2 DEF SawFatal, Helper
    <3> QED
      BY <1>4, <2>2, <3>1, HelperSees DEF Object
  <2> QED
    BY <1>4, <2>1, <2>2
<1>6. stack' = [stack EXCEPT ![u] = [@ EXCEPT ![i] = p]]
  BY <1>1, <1>4
<1>7. PassOn(t, r) /\ r \in Int
  BY <1>1, <1>2, <1>4, ObjectFields DEF OriginalReporter, Done
<1> HIDE DEF o, p, r
<1>8. /\ stack' \in [Threads -> Seq(Object)]
      /\ \A v \in Threads : DOMAIN stack'[v] = DOMAIN stack[v] /\ Own(stack'[v]) = Own(stack[v])
      /\ OfAll(stack'[Main]) = OfAll(stack[Main])
      /\ \A v \in Threads : \A j \in DOMAIN stack[v] :
           /\ stack'[v][j].is = stack[v][j].is /\ stack'[v][j].id = stack[v][j].id
           /\ OwnFake(stack'[v][j]) <=> OwnFake(stack[v][j])
           /\ AnyFake(stack'[v][j]) <=> AnyFake(stack[v][j])
           /\ v # u \/ j # i => stack'[v][j] = stack[v][j]
      /\ stack'[u][i] = p
      /\ Distinct' /\ AllOfMain' /\ Linked' /\ Traced'
  BY <1>1, <1>5, <1>6, OneObject DEF o
<1>9. /\ call' \in [Threads -> Report \union {None}]
      /\ call'[t] # None /\ call'[t].to = r /\ call'[t].part = n
      /\ \A v \in Threads : v # t => call[v] = None /\ call'[v] = None
      /\ Calling'
  <2> DEFINE c == [call[t] EXCEPT !.to = r]
  <2>1. c \in Report /\ c.to = r /\ c.part = n
    BY <1>1, <1>7, CallIsReport DEF Report, RInv
  <2>2. call' = [call EXCEPT ![t] = c]
    BY <1>7 DEF PassOn
  <2> HIDE DEF c
  <2>3. call \in [Threads -> Report \union {None}] /\ call'[t] = c /\ \A v \in Threads : v # t => call'[v] = call[v]
    BY <2>2 DEF RInv, Typed
  <2>4. \A v \in Threads : v # t => call[v] = None /\ call'[v] = None
    BY <1>1, <2>3, OneReports DEF RInv
  <2>5. c # None
    BY <2>1, ReportersAssumption
  <2>6. Calling'
    BY <1>1, <2>1, <2>3, <2>4 DEF RInv, Calling
  <2> QED
    BY <2>1, <2>2, <2>3, <2>4, <2>5, <2>6
<1>10. Typed'
  BY <1>1, <1>8, <1>9 DEF RInv, Typed, listening, ending
<1>11. Heard' /\ ListenersHearInOrder'
  BY <1>1 DEF RInv, Heard, Kept, ListenersHearInOrder
<1>12. o.is = "fake" => \A k \in DOMAIN p.caught : p.caught[k] = n \/ (k \in DOMAIN o.caught /\ p.caught[k] = o.caught[k])
  BY <1>5
<1>13. Numbered'
  <2>1. ASSUME NEW v \in Threads, NEW j \in DOMAIN stack[v], stack'[v][j].is = "fake",
               NEW k \in DOMAIN stack'[v][j].caught
        PROVE  stack'[v][j].caught[k] \in DOMAIN parts
    <3>1. CASE v = u /\ j = i
      BY <1>2, <1>5, <1>8, <1>12, <2>1, <3>1, ZenonT(60) DEF RInv, Numbered, o
    <3>2. CASE v # u \/ j # i
      BY <1>8, <2>1, <3>2 DEF RInv, Numbered
    <3> QED
      BY <3>1, <3>2
  <2> QED
    BY <1>1, <1>8, <2>1 DEF RInv, Numbered
<1>14. \A k : Clear(t, k)' <=> Clear(t, k)
  BY <1>8 DEF Clear
<1>15. o.is = "helper" => /\ u = t /\ i \in Own(stack[t]) /\ Clear(t, i)
                          /\ InPlace(stack[t], Own(stack[t]), i, PerThread, o.old)
  BY <1>3 DEF RInv, Linked, Nested, OfAll, AnyFake, o
<1>16. stack[t] \in Seq(Object) /\ DOMAIN stack[t] = 1 .. Len(stack[t]) /\ Len(stack[t]) \in Nat
  BY DEF RInv, Typed
<1>17. OnItsWay(t)'
  <2>1. CASE o.is = "fake"
    <3>1. Len(p.caught) \in DOMAIN p.caught /\ p.caught[Len(p.caught)] = n
      BY <1>5, <2>1
    <3>2. Took(p, n)
      BY <1>5, <2>1, <3>1 DEF Took
    <3>3. \E v \in Threads : \E j \in DOMAIN stack'[v] : Took(stack'[v][j], n)
      BY <1>1, <1>8, <3>2
    <3>4. u = t \/ AnyFake(stack'[u][i])
      BY <1>3, <1>8 DEF OfAll
    <3>5. ASSUME NEW v \in Threads, NEW j \in DOMAIN stack'[v], Took(stack'[v][j], n)
          PROVE  v = t \/ AnyFake(stack'[v][j])
      <4>1. v = u /\ j = i
        BY <1>3, <1>8, <3>5 DEF Untaken
      <4> QED
        BY <3>4, <4>1
    <3>6. call'[t].to = Done
      BY <1>9, <2>1 DEF r
    <3> QED
      BY <1>9, <3>3, <3>5, <3>6 DEF OnItsWay, Untaken
  <2>2. CASE o.is = "helper"
    <3>1. ~Took(p, n)
      BY <1>5, <2>2 DEF Took
    <3>2. Untaken(n)'
      BY <1>1, <1>3, <1>8, <3>1 DEF Untaken, Kept
    <3>3. call'[t].to = o.old
      BY <1>9, <2>2 DEF r
    <3>4. CASE o.old = PerThread /\ \A k \in Own(stack[t]) : i <= k
      <4>1. \A j \in DOMAIN stack[t] : ~OwnFake(stack[t][j])
        <5>1. ASSUME NEW j \in DOMAIN stack[t], OwnFake(stack[t][j])
              PROVE  FALSE
          <6>1. j \in Own(stack[t]) /\ i <= j
            BY <3>4, <5>1 DEF Own
          <6>2. j # i
            BY <1>15, <2>2, <5>1 DEF OwnFake, o
          <6> QED
            BY <1>15, <1>16, <2>2, <5>1, <6>1, <6>2 DEF Clear, Own
        <5> QED
          BY <5>1
      <4>2. Clear(t, 0)'
        BY <1>14, <4>1 DEF Clear
      <4> QED
        BY <1>9, <3>2, <3>3, <3>4, <4>2 DEF OnItsWay
    <3>5. CASE \E k \in Own(stack[t]) : /\ k < i /\ o.old = stack[t][k].id
                                         /\ \A j \in Own(stack[t]) : j < i => j <= k
      <4>1. PICK k \in Own(stack[t]) : /\ k < i /\ o.old = stack[t][k].id
                                       /\ \A j \in Own(stack[t]) : j < i => j <= k
        BY <3>5
      <4>2. ASSUME NEW j \in DOMAIN stack[t], k < j, OwnFake(stack[t][j])
            PROVE  FALSE
        <5>1. j \in Own(stack[t]) /\ j # i
          BY <1>15, <2>2, <4>2 DEF Own, OwnFake, o
        <5>2. ~(j < i)
          BY <1>16, <4>1, <4>2, <5>1 DEF Own
        <5> QED
          BY <1>15, <1>16, <2>2, <4>2, <5>1, <5>2 DEF Clear, Own
      <4>3. Clear(t, k)'
        BY <1>14, <4>2 DEF Clear
      <4>4. k \in Own(stack'[t]) /\ stack'[t][k].id = call'[t].to
        BY <1>8, <3>3, <4>1 DEF Own
      <4> QED
        BY <1>9, <3>2, <4>3, <4>4 DEF OnItsWay
    <3> QED
      BY <1>15, <2>2, <3>4, <3>5 DEF InPlace
  <2> QED
    BY <1>4, <2>1, <2>2 DEF o
<1>18. Routed'
  BY <1>9, <1>17 DEF Routed
<1>19. Asked'
  <2>1. ASSUME parts[n] = "Fatal", NEW j \in DOMAIN stack[t], stack[t][j].is = "helper", Clear(t, j)
        PROVE  \/ stack'[t][j].seen
               \/ \E k \in Own(stack'[t]) : j <= k /\ r = stack'[t][k].id
    <3>1. \/ stack[t][j].seen
          \/ \E k \in Own(stack[t]) : j <= k /\ call[t].to = stack[t][k].id
      BY <1>1, <2>1 DEF RInv, Asked
    <3>2. CASE u = t /\ j = i
      BY <1>5, <1>8, <2>1, <3>2 DEF SawFatal, o
    <3>3. CASE (u # t \/ j # i) /\ stack[t][j].seen
      BY <1>8, <3>3
    <3>4. CASE (u # t \/ j # i) /\ ~stack[t][j].seen
      <4>1. PICK k \in Own(stack[t]) : j <= k /\ call[t].to = stack[t][k].id
        BY <3>1, <3>4
      <4>2. u = t /\ i = k
        BY <1>1, <4>1 DEF RInv, Distinct, Own
      <4>3. j < i
        BY <1>16, <3>4, <4>1, <4>2 DEF Own
      <4>4. o.is = "helper"
        <5>1. ~OwnFake(o)
          BY <1>1, <2>1, <4>2, <4>3 DEF Clear, o
        <5> QED
          BY <4>1, <4>2, <5>1 DEF Own, o
      <4>5. j \in Own(stack[t])
        BY <2>1 DEF Own
      <4>6. PICK m \in Own(stack[t]) : o.old = stack[t][m].id /\ \A h \in Own(stack[t]) : h < i => h <= m
        BY <1>15, <1>16, <4>3, <4>4, <4>5 DEF InPlace, Own
      <4>7. m \in Own(stack'[t]) /\ j <= m /\ r = stack'[t][m].id
        BY <1>8, <4>3, <4>4, <4>5, <4>6 DEF Own, r
      <4> QED
        BY <4>7
    <3> QED
      BY <3>2, <3>3, <3>4
  <2>2. ASSUME NEW v \in Threads, call'[v] # None, parts'[call'[v].part] = "Fatal",
               NEW j \in DOMAIN stack'[v], stack'[v][j].is = "helper", Clear(v, j)'
        PROVE  \/ stack'[v][j].seen
               \/ \E k \in Own(stack'[v]) : j <= k /\ call'[v].to = stack'[v][k].id
    <3>1. v = t /\ parts' = parts
      BY <1>1, <1>9, <2>2
    <3>2. j \in DOMAIN stack[t] /\ stack[t][j].is = "helper" /\ Clear(t, j)
      BY <1>8, <1>14, <2>2, <3>1
    <3> QED
      BY <1>9, <2>1, <2>2, <3>1, <3>2
  <2> QED
    BY <2>2 DEF Asked
<1> QED
  BY <1>1, <1>8, <1>9, <1>10, <1>11, <1>13, <1>18, <1>19, ListeningKept DEF RInv

--------------------------------------------------------------------------------
(* Listeners *)

LEMMA RemoveAtFacts ==
  ASSUME NEW S, NEW s \in Seq(S), NEW i \in 1 .. Len(s)
  PROVE  LET r == RemoveAt(s, i) IN
         /\ r \in Seq(S) /\ Len(s) \in Nat /\ DOMAIN r = 1 .. Len(s) - 1 /\ DOMAIN s = 1 .. Len(s)
         /\ \A k \in DOMAIN r : r[k] = IF k < i THEN s[k] ELSE s[k + 1]
<1> DEFINE n == Len(s)
           a == SubSeq(s, 1, i - 1)
           b == SubSeq(s, i + 1, n)
<1>1. /\ n \in Nat /\ DOMAIN s = 1 .. n /\ \A k \in 1 .. n : s[k] \in S
      /\ i \in Nat /\ 1 <= i /\ i <= n
  OBVIOUS
<1> HIDE DEF n
<1>2. (\A k \in 1 .. i - 1 : s[k] \in S) /\ (\A k \in i + 1 .. n : s[k] \in S)
  BY <1>1
<1>3. 1 \in Int /\ i - 1 \in Int /\ i + 1 \in Int /\ n \in Int
  BY <1>1
<1>4. a \in Seq(S) /\ Len(a) = i - 1 /\ \A k \in 1 .. i - 1 : a[k] = s[k]
  <2>1. /\ a \in Seq(S) /\ Len(a) = IF 1 <= i - 1 THEN i - 1 - 1 + 1 ELSE 0
        /\ \A k \in 1 .. i - 1 - 1 + 1 : a[k] = s[1 + k - 1]
    BY <1>2, <1>3, SubSeqProperties
  <2> HIDE DEF a
  <2>2. (IF 1 <= i - 1 THEN i - 1 - 1 + 1 ELSE 0) = i - 1
    BY <1>1
  <2>3. ASSUME NEW k \in 1 .. i - 1
        PROVE  a[k] = s[k]
    <3>1. k \in 1 .. i - 1 - 1 + 1 /\ 1 + k - 1 = k
      BY <1>1
    <3> QED
      BY <2>1, <3>1
  <2> QED
    BY <2>1, <2>2, <2>3
<1>5. b \in Seq(S) /\ Len(b) = n - i /\ \A k \in 1 .. n - i : b[k] = s[i + k]
  <2>1. /\ b \in Seq(S) /\ Len(b) = IF i + 1 <= n THEN n - (i + 1) + 1 ELSE 0
        /\ \A k \in 1 .. n - (i + 1) + 1 : b[k] = s[i + 1 + k - 1]
    BY <1>2, <1>3, SubSeqProperties
  <2> HIDE DEF b
  <2>2. (IF i + 1 <= n THEN n - (i + 1) + 1 ELSE 0) = n - i
    BY <1>1
  <2>3. ASSUME NEW k \in 1 .. n - i
        PROVE  b[k] = s[i + k]
    <3>1. k \in 1 .. n - (i + 1) + 1 /\ i + 1 + k - 1 = i + k
      BY <1>1
    <3> QED
      BY <2>1, <3>1
  <2> QED
    BY <2>1, <2>2, <2>3
<1> DEFINE r == a \o b
<1> HIDE DEF a, b
<1>6. /\ r \in Seq(S) /\ Len(r) = Len(a) + Len(b)
      /\ \A k \in 1 .. Len(a) + Len(b) : r[k] = IF k <= Len(a) THEN a[k] ELSE b[k - Len(a)]
  BY <1>4, <1>5, ConcatProperties
<1> HIDE DEF r
<1>7. Len(r) = n - 1 /\ DOMAIN r = 1 .. n - 1
  BY <1>1, <1>4, <1>5, <1>6
<1>8. ASSUME NEW k \in DOMAIN r
      PROVE  r[k] = IF k < i THEN s[k] ELSE s[k + 1]
  <2>1. k \in 1 .. Len(a) + Len(b) /\ k \in Nat /\ 1 <= k /\ k <= n - 1
    BY <1>1, <1>4, <1>5, <1>7
  <2>2. CASE k < i
    <3>1. k <= Len(a) /\ k \in 1 .. i - 1
      BY <1>1, <1>4, <2>1, <2>2
    <3> QED
      BY <1>4, <1>6, <2>1, <2>2, <3>1
  <2>3. CASE ~(k < i)
    <3>1. ~(k <= Len(a)) /\ k - Len(a) \in 1 .. n - i /\ i + (k - Len(a)) = k + 1
      BY <1>1, <1>4, <2>1, <2>3
    <3>2. r[k] = b[k - Len(a)] /\ b[k - Len(a)] = s[i + (k - Len(a))]
      BY <1>5, <1>6, <2>1, <3>1
    <3> QED
      BY <2>3, <3>1, <3>2
  <2> QED
    BY <2>2, <2>3
<1> QED
  BY <1>1, <1>6, <1>7, <1>8 DEF RemoveAt, a, b, n, r

(* Without a listener the list has the others, once each. *)
LEMMA WithoutFacts ==
  ASSUME listeners \in Seq(Listeners), NEW l,
         \A i, j \in DOMAIN listeners : listeners[i] = listeners[j] => i = j
  PROVE  /\ Without(l) \in Seq(Listeners)
         /\ \A i, j \in DOMAIN Without(l) : Without(l)[i] = Without(l)[j] => i = j
         /\ Range(Without(l)) = Range(listeners) \ {l}
<1>1. CASE l \notin Range(listeners)
  <2>1. Without(l) = listeners
    BY <1>1 DEF Without, RemoveFirst, Range
  <2> QED
    BY <1>1, <2>1
<1>2. CASE l \in Range(listeners)
  <2>1. PICK i \in 1 .. Len(listeners) : listeners[i] = l
    BY <1>2 DEF Range
  <2>2. {k \in 1 .. Len(listeners) : listeners[k] = l} = {i}
    BY <2>1
  <2>3. i \in Int /\ i <= i
    BY <2>1
  <2>4. Min({i}) = i
    BY <2>3 DEF Min
  <2>5. SelectInSeq(listeners, LAMBDA v : v = l) = i
    BY <2>2, <2>4 DEF SelectInSeq
  <2> DEFINE r == RemoveAt(listeners, i)
  <2>6. Without(l) = r
    BY <2>1, <2>5 DEF Without, RemoveFirst
  <2>7. /\ r \in Seq(Listeners) /\ Len(listeners) \in Nat
        /\ DOMAIN r = 1 .. Len(listeners) - 1 /\ DOMAIN listeners = 1 .. Len(listeners)
        /\ \A k \in DOMAIN r : r[k] = IF k < i THEN listeners[k] ELSE listeners[k + 1]
    BY <2>1, RemoveAtFacts
  <2> HIDE DEF r
  <2> DEFINE at(k) == IF k < i THEN k ELSE k + 1
  <2>8. \A k \in DOMAIN r : at(k) \in DOMAIN listeners /\ at(k) # i /\ r[k] = listeners[at(k)]
    BY <2>1, <2>7
  <2>9. \A j, k \in DOMAIN r : at(j) = at(k) => j = k
    BY <2>1, <2>7
  <2>10. \A j \in DOMAIN listeners : j # i => \E k \in DOMAIN r : at(k) = j
    <3>1. ASSUME NEW j \in DOMAIN listeners, j < i
          PROVE  j \in DOMAIN r /\ at(j) = j
      BY <2>1, <2>7, <3>1
    <3>2. ASSUME NEW j \in DOMAIN listeners, j > i
          PROVE  j - 1 \in DOMAIN r /\ at(j - 1) = j
      BY <2>1, <2>7, <3>2
    <3> HIDE DEF at
    <3>3. \A j \in DOMAIN listeners : j # i => j < i \/ j > i
      BY <2>1, <2>7
    <3> QED
      BY <3>1, <3>2, <3>3
  <2> HIDE DEF at
  <2>11. \A j, k \in DOMAIN r : r[j] = r[k] => j = k
    BY <2>8, <2>9
  <2>12. Range(r) = Range(listeners) \ {l}
    <3>1. ASSUME NEW k \in DOMAIN r
          PROVE  r[k] \in Range(listeners) /\ r[k] # l
      BY <2>1, <2>7, <2>8 DEF Range
    <3>2. ASSUME NEW j \in DOMAIN listeners, listeners[j] # l
          PROVE  listeners[j] \in Range(r)
      <4>1. j # i
        BY <2>1, <3>2
      <4>2. PICK k \in DOMAIN r : at(k) = j
        BY <2>10, <4>1
      <4> QED
        BY <2>8, <4>2 DEF Range
    <3> QED
      BY <3>1, <3>2 DEF Range
  <2> QED
    BY <2>6, <2>7, <2>11, <2>12
<1> QED
  BY <1>1, <1>2

(* A list that is distinct stays so when a listener that it lacks is added. *)
LEMMA AppendFacts ==
  ASSUME NEW s \in Seq(Listeners), NEW l \in Listeners, l \notin Range(s),
         \A i, j \in DOMAIN s : s[i] = s[j] => i = j
  PROVE  /\ Append(s, l) \in Seq(Listeners) /\ Range(Append(s, l)) = Range(s) \union {l}
         /\ \A i, j \in DOMAIN Append(s, l) : Append(s, l)[i] = Append(s, l)[j] => i = j
<1> DEFINE s2 == Append(s, l)
<1>1. /\ s2 \in Seq(Listeners) /\ Len(s2) = Len(s) + 1
      /\ DOMAIN s2 = 1 .. Len(s) + 1 /\ DOMAIN s = 1 .. Len(s)
      /\ \A i \in DOMAIN s : s2[i] = s[i]
      /\ s2[Len(s) + 1] = l
  BY PushFacts
<1> HIDE DEF s2
<1>2. Len(s) + 1 \in DOMAIN s2 /\ DOMAIN s2 = DOMAIN s \union {Len(s) + 1}
  BY <1>1
<1>3. Range(s2) = Range(s) \union {l}
  BY <1>1, <1>2 DEF Range
<1>4. \A i, j \in DOMAIN s2 : s2[i] = s2[j] => i = j
  BY <1>1, <1>2 DEF Range
<1> QED
  BY <1>1, <1>3, <1>4 DEF s2

(* In terms of sets: who is in the list, who is deleted *)
LEMMA ListInSets ==
  ASSUME RInv
  PROVE  /\ \A l \in Range(listeners) : l \in Listeners /\ owner[l] = "gtest"
         /\ \A l \in Range(deleted) : l \in Listeners /\ owner[l] = "gtest" /\ l \notin Range(listeners)
         /\ printer # None => printer \in Range(listeners)
BY DEF RInv, Typed, Listed, DeletedOnceByOwner, Range

LEMMA AppendListenerStep ==
  ASSUME RInv, NEW l \in Listeners, AppendListener(l)
  PROVE  RInv'
<1>1. /\ owner[l] = "user" /\ l \notin Range(deleted)
      /\ listeners' = Append(listeners, l) /\ owner' = [owner EXCEPT ![l] = "gtest"]
      /\ UNCHANGED <<reporting, objects, printer, deleted, ending>>
  BY DEF AppendListener, Mine
<1>2. l \notin Range(listeners)
  BY <1>1, ListInSets
<1>3. /\ listeners' \in Seq(Listeners) /\ Range(listeners') = Range(listeners) \union {l}
      /\ \A i, j \in DOMAIN listeners' : listeners'[i] = listeners'[j] => i = j
  BY <1>1, <1>2, AppendFacts DEF RInv, Typed, Listed
<1>4. owner' \in [Listeners -> {"user", "gtest"}] /\ owner'[l] = "gtest"
      /\ \A k \in Listeners : k # l => owner'[k] = owner[k]
  BY <1>1 DEF RInv, Typed
<1>5. Typed'
  BY <1>1, <1>3, <1>4 DEF RInv, Typed, reporting, objects, ending
<1>6. \A k \in Range(listeners') : owner'[k] = "gtest"
  BY <1>3, <1>4, ListInSets
<1>7. Listed'
  BY <1>3, <1>6 DEF Listed, Range
<1>8. DeletedOnceByOwner'
  <2>1. \A k \in Range(deleted) : owner'[k] = "gtest" /\ k \notin Range(listeners')
    BY <1>1, <1>3, <1>4, ListInSets
  <2>2. printer # None => printer \in Range(listeners')
    BY <1>3, ListInSets
  <2> QED
    BY <1>1, <2>1, <2>2 DEF RInv, DeletedOnceByOwner
<1> QED
  BY <1>1, <1>5, <1>7, <1>8, ReportingKept DEF RInv

LEMMA ReleaseStep ==
  ASSUME RInv, NEW l \in Listeners, Release(l)
  PROVE  RInv'
<1>1. /\ l \in Range(listeners)
      /\ printer' = IF l = printer THEN None ELSE printer
      /\ listeners' = Without(l) /\ owner' = [owner EXCEPT ![l] = "user"]
      /\ UNCHANGED <<reporting, objects, deleted, ending>>
  BY DEF Release
<1>2. /\ listeners' \in Seq(Listeners) /\ Range(listeners') = Range(listeners) \ {l}
      /\ \A i, j \in DOMAIN listeners' : listeners'[i] = listeners'[j] => i = j
  <2>1. listeners \in Seq(Listeners) /\ \A i, j \in DOMAIN listeners : listeners[i] = listeners[j] => i = j
    BY DEF RInv, Typed, Listed
  <2> QED
    BY <1>1, <2>1, WithoutFacts
<1>3. owner' \in [Listeners -> {"user", "gtest"}] /\ \A k \in Listeners : k # l => owner'[k] = owner[k]
  BY <1>1 DEF RInv, Typed
<1>4. Typed'
  BY <1>1, <1>2, <1>3 DEF RInv, Typed, reporting, objects, ending
<1>5. \A k \in Range(listeners') : owner'[k] = "gtest"
  BY <1>2, <1>3, ListInSets
<1>6. Listed'
  BY <1>2, <1>5 DEF Listed, Range
<1>7. DeletedOnceByOwner'
  <2>1. \A k \in Range(deleted) : owner'[k] = "gtest" /\ k \notin Range(listeners')
    BY <1>1, <1>2, <1>3, ListInSets
  <2>2. printer' # None => printer' \in Range(listeners')
    BY <1>1, <1>2, ListInSets
  <2> QED
    BY <1>1, <2>1, <2>2 DEF RInv, DeletedOnceByOwner
<1> QED
  BY <1>1, <1>4, <1>6, <1>7, ReportingKept DEF RInv

LEMMA SetDefaultResultPrinterStep ==
  ASSUME RInv, NEW l \in Listeners \union {None}, SetDefaultResultPrinter(l)
  PROVE  RInv'
<1> DEFINE rest == Without(printer)
<1>1. /\ l # printer /\ (l # None => owner[l] = "user" /\ l \notin Range(deleted))
      /\ listeners' = IF l = None THEN rest ELSE Append(rest, l)
      /\ deleted' = IF printer = None THEN deleted ELSE Append(deleted, printer)
      /\ printer' = l
      /\ owner' = IF l = None THEN owner ELSE [owner EXCEPT ![l] = "gtest"]
      /\ UNCHANGED <<reporting, objects, ending>>
  BY DEF SetDefaultResultPrinter, Mine
<1>2. /\ rest \in Seq(Listeners) /\ Range(rest) = Range(listeners) \ {printer}
      /\ \A i, j \in DOMAIN rest : rest[i] = rest[j] => i = j
  <2>1. listeners \in Seq(Listeners) /\ \A i, j \in DOMAIN listeners : listeners[i] = listeners[j] => i = j
    BY DEF RInv, Typed, Listed
  <2> QED
    BY <2>1, WithoutFacts
<1> HIDE DEF rest
<1>3. l # None => l \in Listeners /\ l \notin Range(listeners)
  BY <1>1, ListInSets
<1>4. /\ listeners' \in Seq(Listeners)
      /\ Range(listeners') = Range(rest) \union (IF l = None THEN {} ELSE {l})
      /\ \A i, j \in DOMAIN listeners' : listeners'[i] = listeners'[j] => i = j
  BY <1>1, <1>2, <1>3, AppendFacts
<1>5. printer # None => printer \in Listeners /\ printer \in Range(listeners) /\ printer \notin Range(deleted)
  BY ListInSets
<1>6. /\ deleted' \in Seq(Listeners)
      /\ Range(deleted') = Range(deleted) \union (IF printer = None THEN {} ELSE {printer})
      /\ \A i, j \in DOMAIN deleted' : deleted'[i] = deleted'[j] => i = j
  <2>1. deleted \in Seq(Listeners) /\ \A i, j \in DOMAIN deleted : deleted[i] = deleted[j] => i = j
    BY DEF RInv, Typed, DeletedOnceByOwner
  <2> QED
    BY <1>1, <1>5, <2>1, AppendFacts
<1>7. /\ owner' \in [Listeners -> {"user", "gtest"}] /\ \A k \in Listeners : k # l => owner'[k] = owner[k]
      /\ l # None => owner'[l] = "gtest"
  BY <1>1, <1>3 DEF RInv, Typed
<1>8. Typed'
  BY <1>1, <1>4, <1>6, <1>7 DEF RInv, Typed, reporting, objects, ending
<1>9. ASSUME NEW k \in Range(listeners')
      PROVE  owner'[k] = "gtest"
  <2>1. CASE k \in Range(rest)
    <3>1. k \in Listeners /\ owner[k] = "gtest" /\ k \in Range(listeners)
      BY <1>2, <2>1, ListInSets
    <3>2. k # l
      BY <1>3, <3>1, ReportersAssumption
    <3> QED
      BY <1>7, <3>1, <3>2
  <2>2. CASE k \notin Range(rest)
    <3>1. l # None /\ k = l
      BY <1>4, <2>2
    <3> QED
      BY <1>7, <3>1
  <2> QED
    BY <2>1, <2>2
<1>10. Listed'
  BY <1>4, <1>9 DEF Listed, Range
<1>11. DeletedOnceByOwner'
  <2>1. \A k \in Range(deleted') : owner'[k] = "gtest" /\ k \notin Range(listeners')
    BY <1>1, <1>2, <1>4, <1>5, <1>6, <1>7, ListInSets
  <2>2. printer' # None => printer' \in Range(listeners')
    BY <1>1, <1>4
  <2> QED
    BY <1>6, <2>1, <2>2 DEF DeletedOnceByOwner
<1> QED
  BY <1>1, <1>8, <1>10, <1>11, ReportingKept DEF RInv

--------------------------------------------------------------------------------
(* The invariant *)

LEMMA InitEstablishes == Init => RInv
<1> SUFFICES ASSUME Init PROVE RInv
  OBVIOUS
<1>1. printer \in Listeners
  BY ReportersAssumption DEF Init
<1> DEFINE R == Listeners \ {printer}
           f == SetToSeq(R)
           n == Cardinality(R)
<1>2. IsFiniteSet(R)
  BY FS_Subset, ReportersAssumption
<1> HIDE DEF R
<1>3. n \in Nat /\ ExistsBijection(1 .. n, R)
  BY <1>2, FS_CardinalityType
<1>4. \E g \in [1 .. n -> R] : IsInjective(g)
  <2>1. PICK g \in Bijection(1 .. n, R) : TRUE
    BY <1>3 DEF ExistsBijection
  <2>2. g \in [1 .. n -> R] /\ IsInjective(g)
    BY <2>1 DEF Bijection, Injection, IsInjective
  <2> QED
    BY <2>2
<1>5. f \in [1 .. n -> R] /\ IsInjective(f)
  BY <1>4 DEF SetToSeq
<1>6. /\ throw_on_failure \in BOOLEAN /\ mutex = None /\ global = Global /\ terminated = FALSE
      /\ stack = [t \in Threads |-> <<>>] /\ trace_stack = [t \in Threads |-> <<>>]
      /\ per_thread = [t \in Threads |-> PerThread]
      /\ call = [t \in Threads |-> None] /\ owes = [t \in Threads |-> None]
      /\ unwinding = [t \in Threads |-> FALSE]
      /\ part_results = <<>> /\ parts = <<>> /\ audience = <<>>
      /\ listeners \in {<<printer>>, <<printer>> \o f} /\ deleted = <<>>
      /\ owner = [l \in Listeners |-> IF l \in Range(listeners) THEN "gtest" ELSE "user"]
      /\ heard = [l \in Listeners |-> <<>>]
  BY DEF Init, f, R
<1> HIDE DEF f, n
<1>7. /\ f \in Seq(Listeners) /\ DOMAIN f = 1 .. n /\ Len(f) = n
      /\ \A i \in DOMAIN f : f[i] # printer
      /\ \A i, j \in DOMAIN f : f[i] = f[j] => i = j
  <2>1. \A i \in 1 .. n : f[i] \in Listeners /\ f[i] # printer
    BY <1>5 DEF R
  <2>2. f \in [1 .. n -> Listeners]
    BY <1>5, <2>1
  <2> QED
    BY <1>3, <1>5, <2>1, <2>2 DEF IsInjective
<1>8. /\ listeners \in Seq(Listeners) /\ 1 \in DOMAIN listeners /\ listeners[1] = printer
      /\ \A i, j \in DOMAIN listeners : listeners[i] = listeners[j] => i = j
  <2>1. CASE listeners = <<printer>>
    BY <1>1, <2>1
  <2>2. CASE listeners = <<printer>> \o f
    <3> DEFINE g == <<printer>> \o f
    <3>1. /\ g \in Seq(Listeners) /\ Len(g) = n + 1 /\ DOMAIN g = 1 .. n + 1 /\ g[1] = printer
          /\ \A i \in 2 .. n + 1 : g[i] = f[i - 1]
      BY <1>1, <1>3, <1>7
    <3> HIDE DEF g
    <3>2. ASSUME NEW i \in DOMAIN g, NEW j \in DOMAIN g, g[i] = g[j] PROVE i = j
      <4>1. \A k \in DOMAIN g : k = 1 \/ (k \in 2 .. n + 1 /\ k - 1 \in DOMAIN f)
        BY <1>3, <1>7, <3>1
      <4>2. \A k \in DOMAIN g : k \in Int /\ (k # 1 => g[k] = f[k - 1] /\ g[k] # printer)
        BY <1>3, <1>7, <3>1, <4>1
      <4>3. CASE i = 1 \/ j = 1
        BY <3>1, <3>2, <4>2, <4>3
      <4>4. CASE i # 1 /\ j # 1
        <5>1. i - 1 = j - 1
          BY <1>7, <3>2, <4>1, <4>2, <4>4
        <5> QED
          BY <4>2, <5>1
      <4> QED
        BY <4>3, <4>4
    <3>3. 1 \in DOMAIN g
      BY <1>3, <3>1
    <3> QED
      BY <2>2, <3>1, <3>2, <3>3 DEF g
  <2> QED
    BY <1>6, <2>1, <2>2
<1>9. printer \in Range(listeners) /\ \A i \in DOMAIN listeners : owner[listeners[i]] = "gtest"
  <2>1. \A i \in DOMAIN listeners : listeners[i] \in Listeners /\ listeners[i] \in Range(listeners)
    BY <1>8 DEF Range
  <2> QED
    BY <1>6, <1>8, <2>1
<1>10. Typed
  <2>1. /\ stack \in [Threads -> Seq(Object)] /\ trace_stack \in [Threads -> Seq(1 .. MaxObjects)]
        /\ heard \in [Listeners -> Seq(Nat)] /\ owner \in [Listeners -> {"user", "gtest"}]
    BY <1>6
  <2>2. per_thread \in [Threads -> Int] /\ global \in Int
    BY <1>6 DEF PerThread, Global
  <2>3. /\ call \in [Threads -> Report \union {None}] /\ owes \in [Threads -> Types \union {None}]
        /\ unwinding \in [Threads -> BOOLEAN] /\ mutex \in Threads \union {None}
        /\ throw_on_failure \in BOOLEAN /\ terminated \in BOOLEAN
    BY <1>6
  <2>4. /\ parts \in Seq(Types) /\ part_results \in Seq(Nat) /\ deleted \in Seq(Listeners)
        /\ listeners \in Seq(Listeners)
    BY <1>6, <1>8
  <2> QED
    BY <1>1, <2>1, <2>2, <2>3, <2>4 DEF Typed
<1>11. Distinct /\ AllOfMain /\ Calling /\ Numbered /\ Routed /\ Asked /\ Heard /\ ListenersHearInOrder
  BY <1>6 DEF Distinct, AllOfMain, Calling, Numbered, Routed, Asked, Heard, ListenersHearInOrder
<1>12. Linked
  BY <1>6, ReportersAssumption DEF Linked, Nested, InPlace, Own, OfAll
<1>13. Traced
  <2>1. HoldsTraces(<<>>, <<>>)
    <3> DEFINE at == [k \in {} |-> 0]
    <3>1. DOMAIN <<>> = {}
      OBVIOUS
    <3>2. at \in [{} -> {}] /\ Range(at) = {} /\ DOMAIN at = {}
      BY DEF Range
    <3> HIDE DEF at
    <3> QED
      BY <3>1, <3>2 DEF HoldsTraces
  <2> QED
    BY <1>6, <2>1 DEF Traced
<1>14. Listed
  BY <1>8, <1>9 DEF Listed
<1>15. DeletedOnceByOwner
  BY <1>6, <1>9 DEF DeletedOnceByOwner, Range
<1> QED
  BY <1>10, <1>11, <1>12, <1>13, <1>14, <1>15 DEF RInv

(* No step breaks the invariant. *)
LEMMA StepPreserves == RInv /\ [Next]_vars => RInv'
<1> SUFFICES ASSUME RInv, [Next]_vars PROVE RInv'
  OBVIOUS
<1>1. CASE UNCHANGED vars
  <2>1. UNCHANGED <<reporting, objects, listening, ending>>
    BY <1>1 DEF vars
  <2>2. Typed'
    BY <2>1 DEF RInv, Typed, reporting, objects, listening, ending
  <2> QED
    BY <2>1, <2>2, ReportingKept, ListeningKept DEF RInv
<1>2. ASSUME NEW t \in Threads, NEW wants \in {"NonFatal", "Fatal"}, NEW all \in BOOLEAN,
             EnterFake(t, wants, all)
      PROVE  RInv'
  BY <1>2, EnterFakeStep
<1>3. ASSUME NEW t \in Threads, EnterHelper(t)
      PROVE  RInv'
  BY <1>3, EnterHelperStep
<1>4. ASSUME NEW t \in Threads, EnterTrace(t)
      PROVE  RInv'
  BY <1>4, EnterTraceStep
<1>5. ASSUME NEW t \in Threads, Leave(t)
      PROVE  RInv'
  BY <1>5, LeaveStep
<1>6. ASSUME NEW t \in Threads, Catch(t)
      PROVE  RInv'
  BY <1>6, CatchStep
<1>7. ASSUME NEW t \in Threads, NEW type \in Types, AddTestPartResult(t, type)
      PROVE  RInv'
  BY <1>7, AddTestPartResultStep
<1>8. ASSUME NEW t \in Threads, ReportStep(t)
      PROVE  RInv'
  BY <1>8, ReportPerThreadStep, ReportGlobalStep, BroadcastStep, ReportObjectStep, EndReportStep
     DEF ReportStep
<1>9. ASSUME NEW l \in Listeners, AppendListener(l)
      PROVE  RInv'
  BY <1>9, AppendListenerStep
<1>10. ASSUME NEW l \in Listeners, Release(l)
       PROVE  RInv'
  BY <1>10, ReleaseStep
<1>11. ASSUME NEW l \in Listeners \union {None}, SetDefaultResultPrinter(l)
       PROVE  RInv'
  BY <1>11, SetDefaultResultPrinterStep
<1> QED
  BY <1>1, <1>2, <1>3, <1>4, <1>5, <1>6, <1>7, <1>8, <1>9, <1>10, <1>11 DEF Next

(* The invariant holds in every reachable state. *)
THEOREM Invariant == Spec => []RInv
BY InitEstablishes, StepPreserves, PTL DEF Spec

(* What is installed, remembered or being called is alive, and the trace     *)
(* stacks hold the traces in scope.                                          *)
THEOREM Alive == Spec => []NothingDangles
<1>1. RInv => NothingDangles
  <2> SUFFICES ASSUME RInv PROVE NothingDangles
    OBVIOUS
  <2> DEFINE Live == Constructed \union {PerThread, Global, Repeater, Done}
  <2>1. \A t \in Threads : \A i \in DOMAIN stack[t] : stack[t][i].id \in Live
    BY InUse
  <2>2. /\ \A t \in Threads : Nested(stack[t], Own(stack[t]), PerThread, per_thread[t])
        /\ Nested(stack[Main], OfAll(stack[Main]), Global, global)
    BY DEF RInv, Linked
  <2>3. PerThread \in Live /\ Global \in Live /\ Repeater \in Live /\ Done \in Live
    OBVIOUS
  <2> HIDE DEF Live
  <2>4. global \in Live
    BY <2>1, <2>2, <2>3, ReportersAssumption DEF Nested, InPlace, OfAll
  <2>5. ASSUME NEW t \in Threads
        PROVE  per_thread[t] \in Live
    BY <2>1, <2>2, <2>3 DEF Nested, InPlace, Own
  <2>6. ASSUME NEW t \in Threads, call[t] # None
        PROVE  call[t].to \in Live
    <3>1. OnItsWay(t)
      BY <2>6 DEF RInv, Routed
    <3> QED
      BY <2>1, <2>3, <3>1, ReportersAssumption DEF OnItsWay, Own, OfAll
  <2>7. ASSUME NEW t \in Threads, NEW i \in DOMAIN stack[t], stack[t][i].is # "trace"
        PROVE  stack[t][i].old \in Live
    <3>1. stack[t][i] \in Object
      BY DefaultsApart DEF RInv
    <3>2. i \in Own(stack[t]) \/ AnyFake(stack[t][i])
      BY <2>7, <3>1, ObjectFields DEF Own
    <3>3. CASE i \in Own(stack[t])
      BY <2>1, <2>2, <2>3, <3>3 DEF Nested, InPlace, Own
    <3>4. CASE AnyFake(stack[t][i])
      <4>1. t = Main /\ i \in OfAll(stack[Main])
        BY <3>4 DEF RInv, AllOfMain, OfAll
      <4> QED
        BY <2>1, <2>2, <2>3, <4>1 DEF Nested, InPlace, OfAll
    <3> QED
      BY <3>2, <3>3, <3>4
  <2>8. \A t \in Threads : HoldsTraces(trace_stack[t], stack[t])
    BY DEF RInv, Traced
  <2> QED
    BY <2>4, <2>5, <2>6, <2>7, <2>8 DEF NothingDangles, Live, Range
<1> QED
  BY <1>1, Invariant, PTL

--------------------------------------------------------------------------------
(* Who hears of a result *)

Told(n, l) == \E k \in DOMAIN heard[l] : heard[l][k] = n
(* The TestResult has it, and the listeners are about to be told. *)
Pending(n) == \E t \in Threads : call[t] # None /\ call[t].part = n /\ call[t].to = Repeater

(* The list does not change while a report is under way, so those are told who *)
(* were in it when the report began.                                         *)
HInv ==
  /\ audience \in Seq(SUBSET Listeners) /\ Len(audience) = Len(parts)
  /\ \A t \in Threads : call[t] # None => audience[call[t].part] = Range(listeners)
  /\ \A n \in DOMAIN parts : \A l \in Listeners :
       Told(n, l) <=> Kept(n) /\ l \in audience[n] /\ ~ Pending(n)

(* Nothing happens to what listeners have heard or are to hear. *)
LEMMA HearsSame ==
  ASSUME HInv, UNCHANGED <<parts, part_results, audience, heard>>,
         \A t \in Threads : call'[t] # None =>
           call[t] # None /\ call'[t].part = call[t].part /\ listeners' = listeners,
         \A n : Pending(n)' <=> Pending(n)
  PROVE  HInv'
BY DEF HInv, Told, Kept

(* A report that is passed on to no default but that of its thread, or ends,  *)
(* is none that listeners are about to hear of.                              *)
LEMMA HearsOnTheWay ==
  ASSUME RInv, RInv', HInv, NEW t \in Threads, call[t] # None, call[t].to # Repeater,
         \A u \in Threads : u # t => call'[u] = None,
         call'[t] # None => call'[t].part = call[t].part /\ call[t].to # Done,
         UNCHANGED <<parts, part_results, audience, heard, listeners>>
  PROVE  HInv'
<1>1. \A u \in Threads : u # t => call[u] = None
  BY OneReports DEF RInv
<1>2. ASSUME call'[t] # None, call'[t].to = Repeater
      PROVE  FALSE
  <2>1. OnItsWay(t)
    BY DEF RInv, Routed
  <2>2. Untaken(call[t].part)
    BY <1>2, <2>1 DEF OnItsWay
  <2>3. part_results' # <<>> /\ part_results'[Len(part_results')] = call'[t].part
    <3>1. OnItsWay(t)'
      BY <1>2 DEF RInv, Routed
    <3>2. ASSUME NEW u \in Threads, NEW i \in DOMAIN stack'[u]
          PROVE  stack'[u][i].id # Repeater
      <4>1. stack'[u][i] \in Object
        BY DEF RInv, Typed
      <4>2. stack'[u][i].id \in 1 .. MaxObjects
        BY <4>1, ObjectFields
      <4> QED
        BY <4>2, ReportersAssumption DEF Repeater
    <3>3. \A i \in DOMAIN stack'[Main] : stack'[Main][i].id # Repeater
      BY <3>2, ReportersAssumption
    <3> QED
      BY <1>2, <3>1, <3>2, <3>3 DEF OnItsWay, Own, OfAll, PerThread, Global, Repeater, Done
  <2>4. part_results # <<>> /\ part_results[Len(part_results)] = call[t].part /\ part_results \in Seq(Nat)
    BY <1>2, <2>3 DEF RInv, Typed
  <2>5. Len(part_results) \in DOMAIN part_results
    BY <2>4
  <2>6. Kept(call[t].part)
    BY <2>4, <2>5 DEF Kept
  <2> QED
    BY <2>2, <2>6 DEF Untaken
<1>3. \A n : ~ Pending(n)
  BY <1>1 DEF Pending
<1>4. \A n : ~ Pending(n)'
  BY <1>2 DEF Pending
<1>5. \A u \in Threads : call'[u] # None => u = t
  OBVIOUS
<1> QED
  BY <1>3, <1>4, <1>5, HearsSame

LEMMA HearsElsewhere ==
  ASSUME HInv, UNCHANGED reporting, UNCHANGED listeners \/ \A t \in Threads : call[t] = None
  PROVE  HInv'
<1>1. /\ call' = call /\ parts' = parts /\ part_results' = part_results
      /\ audience' = audience /\ heard' = heard
  BY DEF reporting
<1>2. \A n : Pending(n)' <=> Pending(n)
  BY <1>1 DEF Pending
<1> QED
  BY <1>1, <1>2, HearsSame

LEMMA HearsAdd ==
  ASSUME RInv, HInv, NEW t \in Threads, NEW type \in Types, AddTestPartResult(t, type)
  PROVE  HInv'
<1> PICK n \in Nat : n = Len(parts) + 1
  BY DEF RInv, Typed
<1> PICK c : c = [part |-> n, to |-> per_thread[t], owed |-> owes[t] = "NonFatal"]
  OBVIOUS
<1>1. /\ mutex = None /\ parts' = Append(parts, type) /\ audience' = Append(audience, Range(listeners))
      /\ call' = [call EXCEPT ![t] = c] /\ part_results' = part_results /\ heard' = heard
      /\ listeners' = listeners /\ c.part = n
  BY DEF AddTestPartResult, listening
<1>2. Range(listeners) \in SUBSET Listeners
  BY ListInSets
<1>3. /\ audience' \in Seq(SUBSET Listeners) /\ Len(audience') = n /\ audience'[n] = Range(listeners)
      /\ \A k \in DOMAIN parts : audience'[k] = audience[k]
      /\ Len(parts') = n /\ DOMAIN parts' = DOMAIN parts \union {n} /\ n \notin DOMAIN parts
  BY <1>1, <1>2 DEF HInv, RInv, Typed
<1>4. \A u \in Threads : call[u] = None
  BY <1>1, ReportersAssumption DEF RInv, Calling
<1>5. call'[t] = c /\ \A u \in Threads : u # t => call'[u] = None
  BY <1>1, <1>4 DEF RInv, Typed
<1>6. \A u \in Threads : call'[u] # None => audience'[call'[u].part] = Range(listeners')
  BY <1>1, <1>3, <1>5
<1>7. \A k \in DOMAIN parts : ~ Pending(k) /\ ~ Pending(k)'
  BY <1>1, <1>3, <1>4, <1>5 DEF Pending
<1>8. ~ Kept(n) /\ \A l \in Listeners : ~ Told(n, l)
  BY <1>3 DEF RInv, Numbered, Heard, Kept, Told
<1>9. \A k, l : (Kept(k)' <=> Kept(k)) /\ (Told(k, l)' <=> Told(k, l))
  BY <1>1 DEF Kept, Told
<1>10. \A k \in DOMAIN parts' : \A l \in Listeners :
         Told(k, l)' <=> Kept(k)' /\ l \in audience'[k] /\ ~ Pending(k)'
  BY <1>3, <1>7, <1>8, <1>9 DEF HInv
<1> QED
  BY <1>3, <1>6, <1>10 DEF HInv

LEMMA HearsKeep ==
  ASSUME RInv, HInv, NEW t \in Threads, ReportGlobal(t)
  PROVE  HInv'
<1> PICK n : n = call[t].part
  OBVIOUS
<1>1. /\ call[t] # None /\ call[t].to = Global /\ PassOn(t, Repeater) /\ Repeater \in Int
      /\ part_results' = Append(part_results, n)
      /\ UNCHANGED <<mutex, parts, audience, heard, objects, listening, ending>>
  BY DEF ReportGlobal, Repeater
<1>2. /\ call'[t] # None /\ call'[t].to = Repeater /\ call'[t].part = n
      /\ \A u \in Threads : u # t => call[u] = None /\ call'[u] = None
  BY <1>1, Going
<1>3. /\ parts' = parts /\ audience' = audience /\ heard' = heard /\ listeners' = listeners
  BY <1>1 DEF listening
<1>4. n \in Nat /\ n \in DOMAIN parts /\ Untaken(n)
  BY <1>1, CallIsReport, WayIsOne DEF RInv, Calling
<1>5. \A k : Kept(k)' <=> Kept(k) \/ k = n
  <2>1. /\ DOMAIN part_results = 1 .. Len(part_results) /\ Len(part_results) \in Nat
        /\ DOMAIN part_results' = 1 .. Len(part_results) + 1
        /\ \A k \in DOMAIN part_results : part_results'[k] = part_results[k]
        /\ part_results'[Len(part_results) + 1] = n
    <3>1. part_results \in Seq(Nat)
      BY DEF RInv, Typed
    <3> QED
      BY <1>1, <1>4, <3>1
  <2>2. \A a \in DOMAIN part_results' : a \in DOMAIN part_results \/ a = Len(part_results) + 1
    BY <2>1
  <2>3. DOMAIN part_results \subseteq DOMAIN part_results' /\ Len(part_results) + 1 \in DOMAIN part_results'
    BY <2>1
  <2> QED
    BY <2>1, <2>2, <2>3 DEF Kept
<1>6. \A l \in Listeners : ~ Told(n, l)
  BY <1>4 DEF RInv, Heard, Told, Untaken
<1>7. \A k : ~ Pending(k) /\ (Pending(k)' <=> k = n)
  <2>1. Global # Repeater
    BY DEF Global, Repeater
  <2> QED
    BY <1>1, <1>2, <2>1 DEF Pending
<1>8. \A k, l : Told(k, l)' <=> Told(k, l)
  BY <1>3 DEF Told
<1>9. \A k \in DOMAIN parts' : \A l \in Listeners :
        Told(k, l)' <=> Kept(k)' /\ l \in audience'[k] /\ ~ Pending(k)'
  BY <1>3, <1>5, <1>6, <1>7, <1>8 DEF HInv
<1>10. \A u \in Threads : call'[u] # None => audience'[call'[u].part] = Range(listeners')
  BY <1>1, <1>2, <1>3 DEF HInv
<1> QED
  BY <1>3, <1>9, <1>10 DEF HInv

LEMMA HearsNow ==
  ASSUME RInv, HInv, NEW t \in Threads, Broadcast(t)
  PROVE  HInv'
<1> PICK n : n = call[t].part
  OBVIOUS
<1>1. /\ call[t] # None /\ call[t].to = Repeater /\ PassOn(t, Done) /\ Done \in Int
      /\ heard' = [l \in Listeners |->
                     IF l \in Range(listeners) THEN Append(heard[l], n) ELSE heard[l]]
      /\ UNCHANGED <<mutex, part_results, parts, audience, objects, listening, ending>>
  BY DEF Broadcast, Done
<1>2. /\ call'[t] # None /\ call'[t].to = Done /\ call'[t].part = n
      /\ \A u \in Threads : u # t => call[u] = None /\ call'[u] = None
  BY <1>1, Going
<1>3. /\ parts' = parts /\ audience' = audience /\ part_results' = part_results /\ listeners' = listeners
  BY <1>1 DEF listening
<1>4. n \in Nat /\ n \in DOMAIN parts /\ audience[n] = Range(listeners)
  BY <1>1, CallIsReport DEF RInv, Calling, HInv
<1>5. Kept(n) /\ \A l \in Listeners : ~ Told(n, l)
  <2>1. /\ part_results # <<>> /\ part_results[Len(part_results)] = n
        /\ \A l \in Listeners : \A k \in DOMAIN heard[l] : heard[l][k] # n
    BY <1>1, WayIsOne
  <2>2. Len(part_results) \in DOMAIN part_results
    BY <2>1 DEF RInv, Typed
  <2> QED
    BY <2>1, <2>2 DEF Kept, Told
<1>6. ASSUME NEW l \in Listeners, NEW k
      PROVE  Told(k, l)' <=> Told(k, l) \/ (k = n /\ l \in audience[n])
  <2>1. CASE l \notin Range(listeners)
    BY <1>1, <1>4, <2>1 DEF Told
  <2>2. CASE l \in Range(listeners)
    <3>1. heard[l] \in Seq(Nat) /\ heard'[l] = Append(heard[l], n)
      BY <1>1, <2>2 DEF RInv, Typed
    <3>2. /\ DOMAIN heard'[l] = DOMAIN heard[l] \union {Len(heard[l]) + 1}
          /\ \A i \in DOMAIN heard[l] : heard'[l][i] = heard[l][i]
          /\ heard'[l][Len(heard[l]) + 1] = n
      BY <1>4, <3>1
    <3> QED
      BY <1>4, <2>2, <3>2 DEF Told
  <2> QED
    BY <2>1, <2>2
<1>7. \A k : ~ Pending(k)' /\ (Pending(k) <=> k = n)
  <2>1. Done # Repeater
    BY DEF Done, Repeater
  <2> QED
    BY <1>1, <1>2, <2>1 DEF Pending
<1>8. \A k : Kept(k)' <=> Kept(k)
  BY <1>3 DEF Kept
<1>9. \A k \in DOMAIN parts' : \A l \in Listeners :
        Told(k, l)' <=> Kept(k)' /\ l \in audience'[k] /\ ~ Pending(k)'
  BY <1>3, <1>5, <1>6, <1>7, <1>8 DEF HInv
<1>10. \A u \in Threads : call'[u] # None => audience'[call'[u].part] = Range(listeners')
  BY <1>1, <1>2, <1>3 DEF HInv
<1> QED
  BY <1>3, <1>9, <1>10 DEF HInv

LEMMA HearsReport ==
  ASSUME RInv, RInv', HInv, NEW t \in Threads, ReportStep(t)
  PROVE  HInv'
<1>1. CASE ReportPerThread(t)
  <2>1. /\ call[t] # None /\ call[t].to = PerThread /\ PassOn(t, global) /\ global \in Int
        /\ UNCHANGED <<mutex, part_results, parts, audience, heard, objects, listening, ending>>
    BY <1>1 DEF ReportPerThread, RInv, Typed
  <2>2. /\ call'[t].part = call[t].part /\ \A u \in Threads : u # t => call'[u] = None
    BY <2>1, Going
  <2>3. call[t].to # Repeater /\ call[t].to # Done
    BY <2>1 DEF PerThread, Repeater, Done
  <2> QED
    BY <2>1, <2>2, <2>3, HearsOnTheWay DEF listening
<1>2. CASE ReportGlobal(t)
  BY <1>2, HearsKeep
<1>3. CASE Broadcast(t)
  BY <1>3, HearsNow
<1>4. CASE ReportObject(t)
  <2>1. PICK r : PassOn(t, r)
    BY <1>4 DEF ReportObject
  <2>2. PICK u \in Threads : \E i \in DOMAIN stack[u] : stack[u][i].id = call[t].to
    BY <1>4 DEF ReportObject
  <2>3. call[t] # None /\ UNCHANGED <<part_results, parts, audience, heard, listeners>>
    BY <1>4 DEF ReportObject, listening
  <2>4. call[t].to # Repeater /\ call[t].to # Done
    BY <2>2, DefaultsApart DEF RInv
  <2>5. call[t] \in Report /\ call \in [Threads -> Report \union {None}]
    BY <2>3, CallIsReport DEF RInv, Typed
  <2>6. call'[t].part = call[t].part /\ \A v \in Threads : v # t => call'[v] = call[v]
    BY <2>1, <2>5 DEF PassOn, Report
  <2>7. \A v \in Threads : v # t => call'[v] = None
    BY <2>3, <2>6, OneReports DEF RInv
  <2> QED
    BY <2>3, <2>4, <2>6, <2>7, HearsOnTheWay
<1>5. CASE EndReport(t)
  <2>1. /\ call[t] # None /\ call[t].to = Done /\ call' = [call EXCEPT ![t] = None]
        /\ UNCHANGED <<part_results, parts, audience, heard, listeners>>
    BY <1>5 DEF EndReport, listening
  <2>2. call'[t] = None /\ \A v \in Threads : v # t => call'[v] = None
    BY <2>1, OneReports DEF RInv, Typed
  <2>3. call[t].to # Repeater
    BY <2>1 DEF Done, Repeater
  <2> QED
    BY <2>1, <2>2, <2>3, HearsOnTheWay
<1> QED
  BY <1>1, <1>2, <1>3, <1>4, <1>5 DEF ReportStep

LEMMA HearsNext ==
  ASSUME RInv, RInv', HInv, [Next]_vars
  PROVE  HInv'
<1>1. CASE UNCHANGED vars
  BY <1>1, HearsElsewhere DEF vars, listening
<1>2. ASSUME NEW t \in Threads,
             \/ \E wants \in {"NonFatal", "Fatal"}, all \in BOOLEAN : EnterFake(t, wants, all)
             \/ EnterHelper(t) \/ EnterTrace(t) \/ Leave(t) \/ Catch(t)
      PROVE  HInv'
  <2>1. UNCHANGED reporting /\ UNCHANGED listeners
    BY <1>2 DEF EnterFake, EnterHelper, EnterTrace, Leave, Catch, listening
  <2> QED
    BY <2>1, HearsElsewhere
<1>3. ASSUME NEW t \in Threads, NEW type \in Types, AddTestPartResult(t, type)
      PROVE  HInv'
  BY <1>3, HearsAdd
<1>4. ASSUME NEW t \in Threads, ReportStep(t)
      PROVE  HInv'
  BY <1>4, HearsReport
<1>5. ASSUME \/ \E l \in Listeners : AppendListener(l) \/ Release(l)
             \/ \E l \in Listeners \union {None} : SetDefaultResultPrinter(l)
      PROVE  HInv'
  <2>1. UNCHANGED reporting /\ Between
    BY <1>5 DEF AppendListener, Release, SetDefaultResultPrinter
  <2>2. \A t \in Threads : call[t] = None
    BY <2>1 DEF Between, Joined
  <2> QED
    BY <2>1, <2>2, HearsElsewhere
<1> QED
  BY <1>1, <1>2, <1>3, <1>4, <1>5 DEF Next

LEMMA HearsInit == Init => HInv
BY DEF Init, HInv

(* Listeners hear the results in order, each all of those that are made while *)
(* it is in the list and no others, and each is deleted at most once, by gtest, *)
(* and not while it is in the list.                                          *)
THEOREM ToldInOrder == Spec => []ListenersSound
<1>1. RInv /\ HInv => ListenersSound
  <2> SUFFICES ASSUME RInv, HInv PROVE ListenersSound
    OBVIOUS
  <2>1. TypeOK
    BY DEF RInv, Typed, Numbered, TypeOK, Range
  <2>2. ListenersHearAll
    <3>1. \A n, l : n \in Range(heard[l]) <=> Told(n, l)
      BY DEF Told, Range
    <3>2. \A n : n \in Range(part_results) <=> Kept(n)
      BY DEF Kept, Range
    <3> QED
      BY <3>1, <3>2 DEF HInv, ListenersHearAll, Pending
  <2> QED
    BY <2>1, <2>2 DEF RInv, ListenersSound
<1>2. RInv /\ HInv /\ [Next]_vars => HInv'
  BY StepPreserves, HearsNext
<1> QED
  BY <1>1, <1>2, HearsInit, InitEstablishes, StepPreserves, PTL DEF Spec

--------------------------------------------------------------------------------
(* Who takes a result, and who sees it *)

LEMMA TakenByIs ==
  ASSUME NEW n
  PROVE  /\ \A x : x \in TakenBy(n) <=>
              \/ \E u \in Threads : \E i \in DOMAIN stack[u] : Took(stack[u][i], n) /\ x = stack[u][i].id
              \/ x = Global /\ Kept(n)
         /\ \A x : x \in TakenBy(n)' <=>
              \/ \E u \in Threads : \E i \in DOMAIN stack'[u] : Took(stack'[u][i], n) /\ x = stack'[u][i].id
              \/ x = Global /\ Kept(n)'
BY DEF TakenBy, Took, Kept, Range

(* A step that is none of a report under way disturbs none: objects stay as   *)
(* they are, those that go have not taken its result, and those that come    *)
(* have taken nothing.                                                       *)
Undisturbed ==
  /\ \A u \in Threads : \A i \in DOMAIN stack[u] \intersect DOMAIN stack'[u] :
       stack'[u][i] = stack[u][i]
  /\ \A t \in Threads : call[t] # None =>
       /\ call'[t] = call[t]
       /\ \A u \in Threads : \A i \in DOMAIN stack[u] :
            Took(stack[u][i], call[t].part) => i \in DOMAIN stack'[u]
       /\ \A u \in Threads : \A i \in DOMAIN stack'[u] :
            Took(stack'[u][i], call[t].part) => i \in DOMAIN stack[u]
  /\ part_results' = part_results

LEMMA EnteringDisturbsNone ==
  ASSUME RInv, NEW t \in Threads, NEW o, o.is = "fake" => o.caught = <<>>,
         stack' = [stack EXCEPT ![t] = Append(@, o)], UNCHANGED reporting
  PROVE  Undisturbed
<1>1. /\ stack[t] \in Seq(Object) /\ stack'[t] = Append(stack[t], o)
      /\ \A u \in Threads : u # t => stack'[u] = stack[u]
  BY DEF RInv, Typed
<1>2. /\ DOMAIN stack[t] = 1 .. Len(stack[t]) /\ Len(stack[t]) \in Nat
      /\ DOMAIN stack'[t] = 1 .. Len(stack[t]) + 1
      /\ \A i \in DOMAIN stack[t] : stack'[t][i] = stack[t][i]
      /\ stack'[t][Len(stack[t]) + 1] = o
  BY <1>1
<1>3. \A n : ~Took(o, n)
  BY DEF Took
<1> QED
  BY <1>1, <1>2, <1>3 DEF Undisturbed, reporting

LEMMA LeavingDisturbsNone ==
  ASSUME RInv, NEW t \in Threads, Leave(t)
  PROVE  Undisturbed
<1> DEFINE o == Last(stack[t])
<1>1. /\ stack[t] # <<>> /\ call[t] = None /\ stack' = [stack EXCEPT ![t] = Front(@)]
      /\ UNCHANGED reporting
      /\ AnyFake(o) => \A u \in Threads : call[u] = None
  BY DEF Leave, AnyFake, Joined
<1>2. /\ stack[t] \in Seq(Object) /\ stack'[t] = Front(stack[t])
      /\ \A u \in Threads : u # t => stack'[u] = stack[u]
  BY <1>1 DEF RInv, Typed
<1>3. /\ Len(stack[t]) \in Nat \ {0} /\ DOMAIN stack[t] = 1 .. Len(stack[t])
      /\ DOMAIN Front(stack[t]) = 1 .. Len(stack[t]) - 1
      /\ \A i \in DOMAIN Front(stack[t]) : Front(stack[t])[i] = stack[t][i]
  BY <1>1, <1>2, PopFacts
<1>4. o = stack[t][Len(stack[t])] /\ Len(stack[t]) \in DOMAIN stack[t]
  BY <1>3 DEF Last
<1> HIDE DEF o
<1>5. ASSUME NEW u \in Threads, call[u] # None
      PROVE  ~Took(o, call[u].part)
  <2>1. OnItsWay(u) /\ u # t /\ ~AnyFake(o)
    BY <1>1, <1>5 DEF RInv, Routed
  <2> QED
    BY <1>4, <2>1 DEF OnItsWay, Untaken
<1>6. \A i \in DOMAIN stack[t] : i \in DOMAIN stack'[t] \/ stack[t][i] = o
  BY <1>2, <1>3, <1>4
<1>7. \A i \in DOMAIN stack'[t] : i \in DOMAIN stack[t] /\ stack'[t][i] = stack[t][i]
  BY <1>2, <1>3
<1>8. \A u \in Threads : \A i \in DOMAIN stack[u] : i \in DOMAIN stack'[u] \/ stack[u][i] = o
  BY <1>2, <1>6
<1> QED
  BY <1>1, <1>2, <1>5, <1>7, <1>8 DEF Undisturbed, reporting

LEMMA ReportingDisturbsNone ==
  ASSUME RInv, NEW t \in Threads, NEW type \in Types, AddTestPartResult(t, type)
  PROVE  Undisturbed
<1>1. \A u \in Threads : call[u] = None
  BY ReportersAssumption DEF AddTestPartResult, RInv, Calling
<1> QED
  BY <1>1 DEF AddTestPartResult, Undisturbed, objects

LEMMA OthersDisturbNone ==
  ASSUME UNCHANGED <<reporting, objects>>
  PROVE  Undisturbed
BY DEF Undisturbed, reporting, objects

LEMMA DisturbsOrReports ==
  ASSUME RInv, Next
  PROVE  Undisturbed \/ \E t \in Threads : ReportStep(t)
<1>1. ASSUME NEW t \in Threads, NEW wants \in {"NonFatal", "Fatal"}, NEW all \in BOOLEAN,
             EnterFake(t, wants, all)
      PROVE  Undisturbed
  <2> DEFINE o == [is |-> "fake", id |-> NewId, old |-> IF all THEN global ELSE per_thread[t],
                   all |-> all, wants |-> wants, caught |-> <<>>]
  <2>1. stack' = [stack EXCEPT ![t] = Append(@, o)] /\ UNCHANGED reporting /\ o.caught = <<>>
    BY <1>1 DEF EnterFake
  <2> QED
    BY <2>1, EnteringDisturbsNone
<1>2. ASSUME NEW t \in Threads, EnterHelper(t)
      PROVE  Undisturbed
  <2> DEFINE o == [is |-> "helper", id |-> NewId, old |-> per_thread[t], seen |-> FALSE]
  <2>1. stack' = [stack EXCEPT ![t] = Append(@, o)] /\ UNCHANGED reporting /\ o.is # "fake"
    BY <1>2 DEF EnterHelper
  <2> QED
    BY <2>1, EnteringDisturbsNone
<1>3. ASSUME NEW t \in Threads, EnterTrace(t)
      PROVE  Undisturbed
  <2> DEFINE o == [is |-> "trace", id |-> NewId]
  <2>1. stack' = [stack EXCEPT ![t] = Append(@, o)] /\ UNCHANGED reporting /\ o.is # "fake"
    BY <1>3 DEF EnterTrace
  <2> QED
    BY <2>1, EnteringDisturbsNone
<1>4. ASSUME NEW t \in Threads, Catch(t)
      PROVE  Undisturbed
  BY <1>4, OthersDisturbNone DEF Catch
<1>5. ASSUME NEW l, AppendListener(l) \/ Release(l) \/ SetDefaultResultPrinter(l)
      PROVE  Undisturbed
  BY <1>5, OthersDisturbNone DEF AppendListener, Release, SetDefaultResultPrinter
<1> QED
  BY <1>1, <1>2, <1>3, <1>4, <1>5, LeavingDisturbsNone, ReportingDisturbsNone DEF Next

(* Such a step gives no result to anyone, and shows it to nobody. *)
LEMMA UndisturbedIsSound ==
  ASSUME RInv, Undisturbed
  PROVE  Delivers /\ Sees
<1>1. ASSUME NEW t \in Threads, NEW n, call[t] # None, call[t].part = n
      PROVE  TakenBy(n)' = TakenBy(n) /\ call'[t] # None
  <2>1. \A u \in Threads : \A i \in DOMAIN stack[u] :
          Took(stack[u][i], n) => i \in DOMAIN stack'[u] /\ stack'[u][i] = stack[u][i]
    BY <1>1 DEF Undisturbed
  <2>2. \A u \in Threads : \A i \in DOMAIN stack'[u] :
          Took(stack'[u][i], n) => i \in DOMAIN stack[u] /\ stack'[u][i] = stack[u][i]
    BY <1>1 DEF Undisturbed
  <2>3. Kept(n)' <=> Kept(n)
    BY DEF Kept, Undisturbed
  <2>4. \A x : x \in TakenBy(n)' <=> x \in TakenBy(n)
    BY <2>1, <2>2, <2>3, TakenByIs
  <2>5. TakenBy(n)' = TakenBy(n)
    BY <2>4
  <2> QED
    BY <1>1, <2>5 DEF Undisturbed
<1>2. Delivers
  BY <1>1 DEF Delivers
<1>3. Sees
  BY DEF Sees, Undisturbed
<1> QED
  BY <1>2, <1>3

LEMMA ReportStepIsSound ==
  ASSUME RInv, NEW t \in Threads, ReportStep(t)
  PROVE  Delivers /\ Sees
<1>1. call[t] # None
  BY DEF ReportStep, ReportPerThread, ReportGlobal, Broadcast, ReportObject, EndReport
<1> PICK n \in Nat : n = call[t].part
  BY <1>1, CallIsReport DEF RInv
<1>2. \A u \in Threads : call[u] # None => u = t
  BY <1>1, OneReports DEF RInv
<1>3. SUFFICES /\ TakenBy(n)' # TakenBy(n) =>
                    /\ TakenBy(n) = {} /\ Cardinality(TakenBy(n)') = 1
                    /\ TakenBy(n)' = Due(t)
               /\ call'[t] = None => TakenBy(n) # {}
               /\ Sees
  BY <1>2, <1>3 DEF Delivers
<1>4. ASSUME stack' = stack, part_results' = part_results
      PROVE  TakenBy(n)' = TakenBy(n)
  <2>1. \A x : x \in TakenBy(n)' <=> x \in TakenBy(n)
    BY <1>4, TakenByIs DEF Kept
  <2> QED
    BY <2>1
<1>5. ASSUME stack' = stack, call'[t] # None
      PROVE  Sees
  BY <1>2, <1>5 DEF Sees
<1>6. ASSUME NEW r \in Int, PassOn(t, r)
      PROVE  call'[t] # None
  <2>1. call[t] \in Report /\ [call[t] EXCEPT !.to = r] \in Report /\ call \in [Threads -> Report \union {None}]
    BY <1>1, <1>6, CallIsReport DEF RInv, Typed, Report
  <2>2. call'[t] = [call[t] EXCEPT !.to = r]
    BY <1>6, <2>1 DEF PassOn
  <2> QED
    BY <2>1, <2>2, ReportersAssumption
<1>7. ASSUME Untaken(n)
      PROVE  TakenBy(n) = {}
  <2>1. \A x : x \notin TakenBy(n)
    BY <1>7, TakenByIs DEF Untaken
  <2> QED
    BY <2>1
<1>8. CASE ReportPerThread(t)
  <2>1. stack' = stack /\ part_results' = part_results /\ PassOn(t, global) /\ global \in Int
    BY <1>8 DEF ReportPerThread, objects, RInv, Typed
  <2> QED
    BY <1>4, <1>5, <1>6, <2>1
<1>9. CASE ReportGlobal(t)
  <2>1. /\ stack' = stack /\ part_results' = Append(part_results, n) /\ PassOn(t, Repeater)
        /\ Repeater \in Int /\ call[t].to = Global
    BY <1>9 DEF ReportGlobal, objects, Repeater
  <2>2. Clear(t, 0) /\ Untaken(n) /\ OfAll(stack[Main]) = {}
    BY <1>1, <2>1, WayIsOne
  <2>3. Kept(n)'
    <3>1. part_results \in Seq(Nat)
      BY DEF RInv, Typed
    <3>2. Len(part_results) + 1 \in DOMAIN part_results' /\ part_results'[Len(part_results) + 1] = n
      BY <2>1, <3>1
    <3> QED
      BY <3>2 DEF Kept
  <2>4. \A x : x \in TakenBy(n)' <=> x = Global
    BY <2>1, <2>2, <2>3, TakenByIs DEF Untaken
  <2>5. TakenBy(n)' = {Global}
    BY <2>4
  <2>6. {i \in DOMAIN stack[t] : OwnFake(stack[t][i])} = {}
    <3>1. stack[t] \in Seq(Object)
      BY DEF RInv, Typed
    <3> QED
      BY <2>2, <3>1 DEF Clear
  <2>7. Due(t) = {Global}
    BY <2>2, <2>6 DEF Due, OfAll
  <2> QED
    BY <1>5, <1>6, <1>7, <2>1, <2>2, <2>5, <2>7, FS_Singleton
<1>10. CASE Broadcast(t)
  <2>1. stack' = stack /\ part_results' = part_results /\ PassOn(t, Done) /\ Done \in Int
    BY <1>10 DEF Broadcast, objects, Done
  <2> QED
    BY <1>4, <1>5, <1>6, <2>1
<1>11. CASE EndReport(t)
  <2>1. stack' = stack /\ part_results' = part_results /\ call[t].to = Done
    BY <1>11 DEF EndReport, objects
  <2>2. ~Untaken(n)
    BY <1>1, <2>1, WayIsOne
  <2>3. \E x : x \in TakenBy(n)
    BY <2>2, TakenByIs DEF Untaken
  <2>4. Sees
    <3>1. \A k \in Own(stack[t]) : call[t].to # stack[t][k].id
      BY <2>1, DefaultsApart DEF RInv, Own
    <3>2. ASSUME NEW i \in DOMAIN stack[t], stack[t][i].is = "helper", parts[call[t].part] = "Fatal",
                 \A j \in DOMAIN stack[t] : j > i => ~OwnFake(stack[t][j])
          PROVE  stack[t][i].seen
      <4>1. stack[t] \in Seq(Object)
        BY DEF RInv, Typed
      <4>2. Clear(t, i)
        BY <3>2, <4>1 DEF Clear
      <4> QED
        BY <1>1, <3>1, <3>2, <4>2 DEF RInv, Asked
    <3> QED
      BY <1>2, <2>1, <3>2 DEF Sees
  <2> QED
    BY <1>4, <2>1, <2>3, <2>4
<1>12. CASE ReportObject(t)
  <2>1. PICK u \in Threads, i \in Nat :
          /\ i \in DOMAIN stack[u]
          /\ stack[u][i].id = call[t].to
          /\ IF stack[u][i].is = "fake"
             THEN /\ stack' = [stack EXCEPT ![u][i].caught = Append(@, n)]
                  /\ PassOn(t, Done)
             ELSE /\ stack' = [stack EXCEPT ![u][i].seen = SawFatal(stack[u][i], n)]
                  /\ PassOn(t, OriginalReporter(t, stack[u][i]))
          /\ part_results' = part_results
    <3>1. \A u \in Threads : DOMAIN stack[u] \subseteq Nat
      BY DEF RInv, Typed
    <3> QED
      BY <1>12, <3>1 DEF ReportObject
  <2> DEFINE o == stack[u][i]
  <2>2. o \in Object /\ stack \in [Threads -> Seq(Object)]
    BY <2>1 DEF RInv, Typed
  <2>3. /\ Untaken(n)
        /\ \/ u = t /\ i \in Own(stack[t]) /\ Clear(t, i)
           \/ /\ u = Main /\ i \in OfAll(stack[Main]) /\ Clear(t, 0)
              /\ \A j \in OfAll(stack[Main]) : j <= i
    BY <1>1, <2>1, CalledObject
  <2>4. o.is \in {"fake", "helper"} /\ (o.is = "fake" => o \in Fake) /\ (o.is = "helper" => o \in Helper)
    BY <2>2, <2>3, ObjectFields DEF Own, OfAll, OwnFake, AnyFake
  <2>5. TakenBy(n) = {}
    BY <1>7, <2>3
  <2>6. stack[t] \in Seq(Object)
    BY <2>2
  <2>7. CASE o.is = "fake"
    <3> DEFINE p == [o EXCEPT !.caught = Append(@, n)]
    <3>1. /\ p.is = "fake" /\ p.id = o.id /\ p.all = o.all
          /\ p.caught = Append(o.caught, n) /\ o.caught \in Seq(Nat)
      BY <2>4, <2>7, FakeCatches DEF Fake
    <3>2. stack' = [stack EXCEPT ![u] = [@ EXCEPT ![i] = p]] /\ PassOn(t, Done) /\ Done \in Int
      BY <2>1, <2>7 DEF Done
    <3> HIDE DEF p, o
    <3>3. /\ \A v \in Threads : DOMAIN stack'[v] = DOMAIN stack[v]
          /\ \A v \in Threads : \A j \in DOMAIN stack[v] : v # u \/ j # i => stack'[v][j] = stack[v][j]
          /\ stack'[u][i] = p
      BY <2>1, <2>2, <3>2
    <3>4. Took(p, n)
      <4>1. Len(p.caught) \in DOMAIN p.caught /\ p.caught[Len(p.caught)] = n
        BY <3>1
      <4> QED
        BY <3>1, <4>1 DEF Took
    <3>5. \A v \in Threads : \A j \in DOMAIN stack'[v] : Took(stack'[v][j], n) <=> v = u /\ j = i
      BY <2>3, <3>3, <3>4 DEF Untaken
    <3>6. ~Kept(n)'
      BY <2>1, <2>3 DEF Untaken, Kept
    <3>7. \A x : x \in TakenBy(n)' <=> x = p.id
      BY <2>1, <3>3, <3>5, <3>6, TakenByIs
    <3>8. TakenBy(n)' = {p.id}
      BY <3>7
    <3>9. Due(t) = {p.id}
      <4>1. CASE u = t /\ i \in Own(stack[t]) /\ Clear(t, i)
        <5> DEFINE mine == {j \in DOMAIN stack[t] : OwnFake(stack[t][j])}
        <5>1. i \in mine
          BY <2>7, <4>1 DEF Own, o
        <5>2. \A k \in mine : k <= i
          BY <2>6, <4>1 DEF Clear
        <5>3. p.id = stack[t][i].id
          BY <3>1, <4>1 DEF o
        <5>4. {j \in mine : \A k \in mine : k <= j} = {i}
          BY <2>6, <5>1, <5>2
        <5> QED
          BY <5>1, <5>3, <5>4 DEF Due
      <4>2. CASE /\ u = Main /\ i \in OfAll(stack[Main]) /\ Clear(t, 0)
                 /\ \A j \in OfAll(stack[Main]) : j <= i
        <5> DEFINE everyones == {j \in DOMAIN stack[Main] : AnyFake(stack[Main][j])}
        <5>1. {j \in DOMAIN stack[t] : OwnFake(stack[t][j])} = {}
          BY <2>6, <4>2 DEF Clear
        <5>2. everyones = OfAll(stack[Main]) /\ p.id = stack[Main][i].id
          BY <3>1, <4>2 DEF OfAll, o
        <5>3. \A j \in everyones : j \in Nat
          BY <2>2, ReportersAssumption
        <5>4. {j \in everyones : \A k \in everyones : k <= j} = {i}
          BY <4>2, <5>2, <5>3
        <5> QED
          BY <4>2, <5>1, <5>2, <5>4 DEF Due
      <4> QED
        BY <2>3, <4>1, <4>2
    <3>10. Sees
      <4>1. ASSUME NEW v \in Threads, NEW j \in DOMAIN stack[v], stack[v][j].is = "helper"
            PROVE  stack'[v][j] = stack[v][j]
        BY <2>7, <3>3, <4>1 DEF o
      <4>2. call'[t] # None
        BY <1>6, <3>2
      <4> QED
        BY <1>2, <4>1, <4>2 DEF Sees
    <3> QED
      BY <1>6, <2>5, <3>2, <3>8, <3>9, <3>10, FS_Singleton
  <2>8. CASE o.is = "helper"
    <3> DEFINE b == SawFatal(o, n)
               p == [o EXCEPT !.seen = b]
    <3>1. b \in BOOLEAN /\ o.old \in Int
      BY <2>2, <2>4, <2>8, ObjectFields DEF SawFatal, Helper
    <3>2. p.is = "helper" /\ p.id = o.id /\ p.seen = b
      BY <2>4, <2>8, <3>1, HelperSees
    <3>3. stack' = [stack EXCEPT ![u] = [@ EXCEPT ![i] = p]] /\ PassOn(t, o.old)
      BY <2>1, <2>8 DEF OriginalReporter
    <3> HIDE DEF b, p, o
    <3>4. /\ \A v \in Threads : DOMAIN stack'[v] = DOMAIN stack[v]
          /\ \A v \in Threads : \A j \in DOMAIN stack[v] : v # u \/ j # i => stack'[v][j] = stack[v][j]
          /\ stack'[u][i] = p
      BY <2>1, <2>2, <3>3
    <3>5. \A v \in Threads : \A j \in DOMAIN stack'[v] : ~Took(stack'[v][j], n)
      BY <2>3, <3>2, <3>4 DEF Untaken, Took
    <3>6. ~Kept(n)'
      BY <2>1, <2>3 DEF Untaken, Kept
    <3>7. \A x : x \notin TakenBy(n)'
      BY <3>5, <3>6, TakenByIs
    <3>8. TakenBy(n)' = TakenBy(n)
      BY <2>5, <3>7
    <3>9. u = t /\ Clear(t, i)
      BY <2>3, <2>8 DEF OfAll, AnyFake, o
    <3>10. call'[t] # None
      BY <1>6, <3>1, <3>3
    <3>11. o.seen # p.seen => parts[n] = "Fatal" /\ p.seen
      <4>1. o.seen \in BOOLEAN /\ (b <=> o.seen \/ parts[n] = "Fatal")
        BY <2>4, <2>8 DEF b, SawFatal, Helper
      <4> QED
        BY <3>1, <3>2, <4>1
    <3>12. \A j \in DOMAIN stack[t] : j > i => ~OwnFake(stack[t][j])
      BY <2>6, <3>9 DEF Clear
    <3>13. ASSUME NEW v \in Threads, NEW j \in DOMAIN stack[v], stack[v][j].seen # stack'[v][j].seen
           PROVE  v = t /\ j = i /\ parts[n] = "Fatal" /\ stack'[v][j].seen
      BY <3>4, <3>9, <3>11, <3>13 DEF o
    <3>14. Sees
      BY <1>1, <1>2, <3>10, <3>12, <3>13 DEF Sees
    <3> QED
      BY <3>8, <3>10, <3>14
  <2> QED
    BY <2>4, <2>7, <2>8
<1> QED
  BY <1>8, <1>9, <1>10, <1>11, <1>12 DEF ReportStep

(* Every result is taken once, by the innermost of its own thread's          *)
(* EXPECT_..._FAILURE()s if it has one, and every ASSERT_NO_FATAL_FAILURE()   *)
(* that a fatal failure concerns sees it, and no other.                      *)
THEOREM TakenAndSeen == Spec => ResultsTaken
<1>1. RInv /\ [Next]_vars => [Delivers]_vars /\ [Sees]_vars
  BY DisturbsOrReports, UndisturbedIsSound, ReportStepIsSound
<1>2. Spec => [][Delivers]_vars /\ [][Sees]_vars
  BY <1>1, Invariant, PTL DEF Spec
<1> QED
  BY <1>2 DEF ResultsTaken, DeliveredToInnermost, FatalSeen

--------------------------------------------------------------------------------
(* Recursion over numbers *)

(* A set of numbers that is not empty has a least member. *)
LEMMA Least ==
  ASSUME NEW T, T \subseteq Nat, T # {}
  PROVE  \E x \in T : \A y \in T : x <= y
<1> DEFINE R == OpToRel(<, Nat)
<1>1. IsWellFoundedOn(R, Nat)
  BY NatLessThanWellFounded
<1> HIDE DEF R
<1>2. PICK x \in T : \A y \in T : ~ (<<y, x>> \in R)
  BY <1>1, WFMin
<1>3. \A y \in T : ~ (y < x)
  BY <1>2, Zenon DEF OpToRel, R
<1> QED BY <1>3

(* Who climbs from 0, and from every number below n to the next, reaches n. *)
LEMMA Climb ==
  ASSUME NEW n \in Nat, NEW S, 0 \in S, \A k \in 0 .. n - 1 : k \in S => k + 1 \in S
  PROVE  0 .. n \subseteq S
<1> SUFFICES ASSUME (0 .. n) \ S # {} PROVE FALSE
  OBVIOUS
<1>1. PICK x \in (0 .. n) \ S : \A y \in (0 .. n) \ S : x <= y
  BY Least, (0 .. n) \ S \subseteq Nat
<1>2. x # 0 /\ x - 1 \in 0 .. n - 1 /\ x - 1 \in S
  BY <1>1
<1>3. (x - 1) + 1 \in S
  BY <1>2
<1> QED BY <1>1, <1>3

(* A recursion whose steps stay in D defines a function, whose values are in D. *)
Recursive(n, D, a, G) ==
  \E f \in [0 .. n -> D] : f[0] = a /\ \A k \in 1 .. n : f[k] = G[k][f[k - 1]]

(* There is such a function. *)
LEMMA Recursion ==
  ASSUME NEW n \in Nat, NEW D, NEW a \in D, NEW G \in [1 .. n -> [D -> D]]
  PROVE  Recursive(n, D, a, G)
<1> DEFINE Goes(m, f) == f[0] = a /\ \A k \in 1 .. m : f[k] = G[k][f[k - 1]]
           S == {m \in 0 .. n : \E f \in [0 .. m -> D] : Goes(m, f)}
<1>1. 0 \in S
  <2>1. [k \in 0 .. 0 |-> a] \in [0 .. 0 -> D] /\ Goes(0, [k \in 0 .. 0 |-> a])
    OBVIOUS
  <2> HIDE DEF Goes
  <2> QED BY <2>1
<1>2. ASSUME NEW m \in 0 .. n - 1, m \in S PROVE m + 1 \in S
  <2>1. PICK f \in [0 .. m -> D] : Goes(m, f)
    BY <1>2
  <2> DEFINE g == [k \in 0 .. m + 1 |-> IF k = m + 1 THEN G[m + 1][f[m]] ELSE f[k]]
  <2>2. g \in [0 .. m + 1 -> D]
    <3>1. m + 1 \in 1 .. n /\ f[m] \in D
      OBVIOUS
    <3>2. G[m + 1][f[m]] \in D
      BY <3>1
    <3>3. \A k \in 0 .. m + 1 : k # m + 1 => f[k] \in D
      OBVIOUS
    <3> QED BY <3>2, <3>3
  <2>3. g[0] = a
    BY <2>1
  <2>4. ASSUME NEW k \in 1 .. m + 1 PROVE g[k] = G[k][g[k - 1]]
    <3>1. g[k - 1] = f[k - 1]
      OBVIOUS
    <3>2. CASE k = m + 1
      BY <3>1, <3>2
    <3>3. CASE k # m + 1
      BY <2>1, <3>1, <3>3
    <3> QED BY <3>2, <3>3
  <2> HIDE DEF g
  <2>5. Goes(m + 1, g)
    BY <2>3, <2>4
  <2> QED BY <2>2, <2>5
<1>3. n \in S
  <2> HIDE DEF S
  <2>1. 0 .. n \subseteq S
    BY <1>1, <1>2, Climb
  <2> QED BY <2>1
<1> QED BY <1>3 DEF Recursive
--------------------------------------------------------------------------------
(* Path names *)

(* A path name is a sequence of the characters in it. *)
LEMMA PathShape ==
  ASSUME NEW path, IsPath(path)
  PROVE  /\ Len(path) \in Nat /\ DOMAIN path = 1 .. Len(path) /\ path \in Seq(Range(path))
         /\ \A n \in 1 .. Len(path) : path[n] \in Range(path)
BY LenProperties DEF IsPath, Range

(* Sequences over any set are path names. *)
LEMMA AnyPath ==
  ASSUME NEW S, NEW path \in Seq(S)
  PROVE  IsPath(path) /\ Range(path) \subseteq S
<1>1. Len(path) \in Nat /\ DOMAIN path = 1 .. Len(path) /\ path = [n \in 1 .. Len(path) |-> path[n]]
      /\ \A n \in 1 .. Len(path) : path[n] \in S
  BY LenProperties, ElementOfSeq
<1>2. path \in [1 .. Len(path) -> Range(path)]
  BY <1>1 DEF Range
<1>3. path \in Seq(Range(path))
  BY <1>1, <1>2, IsASeq
<1> QED BY <1>1, <1>3 DEF IsPath, Range

Beginning == [names |-> <<>>, name |-> <<>>]
WaysOver(S) == [names : Seq(Seq(S)), name : Seq(S)]

(* On the way, names are over the characters read. *)
LEMMA FurtherOver ==
  ASSUME NEW S, NEW way \in WaysOver(S)
  PROVE  Named(way) \in Seq(Seq(S)) /\ \A c \in S : Further(way, c) \in WaysOver(S)
<1>1. way.names \in Seq(Seq(S)) /\ way.name \in Seq(S)
  BY DEF WaysOver
<1>2. Append(way.names, way.name) \in Seq(Seq(S)) /\ \A c \in S : Append(way.name, c) \in Seq(S)
  BY <1>1, AppendProperties
<1>3. Named(way) \in Seq(Seq(S))
  BY <1>1, <1>2 DEF Named
<1>4. <<>> \in Seq(S)
  BY EmptySeq
<1> QED BY <1>1, <1>2, <1>3, <1>4 DEF Further, WaysOver

(* The recursion of Ways defines it. *)
LEMMA WaysGo ==
  ASSUME NEW path, IsPath(path)
  PROVE  /\ Ways(path)[0] = Beginning
         /\ \A n \in 1 .. Len(path) : Ways(path)[n] = Further(Ways(path)[n - 1], path[n])
         /\ \A n \in 0 .. Len(path) : Ways(path)[n] \in WaysOver(Range(path))
<1> DEFINE N == Len(path)
           D == WaysOver(Range(path))
           G == [k \in 1 .. N |-> [x \in D |-> Further(x, path[k])]]
           W == Ways(path)
<1>0. N \in Nat /\ \A n \in 1 .. N : path[n] \in Range(path)
  BY PathShape
<1>1. \A k \in 1 .. N : \A x \in D : Further(x, path[k]) \in D
  BY <1>0, FurtherOver
<1>2. Beginning \in D
  BY EmptySeq DEF WaysOver, Beginning
<1> HIDE DEF N, D
<1>3. G \in [1 .. N -> [D -> D]]
  BY <1>1
<1>4. PICK f \in [0 .. N -> D] : f[0] = Beginning /\ \A k \in 1 .. N : f[k] = G[k][f[k - 1]]
  <2> HIDE DEF G
  <2>1. Recursive(N, D, Beginning, G)
    BY <1>0, <1>2, <1>3, Recursion
  <2> QED BY <2>1 DEF Recursive
<1>5. \A k \in 1 .. N : k - 1 \in 0 .. N /\ k \in 0 .. N
  BY <1>0
<1>6. \A k \in 1 .. N : G[k][f[k - 1]] = Further(f[k - 1], path[k])
  BY <1>5
<1> HIDE DEF G
<1>7. f = [k \in 0 .. N |-> IF k = 0 THEN Beginning ELSE Further(f[k - 1], path[k])]
  <2>1. \A k \in 0 .. N : k # 0 => k \in 1 .. N
    BY <1>0
  <2> QED BY <1>4, <1>6, <2>1
<1>8. W = CHOOSE h : h = [k \in 0 .. N |-> IF k = 0 THEN Beginning ELSE Further(h[k - 1], path[k])]
  BY DEF Ways, N, Beginning
<1>9. W = [k \in 0 .. N |-> IF k = 0 THEN Beginning ELSE Further(W[k - 1], path[k])]
  <2> HIDE DEF W
  <2> QED BY <1>7, <1>8
<1> HIDE DEF W
<1>10. W[0] = Beginning /\ \A n \in 1 .. N : W[n] = Further(W[n - 1], path[n])
  BY <1>0, <1>5, <1>9
<1> DEFINE S == {k \in 0 .. N : W[k] \in D}
<1>11. 0 \in S
  BY <1>0, <1>2, <1>10
<1>12. ASSUME NEW k \in 0 .. N - 1, k \in S PROVE k + 1 \in S
  <2>1. k + 1 \in 1 .. N /\ k + 1 \in 0 .. N /\ (k + 1) - 1 = k
    BY <1>0
  <2>2. W[k + 1] = Further(W[k], path[k + 1]) /\ W[k] \in D
    BY <1>10, <1>12, <2>1
  <2> QED BY <1>1, <2>1, <2>2
<1>13. 0 .. N \subseteq S
  <2> HIDE DEF S
  <2> QED BY <1>0, <1>11, <1>12, Climb
<1> QED BY <1>10, <1>13 DEF N, D, W

(* The names on the way do not depend on what comes after. *)
LEMMA WaysAlike ==
  ASSUME NEW path, IsPath(path), NEW m \in 0 .. Len(path)
  PROVE  /\ IsPath(SubSeq(path, 1, m)) /\ Len(SubSeq(path, 1, m)) = m
         /\ \A n \in 1 .. m : SubSeq(path, 1, m)[n] = path[n]
         /\ Ways(SubSeq(path, 1, m))[m] = Ways(path)[m]
<1> DEFINE q == SubSeq(path, 1, m)
<1>0. Len(path) \in Nat /\ m \in Nat /\ path \in Seq(Range(path)) /\ \A n \in 1 .. Len(path) : path[n] \in Range(path)
  BY PathShape
<1>1. q \in Seq(Range(path)) /\ Len(q) = m /\ \A n \in 1 .. m : q[n] = path[n]
  BY <1>0, SubSeqProperties
<1>2. IsPath(q)
  BY <1>1, AnyPath
<1> HIDE DEF q
<1> DEFINE S == {n \in 0 .. m : Ways(q)[n] = Ways(path)[n]}
<1>3. 0 \in S
  BY <1>0, <1>2, WaysGo
<1>4. ASSUME NEW k \in 0 .. m - 1, k \in S PROVE k + 1 \in S
  <2>1. k + 1 \in 1 .. m /\ k + 1 \in 1 .. Len(path) /\ k + 1 \in 0 .. m /\ (k + 1) - 1 = k
    BY <1>0
  <2>2. Ways(q)[k + 1] = Further(Ways(q)[k], q[k + 1])
    BY <1>1, <1>2, <2>1, WaysGo
  <2>3. Ways(path)[k + 1] = Further(Ways(path)[k], path[k + 1])
    BY <2>1, WaysGo
  <2> QED BY <1>1, <1>4, <2>1, <2>2, <2>3
<1>5. 0 .. m \subseteq S
  <2> HIDE DEF S
  <2> QED BY <1>0, <1>3, <1>4, Climb
<1> QED BY <1>0, <1>1, <1>2, <1>5 DEF q

(* A separator at the end changes nothing. *)
LEMMA NodeTrailing ==
  ASSUME NEW path, IsPath(path)
  PROVE  IsPath(RemoveTrailingPathSeparator(path)) /\ Node(RemoveTrailingPathSeparator(path)) = Node(path)
<1> SUFFICES ASSUME IsDirectory(path)
             PROVE  IsPath(Front(path)) /\ Node(Front(path)) = Node(path)
  BY DEF RemoveTrailingPathSeparator
<1> DEFINE N == Len(path)
           W == Ways(path)
<1>1. N \in Nat /\ N # 0 /\ path[N] = Separator
  BY PathShape, EmptySeq DEF IsDirectory, Last
<1>2. Front(path) = SubSeq(path, 1, N - 1) /\ N - 1 \in 0 .. N /\ N \in 1 .. N
  BY <1>1 DEF Front
<1>3. IsPath(Front(path)) /\ Len(Front(path)) = N - 1 /\ Ways(Front(path))[N - 1] = W[N - 1]
  BY <1>2, WaysAlike
<1>4. W[N] = Further(W[N - 1], Separator)
  BY <1>1, <1>2, WaysGo
<1> HIDE DEF W, N
<1>5. Named(W[N]) = Named(W[N - 1])
  BY <1>4 DEF Further, Named
<1> QED BY <1>3, <1>5 DEF Node, N, W

(* Where the last separator is *)
LEMMA LastSeparator ==
  ASSUME NEW path, IsPath(path)
  PROVE  /\ FindLastPathSeparator(path) \in 0 .. Len(path)
         /\ FindLastPathSeparator(path) # 0 => path[FindLastPathSeparator(path)] = Separator
         /\ \A n \in 1 .. Len(path) : n > FindLastPathSeparator(path) => path[n] # Separator
<1> DEFINE N == Len(path)
           seps == {k \in DOMAIN path : path[k] = Separator}
<1>1. N \in Nat /\ DOMAIN path = 1 .. N
  BY PathShape
<1>2. CASE seps = {}
  BY <1>1, <1>2 DEF FindLastPathSeparator
<1>3. CASE seps # {}
  <2> DEFINE T == {N - k : k \in seps}
  <2>1. T \subseteq Nat /\ T # {}
    BY <1>1, <1>3
  <2>2. PICK x \in T : \A y \in T : x <= y
    <3> HIDE DEF T
    <3> QED BY <2>1, Least
  <2>3. PICK s \in seps : x = N - s
    BY <2>2
  <2>4. ASSUME NEW k \in seps PROVE k <= s
    <3>1. N - k \in T /\ N - s <= N - k /\ k \in Nat /\ s \in Nat
      BY <1>1, <2>2, <2>3
    <3> QED BY <1>1, <3>1
  <2>5. FindLastPathSeparator(path) = CHOOSE k \in seps : \A j \in seps : j <= k
    BY <1>3 DEF FindLastPathSeparator
  <2>6. FindLastPathSeparator(path) \in seps /\ \A j \in seps : j <= FindLastPathSeparator(path)
    <3> HIDE DEF seps
    <3> QED BY <2>4, <2>5
  <2> QED BY <1>1, <2>6
<1> QED BY <1>2, <1>3

(* What is appended is last. *)
LEMMA FrontOfAppend ==
  ASSUME NEW S, NEW s \in Seq(S), NEW e \in S
  PROVE  Front(Append(s, e)) = s
<1>1. Len(Append(s, e)) = Len(s) + 1 /\ Append(s, e) \in Seq(S) /\ Len(s) \in Nat
      /\ \A k \in 1 .. Len(s) : Append(s, e)[k] = s[k]
  BY AppendProperties, LenProperties
<1> DEFINE t == SubSeq(Append(s, e), 1, Len(s))
<1>2. Front(Append(s, e)) = t
  BY <1>1 DEF Front
<1>3. t \in Seq(S) /\ Len(t) = Len(s) /\ \A k \in 1 .. Len(s) : t[k] = s[k]
  BY <1>1, SubSeqProperties
<1> HIDE DEF t
<1> QED BY <1>2, <1>3, SeqEqual

(* "./" leads nowhere. *)
LEMMA CurrentDirectoryNode == IsPath(kCurrentDirectoryString) /\ Node(kCurrentDirectoryString) = <<>>
<1> DEFINE path == <<".", Separator>>
<1>1. Len(path) = 2 /\ path[1] = "." /\ path[2] = Separator /\ path \in Seq({".", Separator})
  OBVIOUS
<1>2. IsPath(path)
  BY <1>1, AnyPath
<1>3. kCurrentDirectoryString = path
  BY DEF kCurrentDirectoryString
<1> HIDE DEF path
<1>4. Ways(path)[0] = Beginning /\ Ways(path)[1] = Further(Ways(path)[0], ".") /\ Ways(path)[2] = Further(Ways(path)[1], Separator)
  <2>1. \A n \in 1 .. 2 : Ways(path)[n] = Further(Ways(path)[n - 1], path[n])
    BY <1>1, <1>2, WaysGo
  <2>2. Ways(path)[0] = Beginning
    BY <1>2, WaysGo
  <2>3. 1 \in 1 .. 2 /\ 2 \in 1 .. 2 /\ 1 - 1 = 0 /\ 2 - 1 = 1
    OBVIOUS
  <2> QED BY <1>1, <2>1, <2>2, <2>3
<1>5. Ways(path)[1] = [names |-> <<>>, name |-> <<".">>]
  <2>1. "." # Separator /\ Append(<<>>, ".") = <<".">>
    BY DEF Separator
  <2> QED BY <1>4, <2>1 DEF Further, Beginning
<1>6. Ways(path)[2] = [names |-> <<>>, name |-> <<>>]
  <2>1. Named(Ways(path)[1]) = <<>>
    BY <1>5 DEF Named
  <2> QED BY <1>4, <2>1 DEF Further
<1>7. Named(Ways(path)[2]) = <<>>
  BY <1>6 DEF Named
<1> QED BY <1>1, <1>2, <1>3, <1>7 DEF Node

(* The folder of a path is where the path leads, or the one around it. *)
LEMMA NodeParent ==
  ASSUME NEW path, IsPath(path)
  PROVE  /\ IsPath(RemoveFileName(path))
         /\ Node(RemoveFileName(path)) \in {Node(path), Front(Node(path))}
<1> DEFINE N == Len(path)
           d == FindLastPathSeparator(path)
           W == Ways(path)
           names == IF d = 0 THEN <<>> ELSE W[d].names
<1>0. N \in Nat /\ d \in 0 .. N /\ d \in Nat
  BY PathShape, LastSeparator
<1>1. W[d].names = names /\ W[d].name = <<>>
  <2>1. CASE d = 0
    BY <2>1, WaysGo DEF Beginning
  <2>2. CASE d # 0
    <3>1. path[d] = Separator /\ d \in 1 .. N
      BY <1>0, <2>2, LastSeparator
    <3>2. W[d] = Further(W[d - 1], Separator)
      BY <3>1, WaysGo
    <3> HIDE DEF W, d
    <3> QED BY <2>2, <3>2 DEF Further
  <2> QED BY <2>1, <2>2
<1>2. W[N].names = names
  <2> DEFINE S == {n \in 0 .. N : n >= d => W[n].names = names}
  <2>1. 0 \in S
    BY <1>0, <1>1
  <2>2. ASSUME NEW k \in 0 .. N - 1, k \in S PROVE k + 1 \in S
    <3>1. k + 1 \in 1 .. N /\ k + 1 \in 0 .. N /\ (k + 1) - 1 = k
      BY <1>0
    <3>2. CASE k + 1 > d
      <4>1. path[k + 1] # Separator
        BY <3>1, <3>2, LastSeparator
      <4>2. W[k + 1] = Further(W[k], path[k + 1])
        BY <3>1, WaysGo
      <4>3. W[k + 1].names = W[k].names
        <5> HIDE DEF W
        <5> QED BY <4>1, <4>2 DEF Further
      <4>4. W[k].names = names
        BY <1>0, <2>2, <3>2
      <4> HIDE DEF W, d, names
      <4> QED BY <3>1, <4>3, <4>4
    <3>3. CASE ~ (k + 1 > d)
      <4>1. k + 1 >= d => k + 1 = d
        BY <1>0, <3>1, <3>3
      <4> HIDE DEF W, d, names
      <4> QED BY <1>1, <3>1, <4>1
    <3> QED BY <3>2, <3>3
  <2>3. 0 .. N \subseteq S
    <3> HIDE DEF S
    <3> QED BY <1>0, <2>1, <2>2, Climb
  <2> QED BY <1>0, <2>3
<1>3. names \in Seq(Seq(Range(path))) /\ W[N].name \in Seq(Range(path))
  <2>1. W[N] \in WaysOver(Range(path))
    BY <1>0, WaysGo
  <2> HIDE DEF W, names
  <2> QED BY <1>2, <2>1 DEF WaysOver
<1>4. Node(path) = names \/ Front(Node(path)) = names
  <2> HIDE DEF W, names, d
  <2>1. Node(path) = Named(W[N])
    BY DEF Node, W
  <2>2. Node(path) \in {names, Append(names, W[N].name)}
    BY <1>2, <2>1 DEF Named
  <2>3. Front(Append(names, W[N].name)) = names
    BY <1>3, FrontOfAppend
  <2> QED BY <2>2, <2>3
<1>5. IsPath(RemoveFileName(path)) /\ Node(RemoveFileName(path)) = names
  <2>1. CASE d = 0
    <3>1. RemoveFileName(path) = kCurrentDirectoryString
      BY <2>1 DEF RemoveFileName
    <3> QED BY <2>1, <3>1, CurrentDirectoryNode
  <2>2. CASE d # 0
    <3>1. RemoveFileName(path) = SubSeq(path, 1, d)
      BY <2>2 DEF RemoveFileName
    <3>2. IsPath(SubSeq(path, 1, d)) /\ Len(SubSeq(path, 1, d)) = d /\ Ways(SubSeq(path, 1, d))[d] = W[d]
      BY <1>0, WaysAlike
    <3> HIDE DEF W, names, d
    <3> QED BY <1>1, <3>1, <3>2 DEF Node, Named
  <2> QED BY <2>1, <2>2
<1> QED BY <1>4, <1>5

(* A step of Normalize appends its character, or drops a separator. *)
LEMMA NormalizedOver ==
  ASSUME NEW S, NEW out \in Seq(S), NEW c \in S
  PROVE  Normalized(out, c) \in Seq(S) /\ (c # Separator => Normalized(out, c) = Append(out, c))
BY AppendProperties DEF Normalized

(* Normalising keeps an end that is no separator. *)
LEMMA NormalizeKeeps ==
  ASSUME NEW path, IsPath(path)
  PROVE  /\ IsPath(Normalize(path))
         /\ path # <<>> /\ Last(path) # Separator => ~ IsDirectory(Normalize(path))
<1> DEFINE N == Len(path)
           D == Seq(Range(path))
           G == [k \in 1 .. N |-> [x \in D |-> Normalized(x, path[k])]]
           W == CHOOSE h : h = [k \in 0 .. N |-> IF k = 0 THEN <<>> ELSE Normalized(h[k - 1], path[k])]
<1>0. N \in Nat /\ \A n \in 1 .. N : path[n] \in Range(path)
  BY PathShape
<1>1. \A k \in 1 .. N : \A x \in D : Normalized(x, path[k]) \in D
  BY <1>0, NormalizedOver
<1>2. <<>> \in D
  BY EmptySeq
<1> HIDE DEF N, D
<1>3. G \in [1 .. N -> [D -> D]]
  BY <1>1
<1>4. PICK f \in [0 .. N -> D] : f[0] = <<>> /\ \A k \in 1 .. N : f[k] = G[k][f[k - 1]]
  <2> HIDE DEF G
  <2>1. Recursive(N, D, <<>>, G)
    BY <1>0, <1>2, <1>3, Recursion
  <2> QED BY <2>1 DEF Recursive
<1>5. \A k \in 1 .. N : k - 1 \in 0 .. N /\ k \in 0 .. N
  BY <1>0
<1>6. \A k \in 1 .. N : G[k][f[k - 1]] = Normalized(f[k - 1], path[k])
  BY <1>5
<1> HIDE DEF G
<1>7. f = [k \in 0 .. N |-> IF k = 0 THEN <<>> ELSE Normalized(f[k - 1], path[k])]
  <2>1. \A k \in 0 .. N : k # 0 => k \in 1 .. N
    BY <1>0
  <2> QED BY <1>4, <1>6, <2>1
<1>8. Normalize(path) = W[N]
  BY DEF Normalize, N
<1>9. W = [k \in 0 .. N |-> IF k = 0 THEN <<>> ELSE Normalized(W[k - 1], path[k])]
  <2>1. \E h : h = [k \in 0 .. N |-> IF k = 0 THEN <<>> ELSE Normalized(h[k - 1], path[k])]
    BY <1>7
  <2> QED BY <2>1
<1> HIDE DEF W
<1>10. W[0] = <<>> /\ \A n \in 1 .. N : W[n] = Normalized(W[n - 1], path[n])
  BY <1>0, <1>5, <1>9
<1> DEFINE S == {k \in 0 .. N : W[k] \in D}
<1>11. 0 \in S
  BY <1>0, <1>2, <1>10
<1>12. ASSUME NEW k \in 0 .. N - 1, k \in S PROVE k + 1 \in S
  <2>1. k + 1 \in 1 .. N /\ k + 1 \in 0 .. N /\ (k + 1) - 1 = k
    BY <1>0
  <2>2. W[k + 1] = Normalized(W[k], path[k + 1]) /\ W[k] \in D
    BY <1>10, <1>12, <2>1
  <2> QED BY <1>1, <2>1, <2>2
<1>13. 0 .. N \subseteq S
  <2> HIDE DEF S
  <2> QED BY <1>0, <1>11, <1>12, Climb
<1>14. IsPath(Normalize(path))
  <2>1. W[N] \in D
    BY <1>0, <1>13
  <2> QED BY <1>8, <2>1, AnyPath DEF D
<1>15. ASSUME path # <<>>, Last(path) # Separator PROVE ~ IsDirectory(Normalize(path))
  <2>1. N # 0 /\ Last(path) = path[N]
    BY <1>15, PathShape, EmptySeq DEF N, Last
  <2>2. N \in 1 .. N /\ N - 1 \in 0 .. N
    BY <1>0, <2>1
  <2>3. W[N - 1] \in D /\ W[N] = Normalized(W[N - 1], path[N]) /\ path[N] # Separator /\ path[N] \in Range(path)
    BY <1>0, <1>10, <1>13, <1>15, <2>1, <2>2
  <2>4. W[N] = Append(W[N - 1], path[N])
    BY <2>3, NormalizedOver DEF D
  <2>5. Last(W[N]) = path[N]
    BY <2>3, <2>4, AppendProperties DEF D, Last
  <2> QED BY <1>8, <2>3, <2>5 DEF IsDirectory
<1> QED BY <1>14, <1>15

(* Path names can be joined, and end as the second does. *)
LEMMA PathsJoin ==
  ASSUME NEW s, NEW t, IsPath(s), IsPath(t)
  PROVE  IsPath(s \o t) /\ (t # <<>> => s \o t # <<>> /\ Last(s \o t) = Last(t))
<1> DEFINE T == Range(s) \union Range(t)
<1>1. s \in Seq(T) /\ t \in Seq(T)
  BY SeqMonotonic DEF IsPath
<1>2. s \o t \in Seq(T) /\ Len(s \o t) = Len(s) + Len(t) /\ Len(s) \in Nat /\ Len(t) \in Nat
  BY <1>1, ConcatProperties, LenProperties
<1>3. IsPath(s \o t)
  BY <1>2, AnyPath
<1>4. ASSUME t # <<>> PROVE s \o t # <<>> /\ Last(s \o t) = Last(t)
  <2>1. Len(t) # 0
    BY <1>1, <1>4, EmptySeq
  <2>2. (s \o t)[Len(s) + Len(t)] = t[Len(t)]
    BY <1>1, <1>2, <2>1, ConcatProperties
  <2> QED BY <1>2, <2>1, <2>2, EmptySeq DEF Last
<1> QED BY <1>3, <1>4

(* A character is a path name. *)
LEMMA OnePath ==
  ASSUME NEW c
  PROVE  IsPath(<<c>>)
<1>1. <<c>> \in Seq({c})
  OBVIOUS
<1> QED BY <1>1, AnyPath

(* What is left of a path name without its folder is one. *)
LEMMA RemovedDirectory ==
  ASSUME NEW path, IsPath(path)
  PROVE  IsPath(RemoveDirectoryName(path))
<1>1. path \in Seq(Range(path)) /\ Len(path) \in Nat /\ FindLastPathSeparator(path) \in 0 .. Len(path)
  BY PathShape, LastSeparator
<1>2. SubSeq(path, FindLastPathSeparator(path) + 1, Len(path)) \in Seq(Range(path))
  BY <1>1, SubSeqProperties
<1> QED BY <1>2, AnyPath DEF RemoveDirectoryName

(* ConcatPaths makes a path name, that ends as the second does. *)
LEMMA PathsConcat ==
  ASSUME NEW d, NEW r, IsPath(d), IsPath(r)
  PROVE  /\ IsPath(ConcatPaths(d, r))
         /\ r # <<>> /\ Last(r) # Separator => ~ IsDirectory(ConcatPaths(d, r))
<1>1. CASE d = <<>>
  BY <1>1 DEF ConcatPaths, IsDirectory
<1>2. CASE d # <<>>
  <2> DEFINE t == <<Separator>> \o r
             s == RemoveTrailingPathSeparator(d) \o t
             u == (RemoveTrailingPathSeparator(d) \o <<Separator>>) \o r
  <2>1. IsPath(RemoveTrailingPathSeparator(d)) /\ IsPath(<<Separator>>)
    BY NodeTrailing, OnePath
  <2>2. IsPath(RemoveTrailingPathSeparator(d) \o <<Separator>>)
    BY <2>1, PathsJoin
  <2>3. IsPath(u) /\ (r # <<>> => u # <<>> /\ Last(u) = Last(r))
    BY <2>2, PathsJoin
  <2>4. ConcatPaths(d, r) = Normalize(u)
    BY <1>2 DEF ConcatPaths
  <2> HIDE DEF u
  <2> QED BY <2>3, <2>4, NormalizeKeeps
<1> QED BY <1>1, <1>2

(* The name of a file that is made is no directory's. *)
LEMMA MadeIsFile ==
  ASSUME NEW d, NEW base, NEW n, IsPath(d), IsPath(base)
  PROVE  LET name == MakeFileName(d, base, n, Extension) IN IsPath(name) /\ ~ IsDirectory(name)
<1> DEFINE mark == IF n = 0 THEN <<>> ELSE <<"_", ToString(n)>>
           r == ((base \o mark) \o <<".">>) \o Extension
<1>1. IsPath(mark)
  <2>1. <<>> \in Seq({}) /\ <<"_", ToString(n)>> \in Seq({"_", ToString(n)})
    OBVIOUS
  <2>2. IsPath(<<>>) /\ IsPath(<<"_", ToString(n)>>)
    BY <2>1, AnyPath
  <2> QED BY <2>2
<1> HIDE DEF mark
<1>2. IsPath(<<".">>) /\ IsPath(Extension) /\ Extension # <<>> /\ Last(Extension) # Separator
  BY OnePath DEF Extension, Last, Separator
<1>3. IsPath((base \o mark) \o <<".">>)
  BY <1>1, <1>2, PathsJoin
<1>4. IsPath(r) /\ r # <<>> /\ Last(r) # Separator
  BY <1>2, <1>3, PathsJoin
<1>5. MakeFileName(d, base, n, Extension) = ConcatPaths(d, r)
  BY DEF MakeFileName, mark
<1> HIDE DEF r
<1> QED BY <1>4, <1>5, PathsConcat

--------------------------------------------------------------------------------
(* The files of the reports *)

FolderOf(p) == Node(RemoveFileName(file[p]))
Parent(path) == RemoveFileName(RemoveTrailingPathSeparator(path))
OnTheWay(node, folder) == \E n \in 0 .. Len(folder) : node = SubSeq(folder, 1, n)
InTheWay(node) == node \in DOMAIN fs /\ ~ IsFolder(node)

(* The calls of CreateDirectoriesRecursively: each is for the folder around   *)
(* the one before, on the way to that of the file.                           *)
Climbing(p) ==
  pc[p] \in {"exists", "mkdir", "refused"} =>
    /\ IsPath(folders[p]) /\ folders[p] # <<>> /\ folders[p][1] = RemoveFileName(file[p])
    /\ \A k \in 1 .. Len(folders[p]) : IsPath(folders[p][k]) /\ OnTheWay(Node(folders[p][k]), FolderOf(p))
    /\ \A k \in 1 .. Len(folders[p]) - 1 : folders[p][k + 1] = Parent(folders[p][k])
Innermost(p) == Node(Last(folders[p]))
(* What is around the folder to be made is there, and stays. *)
Reached(p) == pc[p] \in {"mkdir", "refused"} => IsFolder(Innermost(p)) \/ IsFolder(Front(Innermost(p)))
(* Nobody is refused a folder where there is nothing. *)
Refused(p) == pc[p] = "refused" => IsFolder(Innermost(p)) \/ Innermost(p) \in DOMAIN fs
Opening(p) == pc[p] = "open" => IsFolder(FolderOf(p))
Blocked(p) ==
  pc[p] = "died" =>
    DirectoryExists(file[p]) \/ \E n \in 1 .. Len(FolderOf(p)) : InTheWay(SubSeq(FolderOf(p), 1, n))
(* A name that was chosen was new when it was chosen, so before as well. *)
Fresh(p) ==
  /\ before[p] \subseteq DOMAIN fs
  /\ pc[p] \notin {"start", "choose"} /\ IsDirectory(OutputName(p)) => Node(file[p]) \notin before[p]
FilesTyped ==
  DOMAIN pc = Programs /\ DOMAIN file = Programs /\ DOMAIN folders = Programs /\ DOMAIN before = Programs
Writing(p) ==
  IsPath(file[p]) /\ Climbing(p) /\ Reached(p) /\ Refused(p) /\ Opening(p) /\ Blocked(p) /\ Fresh(p)
FilesInv == FilesTyped /\ \A p \in Programs : Writing(p)

(* The file system grows, and its folders stay. *)
Grows == DOMAIN fs \subseteq DOMAIN fs' /\ \A n \in DOMAIN fs : fs'[n] = "dir" <=> fs[n] = "dir"

(* In a file system that grows, folders stay, and what is in their way. *)
LEMMA FoldersStay ==
  ASSUME Grows, NEW node
  PROVE  (IsFolder(node) => IsFolder(node)') /\ (InTheWay(node) => InTheWay(node)')
BY DEF Grows, IsFolder, InTheWay

(* The file system that it was is one that has grown. *)
LEMMA SameGrows ==
  ASSUME fs' = fs
  PROVE  Grows
BY DEF Grows

(* One node more, or another author of a file: the file system has grown. *)
LEMMA WithGrows ==
  ASSUME NEW node, NEW what, fs' = With(node, what), node \in DOMAIN fs => fs[node] # "dir" /\ what # "dir"
  PROVE  Grows /\ node \in DOMAIN fs' /\ fs'[node] = what
BY DEF Grows, With

(* A program does nothing. *)
Same(p) == pc'[p] = pc[p] /\ file'[p] = file[p] /\ folders'[p] = folders[p] /\ before'[p] = before[p]

(* A name stays new, to a program that has chosen it. *)
LEMMA FreshStays ==
  ASSUME NEW p, Grows, Fresh(p), file'[p] = file[p], before'[p] = before[p],
         pc[p] \notin {"start", "choose"} \/ pc'[p] \in {"start", "choose"}
  PROVE  Fresh(p)'
<1>1. OutputName(p)' = OutputName(p) /\ Node(file[p])' = Node(file[p])
  BY DEF OutputName
<1> QED BY <1>1 DEF Fresh, Grows

(* The steps of others keep what is true of a program. *)
LEMMA OthersKeep ==
  ASSUME NEW p, Grows, Writing(p), Same(p)
  PROVE  Writing(p)'
<1>1. /\ FolderOf(p)' = FolderOf(p) /\ Innermost(p)' = Innermost(p) /\ Node(file[p])' = Node(file[p])
      /\ pc'[p] = pc[p]
  BY DEF Same, FolderOf, Innermost
<1>2. Climbing(p)' /\ IsPath(file[p])'
  BY <1>1 DEF Writing, Climbing, Same
<1>3. Reached(p)'
  BY <1>1, FoldersStay DEF Writing, Reached
<1>4. Refused(p)'
  BY <1>1, FoldersStay DEF Writing, Refused, Grows
<1>5. Opening(p)'
  BY <1>1, FoldersStay DEF Writing, Opening
<1>6. Blocked(p)'
  BY <1>1, FoldersStay DEF Writing, Blocked, DirectoryExists
<1>7. Fresh(p)'
  BY FreshStays DEF Writing, Same
<1> QED BY <1>2, <1>3, <1>4, <1>5, <1>6, <1>7 DEF Writing

(* Where nothing of it is in question, little is to be shown of a program. *)
LEMMA Idles ==
  ASSUME NEW p, pc'[p] \in {"start", "choose", "test", "done"}, IsPath(file'[p]), Fresh(p)'
  PROVE  Writing(p)'
BY DEF Writing, Climbing, Reached, Refused, Opening, Blocked

(* What a program has to write to is a path name. *)
LEMMA OutputNamePath ==
  ASSUME NEW p \in Programs
  PROVE  IsPath(OutputName(p))
BY OutputFilesAssumption, NormalizeKeeps, PathsConcat DEF OutputName

(* A node is a sequence of names, and on the way to itself. *)
LEMMA NodeIsSeq ==
  ASSUME NEW path, IsPath(path)
  PROVE  IsPath(Node(path)) /\ Len(Node(path)) \in Nat /\ SubSeq(Node(path), 1, Len(Node(path))) = Node(path)
<1>1. Node(path) \in Seq(Seq(Range(path)))
  BY PathShape, WaysGo, FurtherOver DEF Node
<1> DEFINE s == Node(path)
<1>2. IsPath(s) /\ Len(s) \in Nat
  BY <1>1, AnyPath, PathShape
<1> HIDE DEF s
<1> DEFINE t == SubSeq(s, 1, Len(s))
<1>3. t \in Seq(Range(s)) /\ Len(t) = Len(s) /\ \A k \in 1 .. Len(s) : t[k] = s[k]
  BY <1>2, SubSeqProperties DEF IsPath
<1>4. t = s
  <2> HIDE DEF t
  <2> QED BY <1>2, <1>3, SeqEqual DEF IsPath
<1> QED BY <1>2, <1>4 DEF s

(* What is around a folder on the way is on the way. *)
LEMMA OnTheWayUp ==
  ASSUME NEW folder, IsPath(folder), NEW node, OnTheWay(node, folder)
  PROVE  OnTheWay(Front(node), folder)
<1>1. PICK n \in 0 .. Len(folder) : node = SubSeq(folder, 1, n)
  BY DEF OnTheWay
<1>2. Len(folder) \in Nat /\ folder \in Seq(Range(folder)) /\ n \in Nat
  BY PathShape
<1>3. Len(node) = n /\ node \in Seq(Range(folder)) /\ \A k \in 1 .. n : node[k] = folder[k]
  BY <1>1, <1>2, SubSeqProperties
<1>4. CASE n = 0
  <2>1. node = <<>>
    BY <1>3, <1>4, EmptySeq
  <2>2. Front(node) = <<>>
    BY <2>1 DEF Front
  <2> QED BY <1>1, <1>4, <2>1, <2>2 DEF OnTheWay
<1>5. CASE n # 0
  <2> DEFINE a == SubSeq(node, 1, n - 1)
             b == SubSeq(folder, 1, n - 1)
  <2>1. Front(node) = a
    BY <1>3 DEF Front
  <2>2. a \in Seq(Range(folder)) /\ Len(a) = n - 1 /\ \A k \in 1 .. n - 1 : a[k] = node[k]
    BY <1>2, <1>3, <1>5, SubSeqProperties
  <2>3. b \in Seq(Range(folder)) /\ Len(b) = n - 1 /\ \A k \in 1 .. n - 1 : b[k] = folder[k]
    BY <1>1, <1>2, <1>5, SubSeqProperties
  <2>4. a = b
    <3> HIDE DEF a, b
    <3>1. \A k \in 1 .. n - 1 : k \in 1 .. n
      BY <1>2
    <3>2. \A k \in 1 .. n - 1 : a[k] = b[k]
      BY <1>3, <2>2, <2>3, <3>1
    <3> QED BY <2>2, <2>3, <3>2, SeqEqual
  <2>5. n - 1 \in 0 .. Len(folder)
    BY <1>1, <1>2, <1>5
  <2> QED BY <2>1, <2>4, <2>5 DEF OnTheWay
<1> QED BY <1>4, <1>5

(* A sequence without its last. *)
LEMMA FrontShape ==
  ASSUME NEW s, IsPath(s), s # <<>>
  PROVE  /\ Len(s) \in Nat \ {0} /\ Last(s) = s[Len(s)]
         /\ IsPath(Front(s)) /\ Len(Front(s)) = Len(s) - 1
         /\ \A k \in 1 .. Len(s) - 1 : Front(s)[k] = s[k]
<1>1. Len(s) \in Nat /\ Len(s) # 0 /\ s \in Seq(Range(s))
  BY PathShape, EmptySeq
<1>2. Front(s) = SubSeq(s, 1, Len(s) - 1)
  BY DEF Front
<1>3. Front(s) \in Seq(Range(s)) /\ Len(Front(s)) = Len(s) - 1 /\ \A k \in 1 .. Len(s) - 1 : Front(s)[k] = s[k]
  <2> DEFINE m == Len(s) - 1
             t == SubSeq(s, 1, m)
  <2>1. m \in Nat /\ \A k \in 1 .. m : s[k] \in Range(s)
    BY <1>1, PathShape
  <2>2. t \in Seq(Range(s)) /\ Len(t) = m /\ \A k \in 1 .. m : t[k] = s[k]
    <3> HIDE DEF m
    <3> QED BY <2>1, SubSeqProperties
  <2> QED BY <1>2, <2>2
<1> QED BY <1>1, <1>3, AnyPath DEF Last

(* A folder is on the way to the one it is around, or its end. *)
LEMMA ParentNode ==
  ASSUME NEW name, IsPath(name)
  PROVE  IsPath(Parent(name)) /\ Node(Parent(name)) \in {Node(name), Front(Node(name))}
BY NodeTrailing, NodeParent DEF Parent

(* A folder that was called for is there: on to the one it is for. *)
LEMMA ReturnKeeps ==
  ASSUME FilesTyped, NEW p \in Programs, Writing(p), pc[p] \in {"exists", "mkdir", "refused"}, Grows, Returned(p),
         NEW node, node = Innermost(p), IsFolder(node)', UNCHANGED <<file, before>>
  PROVE  Writing(p)'
<1> DEFINE L == Len(folders[p])
<1>1. /\ IsPath(folders[p]) /\ folders[p] # <<>> /\ folders[p][1] = RemoveFileName(file[p])
      /\ \A k \in 1 .. L : IsPath(folders[p][k]) /\ OnTheWay(Node(folders[p][k]), FolderOf(p))
      /\ \A k \in 1 .. L - 1 : folders[p][k + 1] = Parent(folders[p][k])
  BY DEF Writing, Climbing
<1>2. /\ L \in Nat \ {0} /\ Last(folders[p]) = folders[p][L] /\ IsPath(Front(folders[p]))
      /\ Len(Front(folders[p])) = L - 1 /\ \A k \in 1 .. L - 1 : Front(folders[p])[k] = folders[p][k]
  BY <1>1, FrontShape
<1>3. /\ folders'[p] = Front(folders[p]) /\ pc'[p] = (IF L = 1 THEN "open" ELSE "mkdir")
      /\ file'[p] = file[p] /\ before'[p] = before[p]
  BY DEF Returned, Goto, FilesTyped
<1>4. FolderOf(p)' = FolderOf(p) /\ IsPath(file'[p])
  BY <1>3 DEF FolderOf, Writing
<1>5. Fresh(p)'
  BY <1>3, FreshStays DEF Writing
<1>6. node = Node(folders[p][L])
  BY <1>2 DEF Innermost
<1>7. CASE L = 1
  <2>1. pc'[p] = "open"
    BY <1>3, <1>7
  <2>2. Opening(p)'
    BY <1>1, <1>4, <1>6, <1>7 DEF Opening, FolderOf
  <2> QED BY <1>4, <1>5, <2>1, <2>2 DEF Writing, Climbing, Reached, Refused, Blocked
<1>8. CASE L # 1
  <2>1. pc'[p] = "mkdir" /\ L - 1 \in 1 .. L /\ L - 1 \in 1 .. L - 1 /\ 1 \in 1 .. L - 1 /\ (L - 1) + 1 = L
    <3>1. pc'[p] = "mkdir"
      BY <1>3, <1>8
    <3>2. L \in Nat \ {0}
      BY <1>2
    <3> HIDE DEF L
    <3> QED BY <3>1, <3>2, <1>8
  <2>2. Len(folders'[p]) = L - 1 /\ folders'[p] # <<>>
    BY <1>2, <1>3, <2>1, FrontShape, EmptySeq
  <2>3. \A k \in 1 .. L - 1 : folders'[p][k] = folders[p][k] /\ k \in 1 .. L
    BY <1>2, <1>3
  <2>4. \A k \in 1 .. (L - 1) - 1 : k \in 1 .. L - 1 /\ k + 1 \in 1 .. L - 1
    BY <1>2
  <2>5. \A k \in 1 .. (L - 1) - 1 : folders'[p][k + 1] = Parent(folders'[p][k])
    BY <1>1, <2>3, <2>4
  <2>6. \A k \in 1 .. L - 1 : IsPath(folders'[p][k]) /\ OnTheWay(Node(folders'[p][k]), FolderOf(p))
    BY <1>1, <2>3
  <2>7. IsPath(folders'[p]) /\ folders'[p][1] = RemoveFileName(file'[p])
    BY <1>1, <1>2, <1>3, <2>1, <2>3
  <2>8. Climbing(p)'
    BY <1>4, <2>2, <2>5, <2>6, <2>7 DEF Climbing
  <2>9. Innermost(p)' = Node(folders[p][L - 1])
    <3>1. Last(folders'[p]) = folders'[p][Len(folders'[p])]
      BY <2>2, <2>7, FrontShape
    <3>2. Last(folders'[p]) = folders[p][L - 1]
      <4> HIDE DEF L
      <4> QED BY <2>1, <2>2, <2>3, <3>1
    <3> QED BY <3>2 DEF Innermost
  <2>10. node \in {Node(folders[p][L - 1]), Front(Node(folders[p][L - 1]))}
    BY <1>1, <1>6, <2>1, ParentNode
  <2>11. Reached(p)'
    BY <2>9, <2>10 DEF Reached
  <2> QED BY <1>4, <1>5, <2>1, <2>8, <2>11 DEF Writing, Refused, Opening, Blocked
<1> QED BY <1>7, <1>8

(* What a step of a program leaves true. *)
StepKeeps(p) ==
  FilesTyped' /\ Grows /\ Writing(p)' /\ \A q \in Programs : q # p => Same(q)

(* The name of the file, or of the directory to choose one in *)
LEMMA StartKeeps ==
  ASSUME FilesInv, NEW p \in Programs, Start(p)
  PROVE  StepKeeps(p)
<1>1. FilesTyped' /\ Grows /\ before'[p] = DOMAIN fs /\ \A q \in Programs : q # p => Same(q)
  BY SameGrows DEF FilesInv, FilesTyped, Start, Goto, Same
<1>2. /\ pc'[p] \in {"choose", "test"} /\ (pc'[p] = "test" => ~ IsDirectory(OutputName(p)))
      /\ file'[p] \in {file[p], OutputName(p)}
  BY DEF FilesInv, FilesTyped, Start, Goto
<1>3. IsPath(file'[p])
  BY <1>2, OutputNamePath DEF FilesInv, Writing
<1>4. Fresh(p)'
  <2>1. OutputName(p)' = OutputName(p)
    BY DEF OutputName
  <2> QED BY <1>1, <1>2, <2>1 DEF Fresh, Grows
<1> QED BY <1>1, <1>2, <1>3, <1>4, Idles DEF StepKeeps

(* A name that nothing uses is new. *)
LEMMA ChooseKeeps ==
  ASSUME FilesInv, NEW p \in Programs, Choose(p)
  PROVE  StepKeeps(p)
<1> DEFINE base == RemoveDirectoryName(Normalize(Executable[p]))
           name == MakeFileName(OutputName(p), base, number[p], Extension)
<1>1. FilesTyped' /\ Grows /\ before'[p] = before[p] /\ \A q \in Programs : q # p => Same(q)
  BY SameGrows DEF FilesInv, FilesTyped, Choose, Goto, Same
<1>2. IsPath(name) /\ ~ IsDirectory(name)
  BY OutputFilesAssumption, OutputNamePath, NormalizeKeeps, RemovedDirectory, MadeIsFile
<1>3. Writing(p) /\ before[p] \subseteq DOMAIN fs
  BY DEF FilesInv, Writing, Fresh
<1>4. CASE Taken(name)
  <2>1. pc'[p] = "choose" /\ file'[p] = file[p]
    BY <1>4 DEF Choose
  <2>2. Fresh(p)'
    BY <1>1, <1>3, <2>1, FreshStays DEF Writing
  <2> QED BY <1>1, <1>3, <2>1, <2>2, Idles DEF StepKeeps, Writing
<1>5. CASE ~ Taken(name)
  <2>1. pc'[p] = "test" /\ file'[p] = name
    BY <1>5 DEF Choose, Goto, FilesInv, FilesTyped
  <2>2. Node(name) \notin DOMAIN fs
    BY <1>2, <1>5 DEF Taken, FileOrDirectoryExists
  <2>3. Fresh(p)'
    BY <1>1, <1>3, <2>1, <2>2 DEF Fresh, Grows
  <2> QED BY <1>1, <1>2, <2>1, <2>3, Idles DEF StepKeeps
<1> QED BY <1>4, <1>5

(* The first folder is that of the file. *)
LEMMA EndIterationKeeps ==
  ASSUME FilesInv, NEW p \in Programs, EndIteration(p)
  PROVE  StepKeeps(p)
<1> DEFINE name == RemoveFileName(file[p])
<1>1. FilesTyped' /\ Grows /\ before'[p] = before[p] /\ file'[p] = file[p] /\ \A q \in Programs : q # p => Same(q)
  BY SameGrows DEF FilesInv, FilesTyped, EndIteration, Goto, Same
<1>2. Writing(p) /\ IsPath(file[p])
  BY DEF FilesInv, Writing
<1>3. Fresh(p)' /\ FolderOf(p)' = FolderOf(p)
  BY <1>1, <1>2, FreshStays DEF Writing, EndIteration, FolderOf
<1>4. CASE iteration[p] = Iterations
  <2>1. pc'[p] = "done"
    BY <1>4 DEF EndIteration, Goto, FilesInv, FilesTyped
  <2> QED BY <1>1, <1>2, <1>3, <2>1, Idles DEF StepKeeps
<1>5. CASE iteration[p] # Iterations
  <2>1. pc'[p] = "exists" /\ folders'[p] = <<name>>
    BY <1>5 DEF EndIteration, Goto, FilesInv, FilesTyped
  <2>2. IsPath(name) /\ FolderOf(p) = Node(name)
    BY <1>2, NodeParent DEF FolderOf
  <2>3. OnTheWay(Node(name), FolderOf(p))
    <3>1. Len(Node(name)) \in 0 .. Len(Node(name))
      BY <2>2, NodeIsSeq
    <3> QED BY <2>2, <3>1, NodeIsSeq DEF OnTheWay
  <2>4. IsPath(folders'[p]) /\ Len(folders'[p]) = 1 /\ folders'[p][1] = name /\ folders'[p] # <<>>
    BY <2>1, OnePath
  <2>5. Climbing(p)'
    BY <1>1, <1>3, <2>2, <2>3, <2>4 DEF Climbing
  <2> QED BY <1>1, <1>2, <1>3, <2>1, <2>5 DEF StepKeeps, Writing, Reached, Refused, Opening, Blocked
<1> QED BY <1>4, <1>5

(* A folder is there, or the one around it is called for. *)
LEMMA LookForFolderKeeps ==
  ASSUME FilesInv, NEW p \in Programs, LookForFolder(p)
  PROVE  StepKeeps(p)
<1> DEFINE name == Last(folders[p])
           L == Len(folders[p])
<1>1. FilesTyped' /\ Grows /\ before'[p] = before[p] /\ file'[p] = file[p] /\ \A q \in Programs : q # p => Same(q)
  BY SameGrows DEF FilesInv, FilesTyped, LookForFolder, Goto, Same
<1>2. FilesTyped /\ Writing(p) /\ IsPath(file[p]) /\ pc[p] = "exists"
  BY DEF FilesInv, Writing, LookForFolder
<1>3. CASE DirectoryExists(name)
  <2>1. Returned(p) /\ UNCHANGED <<file, before>> /\ fs' = fs
    BY <1>3 DEF LookForFolder, Returned
  <2>2. \E node : node = Innermost(p) /\ IsFolder(node) /\ IsFolder(node)'
    BY <1>3, <2>1 DEF Innermost, DirectoryExists, IsFolder
  <2> QED BY <1>1, <1>2, <2>1, <2>2, ReturnKeeps DEF StepKeeps
<1>4. CASE ~ DirectoryExists(name)
  <2>1. folders'[p] = Append(folders[p], Parent(name)) /\ pc'[p] = pc[p]
    BY <1>4 DEF LookForFolder, FilesInv, FilesTyped, Parent
  <2>2. /\ IsPath(folders[p]) /\ folders[p] # <<>> /\ folders[p][1] = RemoveFileName(file[p])
        /\ \A k \in 1 .. L : IsPath(folders[p][k]) /\ OnTheWay(Node(folders[p][k]), FolderOf(p))
        /\ \A k \in 1 .. L - 1 : folders[p][k + 1] = Parent(folders[p][k])
    BY <1>2 DEF Writing, Climbing
  <2>3. L \in Nat \ {0} /\ name = folders[p][L] /\ L \in 1 .. L /\ folders[p] \in Seq(Range(folders[p]))
    BY <2>2, FrontShape, PathShape
  <2>4. IsPath(Parent(name)) /\ OnTheWay(Node(Parent(name)), FolderOf(p))
    <3>1. IsPath(name) /\ OnTheWay(Node(name), FolderOf(p)) /\ IsPath(FolderOf(p))
      BY <1>2, <2>2, <2>3, NodeParent, NodeIsSeq DEF FolderOf
    <3> QED BY <3>1, ParentNode, OnTheWayUp
  <2>5. /\ IsPath(folders'[p]) /\ Len(folders'[p]) = L + 1 /\ folders'[p] # <<>>
        /\ folders'[p][L + 1] = Parent(name) /\ \A k \in 1 .. L : folders'[p][k] = folders[p][k]
    <3> DEFINE S == Range(folders[p]) \union {Parent(name)}
               s == folders[p]
               e == Parent(name)
    <3>1. s \in Seq(S) /\ e \in S /\ Len(s) \in Nat
      BY <2>3, SeqMonotonic
    <3>2. Append(s, e) \in Seq(S) /\ Len(Append(s, e)) = Len(s) + 1 /\ Append(s, e) # <<>>
          /\ Append(s, e)[Len(s) + 1] = e /\ \A k \in 1 .. Len(s) : Append(s, e)[k] = s[k]
      <4> HIDE DEF s, e, S
      <4> QED BY <3>1, AppendProperties
    <3>3. IsPath(Append(s, e))
      <4> HIDE DEF s, e, S
      <4> QED BY <3>2, AnyPath
    <3> QED BY <2>1, <3>2, <3>3
  <2>6. FolderOf(p)' = FolderOf(p) /\ Fresh(p)'
    BY <1>1, <1>2, <2>1, FreshStays DEF FolderOf, Writing
  <2>7. \A k \in 1 .. L + 1 : IsPath(folders'[p][k]) /\ OnTheWay(Node(folders'[p][k]), FolderOf(p))
    <3>1. \A k \in 1 .. L + 1 : k \in 1 .. L \/ k = L + 1
      BY <2>3
    <3> QED BY <2>2, <2>4, <2>5, <3>1
  <2>8. \A k \in 1 .. (L + 1) - 1 : folders'[p][k + 1] = Parent(folders'[p][k])
    <3>1. \A k \in 1 .. (L + 1) - 1 : k \in 1 .. L /\ (k = L \/ (k \in 1 .. L - 1 /\ k + 1 \in 1 .. L))
      BY <2>3
    <3> QED BY <2>2, <2>3, <2>5, <3>1
  <2>9. Climbing(p)'
    BY <1>1, <2>2, <2>3, <2>5, <2>6, <2>7, <2>8 DEF Climbing
  <2> QED BY <1>1, <1>2, <2>1, <2>6, <2>9 DEF StepKeeps, Writing, Reached, Refused, Opening, Blocked
<1> QED BY <1>3, <1>4

(* mkdir() makes the folder, or is refused it because there is something. *)
LEMMA MakeFolderKeeps ==
  ASSUME FilesInv, NEW p \in Programs, MakeFolder(p)
  PROVE  StepKeeps(p)
<1> DEFINE name == Last(folders[p])
<1>1. FilesTyped' /\ before'[p] = before[p] /\ file'[p] = file[p] /\ \A q \in Programs : q # p => Same(q)
  BY DEF FilesInv, FilesTyped, MakeFolder, Returned, Goto, Same
<1>2. FilesTyped /\ Writing(p) /\ IsPath(file[p]) /\ pc[p] = "mkdir"
  BY DEF FilesInv, Writing, MakeFolder
<1>3. CASE InFolder(name) /\ Node(name) \notin DOMAIN fs
  <2>1. Returned(p) /\ UNCHANGED <<file, before>> /\ fs' = With(Node(name), "dir")
    BY <1>3 DEF MakeFolder
  <2>2. Grows /\ Node(name) \in DOMAIN fs' /\ fs'[Node(name)] = "dir"
    BY <1>3, <2>1, WithGrows
  <2>3. \E node : node = Innermost(p) /\ IsFolder(node)'
    BY <2>2 DEF Innermost, IsFolder
  <2> QED BY <1>1, <1>2, <2>1, <2>2, <2>3, ReturnKeeps DEF StepKeeps
<1>4. CASE ~ (InFolder(name) /\ Node(name) \notin DOMAIN fs)
  <2>1. pc'[p] = "refused" /\ folders' = folders /\ fs' = fs
    BY <1>4 DEF MakeFolder, Goto, FilesInv, FilesTyped
  <2>2. Grows
    BY <2>1, SameGrows
  <2>3. FolderOf(p)' = FolderOf(p) /\ Fresh(p)' /\ Innermost(p)' = Innermost(p)
    BY <1>1, <1>2, <2>1, <2>2, FreshStays DEF FolderOf, Writing, Innermost
  <2>4. Climbing(p)'
    BY <1>1, <1>2, <2>1, <2>3 DEF Writing, Climbing
  <2>5. IsFolder(Innermost(p)) \/ IsFolder(Front(Innermost(p)))
    BY <1>2 DEF Writing, Reached
  <2>6. Reached(p)'
    BY <2>1, <2>3, <2>5 DEF Reached, IsFolder
  <2>7. Refused(p)'
    BY <1>4, <2>1, <2>3, <2>5 DEF Refused, IsFolder, InFolder, Innermost
  <2> QED BY <1>1, <1>2, <2>1, <2>2, <2>3, <2>4, <2>6, <2>7 DEF StepKeeps, Writing, Opening, Blocked
<1> QED BY <1>3, <1>4

(* Where there is something that is no folder, it is in the way. *)
LEMMA LookAgainKeeps ==
  ASSUME FilesInv, NEW p \in Programs, LookAgain(p)
  PROVE  StepKeeps(p)
<1> DEFINE name == Last(folders[p])
           L == Len(folders[p])
<1>1. FilesTyped' /\ Grows /\ before'[p] = before[p] /\ file'[p] = file[p] /\ \A q \in Programs : q # p => Same(q)
  BY SameGrows DEF FilesInv, FilesTyped, LookAgain, Returned, Goto, Same
<1>2. FilesTyped /\ Writing(p) /\ IsPath(file[p]) /\ pc[p] = "refused"
  BY DEF FilesInv, Writing, LookAgain
<1>3. CASE AfterRefusal(name)
  <2>1. Returned(p) /\ UNCHANGED <<file, before>> /\ fs' = fs
    BY <1>3 DEF LookAgain
  <2>2. \E node : node = Innermost(p) /\ IsFolder(node)'
    BY <1>3, <2>1 DEF Innermost, AfterRefusal, DirectoryExists, IsFolder
  <2> QED BY <1>1, <1>2, <2>1, <2>2, ReturnKeeps DEF StepKeeps
<1>4. CASE ~ AfterRefusal(name)
  <2>1. pc'[p] = "died" /\ fs' = fs
    BY <1>4 DEF LookAgain, Goto, FilesInv, FilesTyped
  <2>2. InTheWay(Innermost(p)) /\ Innermost(p) # <<>>
    BY <1>2, <1>4 DEF Writing, Refused, AfterRefusal, DirectoryExists, Innermost, InTheWay, IsFolder
  <2>3. OnTheWay(Innermost(p), FolderOf(p))
    <3>1. /\ IsPath(folders[p]) /\ folders[p] # <<>>
          /\ \A k \in 1 .. L : OnTheWay(Node(folders[p][k]), FolderOf(p))
      BY <1>2 DEF Writing, Climbing
    <3>2. name = folders[p][L] /\ L \in 1 .. L
      BY <3>1, FrontShape
    <3> QED BY <3>1, <3>2 DEF Innermost
  <2>4. PICK n \in 1 .. Len(FolderOf(p)) : Innermost(p) = SubSeq(FolderOf(p), 1, n)
    <3>1. PICK n \in 0 .. Len(FolderOf(p)) : Innermost(p) = SubSeq(FolderOf(p), 1, n)
      BY <2>3 DEF OnTheWay
    <3>2. n # 0
      BY <2>2, <3>1, SubSeqEmpty
    <3> QED BY <3>1, <3>2
  <2>5. FolderOf(p)' = FolderOf(p) /\ Fresh(p)'
    BY <1>1, <1>2, FreshStays DEF FolderOf, Writing
  <2>6. Blocked(p)'
    <3>1. InTheWay(SubSeq(FolderOf(p), 1, n))'
      BY <2>1, <2>2, <2>4, <2>5 DEF InTheWay, IsFolder
    <3> QED BY <2>4, <2>5, <3>1 DEF Blocked
  <2> QED BY <1>1, <1>2, <2>1, <2>5, <2>6 DEF StepKeeps, Writing, Climbing, Reached, Refused, Opening
<1> QED BY <1>3, <1>4

(* The folder of the file is there: only a folder of its name blocks it. *)
LEMMA OpenKeeps ==
  ASSUME FilesInv, NEW p \in Programs, Open(p)
  PROVE  StepKeeps(p)
<1>1. FilesTyped' /\ before'[p] = before[p] /\ file'[p] = file[p] /\ \A q \in Programs : q # p => Same(q)
  BY DEF FilesInv, FilesTyped, Open, Goto, Same
<1>2. Writing(p) /\ IsPath(file[p]) /\ pc[p] = "open"
  BY DEF FilesInv, Writing, Open
<1>3. Grows => Fresh(p)'
  BY <1>1, <1>2, FreshStays DEF Writing
<1>4. CASE InFolder(file[p]) /\ ~ DirectoryExists(file[p])
  <2>1. fs' = With(Node(file[p]), p) /\ pc'[p] = "test"
    BY <1>4 DEF Open, Goto, FilesInv, FilesTyped
  <2>2. Grows
    BY <1>4, <2>1, WithGrows, OutputFilesAssumption DEF DirectoryExists, IsFolder
  <2> QED BY <1>1, <1>2, <1>3, <2>1, <2>2, Idles DEF StepKeeps
<1>5. CASE ~ (InFolder(file[p]) /\ ~ DirectoryExists(file[p]))
  <2>1. fs' = fs /\ pc'[p] = "died"
    BY <1>5 DEF Open, Goto, FilesInv, FilesTyped
  <2>2. Grows
    BY <2>1, SameGrows
  <2>3. IsFolder(FolderOf(p)) /\ FolderOf(p) \in {Node(file[p]), Front(Node(file[p]))}
    BY <1>2, NodeParent DEF Writing, Opening, FolderOf
  <2>4. DirectoryExists(file[p])
    BY <1>5, <2>3 DEF InFolder, DirectoryExists
  <2>5. Blocked(p)'
    BY <1>1, <2>1, <2>4 DEF Blocked, DirectoryExists, IsFolder
  <2> QED BY <1>1, <1>2, <1>3, <2>1, <2>2, <2>5 DEF StepKeeps, Writing, Climbing, Reached, Refused, Opening
<1> QED BY <1>4, <1>5

(* What somebody else does changes no program. *)
LEMMA IntrudeKeeps ==
  ASSUME FilesInv, Intrude
  PROVE  FilesInv'
<1>1. Grows
  BY WithGrows DEF Intrude
<1>2. FilesTyped' /\ \A q \in Programs : Same(q)
  BY DEF Intrude, Same, FilesInv, FilesTyped
<1> QED BY <1>1, <1>2, OthersKeep DEF FilesInv

(* The invariant holds at the start. *)
LEMMA FilesInit ==
  ASSUME OutputInit
  PROVE  FilesInv
<1>1. IsPath(<<>>)
  BY EmptySeq, AnyPath
<1>2. FilesTyped /\ \A p \in Programs : pc[p] = "start" /\ file[p] = <<>> /\ before[p] = {}
  BY DEF OutputInit, FilesTyped
<1> QED BY <1>1, <1>2 DEF FilesInv, Writing, Climbing, Reached, Refused, Opening, Blocked, Fresh

(* Every step keeps the invariant. *)
LEMMA FilesNext ==
  ASSUME FilesInv, [OutputNext]_output_vars
  PROVE  FilesInv'
<1>1. ASSUME NEW p \in Programs, StepKeeps(p)
      PROVE  FilesInv'
  BY <1>1, OthersKeep DEF StepKeeps, FilesInv
<1>2. ASSUME NEW p \in Programs,
             \/ Start(p) \/ Choose(p) \/ EndIteration(p) \/ LookForFolder(p) \/ MakeFolder(p)
             \/ LookAgain(p) \/ Open(p)
      PROVE  FilesInv'
  BY <1>1, <1>2, StartKeeps, ChooseKeeps, EndIterationKeeps, LookForFolderKeeps, MakeFolderKeeps,
     LookAgainKeeps, OpenKeeps
<1>3. ASSUME UNCHANGED output_vars
      PROVE  FilesInv'
  <2>1. Grows /\ FilesTyped' /\ \A q \in Programs : Same(q)
    BY <1>3, SameGrows DEF output_vars, Same, FilesInv, FilesTyped
  <2> QED BY <2>1, OthersKeep DEF FilesInv
<1> QED BY <1>2, <1>3, IntrudeKeeps DEF OutputNext

(* Who gave up was blocked. *)
LEMMA FilesBlocked ==
  ASSUME FilesInv
  PROVE  GivesUpOnlyBlocked
BY DEF FilesInv, Writing, Blocked, GivesUpOnlyBlocked, FolderOf, InTheWay

(* Whatever the programs, the names of their reports and the file systems,    *)
(* and however their steps and those of others interleave: the folders a     *)
(* program makes are each around the one before, on the way to its file;     *)
(* what is around the one it makes is there when it makes it, so that it is  *)
(* refused only where something is in the way; and a name it chose was used  *)
(* by nothing that was there before it (gtest-filepath.cc,                   *)
(* CreateDirectoriesRecursively and GenerateUniqueFileName).                 *)
THEOREM FilesInvariant == OutputSpec => []FilesInv
<1>1. OutputInit => FilesInv
  BY FilesInit
<1>2. FilesInv /\ [OutputNext]_output_vars => FilesInv'
  BY FilesNext
<1> QED BY <1>1, <1>2, PTL DEF OutputSpec

(* Every report that can be written is, and is kept for later programs:       *)
(* a program gives up only where a file stands in the way of a directory or  *)
(* a directory has the name of its file, and in a directory it replaces no   *)
(* file that was there when it started (gtest-filepath.cc, CreateFolder and  *)
(* GenerateUniqueFileName).                                                  *)
THEOREM ReportsStay == OutputSpec => ReportsKept
<1> DEFINE Older == \A p \in Programs :
                      pc[p] = "open" /\ pc'[p] = "test" /\ IsDirectory(OutputName(p)) => Node(file[p]) \notin before[p]
<1>1. FilesInv => GivesUpOnlyBlocked
  BY FilesBlocked
<1>2. FilesInv => [Older]_output_vars
  BY DEF FilesInv, Writing, Fresh
<1>3. ReplacesNothingOlder <=> [][Older]_output_vars
  BY DEF ReplacesNothingOlder
<1> HIDE DEF Older
<1> QED BY <1>1, <1>2, <1>3, FilesInvariant, PTL DEF ReportsKept
================================================================================
