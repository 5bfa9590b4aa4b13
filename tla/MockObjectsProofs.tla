-------------------------- MODULE MockObjectsProofs ----------------------------
(***************************************************************************)
(* Proofs about MockObjects and ExpectCall: what is recorded of mock objects, *)
(* whatever objects had their addresses before them, and what is said of one *)
(* EXPECT_CALL() statement, for statements, calls and objects of any number. *)
(***************************************************************************)
EXTENDS MockObjects, ExpectCall, SequenceTheorems, TLAPS

--------------------------------------------------------------------------------
(* The lives of mock objects *)

ObjectsTyped ==
  /\ throw_on_failure \in BOOLEAN
  /\ object \in [Addresses -> Objects \union {None}]
  /\ registry \in [Addresses -> Entries \union {None}]
  /\ reaction \in [Addresses -> Reactions \union {None}]
  /\ ended \in {None, "exit 0", "exit 1", "aborted", "terminated"}
  /\ reports \in Seq(Nat)
  /\ gone \subseteq Expectations /\ \A e \in gone : e.id \in DOMAIN reports
  /\ answers = [reaction |-> answers.reaction, due |-> answers.due, results |-> answers.results]

(* At an address is the reaction that the wrapper of the object there has set, *)
(* and what was answered was that.                                           *)
Reacting ==
  /\ \A a \in Addresses :
       reaction[a] = IF object[a] = None \/ object[a].wrapper = "raw" THEN None
                     ELSE ReactionOf(object[a].wrapper)
  /\ answers.reaction = answers.due

(* An entry without mock functions was made by AllowLeak(), the only one that *)
(* may outlive the object; an entry has mock functions once the object there  *)
(* was used, and it is leakable if that object or one before it was excused.  *)
Entered ==
  \A a \in Addresses :
    /\ registry[a] # None /\ registry[a].mockers = {} => registry[a].leakable
    /\ object[a] = None /\ registry[a] # None => registry[a].mockers = {}
    /\ object[a] # None =>
         /\ object[a].used <=> registry[a] # None /\ registry[a].mockers # {}
         /\ object[a].old_entry \/ object[a].excused => registry[a] # None /\ registry[a].leakable
         /\ ~object[a].old_entry /\ registry[a] # None => (registry[a].leakable <=> object[a].excused)

(* The places of the lists of expectations *)
Listed(a, f, i) == object[a] # None /\ i \in DOMAIN object[a].exps[f]
ExpAt(a, f, i) == object[a].exps[f][i]
IdAt(a, f, i) == ExpAt(a, f, i).id

(* An expectation is at one place, is not deleted while it is there, and has  *)
(* been reported as often as it has had calls in excess.                     *)
OnOneList ==
  \A a, b \in Addresses, f, g \in FunctionSet : \A i, j \in Nat :
    Listed(a, f, i) /\ Listed(b, g, j) /\ IdAt(a, f, i) = IdAt(b, g, j) => a = b /\ f = g /\ i = j
Owing ==
  \A a \in Addresses, f \in FunctionSet : \A i \in Nat : Listed(a, f, i) =>
    /\ IdAt(a, f, i) \in DOMAIN reports
    /\ ended # "aborted" => Settled(reports[IdAt(a, f, i)], Excess(ExpAt(a, f, i)))
    /\ ended = None => \A e \in gone : e.id # IdAt(a, f, i)

(* What is deleted was reported also if it had too few calls.                *)
GoneSettled == \A e \in gone : Settled(reports[e.id], Excess(e) + Missing(e))

ObjectsInv == /\ ObjectsTyped /\ Reacting /\ Entered /\ OnOneList /\ Owing
              /\ GoneSettled /\ LeaksReported

(* An object and what it is made of *)
LEMMA ObjectFields ==
  ASSUME ObjectsTyped, NEW a \in Addresses, object[a] # None
  PROVE  /\ object[a] \in Objects /\ object[a].wrapper \in Wrappers
         /\ object[a].used \in BOOLEAN /\ object[a].excused \in BOOLEAN /\ object[a].old_entry \in BOOLEAN
         /\ object[a].specs \in [FunctionSet -> Seq([accepts : SUBSET Args, action : Defaults])]
         /\ object[a].exps \in [FunctionSet -> Seq(Expectations)]
<1>1. object[a] \in Objects
  BY DEF ObjectsTyped
<1> QED BY <1>1 DEF Objects, Expectations

(* A list of expectations *)
LEMMA ListFields ==
  ASSUME ObjectsTyped, NEW a \in Addresses, object[a] # None, NEW f \in FunctionSet
  PROVE  LET exps == object[a].exps[f] IN
         /\ exps \in Seq(Expectations) /\ DOMAIN exps \subseteq Nat
         /\ Len(exps) \in Nat /\ DOMAIN exps = 1 .. Len(exps)
         /\ \A i \in DOMAIN exps : exps[i] \in Expectations
         /\ \A i \in DOMAIN exps : /\ exps[i].id \in Nat /\ exps[i].wanted \in Nat
                                   /\ exps[i].calls \in Nat
         /\ Unmet(exps) \subseteq DOMAIN exps
<1>1. object[a].exps[f] \in Seq(Expectations)
  BY ObjectFields
<1> DEFINE exps == object[a].exps[f]
<1>2. exps \in Seq(Expectations)
  BY <1>1
<1> HIDE DEF exps
<1>3. Len(exps) \in Nat /\ DOMAIN exps = 1 .. Len(exps)
  BY <1>2, LenProperties
<1>5. DOMAIN exps \subseteq Nat
  BY <1>3
<1>6. \A i \in DOMAIN exps : exps[i] \in Expectations
  BY <1>2, <1>3, ElementOfSeq
<1>4. Unmet(exps) \subseteq DOMAIN exps
  BY DEF Unmet
<1>7. \A i \in DOMAIN exps : /\ exps[i].id \in Nat /\ exps[i].wanted \in Nat /\ exps[i].calls \in Nat
  BY <1>6 DEF Expectations
<1> QED BY <1>2, <1>3, <1>4, <1>5, <1>6, <1>7 DEF exps

(* Once the program has ended nothing happens. *)
LEMMA NothingAfter ==
  ASSUME ended # None, ObjectsNext
  PROVE  FALSE
<1>1. \A a \in Addresses : ~Lives(a) /\ ~Use(a)
  BY DEF Use, Lives
<1>2. ~Exit /\ \A v : ~SetDefaultValue(v)
  BY DEF Exit, SetDefaultValue
<1>3. \A a \in Addresses : /\ ~AllowLeak(a) /\ ~Destroy(a)
                           /\ \A w : ~Construct(a, w) /\ ~Verify(a, w)
  BY <1>1 DEF AllowLeak, Destroy, Construct, Verify
<1>4. \A a \in Addresses : \A f, x, y : ~OnCall(a, f, x, y) /\ ~ExpectCall(a, f, x) /\ ~InvokeWith(a, f, x)
  <2> SUFFICES ASSUME NEW a \in Addresses, NEW f, NEW x, NEW y
               PROVE  ~OnCall(a, f, x, y) /\ ~ExpectCall(a, f, x) /\ ~InvokeWith(a, f, x)
    OBVIOUS
  <2>1. ~Use(a)
    BY <1>1
  <2> QED BY <2>1, Zenon DEF OnCall, ExpectCall, InvokeWith
<1> QED BY <1>2, <1>3, <1>4, Zenon DEF ObjectsNext

(* A program that goes on has not exited. *)
LEMMA GoesOnUnreported ==
  ASSUME ended' \notin {"exit 0", "exit 1"}
  PROVE  LeaksReported'
BY DEF LeaksReported

(* A number of failures and a call or a failure more *)
LEMMA Arithmetic ==
  ASSUME throw_on_failure \in BOOLEAN, NEW e \in Expectations, NEW n \in Nat, NEW d \in 0 .. 1
  PROVE  /\ Excess(e) \in Nat /\ Missing(e) \in 0 .. 1
         /\ Settled(n, Excess(e)) /\ (~throw_on_failure => d = 0) => Settled(n + d, Excess(e))
         /\ Settled(n, Excess(e)) /\ (IF throw_on_failure THEN Missing(e) = 0 ELSE d = Missing(e)) =>
              Settled(n + d, Excess(e) + Missing(e))
         /\ Settled(n, Excess(e)) /\ d = (IF Saturated(e) THEN 1 ELSE 0) =>
              Settled(n + d, Excess([e EXCEPT !.calls = @ + 1]))
<1> DEFINE m == [e EXCEPT !.calls = @ + 1]
<1>1. /\ e.calls \in Nat /\ e.wanted \in Nat
      /\ m.calls = e.calls + 1 /\ m.wanted = e.wanted
  BY DEF Expectations
<1> HIDE DEF m
<1>2. /\ Excess(e) \in Nat /\ Missing(e) \in 0 .. 1
  BY <1>1 DEF Excess, Missing
<1>3. Excess(m) = Excess(e) + IF Saturated(e) THEN 1 ELSE 0
  BY <1>1 DEF Excess, Saturated
<1> DEFINE x == Excess(e)
           y == Excess(m)
           g == Missing(e)
<1>4. x \in Nat /\ g \in 0 .. 1 /\ (d = (IF Saturated(e) THEN 1 ELSE 0) => y = x + d)
  BY <1>2, <1>3
<1> HIDE DEF x, y, g
<1>5. /\ Settled(n, x) /\ (~throw_on_failure => d = 0) => Settled(n + d, x)
      /\ Settled(n, x) /\ (IF throw_on_failure THEN g = 0 ELSE d = g) => Settled(n + d, x + g)
      /\ Settled(n, x) /\ y = x + d => Settled(n + d, y)
  BY <1>4 DEF Settled
<1> QED BY <1>2, <1>4, <1>5 DEF x, y, g, m

(* What is on a list *)
LEMMA OnList ==
  ASSUME ObjectsTyped, NEW a \in Addresses, NEW f \in FunctionSet, NEW i \in Nat, Listed(a, f, i)
  PROVE  ExpAt(a, f, i) \in Expectations /\ IdAt(a, f, i) \in Nat
<1>1. object[a] # None /\ i \in DOMAIN object[a].exps[f]
  BY DEF Listed
<1> QED BY <1>1, ListFields DEF ExpAt, IdAt

(* Where lists lose at most what they had, and nothing is reported, the same  *)
(* is owed.                                                                  *)
LEMMA SameListed ==
  ASSUME OnOneList, Owing, GoneSettled, UNCHANGED <<reports, gone, throw_on_failure>>,
         ended = None \/ ended' = ended,
         \A b \in Addresses, f \in FunctionSet : \A i \in Nat :
           Listed(b, f, i)' => Listed(b, f, i) /\ ExpAt(b, f, i)' = ExpAt(b, f, i)
  PROVE  OnOneList' /\ Owing' /\ GoneSettled'
<1>1. OnOneList'
  <2> SUFFICES ASSUME NEW a \in Addresses, NEW b \in Addresses, NEW f \in FunctionSet, NEW g \in FunctionSet,
                      NEW i \in Nat, NEW j \in Nat,
                      Listed(a, f, i)', Listed(b, g, j)', IdAt(a, f, i)' = IdAt(b, g, j)'
               PROVE  a = b /\ f = g /\ i = j
    BY Zenon DEF OnOneList
  <2>1. Listed(a, f, i) /\ Listed(b, g, j) /\ IdAt(a, f, i) = IdAt(b, g, j)
    BY Zenon DEF IdAt
  <2> QED BY <2>1, Zenon DEF OnOneList
<1>2. Owing'
  <2>1. ASSUME NEW a \in Addresses, NEW f \in FunctionSet, NEW i \in Nat, Listed(a, f, i)'
        PROVE  /\ IdAt(a, f, i)' \in DOMAIN reports'
               /\ ended' # "aborted" => Settled(reports[IdAt(a, f, i)], Excess(ExpAt(a, f, i)))'
               /\ ended' = None => \A e \in gone' : e.id # IdAt(a, f, i)'
    <3>1. Listed(a, f, i) /\ ExpAt(a, f, i)' = ExpAt(a, f, i)
      BY <2>1, Zenon
    <3>2. reports' = reports /\ gone' = gone /\ throw_on_failure' = throw_on_failure
      OBVIOUS
    <3>3. (ended' # "aborted" => ended # "aborted") /\ (ended' = None => ended = None)
      BY MockObjectsAssumption
    <3>4. /\ IdAt(a, f, i) \in DOMAIN reports
          /\ ended # "aborted" => Settled(reports[IdAt(a, f, i)], Excess(ExpAt(a, f, i)))
          /\ ended = None => \A e \in gone : e.id # IdAt(a, f, i)
      BY <3>1, ZenonT(60) DEF Owing
    <3>5. /\ IdAt(a, f, i)' = IdAt(a, f, i) /\ Excess(ExpAt(a, f, i))' = Excess(ExpAt(a, f, i))
      BY <3>1 DEF IdAt, Excess
    <3>6. \A n, d : Settled(n, d)' <=> Settled(n, d)
      BY <3>2 DEF Settled
    <3>7. Settled(reports[IdAt(a, f, i)], Excess(ExpAt(a, f, i)))' <=>
            Settled(reports[IdAt(a, f, i)], Excess(ExpAt(a, f, i)))
      BY <3>2, <3>5 DEF Settled
    <3> QED BY <3>2, <3>3, <3>4, <3>5, <3>7
  <2> QED BY <2>1, ZenonT(60) DEF Owing
<1>3. GoneSettled'
  BY DEF GoneSettled, Settled
<1> QED BY <1>1, <1>2, <1>3

(* At the start there is nothing. *)
LEMMA ObjectsStart ==
  ASSUME ObjectsInit
  PROVE  ObjectsInv
<1>1. \A a \in Addresses : object[a] = None /\ registry[a] = None /\ reaction[a] = None
  BY DEF ObjectsInit
<1>2. ObjectsTyped
  <2>1. reports = <<>> /\ <<>> \in Seq(Nat) /\ gone = {}
    BY DEF ObjectsInit
  <2> QED BY <2>1 DEF ObjectsInit, ObjectsTyped
<1>3. Reacting
  BY <1>1 DEF ObjectsInit, Reacting
<1>4. Entered
  BY <1>1, Zenon DEF Entered
<1>5. OnOneList /\ Owing
  BY <1>1 DEF ObjectsInit, OnOneList, Owing, Listed
<1>6. GoneSettled /\ LeaksReported
  BY MockObjectsAssumption DEF ObjectsInit, GoneSettled, LeaksReported
<1> QED BY <1>2, <1>3, <1>4, <1>5, <1>6 DEF ObjectsInv

(* A new object has no lists, and finds the entry that AllowLeak() made of an *)
(* object before it, or none.                                                *)
LEMMA ConstructKeeps ==
  ASSUME ObjectsInv, NEW a \in Addresses, NEW wrapper \in Wrappers, Construct(a, wrapper)
  PROVE  ObjectsInv'
<1> DEFINE new == [wrapper |-> wrapper, used |-> FALSE, excused |-> FALSE,
                   old_entry |-> registry[a] # None,
                   specs |-> [f \in FunctionSet |-> <<>>], exps |-> [f \in FunctionSet |-> <<>>]]
<1>1. new \in Objects
  <2>1. [f \in FunctionSet |-> <<>>] \in [FunctionSet -> Seq([accepts : SUBSET Args, action : Defaults])]
    OBVIOUS
  <2>2. [f \in FunctionSet |-> <<>>] \in [FunctionSet -> Seq(Expectations)]
    OBVIOUS
  <2> QED BY <2>1, <2>2 DEF Objects, Expectations
<1>2. /\ new # None /\ new.wrapper = wrapper /\ ~new.used /\ ~new.excused /\ (new.old_entry <=> registry[a] # None)
      /\ \A f \in FunctionSet : new.exps[f] = <<>>
  BY <1>1, MockObjectsAssumption
<1>3. object' = [object EXCEPT ![a] = new] /\ object[a] = None /\ ended = None
  BY DEF Construct
<1> HIDE DEF new
<1>4. /\ object \in [Addresses -> Objects \union {None}]
      /\ object' \in [Addresses -> Objects \union {None}]
      /\ object'[a] = new /\ \A b \in Addresses : b # a => object'[b] = object[b]
  BY <1>1, <1>3 DEF ObjectsInv, ObjectsTyped
<1>5. reaction' = [reaction EXCEPT ![a] = IF wrapper = "raw" THEN None ELSE ReactionOf(wrapper)]
  <2>1. reaction[a] = None
    BY <1>3 DEF ObjectsInv, Reacting
  <2> QED BY <2>1 DEF Construct, SetReactionOnUninterestingCalls
<1>6. wrapper = "raw" \/ ReactionOf(wrapper) \in Reactions
  BY MockObjectsAssumption DEF ReactionOf, Reactions
<1>7. ObjectsTyped'
  <2>1. reaction' \in [Addresses -> Reactions \union {None}]
    BY <1>5, <1>6 DEF ObjectsInv, ObjectsTyped
  <2> QED BY <1>4, <2>1 DEF ObjectsInv, ObjectsTyped, Construct, flags
<1>8. Reacting'
  <2>1. \A b \in Addresses : reaction'[b] =
          IF object'[b] = None \/ object'[b].wrapper = "raw" THEN None ELSE ReactionOf(object'[b].wrapper)
    <3> SUFFICES ASSUME NEW b \in Addresses
                 PROVE  reaction'[b] = IF object'[b] = None \/ object'[b].wrapper = "raw" THEN None
                                       ELSE ReactionOf(object'[b].wrapper)
      OBVIOUS
    <3>1. CASE b = a
      BY <3>1, <1>2, <1>4, <1>5 DEF ObjectsInv, ObjectsTyped
    <3>2. CASE b # a
      <4>1. reaction'[b] = reaction[b] /\ object'[b] = object[b]
        BY <3>2, <1>4, <1>5 DEF ObjectsInv, ObjectsTyped
      <4> QED BY <4>1 DEF ObjectsInv, Reacting
    <3> QED BY <3>1, <3>2
  <2>2. answers' = answers
    BY DEF Construct
  <2> QED BY <2>1, <2>2 DEF ObjectsInv, Reacting, ReactionOf
<1>9. Entered'
  <2>1. registry' = registry
    BY DEF Construct
  <2> SUFFICES ASSUME NEW b \in Addresses
               PROVE  /\ registry[b] # None /\ registry[b].mockers = {} => registry[b].leakable
                      /\ object'[b] = None /\ registry[b] # None => registry[b].mockers = {}
                      /\ object'[b] # None =>
                           /\ object'[b].used <=> registry[b] # None /\ registry[b].mockers # {}
                           /\ object'[b].old_entry \/ object'[b].excused =>
                                registry[b] # None /\ registry[b].leakable
                           /\ ~object'[b].old_entry /\ registry[b] # None =>
                                (registry[b].leakable <=> object'[b].excused)
    BY <2>1, Zenon DEF Entered
  <2>2. CASE b = a
    <3>1. registry[a] # None => registry[a].mockers = {} /\ registry[a].leakable
      BY <1>3 DEF ObjectsInv, Entered
    <3> QED BY <2>2, <3>1, <1>2, <1>4
  <2>3. CASE b # a
    BY <2>3, <1>4 DEF ObjectsInv, Entered
  <2> QED BY <2>2, <2>3
<1>10. OnOneList' /\ Owing' /\ GoneSettled'
  <2>1. ASSUME NEW b \in Addresses, NEW f \in FunctionSet, NEW i \in Nat, Listed(b, f, i)'
        PROVE  Listed(b, f, i) /\ ExpAt(b, f, i)' = ExpAt(b, f, i)
    <3>1. b # a
      BY <2>1, <1>2, <1>4 DEF Listed
    <3> QED BY <2>1, <3>1, <1>4 DEF Listed, ExpAt
  <2> QED BY <2>1, SameListed DEF Construct, flags, ObjectsInv
<1>11. LeaksReported'
  BY <1>3, MockObjectsAssumption, GoesOnUnreported DEF Construct
<1> QED BY <1>7, <1>8, <1>9, <1>10, <1>11 DEF ObjectsInv

(* What AllowLeak(), ON_CALL() and EXPECT_CALL() do to an entry              *)
LEMMA EnteredThen ==
  ASSUME ObjectsInv, NEW a \in Addresses, object[a] # None, NEW e \in Entries, NEW o \in Objects,
         registry' = [registry EXCEPT ![a] = e], object' = [object EXCEPT ![a] = o],
         o.old_entry = object[a].old_entry, o.used <=> e.mockers # {},
         e.mockers = {} => e.leakable, o.old_entry \/ o.excused => e.leakable,
         ~o.old_entry => (e.leakable <=> o.excused)
  PROVE  Entered'
<1>1. /\ object'[a] = o /\ registry'[a] = e
      /\ \A b \in Addresses : b # a => object'[b] = object[b] /\ registry'[b] = registry[b]
  BY DEF ObjectsInv, ObjectsTyped
<1>2. o # None /\ e # None
  BY MockObjectsAssumption
<1> SUFFICES ASSUME NEW b \in Addresses
             PROVE  /\ registry'[b] # None /\ registry'[b].mockers = {} => registry'[b].leakable
                    /\ object'[b] = None /\ registry'[b] # None => registry'[b].mockers = {}
                    /\ object'[b] # None =>
                         /\ object'[b].used <=> registry'[b] # None /\ registry'[b].mockers # {}
                         /\ object'[b].old_entry \/ object'[b].excused =>
                              registry'[b] # None /\ registry'[b].leakable
                         /\ ~object'[b].old_entry /\ registry'[b] # None =>
                              (registry'[b].leakable <=> object'[b].excused)
  BY Zenon DEF Entered
<1>3. CASE b = a
  BY <1>3, <1>1, <1>2
<1>4. CASE b # a
  BY <1>4, <1>1 DEF ObjectsInv, Entered
<1> QED BY <1>3, <1>4

(* An object that stays has the reaction it had. *)
LEMMA SameReactions ==
  ASSUME ObjectsInv, NEW a \in Addresses, object[a] # None, NEW o \in Objects,
         object' = [object EXCEPT ![a] = o], o.wrapper = object[a].wrapper,
         reaction' = reaction, answers'.reaction = answers'.due
  PROVE  Reacting'
<1>1. object'[a] = o /\ o # None /\ \A b \in Addresses : b # a => object'[b] = object[b]
  BY MockObjectsAssumption DEF ObjectsInv, ObjectsTyped
<1>2. ASSUME NEW b \in Addresses
      PROVE  reaction[b] = IF object'[b] = None \/ object'[b].wrapper = "raw" THEN None
                           ELSE ReactionOf(object'[b].wrapper)
  <2>1. CASE b = a
    BY <2>1, <1>1 DEF ObjectsInv, Reacting
  <2>2. CASE b # a
    BY <2>2, <1>1 DEF ObjectsInv, Reacting
  <2> QED BY <2>1, <2>2
<1> QED BY <1>2 DEF Reacting, ReactionOf

LEMMA AllowLeakKeeps ==
  ASSUME ObjectsInv, NEW a \in Addresses, AllowLeak(a)
  PROVE  ObjectsInv'
<1> DEFINE e == IF registry[a] = None THEN Entry(TRUE, {}) ELSE Entry(TRUE, registry[a].mockers)
           o == [object[a] EXCEPT !.excused = TRUE]
<1>1. object[a] # None /\ ended = None /\ object[a] \in Objects
  BY ObjectFields DEF ObjectsInv, AllowLeak, Use, Lives
<1>2. /\ e \in Entries /\ e.leakable
      /\ e.mockers = IF registry[a] = None THEN {} ELSE registry[a].mockers
  BY DEF ObjectsInv, ObjectsTyped, Entries, Entry
<1>3. /\ o \in Objects /\ o.wrapper = object[a].wrapper /\ o.used = object[a].used /\ o.excused
      /\ o.old_entry = object[a].old_entry /\ o.exps = object[a].exps
  BY <1>1 DEF Objects, Expectations
<1>4. registry' = [registry EXCEPT ![a] = e] /\ object' = [object EXCEPT ![a] = o]
  BY DEF AllowLeak
<1>5. o.used <=> e.mockers # {}
  BY <1>1, <1>2, <1>3 DEF ObjectsInv, Entered
<1> HIDE DEF e, o
<1>6. /\ object'[a] = o /\ o # None /\ \A b \in Addresses : b # a => object'[b] = object[b]
  BY <1>3, <1>4, MockObjectsAssumption DEF ObjectsInv, ObjectsTyped
<1>7. ObjectsTyped'
  <2>1. UNCHANGED <<throw_on_failure, reaction, ended, reports, gone, answers>>
    BY DEF AllowLeak, flags
  <2>2. object' \in [Addresses -> Objects \union {None}] /\ registry' \in [Addresses -> Entries \union {None}]
    BY <1>2, <1>3, <1>4 DEF ObjectsInv, ObjectsTyped
  <2> QED BY <2>1, <2>2 DEF ObjectsInv, ObjectsTyped
<1>8. Reacting'
  <2>1. reaction' = reaction /\ answers' = answers /\ answers.reaction = answers.due
    BY DEF AllowLeak, ObjectsInv, Reacting
  <2> QED BY <1>1, <1>3, <1>4, <2>1, SameReactions
<1>9. Entered'
  BY <1>1, <1>2, <1>3, <1>4, <1>5, EnteredThen
<1>10. OnOneList' /\ Owing' /\ GoneSettled'
  <2>1. ASSUME NEW b \in Addresses, NEW f \in FunctionSet, NEW i \in Nat, Listed(b, f, i)'
        PROVE  Listed(b, f, i) /\ ExpAt(b, f, i)' = ExpAt(b, f, i)
    BY <2>1, <1>1, <1>3, <1>6 DEF Listed, ExpAt
  <2> QED BY <2>1, SameListed DEF AllowLeak, flags, ObjectsInv
<1>11. LeaksReported'
  BY <1>1, MockObjectsAssumption, GoesOnUnreported DEF AllowLeak
<1> QED BY <1>7, <1>8, <1>9, <1>10, <1>11 DEF ObjectsInv

(* What is used is registered. *)
LEMMA RegisterEnters ==
  ASSUME ObjectsInv, NEW a \in Addresses, object[a] # None, NEW f \in FunctionSet
  PROVE  \E e \in Entries :
           /\ Register(a, f) = [registry EXCEPT ![a] = e] /\ e.mockers # {}
           /\ e.leakable <=> registry[a] # None /\ registry[a].leakable
<1> DEFINE e == IF registry[a] = None THEN Entry(FALSE, {f})
                ELSE Entry(registry[a].leakable, registry[a].mockers \union {f})
<1>1. e \in Entries /\ f \in e.mockers /\ (e.leakable <=> registry[a] # None /\ registry[a].leakable)
  BY DEF ObjectsInv, ObjectsTyped, Entries, Entry
<1>2. Register(a, f) = [registry EXCEPT ![a] = e]
  BY DEF Register
<1> HIDE DEF e
<1> QED BY <1>1, <1>2

LEMMA OnCallKeeps ==
  ASSUME ObjectsInv, NEW a \in Addresses, NEW f \in FunctionSet, NEW accepts \in SUBSET Args,
         NEW action \in Defaults, OnCall(a, f, accepts, action)
  PROVE  ObjectsInv'
<1> DEFINE o == [object[a] EXCEPT !.used = TRUE,
                   !.specs[f] = Append(@, [accepts |-> accepts, action |-> action])]
<1>1. object[a] # None /\ ended = None /\ object[a] \in Objects
  BY ObjectFields DEF ObjectsInv, OnCall, Use, Lives
<1>2. PICK e \in Entries : /\ registry' = [registry EXCEPT ![a] = e] /\ e.mockers # {}
                           /\ e.leakable <=> registry[a] # None /\ registry[a].leakable
  BY <1>1, RegisterEnters DEF OnCall
<1>3. /\ o \in Objects /\ o.wrapper = object[a].wrapper /\ o.used /\ o.excused = object[a].excused
      /\ o.old_entry = object[a].old_entry /\ o.exps = object[a].exps
  <2>1. Append(object[a].specs[f], [accepts |-> accepts, action |-> action])
          \in Seq([accepts : SUBSET Args, action : Defaults])
    <3> DEFINE S == [accepts : SUBSET Args, action : Defaults]
    <3>1. object[a].specs[f] \in Seq(S) /\ [accepts |-> accepts, action |-> action] \in S
      BY <1>1, ObjectFields DEF ObjectsInv
    <3> HIDE DEF S
    <3>2. Append(object[a].specs[f], [accepts |-> accepts, action |-> action]) \in Seq(S)
      BY <3>1, AppendProperties
    <3> QED BY <3>2 DEF S
  <2> QED BY <1>1, <2>1 DEF Objects, Expectations
<1>4. object' = [object EXCEPT ![a] = o]
  BY <1>1 DEF OnCall
<1> HIDE DEF o
<1>5. /\ object'[a] = o /\ o # None /\ \A b \in Addresses : b # a => object'[b] = object[b]
  BY <1>3, <1>4, MockObjectsAssumption DEF ObjectsInv, ObjectsTyped
<1>6. ObjectsTyped'
  <2>1. UNCHANGED <<throw_on_failure, reaction, ended, reports, gone, answers>>
    BY DEF OnCall, flags
  <2> QED BY <1>2, <1>3, <1>4, <2>1 DEF ObjectsInv, ObjectsTyped
<1>7. Reacting'
  <2>1. reaction' = reaction /\ answers' = answers /\ answers.reaction = answers.due
    BY DEF OnCall, ObjectsInv, Reacting
  <2> QED BY <1>1, <1>3, <1>4, <2>1, SameReactions
<1>8. Entered'
  <2>1. /\ o.old_entry \/ o.excused => e.leakable
        /\ ~o.old_entry => (e.leakable <=> o.excused)
    BY <1>1, <1>2, <1>3 DEF ObjectsInv, Entered
  <2> QED BY <1>1, <1>2, <1>3, <1>4, <2>1, EnteredThen
<1>9. OnOneList' /\ Owing' /\ GoneSettled'
  <2>1. ASSUME NEW b \in Addresses, NEW g \in FunctionSet, NEW i \in Nat, Listed(b, g, i)'
        PROVE  Listed(b, g, i) /\ ExpAt(b, g, i)' = ExpAt(b, g, i)
    BY <2>1, <1>1, <1>3, <1>5 DEF Listed, ExpAt
  <2> QED BY <2>1, SameListed DEF OnCall, flags, ObjectsInv
<1>10. LeaksReported'
  BY <1>1, MockObjectsAssumption, GoesOnUnreported DEF OnCall
<1> QED BY <1>6, <1>7, <1>8, <1>9, <1>10 DEF ObjectsInv

(* A new expectation has a number of its own. *)
LEMMA ExpectCallKeeps ==
  ASSUME ObjectsInv, NEW a \in Addresses, NEW f \in FunctionSet, NEW wanted \in Nat,
         ExpectCall(a, f, wanted)
  PROVE  ObjectsInv'
<1> DEFINE n == Len(reports) + 1
           x == [id |-> n, wanted |-> wanted, calls |-> 0]
           s == object[a].exps[f]
           o == [object[a] EXCEPT !.used = TRUE, !.exps[f] = Append(@, x)]
<1>1. object[a] # None /\ ended = None /\ object[a] \in Objects
  BY ObjectFields DEF ObjectsInv, ExpectCall, Use, Lives
<1>2. PICK e \in Entries : /\ registry' = [registry EXCEPT ![a] = e] /\ e.mockers # {}
                           /\ e.leakable <=> registry[a] # None /\ registry[a].leakable
  BY <1>1, RegisterEnters DEF ExpectCall
<1>3. /\ n \in Nat /\ x \in Expectations /\ x.id = n
      /\ s \in Seq(Expectations)
      /\ Len(s) \in Nat /\ DOMAIN s = 1 .. Len(s)
  <2>1. reports \in Seq(Nat) /\ Len(reports) \in Nat
    BY LenProperties DEF ObjectsInv, ObjectsTyped
  <2>2. n \in Nat /\ x \in Expectations /\ x.id = n
    BY <2>1 DEF Expectations
  <2> QED BY <1>1, <2>2, ListFields DEF ObjectsInv
<1>4. /\ Append(s, x) \in Seq(Expectations)
      /\ DOMAIN Append(s, x) = 1 .. Len(s) + 1 /\ Append(s, x)[Len(s) + 1] = x
      /\ \A i \in DOMAIN s : Append(s, x)[i] = s[i]
  <2> HIDE DEF s, x
  <2> QED BY <1>3, AppendProperties
<1>5. /\ o \in Objects /\ o.wrapper = object[a].wrapper /\ o.used /\ o.excused = object[a].excused
      /\ o.old_entry = object[a].old_entry /\ o.exps[f] = Append(s, x)
      /\ \A g \in FunctionSet : g # f => o.exps[g] = object[a].exps[g]
  BY <1>1, <1>4 DEF Objects, Expectations
<1>6. object' = [object EXCEPT ![a] = o] /\ reports' = Append(reports, 0)
  BY <1>1 DEF ExpectCall
<1> HIDE DEF o, s, x
<1>7. /\ object'[a] = o /\ o # None /\ \A b \in Addresses : b # a => object'[b] = object[b]
  BY <1>5, <1>6, MockObjectsAssumption DEF ObjectsInv, ObjectsTyped
<1>8. /\ reports' \in Seq(Nat) /\ DOMAIN reports' = DOMAIN reports \union {n} /\ n \notin DOMAIN reports
      /\ reports'[n] = 0 /\ \A e2 \in DOMAIN reports : reports'[e2] = reports[e2]
  <2>1. reports \in Seq(Nat) /\ Len(reports) \in Nat /\ DOMAIN reports = 1 .. Len(reports)
    <3>1. reports \in Seq(Nat)
      BY DEF ObjectsInv, ObjectsTyped
    <3> QED BY <3>1, LenProperties
  <2>2. /\ reports' \in Seq(Nat) /\ DOMAIN reports' = 1 .. Len(reports) + 1 /\ reports'[Len(reports) + 1] = 0
        /\ \A i \in 1 .. Len(reports) : reports'[i] = reports[i]
    BY <1>6, <2>1, AppendProperties
  <2> QED BY <2>1, <2>2
<1>9. ObjectsTyped'
  <2>1. UNCHANGED <<throw_on_failure, reaction, ended, gone, answers>>
    BY DEF ExpectCall, flags
  <2>2. object' \in [Addresses -> Objects \union {None}] /\ registry' \in [Addresses -> Entries \union {None}]
    BY <1>2, <1>5, <1>6 DEF ObjectsInv, ObjectsTyped
  <2>3. gone' \subseteq Expectations /\ \A y \in gone' : y.id \in DOMAIN reports'
    BY <1>8, <2>1 DEF ObjectsInv, ObjectsTyped
  <2> QED BY <1>8, <2>1, <2>2, <2>3 DEF ObjectsInv, ObjectsTyped
<1>10. Reacting'
  <2>1. reaction' = reaction /\ answers' = answers /\ answers.reaction = answers.due
    BY DEF ExpectCall, ObjectsInv, Reacting
  <2> QED BY <1>1, <1>5, <1>6, <2>1, SameReactions
<1>11. Entered'
  <2>1. /\ o.old_entry \/ o.excused => e.leakable
        /\ ~o.old_entry => (e.leakable <=> o.excused)
    BY <1>1, <1>2, <1>5 DEF ObjectsInv, Entered
  <2> QED BY <1>1, <1>2, <1>5, <1>6, <2>1, EnteredThen
<1> DEFINE New(b, g, i) == b = a /\ g = f /\ i = Len(s) + 1
<1>12. ASSUME NEW b \in Addresses, NEW g \in FunctionSet, NEW i \in Nat, Listed(b, g, i)'
       PROVE  \/ New(b, g, i) /\ ExpAt(b, g, i)' = x
              \/ Listed(b, g, i) /\ ExpAt(b, g, i)' = ExpAt(b, g, i) /\ IdAt(b, g, i) \in DOMAIN reports
  <2>1. Listed(b, g, i) => IdAt(b, g, i) \in DOMAIN reports
    BY DEF ObjectsInv, Owing
  <2>2. CASE b # a
    BY <1>12, <1>7, <2>1, <2>2 DEF Listed, ExpAt
  <2>3. CASE b = a /\ g # f
    BY <1>1, <1>12, <1>5, <1>7, <2>1, <2>3 DEF Listed, ExpAt
  <2>4. CASE b = a /\ g = f
    <3>1. i \in 1 .. Len(s) + 1 /\ ExpAt(b, g, i)' = Append(s, x)[i]
      BY <1>12, <1>4, <1>5, <1>7, <2>4 DEF Listed, ExpAt
    <3>2. CASE i = Len(s) + 1
      BY <1>3, <1>4, <2>4, <3>1, <3>2
    <3>3. CASE i # Len(s) + 1
      <4>1. i \in DOMAIN s
        <5>1. Len(s) \in Nat /\ DOMAIN s = 1 .. Len(s) /\ i \in 1 .. Len(s) + 1 /\ i # Len(s) + 1
          BY <1>3, <3>1, <3>3
        <5> QED BY <5>1
      <4>2. Listed(b, g, i) /\ ExpAt(b, g, i)' = ExpAt(b, g, i)
        BY <1>1, <1>4, <2>4, <3>1, <4>1 DEF Listed, ExpAt, s
      <4> QED BY <2>1, <4>2
    <3> QED BY <3>2, <3>3
  <2> QED BY <2>2, <2>3, <2>4
<1>13. OnOneList'
  <2> SUFFICES ASSUME NEW b \in Addresses, NEW c \in Addresses, NEW g \in FunctionSet, NEW h \in FunctionSet,
                      NEW i \in Nat, NEW j \in Nat,
                      Listed(b, g, i)', Listed(c, h, j)', IdAt(b, g, i)' = IdAt(c, h, j)'
               PROVE  b = c /\ g = h /\ i = j
    BY DEF OnOneList
  <2>1. CASE New(b, g, i) /\ New(c, h, j)
    BY <2>1
  <2>2. CASE /\ Listed(b, g, i) /\ ExpAt(b, g, i)' = ExpAt(b, g, i)
             /\ Listed(c, h, j) /\ ExpAt(c, h, j)' = ExpAt(c, h, j)
    <3>1. IdAt(b, g, i) = IdAt(c, h, j)
      BY <2>2, Zenon DEF IdAt
    <3> QED BY <2>2, <3>1, Zenon DEF ObjectsInv, OnOneList
  <2>3. \A d \in Addresses, k \in FunctionSet : \A l \in Nat :
          /\ ExpAt(d, k, l)' = x => IdAt(d, k, l)' = n
          /\ ExpAt(d, k, l)' = ExpAt(d, k, l) => IdAt(d, k, l)' = IdAt(d, k, l)
    BY <1>3, Zenon DEF IdAt
  <2> HIDE DEF New
  <2> QED BY <1>8, <1>12, <2>1, <2>2, <2>3
<1>14. Owing' /\ GoneSettled'
  <2>1. /\ throw_on_failure' = throw_on_failure /\ gone' = gone /\ ended' = ended
        /\ throw_on_failure \in BOOLEAN
        /\ \A y \in gone : y.id \in DOMAIN reports
    BY DEF ExpectCall, flags, ObjectsInv, ObjectsTyped
  <2>2. ASSUME NEW b \in Addresses, NEW g \in FunctionSet, NEW i \in Nat, Listed(b, g, i)'
        PROVE  /\ IdAt(b, g, i)' \in DOMAIN reports'
               /\ ended' # "aborted" => Settled(reports[IdAt(b, g, i)], Excess(ExpAt(b, g, i)))'
               /\ ended' = None => \A y \in gone' : y.id # IdAt(b, g, i)'
    <3>1. CASE ExpAt(b, g, i)' = x
      <4>1. IdAt(b, g, i)' = n
        BY <1>3, <3>1 DEF IdAt
      <4>2. Excess(x) = 0
        BY <1>3 DEF Excess, x
      <4>3. Settled(reports[IdAt(b, g, i)], Excess(ExpAt(b, g, i)))'
        BY <1>8, <2>1, <3>1, <4>1, <4>2 DEF Settled, Excess
      <4> QED BY <1>8, <2>1, <4>1, <4>3
    <3>2. CASE /\ Listed(b, g, i) /\ ExpAt(b, g, i)' = ExpAt(b, g, i) /\ IdAt(b, g, i) \in DOMAIN reports
      <4>1. /\ ended # "aborted" => Settled(reports[IdAt(b, g, i)], Excess(ExpAt(b, g, i)))
            /\ ended = None => \A y \in gone : y.id # IdAt(b, g, i)
        BY <3>2, Zenon DEF ObjectsInv, Owing
      <4>2. IdAt(b, g, i)' = IdAt(b, g, i) /\ reports'[IdAt(b, g, i)] = reports[IdAt(b, g, i)]
        BY <1>8, <3>2 DEF IdAt
      <4>3. Settled(reports[IdAt(b, g, i)], Excess(ExpAt(b, g, i)))' <=>
              Settled(reports[IdAt(b, g, i)], Excess(ExpAt(b, g, i)))
        BY <2>1, <3>2, <4>2 DEF Settled, Excess
      <4> QED BY <1>8, <2>1, <3>2, <4>1, <4>2, <4>3
    <3> QED BY <1>12, <2>2, <3>1, <3>2
  <2>3. Owing'
    BY <2>2, ZenonT(60) DEF Owing
  <2>4. GoneSettled'
    BY <1>8, <2>1 DEF ObjectsInv, GoneSettled, Settled
  <2> QED BY <2>3, <2>4
<1>15. LeaksReported'
  BY <1>1, MockObjectsAssumption, GoesOnUnreported DEF ExpectCall
<1> QED BY <1>9, <1>10, <1>11, <1>13, <1>14, <1>15 DEF ObjectsInv

LEMMA SetDefaultValueKeeps ==
  ASSUME ObjectsInv, NEW v, SetDefaultValue(v)
  PROVE  ObjectsInv'
<1>1. ended = None /\ UNCHANGED <<throw_on_failure, object, registry, reaction, ended, reports, gone, answers>>
  BY DEF SetDefaultValue, flags
<1>2. ObjectsTyped' /\ Reacting' /\ Entered'
  BY <1>1 DEF ObjectsInv, ObjectsTyped, Reacting, Entered, ReactionOf
<1>3. OnOneList' /\ Owing' /\ GoneSettled'
  BY <1>1, SameListed DEF ObjectsInv, Listed, ExpAt
<1>4. LeaksReported'
  BY <1>1, MockObjectsAssumption, GoesOnUnreported
<1> QED BY <1>2, <1>3, <1>4 DEF ObjectsInv

(* What is asked for the reaction to a call is the object's own. *)
LEMMA AnswersDue ==
  ASSUME ObjectsInv, NEW a \in Addresses, object[a] # None
  PROVE  GetReaction(a) = IF object[a].wrapper = "raw" THEN default_mock_behavior
                          ELSE ReactionOf(object[a].wrapper)
<1>1. object[a].wrapper \in Wrappers
  BY ObjectFields DEF ObjectsInv
<1>2. object[a].wrapper = "raw" \/ ReactionOf(object[a].wrapper) \in Reactions
  BY <1>1, MockObjectsAssumption DEF ReactionOf, Reactions
<1> QED BY <1>2, MockObjectsAssumption DEF ObjectsInv, Reacting, GetReaction

(* A call counts at one place, and is reported if it is in excess. *)
LEMMA Counted ==
  ASSUME ObjectsInv, NEW a \in Addresses, NEW f \in FunctionSet, object[a] # None, ended = None,
         NEW n \in Nat, Listed(a, f, n), NEW o \in Objects, object' = [object EXCEPT ![a] = o],
         \A g \in FunctionSet : DOMAIN o.exps[g] = DOMAIN object[a].exps[g],
         o.exps[f][n] = [object[a].exps[f][n] EXCEPT !.calls = @ + 1],
         \A g \in FunctionSet : \A i \in DOMAIN object[a].exps[g] :
           ~(g = f /\ i = n) => o.exps[g][i] = object[a].exps[g][i],
         NEW d \in 0 .. 1, reports' = [reports EXCEPT ![IdAt(a, f, n)] = @ + d],
         ended' # "aborted" => d = IF Saturated(ExpAt(a, f, n)) THEN 1 ELSE 0,
         UNCHANGED <<throw_on_failure, gone>>
  PROVE  /\ reports' \in Seq(Nat) /\ DOMAIN reports' = DOMAIN reports
         /\ OnOneList' /\ Owing' /\ GoneSettled'
<1>1. /\ object'[a] = o /\ o # None /\ \A b \in Addresses : b # a => object'[b] = object[b]
  BY MockObjectsAssumption DEF ObjectsInv, ObjectsTyped
<1> DEFINE id == IdAt(a, f, n)
           old == ExpAt(a, f, n)
           now == [old EXCEPT !.calls = @ + 1]
           Here(b, g, i) == b = a /\ g = f /\ i = n
<1>2. old \in Expectations /\ now.id = id /\ id = old.id
  <2>1. old \in Expectations
    BY OnList DEF ObjectsInv
  <2> HIDE DEF old
  <2>2. now.id = old.id
    BY <2>1 DEF Expectations
  <2> QED BY <2>1, <2>2 DEF IdAt, old
<1>3. id \in DOMAIN reports /\ Settled(reports[id], Excess(old)) /\ \A e \in gone : e.id # id
  <2>1. Owing /\ ended # "aborted"
    BY MockObjectsAssumption DEF ObjectsInv
  <2> QED BY <2>1, ZenonT(60) DEF Owing
<1>4. /\ reports \in Seq(Nat) /\ reports[id] \in Nat /\ throw_on_failure \in BOOLEAN
      /\ \A e \in gone : e.id \in DOMAIN reports
  <2>1. reports \in Seq(Nat) /\ throw_on_failure \in BOOLEAN /\ \A e \in gone : e.id \in DOMAIN reports
    BY DEF ObjectsInv, ObjectsTyped
  <2>2. \A k \in DOMAIN reports : reports[k] \in Nat
    BY <2>1
  <2> QED BY <1>3, <2>1, <2>2
<1> HIDE DEF id
<1>5. /\ reports' \in Seq(Nat) /\ DOMAIN reports' = DOMAIN reports
      /\ reports'[id] = reports[id] + d /\ \A k \in DOMAIN reports : k # id => reports'[k] = reports[k]
  <2>1. reports' = [reports EXCEPT ![id] = reports[id] + d] /\ reports[id] + d \in Nat
    BY <1>4 DEF id
  <2>2. id \in 1 .. Len(reports) /\ DOMAIN reports = 1 .. Len(reports)
    BY <1>3, <1>4, LenProperties
  <2>3. reports' \in Seq(Nat) /\ Len(reports') = Len(reports)
    <3> DEFINE e == reports[id] + d
    <3>1. e \in Nat /\ reports' = [reports EXCEPT ![id] = e]
      BY <2>1
    <3> HIDE DEF e
    <3>2. /\ [reports EXCEPT ![id] = e] \in Seq(Nat)
          /\ Len([reports EXCEPT ![id] = e]) = Len(reports)
      BY <1>4, <2>2, <3>1, ExceptSeq
    <3> QED BY <3>1, <3>2
  <2>4. DOMAIN reports' = DOMAIN reports
    BY <2>2, <2>3, LenProperties
  <2> QED BY <1>3, <1>4, <2>1, <2>3, <2>4
<1>6. ASSUME NEW b \in Addresses, NEW g \in FunctionSet, NEW i \in Nat, Listed(b, g, i)'
      PROVE  /\ Listed(b, g, i)
             /\ ExpAt(b, g, i)' = IF Here(b, g, i) THEN now ELSE ExpAt(b, g, i)
             /\ IdAt(b, g, i)' = IdAt(b, g, i)
  <2>1. CASE b # a
    BY <1>1, <1>6, <2>1 DEF Listed, ExpAt, IdAt
  <2>2. CASE b = a /\ ~(g = f /\ i = n)
    BY <1>1, <1>6, <2>2 DEF Listed, ExpAt, IdAt
  <2>3. CASE Here(b, g, i)
    <3>1. Listed(a, f, n) /\ ExpAt(a, f, n)' = now
      BY <1>1, <1>6, <2>3 DEF Listed, ExpAt
    <3>2. IdAt(a, f, n)' = IdAt(a, f, n)
      BY <1>2, <3>1 DEF IdAt, id
    <3> QED BY <2>3, <3>1, <3>2
  <2> QED BY <2>1, <2>2, <2>3
<1> HIDE DEF now, old
<1>7. OnOneList'
  <2> SUFFICES ASSUME NEW b \in Addresses, NEW c \in Addresses, NEW g \in FunctionSet, NEW h \in FunctionSet,
                      NEW i \in Nat, NEW j \in Nat,
                      Listed(b, g, i)', Listed(c, h, j)', IdAt(b, g, i)' = IdAt(c, h, j)'
               PROVE  b = c /\ g = h /\ i = j
    BY DEF OnOneList
  <2>1. Listed(b, g, i) /\ Listed(c, h, j) /\ IdAt(b, g, i) = IdAt(c, h, j)
    BY <1>6
  <2>2. OnOneList
    BY DEF ObjectsInv
  <2> QED BY <2>1, <2>2 DEF OnOneList
<1>8. Owing'
  <2>1. ASSUME NEW b \in Addresses, NEW g \in FunctionSet, NEW i \in Nat, Listed(b, g, i)'
        PROVE  /\ IdAt(b, g, i)' \in DOMAIN reports'
               /\ ended' # "aborted" => Settled(reports[IdAt(b, g, i)], Excess(ExpAt(b, g, i)))'
               /\ ended' = None => \A e \in gone' : e.id # IdAt(b, g, i)'
    <3>1. /\ IdAt(b, g, i) \in DOMAIN reports
          /\ Settled(reports[IdAt(b, g, i)], Excess(ExpAt(b, g, i)))
          /\ \A e \in gone : e.id # IdAt(b, g, i)
      <4>1. Owing /\ ended # "aborted" /\ Listed(b, g, i)
        BY <1>6, <2>1, MockObjectsAssumption DEF ObjectsInv
      <4> QED BY <4>1, ZenonT(60) DEF Owing
    <3>2. CASE Here(b, g, i)
      <4>1. IdAt(b, g, i) = id /\ ExpAt(b, g, i)' = now
        BY <1>6, <2>1, <3>2 DEF id
      <4>2. ended' # "aborted" => Settled(reports[id] + d, Excess(now))
        BY <1>2, <1>3, <1>4, Arithmetic DEF now, old
      <4>3. Settled(reports[IdAt(b, g, i)], Excess(ExpAt(b, g, i)))' <=> Settled(reports[id] + d, Excess(now))
        BY <1>5, <1>6, <2>1, <4>1 DEF Settled, Excess
      <4> QED BY <1>5, <1>6, <2>1, <3>1, <4>2, <4>3
    <3>3. CASE ~Here(b, g, i)
      <4>1. IdAt(b, g, i) # id
        BY <1>6, <2>1, <3>3, Zenon DEF id, ObjectsInv, OnOneList
      <4>2. reports'[IdAt(b, g, i)] = reports[IdAt(b, g, i)]
        BY <1>5, <3>1, <4>1
      <4>3. Settled(reports[IdAt(b, g, i)], Excess(ExpAt(b, g, i)))' <=>
              Settled(reports[IdAt(b, g, i)], Excess(ExpAt(b, g, i)))
        BY <1>6, <2>1, <3>3, <4>2 DEF Settled, Excess
      <4> QED BY <1>5, <1>6, <2>1, <3>1, <4>3
    <3> QED BY <3>2, <3>3
  <2> QED BY <2>1, ZenonT(60) DEF Owing
<1>9. GoneSettled'
  <2>1. \A e \in gone : reports'[e.id] = reports[e.id]
    BY <1>3, <1>4, <1>5
  <2> QED BY <2>1 DEF ObjectsInv, GoneSettled, Settled
<1> QED BY <1>5, <1>7, <1>8, <1>9

(* A call counts, or is uninteresting. *)
LEMMA InvokeWithKeeps ==
  ASSUME ObjectsInv, NEW a \in Addresses, NEW f \in FunctionSet, NEW x \in Args, InvokeWith(a, f, x)
  PROVE  ObjectsInv'
<1> DEFINE s == object[a].exps[f]
           n == Len(s)
<1>1. object[a] # None /\ ended = None /\ object[a] \in Objects
  BY ObjectFields DEF ObjectsInv, InvokeWith, Use, Lives
<1>2. /\ ended' \in {None, "aborted", "terminated"}
      /\ UNCHANGED <<throw_on_failure, registry, reaction, gone>>
  BY <1>1 DEF InvokeWith, flags
<1>3. \/ /\ UNCHANGED <<object, reports>>
         /\ \E r : answers' = [reaction |-> GetReaction(a),
                               due |-> IF object[a].wrapper = "raw" THEN default_mock_behavior
                                       ELSE ReactionOf(object[a].wrapper),
                               results |-> r]
      \/ /\ s # <<>> /\ object' = [object EXCEPT ![a].exps[f][n].calls = @ + 1]
         /\ \E d \in 0 .. 1 : /\ reports' = [reports EXCEPT ![s[n].id] = @ + d]
                              /\ ended' # "aborted" => d = IF Saturated(s[n]) THEN 1 ELSE 0
         /\ \E r : answers' = [answers EXCEPT !.results = r]
  <2> DEFINE outcome == PerformDefaultAction(a, f, x)
             aborts == outcome.status = "aborts"
             fails == IF s = <<>> THEN GetReaction(a) = "fail" ELSE Saturated(s[n])
             d == IF fails /\ ~aborts THEN 1 ELSE 0
  <2>1. ended' = IF aborts THEN "aborted" ELSE IF fails /\ throw_on_failure THEN "terminated" ELSE ended
    BY DEF InvokeWith, FindMatchingExpectation
  <2>2. \/ /\ UNCHANGED <<object, reports>>
           /\ \E r : answers' = [reaction |-> GetReaction(a),
                                 due |-> IF object[a].wrapper = "raw" THEN default_mock_behavior
                                         ELSE ReactionOf(object[a].wrapper),
                                 results |-> r]
        \/ /\ s # <<>> /\ object' = [object EXCEPT ![a].exps[f][n].calls = @ + 1]
           /\ reports' = [reports EXCEPT ![s[n].id] = @ + d]
           /\ \E r : answers' = [answers EXCEPT !.results = r]
    BY DEF InvokeWith, FindMatchingExpectation
  <2>3. d \in 0 .. 1 /\ (s # <<>> /\ ended' # "aborted" => d = IF Saturated(s[n]) THEN 1 ELSE 0)
    BY <2>1
  <2> HIDE DEF d, s, n
  <2> QED BY <2>2, <2>3
<1>4. /\ answers' = [reaction |-> answers'.reaction, due |-> answers'.due, results |-> answers'.results]
      /\ answers'.reaction = answers'.due
  <2>1. ASSUME NEW r, answers' = [answers EXCEPT !.results = r]
        PROVE  /\ answers' = [reaction |-> answers'.reaction, due |-> answers'.due, results |-> answers'.results]
               /\ answers'.reaction = answers'.due
    <3>1. answers = [reaction |-> answers.reaction, due |-> answers.due, results |-> answers.results]
          /\ answers.reaction = answers.due
      BY DEF ObjectsInv, ObjectsTyped, Reacting
    <3>2. answers' = [reaction |-> answers.reaction, due |-> answers.due, results |-> r]
      BY <2>1, <3>1
    <3> QED BY <3>1, <3>2
  <2>2. ASSUME NEW r, answers' = [reaction |-> GetReaction(a),
                                  due |-> IF object[a].wrapper = "raw" THEN default_mock_behavior
                                          ELSE ReactionOf(object[a].wrapper),
                                  results |-> r]
        PROVE  /\ answers' = [reaction |-> answers'.reaction, due |-> answers'.due, results |-> answers'.results]
               /\ answers'.reaction = answers'.due
    BY <1>1, <2>2, AnswersDue
  <2> QED BY <1>3, <2>1, <2>2
<1>5. LeaksReported'
  BY <1>2, MockObjectsAssumption, GoesOnUnreported
<1>6. CASE UNCHANGED <<object, reports>>
  <2>1. ObjectsTyped'
    BY <1>2, <1>4, <1>6 DEF ObjectsInv, ObjectsTyped
  <2>2. Reacting' /\ Entered'
    BY <1>2, <1>4, <1>6 DEF ObjectsInv, Reacting, Entered, ReactionOf
  <2>3. OnOneList' /\ Owing' /\ GoneSettled'
    BY <1>1, <1>2, <1>6, SameListed DEF ObjectsInv, Listed, ExpAt
  <2> QED BY <1>5, <2>1, <2>2, <2>3 DEF ObjectsInv
<1>7. CASE s # <<>> /\ object' = [object EXCEPT ![a].exps[f][n].calls = @ + 1]
           /\ \E d \in 0 .. 1 : /\ reports' = [reports EXCEPT ![s[n].id] = @ + d]
                                /\ ended' # "aborted" => d = IF Saturated(s[n]) THEN 1 ELSE 0
  <2>1. PICK d \in 0 .. 1 : /\ reports' = [reports EXCEPT ![s[n].id] = @ + d]
                            /\ ended' # "aborted" => d = IF Saturated(s[n]) THEN 1 ELSE 0
    BY <1>7
  <2>2. s \in Seq(Expectations) /\ DOMAIN s = 1 .. n /\ n \in Nat
    BY <1>1, ListFields DEF ObjectsInv
  <2> DEFINE y == [s[n] EXCEPT !.calls = @ + 1]
             t == [s EXCEPT ![n] = y]
             o == [object[a] EXCEPT !.exps[f] = t]
  <2>3. object' = [object EXCEPT ![a] = o]
    BY <1>1, <1>7
  <2>4. n \in DOMAIN s /\ s[n] \in Expectations
    <3> HIDE DEF s
    <3>1. n # 0
      BY <1>7, <2>2, EmptySeq
    <3> QED BY <2>2, <3>1
  <2>5. Listed(a, f, n) /\ ExpAt(a, f, n) = s[n] /\ IdAt(a, f, n) = s[n].id
    BY <1>1, <2>4 DEF Listed, ExpAt, IdAt
  <2>6. y \in Expectations
    <3> DEFINE z == s[n]
    <3>1. z \in Expectations
      BY <2>4
    <3> HIDE DEF z
    <3>2. [z EXCEPT !.calls = @ + 1] \in Expectations
      BY <3>1 DEF Expectations
    <3> QED BY <3>2 DEF z
  <2> HIDE DEF s, y, n
  <2>7. t \in Seq(Expectations) /\ DOMAIN t = DOMAIN s /\ t[n] = y /\ \A j \in DOMAIN s : j # n => t[j] = s[j]
    BY <2>2, <2>4, <2>6
  <2> HIDE DEF t
  <2>8. /\ o \in Objects /\ o.wrapper = object[a].wrapper /\ o.used = object[a].used
        /\ o.excused = object[a].excused /\ o.old_entry = object[a].old_entry
        /\ o.exps[f] = t /\ \A g \in FunctionSet : g # f => o.exps[g] = object[a].exps[g]
    BY <1>1, <2>7 DEF Objects
  <2> HIDE DEF o
  <2>9. /\ \A g \in FunctionSet : DOMAIN o.exps[g] = DOMAIN object[a].exps[g]
        /\ \A g \in FunctionSet : \A i \in DOMAIN object[a].exps[g] :
             ~(g = f /\ i = n) => o.exps[g][i] = object[a].exps[g][i]
    BY <2>7, <2>8 DEF s
  <2>10. o.exps[f][n] = [object[a].exps[f][n] EXCEPT !.calls = @ + 1]
    BY <2>7, <2>8 DEF y, s
  <2>11. /\ reports' \in Seq(Nat) /\ DOMAIN reports' = DOMAIN reports
         /\ OnOneList' /\ Owing' /\ GoneSettled'
    <3>1. /\ reports' = [reports EXCEPT ![IdAt(a, f, n)] = @ + d]
          /\ ended' # "aborted" => d = IF Saturated(ExpAt(a, f, n)) THEN 1 ELSE 0
      BY <2>1, <2>5
    <3>2. n \in Nat
      BY <2>2
    <3> QED BY <1>1, <1>2, <2>3, <2>5, <2>8, <2>9, <2>10, <3>1, <3>2, Counted
  <2>12. /\ object'[a] = o /\ o # None /\ \A b \in Addresses : b # a => object'[b] = object[b]
    BY <2>3, <2>8, MockObjectsAssumption DEF ObjectsInv, ObjectsTyped
  <2>13. ObjectsTyped'
    BY <1>2, <1>4, <2>3, <2>8, <2>11 DEF ObjectsInv, ObjectsTyped
  <2>14. Reacting'
    BY <1>1, <1>2, <1>4, <2>3, <2>8, SameReactions
  <2>15. Entered'
    BY <1>1, <1>2, <2>8, <2>12 DEF ObjectsInv, Entered
  <2> QED BY <1>5, <2>11, <2>13, <2>14, <2>15 DEF ObjectsInv
<1> QED BY <1>3, <1>6, <1>7

(* The program exits with 1 for an object that was used and not excused. *)
LEMMA ExitKeeps ==
  ASSUME ObjectsInv, Exit
  PROVE  ObjectsInv'
<1>1. /\ UNCHANGED <<throw_on_failure, object, registry, reaction, reports, gone, answers>>
      /\ ended = None /\ ended' = IF Leaked = {} THEN "exit 0" ELSE "exit 1"
  BY DEF Exit, flags
<1>2. ObjectsTyped' /\ Reacting' /\ Entered'
  BY <1>1 DEF ObjectsInv, ObjectsTyped, Reacting, Entered, ReactionOf
<1>3. OnOneList' /\ Owing' /\ GoneSettled'
  BY <1>1, SameListed DEF ObjectsInv, Listed, ExpAt
<1>4. ASSUME NEW a \in Addresses
      PROVE  registry[a] # None /\ ~registry[a].leakable <=>
               object[a] # None /\ object[a].used /\ ~object[a].excused /\ ~object[a].old_entry
  BY DEF ObjectsInv, Entered
<1>5. LeaksReported'
  BY <1>1, <1>4 DEF LeaksReported, Leaked
<1> QED BY <1>2, <1>3, <1>5 DEF ObjectsInv

(* What a verification reports is on the lists it verifies, and what it takes *)
(* away it has reported if that had too few calls.                           *)
LEMMA VerifiedOnce ==
  ASSUME ObjectsInv, NEW a \in Addresses, object[a] # None, ended = None,
         NEW mockers, mockers \subseteq FunctionSet, NEW order, VerifyMockers(a, mockers, order)
  PROVE  /\ reports' \in Seq(Nat) /\ DOMAIN reports' = DOMAIN reports
         /\ gone' \subseteq Expectations /\ \A e \in gone' : e.id \in DOMAIN reports'
         /\ ~throw_on_failure => Clears(a, mockers, order) = mockers
         /\ \A e \in gone' : Settled(reports'[e.id], Excess(e) + Missing(e))
         /\ \A b \in Addresses, g \in FunctionSet : \A i \in Nat : Listed(b, g, i) =>
              /\ throw_on_failure \/ b # a \/ g \notin mockers =>
                   Settled(reports'[IdAt(b, g, i)], Excess(ExpAt(b, g, i)))
              /\ b # a \/ g \notin Clears(a, mockers, order) => \A e \in gone' : e.id # IdAt(b, g, i)
<1> DEFINE told == UNION {Reported(object[a].exps[f]) : f \in Reaches(a, mockers, order)}
           cleared == Clears(a, mockers, order)
           lost == UNION {{object[a].exps[f][i] : i \in DOMAIN object[a].exps[f]} : f \in cleared}
           More(k) == IF k \in told THEN 1 ELSE 0
<1>1. /\ reports' = [k \in DOMAIN reports |-> reports[k] + More(k)]
      /\ gone' = gone \union lost
  BY DEF VerifyMockers
<1>2. /\ reports \in Seq(Nat) /\ Len(reports) \in Nat /\ DOMAIN reports = 1 .. Len(reports)
      /\ \A k \in DOMAIN reports : reports[k] \in Nat
      /\ gone \subseteq Expectations /\ (\A e \in gone : e.id \in DOMAIN reports)
      /\ throw_on_failure \in BOOLEAN
  <2>1. reports \in Seq(Nat)
    BY DEF ObjectsInv, ObjectsTyped
  <2>2. \A k \in DOMAIN reports : reports[k] \in Nat
    BY <2>1
  <2> QED BY <2>1, <2>2, LenProperties DEF ObjectsInv, ObjectsTyped
<1>3. cleared \subseteq Reaches(a, mockers, order) /\ Reaches(a, mockers, order) \subseteq mockers
      /\ \A f \in cleared : ~Escapes(object[a].exps[f])
  BY DEF Clears, Reaches
<1>4. ~throw_on_failure => cleared = mockers
  BY DEF Clears, Reaches, Escapes
<1>5. ASSUME NEW k \in told
      PROVE  \E f \in mockers : \E i \in Nat :
               Listed(a, f, i) /\ k = IdAt(a, f, i) /\ i \in Unmet(object[a].exps[f])
  <2>1. PICK f \in mockers : k \in Reported(object[a].exps[f])
    BY <1>3, <1>5
  <2>2. PICK i \in Unmet(object[a].exps[f]) : k = object[a].exps[f][i].id
    BY <2>1 DEF Reported
  <2>3. f \in FunctionSet /\ i \in DOMAIN object[a].exps[f] /\ i \in Nat
    BY <2>2, ListFields DEF ObjectsInv
  <2>4. Listed(a, f, i) /\ k = IdAt(a, f, i)
    BY <2>2, <2>3 DEF Listed, IdAt, ExpAt
  <2> QED BY <2>2, <2>3, <2>4
<1>6. ASSUME NEW e \in lost
      PROVE  \E f \in cleared : \E i \in Nat :
               /\ f \in FunctionSet /\ Listed(a, f, i) /\ e = ExpAt(a, f, i) /\ e.id = IdAt(a, f, i)
               /\ i \in DOMAIN object[a].exps[f]
  <2>1. PICK f \in cleared : e \in {object[a].exps[f][i] : i \in DOMAIN object[a].exps[f]}
    BY <1>6
  <2>2. PICK i \in DOMAIN object[a].exps[f] : e = object[a].exps[f][i]
    BY <2>1
  <2>3. f \in FunctionSet /\ i \in Nat
    BY <1>3, <2>1, <2>2, ListFields DEF ObjectsInv
  <2>4. Listed(a, f, i) /\ e = ExpAt(a, f, i) /\ e.id = IdAt(a, f, i)
    BY <2>2, <2>3 DEF Listed, ExpAt, IdAt
  <2> QED BY <2>1, <2>2, <2>3, <2>4
<1>7. ASSUME NEW b \in Addresses, NEW g \in FunctionSet, NEW i \in Nat, Listed(b, g, i)
      PROVE  /\ IdAt(b, g, i) \in DOMAIN reports /\ ExpAt(b, g, i) \in Expectations
             /\ IdAt(b, g, i) = ExpAt(b, g, i).id
             /\ Settled(reports[IdAt(b, g, i)], Excess(ExpAt(b, g, i)))
             /\ \A e \in gone : e.id # IdAt(b, g, i)
  <2>1. ExpAt(b, g, i) \in Expectations /\ IdAt(b, g, i) = ExpAt(b, g, i).id
    BY <1>7, OnList DEF ObjectsInv, IdAt
  <2>2. /\ IdAt(b, g, i) \in DOMAIN reports
        /\ Settled(reports[IdAt(b, g, i)], Excess(ExpAt(b, g, i)))
        /\ \A e \in gone : e.id # IdAt(b, g, i)
    <3>1. Owing /\ ended # "aborted"
      BY MockObjectsAssumption DEF ObjectsInv
    <3> QED BY <1>7, <3>1, ZenonT(60) DEF Owing
  <2> QED BY <2>1, <2>2
<1>8. ASSUME NEW f \in cleared, f \in FunctionSet, NEW i \in Nat, Listed(a, f, i)
      PROVE  IF throw_on_failure THEN Missing(ExpAt(a, f, i)) = 0
             ELSE More(IdAt(a, f, i)) = Missing(ExpAt(a, f, i))
  <2>1. /\ i \in DOMAIN object[a].exps[f] /\ ExpAt(a, f, i) = object[a].exps[f][i]
        /\ object[a].exps[f][i].calls \in Nat /\ object[a].exps[f][i].wanted \in Nat
    BY <1>8, ListFields DEF ObjectsInv, Listed, ExpAt
  <2>2. Missing(ExpAt(a, f, i)) = IF i \in Unmet(object[a].exps[f]) THEN 1 ELSE 0
    BY <2>1 DEF Missing, Unmet
  <2>3. CASE throw_on_failure
    BY <1>3, <2>2, <2>3 DEF Escapes
  <2>4. CASE ~throw_on_failure
    <3>1. IdAt(a, f, i) \in told <=> i \in Unmet(object[a].exps[f])
      <4>1. ASSUME i \in Unmet(object[a].exps[f]) PROVE IdAt(a, f, i) \in told
        <5>1. IdAt(a, f, i) \in Reported(object[a].exps[f])
          BY <2>1, <2>4, <4>1 DEF Reported, IdAt
        <5>2. f \in Reaches(a, mockers, order)
          BY <1>3
        <5> QED BY <5>1, <5>2
      <4>2. ASSUME IdAt(a, f, i) \in told PROVE i \in Unmet(object[a].exps[f])
        <5> HIDE DEF told
        <5>1. PICK g \in mockers : \E j \in Nat :
                Listed(a, g, j) /\ IdAt(a, f, i) = IdAt(a, g, j) /\ j \in Unmet(object[a].exps[g])
          BY <1>5, <4>2
        <5>2. PICK j \in Nat :
                Listed(a, g, j) /\ IdAt(a, f, i) = IdAt(a, g, j) /\ j \in Unmet(object[a].exps[g])
          BY <5>1
        <5>3. f = g /\ i = j
          BY <1>8, <5>2, Zenon DEF ObjectsInv, OnOneList
        <5> QED BY <5>2, <5>3
      <4> QED BY <4>1, <4>2
    <3> HIDE DEF told
    <3> QED BY <2>2, <2>4, <3>1
  <2> QED BY <1>2, <2>3, <2>4
<1> HIDE DEF told, lost, cleared
<1>9. \A k \in DOMAIN reports : reports[k] \in Nat /\ More(k) \in 0 .. 1
  BY <1>2
<1> HIDE DEF More
<1>10. /\ reports' \in Seq(Nat) /\ DOMAIN reports' = DOMAIN reports
       /\ \A k \in DOMAIN reports : reports'[k] = reports[k] + More(k)
  <2>1. \A k \in 1 .. Len(reports) : reports[k] + More(k) \in Nat
    BY <1>2, <1>9
  <2> QED BY <1>1, <1>2, <2>1
<1>11. ASSUME NEW e \in gone'
       PROVE  /\ e \in Expectations /\ e.id \in DOMAIN reports
              /\ Settled(reports'[e.id], Excess(e) + Missing(e))
  <2>1. CASE e \in gone
    <3>1. e.id \in DOMAIN reports /\ Settled(reports[e.id], Excess(e) + Missing(e))
      BY <1>2, <2>1 DEF ObjectsInv, GoneSettled
    <3>2. e.id \notin told
      <4> SUFFICES ASSUME e.id \in told PROVE FALSE
        OBVIOUS
      <4>1. PICK f \in mockers : \E i \in Nat : Listed(a, f, i) /\ e.id = IdAt(a, f, i)
        BY <1>5
      <4> QED BY <1>7, <2>1, <4>1
    <3>3. reports'[e.id] = reports[e.id]
      BY <1>2, <1>10, <3>1, <3>2 DEF More
    <3> QED BY <1>2, <2>1, <3>1, <3>3
  <2>2. CASE e \in lost
    <3>1. PICK f \in cleared : f \in FunctionSet /\ \E i \in Nat :
            Listed(a, f, i) /\ e = ExpAt(a, f, i) /\ e.id = IdAt(a, f, i)
      BY <1>6, <2>2
    <3>2. PICK i \in Nat : Listed(a, f, i) /\ e = ExpAt(a, f, i) /\ e.id = IdAt(a, f, i)
      BY <3>1
    <3>3. /\ e \in Expectations /\ e.id \in DOMAIN reports /\ Settled(reports[e.id], Excess(e))
      BY <1>7, <3>1, <3>2
    <3>4. IF throw_on_failure THEN Missing(e) = 0 ELSE More(e.id) = Missing(e)
      BY <1>8, <3>1, <3>2
    <3>5. Settled(reports[e.id] + More(e.id), Excess(e) + Missing(e))
      BY <1>2, <1>9, <3>3, <3>4, Arithmetic
    <3> QED BY <1>10, <3>3, <3>5
  <2> QED BY <1>1, <2>1, <2>2
<1>12. ASSUME NEW b \in Addresses, NEW g \in FunctionSet, NEW i \in Nat, Listed(b, g, i)
       PROVE  /\ throw_on_failure \/ b # a \/ g \notin mockers =>
                   Settled(reports'[IdAt(b, g, i)], Excess(ExpAt(b, g, i)))
              /\ b # a \/ g \notin cleared => \A e \in gone' : e.id # IdAt(b, g, i)
  <2>1. ASSUME throw_on_failure \/ b # a \/ g \notin mockers
        PROVE  Settled(reports'[IdAt(b, g, i)], Excess(ExpAt(b, g, i)))
    <3>1. ~throw_on_failure => IdAt(b, g, i) \notin told
      <4> SUFFICES ASSUME b # a \/ g \notin mockers, IdAt(b, g, i) \in told PROVE FALSE
        BY <2>1
      <4>1. PICK f \in mockers : \E j \in Nat : Listed(a, f, j) /\ IdAt(b, g, i) = IdAt(a, f, j)
        BY <1>5
      <4>2. b = a /\ g = f
        BY <1>12, <4>1, Zenon DEF ObjectsInv, OnOneList
      <4> QED BY <4>1, <4>2
    <3>2. ~throw_on_failure => More(IdAt(b, g, i)) = 0
      BY <3>1 DEF More
    <3>3. Settled(reports[IdAt(b, g, i)] + More(IdAt(b, g, i)), Excess(ExpAt(b, g, i)))
      BY <1>2, <1>7, <1>9, <1>12, <3>2, Arithmetic
    <3> QED BY <1>7, <1>10, <1>12, <3>3
  <2>2. ASSUME b # a \/ g \notin cleared, NEW e \in gone' PROVE e.id # IdAt(b, g, i)
    <3>1. CASE e \in gone
      BY <1>7, <1>12, <3>1
    <3>2. CASE e \in lost
      <4>1. PICK f \in cleared : f \in FunctionSet /\ \E j \in Nat : Listed(a, f, j) /\ e.id = IdAt(a, f, j)
        BY <1>6, <3>2
      <4>2. e.id = IdAt(b, g, i) => b = a /\ g = f
        BY <1>12, <4>1, Zenon DEF ObjectsInv, OnOneList
      <4> QED BY <2>2, <4>1, <4>2
    <3> QED BY <1>1, <2>2, <3>1, <3>2
  <2> QED BY <2>1, <2>2
<1> QED BY <1>4, <1>10, <1>11, <1>12 DEF cleared

(* What remains on the lists is owed as before. *)
LEMMA TakenAway ==
  ASSUME ObjectsInv, NEW a \in Addresses, object[a] # None, ended = None,
         NEW mockers, mockers \subseteq FunctionSet, NEW order, VerifyMockers(a, mockers, order),
         throw_on_failure' = throw_on_failure,
         \A b \in Addresses, g \in FunctionSet : \A i \in Nat : Listed(b, g, i)' =>
           /\ Listed(b, g, i) /\ ExpAt(b, g, i)' = ExpAt(b, g, i)
           /\ throw_on_failure \/ b # a \/ g \notin mockers
           /\ ended' = None => b # a \/ g \notin Clears(a, mockers, order)
  PROVE  OnOneList' /\ Owing' /\ GoneSettled'
<1>1. OnOneList'
  <2> SUFFICES ASSUME NEW b \in Addresses, NEW c \in Addresses, NEW g \in FunctionSet, NEW h \in FunctionSet,
                      NEW i \in Nat, NEW j \in Nat,
                      Listed(b, g, i)', Listed(c, h, j)', IdAt(b, g, i)' = IdAt(c, h, j)'
               PROVE  b = c /\ g = h /\ i = j
    BY DEF OnOneList
  <2>1. Listed(b, g, i) /\ Listed(c, h, j) /\ IdAt(b, g, i) = IdAt(c, h, j)
    BY Zenon DEF IdAt
  <2>2. OnOneList
    BY DEF ObjectsInv
  <2> QED BY <2>1, <2>2 DEF OnOneList
<1>2. Owing'
  <2>1. ASSUME NEW b \in Addresses, NEW g \in FunctionSet, NEW i \in Nat, Listed(b, g, i)'
        PROVE  /\ IdAt(b, g, i)' \in DOMAIN reports'
               /\ ended' # "aborted" => Settled(reports[IdAt(b, g, i)], Excess(ExpAt(b, g, i)))'
               /\ ended' = None => \A e \in gone' : e.id # IdAt(b, g, i)'
    <3>1. /\ Listed(b, g, i) /\ ExpAt(b, g, i)' = ExpAt(b, g, i)
          /\ throw_on_failure \/ b # a \/ g \notin mockers
          /\ ended' = None => b # a \/ g \notin Clears(a, mockers, order)
      BY <2>1, Zenon
    <3>2. IdAt(b, g, i)' = IdAt(b, g, i)
      BY <3>1 DEF IdAt
    <3>3. IdAt(b, g, i) \in DOMAIN reports'
      BY <3>1, VerifiedOnce DEF ObjectsInv, Owing
    <3>4. /\ Settled(reports'[IdAt(b, g, i)], Excess(ExpAt(b, g, i)))
          /\ ended' = None => \A e \in gone' : e.id # IdAt(b, g, i)
      BY <3>1, VerifiedOnce
    <3>5. Settled(reports[IdAt(b, g, i)], Excess(ExpAt(b, g, i)))' <=>
            Settled(reports'[IdAt(b, g, i)], Excess(ExpAt(b, g, i)))
      BY <3>1, <3>2 DEF Settled, Excess
    <3> QED BY <3>2, <3>3, <3>4, <3>5
  <2> QED BY <2>1, ZenonT(60) DEF Owing
<1>3. GoneSettled'
  <2>1. \A e \in gone' : Settled(reports'[e.id], Excess(e) + Missing(e))
    BY VerifiedOnce
  <2> QED BY <2>1 DEF GoneSettled, Settled
<1> QED BY <1>1, <1>2, <1>3

LEMMA VerifyKeeps ==
  ASSUME ObjectsInv, NEW a \in Addresses, NEW actions_too \in BOOLEAN, Verify(a, actions_too)
  PROVE  ObjectsInv'
<1> DEFINE mockers == registry[a].mockers
           cleared == Clears(a, mockers, DeclarationOrder)
           o == [object[a] EXCEPT
                  !.exps = [f \in FunctionSet |-> IF f \in cleared THEN <<>> ELSE @[f]],
                  !.specs = [f \in FunctionSet |-> IF actions_too /\ f \in mockers THEN <<>> ELSE @[f]]]
<1>1. object[a] # None /\ ended = None /\ object[a] \in Objects
  BY ObjectFields DEF ObjectsInv, Verify, Use, Lives
<1>2. mockers \subseteq FunctionSet /\ VerifyMockers(a, mockers, DeclarationOrder)
  BY DEF Verify, ObjectsInv, ObjectsTyped, Entries
<1>3. UNCHANGED <<throw_on_failure, registry, reaction, ended, answers>>
  BY DEF Verify, flags
<1>4. object' = [object EXCEPT ![a] = o]
  BY <1>1 DEF Verify
<1> HIDE DEF mockers, cleared
<1>5. /\ o \in Objects /\ o.wrapper = object[a].wrapper /\ o.used = object[a].used
      /\ o.excused = object[a].excused /\ o.old_entry = object[a].old_entry
      /\ \A f \in FunctionSet : o.exps[f] = IF f \in cleared THEN <<>> ELSE object[a].exps[f]
  <2>1. [f \in FunctionSet |-> IF f \in cleared THEN <<>> ELSE object[a].exps[f]]
          \in [FunctionSet -> Seq(Expectations)]
    BY <1>1, ObjectFields DEF ObjectsInv
  <2>2. [f \in FunctionSet |-> IF actions_too /\ f \in mockers THEN <<>> ELSE object[a].specs[f]]
          \in [FunctionSet -> Seq([accepts : SUBSET Args, action : Defaults])]
    <3> DEFINE S == [accepts : SUBSET Args, action : Defaults]
    <3>1. object[a].specs \in [FunctionSet -> Seq(S)]
      BY <1>1, ObjectFields DEF ObjectsInv
    <3> HIDE DEF S
    <3>3. <<>> \in Seq(S)
      OBVIOUS
    <3>2. [f \in FunctionSet |-> IF actions_too /\ f \in mockers THEN <<>> ELSE object[a].specs[f]]
            \in [FunctionSet -> Seq(S)]
      BY <3>1, <3>3
    <3> QED BY <3>2 DEF S
  <2> QED BY <1>1, <2>1, <2>2 DEF Objects, Expectations
<1> HIDE DEF o
<1>6. /\ object'[a] = o /\ o # None /\ \A b \in Addresses : b # a => object'[b] = object[b]
  BY <1>4, <1>5, MockObjectsAssumption DEF ObjectsInv, ObjectsTyped
<1>7. ObjectsTyped'
  <2>1. reports' \in Seq(Nat) /\ gone' \subseteq Expectations /\ \A e \in gone' : e.id \in DOMAIN reports'
    BY <1>1, <1>2, VerifiedOnce
  <2> QED BY <1>3, <1>4, <1>5, <2>1 DEF ObjectsInv, ObjectsTyped
<1>8. Reacting'
  <2>1. answers.reaction = answers.due
    BY DEF ObjectsInv, Reacting
  <2> QED BY <1>1, <1>3, <1>4, <1>5, <2>1, SameReactions
<1>9. Entered'
  BY <1>1, <1>3, <1>5, <1>6 DEF ObjectsInv, Entered
<1>10. OnOneList' /\ Owing' /\ GoneSettled'
  <2>1. ASSUME NEW b \in Addresses, NEW g \in FunctionSet, NEW i \in Nat, Listed(b, g, i)'
        PROVE  /\ Listed(b, g, i) /\ ExpAt(b, g, i)' = ExpAt(b, g, i)
               /\ throw_on_failure \/ b # a \/ g \notin mockers
               /\ ended' = None => b # a \/ g \notin cleared
    <3>1. b = a => g \notin cleared
      BY <2>1, <1>5, <1>6 DEF Listed
    <3>2. Listed(b, g, i) /\ ExpAt(b, g, i)' = ExpAt(b, g, i)
      BY <2>1, <3>1, <1>1, <1>5, <1>6 DEF Listed, ExpAt
    <3>3. ~throw_on_failure => cleared = mockers
      BY <1>1, <1>2, VerifiedOnce DEF cleared
    <3> QED BY <3>1, <3>2, <3>3
  <2> QED BY <2>1, <1>1, <1>2, <1>3, TakenAway DEF cleared
<1>11. LeaksReported'
  BY <1>1, <1>3, MockObjectsAssumption, GoesOnUnreported
<1> QED BY <1>7, <1>8, <1>9, <1>10, <1>11 DEF ObjectsInv

(* A destructor from which a failure would escape ends the program; another  *)
(* leaves nothing behind but what AllowLeak() alone had entered.             *)
LEMMA DestroyKeeps ==
  ASSUME ObjectsInv, NEW a \in Addresses, Destroy(a)
  PROVE  ObjectsInv'
<1> DEFINE order == Reversed(DeclarationOrder)
<1>1. object[a] # None /\ ended = None /\ object[a] \in Objects
  BY ObjectFields DEF ObjectsInv, Destroy, Lives
<1>2. FunctionSet \subseteq FunctionSet /\ VerifyMockers(a, FunctionSet, order)
  BY DEF Destroy
<1>3. UNCHANGED <<throw_on_failure, answers>>
  BY DEF Destroy, flags
<1> HIDE DEF order
<1>4. reports' \in Seq(Nat) /\ gone' \subseteq Expectations /\ \A e \in gone' : e.id \in DOMAIN reports'
  BY <1>1, <1>2, VerifiedOnce
<1>5. CASE \E f \in FunctionSet : Escapes(object[a].exps[f])
  <2>1. ended' = "terminated" /\ UNCHANGED <<object, registry, reaction>> /\ throw_on_failure
    BY <1>5 DEF Destroy, Escapes
  <2>2. ObjectsTyped' /\ Reacting' /\ Entered'
    BY <1>3, <1>4, <2>1 DEF ObjectsInv, ObjectsTyped, Reacting, Entered, ReactionOf
  <2>3. \A b \in Addresses, g \in FunctionSet : \A i \in Nat : Listed(b, g, i)' =>
          Listed(b, g, i) /\ ExpAt(b, g, i)' = ExpAt(b, g, i)
    BY <2>1 DEF Listed, ExpAt
  <2>4. OnOneList' /\ Owing' /\ GoneSettled'
    BY <1>1, <1>2, <1>3, <2>1, <2>3, TakenAway, MockObjectsAssumption
  <2>5. LeaksReported'
    BY <2>1, GoesOnUnreported
  <2> QED BY <2>2, <2>4, <2>5 DEF ObjectsInv
<1>6. CASE ~ \E f \in FunctionSet : Escapes(object[a].exps[f])
  <2>1. /\ object' = [object EXCEPT ![a] = None] /\ ended' = ended
        /\ registry' = [registry EXCEPT ![a] = IF registry[a] # None /\ registry[a].mockers # {} THEN None
                                               ELSE registry[a]]
        /\ reaction' = IF object[a].wrapper = "raw" THEN reaction ELSE [reaction EXCEPT ![a] = None]
    BY <1>6 DEF Destroy, UnregisterLocked, UnregisterCallReaction
  <2>2. /\ object'[a] = None /\ \A b \in Addresses : b # a => object'[b] = object[b]
        /\ object' \in [Addresses -> Objects \union {None}]
    BY <2>1 DEF ObjectsInv, ObjectsTyped
  <2>3. /\ registry' \in [Addresses -> Entries \union {None}]
        /\ registry'[a] = (IF registry[a] # None /\ registry[a].mockers # {} THEN None ELSE registry[a])
        /\ \A b \in Addresses : b # a => registry'[b] = registry[b]
    BY <2>1 DEF ObjectsInv, ObjectsTyped
  <2>4. reaction' \in [Addresses -> Reactions \union {None}]
        /\ \A b \in Addresses : b # a => reaction'[b] = reaction[b]
    BY <2>1 DEF ObjectsInv, ObjectsTyped
  <2>5. reaction'[a] = None
    <3>1. object[a].wrapper = "raw" => reaction[a] = None
      BY DEF ObjectsInv, Reacting
    <3> QED BY <2>1, <3>1 DEF ObjectsInv, ObjectsTyped
  <2>6. ObjectsTyped'
    BY <1>3, <1>4, <2>1, <2>2, <2>3, <2>4 DEF ObjectsInv, ObjectsTyped
  <2>7. Reacting'
    <3>1. ASSUME NEW b \in Addresses
          PROVE  reaction'[b] = IF object'[b] = None \/ object'[b].wrapper = "raw" THEN None
                                ELSE ReactionOf(object'[b].wrapper)
      <4>1. CASE b = a
        BY <4>1, <2>2, <2>5
      <4>2. CASE b # a
        BY <4>2, <2>2, <2>4 DEF ObjectsInv, Reacting
      <4> QED BY <4>1, <4>2
    <3> QED BY <1>3, <3>1 DEF ObjectsInv, Reacting, ReactionOf
  <2>8. Entered'
    <3> SUFFICES ASSUME NEW b \in Addresses
                 PROVE  /\ registry'[b] # None /\ registry'[b].mockers = {} => registry'[b].leakable
                        /\ object'[b] = None /\ registry'[b] # None => registry'[b].mockers = {}
                        /\ object'[b] # None =>
                             /\ object'[b].used <=> registry'[b] # None /\ registry'[b].mockers # {}
                             /\ object'[b].old_entry \/ object'[b].excused =>
                                  registry'[b] # None /\ registry'[b].leakable
                             /\ ~object'[b].old_entry /\ registry'[b] # None =>
                                  (registry'[b].leakable <=> object'[b].excused)
      BY Zenon DEF Entered
    <3>1. CASE b = a
      BY <3>1, <2>2, <2>3 DEF ObjectsInv, Entered
    <3>2. CASE b # a
      BY <3>2, <2>2, <2>3 DEF ObjectsInv, Entered
    <3> QED BY <3>1, <3>2
  <2>9. OnOneList' /\ Owing' /\ GoneSettled'
    <3>1. ASSUME NEW b \in Addresses, NEW g \in FunctionSet, NEW i \in Nat, Listed(b, g, i)'
          PROVE  Listed(b, g, i) /\ ExpAt(b, g, i)' = ExpAt(b, g, i) /\ b # a
      BY <3>1, <2>2 DEF Listed, ExpAt
    <3> QED BY <1>1, <1>2, <1>3, <3>1, TakenAway
  <2>10. LeaksReported'
    BY <1>1, <2>1, MockObjectsAssumption, GoesOnUnreported
  <2> QED BY <2>6, <2>7, <2>8, <2>9, <2>10 DEF ObjectsInv
<1> QED BY <1>5, <1>6

(* What the two tables and the lists say is so, whatever objects there were. *)
THEOREM ObjectsInvariant == ObjectsSpec => []ObjectsInv
<1>1. ASSUME ObjectsInv, [ObjectsNext]_object_vars PROVE ObjectsInv'
  <2>1. ASSUME NEW a \in Addresses, NEW wrapper \in Wrappers, Construct(a, wrapper) PROVE ObjectsInv'
    BY <1>1, <2>1, ConstructKeeps
  <2>2. ASSUME NEW a \in Addresses, AllowLeak(a) PROVE ObjectsInv'
    BY <1>1, <2>2, AllowLeakKeeps
  <2>3. ASSUME NEW a \in Addresses, Destroy(a) PROVE ObjectsInv'
    BY <1>1, <2>3, DestroyKeeps
  <2>4. ASSUME NEW a \in Addresses, NEW actions_too \in BOOLEAN, Verify(a, actions_too) PROVE ObjectsInv'
    BY <1>1, <2>4, VerifyKeeps
  <2>5. ASSUME NEW a \in Addresses, NEW f \in FunctionSet, NEW accepts \in {Args, {CHOOSE x \in Args : TRUE}},
               NEW action \in Defaults, OnCall(a, f, accepts, action)
        PROVE  ObjectsInv'
    <3>1. accepts \in SUBSET Args
      BY MockObjectsAssumption
    <3> QED BY <1>1, <2>5, <3>1, OnCallKeeps
  <2>6. ASSUME NEW a \in Addresses, NEW f \in FunctionSet, NEW wanted \in 0 .. 1, ExpectCall(a, f, wanted)
        PROVE  ObjectsInv'
    BY <1>1, <2>6, ExpectCallKeeps
  <2>7. ASSUME NEW a \in Addresses, NEW f \in FunctionSet, NEW x \in Args, InvokeWith(a, f, x) PROVE ObjectsInv'
    BY <1>1, <2>7, InvokeWithKeeps
  <2>8. ASSUME NEW v, SetDefaultValue(v) PROVE ObjectsInv'
    BY <1>1, <2>8, SetDefaultValueKeeps
  <2>9. ASSUME Exit PROVE ObjectsInv'
    BY <1>1, <2>9, ExitKeeps
  <2>10. CASE UNCHANGED object_vars
    <3>1. UNCHANGED <<throw_on_failure, object, registry, reaction, ended, reports, gone, answers>>
      BY <2>10 DEF object_vars, flags
    <3>2. ObjectsTyped' /\ Reacting' /\ Entered'
      BY <1>1, <3>1 DEF ObjectsInv, ObjectsTyped, Reacting, Entered, ReactionOf
    <3>3. OnOneList' /\ Owing' /\ GoneSettled'
      BY <1>1, <3>1, SameListed DEF ObjectsInv, Listed, ExpAt
    <3>4. LeaksReported'
      BY <1>1, <3>1 DEF ObjectsInv, LeaksReported
    <3> QED BY <3>2, <3>3, <3>4 DEF ObjectsInv
  <2>11. CASE ObjectsNext
    BY <2>11, <2>1, <2>2, <2>3, <2>4, <2>5, <2>6, <2>7, <2>8, <2>9, Zenon DEF ObjectsNext
  <2> QED BY <1>1, <2>10, <2>11
<1> QED BY <1>1, ObjectsStart, PTL DEF ObjectsSpec

(* What is recorded of an address is about the object there: its reaction to *)
(* uninteresting calls, and whether it leaks.                                *)
THEOREM Recorded == ObjectsSpec => []RegistriesTrue
<1>1. ObjectsInv => RegistriesTrue
  BY DEF ObjectsInv, RegistriesTrue, ReactionIsOwn, Reacting
<1> QED BY <1>1, ObjectsInvariant, PTL

(* Of an expectation as many failures are reported as it has calls in excess, *)
(* and one more when it goes with too few; where failures throw, at least    *)
(* one, also if a failure threw out of a verification.                       *)
THEOREM AllReported == ObjectsSpec => []NothingPassedOver
<1>1. ASSUME ObjectsInv PROVE NothingPassedOver
  <2>1. ASSUME ended # "aborted", NEW a \in Addresses, NEW f \in FunctionSet, object[a] # None,
               NEW i \in DOMAIN object[a].exps[f]
        PROVE  Settled(reports[object[a].exps[f][i].id], Excess(object[a].exps[f][i]))
    <3>1. i \in Nat
      BY <1>1, <2>1, ListFields DEF ObjectsInv
    <3>2. Listed(a, f, i)
      BY <2>1 DEF Listed
    <3> QED BY <1>1, <2>1, <3>1, <3>2 DEF ObjectsInv, Owing, IdAt, ExpAt
  <2> QED BY <1>1, <2>1, Zenon DEF ObjectsInv, GoneSettled, NothingPassedOver
<1> QED BY <1>1, ObjectsInvariant, PTL

--------------------------------------------------------------------------------
(* One EXPECT_CALL() statement *)

Multiple == {kInSequence, kAfter, kWillOnce}

(* What each clause asks of the one before it *)
Placed(c) == IF c \in Multiple THEN lastClause <= c ELSE lastClause < c

Named(c) == \E a \in 1 .. Len(chain) : chain[a] = c

(* last_clause_ is the last clause. *)
LastIsLast == lastClause = IF chain = <<>> THEN kNone ELSE chain[Len(chain)]

(* What the fields know of the clauses that set them. *)
FieldsFollow ==
  /\ Len(chain) <= MaxClauses
  /\ actions <= Len(chain)
  /\ repeated => Named(kWillRepeatedly)
  /\ open /\ checked => Named(kWillRepeatedly) \/ Named(kRetiresOnSaturation)
  /\ ~ checked => warnings = <<>>
  /\ deleted => ~ open /\ checked

(* Nothing is called before the end of the statement. *)
NotYetCalled ==
  open => /\ callCount = 0 /\ performed = <<>> /\ excess = 0 /\ ranOut = {}
          /\ ~ retired

(* As long as calls are expected, they have used up the actions in turn. *)
ActionsFollowCalls ==
  ~ IsSaturated => Len(performed) = IF callCount <= actions THEN callCount ELSE actions

(* An expectation that will retire has not reached its bound. *)
NotYetRetired ==
  ~ open /\ retires /\ ~ retired /\ cardinality.max > 0 => callCount < cardinality.max

Strong == LastIsLast /\ FieldsFollow /\ NotYetCalled /\ ActionsFollowCalls /\ NotYetRetired

IInv == TypeOK /\ Strong /\ OrderJudged /\ ImpliedCardinality /\ WarningDeserved
        /\ RunsOutOnlyAsWarned /\ OnceActionsOnce /\ RetiredBeforeExcess

(* TypeOK in two parts, for the provers: the fields and the sequences. *)
FieldTypes ==
  /\ lastClause \in kNone .. kRetiresOnSaturation
  /\ specified \in BOOLEAN /\ cardinality \in CardinalityType
  /\ actions \in 0 .. MaxClauses
  /\ repeated \in BOOLEAN /\ retires \in BOOLEAN /\ retired \in BOOLEAN
  /\ checked \in BOOLEAN /\ callCount \in Nat /\ open \in BOOLEAN /\ deleted \in BOOLEAN
  /\ misplaced \in Nat /\ nonsense \in Nat
  /\ excess \in Nat /\ ranOut \subseteq Nat \ {0}
  /\ cardinality.min <= cardinality.max

SequenceTypes ==
  /\ chain \in Seq(kWith .. kRetiresOnSaturation)
  /\ warnings \in Seq({"too many", "too few"})
  /\ performed \in Seq(Nat \ {0})

USE DEF kNone, kWith, kTimes, kInSequence, kAfter, kWillOnce, kWillRepeatedly,
        kRetiresOnSaturation, life

--------------------------------------------------------------------------------
(* Facts about the helpers *)

(* TypeOK is its two parts, before and after a step. *)
LEMMA TypeParts ==
  /\ TypeOK <=> FieldTypes /\ SequenceTypes
  /\ TypeOK' <=> FieldTypes' /\ SequenceTypes'
BY Zenon DEF TypeOK, FieldTypes, SequenceTypes

(* The bounds are numbers, and every count of clauses is an int. *)
LEMMA Numbers == MaxClauses \in Nat /\ MaxCalls \in Nat /\ IntMax \in Nat /\ MaxClauses <= IntMax
                 /\ IntMax > 0
BY ExpectCallAssumption, IntMaxAssumption

(* Between() makes bounds in order of any two ints. *)
LEMMA BetweenInOrder ==
  ASSUME NEW lo \in - IntMax - 1 .. IntMax, NEW hi \in - IntMax - 1 .. IntMax
  PROVE  /\ Between(lo, hi) \in CardinalityType
         /\ Between(lo, hi).min <= Between(lo, hi).max
BY Numbers DEF Between, CardinalityType

(* What the constructors of cardinalities give for a count of clauses. *)
LEMMA ExactlyIs ==
  ASSUME NEW n \in 0 .. IntMax
  PROVE  /\ Exactly(n) = [min |-> n, max |-> n] /\ Exactly(n) \in CardinalityType
         /\ AtLeast(n) = [min |-> n, max |-> IntMax] /\ AtLeast(n) \in CardinalityType
BY Numbers DEF Exactly, AtLeast, Between, CardinalityType

(* What any clause does to the order of the statement. *)
LEMMA ClauseJudged ==
  ASSUME TypeOK, LastIsLast, OrderJudged, NEW c \in kWith .. kRetiresOnSaturation,
         lastClause' = c, chain' = Append(chain, c),
         misplaced' = misplaced + IF Placed(c) THEN 0 ELSE 1
  PROVE  /\ chain' \in Seq(kWith .. kRetiresOnSaturation) /\ misplaced' \in Nat
         /\ Len(chain') = Len(chain) + 1
         /\ LastIsLast' /\ OrderJudged'
         /\ \A d : Named(d) => Named(d)'
         /\ Named(c)'
         /\ InOrder' => /\ InOrder
                        /\ \A d \in kWith .. kRetiresOnSaturation :
                             Named(d) => d <= c /\ (d = c => c \in Multiple)
<1> USE DEF Multiple
<1>1. /\ chain \in Seq(kWith .. kRetiresOnSaturation) /\ misplaced \in Nat
      /\ Len(chain) \in Nat
      /\ \A a \in 1 .. Len(chain) : chain[a] \in kWith .. kRetiresOnSaturation
  <2>1. chain \in Seq(kWith .. kRetiresOnSaturation) /\ misplaced \in Nat
    BY DEF TypeOK
  <2> QED
    BY <2>1
<1>2. /\ chain' \in Seq(kWith .. kRetiresOnSaturation) /\ misplaced' \in Nat
      /\ Len(chain') = Len(chain) + 1
      /\ \A a \in 1 .. Len(chain) : chain'[a] = chain[a]
      /\ chain'[Len(chain) + 1] = c
      /\ chain' # <<>>
  BY <1>1
<1>3. LastIsLast'
  BY <1>2 DEF LastIsLast
<1>4. (\A d : Named(d) => Named(d)') /\ Named(c)'
  BY <1>1, <1>2 DEF Named
<1>5. InOrder' <=> /\ InOrder
                   /\ \A a \in 1 .. Len(chain) :
                        chain[a] < c \/ (chain[a] = c /\ c \in Multiple)
  <2>1. ASSUME InOrder' PROVE InOrder
    BY <1>1, <1>2, <2>1 DEF InOrder
  <2>2. ASSUME InOrder', NEW a \in 1 .. Len(chain)
        PROVE  chain[a] < c \/ (chain[a] = c /\ c \in Multiple)
    <3>1. a \in 1 .. Len(chain') /\ Len(chain) + 1 \in 1 .. Len(chain') /\ a < Len(chain) + 1
      BY <1>1, <1>2
    <3> QED
      BY <1>2, <2>2, <3>1 DEF InOrder
  <2>3. ASSUME InOrder, NEW a \in 1 .. Len(chain'), NEW b \in 1 .. Len(chain'), a < b,
               \A d \in 1 .. Len(chain) : chain[d] < c \/ (chain[d] = c /\ c \in Multiple)
        PROVE  \/ chain'[a] < chain'[b]
               \/ chain'[a] = chain'[b] /\ chain'[a] \in {kInSequence, kAfter, kWillOnce}
    <3>1. a \in 1 .. Len(chain) /\ (b \in 1 .. Len(chain) \/ b = Len(chain) + 1)
      BY <1>1, <1>2, <2>3
    <3> QED
      BY <1>1, <1>2, <2>3, <3>1 DEF InOrder
  <2> QED
    BY <2>1, <2>2, <2>3 DEF InOrder
<1>6. ASSUME InOrder
      PROVE  Placed(c) <=> \A a \in 1 .. Len(chain) :
                             chain[a] < c \/ (chain[a] = c /\ c \in Multiple)
  <2>1. CASE chain = <<>>
    BY <2>1 DEF Placed, LastIsLast
  <2>2. CASE chain # <<>>
    <3>1. Len(chain) \in 1 .. Len(chain) /\ lastClause = chain[Len(chain)]
      BY <2>2, <1>1 DEF LastIsLast
    <3>2. \A a \in 1 .. Len(chain) : chain[a] <= lastClause
      BY <1>1, <1>6, <3>1 DEF InOrder
    <3> QED
      BY <1>1, <3>1, <3>2 DEF Placed
  <2> QED
    BY <2>1, <2>2
<1>7. OrderJudged'
  BY <1>1, <1>5, <1>6 DEF OrderJudged
<1>8. InOrder' => \A d \in kWith .. kRetiresOnSaturation :
                    Named(d) => d <= c /\ (d = c => c \in Multiple)
  BY <1>1, <1>5 DEF Named
<1> QED
  BY <1>2, <1>3, <1>4, <1>5, <1>7, <1>8

(* What holds after any clause c *)
Follows(c) ==
  /\ open /\ Len(chain) < MaxClauses
  /\ lastClause' = c
  /\ chain' \in Seq(kWith .. kRetiresOnSaturation) /\ misplaced' \in Nat
  /\ Len(chain') = Len(chain) + 1
  /\ LastIsLast' /\ OrderJudged'
  /\ \A d : Named(d) => Named(d)'
  /\ Named(c)'
  /\ InOrder' => /\ InOrder
                 /\ \A d \in kWith .. kRetiresOnSaturation :
                      Named(d) => d <= c /\ (d = c => c \in Multiple)

(* Whatever is placed, or misplaced, the order is judged as Follows says. *)
LEMMA ClauseFollows ==
  ASSUME TypeOK, LastIsLast, OrderJudged, NEW c \in kWith .. kRetiresOnSaturation,
         Clause(c, Placed(c))
  PROVE  Follows(c)
<1>1. /\ lastClause' = c /\ chain' = Append(chain, c) /\ open /\ Len(chain) < MaxClauses
      /\ misplaced' = misplaced + IF Placed(c) THEN 0 ELSE 1
  BY DEF Clause
<1> QED
  BY <1>1, ClauseJudged DEF Follows

(* The clauses that change nothing else *)
LEMMA PlainClauseStep ==
  ASSUME IInv, NEW c \in kWith .. kRetiresOnSaturation, Clause(c, Placed(c)),
         UNCHANGED <<clauses, checked, state, life, nonsense, warnings>>
  PROVE  IInv'
<1> USE DEF IInv, Strong
<1>0. FieldTypes /\ SequenceTypes
  BY TypeParts
<1>l. Len(chain) \in Nat /\ actions \in Nat
  <2>1. chain \in Seq(kWith .. kRetiresOnSaturation)
    BY <1>0 DEF SequenceTypes
  <2>2. actions \in 0 .. MaxClauses
    BY <1>0 DEF FieldTypes
  <2> QED
    BY <2>1, <2>2, Numbers
<1>1. Follows(c)
  BY ClauseFollows
<1>2. UNCHANGED <<specified, cardinality, actions, repeated, retires, retired,
                  callCount, excess, ranOut, performed, checked, open, deleted, nonsense, warnings>>
  BY DEF clauses, state
<1>3. FieldTypes' /\ SequenceTypes'
  <2>1. FieldTypes'
    BY <1>0, <1>1, <1>2 DEF FieldTypes, Follows
  <2>2. SequenceTypes'
    BY <1>0, <1>1, <1>2 DEF SequenceTypes, Follows
  <2> QED
    BY <2>1, <2>2
<1>4. FieldsFollow'
  BY <1>l, <1>1, <1>2, Numbers DEF FieldsFollow, Follows
<1>5. NotYetCalled' /\ ActionsFollowCalls' /\ NotYetRetired'
  BY <1>2 DEF NotYetCalled, ActionsFollowCalls, NotYetRetired, IsSaturated
<1>6. ImpliedCardinality' /\ RunsOutOnlyAsWarned'
  BY <1>1, <1>2 DEF ImpliedCardinality, RunsOutOnlyAsWarned, Follows
<1>7. WarningDeserved'
  BY <1>1, <1>2 DEF WarningDeserved, Follows
<1>8. OnceActionsOnce' /\ RetiredBeforeExcess'
  BY <1>2 DEF OnceActionsOnce, RetiredBeforeExcess
<1> QED
  BY TypeParts, <1>1, <1>3, <1>4, <1>5, <1>6, <1>7, <1>8 DEF Follows

(* Times() replaces the bounds; in order, nothing has been checked yet. *)
LEMMA TimesStep == ASSUME IInv, Times PROVE IInv'
<1> USE DEF IInv, Strong
<1>0. FieldTypes /\ SequenceTypes
  BY TypeParts
<1>l. Len(chain) \in Nat /\ actions \in Nat
  <2>1. chain \in Seq(kWith .. kRetiresOnSaturation)
    BY <1>0 DEF SequenceTypes
  <2>2. actions \in 0 .. MaxClauses
    BY <1>0 DEF FieldTypes
  <2> QED
    BY <2>1, <2>2, Numbers
<1> PICK b \in Bounds :
      /\ Clause(kTimes, lastClause < kTimes)
      /\ nonsense' = nonsense + IF InvalidBounds(b[1], b[2]) THEN 1 ELSE 0
      /\ specified' = TRUE /\ cardinality' = Between(b[1], b[2])
      /\ UNCHANGED <<actions, repeated, retires, checked, state, life, warnings>>
  BY DEF Times
<1>1. Follows(kTimes)
  <2>1. Clause(kTimes, Placed(kTimes))
    BY DEF Clause, Placed, Multiple
  <2> QED
    BY <2>1, ClauseFollows
<1>2. UNCHANGED <<actions, repeated, retires, retired, callCount, excess, ranOut,
                  performed, checked, open, deleted, warnings>>
  BY DEF state
<1>3. cardinality' \in CardinalityType /\ cardinality'.min <= cardinality'.max
  <2>1. b[1] \in - IntMax - 1 .. IntMax /\ b[2] \in - IntMax - 1 .. IntMax
    BY ExpectCallAssumption
  <2> QED
    BY <2>1, BetweenInOrder
<1>4. FieldTypes' /\ SequenceTypes'
  <2>1. FieldTypes'
    BY <1>0, <1>1, <1>2, <1>3 DEF FieldTypes, Follows
  <2>2. SequenceTypes'
    BY <1>0, <1>1, <1>2 DEF SequenceTypes, Follows
  <2> QED
    BY <2>1, <2>2
<1>5. FieldsFollow'
  BY <1>l, <1>1, <1>2, Numbers DEF FieldsFollow, Follows
<1>6. ~ deleted /\ (InOrder' => ~ checked)
  BY <1>1 DEF Follows, FieldsFollow, Multiple
<1>7. NotYetCalled' /\ ActionsFollowCalls' /\ NotYetRetired'
  <2>1. open /\ open' /\ callCount' = 0 /\ performed' = <<>> /\ actions' \in Nat
    BY <1>0, <1>1, <1>2 DEF NotYetCalled, Follows, FieldTypes
  <2> QED
    BY <1>2, <2>1 DEF NotYetCalled, ActionsFollowCalls, NotYetRetired
<1>8. ImpliedCardinality' /\ RunsOutOnlyAsWarned'
  BY <1>1, <1>2 DEF ImpliedCardinality, RunsOutOnlyAsWarned, Follows, NotYetCalled
<1>9. WarningDeserved'
  BY <1>1, <1>2, <1>6 DEF WarningDeserved, Follows
<1>10. OnceActionsOnce' /\ RetiredBeforeExcess'
  BY <1>1, <1>2 DEF OnceActionsOnce, RetiredBeforeExcess, NotYetCalled, Follows
<1> QED
  BY TypeParts, <1>1, <1>4, <1>5, <1>7, <1>8, <1>9, <1>10 DEF Follows

(* WillOnce() adds an action; in order, no WillRepeatedly() came before. *)
LEMMA WillOnceStep == ASSUME IInv, WillOnce PROVE IInv'
<1> USE DEF IInv, Strong
<1>0. FieldTypes /\ SequenceTypes
  BY TypeParts
<1>l. Len(chain) \in Nat /\ actions \in Nat
  <2>1. chain \in Seq(kWith .. kRetiresOnSaturation)
    BY <1>0 DEF SequenceTypes
  <2>2. actions \in 0 .. MaxClauses
    BY <1>0 DEF FieldTypes
  <2> QED
    BY <2>1, <2>2, Numbers
<1>1. Follows(kWillOnce)
  <2>1. Clause(kWillOnce, Placed(kWillOnce))
    BY DEF WillOnce, Clause, Placed, Multiple
  <2> QED
    BY <2>1, ClauseFollows
<1>2. /\ actions' = actions + 1
      /\ cardinality' = IF specified THEN cardinality ELSE Exactly(actions + 1)
      /\ UNCHANGED <<specified, repeated, retires, retired, callCount, excess, ranOut,
                     performed, checked, open, deleted, nonsense, warnings>>
  BY DEF WillOnce, Implied, state
<1>3. actions \in Nat /\ actions + 1 \in 0 .. MaxClauses
  BY <1>l, <1>1, Numbers DEF FieldsFollow, Follows
<1>4. cardinality' \in CardinalityType /\ cardinality'.min <= cardinality'.max
  <2>1. CASE specified
    BY <1>0, <1>2, <2>1 DEF FieldTypes
  <2>2. CASE ~ specified
    <3>1. actions + 1 \in 0 .. IntMax
      BY <1>3, Numbers
    <3> QED
      BY <1>2, <2>2, <3>1, ExactlyIs
  <2> QED
    BY <2>1, <2>2
<1>5. FieldTypes' /\ SequenceTypes'
  <2>1. FieldTypes'
    BY <1>0, <1>1, <1>2, <1>3, <1>4 DEF FieldTypes, Follows
  <2>2. SequenceTypes'
    BY <1>0, <1>1, <1>2 DEF SequenceTypes, Follows
  <2> QED
    BY <2>1, <2>2
<1>6. FieldsFollow'
  BY <1>l, <1>1, <1>2, <1>3, Numbers DEF FieldsFollow, Follows
<1>7. ~ deleted /\ (InOrder' => ~ checked /\ ~ repeated)
  BY <1>1 DEF Follows, FieldsFollow, Multiple
<1>8. NotYetCalled' /\ ActionsFollowCalls' /\ NotYetRetired'
  <2>1. open' /\ callCount' = 0 /\ performed' = <<>> /\ actions' \in Nat
    BY <1>1, <1>2, <1>3 DEF NotYetCalled, Follows
  <2> QED
    BY <1>1, <1>2, <2>1 DEF NotYetCalled, ActionsFollowCalls, NotYetRetired, Follows
<1>9. ImpliedCardinality'
  BY <1>2, <1>3, <1>7 DEF ImpliedCardinality
<1>10. RunsOutOnlyAsWarned' /\ RetiredBeforeExcess' /\ OnceActionsOnce'
  BY <1>1, <1>2, <1>3 DEF RunsOutOnlyAsWarned, Follows, NotYetCalled, RetiredBeforeExcess,
                          OnceActionsOnce
<1>11. WarningDeserved'
  BY <1>2, <1>7 DEF WarningDeserved
<1> QED
  BY TypeParts, <1>1, <1>5, <1>6, <1>8, <1>9, <1>10, <1>11 DEF Follows

(* The warning, given now or before, is what n, rep, spec and c deserve. *)
LEMMA CheckOnce ==
  ASSUME SequenceTypes, FieldsFollow, NEW n, NEW rep, NEW spec \in BOOLEAN, NEW c,
         CheckActionCountIfNotDone(n, rep, spec, c)
  PROVE  /\ checked' = TRUE
         /\ warnings' \in Seq({"too many", "too few"})
         /\ checked => warnings' = warnings
         /\ ~ checked => /\ Len(warnings') <= 1
                         /\ warnings' # <<>> <=>
                              spec /\ (TooMany(n, rep, c) \/ TooFew(n, rep, c))
<1>1. warnings \in Seq({"too many", "too few"})
  BY DEF SequenceTypes
<1>2. CASE checked
  BY <1>1, <1>2 DEF CheckActionCountIfNotDone
<1>3. CASE ~ checked
  <2>1. warnings = <<>>
    BY <1>3 DEF FieldsFollow
  <2>2. /\ Append(warnings, "too many") = <<"too many">>
        /\ Append(warnings, "too few") = <<"too few">>
    BY <2>1
  <2>3. \/ warnings' = <<>> /\ ~ (spec /\ (TooMany(n, rep, c) \/ TooFew(n, rep, c)))
        \/ /\ warnings' = <<"too many">> \/ warnings' = <<"too few">>
           /\ spec /\ (TooMany(n, rep, c) \/ TooFew(n, rep, c))
    BY <1>3, <2>1, <2>2 DEF CheckActionCountIfNotDone
  <2>4. checked' = TRUE
    BY DEF CheckActionCountIfNotDone
  <2>5. /\ warnings' \in Seq({"too many", "too few"}) /\ Len(warnings') <= 1
        /\ warnings' # <<>> <=> spec /\ (TooMany(n, rep, c) \/ TooFew(n, rep, c))
    <3>1. /\ <<>> \in Seq({"too many", "too few"}) /\ Len(<<>>) <= 1
          /\ \A w \in {"too many", "too few"} :
               <<w>> \in Seq({"too many", "too few"}) /\ Len(<<w>>) <= 1 /\ <<w>> # <<>>
      OBVIOUS
    <3>2. CASE warnings' = <<>> /\ ~ (spec /\ (TooMany(n, rep, c) \/ TooFew(n, rep, c)))
      BY <3>1, <3>2, Zenon
    <3>3. CASE /\ warnings' = <<"too many">> \/ warnings' = <<"too few">>
               /\ spec /\ (TooMany(n, rep, c) \/ TooFew(n, rep, c))
      BY <3>1, <3>3, Zenon
    <3> QED
      BY <2>3, <3>2, <3>3
  <2> QED
    BY <1>3, <2>4, <2>5
<1> QED
  BY <1>2, <1>3

(* A warning that was due when it was checked still is, if nothing changed *)
LEMMA CheckKeepsWarning ==
  ASSUME IInv, ~ open, UNCHANGED <<chain, specified, actions, repeated, cardinality>>,
         CheckActionCountIfNotDone(actions, repeated, specified, cardinality)
  PROVE  WarningDeserved' /\ warnings' \in Seq({"too many", "too few"}) /\ checked' = TRUE
<1> USE DEF IInv, Strong
<1>1. SequenceTypes /\ specified \in BOOLEAN
  BY TypeParts DEF FieldTypes
<1>2. /\ checked' = TRUE
      /\ warnings' \in Seq({"too many", "too few"})
      /\ checked => warnings' = warnings
      /\ ~ checked => /\ Len(warnings') <= 1
                      /\ warnings' # <<>> <=>
                           specified /\ (TooMany(actions, repeated, cardinality)
                                          \/ TooFew(actions, repeated, cardinality))
  BY <1>1, CheckOnce
<1>3. InOrder' <=> InOrder
  BY DEF InOrder
<1> QED
  BY <1>2, <1>3 DEF WarningDeserved, TooMany, TooFew

(* WillRepeatedly() checks the actions before a RetiresOnSaturation() can. *)
LEMMA WillRepeatedlyStep == ASSUME IInv, WillRepeatedly PROVE IInv'
<1> USE DEF IInv, Strong
<1>0. FieldTypes /\ SequenceTypes
  BY TypeParts
<1>l. Len(chain) \in Nat /\ actions \in Nat
  <2>1. chain \in Seq(kWith .. kRetiresOnSaturation)
    BY <1>0 DEF SequenceTypes
  <2>2. actions \in 0 .. MaxClauses
    BY <1>0 DEF FieldTypes
  <2> QED
    BY <2>1, <2>2, Numbers
<1>1. Follows(kWillRepeatedly)
  <2>1. Clause(kWillRepeatedly, Placed(kWillRepeatedly))
    BY DEF WillRepeatedly, Clause, Placed, Multiple
  <2> QED
    BY <2>1, ClauseFollows
<1>2. /\ repeated' = TRUE
      /\ cardinality' = IF specified THEN cardinality ELSE AtLeast(actions)
      /\ CheckActionCountIfNotDone(actions, TRUE, specified, cardinality)
      /\ UNCHANGED <<specified, actions, retires, retired, callCount, excess, ranOut,
                     performed, open, deleted, nonsense>>
  BY DEF WillRepeatedly, state
<1>3. /\ checked' = TRUE
      /\ warnings' \in Seq({"too many", "too few"})
      /\ ~ checked => /\ Len(warnings') <= 1
                      /\ warnings' # <<>> <=>
                           specified /\ (TooMany(actions, TRUE, cardinality)
                                          \/ TooFew(actions, TRUE, cardinality))
      /\ checked => warnings' = warnings
  <2>1. specified \in BOOLEAN
    BY <1>0 DEF FieldTypes
  <2> QED
    BY <1>0, <1>2, <2>1, CheckOnce
<1>4. cardinality' \in CardinalityType /\ cardinality'.min <= cardinality'.max
  <2>1. CASE specified
    BY <1>0, <1>2, <2>1 DEF FieldTypes
  <2>2. CASE ~ specified
    <3>1. actions \in 0 .. IntMax
      BY <1>0, <1>l, Numbers DEF FieldTypes
    <3> QED
      BY <1>2, <2>2, <3>1, ExactlyIs
  <2> QED
    BY <2>1, <2>2
<1>c. checked' = TRUE
  BY <1>3
<1>5. FieldTypes' /\ SequenceTypes'
  <2>1. FieldTypes'
    BY <1>0, <1>1, <1>2, <1>c, <1>4 DEF FieldTypes, Follows
  <2>2. SequenceTypes'
    BY <1>0, <1>1, <1>2, <1>3 DEF SequenceTypes, Follows
  <2> QED
    BY <2>1, <2>2
<1>6. FieldsFollow'
  BY <1>l, <1>1, <1>2, <1>c, Numbers DEF FieldsFollow, Follows
<1>7. InOrder' => ~ checked
  BY <1>1 DEF Follows, FieldsFollow, Multiple
<1>8. NotYetCalled' /\ ActionsFollowCalls' /\ NotYetRetired'
  <2>1. open' /\ callCount' = 0 /\ performed' = <<>>
    BY <1>1, <1>2 DEF NotYetCalled, Follows
  <2> QED
    BY <1>l, <1>1, <1>2, <2>1 DEF NotYetCalled, ActionsFollowCalls, NotYetRetired, Follows
<1>9. ImpliedCardinality'
  BY <1>2 DEF ImpliedCardinality
<1>10. RunsOutOnlyAsWarned' /\ RetiredBeforeExcess' /\ OnceActionsOnce'
  BY <1>1, <1>2 DEF RunsOutOnlyAsWarned, Follows, NotYetCalled, RetiredBeforeExcess,
                    OnceActionsOnce
<1>11. WarningDeserved'
  <2>1. Len(warnings') <= 1
    BY <1>3 DEF WarningDeserved
  <2> QED
    BY <1>2, <1>3, <1>7, <2>1 DEF WarningDeserved, TooMany, TooFew
<1> QED
  BY TypeParts, <1>1, <1>5, <1>6, <1>8, <1>9, <1>10, <1>11 DEF Follows

(* RetiresOnSaturation() checks the actions unless WillRepeatedly() has. *)
LEMMA RetiresOnSaturationStep == ASSUME IInv, RetiresOnSaturation PROVE IInv'
<1> USE DEF IInv, Strong
<1>0. FieldTypes /\ SequenceTypes
  BY TypeParts
<1>l. Len(chain) \in Nat /\ actions \in Nat
  <2>1. chain \in Seq(kWith .. kRetiresOnSaturation)
    BY <1>0 DEF SequenceTypes
  <2>2. actions \in 0 .. MaxClauses
    BY <1>0 DEF FieldTypes
  <2> QED
    BY <2>1, <2>2, Numbers
<1>1. Follows(kRetiresOnSaturation)
  <2>1. Clause(kRetiresOnSaturation, Placed(kRetiresOnSaturation))
    BY DEF RetiresOnSaturation, Clause, Placed, Multiple
  <2> QED
    BY <2>1, ClauseFollows
<1>2. /\ retires' = TRUE
      /\ CheckActionCountIfNotDone(actions, repeated, specified, cardinality)
      /\ UNCHANGED <<specified, cardinality, actions, repeated, retired, callCount, excess,
                     ranOut, performed, open, deleted, nonsense>>
  BY DEF RetiresOnSaturation, state
<1>3. /\ checked' = TRUE
      /\ warnings' \in Seq({"too many", "too few"})
      /\ ~ checked => /\ Len(warnings') <= 1
                      /\ warnings' # <<>> <=>
                           specified /\ (TooMany(actions, repeated, cardinality)
                                          \/ TooFew(actions, repeated, cardinality))
      /\ checked => warnings' = warnings
  <2>1. specified \in BOOLEAN
    BY <1>0 DEF FieldTypes
  <2> QED
    BY <1>0, <1>2, <2>1, CheckOnce
<1>c. checked' = TRUE
  BY <1>3
<1>5. FieldTypes' /\ SequenceTypes'
  <2>1. FieldTypes'
    BY <1>0, <1>1, <1>2, <1>c DEF FieldTypes, Follows
  <2>2. SequenceTypes'
    BY <1>0, <1>1, <1>2, <1>3 DEF SequenceTypes, Follows
  <2> QED
    BY <2>1, <2>2
<1>6. FieldsFollow'
  BY <1>l, <1>1, <1>2, <1>c, Numbers DEF FieldsFollow, Follows
<1>8. NotYetCalled' /\ ActionsFollowCalls' /\ NotYetRetired'
  BY <1>1, <1>2 DEF NotYetCalled, ActionsFollowCalls, NotYetRetired, Follows, IsSaturated
<1>9. ImpliedCardinality'
  BY <1>1, <1>2 DEF ImpliedCardinality, Follows
<1>10. RunsOutOnlyAsWarned' /\ RetiredBeforeExcess' /\ OnceActionsOnce'
  BY <1>1, <1>2 DEF RunsOutOnlyAsWarned, Follows, NotYetCalled, RetiredBeforeExcess,
                    OnceActionsOnce
<1>11. WarningDeserved'
  <2>1. Len(warnings') <= 1
    BY <1>3 DEF WarningDeserved
  <2> QED
    BY <1>1, <1>2, <1>3, <2>1 DEF WarningDeserved, TooMany, TooFew, Follows
<1> QED
  BY TypeParts, <1>1, <1>5, <1>6, <1>8, <1>9, <1>10, <1>11 DEF Follows

(* The end of the statement: the bound is still ahead unless it is 0. *)
LEMMA EndStatementStep == ASSUME IInv, EndStatement PROVE IInv'
<1> USE DEF IInv, Strong
<1>1. /\ open /\ open' = FALSE
      /\ UNCHANGED <<lastClause, specified, cardinality, actions, repeated, retires, retired,
                     callCount, excess, ranOut, performed, checked, deleted, chain, misplaced, nonsense,
                     warnings>>
  BY DEF EndStatement, clauses, state
<1>2. FieldTypes' /\ SequenceTypes'
  BY <1>1, TypeParts DEF FieldTypes, SequenceTypes
<1>3. LastIsLast' /\ FieldsFollow'
  BY <1>1 DEF LastIsLast, FieldsFollow, Named
<1>4. NotYetCalled' /\ ActionsFollowCalls' /\ NotYetRetired'
  BY <1>1 DEF NotYetCalled, ActionsFollowCalls, NotYetRetired, IsSaturated
<1>5. OrderJudged' /\ ImpliedCardinality' /\ WarningDeserved' /\ RunsOutOnlyAsWarned'
  BY <1>1 DEF OrderJudged, ImpliedCardinality, WarningDeserved, RunsOutOnlyAsWarned, InOrder
<1>6. OnceActionsOnce' /\ RetiredBeforeExcess'
  BY <1>1 DEF OnceActionsOnce, RetiredBeforeExcess
<1> QED
  BY TypeParts, <1>2, <1>3, <1>4, <1>5, <1>6

(* What a call leaves alone, whoever handles it *)
LEMMA CallKeeps ==
  ASSUME IInv, ~ open, UNCHANGED <<lastClause, clauses, open, chain, misplaced, nonsense>>,
         CheckActionCountIfNotDone(actions, repeated, specified, cardinality)
  PROVE  /\ checked' = TRUE /\ (performed' \in Seq(Nat \ {0}) => SequenceTypes')
         /\ LastIsLast' /\ FieldsFollow' /\ NotYetCalled'
         /\ OrderJudged' /\ ImpliedCardinality' /\ WarningDeserved'
         /\ InOrder' <=> InOrder
<1> USE DEF IInv, Strong
<1>0. FieldTypes /\ SequenceTypes
  BY TypeParts
<1>1. UNCHANGED <<specified, cardinality, actions, repeated, retires>>
  BY DEF clauses
<1>2. WarningDeserved' /\ warnings' \in Seq({"too many", "too few"}) /\ checked' = TRUE
  BY <1>1, CheckKeepsWarning
<1>3. performed' \in Seq(Nat \ {0}) => SequenceTypes'
  BY <1>0, <1>2 DEF SequenceTypes
<1>4. LastIsLast' /\ FieldsFollow' /\ NotYetCalled'
  BY <1>1, <1>2 DEF LastIsLast, FieldsFollow, NotYetCalled, Named
<1>5. OrderJudged' /\ ImpliedCardinality' /\ (InOrder' <=> InOrder)
  BY <1>1 DEF OrderJudged, ImpliedCardinality, InOrder
<1> QED
  BY <1>2, <1>3, <1>4, <1>5

(* A call that finds the expectation retired only checks the actions. *)
LEMMA RetiredStep == ASSUME IInv, Retired PROVE IInv'
<1> USE DEF IInv, Strong
<1>0. FieldTypes /\ SequenceTypes
  BY TypeParts
<1>1. /\ ~ open /\ retired
      /\ CheckActionCountIfNotDone(actions, repeated, specified, cardinality)
      /\ UNCHANGED <<lastClause, clauses, life, chain, misplaced, nonsense>>
      /\ UNCHANGED <<specified, cardinality, actions, repeated, retires, retired, callCount,
                     excess, ranOut, performed>>
  BY DEF Retired, clauses, state
<1>2. /\ checked' = TRUE /\ (performed' \in Seq(Nat \ {0}) => SequenceTypes')
      /\ LastIsLast' /\ FieldsFollow' /\ NotYetCalled'
      /\ OrderJudged' /\ ImpliedCardinality' /\ WarningDeserved'
      /\ InOrder' <=> InOrder
  BY <1>1, CallKeeps
<1>c. checked' = TRUE
  BY <1>2
<1>3. FieldTypes'
  BY <1>0, <1>1, <1>c DEF FieldTypes
<1>4. SequenceTypes'
  BY <1>0, <1>1, <1>2 DEF SequenceTypes
<1>5. ActionsFollowCalls' /\ NotYetRetired'
  BY <1>1 DEF ActionsFollowCalls, NotYetRetired, IsSaturated
<1>6. RunsOutOnlyAsWarned'
  <2>1. warnings # <<>> => warnings' # <<>>
    BY <1>1 DEF CheckActionCountIfNotDone, FieldsFollow
  <2> QED
    BY <1>1, <1>2, <2>1 DEF RunsOutOnlyAsWarned
<1>7. OnceActionsOnce' /\ RetiredBeforeExcess'
  BY <1>1 DEF OnceActionsOnce, RetiredBeforeExcess
<1> QED
  BY TypeParts, <1>2, <1>3, <1>4, <1>5, <1>6, <1>7

(* A call too many: the expectation was not one to retire, or had bound 0. *)
LEMMA ExcessiveCallStep == ASSUME IInv, ExcessiveCall PROVE IInv'
<1> USE DEF IInv, Strong
<1>0. FieldTypes /\ SequenceTypes
  BY TypeParts
<1>1. /\ ~ open /\ ~ retired /\ IsSaturated
      /\ callCount' = callCount + 1 /\ excess' = excess + 1
      /\ CheckActionCountIfNotDone(actions, repeated, specified, cardinality)
      /\ UNCHANGED <<lastClause, clauses, life, chain, misplaced, nonsense>>
      /\ UNCHANGED <<specified, cardinality, actions, repeated, retires, retired, ranOut,
                     performed>>
  BY DEF ExcessiveCall, clauses
<1>2. /\ checked' = TRUE /\ (performed' \in Seq(Nat \ {0}) => SequenceTypes')
      /\ LastIsLast' /\ FieldsFollow' /\ NotYetCalled'
      /\ OrderJudged' /\ ImpliedCardinality' /\ WarningDeserved'
      /\ InOrder' <=> InOrder
  BY <1>1, CallKeeps
<1>c. checked' = TRUE
  BY <1>2
<1>3. FieldTypes'
  BY <1>0, <1>1, <1>c DEF FieldTypes
<1>4. SequenceTypes'
  BY <1>0, <1>1, <1>2 DEF SequenceTypes
<1>s. callCount >= cardinality.max /\ cardinality.max \in Nat /\ callCount \in Nat
  BY <1>0, <1>1 DEF IsSaturated, IsSaturatedByCallCount, FieldTypes, CardinalityType
<1>5. ActionsFollowCalls' /\ NotYetRetired' /\ RetiredBeforeExcess'
  BY <1>1, <1>s DEF ActionsFollowCalls, NotYetRetired, IsSaturated, IsSaturatedByCallCount,
                    RetiredBeforeExcess
<1>6. RunsOutOnlyAsWarned'
  <2>1. warnings # <<>> => warnings' # <<>>
    BY <1>1 DEF CheckActionCountIfNotDone, FieldsFollow
  <2> QED
    BY <1>1, <1>2, <2>1 DEF RunsOutOnlyAsWarned
<1>7. OnceActionsOnce'
  BY <1>1 DEF OnceActionsOnce
<1> QED
  BY TypeParts, <1>2, <1>3, <1>4, <1>5, <1>6, <1>7

(* Appending the next number to 1, 2, ... *)
LEMMA CountUp ==
  ASSUME NEW p \in Seq(Nat \ {0}), p = [k \in 1 .. Len(p) |-> k]
  PROVE  LET q == Append(p, Len(p) + 1)
         IN  /\ q \in Seq(Nat \ {0}) /\ Len(q) = Len(p) + 1
             /\ q = [k \in 1 .. Len(q) |-> k]
<1> DEFINE q == Append(p, Len(p) + 1)
<1>1. Len(p) \in Nat /\ Len(p) + 1 \in Nat \ {0}
  OBVIOUS
<1>2. q \in Seq(Nat \ {0}) /\ Len(q) = Len(p) + 1
  BY <1>1
<1>3. \A k \in 1 .. Len(q) : q[k] = k
  BY <1>1, <1>2
<1>4. q = [k \in 1 .. Len(q) |-> q[k]]
  BY <1>2
<1> HIDE DEF q
<1>5. q = [k \in 1 .. Len(q) |-> k]
  BY <1>3, <1>4
<1> QED
  BY <1>2, <1>5 DEF q

(* A call within the bounds takes the next action, or finds none as warned. *)
LEMMA CallStep == ASSUME IInv, Call PROVE IInv'
<1> USE DEF IInv, Strong
<1>0. FieldTypes /\ SequenceTypes
  BY TypeParts
<1>1. /\ ~ open /\ ~ retired /\ ~ IsSaturated
      /\ callCount' = callCount + 1
      /\ CheckActionCountIfNotDone(actions, repeated, specified, cardinality)
      /\ UNCHANGED <<lastClause, clauses, life, chain, misplaced, nonsense>>
      /\ UNCHANGED <<specified, cardinality, actions, repeated, retires, excess>>
  BY DEF Call, clauses
<1>2. /\ checked' = TRUE /\ (performed' \in Seq(Nat \ {0}) => SequenceTypes')
      /\ LastIsLast' /\ FieldsFollow' /\ NotYetCalled'
      /\ OrderJudged' /\ ImpliedCardinality' /\ WarningDeserved'
      /\ InOrder' <=> InOrder
  BY <1>1, CallKeeps
<1>n. /\ callCount \in Nat /\ actions \in Nat
      /\ cardinality.min \in Nat /\ cardinality.max \in Nat
      /\ callCount < cardinality.max
      /\ repeated \in BOOLEAN /\ specified \in BOOLEAN /\ retires \in BOOLEAN
  BY <1>0, <1>1, Numbers DEF FieldTypes, CardinalityType, IsSaturated, IsSaturatedByCallCount
<1>r. /\ retired' = (retires /\ callCount + 1 >= cardinality.max)
      /\ ranOut' = IF actions > 0 /\ ~ repeated /\ callCount + 1 > actions
                   THEN ranOut \union {callCount + 1} ELSE ranOut
  BY DEF Call, SaturatedBy, IsSaturatedByCallCount
<1>3. FieldTypes'
  <2>1. retired' \in BOOLEAN /\ checked' \in BOOLEAN /\ callCount' \in Nat
    BY <1>1, <1>2, <1>n, <1>r
  <2>2. ranOut' \subseteq Nat \ {0}
    BY <1>0, <1>n, <1>r DEF FieldTypes
  <2> QED
    BY <1>0, <1>1, <2>1, <2>2 DEF FieldTypes
<1>4. Len(performed) = IF callCount <= actions THEN callCount ELSE actions
  BY <1>1 DEF ActionsFollowCalls
<1>5. /\ performed' \in Seq(Nat \ {0}) /\ OnceActionsOnce'
      /\ Len(performed') = IF callCount' <= actions THEN callCount' ELSE actions
  <2>1. performed \in Seq(Nat \ {0})
    BY <1>0 DEF SequenceTypes
  <2>2. CASE callCount + 1 <= actions
    <3>1. performed' = Append(performed, Len(performed) + 1)
      BY <1>4, <1>n, <2>2 DEF Call, CurrentAction
    <3>2. performed = [k \in 1 .. Len(performed) |-> k]
      BY DEF OnceActionsOnce
    <3>3. /\ performed' \in Seq(Nat \ {0}) /\ Len(performed') = Len(performed) + 1
          /\ performed' = [k \in 1 .. Len(performed') |-> k]
      BY <2>1, <3>1, <3>2, CountUp
    <3>4. Len(performed') = callCount'
      BY <1>1, <1>4, <1>n, <2>2, <3>3
    <3>5. Len(performed') <= actions'
      BY <1>1, <2>2, <3>4
    <3> QED
      BY <1>1, <2>2, <3>3, <3>4, <3>5 DEF OnceActionsOnce
  <2>3. CASE ~ callCount + 1 <= actions
    <3>1. performed' = performed
      BY <1>n, <2>3 DEF Call, CurrentAction
    <3>2. Len(performed) = actions
      BY <1>4, <1>n, <2>3
    <3> QED
      BY <1>1, <1>n, <2>1, <2>3, <3>1, <3>2 DEF OnceActionsOnce
  <2> QED
    BY <2>2, <2>3
<1>6. ActionsFollowCalls' /\ NotYetRetired' /\ RetiredBeforeExcess'
  BY <1>1, <1>n, <1>r, <1>5 DEF ActionsFollowCalls, NotYetRetired, RetiredBeforeExcess
<1>7. RunsOutOnlyAsWarned'
  <2>1. warnings # <<>> => warnings' # <<>>
    BY <1>1 DEF CheckActionCountIfNotDone, FieldsFollow
  <2>2. ASSUME InOrder, actions > 0, ~ repeated, callCount + 1 > actions
        PROVE  specified /\ (callCount + 1 <= cardinality.min => warnings' # <<>>)
    <3>1. specified
      <4> SUFFICES ASSUME ~ specified PROVE FALSE
        OBVIOUS
      <4>1. cardinality = Exactly(actions) /\ actions \in 0 .. IntMax
        BY <1>0, <2>2, Numbers DEF ImpliedCardinality, FieldTypes
      <4>2. cardinality.max = actions
        BY <4>1, ExactlyIs
      <4> QED
        BY <1>n, <2>2, <4>2
    <3>2. callCount + 1 <= cardinality.min => TooFew(actions, repeated, cardinality)
      BY <1>n, <2>2 DEF TooFew
    <3>3. WarningDeserved' /\ checked' = TRUE /\ InOrder'
      BY <1>2, <2>2
    <3>4. TooFew(actions, repeated, cardinality) => warnings' # <<>>
      BY <1>1, <3>1, <3>3 DEF WarningDeserved, TooFew
    <3> QED
      BY <3>1, <3>2, <3>4
  <2>3. ASSUME InOrder', NEW n \in ranOut'
        PROVE  specified' /\ (n <= cardinality'.min => warnings' # <<>>)
    <3>1. CASE n \in ranOut
      BY <1>1, <1>2, <2>1, <2>3, <3>1 DEF RunsOutOnlyAsWarned
    <3>2. CASE n \notin ranOut
      BY <1>1, <1>2, <1>r, <2>2, <2>3, <3>2
    <3> QED
      BY <3>1, <3>2
  <2> QED
    BY <2>3 DEF RunsOutOnlyAsWarned
<1> QED
  BY TypeParts, <1>2, <1>3, <1>5, <1>6, <1>7

(* An expectation that is deleted has been checked. *)
LEMMA DeleteStep == ASSUME IInv, DeleteExpectation PROVE IInv'
<1> USE DEF IInv, Strong
<1>0. FieldTypes /\ SequenceTypes
  BY TypeParts
<1>1. /\ ~ open /\ deleted' = TRUE
      /\ CheckActionCountIfNotDone(actions, repeated, specified, cardinality)
      /\ UNCHANGED <<lastClause, clauses, open, chain, misplaced, nonsense>>
      /\ UNCHANGED <<specified, cardinality, actions, repeated, retires, retired, callCount,
                     excess, ranOut, performed>>
  BY DEF DeleteExpectation, clauses, state
<1>2. /\ checked' = TRUE /\ (performed' \in Seq(Nat \ {0}) => SequenceTypes')
      /\ LastIsLast' /\ FieldsFollow' /\ NotYetCalled'
      /\ OrderJudged' /\ ImpliedCardinality' /\ WarningDeserved'
      /\ InOrder' <=> InOrder
  BY <1>1, CallKeeps
<1>c. checked' = TRUE
  BY <1>2
<1>3. FieldTypes'
  BY <1>0, <1>1, <1>c DEF FieldTypes
<1>4. SequenceTypes'
  BY <1>0, <1>1, <1>2 DEF SequenceTypes
<1>5. ActionsFollowCalls' /\ NotYetRetired'
  BY <1>1 DEF ActionsFollowCalls, NotYetRetired, IsSaturated
<1>6. RunsOutOnlyAsWarned'
  <2>1. warnings # <<>> => warnings' # <<>>
    BY <1>1 DEF CheckActionCountIfNotDone, FieldsFollow
  <2> QED
    BY <1>1, <1>2, <2>1 DEF RunsOutOnlyAsWarned
<1>7. OnceActionsOnce' /\ RetiredBeforeExcess'
  BY <1>1 DEF OnceActionsOnce, RetiredBeforeExcess
<1> QED
  BY TypeParts, <1>2, <1>3, <1>4, <1>5, <1>6, <1>7

--------------------------------------------------------------------------------
(* The theorems *)

(* An expectation before its first clause *)
LEMMA Initially == Init => IInv
<1> SUFFICES ASSUME Init PROVE IInv
  OBVIOUS
<1> USE DEF Init
<1>1. Exactly(1) = [min |-> 1, max |-> 1] /\ Exactly(1) \in CardinalityType
  BY Numbers, ExactlyIs
<1>2. FieldTypes
  <2>1. cardinality \in CardinalityType /\ cardinality.min <= cardinality.max
    BY <1>1
  <2>2. actions \in 0 .. MaxClauses
    BY Numbers
  <2>3. /\ lastClause \in kNone .. kRetiresOnSaturation /\ callCount \in Nat
        /\ misplaced \in Nat /\ nonsense \in Nat /\ excess \in Nat
        /\ ranOut \subseteq Nat \ {0}
    OBVIOUS
  <2>4. /\ specified \in BOOLEAN /\ repeated \in BOOLEAN /\ retires \in BOOLEAN
        /\ retired \in BOOLEAN /\ checked \in BOOLEAN /\ open \in BOOLEAN /\ deleted \in BOOLEAN
    OBVIOUS
  <2> HIDE DEF Init
  <2> QED
    BY <2>1, <2>2, <2>3, <2>4 DEF FieldTypes
<1>3. SequenceTypes
  BY DEF SequenceTypes
<1>4. Strong
  BY <1>1, Numbers DEF Strong, LastIsLast, FieldsFollow, NotYetCalled, ActionsFollowCalls,
                       NotYetRetired
<1>5. OrderJudged /\ ImpliedCardinality /\ WarningDeserved
  BY DEF OrderJudged, InOrder, ImpliedCardinality, WarningDeserved
<1>6. RunsOutOnlyAsWarned /\ OnceActionsOnce /\ RetiredBeforeExcess
  BY DEF RunsOutOnlyAsWarned, OnceActionsOnce, RetiredBeforeExcess
<1> QED
  BY TypeParts, <1>2, <1>3, <1>4, <1>5, <1>6 DEF IInv

(* Nothing is lost by a step that changes nothing. *)
LEMMA Stuttering == IInv /\ UNCHANGED vars => IInv'
<1> SUFFICES ASSUME IInv, UNCHANGED vars PROVE IInv'
  OBVIOUS
<1> USE DEF IInv, Strong
<1>1. UNCHANGED <<lastClause, specified, cardinality, actions, repeated, retires, retired,
                  callCount, excess, ranOut, performed, checked, open, deleted, chain, misplaced,
                  nonsense, warnings>>
  BY DEF vars, clauses, state
<1>2. FieldTypes' /\ SequenceTypes'
  BY <1>1, TypeParts DEF FieldTypes, SequenceTypes
<1>3. LastIsLast' /\ FieldsFollow' /\ NotYetCalled' /\ ActionsFollowCalls' /\ NotYetRetired'
  BY <1>1 DEF LastIsLast, FieldsFollow, Named, NotYetCalled, ActionsFollowCalls, NotYetRetired,
              IsSaturated
<1>4. OrderJudged' /\ ImpliedCardinality' /\ WarningDeserved' /\ RunsOutOnlyAsWarned'
      /\ OnceActionsOnce' /\ RetiredBeforeExcess'
  BY <1>1 DEF OrderJudged, ImpliedCardinality, WarningDeserved, RunsOutOnlyAsWarned, InOrder,
              OnceActionsOnce, RetiredBeforeExcess
<1> QED
  BY TypeParts, <1>2, <1>3, <1>4

(* The invariant is inductive: one case for each clause and each call. *)
LEMMA Inductive == IInv /\ [Next]_vars => IInv'
<1> SUFFICES ASSUME IInv, [Next]_vars PROVE IInv'
  OBVIOUS
<1>1. CASE With \/ InSequence \/ After
  <2>1. PICK c \in kWith .. kRetiresOnSaturation :
          /\ Clause(c, Placed(c))
          /\ UNCHANGED <<clauses, checked, state, life, nonsense, warnings>>
    <3>1. CASE With
      BY <3>1 DEF With, Clause, Placed, Multiple
    <3>2. CASE InSequence
      BY <3>2 DEF InSequence, Clause, Placed, Multiple
    <3>3. CASE After
      BY <3>3 DEF After, Clause, Placed, Multiple
    <3> QED
      BY <1>1, <3>1, <3>2, <3>3
  <2> QED
    BY <2>1, PlainClauseStep
<1>2. CASE Times
  BY <1>2, TimesStep
<1>3. CASE WillOnce
  BY <1>3, WillOnceStep
<1>4. CASE WillRepeatedly
  BY <1>4, WillRepeatedlyStep
<1>5. CASE RetiresOnSaturation
  BY <1>5, RetiresOnSaturationStep
<1>6. CASE EndStatement
  BY <1>6, EndStatementStep
<1>7. CASE Retired
  BY <1>7, RetiredStep
<1>8. CASE ExcessiveCall
  BY <1>8, ExcessiveCallStep
<1>9. CASE Call
  BY <1>9, CallStep
<1>10. CASE DeleteExpectation
  BY <1>10, DeleteStep
<1>11. CASE UNCHANGED vars
  BY <1>11, Stuttering
<1> QED
  BY <1>1, <1>2, <1>3, <1>4, <1>5, <1>6, <1>7, <1>8, <1>9, <1>10, <1>11 DEF Next

(* The inductive invariant holds in every reachable state. *)
THEOREM Invariant == Spec => []IInv
<1>1. Init => IInv
  BY Initially
<1>2. IInv /\ [Next]_vars => IInv'
  BY Inductive
<1> QED
  BY <1>1, <1>2, PTL DEF Spec

(* Every field keeps its type, and the bounds of an expectation can be met,   *)
(* whatever Times() was given.                                               *)
THEOREM TypeCorrect == Spec => []TypeOK
<1>1. IInv => TypeOK
  BY DEF IInv
<1> QED
  BY <1>1, Invariant, PTL

(* Comparing a clause with the one before it finds exactly the statements    *)
(* out of order, however long they are.                                      *)
THEOREM JudgedRightly == Spec => []OrderJudged
<1>1. IInv => OrderJudged
  BY DEF IInv
<1> QED
  BY <1>1, Invariant, PTL

(* A statement without Times() means what its actions say. *)
THEOREM ImpliedRightly == Spec => []ImpliedCardinality
<1>1. IInv => ImpliedCardinality
  BY DEF IInv
<1> QED
  BY <1>1, Invariant, PTL

(* The early, single check of the actions warns of what deserves it. *)
THEOREM WarnedRightly == Spec => []WarningDeserved
<1>1. IInv => WarningDeserved
  BY DEF IInv
<1> QED
  BY <1>1, Invariant, PTL

(* Actions run out only as announced. *)
THEOREM RunsOutWarned == Spec => []RunsOutOnlyAsWarned
<1>1. IInv => RunsOutOnlyAsWarned
  BY DEF IInv
<1> QED
  BY <1>1, Invariant, PTL

(* No WillOnce() action is performed twice: OnceAction may be moved from. *)
THEOREM ActionsOnce == Spec => []OnceActionsOnce
<1>1. IInv => OnceActionsOnce
  BY DEF IInv
<1> QED
  BY <1>1, Invariant, PTL

(* What retires on saturation is gone before the first call too many. *)
THEOREM GoneBeforeExcess == Spec => []RetiredBeforeExcess
<1>1. IInv => RetiredBeforeExcess
  BY DEF IInv
<1> QED
  BY <1>1, Invariant, PTL

(* What a statement reports, implies and warns of is right, of any length.   *)
THEOREM JudgedThroughout == Spec => []StatementJudged
<1>1. IInv => StatementJudged
  BY DEF IInv, StatementJudged
<1> QED
  BY <1>1, Invariant, PTL

(* The actions of a statement suffice for its calls, however many there are. *)
THEOREM Sufficient == Spec => []ActionsSuffice
<1>1. IInv => ActionsSuffice
  BY DEF IInv, ActionsSuffice
<1> QED
  BY <1>1, Invariant, PTL
================================================================================
