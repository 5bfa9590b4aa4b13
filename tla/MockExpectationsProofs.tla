------------------------ MODULE MockExpectationsProofs -------------------------
(***************************************************************************)
(* Proofs about MockExpectations: its inductive invariant, and the          *)
(* properties that follow from it for any number of expectations, mock      *)
(* functions, arguments, sequences and any cardinalities.                   *)
(***************************************************************************)
EXTENDS MockExpectations, TLAPS

(* Lemmas about Reach: it is the least closed set that contains the start. *)

(* The walk visits what it starts from. *)
LEMMA ReachContains ==
  ASSUME NEW N, NEW S \in SUBSET N, NEW E
  PROVE  S \subseteq Reach(N, S, E)
BY DEF Reach

(* The walk follows every edge of what it visits. *)
LEMMA ReachClosed ==
  ASSUME NEW N, NEW S, NEW E, \A x \in N : E[x] \subseteq N
  PROVE  Closed(Reach(N, S, E), E)
BY DEF Reach, Closed

(* The walk visits nothing else: a closed set that contains the start        *)
(* contains all it visits.                                                   *)
LEMMA ReachLeast ==
  ASSUME NEW N, NEW S, NEW E, NEW T \in SUBSET N, S \subseteq T, Closed(T, E)
  PROVE  Reach(N, S, E) \subseteq T
BY DEF Reach

(* More edges, or more to start from, never lose a node. *)
LEMMA ReachMonotonic ==
  ASSUME NEW N, NEW S \in SUBSET N, NEW E, \A x \in N : E[x] \subseteq N,
         NEW S1, NEW E1, S1 \subseteq S, \A x \in N : E1[x] \subseteq E[x]
  PROVE  Reach(N, S1, E1) \subseteq Reach(N, S, E)
<1> DEFINE T == Reach(N, S, E)
<1>1. T \in SUBSET N
  BY DEF Reach
<1>2. S1 \subseteq T
  BY ReachContains
<1>3. Closed(T, E1)
  BY <1>1, ReachClosed DEF Closed
<1> HIDE DEF T
<1>4. Reach(N, S1, E1) \subseteq T
  BY <1>1, <1>2, <1>3, ReachLeast
<1> QED
  BY <1>4 DEF T

(* What a node's successors reach, the node reaches. *)
LEMMA ReachTransitive ==
  ASSUME NEW N, NEW P, \A x \in N : P[x] \subseteq N, NEW e \in N,
         NEW p \in Reach(N, P[e], P)
  PROVE  p \in N /\ Reach(N, P[p], P) \subseteq Reach(N, P[e], P)
<1> DEFINE T == Reach(N, P[e], P)
<1>1. T \in SUBSET N
  BY DEF Reach
<1>2. Closed(T, P)
  BY ReachClosed
<1>3. P[p] \subseteq T
  BY <1>2 DEF Closed
<1>4. p \in N
  BY <1>1
<1> HIDE DEF T
<1>5. Reach(N, P[p], P) \subseteq T
  BY <1>1, <1>2, <1>3, ReachLeast
<1> QED
  BY <1>4, <1>5 DEF T

(* A node that no edge leads to is not reached. *)
LEMMA ReachAvoids ==
  ASSUME NEW N, NEW P, NEW o, \A x \in N : P[x] \subseteq N \ {o}, NEW e \in N
  PROVE  o \notin Reach(N, P[e], P)
<1> DEFINE T == N \ {o}
<1>1. T \in SUBSET N /\ P[e] \subseteq T /\ Closed(T, P)
  BY DEF Closed
<1>2. o \notin T
  OBVIOUS
<1> HIDE DEF T
<1> QED
  BY <1>1, <1>2, ReachLeast

(* New edges out of such a node change nothing for the others. *)
LEMMA ReachUnaffected ==
  ASSUME NEW N, NEW P, NEW Q, NEW o,
         \A x \in N : P[x] \subseteq N \ {o}, \A x \in N \ {o} : P[x] = Q[x],
         NEW f \in N \ {o}
  PROVE  Reach(N, Q[f], Q) \subseteq Reach(N, P[f], P)
<1> DEFINE A == Reach(N, P[f], P)
<1>1. o \notin A
  BY ReachAvoids
<1>2. A \in SUBSET N
  BY DEF Reach
<1>3. Closed(A, P)
  BY ReachClosed
<1>4. P[f] \subseteq A
  BY ReachContains
<1> HIDE DEF A
<1>5. Closed(A, Q) /\ Q[f] \subseteq A
  BY <1>1, <1>2, <1>3, <1>4 DEF Closed
<1>6. Reach(N, Q[f], Q) \subseteq A
  BY <1>2, <1>5, ReachLeast
<1> QED
  BY <1>6 DEF A

--------------------------------------------------------------------------------
(* Only expectations that were made, and whose statement is over, have been  *)
(* called or retired; the statement that is running is the newest one.       *)
Made ==
  /\ open \in {0, count}
  /\ \A e \in Ids : callCount[e] > 0 \/ e \in retired => e <= count /\ e # open
  /\ \A m \in Mockers : expectations[m] \subseteq Exps
  /\ \A s \in AllSeq : lastExpectation[s] <= count
  /\ \A e \in Ids : prereqs[e] # {} => e <= count

(* A cardinality the library builds is never empty. *)
BoundsInOrder == \A e \in Ids : cardinality[e].min <= cardinality[e].max

(* What RetireAllPreRequisites relies on, one edge at a time. *)
RetiredDone ==
  \A x \in retired : IsSatisfied(x) /\ prereqs[x] \subseteq retired

CalledFreezes ==
  \A x \in Ids : callCount[x] > 0 /\ cardinality[x].max > 0 =>
    prereqs[x] \subseteq retired

IInv == TypeOK /\ Made /\ BoundsInOrder /\ RetiredDone /\ CalledFreezes

--------------------------------------------------------------------------------
(* Facts about the helpers *)

(* The cardinalities of the library are records of that type, and bounds in  *)
(* order.                                                                    *)
LEMMA ExactlyOne ==
  /\ Exactly(1) \in CardinalityType
  /\ Exactly(1).min = 1 /\ Exactly(1).max = 1
BY IntMaxAssumption DEF Exactly, Between, CardinalityType

LEMMA BoundsAreNumbers == MaxExp \in Nat \ {0} /\ MaxScope \in Nat
BY MockExpectationsAssumption

(* Prerequisites are older: nothing is its own ancestor. *)
LEMMA AncestorsOlder ==
  ASSUME TypeOK, NEW e \in Ids
  PROVE  Ancestors(e) \subseteq {p \in Ids : p < e}
<1> DEFINE T == {p \in Ids : p < e}
<1>1. T \in SUBSET Ids /\ prereqs[e] \subseteq T
  BY DEF TypeOK
<1>2. Closed(T, prereqs)
  <2> SUFFICES ASSUME NEW x \in T, NEW y \in prereqs[x]
               PROVE  y \in T
    BY DEF Closed
  <2>1. x \in Ids /\ y \in Ids /\ y < x
    BY DEF TypeOK
  <2> QED
    BY <2>1 DEF Ids
<1> HIDE DEF T
<1>3. Reach(Ids, prereqs[e], prereqs) \subseteq T
  BY <1>1, <1>2, ReachLeast
<1> QED
  BY <1>3 DEF Ancestors, T

(* The ancestors hold the prerequisites, and those of every ancestor. *)
LEMMA AncestorsClosed ==
  ASSUME TypeOK, NEW e \in Ids
  PROVE  /\ Ancestors(e) \subseteq Ids
         /\ prereqs[e] \subseteq Ancestors(e)
         /\ \A x \in Ancestors(e) : prereqs[x] \subseteq Ancestors(e)
<1>1. prereqs[e] \in SUBSET Ids /\ \A x \in Ids : prereqs[x] \subseteq Ids
  BY DEF TypeOK
<1>2. prereqs[e] \subseteq Reach(Ids, prereqs[e], prereqs)
  BY <1>1, ReachContains
<1>3. Closed(Reach(Ids, prereqs[e], prereqs), prereqs)
  BY <1>1, ReachClosed
<1>4. Reach(Ids, prereqs[e], prereqs) \subseteq Ids
  BY DEF Reach
<1> QED
  BY <1>2, <1>3, <1>4 DEF Ancestors, Closed

(* The ancestors are the least such set. *)
LEMMA AncestorsLeast ==
  ASSUME NEW e \in Ids, NEW T \in SUBSET Ids, prereqs[e] \subseteq T,
         \A x \in T : prereqs[x] \subseteq T
  PROVE  Ancestors(e) \subseteq T
BY ReachLeast DEF Ancestors, Closed

(* RetireAllPreRequisites retires ancestors only, the immediate              *)
(* prerequisites among them, and what it retires has its prerequisites       *)
(* retired too.                                                              *)
LEMMA RetireAllEffect ==
  ASSUME TypeOK, NEW e \in Ids, e \notin retired
  PROVE  LET R == RetireAllPreRequisites(e)
         IN  /\ retired \subseteq R
             /\ R \subseteq retired \union Ancestors(e)
             /\ prereqs[e] \subseteq R
             /\ \A x \in R \ retired : prereqs[x] \subseteq R
<1> DEFINE E == [x \in Ids |-> prereqs[x] \ retired]
           S == prereqs[e] \ retired
           W == Reach(Ids, S, E)
<1>1. RetireAllPreRequisites(e) = retired \union W
  BY DEF RetireAllPreRequisites
<1>2. S \in SUBSET Ids /\ prereqs[e] \in SUBSET Ids
  BY DEF TypeOK
<1>3. \A x \in Ids : E[x] = prereqs[x] \ retired
  OBVIOUS
<1>4. \A x \in Ids : E[x] \subseteq Ids /\ prereqs[x] \subseteq Ids
  BY DEF TypeOK
<1> HIDE DEF E
<1>5. S \subseteq W
  BY <1>2, ReachContains
<1>6. Closed(W, E)
  BY <1>4, ReachClosed
<1>7. W \subseteq Ids
  BY DEF Reach
<1>8. \A x \in W : prereqs[x] \subseteq retired \union W
  BY <1>3, <1>6, <1>7 DEF Closed
<1>9. W \subseteq Reach(Ids, prereqs[e], prereqs)
  BY <1>2, <1>3, <1>4, ReachMonotonic
<1> HIDE DEF W
<1> QED
  BY <1>1, <1>5, <1>8, <1>9 DEF Ancestors

--------------------------------------------------------------------------------
(* The invariant is inductive: the initial states, then one lemma per action *)

LEMMA InitIInv == Init => IInv
<1> SUFFICES ASSUME Init PROVE IInv
  OBVIOUS
<1>1. TypeOK
  BY ExactlyOne, MockExpectationsAssumption DEF Init, TypeOK, Ids
<1>2. Made
  BY MockExpectationsAssumption DEF Init, Made, Ids, AllSeq, Exps
<1>3. BoundsInOrder
  BY ExactlyOne DEF Init, BoundsInOrder
<1>4. RetiredDone /\ CalledFreezes
  BY DEF Init, RetiredDone, CalledFreezes
<1> QED
  BY <1>1, <1>2, <1>3, <1>4 DEF IInv

(* Sequence::AddExpectation gives the newest expectation an older            *)
(* prerequisite, or none.                                                    *)
LEMMA AddExpectationEffect ==
  ASSUME TypeOK, Made, NEW s \in AllSeq, NEW e \in Ids,
         \A r \in AllSeq : lastExpectation[r] <= e, AddExpectation(s, e)
  PROVE  /\ prereqs' \in [Ids -> SUBSET Ids]
         /\ \A x \in Ids : x # e => prereqs'[x] = prereqs[x]
         /\ \A p \in prereqs'[e] : p \in prereqs[e] \/ p < e
         /\ lastExpectation' \in [AllSeq -> 0 .. MaxExp]
         /\ \A r \in AllSeq : lastExpectation'[r] <= e
         /\ members' \in [AllSeq -> SUBSET Ids]
<1>1. CASE lastExpectation[s] = e
  BY <1>1 DEF AddExpectation, TypeOK
<1>2. CASE lastExpectation[s] # e
  <2>1. lastExpectation[s] \in 0 .. MaxExp /\ lastExpectation[s] < e
    BY <1>2 DEF TypeOK, Ids
  <2>2. lastExpectation' = [lastExpectation EXCEPT ![s] = e]
        /\ members' = [members EXCEPT ![s] = @ \union {e}]
    BY <1>2 DEF AddExpectation
  <2>3. CASE lastExpectation[s] = 0
    BY <1>2, <2>1, <2>2, <2>3 DEF AddExpectation, TypeOK, Ids
  <2>4. CASE lastExpectation[s] # 0
    <3>1. prereqs' = [prereqs EXCEPT ![e] = @ \union {lastExpectation[s]}]
      BY <1>2, <2>4 DEF AddExpectation
    <3> QED
      BY <2>1, <2>2, <2>4, <3>1 DEF TypeOK, Ids
  <2> QED
    BY <2>3, <2>4
<1> QED
  BY <1>1, <1>2

LEMMA AddNewExpectationIInv ==
  ASSUME IInv, NEW m \in Mockers, NEW A \in ArgMatchers, AddNewExpectation(m, A)
  PROVE  IInv'
<1> DEFINE e == count + 1
<1> USE DEF IInv
<1>1. /\ open = 0 /\ e \in Ids /\ count' = e /\ open' = e
      /\ matchers' = [matchers EXCEPT ![e] = A]
      /\ expectations' = [expectations EXCEPT ![m] = @ \union {e}]
      /\ clause' = kNone
      /\ UNCHANGED <<callVars, cardinality, retires, scopes, verdict>>
  BY BoundsAreNumbers DEF AddNewExpectation, TypeOK, Ids
<1>2. /\ prereqs' \in [Ids -> SUBSET Ids]
      /\ \A x \in Ids : x # e => prereqs'[x] = prereqs[x]
      /\ \A p \in prereqs'[e] : p \in prereqs[e] \/ p < e
      /\ lastExpectation' \in [AllSeq -> 0 .. MaxExp]
      /\ \A r \in AllSeq : lastExpectation'[r] <= e
      /\ members' \in [AllSeq -> SUBSET Ids]
  <2>1. \A r \in AllSeq : lastExpectation[r] <= e
    BY DEF TypeOK, Made
  <2>2. CASE scopes > 0
    <3>1. AddExpectation(Implicit, e) /\ Implicit \in AllSeq
      BY <2>2 DEF AddNewExpectation, AllSeq
    <3> QED
      BY <1>1, <2>1, <3>1, AddExpectationEffect
  <2>3. CASE ~ (scopes > 0)
    <3>1. UNCHANGED <<prereqs, lastExpectation, members>>
      BY <2>3 DEF AddNewExpectation
    <3> QED
      BY <1>1, <2>1, <3>1 DEF TypeOK
  <2> QED
    BY <2>2, <2>3
<1>3. TypeOK'
  <2>1. \A x \in Ids : \A p \in prereqs'[x] : p < x
    BY <1>1, <1>2 DEF TypeOK
  <2>2. A \in SUBSET Args
    BY MockExpectationsAssumption
  <2>3. matchers' \in [Ids -> SUBSET Args] /\ expectations' \in [Mockers -> SUBSET Ids]
    BY <1>1, <2>2 DEF TypeOK
  <2> QED
    BY <1>1, <1>2, <2>1, <2>3 DEF TypeOK, callVars, Ids
<1>4. Made'
  <2>1. \A x \in Ids : callCount'[x] > 0 \/ x \in retired' => x <= count' /\ x # open'
    BY <1>1 DEF Made, TypeOK, callVars, Ids
  <2>2. \A n \in Mockers : expectations'[n] \subseteq 1 .. count'
    BY <1>1 DEF Made, TypeOK, Exps, Ids
  <2>3. \A x \in Ids : prereqs'[x] # {} => x <= count'
    BY <1>1, <1>2 DEF Made, TypeOK, Ids
  <2> QED
    BY <1>1, <1>2, <2>1, <2>2, <2>3 DEF Made, Exps
<1>5. BoundsInOrder'
  BY <1>1 DEF BoundsInOrder
<1>6. callCount[e] = 0 /\ e \notin retired
  BY <1>1 DEF Made, TypeOK, Ids
<1>7. RetiredDone'
  <2> SUFFICES ASSUME NEW x \in retired
               PROVE  IsSatisfied(x)' /\ prereqs'[x] \subseteq retired
    BY <1>1 DEF RetiredDone, callVars
  <2>1. x \in Ids /\ x # e
    BY <1>6 DEF TypeOK
  <2> QED
    BY <1>1, <1>2, <2>1 DEF RetiredDone, callVars, IsSatisfied
<1>8. CalledFreezes'
  <2> SUFFICES ASSUME NEW x \in Ids, callCount[x] > 0, cardinality[x].max > 0
               PROVE  prereqs'[x] \subseteq retired
    BY <1>1 DEF CalledFreezes, callVars
  <2> QED
    BY <1>1, <1>2, <1>6 DEF CalledFreezes
<1> QED
  BY <1>3, <1>4, <1>5, <1>7, <1>8

(* The statement that is running has not been called, retired or waited for. *)
LEMMA OpenIsFresh ==
  ASSUME TypeOK, Made, open # 0
  PROVE  /\ open \in Ids /\ open = count
         /\ callCount[open] = 0 /\ open \notin retired
         /\ \A x \in Ids : open \notin prereqs[x]
<1>1. open \in Ids /\ open = count
  BY BoundsAreNumbers DEF TypeOK, Made, Ids
<1>2. callCount[open] = 0 /\ open \notin retired
  BY <1>1 DEF TypeOK, Made, Ids
<1>3. ASSUME NEW x \in Ids, open \in prereqs[x] PROVE FALSE
  BY <1>1, <1>3 DEF TypeOK, Made, Ids
<1> QED
  BY <1>1, <1>2, <1>3

LEMMA TimesIInv ==
  ASSUME IInv, NEW c \in Cardinalities, Times(c)
  PROVE  IInv'
<1> USE DEF IInv
<1>1. /\ open # 0 /\ clause' = kTimes
      /\ cardinality' = [cardinality EXCEPT ![open] = c]
      /\ UNCHANGED <<graphVars, callVars, retires, open, scopes, verdict>>
  BY DEF Times
<1>2. open \in Ids /\ callCount[open] = 0 /\ open \notin retired
  BY <1>1, OpenIsFresh
<1>3. c \in CardinalityType /\ c.min <= c.max
  BY MockExpectationsAssumption
<1>4. TypeOK'
  BY <1>1, <1>2, <1>3 DEF TypeOK, graphVars, callVars
<1>5. Made'
  BY <1>1 DEF Made, Exps, graphVars, callVars
<1>6. BoundsInOrder'
  BY <1>1, <1>2, <1>3 DEF BoundsInOrder, TypeOK
<1>7. \A x \in Ids : x # open => cardinality'[x] = cardinality[x]
  BY <1>1 DEF TypeOK
<1>8. RetiredDone' /\ CalledFreezes'
  BY <1>1, <1>2, <1>7
     DEF RetiredDone, CalledFreezes, IsSatisfied, TypeOK, graphVars, callVars
<1> QED
  BY <1>4, <1>5, <1>6, <1>8

(* The clauses InSequence() and After() change the prerequisites of the      *)
(* statement that is running, and nothing retired depends on those.          *)
LEMMA OpenPrereqsIInv ==
  ASSUME IInv, open # 0, prereqs' \in [Ids -> SUBSET Ids],
         \A x \in Ids : x # open => prereqs'[x] = prereqs[x],
         \A p \in prereqs'[open] : p < open,
         lastExpectation' \in [AllSeq -> 0 .. MaxExp],
         \A r \in AllSeq : lastExpectation'[r] <= open,
         members' \in [AllSeq -> SUBSET Ids],
         clause' \in {kInSequence, kAfter},
         UNCHANGED <<count, matchers, expectations, callVars, cardinality,
                     retires, open, scopes, verdict>>
  PROVE  IInv'
<1> USE DEF IInv
<1>1. open \in Ids /\ open = count /\ callCount[open] = 0 /\ open \notin retired
  BY OpenIsFresh
<1>2. TypeOK'
  <2>1. \A x \in Ids : \A p \in prereqs'[x] : p < x
    BY DEF TypeOK
  <2> QED
    BY <2>1 DEF TypeOK, callVars
<1>3. Made'
  <2>1. \A x \in Ids : prereqs'[x] # {} => x <= count
    BY <1>1 DEF Made, Ids, TypeOK
  <2> QED
    BY <1>1, <2>1 DEF Made, Exps, callVars
<1>4. BoundsInOrder'
  BY DEF BoundsInOrder
<1>5. RetiredDone'
  <2> SUFFICES ASSUME NEW x \in retired
               PROVE  IsSatisfied(x)' /\ prereqs'[x] \subseteq retired
    BY DEF RetiredDone, callVars
  <2>1. x \in Ids /\ x # open
    BY <1>1 DEF TypeOK
  <2> QED
    BY <2>1 DEF RetiredDone, IsSatisfied, callVars
<1>6. CalledFreezes'
  BY <1>1 DEF CalledFreezes, callVars
<1> QED
  BY <1>2, <1>3, <1>4, <1>5, <1>6

LEMMA InSequenceIInv ==
  ASSUME IInv, NEW s \in Sequences, InSequence(s)
  PROVE  IInv'
<1>1. /\ open # 0 /\ clause' = kInSequence /\ AddExpectation(s, open)
      /\ UNCHANGED <<count, matchers, expectations, callVars, cardinality,
                     retires, open, scopes, verdict>>
  BY DEF InSequence
<1>2. open \in Ids /\ open = count /\ s \in AllSeq
  BY <1>1, OpenIsFresh DEF IInv, AllSeq
<1>3. \A r \in AllSeq : lastExpectation[r] <= open
  BY <1>2 DEF IInv, Made
<1>4. /\ prereqs' \in [Ids -> SUBSET Ids]
      /\ \A x \in Ids : x # open => prereqs'[x] = prereqs[x]
      /\ \A p \in prereqs'[open] : p \in prereqs[open] \/ p < open
      /\ lastExpectation' \in [AllSeq -> 0 .. MaxExp]
      /\ \A r \in AllSeq : lastExpectation'[r] <= open
      /\ members' \in [AllSeq -> SUBSET Ids]
  BY <1>1, <1>2, <1>3, AddExpectationEffect DEF IInv
<1>5. \A p \in prereqs'[open] : p < open
  BY <1>2, <1>4 DEF IInv, TypeOK
<1> QED
  BY <1>1, <1>4, <1>5, OpenPrereqsIInv

LEMMA AfterIInv ==
  ASSUME IInv, NEW p \in Handles, After(p)
  PROVE  IInv'
<1>1. /\ open # 0 /\ p < open /\ clause' = kAfter
      /\ prereqs' = [prereqs EXCEPT ![open] = @ \union {p}]
      /\ UNCHANGED <<lastExpectation, members>>
      /\ UNCHANGED <<count, matchers, expectations, callVars, cardinality,
                     retires, open, scopes, verdict>>
  BY DEF After
<1>2. open \in Ids /\ open = count
  BY <1>1, OpenIsFresh DEF IInv
<1>3. p \in Ids
  BY MockExpectationsAssumption DEF Ids
<1>4. prereqs' \in [Ids -> SUBSET Ids]
  BY <1>1, <1>2, <1>3 DEF IInv, TypeOK
<1>5. \A x \in Ids : x # open => prereqs'[x] = prereqs[x]
  BY <1>1 DEF IInv, TypeOK
<1>6. \A q \in prereqs'[open] : q < open
  BY <1>1, <1>2 DEF IInv, TypeOK
<1>7. /\ lastExpectation' \in [AllSeq -> 0 .. MaxExp]
      /\ \A r \in AllSeq : lastExpectation'[r] <= open
      /\ members' \in [AllSeq -> SUBSET Ids]
  BY <1>1, <1>2 DEF IInv, TypeOK, Made
<1> QED
  BY <1>1, <1>4, <1>5, <1>6, <1>7, OpenPrereqsIInv

LEMMA StatementIInv ==
  ASSUME IInv, RetiresOnSaturation \/ EndStatement
  PROVE  IInv'
<1> USE DEF IInv
<1>1. /\ open # 0 /\ UNCHANGED <<graphVars, callVars, cardinality, scopes, verdict>>
      /\ open' \in {0, open} /\ clause' \in {kNone, kRetiresOnSaturation}
      /\ retires' \in {retires, retires \union {open}}
  BY DEF RetiresOnSaturation, EndStatement
<1>2. open \in Ids
  BY <1>1, OpenIsFresh
<1>3. TypeOK'
  BY <1>1, <1>2, BoundsAreNumbers DEF TypeOK, graphVars, callVars, Ids
<1>4. Made'
  BY <1>1 DEF Made, Exps, graphVars, callVars, Ids
<1>5. (BoundsInOrder /\ RetiredDone /\ CalledFreezes)'
  BY <1>1 DEF BoundsInOrder, RetiredDone, CalledFreezes, IsSatisfied,
              graphVars, callVars
<1> QED
  BY <1>3, <1>4, <1>5

LEMMA ScopeIInv ==
  ASSUME IInv, EnterInSequence \/ LeaveInSequence
  PROVE  IInv'
<1> USE DEF IInv
<1>1. UNCHANGED <<count, matchers, prereqs, expectations, callVars, clauseVars,
                  verdict>>
  BY DEF EnterInSequence, LeaveInSequence, graphVars
<1>2. scopes' \in 0 .. MaxScope
  BY BoundsAreNumbers DEF EnterInSequence, LeaveInSequence, TypeOK
<1>3. /\ lastExpectation' \in [AllSeq -> 0 .. MaxExp]
      /\ members' \in [AllSeq -> SUBSET Ids]
      /\ \A r \in AllSeq : lastExpectation'[r] <= count
  <2>1. CASE UNCHANGED <<lastExpectation, members>>
    BY <2>1 DEF TypeOK, Made
  <2>2. CASE /\ lastExpectation' = [lastExpectation EXCEPT ![Implicit] = 0]
             /\ members' = [members EXCEPT ![Implicit] = {}]
    <3>1. 0 \in 0 .. MaxExp /\ 0 <= count
      BY BoundsAreNumbers DEF TypeOK
    <3>2. \A r \in AllSeq :
            lastExpectation'[r] = IF r = Implicit THEN 0 ELSE lastExpectation[r]
      BY <2>2 DEF TypeOK
    <3> QED
      BY <2>2, <3>1, <3>2 DEF TypeOK, Made
  <2> QED
    BY <2>1, <2>2 DEF EnterInSequence, LeaveInSequence, graphVars
<1>4. TypeOK'
  BY <1>1, <1>2, <1>3 DEF TypeOK, callVars, clauseVars
<1>5. Made'
  BY <1>1, <1>3 DEF Made, Exps, callVars, clauseVars
<1>6. (BoundsInOrder /\ RetiredDone /\ CalledFreezes)'
  BY <1>1 DEF BoundsInOrder, RetiredDone, CalledFreezes, IsSatisfied,
              callVars, clauseVars
<1> QED
  BY <1>4, <1>5, <1>6

(* Calls that no expectation handles, and verification, leave the graph.     *)
LEMMA OutsideIInv ==
  ASSUME IInv, UNCHANGED <<count, matchers, prereqs, lastExpectation, members,
                           callCount, retired, clauseVars, scopes>>,
         \A m \in Mockers : expectations'[m] \subseteq expectations[m],
         expectations' \in [Mockers -> SUBSET Ids],
         exercised' \subseteq Mockers, unexpected' \subseteq Mockers,
         excess' \subseteq Ids,
         verdict' \in [Ids -> {"pending", "met", "over", "missing"}]
  PROVE  IInv'
<1> USE DEF IInv
<1>1. TypeOK'
  BY DEF TypeOK, clauseVars
<1>2. Made'
  BY DEF Made, Exps, clauseVars
<1>3. (BoundsInOrder /\ RetiredDone /\ CalledFreezes)'
  BY DEF BoundsInOrder, RetiredDone, CalledFreezes, IsSatisfied, clauseVars
<1> QED
  BY <1>1, <1>2, <1>3

LEMMA UninterestingCallIInv ==
  ASSUME IInv, NEW m \in Mockers, UninterestingCall(m)
  PROVE  IInv'
<1>1. /\ UNCHANGED <<graphVars, callCount, retired, excess, clauseVars, scopes,
                     verdict>>
      /\ exercised' = exercised \union {m}
      /\ unexpected' \in {unexpected, unexpected \union {m}}
  BY DEF UninterestingCall
<1>2. exercised' \subseteq Mockers /\ unexpected' \subseteq Mockers
  BY <1>1 DEF IInv, TypeOK
<1>3. /\ expectations' \in [Mockers -> SUBSET Ids]
      /\ \A n \in Mockers : expectations'[n] \subseteq expectations[n]
      /\ excess' \subseteq Ids
      /\ verdict' \in [Ids -> {"pending", "met", "over", "missing"}]
  BY <1>1 DEF IInv, TypeOK, graphVars
<1> QED
  BY <1>1, <1>2, <1>3, OutsideIInv DEF graphVars

LEMMA UnexpectedCallIInv ==
  ASSUME IInv, NEW m \in Mockers, NEW a \in Args, UnexpectedCall(m, a)
  PROVE  IInv'
<1>1. /\ UNCHANGED <<graphVars, callCount, retired, excess, clauseVars, scopes,
                     verdict>>
      /\ exercised' = exercised \union {m}
      /\ unexpected' = unexpected \union {m}
  BY DEF UnexpectedCall
<1>2. exercised' \subseteq Mockers /\ unexpected' \subseteq Mockers
  BY <1>1 DEF IInv, TypeOK
<1>3. /\ expectations' \in [Mockers -> SUBSET Ids]
      /\ \A n \in Mockers : expectations'[n] \subseteq expectations[n]
      /\ excess' \subseteq Ids
      /\ verdict' \in [Ids -> {"pending", "met", "over", "missing"}]
  BY <1>1 DEF IInv, TypeOK, graphVars
<1> QED
  BY <1>1, <1>2, <1>3, OutsideIInv DEF graphVars

LEMMA VerifyAndClearIInv ==
  ASSUME IInv, NEW m \in Mockers, VerifyAndClear(m)
  PROVE  IInv'
<1>1. /\ UNCHANGED <<count, matchers, prereqs, lastExpectation, members,
                     callVars, clauseVars, scopes>>
      /\ expectations' = [expectations EXCEPT ![m] = {}]
  BY DEF VerifyAndClear
<1>2. verdict' \in [Ids -> {"pending", "met", "over", "missing"}]
  BY DEF VerifyAndClear, IInv, TypeOK
<1>3. /\ expectations' \in [Mockers -> SUBSET Ids]
      /\ \A n \in Mockers : expectations'[n] \subseteq expectations[n]
  BY <1>1 DEF IInv, TypeOK
<1>4. exercised' \subseteq Mockers /\ unexpected' \subseteq Mockers
      /\ excess' \subseteq Ids
  BY <1>1 DEF IInv, TypeOK, callVars
<1> QED
  BY <1>1, <1>2, <1>3, <1>4, OutsideIInv DEF callVars

(* A call that an expectation handles: either it is excessive and only its   *)
(* count changes, or everything before it is retired with it.                *)
LEMMA MatchedCallIInv ==
  ASSUME IInv, NEW m \in Mockers, NEW a \in Args, MatchedCall(m, a)
  PROVE  IInv'
<1> USE DEF IInv
<1>1. PICK e \in FindMatchingExpectation(m, a) :
        /\ open \notin expectations[m]
        /\ callCount' = [callCount EXCEPT ![e] = @ + 1]
        /\ IF IsExcessive(e)
             THEN /\ excess' = excess \union {e}
                  /\ UNCHANGED retired
             ELSE /\ retired' = RetireAllPreRequisites(e) \union
                        (IF /\ e \in retires
                            /\ IsSaturatedByCallCount(cardinality[e],
                                                      callCount[e] + 1)
                           THEN {e} ELSE {})
                  /\ UNCHANGED excess
        /\ exercised' = exercised \union {m}
        /\ UNCHANGED <<graphVars, unexpected, clauseVars, scopes, verdict>>
  BY DEF MatchedCall, Usable
<1>2. /\ e \in Ids /\ e <= count /\ e # open /\ e \notin retired
      /\ AllPrerequisitesAreSatisfied(e)
  BY <1>1 DEF FindMatchingExpectation, ShouldHandleArguments, TypeOK, Made,
              Exps, Ids
<1> DEFINE R == RetireAllPreRequisites(e)
<1>3. /\ Ancestors(e) \subseteq {p \in Ids : p < e}
      /\ \A p \in Ancestors(e) : IsSatisfied(p)
  BY <1>2, AncestorsOlder DEF AllPrerequisitesAreSatisfied
<1>4. /\ retired \subseteq R
      /\ R \subseteq retired \union Ancestors(e)
      /\ prereqs[e] \subseteq R
      /\ \A x \in R \ retired : prereqs[x] \subseteq R
  BY <1>2, RetireAllEffect
<1> HIDE DEF R
<1>5. UNCHANGED <<count, matchers, prereqs, expectations, lastExpectation, members,
                  unexpected, cardinality, retires, open, clause, scopes, verdict>>
  BY <1>1 DEF graphVars, clauseVars
<1>6. /\ callCount' \in [Ids -> Nat] /\ callCount'[e] = callCount[e] + 1
      /\ \A x \in Ids : x # e => callCount'[x] = callCount[x]
  BY <1>1, <1>2 DEF TypeOK
<1>7. retired' \in {retired, R, R \union {e}} /\ excess' \in {excess, excess \union {e}}
  BY <1>1 DEF R
<1>8. retired' \subseteq Ids /\ retired \subseteq retired'
  BY <1>2, <1>3, <1>4, <1>7 DEF TypeOK
<1>9. TypeOK'
  <2>1. excess' \subseteq Ids /\ exercised' \subseteq Mockers
    BY <1>1, <1>2, <1>7 DEF TypeOK
  <2> QED
    BY <1>5, <1>6, <1>8, <2>1 DEF TypeOK
<1>10. Made'
  <2>1. \A x \in Ancestors(e) : x <= count /\ x # open
    <3> SUFFICES ASSUME NEW x \in Ancestors(e) PROVE x <= count /\ x # open
      OBVIOUS
    <3>1. x \in Ids /\ x < e
      BY <1>3
    <3>2. open \in {0, count}
      BY DEF Made
    <3> QED
      BY <1>2, <3>1, <3>2 DEF Ids, TypeOK
  <2>2. \A x \in retired' : x <= count /\ x # open
    BY <1>2, <1>4, <1>7, <2>1 DEF Made, TypeOK
  <2>3. \A x \in Ids : callCount'[x] > 0 => x <= count /\ x # open
    BY <1>2, <1>6 DEF Made
  <2>4. \A x \in Ids : callCount'[x] > 0 \/ x \in retired' => x <= count' /\ x # open'
    BY <1>5, <2>2, <2>3
  <2> QED
    BY <1>5, <2>4 DEF Made, Exps
<1>11. BoundsInOrder'
  BY <1>5 DEF BoundsInOrder
<1>12. \A x \in Ids : x # e => (IsSatisfied(x)' <=> IsSatisfied(x))
  BY <1>5, <1>6 DEF IsSatisfied
<1>13. \A x \in retired' : prereqs[x] \subseteq retired'
  <2>1. \A x \in retired : prereqs[x] \subseteq retired
    BY DEF RetiredDone
  <2> QED
    BY <1>4, <1>7, <1>8, <2>1
<1>14. ASSUME e \in retired' PROVE IsSatisfied(e)'
  <2>1. e \notin R
    <3>1. e \notin Ancestors(e)
      <4>1. ASSUME e \in Ancestors(e) PROVE FALSE
        BY <1>2, <1>3, <4>1 DEF Ids
      <4> QED
        BY <4>1
    <3> QED
      BY <1>2, <1>4, <3>1
  <2>2. /\ ~ IsExcessive(e)
        /\ IsSaturatedByCallCount(cardinality[e], callCount[e] + 1)
    BY <1>1, <1>2, <1>14, <2>1 DEF R
  <2>3. /\ cardinality[e].min \in Int /\ cardinality[e].max \in Int
        /\ cardinality[e].min <= cardinality[e].max /\ callCount[e] \in Nat
    <3>1. cardinality[e] \in CardinalityType
      BY <1>2 DEF TypeOK
    <3>2. cardinality[e].min \in 0 .. IntMax /\ cardinality[e].max \in 0 .. IntMax
      BY <3>1 DEF CardinalityType
    <3> QED
      BY <1>2, <3>2, IntMaxAssumption DEF TypeOK, BoundsInOrder
  <2>4. callCount[e] + 1 = cardinality[e].max
    BY <2>2, <2>3 DEF IsExcessive, IsSaturated, IsSaturatedByCallCount
  <2> QED
    BY <1>5, <1>6, <2>3, <2>4 DEF IsSatisfied, IsSatisfiedByCallCount
<1>15. \A x \in retired' : IsSatisfied(x)'
  <2> SUFFICES ASSUME NEW x \in retired', x # e PROVE IsSatisfied(x)
    BY <1>8, <1>12, <1>14
  <2>1. x \in retired \/ x \in Ancestors(e)
    BY <1>4, <1>7
  <2> QED
    BY <1>3, <2>1 DEF RetiredDone
<1>16. RetiredDone'
  BY <1>5, <1>13, <1>15 DEF RetiredDone
<1>17. CalledFreezes'
  <2> SUFFICES ASSUME NEW x \in Ids, callCount'[x] > 0, cardinality[x].max > 0
               PROVE  prereqs[x] \subseteq retired'
    BY <1>5 DEF CalledFreezes
  <2>1. CASE x # e
    BY <1>6, <1>8, <2>1 DEF CalledFreezes
  <2>2. CASE x = e /\ ~ IsExcessive(e)
    <3>1. R \subseteq retired'
      BY <1>1, <2>2 DEF R
    <3> QED
      BY <1>4, <2>2, <3>1
  <2>3. CASE x = e /\ IsExcessive(e)
    <3>1. callCount[e] > 0
      <4>1. callCount[e] >= cardinality[e].max /\ callCount[e] \in Nat
        BY <1>2, <2>3 DEF IsExcessive, IsSaturated, IsSaturatedByCallCount, TypeOK
      <4>2. cardinality[e].max \in 0 .. IntMax
        BY <1>2 DEF TypeOK, CardinalityType
      <4> QED
        BY <2>3, <4>1, <4>2, IntMaxAssumption
    <3> QED
      BY <1>2, <1>8, <2>3, <3>1 DEF CalledFreezes
  <2> QED
    BY <2>1, <2>2, <2>3
<1> QED
  BY <1>9, <1>10, <1>11, <1>16, <1>17

--------------------------------------------------------------------------------
(* Theorems *)

(* The inductive invariant holds in every state that the library reaches.    *)
THEOREM Invariance == Spec => []IInv
<1>1. Init => IInv
  BY InitIInv
<1>2. IInv /\ [Next]_vars => IInv'
  <2> SUFFICES ASSUME IInv, [Next]_vars PROVE IInv'
    OBVIOUS
  <2>1. CASE \E m \in Mockers, A \in ArgMatchers : AddNewExpectation(m, A)
    BY <2>1, AddNewExpectationIInv
  <2>2. CASE \E c \in Cardinalities : Times(c)
    BY <2>2, TimesIInv
  <2>3. CASE \E s \in Sequences : InSequence(s)
    BY <2>3, InSequenceIInv
  <2>4. CASE \E p \in Handles : After(p)
    BY <2>4, AfterIInv
  <2>5. CASE RetiresOnSaturation \/ EndStatement
    BY <2>5, StatementIInv
  <2>6. CASE EnterInSequence \/ LeaveInSequence
    BY <2>6, ScopeIInv
  <2>7. CASE \E m \in Mockers : UninterestingCall(m)
    BY <2>7, UninterestingCallIInv
  <2>8. CASE \E m \in Mockers, a \in Args : UnexpectedCall(m, a)
    BY <2>8, UnexpectedCallIInv
  <2>9. CASE \E m \in Mockers, a \in Args : MatchedCall(m, a)
    BY <2>9, MatchedCallIInv
  <2>10. CASE \E m \in Mockers : VerifyAndClear(m)
    BY <2>10, VerifyAndClearIInv
  <2>11. CASE UNCHANGED vars
    BY <2>11 DEF vars, graphVars, callVars, clauseVars, IInv, TypeOK, Made, Exps,
                 BoundsInOrder, RetiredDone, CalledFreezes, IsSatisfied
  <2> QED
    BY <2>1, <2>2, <2>3, <2>4, <2>5, <2>6, <2>7, <2>8, <2>9, <2>10, <2>11 DEF Next
<1> QED
  BY <1>1, <1>2, PTL DEF Spec

(* Type correctness, for any number of expectations. *)
THEOREM TypeCorrect == Spec => []TypeOK
<1>1. IInv => TypeOK
  BY DEF IInv
<1> QED
  BY <1>1, Invariance, PTL

(* What comes before a retired expectation is retired. *)
LEMMA RetiredAncestors ==
  ASSUME IInv, NEW e \in Ids, prereqs[e] \subseteq retired
  PROVE  Ancestors(e) \subseteq {p \in retired : IsSatisfied(p)}
<1>1. retired \in SUBSET Ids /\ \A x \in retired : prereqs[x] \subseteq retired
  BY DEF IInv, TypeOK, RetiredDone
<1>2. Ancestors(e) \subseteq retired
  BY <1>1, AncestorsLeast
<1> QED
  BY <1>2 DEF IInv, RetiredDone

(* The short-cuts of RetireAllPreRequisites are right: everything before a   *)
(* retired expectation is retired.                                           *)
THEOREM RetiredClosed == Spec => []RetiredIsClosed
<1>1. IInv => RetiredIsClosed
  <2> SUFFICES ASSUME IInv, NEW e \in retired
               PROVE  Ancestors(e) \subseteq retired
    BY DEF RetiredIsClosed
  <2>1. e \in Ids /\ prereqs[e] \subseteq retired
    BY DEF IInv, TypeOK, RetiredDone
  <2> QED
    BY <2>1, RetiredAncestors
<1> QED
  BY <1>1, Invariance, PTL

(* An expectation that has taken a call froze everything before it.          *)
THEOREM Frozen == Spec => []PrerequisitesFrozen
<1>1. IInv => PrerequisitesFrozen
  <2> SUFFICES ASSUME IInv, NEW e \in Exps, Accepted(e) > 0
               PROVE  Ancestors(e) \subseteq {p \in retired : IsSatisfied(p)}
    BY DEF PrerequisitesFrozen
  <2>1. e \in Ids
    BY BoundsAreNumbers DEF IInv, TypeOK, Exps, Ids
  <2>2. callCount[e] > 0 /\ cardinality[e].max > 0
    <3>1. callCount[e] \in Nat /\ cardinality[e].max \in Int
      BY <2>1, IntMaxAssumption DEF IInv, TypeOK, CardinalityType
    <3>2. CASE IsOverSaturated(e)
      BY <3>1, <3>2 DEF Accepted, IsOverSaturated, IsOverSaturatedByCallCount,
                        IsSaturatedByCallCount
    <3>3. CASE ~ IsOverSaturated(e)
      BY <3>1, <3>3 DEF Accepted, IsOverSaturated, IsOverSaturatedByCallCount,
                        IsSaturatedByCallCount, IsSatisfiedByCallCount
    <3> QED
      BY <3>2, <3>3
  <2>3. prereqs[e] \subseteq retired
    BY <2>1, <2>2 DEF IInv, CalledFreezes
  <2> QED
    BY <2>1, <2>3, RetiredAncestors
<1> QED
  BY <1>1, Invariance, PTL

(* The short-cut of FindUnsatisfiedPrerequisites is right: an expectation    *)
(* that was called and is satisfied has nothing unsatisfied before it.       *)
THEOREM DiagnosisExact == Spec => []UnsatisfiedPrerequisitesExact
<1>1. IInv => UnsatisfiedPrerequisitesExact
  <2> SUFFICES ASSUME IInv, NEW e \in Exps
               PROVE  AllPrerequisitesAreSatisfied(e) <=>
                        FindUnsatisfiedPrerequisites(e) = {}
    BY DEF UnsatisfiedPrerequisitesExact
  <2> DEFINE through == [x \in Ids |-> {y \in prereqs[x] :
                                          IsSatisfied(y) /\ callCount[y] = 0}]
             V == Reach(Ids, {e}, through)
  <2>1. e \in Ids
    BY BoundsAreNumbers DEF IInv, TypeOK, Exps, Ids
  <2>2. FindUnsatisfiedPrerequisites(e) =
          {y \in UNION {prereqs[x] : x \in V} : ~ IsSatisfied(y)}
    BY DEF FindUnsatisfiedPrerequisites
  <2>3. \A x \in Ids : through[x] = {y \in prereqs[x] :
                                       IsSatisfied(y) /\ callCount[y] = 0}
    OBVIOUS
  <2> HIDE DEF through
  <2>4. \A x \in Ids : prereqs[x] \subseteq Ids /\ through[x] \subseteq Ids
    BY <2>3 DEF IInv, TypeOK
  <2>5. e \in V /\ V \subseteq Ids
    <3>1. {e} \in SUBSET Ids
      BY <2>1
    <3>2. {e} \subseteq V
      BY <3>1, ReachContains
    <3> QED
      BY <3>2 DEF Reach
  <2>6. Closed(V, through)
    BY <2>4, ReachClosed
  <2>7. ASSUME AllPrerequisitesAreSatisfied(e)
        PROVE  FindUnsatisfiedPrerequisites(e) = {}
    <3> DEFINE T == {x \in Ids : prereqs[x] \subseteq Ancestors(e)}
    <3>1. /\ prereqs[e] \subseteq Ancestors(e)
          /\ \A x \in Ancestors(e) : prereqs[x] \subseteq Ancestors(e)
      BY <2>1, AncestorsClosed DEF IInv
    <3>2. T \in SUBSET Ids /\ {e} \subseteq T
      BY <2>1, <3>1
    <3>3. Closed(T, through)
      BY <2>3, <2>4, <3>1 DEF Closed
    <3>4. V \subseteq T
      <4> HIDE DEF T
      <4> QED
        BY <3>2, <3>3, ReachLeast
    <3>5. \A x \in V : \A y \in prereqs[x] : IsSatisfied(y)
      BY <2>7, <3>4 DEF AllPrerequisitesAreSatisfied
    <3> HIDE DEF V
    <3> QED
      BY <2>2, <3>5
  <2>8. ASSUME FindUnsatisfiedPrerequisites(e) = {}
        PROVE  AllPrerequisitesAreSatisfied(e)
    <3> DEFINE T == {p \in Ids : /\ IsSatisfied(p)
                                 /\ p \in V \/ prereqs[p] \subseteq retired}
    <3> HIDE DEF V
    <3>1. \A x \in V : \A y \in prereqs[x] : IsSatisfied(y)
      BY <2>2, <2>8
    <3>2. \A x \in V : prereqs[x] \subseteq T
      <4> SUFFICES ASSUME NEW x \in V, NEW y \in prereqs[x] PROVE y \in T
        OBVIOUS
      <4>1. x \in Ids /\ y \in Ids /\ IsSatisfied(y)
        BY <2>4, <2>5, <3>1
      <4>2. CASE callCount[y] = 0
        BY <2>3, <2>6, <4>1, <4>2 DEF Closed
      <4>3. CASE callCount[y] # 0
        <5>1. callCount[y] > 0 /\ cardinality[y].max > 0
          <6>1. callCount[y] \in Nat /\ cardinality[y].max \in Int
            BY <4>1, IntMaxAssumption DEF IInv, TypeOK, CardinalityType
          <6> QED
            BY <4>1, <4>3, <6>1 DEF IsSatisfied, IsSatisfiedByCallCount
        <5> QED
          BY <4>1, <5>1 DEF IInv, CalledFreezes
      <4> QED
        BY <4>2, <4>3
    <3>3. \A p \in T : prereqs[p] \subseteq T
      <4> SUFFICES ASSUME NEW p \in T, p \notin V, NEW y \in prereqs[p]
                   PROVE  y \in T
        BY <3>2
      <4>1. y \in retired
        OBVIOUS
      <4> QED
        BY <4>1 DEF IInv, TypeOK, RetiredDone
    <3>4. prereqs[e] \subseteq T
      BY <2>5, <3>2
    <3>5. Ancestors(e) \subseteq T
      <4>1. T \in SUBSET Ids
        OBVIOUS
      <4> HIDE DEF T
      <4> QED
        BY <2>1, <3>3, <3>4, <4>1, AncestorsLeast
    <3> QED
      BY <3>5 DEF AllPrerequisitesAreSatisfied
  <2> QED
    BY <2>7, <2>8
<1> QED
  BY <1>1, Invariance, PTL

--------------------------------------------------------------------------------
(* The expectations implement the abstract order of CallOrder *)

(* A clause that changes the prerequisites of the newest expectation changes *)
(* what comes before that one only, and declares it in the abstract order.   *)
LEMMA DeclareStep ==
  ASSUME IInv, NEW o \in Ids,
         \A x \in Ids : o \notin prereqs[x], callCount[o] = 0,
         prereqs' \in [Ids -> SUBSET Ids], \A x \in Ids : o \notin prereqs'[x],
         \A x \in Ids : x # o => prereqs'[x] = prereqs[x],
         NEW c \in CardinalityType, cardinality' = [cardinality EXCEPT ![o] = c],
         UNCHANGED callCount
  PROVE  Order!Next
<1> DEFINE P == prereqs
           Q == prereqs'
<1>1. /\ \A x \in Ids : P[x] \subseteq Ids \ {o}
      /\ \A x \in Ids : Q[x] \subseteq Ids \ {o}
      /\ \A x \in Ids \ {o} : P[x] = Q[x]
  BY DEF IInv, TypeOK
<1> HIDE DEF P, Q
<1>2. \A f \in Ids : o \notin Reach(Ids, P[f], P) /\ o \notin Reach(Ids, Q[f], Q)
  <2> TAKE f \in Ids
  <2>1. o \notin Reach(Ids, P[f], P)
    BY <1>1, ReachAvoids
  <2>2. o \notin Reach(Ids, Q[f], Q)
    BY <1>1, ReachAvoids
  <2> QED
    BY <2>1, <2>2
<1>3. \A f \in Ids \ {o} : Reach(Ids, P[f], P) = Reach(Ids, Q[f], Q)
  <2> TAKE f \in Ids \ {o}
  <2>1. Reach(Ids, Q[f], Q) \subseteq Reach(Ids, P[f], P)
    BY <1>1, ReachUnaffected
  <2>2. Reach(Ids, P[f], P) \subseteq Reach(Ids, Q[f], Q)
    BY <1>1, ReachUnaffected
  <2> QED
    BY <2>1, <2>2
<1>4. \A e \in Ids : \A p \in Reach(Ids, Q[e], Q) :
        p \in Ids /\ Reach(Ids, Q[p], Q) \subseteq Reach(Ids, Q[e], Q)
  <2> TAKE e \in Ids
  <2> TAKE p \in Reach(Ids, Q[e], Q)
  <2>1. \A x \in Ids : Q[x] \subseteq Ids
    BY <1>1
  <2> QED
    BY <2>1, ReachTransitive
<1>5. \A f \in Ids : /\ Ancestors(f) = Reach(Ids, P[f], P)
                     /\ Ancestors(f)' = Reach(Ids, Q[f], Q)
  BY DEF Ancestors, P, Q
<1> DEFINE before == [e \in Ids |-> Ancestors(e)]
<1>6. Order!TransitivelyClosed(before')
  BY <1>4, <1>5 DEF Order!TransitivelyClosed
<1>7. Ancestors(o)' \in SUBSET (Ids \ {o})
  BY <1>2, <1>5 DEF Reach
<1>8. before' = [before EXCEPT ![o] = Ancestors(o)']
  BY <1>3, <1>5
<1>9. \A f \in Ids : o \notin before[f]
  BY <1>2, <1>5
<1>10. Order!Declare(o)
  BY <1>6, <1>7, <1>8, <1>9 DEF Order!Declare
<1> QED
  BY <1>10 DEF Order!Next

(* A call that an expectation takes is one the abstract order allows. *)
LEMMA TakeStep ==
  ASSUME IInv, NEW m \in Mockers, NEW a \in Args, MatchedCall(m, a)
  PROVE  Order!Next
<1>1. PICK e \in FindMatchingExpectation(m, a) :
        /\ callCount' = [callCount EXCEPT ![e] = @ + 1]
        /\ UNCHANGED graphVars /\ UNCHANGED clauseVars
  BY DEF MatchedCall
<1>2. e \in Ids /\ e \notin retired /\ AllPrerequisitesAreSatisfied(e)
  BY DEF FindMatchingExpectation, ShouldHandleArguments, IInv, TypeOK
<1> DEFINE before == [x \in Ids |-> Ancestors(x)]
<1>3. UNCHANGED <<before, cardinality>>
  BY <1>1 DEF graphVars, clauseVars, Ancestors
<1>4. \A p \in before[e] : Order!InBounds(p)
  BY <1>2 DEF AllPrerequisitesAreSatisfied, IsSatisfied, IsSatisfiedByCallCount,
              Order!InBounds
<1>5. \A f \in Ids : e \in before[f] => ~ Order!Started(f)
  <2> SUFFICES ASSUME NEW f \in Ids, Order!Started(f)
               PROVE  e \notin Ancestors(f)
    OBVIOUS
  <2>1. prereqs[f] \subseteq retired
    BY DEF Order!Started, IInv, CalledFreezes
  <2> QED
    BY <1>2, <2>1, RetiredAncestors
<1>6. Order!Take(e)
  BY <1>1, <1>3, <1>4, <1>5 DEF Order!Take
<1> QED
  BY <1>2, <1>6 DEF Order!Next

(* The expectations of googlemock implement the promised order.              *)
THEOREM Refinement == Spec => ImplementsCallOrder
<1>1. Init => Order!Init
  <2> SUFFICES ASSUME Init PROVE Order!Init
    OBVIOUS
  <2>1. \A e \in Ids : Ancestors(e) = {}
    <3> TAKE e \in Ids
    <3>1. {} \in SUBSET Ids /\ prereqs[e] \subseteq {}
      BY DEF Init
    <3> QED
      BY <3>1, AncestorsLeast
  <2> QED
    BY <2>1, ExactlyOne DEF Init, Order!Init
<1>2. IInv /\ IInv' /\ [Next]_vars => [Order!Next]_(Order!orderVars)
  <2> SUFFICES ASSUME IInv, IInv', [Next]_vars
               PROVE  [Order!Next]_(Order!orderVars)
    OBVIOUS
  <2>1. ASSUME UNCHANGED <<prereqs, cardinality, callCount>>
        PROVE  UNCHANGED Order!orderVars
    BY <2>1 DEF Order!orderVars, Ancestors
  <2>2. ASSUME NEW o \in Ids, \A x \in Ids : o \notin prereqs[x], callCount[o] = 0,
               o = open', \A x \in Ids : x # o => prereqs'[x] = prereqs[x],
               UNCHANGED <<cardinality, callCount>>
        PROVE  Order!Next
    <3>1. prereqs' \in [Ids -> SUBSET Ids]
      BY DEF IInv, TypeOK
    <3>2. \A x \in Ids : o \notin prereqs'[x]
      <4>1. \A x \in Ids : x = o \/ o \notin prereqs'[x]
        BY <2>2
      <4>2. \A p \in prereqs'[o] : p < o
        BY <2>2 DEF IInv, TypeOK
      <4>3. ~ (o < o)
        BY <2>2 DEF Ids
      <4> QED
        BY <4>1, <4>2, <4>3
    <3>3. cardinality[o] \in CardinalityType
          /\ cardinality' = [cardinality EXCEPT ![o] = cardinality[o]]
      BY <2>2 DEF IInv, TypeOK
    <3> QED
      BY <2>2, <3>1, <3>2, <3>3, DeclareStep
  <2>3. CASE \E m \in Mockers, A \in ArgMatchers : AddNewExpectation(m, A)
    <3> DEFINE o == count + 1
    <3>1. /\ o \in Ids /\ open' = o /\ open = 0 /\ UNCHANGED <<callVars, cardinality>>
      BY <2>3, BoundsAreNumbers DEF AddNewExpectation, IInv, TypeOK, Ids
    <3>2. callCount[o] = 0 /\ \A x \in Ids : o \notin prereqs[x]
      BY <3>1 DEF IInv, TypeOK, Made, Ids
    <3>3. \A x \in Ids : x # o => prereqs'[x] = prereqs[x]
      BY <2>3 DEF AddNewExpectation, AddExpectation, IInv, TypeOK
    <3> QED
      BY <2>2, <3>1, <3>2, <3>3 DEF callVars
  <2>4. CASE \E c \in Cardinalities : Times(c)
    <3>1. PICK c \in Cardinalities : Times(c)
      BY <2>4
    <3>2. /\ open \in Ids /\ callCount[open] = 0
          /\ \A x \in Ids : open \notin prereqs[x]
      BY <3>1, OpenIsFresh DEF Times, IInv
    <3>3. /\ cardinality' = [cardinality EXCEPT ![open] = c]
          /\ UNCHANGED <<prereqs, callCount>> /\ c \in CardinalityType
      BY <3>1, MockExpectationsAssumption DEF Times, graphVars, callVars
    <3>4. prereqs' \in [Ids -> SUBSET Ids]
      BY <3>3 DEF IInv, TypeOK
    <3> QED
      BY <3>2, <3>3, <3>4, DeclareStep
  <2>5. CASE \E s \in Sequences : InSequence(s)
    <3>1. open # 0 /\ UNCHANGED <<open, cardinality, callVars>>
      BY <2>5 DEF InSequence
    <3>2. /\ open \in Ids /\ callCount[open] = 0
          /\ \A x \in Ids : open \notin prereqs[x]
      BY <3>1, OpenIsFresh DEF IInv
    <3>3. \A x \in Ids : x # open => prereqs'[x] = prereqs[x]
      BY <2>5 DEF InSequence, AddExpectation, IInv, TypeOK
    <3> QED
      BY <2>2, <3>1, <3>2, <3>3 DEF callVars
  <2>6. CASE \E p \in Handles : After(p)
    <3>1. open # 0 /\ UNCHANGED <<open, cardinality, callVars>>
      BY <2>6 DEF After
    <3>2. /\ open \in Ids /\ callCount[open] = 0
          /\ \A x \in Ids : open \notin prereqs[x]
      BY <3>1, OpenIsFresh DEF IInv
    <3>3. \A x \in Ids : x # open => prereqs'[x] = prereqs[x]
      BY <2>6 DEF After, IInv, TypeOK
    <3> QED
      BY <2>2, <3>1, <3>2, <3>3 DEF callVars
  <2>7. CASE RetiresOnSaturation \/ EndStatement
    BY <2>1, <2>7 DEF RetiresOnSaturation, EndStatement, graphVars, callVars
  <2>8. CASE EnterInSequence \/ LeaveInSequence
    BY <2>1, <2>8 DEF EnterInSequence, LeaveInSequence, graphVars, callVars, clauseVars
  <2>9. CASE \E m \in Mockers : UninterestingCall(m)
    BY <2>1, <2>9 DEF UninterestingCall, graphVars, clauseVars
  <2>10. CASE \E m \in Mockers, a \in Args : UnexpectedCall(m, a)
    BY <2>1, <2>10 DEF UnexpectedCall, graphVars, clauseVars
  <2>11. CASE \E m \in Mockers, a \in Args : MatchedCall(m, a)
    BY <2>11, TakeStep
  <2>12. CASE \E m \in Mockers : VerifyAndClear(m)
    BY <2>1, <2>12 DEF VerifyAndClear, callVars, clauseVars
  <2>13. CASE UNCHANGED vars
    BY <2>1, <2>13 DEF vars, graphVars, callVars, clauseVars
  <2> QED
    BY <2>3, <2>4, <2>5, <2>6, <2>7, <2>8, <2>9, <2>10, <2>11, <2>12, <2>13 DEF Next
<1> QED
  BY <1>1, <1>2, Invariance, PTL DEF Spec, ImplementsCallOrder, Order!Spec

--------------------------------------------------------------------------------
(* What needs the history: what was reported against what verification found, *)
(* what a step may no longer change, and the order within a sequence.         *)

(* A verified expectation is in no list, so no call finds it, and its        *)
(* statement is over, so no clause changes it.                               *)
Cleared ==
  \A e \in Ids : verdict[e] # "pending" =>
    e <= count /\ e # open /\ \A m \in Mockers : e \notin expectations[m]

(* An expectation belongs to one mock function. *)
Disjoint ==
  \A m, n \in Mockers : m # n => expectations[m] \intersect expectations[n] = {}

Exceeded(e) == callCount[e] > cardinality[e].max

(* Reported as excessive is what has taken more calls than it may. *)
ExcessExact == \A e \in Ids : e \in excess <=> Exceeded(e)

VerdictExact ==
  \A e \in Ids : verdict[e] # "pending" =>
    /\ verdict[e] = "over" <=> Exceeded(e)
    /\ verdict[e] = "met" <=> IsSatisfied(e)

HInv == Cleared /\ Disjoint /\ ExcessExact /\ VerdictExact

(* Every member of a sequence waits for all older ones, and the newest is    *)
(* where the sequence ends.                                                  *)
Chain ==
  \A s \in AllSeq :
    /\ \A d, e \in members[s] : d < e => d \in Ancestors(e)
    /\ \A d \in members[s] : d <= lastExpectation[s]
    /\ lastExpectation[s] # 0 => lastExpectation[s] \in members[s]

--------------------------------------------------------------------------------
(* Reports *)

(* Counts and bounds are numbers. *)
LEMMA CountsAreNumbers ==
  ASSUME TypeOK, NEW e \in Ids
  PROVE  /\ e \in Nat \ {0}
         /\ callCount[e] \in Nat /\ cardinality[e].min \in Nat /\ cardinality[e].max \in Nat
<1>1. cardinality[e] \in CardinalityType
  BY DEF TypeOK
<1>2. cardinality[e].min \in 0 .. IntMax /\ cardinality[e].max \in 0 .. IntMax
  BY <1>1 DEF CardinalityType
<1> QED
  BY <1>2, BoundsAreNumbers, IntMaxAssumption DEF TypeOK, Ids

(* The questions asked of a cardinality, in numbers *)
LEMMA QuestionsInNumbers ==
  ASSUME TypeOK, BoundsInOrder, NEW e \in Ids
  PROVE  /\ IsOverSaturated(e) <=> Exceeded(e)
         /\ IsSatisfied(e) <=> cardinality[e].min <= callCount[e] /\ ~ Exceeded(e)
         /\ Exceeded(e) => ~ IsSatisfied(e)
BY CountsAreNumbers DEF IsOverSaturated, IsSatisfied, Exceeded, BoundsInOrder,
   IsOverSaturatedByCallCount, IsSaturatedByCallCount, IsSatisfiedByCallCount

(* Steps that neither call nor verify, nor change a bound *)
LEMMA QuietHInv ==
  ASSUME IInv, HInv, UNCHANGED <<callCount, cardinality, excess, verdict, expectations, count>>,
         open' \in {0, open}
  PROVE  HInv'
<1>1. ASSUME NEW e \in Ids PROVE e # 0
  BY <1>1, CountsAreNumbers DEF IInv
<1>2. Cleared'
  BY <1>1 DEF HInv, Cleared
<1>3. Disjoint' /\ ExcessExact' /\ VerdictExact'
  BY DEF HInv, Disjoint, ExcessExact, VerdictExact, Exceeded, IsSatisfied
<1> QED
  BY <1>2, <1>3 DEF HInv

(* A new expectation is in no list and has no verdict. *)
LEMMA AddNewExpectationHInv ==
  ASSUME IInv, HInv, NEW m \in Mockers, NEW A \in ArgMatchers, AddNewExpectation(m, A)
  PROVE  HInv'
<1> DEFINE e == count + 1
<1>1. /\ count' = e /\ open' = e
      /\ expectations' = [expectations EXCEPT ![m] = @ \union {e}]
      /\ UNCHANGED <<callCount, excess, verdict, cardinality>>
  BY DEF AddNewExpectation, callVars
<1>2. count \in Nat /\ \A n \in Mockers : e \notin expectations[n]
  BY BoundsAreNumbers DEF IInv, TypeOK, Made, Exps
<1>3. \A x \in Ids : x \in Nat
  BY CountsAreNumbers DEF IInv
<1>4. \A n \in Mockers : expectations'[n] = IF n = m THEN expectations[n] \union {e}
                                            ELSE expectations[n]
  BY <1>1 DEF IInv, TypeOK
<1> HIDE DEF e
<1>5. \A x \in Ids : verdict[x] # "pending" => x <= count' /\ x # e
  BY <1>1, <1>2, <1>3 DEF HInv, Cleared, e
<1>6. Cleared'
  BY <1>1, <1>4, <1>5 DEF HInv, Cleared
<1>7. Disjoint'
  BY <1>2, <1>4 DEF HInv, Disjoint
<1>8. ExcessExact' /\ VerdictExact'
  BY <1>1 DEF HInv, ExcessExact, VerdictExact, Exceeded, IsSatisfied
<1> QED
  BY <1>6, <1>7, <1>8 DEF HInv

(* The bound of the running statement may change: it was not called yet. *)
LEMMA TimesHInv ==
  ASSUME IInv, HInv, NEW c \in Cardinalities, Times(c)
  PROVE  HInv'
<1>1. /\ open # 0 /\ cardinality' = [cardinality EXCEPT ![open] = c]
      /\ UNCHANGED <<callCount, excess, verdict, expectations, count, open>>
  BY DEF Times, graphVars, callVars
<1>2. open \in Ids /\ callCount[open] = 0
  BY <1>1, OpenIsFresh DEF IInv
<1>3. c.max \in Nat
  <2>1. c \in CardinalityType
    BY MockExpectationsAssumption
  <2> QED
    BY <2>1, IntMaxAssumption DEF CardinalityType
<1>4. /\ cardinality'[open] = c
      /\ \A x \in Ids : x # open => cardinality'[x] = cardinality[x]
  BY <1>1, <1>2 DEF IInv, TypeOK
<1>5. cardinality[open].max \in Nat
  BY <1>2, CountsAreNumbers DEF IInv
<1>6. ExcessExact'
  <2> SUFFICES ASSUME NEW x \in Ids PROVE x \in excess <=> Exceeded(x)'
    BY <1>1 DEF ExcessExact
  <2>1. CASE x = open
    BY <1>1, <1>2, <1>3, <1>4, <1>5, <2>1 DEF HInv, ExcessExact, Exceeded
  <2>2. CASE x # open
    BY <1>1, <1>4, <2>2 DEF HInv, ExcessExact, Exceeded
  <2> QED
    BY <2>1, <2>2
<1>7. VerdictExact'
  BY <1>1, <1>4 DEF HInv, VerdictExact, Cleared, Exceeded, IsSatisfied
<1>8. Cleared' /\ Disjoint'
  BY <1>1 DEF HInv, Cleared, Disjoint
<1> QED
  BY <1>6, <1>7, <1>8 DEF HInv

(* A call counts, and is reported, as the bound says; it is on a list. *)
LEMMA MatchedCallHInv ==
  ASSUME IInv, HInv, NEW m \in Mockers, NEW a \in Args, MatchedCall(m, a)
  PROVE  HInv'
<1>1. PICK e \in FindMatchingExpectation(m, a) :
        /\ callCount' = [callCount EXCEPT ![e] = @ + 1]
        /\ excess' = IF IsExcessive(e) THEN excess \union {e} ELSE excess
        /\ UNCHANGED <<graphVars, clauseVars, scopes, verdict>>
  BY DEF MatchedCall
<1>2. e \in expectations[m] /\ e \in Ids /\ verdict[e] = "pending"
  BY <1>1 DEF FindMatchingExpectation, IInv, TypeOK, HInv, Cleared
<1>3. /\ callCount'[e] = callCount[e] + 1
      /\ \A x \in Ids : x # e => callCount'[x] = callCount[x]
      /\ UNCHANGED <<cardinality, verdict, expectations, count, open>>
  BY <1>1, <1>2 DEF IInv, TypeOK, graphVars, clauseVars
<1>4. /\ callCount[e] \in Nat /\ cardinality[e].max \in Nat
      /\ IsExcessive(e) <=> callCount[e] >= cardinality[e].max
  BY <1>2, CountsAreNumbers DEF IInv, IsExcessive, IsSaturated, IsSaturatedByCallCount
<1>5. Exceeded(e)' <=> IsExcessive(e)
  BY <1>3, <1>4 DEF Exceeded
<1>6. Exceeded(e) => IsExcessive(e)
  BY <1>4 DEF Exceeded
<1>7. ExcessExact'
  <2> SUFFICES ASSUME NEW x \in Ids PROVE x \in excess' <=> Exceeded(x)'
    BY DEF ExcessExact
  <2>1. CASE x = e
    BY <1>1, <1>5, <1>6, <2>1 DEF HInv, ExcessExact
  <2>2. CASE x # e
    <3>1. Exceeded(x)' <=> Exceeded(x)
      BY <1>3, <2>2 DEF Exceeded
    <3> QED
      BY <1>1, <2>2, <3>1 DEF HInv, ExcessExact
  <2> QED
    BY <2>1, <2>2
<1>8. VerdictExact'
  BY <1>2, <1>3 DEF HInv, VerdictExact, Exceeded, IsSatisfied
<1>9. Cleared' /\ Disjoint'
  BY <1>3 DEF HInv, Cleared, Disjoint
<1> QED
  BY <1>7, <1>8, <1>9 DEF HInv

(* Verification says what the calls reported, and takes off the only list. *)
LEMMA VerifyAndClearHInv ==
  ASSUME IInv, HInv, NEW m \in Mockers, VerifyAndClear(m)
  PROVE  HInv'
<1>1. /\ open \notin expectations[m]
      /\ verdict' = [e \in Ids |->
                       IF e \notin expectations[m] THEN verdict[e]
                       ELSE IF IsOverSaturated(e) THEN "over"
                       ELSE IF ~ IsSatisfied(e) THEN "missing"
                       ELSE "met"]
      /\ expectations' = [expectations EXCEPT ![m] = {}]
      /\ UNCHANGED <<callCount, cardinality, excess, count, open>>
  BY DEF VerifyAndClear, Usable, callVars, clauseVars
<1>2. \A n \in Mockers : expectations'[n] = IF n = m THEN {} ELSE expectations[n]
  BY <1>1 DEF IInv, TypeOK
<1>3. \A e \in expectations[m] : e \in Ids /\ e <= count /\ e # open
                                 /\ \A n \in Mockers : n # m => e \notin expectations[n]
  BY <1>1 DEF IInv, TypeOK, Made, Exps, HInv, Disjoint
<1>4. Cleared'
  BY <1>1, <1>2, <1>3 DEF HInv, Cleared
<1>5. Disjoint'
  BY <1>2 DEF HInv, Disjoint
<1>6. ExcessExact'
  BY <1>1 DEF HInv, ExcessExact, Exceeded
<1>7. VerdictExact'
  <2> SUFFICES ASSUME NEW e \in Ids, verdict'[e] # "pending"
               PROVE  /\ verdict'[e] = "over" <=> Exceeded(e)
                      /\ verdict'[e] = "met" <=> IsSatisfied(e)
    BY <1>1 DEF VerdictExact, Exceeded, IsSatisfied
  <2>1. CASE e \notin expectations[m]
    BY <1>1, <2>1 DEF HInv, VerdictExact
  <2>2. CASE e \in expectations[m]
    BY <1>1, <2>2, QuestionsInNumbers DEF IInv
  <2> QED
    BY <2>1, <2>2
<1> QED
  BY <1>4, <1>5, <1>6, <1>7 DEF HInv

(* Nothing was called, reported or verified yet. *)
LEMMA InitHInv == Init => HInv
BY MockExpectationsAssumption, IntMaxAssumption, ExactlyOne
   DEF Init, HInv, Cleared, Disjoint, ExcessExact, VerdictExact, Exceeded

(* The reports of calls and of verification agree in every state. *)
THEOREM Reports == Spec => []HInv
<1>1. Init => HInv
  BY InitHInv
<1>2. IInv /\ HInv /\ [Next]_vars => HInv'
  <2> SUFFICES ASSUME IInv, HInv, [Next]_vars PROVE HInv'
    OBVIOUS
  <2>1. CASE \E m \in Mockers, A \in ArgMatchers : AddNewExpectation(m, A)
    BY <2>1, AddNewExpectationHInv
  <2>2. CASE \E c \in Cardinalities : Times(c)
    BY <2>2, TimesHInv
  <2>3. CASE \/ \E s \in Sequences : InSequence(s)
             \/ \E p \in Handles : After(p)
             \/ RetiresOnSaturation \/ EndStatement
             \/ EnterInSequence \/ LeaveInSequence
    <3>1. /\ UNCHANGED <<callCount, cardinality, excess, verdict, expectations, count>>
          /\ open' \in {0, open}
      BY <2>3 DEF InSequence, After, RetiresOnSaturation, EndStatement, EnterInSequence,
                  LeaveInSequence, graphVars, callVars, clauseVars
    <3> QED
      BY <3>1, QuietHInv
  <2>4. CASE \/ \E m \in Mockers : UninterestingCall(m)
             \/ \E m \in Mockers, a \in Args : UnexpectedCall(m, a)
    <3>1. /\ UNCHANGED <<callCount, cardinality, excess, verdict, expectations, count>>
          /\ open' \in {0, open}
      BY <2>4 DEF UninterestingCall, UnexpectedCall, graphVars, clauseVars
    <3> QED
      BY <3>1, QuietHInv
  <2>5. CASE \E m \in Mockers, a \in Args : MatchedCall(m, a)
    BY <2>5, MatchedCallHInv
  <2>6. CASE \E m \in Mockers : VerifyAndClear(m)
    BY <2>6, VerifyAndClearHInv
  <2>7. CASE UNCHANGED vars
    BY <2>7, QuietHInv DEF vars, graphVars, callVars, clauseVars
  <2> QED
    BY <2>1, <2>2, <2>3, <2>4, <2>5, <2>6, <2>7 DEF Next
<1> QED
  BY <1>1, <1>2, Invariance, PTL DEF Spec

(* "the error was already reported when it occurred": verification is silent *)
(* of exactly what a call reported, and blames exactly what lacks calls.     *)
THEOREM ReportedOnce == Spec => []ViolationsReportedOnce
<1>1. IInv /\ HInv => ViolationsReportedOnce
  <2> SUFFICES ASSUME IInv, HInv, NEW e \in Exps, verdict[e] # "pending"
               PROVE  /\ e \in excess <=> verdict[e] = "over"
                      /\ IsSatisfied(e) <=> verdict[e] = "met"
    BY DEF ViolationsReportedOnce
  <2>1. e \in Ids
    BY BoundsAreNumbers DEF IInv, TypeOK, Exps, Ids
  <2> QED
    BY <2>1 DEF HInv, ExcessExact, VerdictExact
<1> QED
  BY <1>1, Invariance, Reports, PTL

--------------------------------------------------------------------------------
(* What is retired or cleared takes no part any more *)

(* Only a call counts, and it finds neither a retired nor a cleared          *)
(* expectation; only Times() changes a bound, and the running statement is   *)
(* neither.  No step takes out of the retired set.                           *)
LEMMA StepRetires ==
  ASSUME IInv, HInv, Next
  PROVE  /\ retired \subseteq retired'
         /\ \A e \in Ids : e \in retired \/ verdict[e] # "pending" =>
              callCount'[e] = callCount[e] /\ cardinality'[e] = cardinality[e]
<1>1. CASE \E c \in Cardinalities : Times(c)
  <2>1. PICK c \in Cardinalities : Times(c)
    BY <1>1
  <2>2. /\ open # 0 /\ cardinality' = [cardinality EXCEPT ![open] = c]
        /\ UNCHANGED <<callCount, retired>>
    BY <2>1 DEF Times, callVars
  <2>3. open \in Ids /\ open \notin retired /\ verdict[open] = "pending"
    BY <2>2, OpenIsFresh DEF IInv, HInv, Cleared
  <2> QED
    BY <2>2, <2>3 DEF IInv, TypeOK
<1>2. CASE \E m \in Mockers, a \in Args : MatchedCall(m, a)
  <2>1. PICK m \in Mockers, a \in Args : MatchedCall(m, a)
    BY <1>2
  <2>2. PICK e \in FindMatchingExpectation(m, a) :
          /\ callCount' = [callCount EXCEPT ![e] = @ + 1]
          /\ \/ retired' = retired
             \/ RetireAllPreRequisites(e) \subseteq retired'
          /\ UNCHANGED cardinality
    BY <2>1 DEF MatchedCall, clauseVars
  <2>3. e \in expectations[m] /\ e \in Ids /\ e \notin retired
    BY <2>2 DEF FindMatchingExpectation, ShouldHandleArguments, IInv, TypeOK
  <2>4. verdict[e] = "pending"
    BY <2>3 DEF HInv, Cleared
  <2>5. retired \subseteq retired'
    BY <2>2 DEF RetireAllPreRequisites
  <2> QED
    BY <2>2, <2>3, <2>4, <2>5 DEF IInv, TypeOK
<1>3. CASE UNCHANGED <<callCount, retired, cardinality>>
  BY <1>3
<1>4. CASE \/ \E m \in Mockers, A \in ArgMatchers : AddNewExpectation(m, A)
           \/ \E s \in Sequences : InSequence(s)
           \/ \E p \in Handles : After(p)
           \/ RetiresOnSaturation \/ EndStatement
           \/ EnterInSequence \/ LeaveInSequence
           \/ \E m \in Mockers : UninterestingCall(m)
           \/ \E m \in Mockers, a \in Args : UnexpectedCall(m, a)
           \/ \E m \in Mockers : VerifyAndClear(m)
  BY <1>3, <1>4 DEF AddNewExpectation, InSequence, After, RetiresOnSaturation,
     EndStatement, EnterInSequence, LeaveInSequence, UninterestingCall,
     UnexpectedCall, VerifyAndClear, callVars, clauseVars
<1> QED
  BY <1>1, <1>2, <1>4, Zenon DEF Next

(* A retired expectation stays retired and takes no call, nor does one that  *)
(* verification cleared: no later clause, call or scope revives it.          *)
THEOREM StaysRetired == Spec => RetiredForever
<1>1. ASSUME IInv, HInv, Next
      PROVE  /\ retired \subseteq retired'
             /\ \A e \in Exps : e \in retired \/ verdict[e] # "pending" =>
                  callCount'[e] = callCount[e] /\ IsSatisfied(e)' = IsSatisfied(e)
  <2>1. Exps \subseteq Ids
    BY <1>1, BoundsAreNumbers DEF IInv, TypeOK, Exps, Ids
  <2> QED
    BY <1>1, <2>1, StepRetires DEF IsSatisfied
<1> QED
  BY <1>1, Invariance, Reports, PTL DEF Spec, RetiredForever

--------------------------------------------------------------------------------
(* The order within a sequence *)

(* More prerequisites never lose an ancestor. *)
LEMMA AncestorsGrow ==
  ASSUME TypeOK, NEW e \in Ids, prereqs' \in [Ids -> SUBSET Ids],
         \A x \in Ids : prereqs[x] \subseteq prereqs'[x]
  PROVE  Ancestors(e) \subseteq Ancestors(e)'
<1>1. \A x \in Ids : prereqs'[x] \subseteq Ids
  OBVIOUS
<1>2. prereqs'[e] \in SUBSET Ids /\ prereqs[e] \subseteq prereqs'[e]
  OBVIOUS
<1>3. Reach(Ids, prereqs[e], prereqs) \subseteq Reach(Ids, prereqs'[e], prereqs')
  BY <1>1, <1>2, ReachMonotonic
<1> QED
  BY <1>3 DEF Ancestors, Ids

(* Steps that leave the sequences alone and take no prerequisite away *)
LEMMA QuietChain ==
  ASSUME IInv, Chain, prereqs' \in [Ids -> SUBSET Ids],
         \A x \in Ids : prereqs[x] \subseteq prereqs'[x],
         UNCHANGED <<members, lastExpectation>>
  PROVE  Chain'
<1>1. \A e \in Ids : Ancestors(e) \subseteq Ancestors(e)'
  BY AncestorsGrow DEF IInv
<1>2. \A s \in AllSeq : members[s] \subseteq Ids
  BY DEF IInv, TypeOK
<1> QED
  BY <1>1, <1>2 DEF Chain

(* A sequence's new end waits for its old one, so for all before it. *)
LEMMA AddExpectationChain ==
  ASSUME IInv, Chain, NEW s \in AllSeq, NEW e \in Ids,
         \A r \in AllSeq : lastExpectation[r] <= e, AddExpectation(s, e)
  PROVE  Chain'
<1> DEFINE last == lastExpectation[s]
<1> USE DEF IInv
<1>1. CASE last = e
  BY <1>1, QuietChain DEF AddExpectation, TypeOK
<1>2. CASE last # e
  <2>1. /\ lastExpectation' = [lastExpectation EXCEPT ![s] = e]
        /\ members' = [members EXCEPT ![s] = @ \union {e}]
        /\ prereqs' = IF last # 0 THEN [prereqs EXCEPT ![e] = @ \union {last}]
                      ELSE prereqs
    BY <1>2 DEF AddExpectation
  <2>2. last \in 0 .. MaxExp /\ e \in Nat \ {0} /\ last < e
    BY <1>2, CountsAreNumbers DEF TypeOK
  <2>3. last # 0 => last \in Ids
    BY <2>2, BoundsAreNumbers DEF Ids
  <2>4. prereqs' \in [Ids -> SUBSET Ids] /\ \A x \in Ids : prereqs[x] \subseteq prereqs'[x]
    BY <2>1, <2>3 DEF TypeOK
  <2>5. \A x \in Ids : Ancestors(x) \subseteq Ancestors(x)'
    BY <2>4, AncestorsGrow
  <2>6. \A r \in AllSeq : /\ members[r] \subseteq Ids
                          /\ members'[r] = IF r = s THEN members[s] \union {e} ELSE members[r]
                          /\ lastExpectation'[r] = IF r = s THEN e ELSE lastExpectation[r]
    BY <2>1 DEF TypeOK
  <2>7. \A d \in members[s] : d \in Nat \ {0} /\ d <= last /\ d < e /\ last # 0
    <3> SUFFICES ASSUME NEW d \in members[s]
                 PROVE  d \in Nat \ {0} /\ d <= last /\ d < e /\ last # 0
      OBVIOUS
    <3>1. d \in Nat \ {0} /\ d <= last
      BY <2>6, CountsAreNumbers DEF Chain
    <3> QED
      BY <2>2, <3>1
  <2>8. ASSUME NEW d \in members[s] PROVE d \in Ancestors(e)'
    <3>1. last \in Ids /\ last \in prereqs'[e] /\ last \in members[s]
      BY <2>1, <2>3, <2>7 DEF Chain, TypeOK
    <3>2. \A x \in Ids : prereqs'[x] \subseteq Ids
      BY <2>4
    <3>3. prereqs'[e] \subseteq Reach(Ids, prereqs'[e], prereqs')
      BY <3>2, ReachContains
    <3>4. Reach(Ids, prereqs'[last], prereqs') \subseteq Reach(Ids, prereqs'[e], prereqs')
      BY <3>1, <3>2, <3>3, ReachTransitive
    <3>5. d = last \/ d \in Ancestors(last)
      BY <2>2, <2>7, <3>1 DEF Chain
    <3>6. d = last \/ d \in Reach(Ids, prereqs'[last], prereqs')
      BY <2>5, <3>1, <3>5 DEF Ancestors, Ids
    <3> QED
      BY <3>1, <3>3, <3>4, <3>6 DEF Ancestors, Ids
  <2> HIDE DEF last
  <2>9. \A r \in AllSeq : \A d, f \in members'[r] : d < f => d \in Ancestors(f)'
    <3> SUFFICES ASSUME NEW r \in AllSeq, NEW d \in members'[r], NEW f \in members'[r],
                        d < f
                 PROVE  d \in Ancestors(f)'
      OBVIOUS
    <3>1. CASE r = s /\ f = e
      BY <2>2, <2>6, <2>8, <3>1
    <3>2. CASE r = s /\ d = e /\ f # e
      BY <2>2, <2>6, <2>7, <3>2
    <3>3. CASE r # s \/ (d # e /\ f # e)
      <4>1. d \in members[r] /\ f \in members[r] /\ f \in Ids
        BY <2>6, <3>3
      <4>2. d \in Ancestors(f)
        BY <4>1 DEF Chain
      <4> QED
        BY <2>5, <4>1, <4>2
    <3> QED
      BY <3>1, <3>2, <3>3
  <2>10. \A r \in AllSeq : /\ \A d \in members'[r] : d <= lastExpectation'[r]
                           /\ lastExpectation'[r] # 0 => lastExpectation'[r] \in members'[r]
    BY <2>2, <2>6, <2>7 DEF Chain
  <2> QED
    BY <2>9, <2>10 DEF Chain
<1> QED
  BY <1>1, <1>2

(* The sequences stay chains: only a statement adds to one, and a scope      *)
(* starts the implicit one afresh.                                           *)
LEMMA Chains == Spec => []Chain
<1>1. Init => Chain
  BY DEF Init, Chain
<1>2. IInv /\ Chain /\ [Next]_vars => Chain'
  <2> SUFFICES ASSUME IInv, Chain, [Next]_vars PROVE Chain'
    OBVIOUS
  <2>1. CASE \E m \in Mockers, A \in ArgMatchers : AddNewExpectation(m, A)
    <3>1. /\ count + 1 \in Ids
          /\ \/ AddExpectation(Implicit, count + 1)
             \/ UNCHANGED <<prereqs, lastExpectation, members>>
      BY <2>1, BoundsAreNumbers DEF AddNewExpectation, IInv, TypeOK, Ids
    <3>2. \A r \in AllSeq : lastExpectation[r] <= count + 1
      BY DEF IInv, TypeOK, Made
    <3>3. Implicit \in AllSeq
      BY DEF AllSeq
    <3> QED
      BY <3>1, <3>2, <3>3, AddExpectationChain, QuietChain DEF IInv, TypeOK
  <2>2. CASE \E s \in Sequences : InSequence(s)
    <3>1. PICK s \in Sequences : InSequence(s)
      BY <2>2
    <3>2. s \in AllSeq /\ open # 0 /\ AddExpectation(s, open)
      BY <3>1 DEF InSequence, AllSeq
    <3>3. open \in Ids /\ \A r \in AllSeq : lastExpectation[r] <= open
      BY <3>2, OpenIsFresh DEF IInv, Made
    <3> QED
      BY <3>2, <3>3, AddExpectationChain
  <2>3. CASE \E p \in Handles : After(p)
    <3>1. PICK p \in Handles : After(p)
      BY <2>3
    <3>2. /\ open \in Ids /\ p \in Ids
          /\ prereqs' = [prereqs EXCEPT ![open] = @ \union {p}]
          /\ UNCHANGED <<lastExpectation, members>>
      BY <3>1, OpenIsFresh, MockExpectationsAssumption DEF After, IInv, Ids
    <3> QED
      BY <3>2, QuietChain DEF IInv, TypeOK
  <2>4. CASE EnterInSequence
    <3>1. UNCHANGED prereqs
      BY <2>4 DEF EnterInSequence
    <3>2. \A s \in AllSeq : \/ members'[s] = {} /\ lastExpectation'[s] = 0
                            \/ members'[s] = members[s] /\ lastExpectation'[s] = lastExpectation[s]
      BY <2>4 DEF EnterInSequence, IInv, TypeOK
    <3> QED
      BY <3>1, <3>2 DEF Chain, Ancestors
  <2>5. CASE UNCHANGED graphVars
    BY <2>5, QuietChain DEF graphVars, IInv, TypeOK
  <2>6. CASE \/ \E c \in Cardinalities : Times(c)
             \/ RetiresOnSaturation \/ EndStatement \/ LeaveInSequence
             \/ \E m \in Mockers : UninterestingCall(m)
             \/ \E m \in Mockers, a \in Args : UnexpectedCall(m, a)
             \/ \E m \in Mockers, a \in Args : MatchedCall(m, a)
    BY <2>5, <2>6 DEF Times, RetiresOnSaturation, EndStatement, LeaveInSequence,
       UninterestingCall, UnexpectedCall, MatchedCall
  <2>7. CASE \E m \in Mockers : VerifyAndClear(m)
    <3>1. UNCHANGED <<prereqs, lastExpectation, members>>
      BY <2>7 DEF VerifyAndClear
    <3> QED
      BY <3>1, QuietChain DEF IInv, TypeOK
  <2>8. CASE UNCHANGED vars
    BY <2>5, <2>8 DEF vars
  <2> QED
    BY <2>1, <2>2, <2>3, <2>4, <2>6, <2>7, <2>8 DEF Next
<1> QED
  BY <1>1, <1>2, Invariance, PTL DEF Spec

(* The expectations of a sequence take their calls in the order of their     *)
(* statements: what was called has frozen all that it waits for.             *)
THEOREM InOrder == Spec => []SequencesInOrder
<1>1. IInv /\ Chain /\ PrerequisitesFrozen => SequencesInOrder
  <2> SUFFICES ASSUME IInv, Chain, PrerequisitesFrozen, NEW s \in AllSeq,
                      NEW d \in members[s], NEW e \in members[s],
                      d < e, Accepted(e) > 0
               PROVE  d \in retired /\ IsSatisfied(d)
    BY DEF SequencesInOrder
  <2>1. d \in Ancestors(e) /\ e \in Ids
    BY DEF Chain, IInv, TypeOK
  <2>2. e \in Exps
    <3>1. prereqs[e] # {}
      BY <2>1, AncestorsLeast DEF IInv
    <3> QED
      BY <2>1, <3>1 DEF IInv, Made, Exps, Ids, TypeOK
  <2> QED
    BY <2>1, <2>2 DEF PrerequisitesFrozen
<1> QED
  BY <1>1, Invariance, Chains, Frozen, PTL
================================================================================
