--------------------------- MODULE BipartiteMatching ---------------------------
(***************************************************************************)
(* MaxBipartiteMatchState of gmock-matchers.cc: which element of a container *)
(* goes with which matcher of UnorderedElementsAre() and its kin.            *)
(*                                                                          *)
(* Compute() searches, from each element in turn, a path to a matcher that   *)
(* is still free, through matchers whose element may take another one.       *)
(* TryAugment is recursive; here its activations are the frames of a stack,  *)
(* each an element and the matcher its loop is at, the innermost last.       *)
(***************************************************************************)
EXTENDS Naturals, Sequences, FiniteSets

CONSTANTS MaxElements, MaxMatchers   \* bounds on the size of the matrix

ASSUME MatchingAssumption == MaxElements \in Nat /\ MaxMatchers \in Nat

VARIABLES
  size,     \* <<LhsSize(), RhsSize()>>
  edges,    \* HasEdge: the pairs of an element and a matcher it matches
  left,     \* the matcher of each element, or kUnused
  right,    \* the element of each matcher, or kUnused
  ilhs,     \* the element Compute() has come to
  seen,     \* the matchers this search has been at
  path,     \* the activations of TryAugment
  found     \* they are returning true

vars == <<size, edges, left, right, ilhs, seen, path, found>>
matrix == <<size, edges>>

kUnused == 0
Elements == 1 .. size[1]
Matchers == 1 .. size[2]
Top == path[Len(path)]
Callers == SubSeq(path, 1, Len(path) - 1)

Frame(l) == [lhs |-> l, rhs |-> 1]

Init ==
  /\ size \in (0 .. MaxElements) \X (0 .. MaxMatchers)
  /\ edges \in SUBSET (Elements \X Matchers)
  /\ left = [l \in Elements |-> kUnused]
  /\ right = [r \in Matchers |-> kUnused]
  /\ ilhs = 1
  /\ seen = {}
  /\ path = <<>>
  /\ found = FALSE

(* A slip: seen is kept from one search to the next *)
SearchKeepingSeen ==
  /\ path = <<>> /\ ilhs \in Elements
  /\ path' = <<Frame(ilhs)>>
  /\ UNCHANGED <<matrix, left, right, ilhs, seen, found>>

(* Compute(): a search from the next element; seen starts empty *)
Search ==
  /\ path = <<>> /\ ilhs \in Elements
  /\ seen' = {}
  /\ path' = <<Frame(ilhs)>>
  /\ UNCHANGED <<matrix, left, right, ilhs, found>>

Searching == path # <<>> /\ ~ found

(* The loop of TryAugment passes over a matcher seen before, or without edge *)
Skip ==
  /\ Searching /\ Top.rhs \in Matchers
  /\ Top.rhs \in seen \/ <<Top.lhs, Top.rhs>> \notin edges
  /\ path' = Append(Callers, [Top EXCEPT !.rhs = @ + 1])
  /\ UNCHANGED <<matrix, left, right, ilhs, seen, found>>

(* It takes an edge: a free matcher ends the search, and the element of one  *)
(* that is taken is asked to go elsewhere.                                   *)
Follow ==
  /\ Searching /\ Top.rhs \in Matchers
  /\ Top.rhs \notin seen /\ <<Top.lhs, Top.rhs>> \in edges
  /\ seen' = seen \union {Top.rhs}
  /\ IF right[Top.rhs] = kUnused
       THEN found' = TRUE /\ UNCHANGED path
       ELSE path' = Append(path, Frame(right[Top.rhs])) /\ UNCHANGED found
  /\ UNCHANGED <<matrix, left, right, ilhs>>

(* It comes to the end of its loop and returns false: the caller goes on     *)
(* with its next matcher, and Compute() with its next element.               *)
GiveUp ==
  /\ Searching /\ Top.rhs \notin Matchers
  /\ path' = Callers
  /\ ilhs' = IF Callers = <<>> THEN ilhs + 1 ELSE ilhs
  /\ UNCHANGED <<matrix, left, right, seen, found>>

(* It returns true: each activation links its element and its matcher *)
Link ==
  /\ path # <<>> /\ found
  /\ left' = [left EXCEPT ![Top.lhs] = Top.rhs]
  /\ right' = [right EXCEPT ![Top.rhs] = Top.lhs]
  /\ path' = Callers
  /\ found' = (Callers # <<>>)
  /\ ilhs' = IF Callers = <<>> THEN ilhs + 1 ELSE ilhs
  /\ UNCHANGED <<matrix, seen>>

Next == Search \/ Skip \/ Follow \/ GiveUp \/ Link

Spec == Init /\ [][Next]_vars

Computed == path = <<>> /\ ilhs \notin Elements

(* The pairs Compute() returns *)
Pairs == {<<l, left[l]>> : l \in {l \in Elements : left[l] # kUnused}}

--------------------------------------------------------------------------------
(* Properties *)

(* "Elements of left_ and right_ are either kUnused or mutually referent"    *)
(* (gmock-matchers.cc:206): whenever no link is under way, an element and a  *)
(* matcher agree about each other, and are joined by an edge.                *)
MutuallyReferent ==
  ~ found => /\ \A l \in Elements : left[l] # kUnused =>
                   right[left[l]] = l /\ <<l, left[l]>> \in edges
             /\ \A r \in Matchers : right[r] # kUnused => left[right[r]] = r

IsMatching(pairs) ==
  \A p, q \in pairs : p # q => p[1] # q[1] /\ p[2] # q[2]

(* The pairing is consistent whenever no link is under way, and in the end as *)
(* large as any: looking at each element once is enough.  The verdict of     *)
(* UnorderedElementsAre(), IsSubsetOf() and IsSupersetOf() rests on its size *)
(* (FindMaxBipartiteMatching).                                               *)
PairingIsMaximum ==
  /\ MutuallyReferent
  /\ Computed =>
       /\ IsMatching(Pairs) /\ Pairs \subseteq edges
       /\ \A pairs \in SUBSET edges :
            IsMatching(pairs) => Cardinality(pairs) <= Cardinality(Pairs)
================================================================================
