-------------------------- MODULE MCMockExpectations ---------------------------
(* A small instance of MockExpectations for TLC. *)
EXTENDS MockExpectations, FiniteSets

CONSTANTS a, f, g, s      \* model values

(* What Times() may ask for; a statement without it means exactly once. *)
MCCardinalities == {Exactly(0), AtMost(1), AtLeast(1)}

(* To bound the run, a test orders its expectations in one of two ways: by    *)
(* handles in After(), with one call that fails at most, or along sequences, *)
(* with none.                                                                *)
AlongHandles ==
  /\ scopes = 0 /\ \A q \in AllSeq : members[q] = {}
  /\ \A e \in Exps : cardinality[e] # AtLeast(1)
  /\ Cardinality(unexpected) + Cardinality(excess) <= 1
AlongSequences ==
  /\ \A e \in Ids : \A p \in prereqs[e] : \E q \in AllSeq : {p, e} \subseteq members[q]
  /\ \A e \in Exps : cardinality[e] \in {Exactly(1), AtLeast(1)}
  /\ unexpected = {} /\ excess = {} /\ \A e \in Ids : verdict[e] = "pending"

MCSpec == Init /\ [][Next /\ (AlongHandles \/ AlongSequences)']_vars
================================================================================
