----------------------------- MODULE Reachability ------------------------------
(***************************************************************************)
(* What a worklist walk over a graph visits, without the worklist: the      *)
(* least set of nodes that contains the starting ones and is closed under   *)
(* the edges.  The walks over the prerequisites of an expectation in        *)
(* gmock-spec-builders.cc are written with it.                              *)
(***************************************************************************)

Closed(T, edges) == \A x \in T : edges[x] \subseteq T

Reach(Nodes, start, edges) ==
  {x \in Nodes : \A T \in SUBSET Nodes :
                   start \subseteq T /\ Closed(T, edges) => x \in T}
================================================================================
