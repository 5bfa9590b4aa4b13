------------------------------- MODULE CallOrder -------------------------------
(***************************************************************************)
(* What the expectations of a test promise, without matchers, retirement    *)
(* or sequences: an expectation takes calls only while everything declared  *)
(* to come before it is within its bounds, and none once something declared *)
(* to come after it has started.  A call beyond the upper bound is counted  *)
(* too: it puts the expectation out of its bounds for good.                 *)
(***************************************************************************)
EXTENDS Integers

CONSTANTS Items,     \* the expectations
          Bounds     \* the records [min, max] an expectation may have

VARIABLES before,    \* before[e]: what has to come before e, transitively
          bound,     \* the bounds of each expectation
          calls      \* the calls it has taken

orderVars == <<before, bound, calls>>

InBounds(e) == bound[e].min <= calls[e] /\ calls[e] <= bound[e].max
Started(e)  == calls[e] > 0 /\ bound[e].max > 0

TransitivelyClosed(b) == \A e \in Items : \A p \in b[e] : b[p] \subseteq b[e]

Init ==
  /\ before = [e \in Items |-> {}]
  /\ bound \in [Items -> Bounds]
  /\ calls = [e \in Items |-> 0]

(* An expectation no call has reached, and nothing waits for, is changed *)
Declare(e) ==
  /\ UNCHANGED calls
  /\ calls[e] = 0
  /\ \A f \in Items : e \notin before[f]
  /\ \E B \in SUBSET (Items \ {e}) : before' = [before EXCEPT ![e] = B]
  /\ TransitivelyClosed(before')
  /\ \E b \in Bounds : bound' = [bound EXCEPT ![e] = b]

Take(e) ==
  /\ \A p \in before[e] : InBounds(p)
  /\ \A f \in Items : e \in before[f] => ~ Started(f)
  /\ calls' = [calls EXCEPT ![e] = @ + 1]
  /\ UNCHANGED <<before, bound>>

Next == \E e \in Items : Declare(e) \/ Take(e)

Spec == Init /\ [][Next]_orderVars
================================================================================
