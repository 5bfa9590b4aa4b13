---------------------------- MODULE MCMockThreads ------------------------------
(* Programs and mock objects for TLC: see the cfg files. *)
EXTENDS MockThreads

CONSTANTS main, t1, t2, A, B, C, D, f, g, h, k, p, q      \* model values

MCObjectOf ==
  [m \in Mockers |-> CASE m \in {f, g} -> A [] m = h -> B [] m = k -> C [] m \in {p, q} -> D]

(* The expectations 1 and 2 are of A, whose f calls g; 3 and 4 of D, which p  *)
(* deletes, and with it the last reference to B; 5 of B and 6 of C.          *)
CallsMockerOf == <<f, g, p, q, h, k>>
CallsMin      == <<1, 3, 1, 0, 1, 0>>
CallsMax      == <<1, 3, 1, 1, 1, 0>>
CallsAction   == <<Op("call", g), NoOp, Op("destroy", D), NoOp, NoOp, NoOp>>
CallsDefault  == [m \in Mockers |-> IF m = f THEN Op("call", g) ELSE NoOp]
CallsOwns     == <<{}, {}, {}, {B}, {}, {}>>

(* Two threads call f and g of A, and one of them verifies A in between.  The *)
(* main thread waits, verifies again, calls once more and destroys A.        *)
Shared ==
  [t \in Threads |->
     CASE t = main -> <<Op("join", t1), Op("join", t2), Op("verify", A),
                        Op("call", g), Op("destroy", A)>>
       [] t = t1 -> <<Op("call", f), Op("call", g), Op("call", f)>>
       [] t = t2 -> <<Op("call", f), Op("verify", A), Op("call", g)>>]
(* The action of p deletes D, while another thread uses and verifies C.  *)
Nested ==
  [t \in Threads |->
     CASE t = main -> <<Op("call", p), Op("join", t1), Op("destroy", C)>>
       [] t = t1 -> <<Op("call", k), Op("verify", C), Op("call", k)>>
       [] t = t2 -> <<>>]
CallsPrograms == {Shared, Nested}

(* A call of f beyond the upper bound, whose default action deletes A. *)
ExceedMockerOf == <<f>>
ExceedBound    == <<0>>
ExceedAction   == <<NoOp>>
ExceedDefault  == [m \in Mockers |-> Op("destroy", A)]
ExceedOwns     == <<{}>>
ExceedPrograms == {[t \in Threads |-> <<Op("call", f)>>]}
================================================================================
