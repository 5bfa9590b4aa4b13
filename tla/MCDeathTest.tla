--------------------------- MODULE MCDeathTest ---------------------------------
(* Bodies of up to three visits, for TLC: see the cfg files. *)
EXTENDS DeathTest

MCVisit(site, does, accepts, matches) ==
  [site |-> site, does |-> does, accepts |-> accepts, matches |-> matches]
Unsuccessful == {"exit_1", "signal"}
AnyOutput    == {"its_own_message", "something_else"}

(* Every statement under every predicate, alone *)
MCSingle == {<<MCVisit(1, does, accepts, matches)>> :
               does    \in DOMAIN Deaths \union {"return", "throw", "live"},
               accepts \in {Unsuccessful, {"exit_0"}, {"signal"}},
               matches \in {AnyOutput, {"its_own_message"}, {}}}

(* Two lines visited in every order, the same one repeatedly *)
MCSome == {MCVisit(site, does, Unsuccessful, {"its_own_message"}) :
             site \in {1, 2}, does \in {"kill", "live"}}
MCPrograms == MCSingle \union [1 .. 2 -> MCSome] \union
              {<<MCVisit(1, "daemon", Unsuccessful, AnyOutput), b, c>> : b, c \in MCSome}
================================================================================
