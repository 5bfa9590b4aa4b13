--------------------------- MODULE MCTestProgram -------------------------------
(* Two suites of three tests, for TLC: see the cfg files. *)
EXTENDS TestProgram

MCTestCount == <<2, 1>>

(* Every way to repeat, to fail fast and to treat exceptions *)
MCFlags == [repeat : {-1, 0, 1, 2}, recreate : BOOLEAN, failFast : BOOLEAN,
            catch : BOOLEAN, throwOnFailure : BOOLEAN]

MCOutcomes == {{}, {"nonfatal"}, {"fatal"}, {"skip"}, {"nonfatal", "skip"},
               {"throw"}}
MCBefore == {{}, {"nonfatal"}, {"fatal"}, {"skip"}}
================================================================================
