------------------------------ MODULE MCOutputFiles ------------------------------
(* Two runs of one program and a third program of the same name write into   *)
(* /w/r/s/, where one report may be there already; the third names its file.  *)
EXTENDS OutputFiles

MCPrograms == {"p", "q", "r"}
MCOutput == [p \in MCPrograms |->
  CASE p \in {"p", "q"} -> <<"r", "/", "s", "/">> [] p = "r" -> <<"/", "w", "/", "/", "r", "/", "t">>]
MCExecutable == [p \in MCPrograms |-> <<".", "/", "x">>]
MCDirectory == <<"/", "w">>
W == <<<<"w">>>>
R == Append(W, <<"r">>)
S == Append(R, <<"s">>)
Report == Append(S, <<"x", ".", "xml">>)
MCPresent ==
  {[node \in {W} |-> "dir"], [node \in {W, R, S} |-> "dir"],
   [node \in {W, R, S, Report} |-> IF node = Report THEN "somebody" ELSE "dir"]}
MCIntruders == {R, S, Append(R, <<"t">>), Report}
================================================================================
