------------------------------ MODULE MCRouting ------------------------------
(* A root with an index, a directory with one and one without, in a         *)
(* directory that has an index and a file of its own.                       *)
EXTENDS Routing

MCRoot  == <<"r">>
MCDirs  == {<<>>, <<"r">>, <<"r", "d">>, <<"r", "e">>}
MCFiles == {<<"i">>, <<"f">>, <<"r", "i">>, <<"r", "d", "i">>, <<"r", "f">>}
===============================================================================
