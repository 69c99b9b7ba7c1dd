------------------------------ MODULE MCNames ------------------------------
(* Two names, a temporal one and a reserved one.                            *)
EXTENDS Names, TLC

MCTempNames == {"~n"}
MCReserved == {"/"}
MCNameList == <<"/", "m", "n", "~n">>
Symmetry == Permutations(Dscs)
=============================================================================
