---------------------------- MODULE MCTaskService ----------------------------
(* Constants of the model checking runs of TaskService. *)
EXTENDS TaskService, TLC

CONSTANTS t1, c1, c2, c3, a1

OneTask == {t1}
ThreeCommands == {c1, c2, c3}
OneAgent == {a1}
Interchangeable == Permutations(ThreeCommands)
=============================================================================
