-------------------------- MODULE MCTaskCoordinator --------------------------
(* Constants of the model checking runs of TaskCoordinator. *)
EXTENDS TaskCoordinator, TLC

CONSTANTS t1, c1, c2, a1, a2, s1, p1, p2

OneTask == {t1}
OneCommand == {c1}
TwoCommands == {c1, c2}
OneAgent == {a1}
TwoAgents == {a1, a2}
OneSlot == {p1}
TwoSlots == {p1, p2}
OneSession == {s1}
Interchangeable == Permutations(TwoCommands) \cup Permutations(TwoAgents)
                      \cup Permutations(TwoSlots)
=============================================================================
