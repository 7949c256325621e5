----------------------------- MODULE MCGitCommand -----------------------------
(* Constants of the model checking run of GitCommand. *)
EXTENDS GitCommand

CONSTANTS g1, g2, g3

ThreeCalls == {g1, g2, g3}
=============================================================================
