------------------------- MODULE MCTaskVerification -------------------------
(* The model checking runs of TaskVerification. *)
EXTENDS TaskVerification
=============================================================================
