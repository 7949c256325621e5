--------------------------- MODULE MCRelayChannel ---------------------------
(* The model checking run of RelayChannel. *)
EXTENDS RelayChannel
=============================================================================
