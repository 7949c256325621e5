----------------------------- MODULE MCAgentRuns -----------------------------
(* The model checking runs of AgentRuns. *)
EXTENDS AgentRuns
=============================================================================
