-------------------------- MODULE MCWorkflowLeases --------------------------
(* WorkflowLeases for a workflow that needs two workspaces. *)
EXTENDS WorkflowLeases, TLC

MCTargets == <<"a", "b">>
=============================================================================
