------------------------ MODULE MCWorkflowExecution ------------------------
(***************************************************************************)
(* One workflow of two actions, executed once for one user by two callers  *)
(* at a time.                                                              *)
(***************************************************************************)
EXTENDS WorkflowExecution, TLC

\* The second action waits.
WaitSecond == 1 :> 0 @@ 2 :> 1
=============================================================================
