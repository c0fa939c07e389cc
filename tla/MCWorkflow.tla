----------------------------- MODULE MCWorkflow -----------------------------
(***************************************************************************)
(* Workflow for TLC: two candidates, budgets of one and two cycles that    *)
(* retries may extend to four.                                             *)
(***************************************************************************)
EXTENDS Workflow, TLC

MCInitialBudgets == {1, 2}
MCExtensions == {1, 2}

=============================================================================
