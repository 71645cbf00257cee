------------------------ MODULE MCOutputCoordinator ------------------------
(***************************************************************************)
(* Small instances of OutputCoordinator for TLC: one or two processes, one *)
(* or two builds of one root, two output paths, and budgets that name how  *)
(* often each command is started and each accident happens.                *)
(***************************************************************************)
EXTENDS OutputRefinement, TLC

CONSTANTS o1, o2, t1, t2

(* A reconfiguration that swaps one output for another, one that adds or    *)
(* drops an output, one that adds or drops a whole target.                  *)
SwapPlans == {o1 :> t1, o2 :> t1}
GrowPlans == {o1 :> t1, o1 :> t1 @@ o2 :> t1}
TargetPlans == {o1 :> t1, o1 :> t1 @@ o2 :> t2}

Commands3(configures, generates, resets) ==
    [configures |-> configures, generates |-> generates, resets |-> resets]
Accidents(kills, losses, orphans, edits) ==
    [kills |-> kills, losses |-> losses, orphans |-> orphans, edits |-> edits]

PowerLossBudgets ==
    {Commands3(2, 2, 1) @@ Accidents(0, 2, 0, 0), Commands3(2, 2, 1) @@ Accidents(0, 0, 0, 2),
     Commands3(2, 2, 0) @@ Accidents(1, 1, 0, 1)}
ResetBudgets == {Commands3(2, 2, 2) @@ Accidents(1, 0, 0, 0)}
ResetAndLossBudgets == {Commands3(2, 2, 2) @@ Accidents(1, 1, 0, 0)}
ConcurrentBudgets == {Commands3(2, 2, 1) @@ Accidents(0, 0, 0, 0)}
OrphanBudgets == {Commands3(2, 2, 0) @@ Accidents(0, 0, 1, 0)}
CutResetBudgets == {Commands3(2, 1, 2) @@ Accidents(2, 0, 0, 0)}
============================================================================
