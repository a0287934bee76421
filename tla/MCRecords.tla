------------------------------- MODULE MCRecords ------------------------------
(* The commands and the check of commits on files that sessions share in a   *)
(* checkout.  They share no variable, so one run explores them side by side: *)
(* each behaviour is one of one component, and the others stay in their      *)
(* initial state.                                                            *)
EXTENDS CommitCheck, Worktree, Handoff, PlanFile, TLC

CONSTANTS c1, c2, d1, d2

\* Nothing tells one commit from the other, nor one document of a handoff, and a
\* behaviour has commits or documents: one swap does for both.  Nor does
\* anything tell one file from another.
Swapped == (c1 :> c2) @@ (c2 :> c1) @@ (d1 :> d2) @@ (d2 :> d1)
Alike == {Swapped} \cup Permutations(Path)

VARIABLE part   \* the component that runs

Init ==
  /\ part \in {"commit", "worktree", "handoff", "plan"}
  /\ CheckInit /\ (part = "commit" \/ catalogs \cup inHead = {})
  /\ WorktreeInit /\ HandoffInit /\ PlanInit

CommitSteps ==
  /\ part = "commit" /\ CheckNext
  /\ UNCHANGED <<part, worktreeVars, handoffVars, planVars>>

WorktreeSteps ==
  /\ part = "worktree" /\ WorktreeNext
  /\ UNCHANGED <<part, checkVars, handoffVars, planVars>>

HandoffSteps ==
  /\ part = "handoff" /\ HandoffNext
  /\ UNCHANGED <<part, checkVars, worktreeVars, planVars>>

PlanSteps ==
  /\ part = "plan" /\ PlanNext
  /\ UNCHANGED <<part, checkVars, worktreeVars, handoffVars>>

Next == CommitSteps \/ WorktreeSteps \/ HandoffSteps \/ PlanSteps

vars == <<part, checkVars, worktreeVars, handoffVars, planVars>>

Spec == Init /\ [][Next]_vars
===============================================================================
