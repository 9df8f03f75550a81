------------------------ MODULE WorktreeRemovalPromise ------------------------
(* The worker implements RemovalPromise.                                     *)
EXTENDS WorktreeRemoval

Stage(j) ==
    CASE rec[j].phase = "absent"      -> "none"
      [] rec[j].phase \in Logical     -> "asked"
      [] rec[j].phase \in Physical    -> "committed"
      [] rec[j].phase = "discarded"   -> "withdrawn"
      [] rec[j].phase = "done"        -> "done"
Tree         == IF left = TreeSize THEN "whole" ELSE IF left > 0 THEN "partial" ELSE "gone"
Registration == IF ~Placed THEN "gone" ELSE IF back = "empty" THEN "hidden" ELSE "listed"

Promise == INSTANCE RemovalPromise WITH
    OwnerDeletes <- "delete" \in External, stage <- [j \in Job |-> Stage(j)],
    tree <- Tree, registration <- Registration

\* Every step of the worker, of its crashes and of the user is a step of the
\* promise or leaves its state alone.
KeepsPromise == Promise!Spec
=============================================================================
