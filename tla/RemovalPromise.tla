---------------------------- MODULE RemovalPromise ----------------------------
(***************************************************************************)
(* What the cleanup daemon promises the owner of a worktree, forgetting    *)
(* how: a tree loses entries only to a removal that has committed, git     *)
(* loses sight of a registration only to a removal that still answers for  *)
(* it, a removal withdrawn leaves the registration listed, and one         *)
(* reported done leaves none.                                              *)
(***************************************************************************)
CONSTANTS Job,          \* removals of the worktree
          OwnerDeletes  \* TRUE when the owner may delete the tree too

VARIABLES stage,        \* of each removal
          tree,         \* "whole", "partial" or "gone"
          registration  \* "listed", "hidden" or "gone"

vars == <<stage, tree, registration>>

Stage     == {"none", "asked", "committed", "withdrawn", "done"}
Active(j) == stage[j] \in {"asked", "committed"}

Init == /\ stage = [j \in Job |-> "none"]
        /\ tree = "whole" /\ registration = "listed"

To(j, s)  == stage' = [stage EXCEPT ![j] = s]

Ask(j)    == stage[j] = "none" /\ To(j, "asked") /\ UNCHANGED <<tree, registration>>
Begin(j) == stage[j] = "asked" /\ To(j, "committed") /\ UNCHANGED <<tree, registration>>

\* Nothing stays hidden that no removal answers for.
Withdraw(j) ==
    /\ stage[j] = "asked" /\ To(j, "withdrawn")
    /\ registration = "hidden" => \E k \in Job \ {j} : Active(k)
    /\ UNCHANGED <<tree, registration>>

Hide    == /\ registration = "listed" /\ registration' = "hidden"
           /\ \E j \in Job : Active(j)
           /\ UNCHANGED <<stage, tree>>
Restore == /\ registration = "hidden" /\ registration' = "listed"
           /\ \E j \in Job : stage[j] = "asked"
           /\ UNCHANGED <<stage, tree>>
Forget  == /\ registration # "gone" /\ registration' = "gone"
           /\ \E j \in Job : stage[j] = "committed"
           /\ UNCHANGED <<stage, tree>>
Shrink  == /\ \/ tree = "whole" /\ tree' \in {"partial", "gone"}
              \/ tree = "partial" /\ tree' = "gone"
           /\ \E j \in Job : stage[j] = "committed"
           /\ UNCHANGED <<stage, registration>>

\* Done, and the registration with it when the job itself removed it.
Finish(j) ==
    /\ Active(j) /\ To(j, "done")
    /\ registration' = "gone"
    /\ registration # "gone" => stage[j] = "committed"
    /\ UNCHANGED tree

\* The owner may delete the tree, and prune a registration git still lists.
OwnersDelete == OwnerDeletes /\ tree' = "gone" /\ UNCHANGED <<stage, registration>>
OwnersPrune  == /\ registration = "listed" /\ registration' = "gone"
                /\ UNCHANGED <<stage, tree>>

Next ==
    \/ \E j \in Job : Ask(j) \/ Begin(j) \/ Withdraw(j) \/ Finish(j)
    \/ Hide \/ Restore \/ Forget \/ Shrink \/ OwnersDelete \/ OwnersPrune

Spec == Init /\ [][Next]_vars
=============================================================================
