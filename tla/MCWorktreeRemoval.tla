-------------------------- MODULE MCWorktreeRemoval --------------------------
(* Small instances of WorktreeRemoval for TLC. *)
EXTENDS WorktreeRemovalPromise, TLC

Ids     == Permutations(Job) \cup Permutations(Commit)
=============================================================================
