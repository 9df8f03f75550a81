---- MODULE MCEngineCalls ----
(* Instances of EngineCalls for TLC. *)
EXTENDS EngineCalls, TLC

Ids == Permutations(Waiter) \cup Permutations(Job)
====
