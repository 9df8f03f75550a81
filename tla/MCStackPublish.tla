---- MODULE MCStackPublish ----
(* Instances of StackPublish for TLC. *)
EXTENDS StackPublish, TLC

CONSTANTS low, top

Two == <<low, top>>
====
