---- MODULE MCDaemonHandoff ----
(* Instances of DaemonHandoff for TLC. *)
EXTENDS DaemonHandoff, TLC

CONSTANTS c1, c2

Upgrade   == (c1 :> 2) @@ (c2 :> 1)
Protocols == (1 :> 0) @@ (2 :> 1)
====
