---- MODULE MCStackClaims ----
(* Instances of StackClaims for TLC. *)
EXTENDS StackClaims, TLC

CONSTANTS a, b, p1, p2, p3

Lines == {<<a>>, <<b>>, <<a, b>>}

Task(c, names) == [command |-> c, claims |-> names]
Started(t, u, v) == (p1 :> t) @@ (p2 :> u) @@ (p3 :> v)

Mixed == {Started(Task("rebase", <<a, b>>), Task("rebase", <<b>>), Task("rebase", <<a>>)),
          Started(Task("rebase", <<a, b>>), Task("ship", <<b>>), Task("rebase", <<a, b>>)),
          Started(Task("rebase", <<a, b>>), Task("ship", <<a>>), Task("continue", <<a>>)),
          Started(Task("rebase", <<b>>), Task("rebase", <<a, b>>), Task("continue", <<a>>))}

Rebases == {Started(Task("rebase", <<a, b>>), Task("rebase", <<b>>), Task("rebase", <<b>>))}
====
