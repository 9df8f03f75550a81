---- MODULE MCPRStore ----
(* Instances of PRStore for TLC. *)
EXTENDS PRStore, TLC

CONSTANTS
    Named, Prefixes,        \* the sets of pull requests, and of prefixes, a read may name
    Age, After, Patient     \* what its other fields may be

AllPRs == [l \in Lane |-> PR]

Reads == {[prs |-> ns, lanes |-> ls, maxAge |-> m, after |-> a, patient |-> b] :
            ns \in Named, ls \in Prefixes, m \in Age, a \in After, b \in Patient}

Ids == Permutations(Process)
====
