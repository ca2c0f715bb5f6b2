------------------------------- MODULE MCPush -------------------------------
(***************************************************************************)
(* Push for an instance of app1, whose key rotates, and devices of both    *)
(* apps.                                                                   *)
(***************************************************************************)
EXTENDS Push, TLC

CONSTANTS app1, app2, inst1, rot1, rot2, dev1, req1, old, new

MCAppOf == [i \in Instance |-> app1]
\* The primary secret is replaced, in one restart or by way of a ring of both.
MCRings == {[primary |-> old, keys |-> {old}], [primary |-> new, keys |-> {old, new}],
            [primary |-> new, keys |-> {new}]}
\* app1's key is rotated twice, app2's never.
MCVersions == [a \in App |-> IF a = app1 THEN 3 ELSE 1]

Symmetry == Permutations(Rotation)
=============================================================================
