------------------------------- MODULE MCGate -------------------------------
(***************************************************************************)
(* Gate for one instance and its app.                                      *)
(***************************************************************************)
EXTENDS Gate, TLC

CONSTANTS app1, inst1, push1, push2

MCAppOf == [i \in Instance |-> app1]

\* The instance's plan changes between a token a tick and two at half that rate; the
\* app has no limit, or a token that takes longer to refill than Cleanup waits.
PerMin(n, burst) == [perMin |-> n, burst |-> burst]
Changing ==
    [k \in Key |-> IF k = app1 THEN {PerMin(0, 0), PerMin(1, 1)} ELSE {PerMin(4, 1), PerMin(2, 2)}]

Symmetry == Permutations(Push)
=============================================================================
