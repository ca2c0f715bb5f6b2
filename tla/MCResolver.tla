----------------------------- MODULE MCResolver -----------------------------
(***************************************************************************)
(* Resolver for one app and one instance, appPlan and ownInstPlan to be    *)
(* assigned to them.                                                       *)
(***************************************************************************)
EXTENDS Resolver, TLC

CONSTANTS app1, inst1, global, appPlan, dflt1, ownInstPlan, req1, reader1

MCAppOf      == [i \in Instance |-> app1]
MCPlanApp    == [p \in InstPlan |-> app1]
MCScope      == [p \in Plan |-> IF p = ownInstPlan THEN inst1 ELSE None]
MCOwnDefault == [a \in App |-> dflt1]
\* What the limits are set to: enough to tell each scope's own plan from its default.
MCOffers     == [p \in Plan |-> IF p \in {appPlan, ownInstPlan} THEN {1} ELSE {}]

\* Bound: after an entry of one key, another is looked at for a step only.  Entries
\* of different keys share nothing but the flush, which drops them all.
OneKey == Cardinality(known) <= 1
=============================================================================
