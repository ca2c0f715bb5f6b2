---------------------------- MODULE MCUsagePlans ----------------------------
(***************************************************************************)
(* UsagePlans on few rows.  The first app has a plan of its own, ownPlan,  *)
(* and its first instance one too, ownInstPlan; appPlan and instPlan are   *)
(* shared.                                                                 *)
(***************************************************************************)
EXTENDS UsagePlans, TLC

CONSTANTS app1, app2, inst1, inst2, global, appPlan, ownPlan, dflt1, dflt2,
          instPlan, ownInstPlan, req1, req2

MCAppOf      == [i \in Instance |-> app1]
MCPlanApp    == [p \in InstPlan |-> IF p = dflt2 THEN app2 ELSE app1]
MCScope      == [p \in Plan |-> CASE p = ownPlan -> app1 [] p = ownInstPlan -> inst1
                                   [] OTHER -> None]
MCOwnDefault == [a \in App |-> IF a = app2 THEN dflt2 ELSE dflt1]
MCOffers     == [p \in Plan |-> Terms]

Symmetry == Permutations(Handler)
=============================================================================
