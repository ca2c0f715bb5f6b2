---------------------------- MODULE MCQuotaStore ----------------------------
(***************************************************************************)
(* QuotaStore on small instances: instances of one app, some with an       *)
(* unlimited quota.                                                        *)
(***************************************************************************)
EXTENDS QuotaStore, TLC

CONSTANTS i1, i2, app, r1, r2

\* Two instances of one app; the second has no daily limit of its own.
MCTenant == {i1, i2, app}
MCLimit  == (i1 :> 1) @@ (i2 :> 0) @@ (app :> 2)
MCChecks == {{i1, app}, {i2, app}}

\* One instance and its app.
SmallTenant == {i1, app}
SmallLimit  == (i1 :> 2) @@ (app :> 3)

SmallChecks == {{i1, app}}

Symmetry == Permutations(Request)
=============================================================================
