SPECIFICATION PlansSpec
CONSTANTS
    app1 = app1  app2 = app2  inst1 = inst1  inst2 = inst2  global = global
    appPlan = appPlan  ownPlan = ownPlan  dflt1 = dflt1  dflt2 = dflt2
    instPlan = instPlan  ownInstPlan = ownInstPlan  req1 = req1  req2 = req2
    App = {app1, app2}
    Instance = {inst1, inst2}
    AppPlan = {global, ownPlan}
    InstPlan = {dflt1, dflt2, ownInstPlan}
    Terms = {0}
    Handler = {req1, req2}
    GlobalDefault = {global}
    None = None
    AppOf <- MCAppOf
    PlanApp <- MCPlanApp
    Scope <- MCScope
    OwnDefault <- MCOwnDefault
    Offers <- MCOffers
SYMMETRY Symmetry
INVARIANTS TypeOK AssignmentsInScope
