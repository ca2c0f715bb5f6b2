SPECIFICATION ResolverSpec
CONSTANTS
    app1 = app1  inst1 = inst1  global = global  appPlan = appPlan
    dflt1 = dflt1  ownInstPlan = ownInstPlan
    req1 = req1  reader1 = reader1
    App = {app1}
    Instance = {inst1}
    AppPlan = {global, appPlan}
    InstPlan = {dflt1, ownInstPlan}
    Terms = {0, 1}
    Handler = {req1}
    Reader = {reader1}
    GlobalDefault = {global}
    None = None
    AppOf <- MCAppOf
    PlanApp <- MCPlanApp
    Scope <- MCScope
    OwnDefault <- MCOwnDefault
    Offers <- MCOffers
INVARIANTS ResolverTypeOK CacheCurrentUnlessOvertaken CachedIsLastGood
PROPERTIES FailsOpenOnlyUnknown
CONSTRAINT OneKey
