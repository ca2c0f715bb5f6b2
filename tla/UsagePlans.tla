----------------------------- MODULE UsagePlans -----------------------------
(***************************************************************************)
(* Usage plans: the rows of app_usage_plan and instance_usage_plan, their  *)
(* assignment to apps and instances, and the management requests that      *)
(* change them (internal/api/usageplan.go, apps.go, instances.go), each of *)
(* which is several SQL statements of their own, interleaved with those of *)
(* other requests.                                                         *)
(*                                                                         *)
(* A row's id is random and never used twice, and its app, scope and       *)
(* is_default columns are never updated, so they are constants of the id.  *)
(***************************************************************************)
EXTENDS Naturals, FiniteSets

CONSTANTS
    App, Instance, AppPlan, InstPlan,   \* ids of the rows of each table
    None,           \* SQL NULL
    AppOf,          \* instance.app_id
    PlanApp,        \* instance_usage_plan.app_id
    Scope,          \* app_usage_plan.app_id, instance_usage_plan.instance_id
    GlobalDefault,  \* the app plans with is_default
    OwnDefault,     \* the instance plan of each app with is_default
    Terms,          \* what the limit columns of a plan can say, 0 for unlimited
    Offers,         \* what requests set them to, per plan
    Handler         \* management requests that can be served at once

Plan  == AppPlan \cup InstPlan
Owner == App \cup Instance       \* what a plan is assigned to
Id    == Owner \cup Plan

ASSUME PlansAssumption ==
    /\ App \cap Instance = {} /\ AppPlan \cap InstPlan = {} /\ Owner \cap Plan = {}
    /\ None \notin Id
    /\ AppOf \in [Instance -> App]
    /\ PlanApp \in [InstPlan -> App]
    /\ Scope \in [Plan -> Owner \cup {None}]
    /\ \A p \in AppPlan : Scope[p] \in App \cup {None}
    /\ \A p \in InstPlan : Scope[p] \in Instance \cup {None}
    /\ GlobalDefault \subseteq AppPlan /\ GlobalDefault # {}
    /\ OwnDefault \in [App -> InstPlan]
    /\ \A a \in App : PlanApp[OwnDefault[a]] = a
    /\ \A p \in GlobalDefault \cup {OwnDefault[a] : a \in App} : Scope[p] = None
    /\ Terms \subseteq Nat /\ 0 \in Terms
    /\ Offers \in [Plan -> SUBSET Terms]

VARIABLES
    live,       \* the rows there are
    gone,       \* ids of deleted rows
    assigned,   \* the usage_plan_id column of apps and instances
    terms,      \* the limit columns of plans
    req         \* what each management request does next

plansVars == <<live, gone, assigned, terms, req>>

IsDefault(p) == p \in GlobalDefault \cup {OwnDefault[a] : a \in App}

\* A request that is being served: its next step, the app its path names (None
\* on an admin route), and the owner, plan and limits it is about.
Step    == {"idle", "reread", "delete", "update", "assign", "flush"}
Request == [step : Step, app : App \cup {None}, owner : Owner \cup {None},
            plan : Plan \cup {None}, terms : Terms]
Idle    == [step |-> "idle", app |-> None, owner |-> None, plan |-> None, terms |-> 0]
Pending(step, a, o, p, t) ==
    [step |-> step, app |-> a, owner |-> o, plan |-> p, terms |-> t]

Init ==
    /\ live = {} /\ gone = {}
    /\ assigned = [o \in Owner |-> None]
    /\ terms = [p \in Plan |-> 0]
    /\ req = [h \in Handler |-> Idle]

Unused(id) == id \notin live \cup gone

\* Requests are about rows that exist or have existed.
Known(id) == id \in live \cup gone \cup {None}

-----------------------------------------------------------------------------
\* App and instance rows.

\* ensureDefaultAppUsagePlan: the global default app plan, when there is none.  A
\* shared plan that is named "default" takes its name, and the refused INSERT counts
\* as another's that came first: there is no default then.
NewDefault(new) ==
    \/ GlobalDefault \cap live # {} /\ new = {}
    \/ GlobalDefault \cap live = {} /\ \E g \in GlobalDefault : Unused(g) /\ new = {g}
    \/ /\ GlobalDefault \cap live = {} /\ new = {}
       /\ \E p \in AppPlan \cap live : Scope[p] = None

\* Service.Create: the app and its plans by default, in one transaction.  Apps are
\* never deleted.
CreateApp(a) ==
    /\ Unused(a)
    /\ \E new \in SUBSET GlobalDefault :
          NewDefault(new) /\ live' = live \cup {a, OwnDefault[a]} \cup new
    /\ UNCHANGED <<gone, assigned, terms, req>>

\* Service.Issue.
Issue(i) ==
    /\ Unused(i)
    /\ AppOf[i] \in live
    /\ live' = live \cup {i}
    /\ UNCHANGED <<gone, assigned, terms, req>>

\* deleteInstance.  The foreign keys take the plans of the instance's own with
\* it, and refuse while another instance is assigned to one of them.
DeleteInstance(a, i) ==
    LET own == {p \in InstPlan \cap live : Scope[p] = i}
    IN /\ i \in live
       /\ AppOf[i] = a
       /\ \A j \in (Instance \cap live) \ {i} : assigned[j] \notin own
       /\ live' = live \ ({i} \cup own)
       /\ gone' = gone \cup {i} \cup own
       /\ assigned' = [assigned EXCEPT ![i] = None]
       /\ terms' = [p \in Plan |-> IF p \in own THEN 0 ELSE terms[p]]
       /\ UNCHANGED req

-----------------------------------------------------------------------------
\* Steps of the management requests.

Continue(h, r) == req' = [req EXCEPT ![h] = r]
IsAt(h, step)  == req[h].step = step
Written(h)     == [req[h] EXCEPT !.step = "flush"]

\* Faulty variant, for mutation runs: the id of a deleted plan is used again.
InsertAppPlan_OldId(h, p, t) ==
    /\ IsAt(h, "idle")
    /\ p \in AppPlan \ (GlobalDefault \cup live)
    /\ Scope[p] \in live \cup {None}
    /\ live' = live \cup {p}
    /\ terms' = [terms EXCEPT ![p] = t]
    /\ Continue(h, Pending("reread", None, None, p, t))
    /\ UNCHANGED <<gone, assigned>>

\* A unique index allows one plan per scope.
ScopeFree(p) == Scope[p] # None => \A q \in Plan \cap live : Scope[q] # Scope[p]

\* createAppUsagePlan: the INSERT.  The SELECT of the app before it finds what
\* the INSERT's foreign key needs, for good: apps are not deleted.
InsertAppPlan(h, p, t) ==
    /\ IsAt(h, "idle")
    /\ p \in AppPlan \ GlobalDefault
    /\ Unused(p)
    /\ Scope[p] \in live \cup {None}
    /\ ScopeFree(p)
    /\ live' = live \cup {p}
    /\ terms' = [terms EXCEPT ![p] = t]
    /\ Continue(h, Pending("reread", None, None, p, t))
    /\ UNCHANGED <<gone, assigned>>

\* createInstanceUsagePlan: the INSERT.  The instance its SELECT has found may
\* be gone by now; then the foreign key refuses the row.
InsertInstPlan(h, p, t) ==
    /\ IsAt(h, "idle")
    /\ p \in InstPlan /\ ~IsDefault(p)
    /\ Unused(p)
    /\ PlanApp[p] \in live
    /\ Scope[p] # None => Scope[p] \in live /\ AppOf[Scope[p]] = PlanApp[p]
    /\ ScopeFree(p)
    /\ live' = live \cup {p}
    /\ terms' = [terms EXCEPT ![p] = t]
    /\ Continue(h, Pending("reread", PlanApp[p], None, p, t))
    /\ UNCHANGED <<gone, assigned>>

\* The SELECT of the inserted row for the answer.
Reread(h) ==
    /\ IsAt(h, "reread")
    /\ req[h].plan \in live
    /\ Continue(h, Written(h))
    /\ UNCHANGED <<live, gone, assigned, terms>>

\* updateAppUsagePlan: a single UPDATE.
UpdateAppPlan(h, p, t) ==
    /\ IsAt(h, "idle")
    /\ p \in AppPlan \cap live
    /\ terms' = [terms EXCEPT ![p] = t]
    /\ Continue(h, Pending("flush", None, None, p, t))
    /\ UNCHANGED <<live, gone, assigned>>

\* deleteAppUsagePlan goes on unless the SELECT finds a default plan.
CheckAppPlan(h, p) ==
    /\ IsAt(h, "idle")
    /\ p \in AppPlan /\ Known(p)
    /\ ~(p \in live /\ IsDefault(p))
    /\ Continue(h, Pending("delete", None, None, p, 0))
    /\ UNCHANGED <<live, gone, assigned, terms>>

\* A SELECT that fails finds no default plan either.
CheckAppPlanFails(h, p) ==
    /\ IsAt(h, "idle")
    /\ p \in AppPlan /\ Known(p)
    /\ Continue(h, Pending("delete", None, None, p, 0))
    /\ UNCHANGED <<live, gone, assigned, terms>>

\* updateInstanceUsagePlan and deleteInstanceUsagePlan: the SELECT.
FetchInstPlan(h, a, p, step, t) ==
    /\ IsAt(h, "idle")
    /\ p \in InstPlan \cap live
    /\ PlanApp[p] = a
    /\ step = "delete" => ~IsDefault(p)
    /\ Continue(h, Pending(step, a, None, p, t))
    /\ UNCHANGED <<live, gone, assigned, terms>>

\* The UPDATE by id; a plan that is gone by now is answered with 404.
UpdateInstPlan(h) ==
    LET p == req[h].plan
    IN /\ IsAt(h, "update")
       /\ IF p \in live
          THEN terms' = [terms EXCEPT ![p] = req[h].terms] /\ Continue(h, Written(h))
          ELSE Continue(h, Idle) /\ UNCHANGED terms
       /\ UNCHANGED <<live, gone, assigned>>

\* Faulty variant, for mutation runs: no foreign key holds an assigned plan.
DeletePlan_NoForeignKey(h) ==
    LET p == req[h].plan
    IN /\ IsAt(h, "delete")
       /\ IF p \in live /\ (p \in InstPlan => PlanApp[p] = req[h].app)
          THEN /\ live' = live \ {p}
               /\ gone' = gone \cup {p}
               /\ terms' = [terms EXCEPT ![p] = 0]
               /\ Continue(h, Written(h))
          ELSE Continue(h, Idle) /\ UNCHANGED <<live, gone, terms>>
       /\ UNCHANGED assigned

\* The DELETE; a plan some row is assigned to is kept by its foreign key.
DeletePlan(h) ==
    LET p == req[h].plan
    IN /\ IsAt(h, "delete")
       /\ IF /\ p \in live /\ (p \in InstPlan => PlanApp[p] = req[h].app)
             /\ \A o \in Owner \cap live : assigned[o] # p
          THEN /\ live' = live \ {p}
               /\ gone' = gone \cup {p}
               /\ terms' = [terms EXCEPT ![p] = 0]
               /\ Continue(h, Written(h))
          ELSE Continue(h, Idle) /\ UNCHANGED <<live, gone, terms>>
       /\ UNCHANGED assigned

\* The plans updateApp and updateInstance accept for an owner.
MayHave(o, p) ==
    /\ Scope[p] \in {None, o}
    /\ IF o \in App THEN p \in AppPlan ELSE p \in InstPlan /\ PlanApp[p] = AppOf[o]

\* updateApp: the SELECT that validates the plan.  None clears the assignment
\* and needs no plan.  Only the admin may name a plan.
ValidateForApp(h, a, p) ==
    /\ IsAt(h, "idle")
    /\ Known(a)
    /\ p # None => p \in live /\ MayHave(a, p)
    /\ Continue(h, Pending("assign", None, a, p, 0))
    /\ UNCHANGED <<live, gone, assigned, terms>>

\* updateInstance: the SELECTs of the instance and of the plan.  An instance
\* deleted between the two is not there for the UPDATE either.
ValidateForInst(h, a, i, p) ==
    /\ IsAt(h, "idle")
    /\ i \in live
    /\ AppOf[i] = a
    /\ p # None => p \in live /\ MayHave(i, p)
    /\ Continue(h, Pending("assign", a, i, p, 0))
    /\ UNCHANGED <<live, gone, assigned, terms>>

\* AssignAppUsagePlan; the foreign key refuses a plan that is gone by now.  The
\* name and is_public columns, written before in a statement of their own, are
\* left out.
AssignToApp(h) ==
    LET a == req[h].owner
        p == req[h].plan
    IN /\ IsAt(h, "assign")
       /\ a \in App
       /\ IF a \in live /\ p \in live \cup {None}
          THEN assigned' = [assigned EXCEPT ![a] = p] /\ Continue(h, Written(h))
          ELSE Continue(h, Idle) /\ UNCHANGED assigned
       /\ UNCHANGED <<live, gone, terms>>

\* AssignInstanceUsagePlan; an instance that is gone by now is no error.
AssignToInst(h) ==
    LET i == req[h].owner
        p == req[h].plan
    IN /\ IsAt(h, "assign")
       /\ i \in Instance
       /\ IF i \in live /\ p \notin live \cup {None}
          THEN Continue(h, Idle) /\ UNCHANGED assigned
          ELSE /\ Continue(h, Written(h))
               /\ assigned' = IF i \in live THEN [assigned EXCEPT ![i] = p] ELSE assigned
       /\ UNCHANGED <<live, gone, terms>>

\* onRateConfigChange, and the answer.
Flush(h) ==
    /\ IsAt(h, "flush")
    /\ Continue(h, Idle)
    /\ UNCHANGED <<live, gone, assigned, terms>>

\* The next statement of a request fails, and the request with it.
Fail(h) ==
    /\ ~IsAt(h, "idle") /\ ~IsAt(h, "flush")
    /\ Continue(h, Idle)
    /\ UNCHANGED <<live, gone, assigned, terms>>

\* The process stops and starts again: the requests are lost, the rows are not.
Restart ==
    /\ req' = [h \in Handler |-> Idle]
    /\ UNCHANGED <<live, gone, assigned, terms>>

-----------------------------------------------------------------------------
RowStep ==
    \/ \E a \in App : CreateApp(a)
    \/ \E i \in Instance : Issue(i)
    \/ \E a \in App, i \in Instance : DeleteInstance(a, i)

\* Every step of a request but the one that flushes the cached limits.
RequestStep(h) ==
    \/ \E p \in Plan : \E t \in Offers[p] : InsertAppPlan(h, p, t) \/ InsertInstPlan(h, p, t)
    \/ Reread(h)
    \/ \E p \in AppPlan : \E t \in Offers[p] : UpdateAppPlan(h, p, t)
    \/ \E p \in AppPlan : CheckAppPlan(h, p) \/ CheckAppPlanFails(h, p)
    \/ \E a \in App, p \in InstPlan :
         \/ \E t \in Offers[p] : FetchInstPlan(h, a, p, "update", t)
         \/ FetchInstPlan(h, a, p, "delete", 0)
    \/ UpdateInstPlan(h)
    \/ DeletePlan(h)
    \/ \E a \in App, p \in Plan \cup {None} :
         \/ ValidateForApp(h, a, p)
         \/ \E i \in Instance : ValidateForInst(h, a, i, p)
    \/ AssignToApp(h) \/ AssignToInst(h)
    \/ Fail(h)

PlansNext ==
    \/ RowStep
    \/ \E h \in Handler : RequestStep(h) \/ Flush(h)
    \/ Restart

PlansSpec == Init /\ [][PlansNext]_plansVars

-----------------------------------------------------------------------------
\* Properties.

\* Every variable has its type, and a deleted row is not there.
TypeOK ==
    /\ live \subseteq Id /\ gone \subseteq Id /\ live \cap gone = {}
    /\ assigned \in [Owner -> Plan \cup {None}]
    /\ terms \in [Plan -> Terms]
    /\ req \in [Handler -> Request]

\* Whatever requests overlap, an app or an instance is only ever under a plan
\* that exists, of its own kind and app, and shared or made for it: validation
\* and assignment are two statements with other requests between them
\* (apps.go:133-164, instances.go:104-127).
AssignmentsInScope ==
    \A o \in Owner \cap live :
        assigned[o] # None =>
            /\ assigned[o] \in live
            /\ Scope[assigned[o]] \in {None, o}
            /\ o \in App => assigned[o] \in AppPlan
            /\ o \in Instance => assigned[o] \in InstPlan /\ PlanApp[assigned[o]] = AppOf[o]

\* An app always has its default instance plan, the fallback of every instance
\* without a plan of its own (app.go:53-60, usageplan.go:522-525).
OwnDefaultsStay == \A a \in App \cap live : OwnDefault[a] \in live

\* Deleting an instance is never refused because another instance is under one
\* of the plans that go with it (0001_init.up.sql:21-23).
InstancesDeletable ==
    \A i, j \in Instance \cap live :
        i # j => \A p \in InstPlan \cap live : Scope[p] = i => assigned[j] # p

\* What one app's owner may ask for reaches no other app's instance plans and
\* assignments: a request changes rows of the app its path names only.
\* updateInstanceUsagePlan compares the app in one statement and writes in
\* another that does not (usageplan.go:467-489).
OtherAppsUntouched ==
    [][\A h \in Handler, a \in App : req'[h] # req[h] /\ req[h].app = a =>
         /\ \A p \in InstPlan : PlanApp[p] # a =>
              terms'[p] = terms[p] /\ (p \in live' <=> p \in live)
         /\ \A i \in Instance : AppOf[i] # a => assigned'[i] = assigned[i]]_plansVars

\* While there is an app there is a global default app plan.
GlobalDefaultStays == App \cap live # {} => GlobalDefault \cap live # {}
=============================================================================
