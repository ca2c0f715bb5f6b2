------------------------- MODULE UsagePlans_proofs -------------------------
(***************************************************************************)
(* Proofs about UsagePlans, for any rows and any number of requests.       *)
(***************************************************************************)
EXTENDS TLAPS, UsagePlans

OwnDefaults == {OwnDefault[a] : a \in App}

\* What a request may be about to do to the rows was found allowed before, and
\* is so for good: apps, scopes and defaults of an id never change.
Allowed(r) ==
    /\ r.step = "idle" => r.app = None
    /\ r.step = "delete" => /\ r.plan \in Plan \ OwnDefaults
                            /\ r.plan \in InstPlan => PlanApp[r.plan] = r.app
    /\ r.step = "update" => r.plan \in InstPlan /\ PlanApp[r.plan] = r.app
    /\ r.step = "assign" => /\ r.owner \in Owner
                            /\ r.owner \in Instance => AppOf[r.owner] = r.app
                            /\ r.plan # None => r.plan \in Plan /\ MayHave(r.owner, r.plan)

AllAllowed == \A h \in Handler : Allowed(req[h])

\* Nothing is assigned to what is not there, and defaults are not deleted.
NothingLeftBehind ==
    /\ \A o \in Owner \ live : assigned[o] = None
    /\ OwnDefaults \cap gone = {}

PlansInv ==
    TypeOK /\ AllAllowed /\ NothingLeftBehind /\ AssignmentsInScope /\ OwnDefaultsStay

\* The assumptions on the constants, one by one.
LEMMA ConstantFacts ==
    /\ None \notin Owner /\ None \notin Plan /\ Owner \cap Plan = {}
    /\ AppPlan \cap InstPlan = {} /\ App \cap Instance = {}
    /\ 0 \in Terms /\ OwnDefaults \subseteq InstPlan
    /\ \A i \in Instance : AppOf[i] \in App
    /\ \A a \in App : OwnDefault[a] \in OwnDefaults /\ PlanApp[OwnDefault[a]] = a
    /\ \A p \in InstPlan : PlanApp[p] \in App
    /\ \A p \in OwnDefaults : Scope[p] = None /\ IsDefault(p)
    /\ \A p \in Plan : \A t \in Offers[p] : t \in Terms
  BY PlansAssumption DEF Owner, Plan, Id, OwnDefaults, IsDefault

-----------------------------------------------------------------------------
\* The initial state.
LEMMA InitInv == Init => PlansInv
  <1>1. SUFFICES ASSUME Init PROVE PlansInv
    OBVIOUS
  <1>2. TypeOK
    BY <1>1, ConstantFacts DEF Init, TypeOK, Idle, Request, Step
  <1>3. AllAllowed
    BY <1>1 DEF Init, AllAllowed, Allowed, Idle
  <1> QED
    BY <1>1, <1>2, <1>3 DEF Init, PlansInv, NothingLeftBehind, AssignmentsInScope, OwnDefaultsStay, Owner

-----------------------------------------------------------------------------
\* A request that goes on with something allowed keeps the requests in order.
LEMMA ContinueAllowed ==
    ASSUME NEW h \in Handler, NEW r \in Request, PlansInv, Continue(h, r), Allowed(r)
    PROVE  req' \in [Handler -> Request] /\ AllAllowed'
  <1>1. req \in [Handler -> Request] /\ req' = [req EXCEPT ![h] = r]
    BY DEF PlansInv, TypeOK, Continue
  <1>2. ASSUME NEW g \in Handler PROVE Allowed(req'[g])
    BY <1>1 DEF PlansInv, AllAllowed
  <1> QED
    BY <1>1, <1>2 DEF AllAllowed, Allowed, MayHave

\* The same for a step that ends the request or goes on to its flush.
LEMMA ContinueNothing ==
    ASSUME NEW h \in Handler, PlansInv, Continue(h, Idle) \/ Continue(h, Written(h))
    PROVE  req' \in [Handler -> Request] /\ AllAllowed'
  <1>1. Idle \in Request /\ Allowed(Idle)
    BY ConstantFacts DEF Idle, Request, Step, Allowed
  <1>2. Written(h) \in Request /\ Allowed(Written(h))
    BY DEF PlansInv, TypeOK, Written, Request, Step, Allowed
  <1> QED
    BY <1>1, <1>2, ContinueAllowed

\* A step that changes no row and keeps the requests in order.
LEMMA RowsUntouched ==
    ASSUME PlansInv, UNCHANGED <<live, gone, assigned, terms>>,
           req' \in [Handler -> Request], AllAllowed'
    PROVE  PlansInv'
  BY DEF PlansInv, TypeOK, NothingLeftBehind, AssignmentsInScope, OwnDefaultsStay
-----------------------------------------------------------------------------
\* App and instance rows.

\* New rows beside those there are, none of them a deleted one.
LEMMA RowsAdded ==
    ASSUME PlansInv, NEW new \in SUBSET Id, live' = live \cup new, new \cap gone = {},
           UNCHANGED <<gone, assigned>>, terms' \in [Plan -> Terms],
           \A a \in App \cap new : OwnDefault[a] \in live',
           req' \in [Handler -> Request], AllAllowed'
    PROVE  PlansInv'
  <1>1. TypeOK'
    BY DEF PlansInv, TypeOK
  <1>2. NothingLeftBehind'
    BY DEF PlansInv, NothingLeftBehind
  <1>3. AssignmentsInScope'
    <2>1. SUFFICES ASSUME NEW o \in Owner, o \in live', assigned[o] # None
                   PROVE  /\ assigned[o] \in live'
                          /\ Scope[assigned[o]] \in {None, o}
                          /\ o \in App => assigned[o] \in AppPlan
                          /\ o \in Instance => /\ assigned[o] \in InstPlan
                                               /\ PlanApp[assigned[o]] = AppOf[o]
      BY DEF AssignmentsInScope
    <2>2. o \in live
      BY <2>1 DEF PlansInv, NothingLeftBehind
    <2> QED
      BY <2>1, <2>2 DEF PlansInv, AssignmentsInScope
  <1>4. OwnDefaultsStay'
    BY DEF PlansInv, OwnDefaultsStay
  <1> QED
    BY <1>1, <1>2, <1>3, <1>4 DEF PlansInv

LEMMA CreateAppInv == ASSUME PlansInv, NEW a \in App, CreateApp(a) PROVE PlansInv'
  <1>1. PICK new \in SUBSET Id : /\ live' = live \cup new
                                 /\ {a, OwnDefault[a]} \subseteq new
                                 /\ new \subseteq {a, OwnDefault[a]} \cup (GlobalDefault \ gone)
    <2>1. {a, OwnDefault[a]} \subseteq Id /\ GlobalDefault \subseteq Id
      BY PlansAssumption DEF Id, Owner, Plan
    <2>2. PICK dflt \in SUBSET GlobalDefault :
             NewDefault(dflt) /\ live' = live \cup {a, OwnDefault[a]} \cup dflt
      BY DEF CreateApp
    <2>3. dflt \cap gone = {}
      BY <2>2 DEF NewDefault, Unused
    <2> DEFINE new == {a, OwnDefault[a]} \cup dflt
    <2>4. new \in SUBSET Id /\ live' = live \cup new
      BY <2>1, <2>2
    <2>5. {a, OwnDefault[a]} \subseteq new /\ new \subseteq {a, OwnDefault[a]} \cup (GlobalDefault \ gone)
      BY <2>2, <2>3
    <2> QED
      BY <2>4, <2>5
  <1>2. new \cap gone = {}
    BY <1>1, ConstantFacts DEF CreateApp, Unused, PlansInv, NothingLeftBehind
  <1>3. \A b \in App \cap new : OwnDefault[b] \in live'
    <2>1. \A b \in App \cap new : b = a
      BY <1>1, ConstantFacts, PlansAssumption DEF Owner, Plan
    <2> QED
      BY <1>1, <2>1
  <1>4. /\ UNCHANGED <<gone, assigned>> /\ terms' \in [Plan -> Terms]
        /\ req' \in [Handler -> Request] /\ AllAllowed'
    BY DEF CreateApp, PlansInv, TypeOK, AllAllowed, Allowed, MayHave
  <1> QED
    BY <1>1, <1>2, <1>3, <1>4, RowsAdded

LEMMA IssueInv == ASSUME PlansInv, NEW i \in Instance, Issue(i) PROVE PlansInv'
  <1>1. {i} \in SUBSET Id /\ {i} \cap gone = {} /\ App \cap {i} = {}
    BY ConstantFacts DEF Issue, Unused, Id, Owner
  <1>2. /\ live' = live \cup {i} /\ UNCHANGED <<gone, assigned>> /\ terms' \in [Plan -> Terms]
        /\ req' \in [Handler -> Request] /\ AllAllowed'
    BY DEF Issue, PlansInv, TypeOK, AllAllowed, Allowed, MayHave
  <1> QED
    BY <1>1, <1>2, RowsAdded

\* Rows that nothing is assigned to are deleted, no default among them.
LEMMA RowsDeleted ==
    ASSUME PlansInv, NEW old \in SUBSET (live \ (App \cup OwnDefaults)),
           live' = live \ old, gone' = gone \cup old,
           assigned' \in [Owner -> Plan \cup {None}],
           \A o \in Owner : assigned'[o] = (IF o \in old THEN None ELSE assigned[o]),
           \A o \in (Owner \cap live) \ old : assigned[o] \notin old,
           terms' \in [Plan -> Terms], req' \in [Handler -> Request], AllAllowed'
    PROVE  PlansInv'
  <1>1. TypeOK'
    BY DEF PlansInv, TypeOK
  <1>2. NothingLeftBehind'
    BY DEF PlansInv, NothingLeftBehind
  <1>3. AssignmentsInScope'
    BY ConstantFacts DEF PlansInv, AssignmentsInScope, TypeOK
  <1>4. OwnDefaultsStay'
    BY ConstantFacts DEF PlansInv, OwnDefaultsStay
  <1> QED
    BY <1>1, <1>2, <1>3, <1>4 DEF PlansInv

LEMMA DeleteInstanceInv ==
    ASSUME PlansInv, NEW a \in App, NEW i \in Instance, DeleteInstance(a, i)
    PROVE  PlansInv'
  <1> DEFINE own == {p \in InstPlan \cap live : Scope[p] = i}
             old == {i} \cup own
  <1>1. i \in Owner /\ i # None /\ i \notin App /\ i \notin Plan
    BY ConstantFacts DEF Owner
  <1>2. /\ i \in live /\ live' = live \ old /\ gone' = gone \cup old
        /\ \A j \in (Instance \cap live) \ {i} : assigned[j] \notin own
        /\ assigned' = [assigned EXCEPT ![i] = None]
        /\ terms' = [p \in Plan |-> IF p \in own THEN 0 ELSE terms[p]]
        /\ req' = req
    BY DEF DeleteInstance
  <1>3. old \in SUBSET (live \ (App \cup OwnDefaults))
    <2>1. own \cap App = {} /\ own \subseteq live
      BY ConstantFacts DEF Owner, Plan
    <2>2. own \cap OwnDefaults = {}
      BY <1>1, ConstantFacts
    <2>3. i \notin OwnDefaults
      BY <1>1, ConstantFacts DEF Plan
    <2> QED
      BY <1>1, <1>2, <2>1, <2>2, <2>3
  <1>4. \A o \in Owner : o \in old <=> o = i
    BY ConstantFacts DEF Owner, Plan
  <1>5. /\ assigned \in [Owner -> Plan \cup {None}] /\ terms \in [Plan -> Terms]
        /\ req \in [Handler -> Request] /\ AllAllowed /\ AssignmentsInScope
    BY DEF PlansInv, TypeOK
  <1>6. /\ assigned' \in [Owner -> Plan \cup {None}]
        /\ \A o \in Owner : assigned'[o] = (IF o \in old THEN None ELSE assigned[o])
    BY <1>1, <1>2, <1>4, <1>5
  <1>7. \A o \in (Owner \cap live) \ old : assigned[o] \notin old
    <2>1. ASSUME NEW o \in (Owner \cap live) \ old PROVE assigned[o] \notin old
      <3>1. assigned[o] # i
        BY <1>1, <1>5 DEF Owner, Plan
      <3>2. CASE o \in App
        BY <1>5, <2>1, <3>1, <3>2, ConstantFacts DEF AssignmentsInScope, Plan
      <3>3. CASE o \in Instance
        BY <1>2, <2>1, <3>1, <3>3
      <3> QED
        BY <3>2, <3>3 DEF Owner
    <2> QED
      BY <2>1
  <1>8. /\ terms' \in [Plan -> Terms] /\ req' \in [Handler -> Request] /\ AllAllowed'
    BY <1>2, <1>5, ConstantFacts DEF AllAllowed, Allowed, MayHave
  <1> HIDE DEF old
  <1> QED
    BY <1>2, <1>3, <1>6, <1>7, <1>8, RowsDeleted
-----------------------------------------------------------------------------
\* The statements of requests that change plans.

LEMMA InsertAppPlanInv ==
    ASSUME PlansInv, NEW h \in Handler, NEW p \in Plan, NEW t \in Offers[p],
           InsertAppPlan(h, p, t)
    PROVE  PlansInv'
  <1> DEFINE r == Pending("reread", None, None, p, t)
  <1>1. r \in Request /\ Allowed(r)
    BY ConstantFacts DEF Pending, Request, Step, Allowed
  <1>2. Continue(h, r)
    BY DEF InsertAppPlan
  <1>3. req' \in [Handler -> Request] /\ AllAllowed'
    BY <1>1, <1>2, ContinueAllowed
  <1>4. {p} \in SUBSET Id /\ {p} \cap gone = {} /\ App \cap {p} = {}
    BY ConstantFacts DEF InsertAppPlan, Unused, Id, Owner
  <1>5. /\ live' = live \cup {p} /\ UNCHANGED <<gone, assigned>> /\ terms' \in [Plan -> Terms]
    BY ConstantFacts DEF InsertAppPlan, PlansInv, TypeOK
  <1> QED
    BY <1>3, <1>4, <1>5, RowsAdded

LEMMA InsertInstPlanInv ==
    ASSUME PlansInv, NEW h \in Handler, NEW p \in Plan, NEW t \in Offers[p],
           InsertInstPlan(h, p, t)
    PROVE  PlansInv'
  <1> DEFINE r == Pending("reread", PlanApp[p], None, p, t)
  <1>1. r \in Request /\ Allowed(r)
    BY ConstantFacts DEF InsertInstPlan, Pending, Request, Step, Allowed
  <1>2. Continue(h, r)
    BY DEF InsertInstPlan
  <1>3. req' \in [Handler -> Request] /\ AllAllowed'
    BY <1>1, <1>2, ContinueAllowed
  <1>4. {p} \in SUBSET Id /\ {p} \cap gone = {} /\ App \cap {p} = {}
    BY ConstantFacts DEF InsertInstPlan, Unused, Id, Owner
  <1>5. /\ live' = live \cup {p} /\ UNCHANGED <<gone, assigned>> /\ terms' \in [Plan -> Terms]
    BY ConstantFacts DEF InsertInstPlan, PlansInv, TypeOK
  <1> QED
    BY <1>3, <1>4, <1>5, RowsAdded

\* Other limits are no concern of the invariant.
LEMMA TermsChanged ==
    ASSUME PlansInv, UNCHANGED <<live, gone, assigned>>, terms' \in [Plan -> Terms],
           req' \in [Handler -> Request], AllAllowed'
    PROVE  PlansInv'
  BY DEF PlansInv, TypeOK, NothingLeftBehind, AssignmentsInScope, OwnDefaultsStay

LEMMA UpdateAppPlanInv ==
    ASSUME PlansInv, NEW h \in Handler, NEW p \in AppPlan, NEW t \in Offers[p],
           UpdateAppPlan(h, p, t)
    PROVE  PlansInv'
  <1> DEFINE r == Pending("flush", None, None, p, t)
  <1>1. r \in Request /\ Allowed(r)
    BY ConstantFacts DEF Pending, Request, Step, Allowed, Plan
  <1>2. Continue(h, r)
    BY DEF UpdateAppPlan
  <1>3. req' \in [Handler -> Request] /\ AllAllowed'
    BY <1>1, <1>2, ContinueAllowed
  <1>4. UNCHANGED <<live, gone, assigned>> /\ terms' \in [Plan -> Terms]
    BY ConstantFacts DEF UpdateAppPlan, PlansInv, TypeOK, Plan
  <1> QED
    BY <1>3, <1>4, TermsChanged

LEMMA UpdateInstPlanInv ==
    ASSUME PlansInv, NEW h \in Handler, UpdateInstPlan(h) PROVE PlansInv'
  <1>1. req' \in [Handler -> Request] /\ AllAllowed'
    BY ContinueNothing DEF UpdateInstPlan
  <1>2. UNCHANGED <<live, gone, assigned>> /\ terms' \in [Plan -> Terms]
    BY DEF UpdateInstPlan, PlansInv, TypeOK, Request
  <1> QED
    BY <1>1, <1>2, TermsChanged

LEMMA DeletePlanInv ==
    ASSUME PlansInv, NEW h \in Handler, DeletePlan(h) PROVE PlansInv'
  <1> DEFINE p == req[h].plan
  <1>1. req' \in [Handler -> Request] /\ AllAllowed'
    BY ContinueNothing DEF DeletePlan
  <1>2. CASE UNCHANGED <<live, gone, assigned, terms>>
    BY <1>1, <1>2, RowsUntouched
  <1>3. CASE /\ p \in live
             /\ \A o \in Owner \cap live : assigned[o] # p
             /\ live' = live \ {p} /\ gone' = gone \cup {p} /\ UNCHANGED assigned
             /\ terms' = [terms EXCEPT ![p] = 0]
    <2>1. p \in Plan \ OwnDefaults
      BY DEF DeletePlan, PlansInv, AllAllowed, Allowed, IsAt
    <2>2. {p} \in SUBSET (live \ (App \cup OwnDefaults))
      BY <1>3, <2>1, ConstantFacts DEF Owner
    <2>3. /\ assigned' \in [Owner -> Plan \cup {None}]
          /\ \A o \in Owner : assigned'[o] = (IF o \in {p} THEN None ELSE assigned[o])
      BY <1>3, <2>1, ConstantFacts DEF PlansInv, TypeOK
    <2>4. \A o \in (Owner \cap live) \ {p} : assigned[o] \notin {p}
      BY <1>3
    <2>5. terms' \in [Plan -> Terms]
      BY <1>3, ConstantFacts DEF PlansInv, TypeOK
    <2>6. live' = live \ {p} /\ gone' = gone \cup {p}
      BY <1>3
    <2> HIDE DEF p
    <2> QED
      BY <1>1, <2>2, <2>3, <2>4, <2>5, <2>6, RowsDeleted
  <1> QED
    BY <1>2, <1>3 DEF DeletePlan

-----------------------------------------------------------------------------
\* The statements of requests that assign plans.

LEMMA AssignToAppInv ==
    ASSUME PlansInv, NEW h \in Handler, AssignToApp(h) PROVE PlansInv'
  <1> DEFINE a == req[h].owner
             p == req[h].plan
  <1>1. req' \in [Handler -> Request] /\ AllAllowed'
    BY ContinueNothing DEF AssignToApp
  <1>2. CASE UNCHANGED <<live, gone, assigned, terms>>
    BY <1>1, <1>2, RowsUntouched
  <1>3. CASE /\ a \in live /\ p \in live \cup {None}
             /\ assigned' = [assigned EXCEPT ![a] = p]
    <2>1. /\ a \in App /\ UNCHANGED <<live, gone, terms>>
          /\ p # None => p \in Plan /\ MayHave(a, p)
      BY DEF AssignToApp, PlansInv, AllAllowed, Allowed, IsAt
    <2>2. TypeOK'
      BY <1>1, <1>3, <2>1 DEF PlansInv, TypeOK
    <2>3. NothingLeftBehind' /\ OwnDefaultsStay'
      BY <1>3, <2>1 DEF PlansInv, TypeOK, NothingLeftBehind, OwnDefaultsStay
    <2>4. AssignmentsInScope'
      BY <1>3, <2>1, ConstantFacts DEF PlansInv, TypeOK, AssignmentsInScope, MayHave, Owner
    <2> QED
      BY <1>1, <2>2, <2>3, <2>4 DEF PlansInv
  <1> QED
    BY <1>2, <1>3 DEF AssignToApp

LEMMA AssignToInstInv ==
    ASSUME PlansInv, NEW h \in Handler, AssignToInst(h) PROVE PlansInv'
  <1> DEFINE i == req[h].owner
             p == req[h].plan
  <1>1. req' \in [Handler -> Request] /\ AllAllowed'
    BY ContinueNothing DEF AssignToInst
  <1>2. CASE UNCHANGED <<live, gone, assigned, terms>>
    BY <1>1, <1>2, RowsUntouched
  <1>3. CASE /\ i \in live /\ p \in live \cup {None}
             /\ assigned' = [assigned EXCEPT ![i] = p]
    <2>1. /\ i \in Instance /\ UNCHANGED <<live, gone, terms>>
          /\ p # None => p \in Plan /\ MayHave(i, p)
      BY DEF AssignToInst, PlansInv, AllAllowed, Allowed, IsAt
    <2>2. TypeOK'
      BY <1>1, <1>3, <2>1 DEF PlansInv, TypeOK
    <2>3. NothingLeftBehind' /\ OwnDefaultsStay'
      BY <1>3, <2>1 DEF PlansInv, TypeOK, NothingLeftBehind, OwnDefaultsStay
    <2>4. AssignmentsInScope'
      BY <1>3, <2>1, ConstantFacts DEF PlansInv, TypeOK, AssignmentsInScope, MayHave, Owner
    <2> QED
      BY <1>1, <2>2, <2>3, <2>4 DEF PlansInv
  <1> QED
    BY <1>2, <1>3 DEF AssignToInst

-----------------------------------------------------------------------------
\* The statements of requests that change no row.

LEMMA RereadInv ==
    ASSUME PlansInv, NEW h \in Handler, Reread(h) PROVE PlansInv'
  <1>1. req' \in [Handler -> Request] /\ AllAllowed'
    BY ContinueNothing DEF Reread
  <1> QED
    BY <1>1, RowsUntouched DEF Reread

\* Whether the SELECT before it fails or not: a plan for apps is no default of an
\* app's instances.
LEMMA CheckAppPlanInv ==
    ASSUME PlansInv, NEW h \in Handler, NEW p \in AppPlan,
           CheckAppPlan(h, p) \/ CheckAppPlanFails(h, p)
    PROVE  PlansInv'
  <1> DEFINE r == Pending("delete", None, None, p, 0)
  <1>1. r \in Request /\ Allowed(r)
    BY ConstantFacts DEF Pending, Request, Step, Allowed, Plan
  <1>2. Continue(h, r) /\ UNCHANGED <<live, gone, assigned, terms>>
    BY DEF CheckAppPlan, CheckAppPlanFails
  <1>3. req' \in [Handler -> Request] /\ AllAllowed'
    BY <1>1, <1>2, ContinueAllowed
  <1> QED
    BY <1>2, <1>3, RowsUntouched

LEMMA FetchInstPlanInv ==
    ASSUME PlansInv, NEW h \in Handler, NEW a \in App, NEW p \in InstPlan,
           NEW step \in {"update", "delete"}, NEW t \in Terms,
           FetchInstPlan(h, a, p, step, t)
    PROVE  PlansInv'
  <1> DEFINE r == Pending(step, a, None, p, t)
  <1>1. PlanApp[p] = a /\ (step = "delete" => ~IsDefault(p))
    BY DEF FetchInstPlan
  <1>2. r \in Request
    BY DEF Pending, Request, Step, Plan
  <1>3. Allowed(r)
    BY <1>1, ConstantFacts DEF Pending, Allowed, Plan
  <1>4. Continue(h, r) /\ UNCHANGED <<live, gone, assigned, terms>>
    BY DEF FetchInstPlan
  <1>5. req' \in [Handler -> Request] /\ AllAllowed'
    BY <1>2, <1>3, <1>4, ContinueAllowed
  <1> QED
    BY <1>4, <1>5, RowsUntouched

LEMMA ValidateForAppInv ==
    ASSUME PlansInv, NEW h \in Handler, NEW a \in App, NEW p \in Plan \cup {None},
           ValidateForApp(h, a, p)
    PROVE  PlansInv'
  <1> DEFINE r == Pending("assign", None, a, p, 0)
  <1>1. r \in Request /\ Allowed(r)
    BY ConstantFacts DEF ValidateForApp, Pending, Request, Step, Allowed, Owner
  <1>2. Continue(h, r) /\ UNCHANGED <<live, gone, assigned, terms>>
    BY DEF ValidateForApp
  <1>3. req' \in [Handler -> Request] /\ AllAllowed'
    BY <1>1, <1>2, ContinueAllowed
  <1> QED
    BY <1>2, <1>3, RowsUntouched

LEMMA ValidateForInstInv ==
    ASSUME PlansInv, NEW h \in Handler, NEW a \in App, NEW i \in Instance,
           NEW p \in Plan \cup {None}, ValidateForInst(h, a, i, p)
    PROVE  PlansInv'
  <1> DEFINE r == Pending("assign", a, i, p, 0)
  <1>1. r \in Request /\ Allowed(r)
    BY ConstantFacts DEF ValidateForInst, Pending, Request, Step, Allowed, Owner
  <1>2. Continue(h, r) /\ UNCHANGED <<live, gone, assigned, terms>>
    BY DEF ValidateForInst
  <1>3. req' \in [Handler -> Request] /\ AllAllowed'
    BY <1>1, <1>2, ContinueAllowed
  <1> QED
    BY <1>2, <1>3, RowsUntouched

LEMMA FlushFailInv ==
    ASSUME PlansInv, NEW h \in Handler, Flush(h) \/ Fail(h) PROVE PlansInv'
  <1>1. req' \in [Handler -> Request] /\ AllAllowed'
    BY ContinueNothing DEF Flush, Fail
  <1> QED
    BY <1>1, RowsUntouched DEF Flush, Fail

LEMMA RestartInv == ASSUME PlansInv, Restart PROVE PlansInv'
  <1>1. req' \in [Handler -> Request] /\ AllAllowed'
    BY ConstantFacts DEF Restart, Idle, Request, Step, AllAllowed, Allowed
  <1> QED
    BY <1>1, RowsUntouched DEF Restart

-----------------------------------------------------------------------------
\* Every step keeps the invariant.

LEMMA RequestStepInv ==
    ASSUME PlansInv, NEW h \in Handler, RequestStep(h) PROVE PlansInv'
  <1>1. ASSUME NEW p \in Plan, NEW t \in Offers[p],
               InsertAppPlan(h, p, t) \/ InsertInstPlan(h, p, t)
        PROVE  PlansInv'
    BY <1>1, InsertAppPlanInv, InsertInstPlanInv
  <1>2. ASSUME NEW p \in AppPlan, NEW t \in Offers[p], UpdateAppPlan(h, p, t)
        PROVE  PlansInv'
    BY <1>2, UpdateAppPlanInv
  <1>3. ASSUME NEW p \in AppPlan, CheckAppPlan(h, p) \/ CheckAppPlanFails(h, p)
        PROVE  PlansInv'
    BY <1>3, CheckAppPlanInv
  <1>4. ASSUME NEW a \in App, NEW p \in InstPlan, NEW t \in Offers[p],
               FetchInstPlan(h, a, p, "update", t)
        PROVE  PlansInv'
    <2>1. t \in Terms
      BY ConstantFacts DEF Plan
    <2> QED
      BY <1>4, <2>1, FetchInstPlanInv
  <1>5. ASSUME NEW a \in App, NEW p \in InstPlan, FetchInstPlan(h, a, p, "delete", 0)
        PROVE  PlansInv'
    BY <1>5, ConstantFacts, FetchInstPlanInv
  <1>6. ASSUME NEW a \in App, NEW p \in Plan \cup {None}, ValidateForApp(h, a, p)
        PROVE  PlansInv'
    BY <1>6, ValidateForAppInv
  <1>7. ASSUME NEW a \in App, NEW p \in Plan \cup {None}, NEW i \in Instance,
               ValidateForInst(h, a, i, p)
        PROVE  PlansInv'
    BY <1>7, ValidateForInstInv
  <1>8. CASE Reread(h) \/ UpdateInstPlan(h) \/ DeletePlan(h)
    BY <1>8, RereadInv, UpdateInstPlanInv, DeletePlanInv
  <1>9. CASE AssignToApp(h) \/ AssignToInst(h) \/ Fail(h)
    BY <1>9, AssignToAppInv, AssignToInstInv, FlushFailInv
  <1> QED
    BY <1>1, <1>2, <1>3, <1>4, <1>5, <1>6, <1>7, <1>8, <1>9 DEF RequestStep

LEMMA NextInv == PlansInv /\ [PlansNext]_plansVars => PlansInv'
  <1>1. SUFFICES ASSUME PlansInv, [PlansNext]_plansVars PROVE PlansInv'
    OBVIOUS
  <1>2. CASE RowStep
    BY <1>1, <1>2, CreateAppInv, IssueInv, DeleteInstanceInv DEF RowStep
  <1>3. ASSUME NEW h \in Handler, RequestStep(h) \/ Flush(h) PROVE PlansInv'
    BY <1>1, <1>3, RequestStepInv, FlushFailInv
  <1>4. CASE Restart
    BY <1>1, <1>4, RestartInv
  <1>5. CASE UNCHANGED plansVars
    BY <1>1, <1>5 DEF plansVars, PlansInv, TypeOK, AllAllowed, Allowed, MayHave,
                      NothingLeftBehind, AssignmentsInScope, OwnDefaultsStay
  <1> QED
    BY <1>1, <1>2, <1>3, <1>4, <1>5 DEF PlansNext

-----------------------------------------------------------------------------
\* What the steps of requests change of other apps' rows.

\* A statement of a request whose path names the app, or one that changes no row.
LEMMA OthersUntouched ==
    ASSUME PlansInv, PlansNext, NEW h \in Handler, NEW a \in App,
           req'[h] # req[h], req[h].app = a
    PROVE  /\ \A p \in InstPlan : PlanApp[p] # a =>
                 terms'[p] = terms[p] /\ (p \in live' <=> p \in live)
           /\ \A i \in Instance : AppOf[i] # a => assigned'[i] = assigned[i]
  <1> DEFINE Done == /\ \A p \in InstPlan : PlanApp[p] # a =>
                           terms'[p] = terms[p] /\ (p \in live' <=> p \in live)
                     /\ \A i \in Instance : AppOf[i] # a => assigned'[i] = assigned[i]
  <1>1. /\ req \in [Handler -> Request] /\ Allowed(req[h])
        /\ terms \in [Plan -> Terms] /\ assigned \in [Owner -> Plan \cup {None}]
    BY DEF PlansInv, TypeOK, AllAllowed
  <1>2. ~IsAt(h, "idle")
    BY <1>1, ConstantFacts DEF IsAt, Allowed, Owner
  <1>3. ASSUME UNCHANGED <<live, assigned, terms>> PROVE Done
    BY <1>3
  <1>4. ~RowStep
    BY DEF RowStep, CreateApp, Issue, DeleteInstance
  <1>5. CASE Restart
    BY <1>3, <1>5 DEF Restart
  <1>6. ASSUME NEW g \in Handler, NEW r, Continue(g, r) PROVE g = h
    BY <1>1, <1>6 DEF Continue
  <1>7. ASSUME NEW g \in Handler, RequestStep(g) \/ Flush(g) PROVE Done
    <2>1. CASE Flush(g) \/ Fail(g) \/ Reread(g)
      BY <1>3, <2>1 DEF Flush, Fail, Reread
    <2>2. ASSUME NEW p \in Plan, NEW t, InsertAppPlan(g, p, t) \/ InsertInstPlan(g, p, t)
          PROVE  FALSE
      BY <1>2, <1>6, <2>2 DEF InsertAppPlan, InsertInstPlan
    <2>3. ASSUME NEW p \in AppPlan, NEW t, UpdateAppPlan(g, p, t) PROVE FALSE
      BY <1>2, <1>6, <2>3 DEF UpdateAppPlan
    <2>4. ASSUME NEW p \in AppPlan, CheckAppPlan(g, p) \/ CheckAppPlanFails(g, p) PROVE Done
      BY <1>3, <2>4 DEF CheckAppPlan, CheckAppPlanFails
    <2>5. ASSUME NEW b \in App, NEW p \in InstPlan, NEW step, NEW t,
                 FetchInstPlan(g, b, p, step, t)
          PROVE  Done
      BY <1>3, <2>5 DEF FetchInstPlan
    <2>6. ASSUME NEW b \in App, NEW p \in Plan \cup {None}, ValidateForApp(g, b, p) PROVE Done
      BY <1>3, <2>6 DEF ValidateForApp
    <2>7. ASSUME NEW b \in App, NEW p \in Plan \cup {None}, NEW i \in Instance,
                 ValidateForInst(g, b, i, p)
          PROVE  Done
      BY <1>3, <2>7 DEF ValidateForInst
    <2>8. CASE UpdateInstPlan(g)
      <3>1. g = h
        BY <1>6, <2>8 DEF UpdateInstPlan
      <3>2. PlanApp[req[h].plan] = a /\ UNCHANGED <<live, assigned>>
        BY <1>1, <2>8, <3>1 DEF UpdateInstPlan, Allowed, IsAt
      <3> QED
        BY <1>1, <2>8, <3>1, <3>2 DEF UpdateInstPlan, Plan
    <2>9. CASE DeletePlan(g)
      <3>1. g = h
        BY <1>6, <2>9 DEF DeletePlan
      <3>2. req[h].plan \in InstPlan => PlanApp[req[h].plan] = a
        BY <1>1, <2>9, <3>1 DEF DeletePlan, Allowed, IsAt
      <3> QED
        BY <1>1, <2>9, <3>1, <3>2 DEF DeletePlan, Plan
    <2>10. CASE AssignToApp(g)
      <3>1. req[g].owner \in App /\ UNCHANGED <<live, terms>>
        BY <2>10 DEF AssignToApp
      <3> QED
        BY <1>1, <2>10, <3>1, ConstantFacts DEF AssignToApp, Owner
    <2>11. CASE AssignToInst(g)
      <3>1. g = h
        BY <1>6, <2>11 DEF AssignToInst
      <3>2. AppOf[req[h].owner] = a /\ UNCHANGED <<live, terms>>
        BY <1>1, <2>11, <3>1 DEF AssignToInst, Allowed, IsAt
      <3> QED
        BY <1>1, <2>11, <3>1, <3>2 DEF AssignToInst, Owner
    <2> HIDE DEF Done
    <2> QED
      BY <1>7, <2>1, <2>2, <2>3, <2>4, <2>5, <2>6, <2>7, <2>8, <2>9, <2>10, <2>11
      DEF RequestStep, Plan
  <1> QED
    BY <1>4, <1>5, <1>7 DEF PlansNext

-----------------------------------------------------------------------------
\* The theorems.

\* Every variable has its type, whatever requests overlap.
THEOREM TypeCorrect == PlansSpec => []TypeOK
  <1>1. PlansInv => TypeOK
    BY DEF PlansInv
  <1> QED
    BY InitInv, NextInv, <1>1, PTL DEF PlansSpec

\* An app or an instance is only ever under a plan that exists and that it may
\* have, although each request validates in one statement and assigns in another
\* (updateApp, updateInstance).
THEOREM PlansInScope == PlansSpec => []AssignmentsInScope
  <1>1. PlansInv => AssignmentsInScope
    BY DEF PlansInv
  <1> QED
    BY InitInv, NextInv, <1>1, PTL DEF PlansSpec

\* An app keeps the default plan of its instances (deleteInstanceUsagePlan,
\* deleteInstance).
THEOREM DefaultsStay == PlansSpec => []OwnDefaultsStay
  <1>1. PlansInv => OwnDefaultsStay
    BY DEF PlansInv
  <1> QED
    BY InitInv, NextInv, <1>1, PTL DEF PlansSpec

\* No instance is under a plan that goes with another one: the foreign key never
\* makes deleteInstance fail.
THEOREM DeletionNotRefused == PlansSpec => []InstancesDeletable
  <1>1. PlansInv => InstancesDeletable
    <2>1. SUFFICES ASSUME AssignmentsInScope, NEW i \in Instance \cap live,
                          NEW j \in Instance \cap live, i # j,
                          NEW p \in InstPlan \cap live, Scope[p] = i, assigned[j] = p
                   PROVE  FALSE
      BY DEF PlansInv, InstancesDeletable
    <2>2. j \in Owner /\ p # None /\ i # None
      BY ConstantFacts DEF Owner, Plan
    <2>3. Scope[p] \in {None, j}
      BY <2>1, <2>2 DEF AssignmentsInScope
    <2> QED
      BY <2>1, <2>2, <2>3
  <1> QED
    BY InitInv, NextInv, <1>1, PTL DEF PlansSpec

\* A request whose path names an app changes no other app's instance plans or
\* assignments, although the UPDATE is by the plan's id alone
\* (updateInstanceUsagePlan).
THEOREM AppsApart == PlansSpec => OtherAppsUntouched
  <1> DEFINE Apart == \A h \in Handler, a \in App : req'[h] # req[h] /\ req[h].app = a =>
         /\ \A p \in InstPlan : PlanApp[p] # a =>
              terms'[p] = terms[p] /\ (p \in live' <=> p \in live)
         /\ \A i \in Instance : AppOf[i] # a => assigned'[i] = assigned[i]
  <1>1. PlansInv /\ [PlansNext]_plansVars => [Apart]_plansVars
    BY OthersUntouched
  <1> QED
    BY InitInv, NextInv, <1>1, PTL DEF PlansSpec, OtherAppsUntouched
=============================================================================
