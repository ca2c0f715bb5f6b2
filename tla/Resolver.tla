------------------------------ MODULE Resolver ------------------------------
(***************************************************************************)
(* The limits requests run under (internal/ratelimit/resolver.go): a cache *)
(* filled by three to five reads of the plan tables, none of them in a     *)
(* transaction, while the management requests of UsagePlans change the     *)
(* tables and flush the cache.  Pushes ask for the limits of their         *)
(* instance (internal/api/send.go), registrations and subscriptions for    *)
(* those of the app alone.                                                 *)
(***************************************************************************)
EXTENDS UsagePlans

CONSTANTS
    Reader      \* callers of Resolver.Limits at once

Limits    == [app : Terms, inst : Terms]
Unlimited == [app |-> 0, inst |-> 0]
Key       == App \X (InstPlan \cup {None})

ASSUME ResolverAssumption == None \notin Limits

VARIABLES
    cache,      \* Resolver.cache, None for no entry
    lastGood,   \* Resolver.lastGood
    reader,     \* where each caller of Limits is
    \* History, read by the properties only:
    overlap,    \* callers that have read before the last change of a row
    tainted,    \* cache keys filled by such a caller
    known       \* keys resolved since the process started

cacheVars == <<cache, lastGood>>
ghosts    == <<overlap, tainted, known>>
vars      == <<plansVars, cacheVars, reader, ghosts>>

\* The next step of a call, in the order of the code.
Reading   == {"defaultApp", "ownApp", "defaultInst", "ownInst", "store"}
Call      == {"lookup", "app", "fallback"} \cup Reading
\* A caller without a call keeps the limits of its last one, and if these are
\* open because there were none to fall back to, what it had asked for.
ReaderRec == [step : {"idle", "open"} \cup Call, app : App \cup {None},
              plan : InstPlan \cup {None},
              own : AppPlan \cup {None}, lim : Limits]
NoCall    == [step |-> "idle", app |-> None, plan |-> None,
              own |-> None, lim |-> Unlimited]

KeyOf(r) == <<reader[r].app, reader[r].plan>>

\* What the tables say, read in one piece.
AppTerms(a) ==
    IF assigned[a] \in live THEN terms[assigned[a]]
    ELSE IF GlobalDefault \cap live # {}
         THEN terms[CHOOSE g \in GlobalDefault \cap live : TRUE]
         ELSE 0
InstTerms(a, p) ==
    IF p \in live THEN terms[p]
    ELSE IF OwnDefault[a] \in live THEN terms[OwnDefault[a]] ELSE 0
Effective(a, p) == [app |-> AppTerms(a), inst |-> InstTerms(a, p)]

ResolverInit ==
    /\ Init
    /\ cache = [k \in Key |-> None] /\ lastGood = [k \in Key |-> None]
    /\ reader = [r \in Reader |-> NoCall]
    /\ overlap = {} /\ tainted = {} /\ known = {}

-----------------------------------------------------------------------------
\* A call of Limits.

At(r, step)  == reader[r].step = step
Go(r, c)     == reader' = [reader EXCEPT ![r] = c]
ReadOnly     == UNCHANGED <<plansVars, cacheVars, tainted, known>>
Took(r, c)   == Go(r, c) /\ UNCHANGED overlap /\ ReadOnly
Answer(lim)  == [NoCall EXCEPT !.lim = lim]

Begin(r, c) ==
    /\ At(r, "idle") \/ At(r, "open")
    /\ Took(r, c)

\* A push: Authenticate reads the instance row and with it the plan's id.
Push(r, i) ==
    /\ i \in live
    /\ Begin(r, [NoCall EXCEPT !.step = "lookup", !.app = AppOf[i],
                               !.plan = assigned[i]])

\* A registration or a subscription, of an app that may not exist.
RegisterOrSubscribe(r, a) ==
    /\ Begin(r, [NoCall EXCEPT !.step = "lookup", !.app = a])

\* Faulty variant, for mutation runs: a missing entry is not noticed.
Lookup_NoCheck(r) ==
    /\ At(r, "lookup")
    /\ Took(r, Answer(cache[KeyOf(r)]))

Lookup(r) ==
    /\ At(r, "lookup")
    /\ IF cache[KeyOf(r)] # None
       THEN Took(r, Answer(cache[KeyOf(r)]))
       ELSE Took(r, [reader[r] EXCEPT !.step = "app"])

GetApp(r) ==
    /\ At(r, "app")
    /\ IF reader[r].app \in live
       THEN Took(r, [reader[r] EXCEPT !.step = "defaultApp", !.own = assigned[reader[r].app]])
       ELSE Took(r, [reader[r] EXCEPT !.step = "fallback"])

AfterDefault(r) == IF reader[r].own # None THEN "ownApp" ELSE "defaultInst"

GetDefaultAppPlan(r) ==
    /\ At(r, "defaultApp")
    /\ IF GlobalDefault \cap live = {}
       THEN Took(r, [reader[r] EXCEPT !.step = AfterDefault(r)])
       ELSE \E g \in GlobalDefault \cap live :
              Took(r, [reader[r] EXCEPT !.step = AfterDefault(r), !.lim.app = terms[g]])

\* A plan that is not there leaves what the default has set.
GetOwnAppPlan(r) ==
    /\ At(r, "ownApp")
    /\ IF reader[r].own \in live
       THEN Took(r, [reader[r] EXCEPT !.step = "defaultInst", !.own = None,
                                      !.lim.app = terms[reader[r].own]])
       ELSE Took(r, [reader[r] EXCEPT !.step = "defaultInst", !.own = None])

GetDefaultInstPlan(r) ==
    LET d == OwnDefault[reader[r].app]
        next == IF reader[r].plan # None THEN "ownInst" ELSE "store"
    IN /\ At(r, "defaultInst")
       /\ IF d \in live
          THEN Took(r, [reader[r] EXCEPT !.step = next, !.lim.inst = terms[d]])
          ELSE Took(r, [reader[r] EXCEPT !.step = next])

GetOwnInstPlan(r) ==
    /\ At(r, "ownInst")
    /\ IF reader[r].plan \in live
       THEN Took(r, [reader[r] EXCEPT !.step = "store", !.lim.inst = terms[reader[r].plan]])
       ELSE Took(r, [reader[r] EXCEPT !.step = "store"])

\* Any of the reads fails.
ReadFails(r) ==
    /\ reader[r].step \in ({"app"} \cup Reading) \ {"store"}
    /\ Go(r, [reader[r] EXCEPT !.step = "fallback", !.own = None, !.lim = Unlimited])
    /\ overlap' = overlap \ {r}
    /\ ReadOnly

\* Faulty variant, for mutation runs: the fallback is not kept up to date.
Store_FirstGood(r) ==
    /\ At(r, "store")
    /\ cache' = [cache EXCEPT ![KeyOf(r)] = reader[r].lim]
    /\ lastGood' = IF lastGood[KeyOf(r)] = None
                   THEN [lastGood EXCEPT ![KeyOf(r)] = reader[r].lim] ELSE lastGood
    /\ known' = known \cup {KeyOf(r)}
    /\ tainted' = IF r \in overlap THEN tainted \cup {KeyOf(r)} ELSE tainted \ {KeyOf(r)}
    /\ overlap' = overlap \ {r}
    /\ Go(r, Answer(reader[r].lim))
    /\ UNCHANGED plansVars

Store(r) ==
    /\ At(r, "store")
    /\ cache' = [cache EXCEPT ![KeyOf(r)] = reader[r].lim]
    /\ lastGood' = [lastGood EXCEPT ![KeyOf(r)] = reader[r].lim]
    /\ known' = known \cup {KeyOf(r)}
    /\ tainted' = IF r \in overlap THEN tainted \cup {KeyOf(r)} ELSE tainted \ {KeyOf(r)}
    /\ overlap' = overlap \ {r}
    /\ Go(r, Answer(reader[r].lim))
    /\ UNCHANGED plansVars

Fallback(r) ==
    /\ At(r, "fallback")
    /\ IF lastGood[KeyOf(r)] # None
       THEN Took(r, Answer(lastGood[KeyOf(r)]))
       ELSE Took(r, [reader[r] EXCEPT !.step = "open", !.lim = Unlimited])

ReaderStep(r) ==
    \/ \E i \in Instance : Push(r, i)
    \/ \E a \in App : RegisterOrSubscribe(r, a)
    \/ Lookup(r) \/ GetApp(r) \/ GetDefaultAppPlan(r) \/ GetOwnAppPlan(r)
    \/ GetDefaultInstPlan(r) \/ GetOwnInstPlan(r)
    \/ ReadFails(r) \/ Store(r) \/ Fallback(r)

-----------------------------------------------------------------------------
\* The management side.

\* History of a step of UsagePlans: who has read before it.
Overtaken ==
    /\ overlap' = IF <<live, assigned, terms>>' # <<live, assigned, terms>>
                  THEN overlap \cup {r \in Reader : reader[r].step \in Reading}
                  ELSE overlap

PlansStep ==
    /\ RowStep \/ \E h \in Handler : RequestStep(h)
    /\ UNCHANGED <<cacheVars, reader, tainted, known>>
    /\ Overtaken

\* Faulty variant, for mutation runs: the fallback goes with the cache.
FlushCache_Everything(h) ==
    /\ Flush(h)
    /\ cache' = [k \in Key |-> None]
    /\ lastGood' = [k \in Key |-> None]
    /\ tainted' = {}
    /\ UNCHANGED <<reader, overlap, known>>

\* Faulty variant, for mutation runs: only the app of the path is flushed.
FlushCache_PathApp(h) ==
    /\ Flush(h)
    /\ cache' = [k \in Key |-> IF k[1] = req[h].app THEN None ELSE cache[k]]
    /\ tainted' = {k \in tainted : k[1] # req[h].app}
    /\ UNCHANGED <<lastGood, reader, overlap, known>>

\* onRateConfigChange: every key is dropped.
FlushCache(h) ==
    /\ Flush(h)
    /\ cache' = [k \in Key |-> None]
    /\ tainted' = {}
    /\ UNCHANGED <<lastGood, reader, overlap, known>>

RestartRelay ==
    /\ Restart
    /\ cache' = [k \in Key |-> None] /\ lastGood' = [k \in Key |-> None]
    /\ reader' = [r \in Reader |-> NoCall]
    /\ overlap' = {} /\ tainted' = {} /\ known' = {}

ResolverNext ==
    \/ PlansStep
    \/ \E h \in Handler : FlushCache(h)
    \/ RestartRelay
    \/ \E r \in Reader : ReaderStep(r)

ResolverSpec == ResolverInit /\ [][ResolverNext]_vars

-----------------------------------------------------------------------------
\* Properties.

\* Every variable has its type.
ResolverTypeOK ==
    /\ cache \in [Key -> Limits \cup {None}]
    /\ lastGood \in [Key -> Limits \cup {None}]
    /\ reader \in [Reader -> ReaderRec]
    /\ overlap \subseteq Reader /\ tainted \subseteq Key /\ known \subseteq Key

\* What a database error falls back to is never behind what the cache answers,
\* however callers and flushes overlap (resolver.go:64-81).
CachedIsLastGood == \A k \in Key : cache[k] # None => lastGood[k] = cache[k]

\* Once a key has been resolved, no database error opens the gate for it again:
\* flushes do not take the fallback away (resolver.go:139-141).
FailsOpenOnlyUnknown ==
    [][\A r \in Reader : ~At(r, "open") /\ At(r, "open")' => KeyOf(r) \notin known]_vars

\* Keys a request can ask for.
InUse(k) ==
    /\ k[1] \in live
    /\ k[2] # None => \E i \in Instance \cap live : AppOf[i] = k[1] /\ assigned[i] = k[2]

\* Cached limits are those of the tables but for the time a change needs to
\* reach its flush, unless the entry was filled by a call that had begun to
\* read before a change: no write forgets to flush, deletes of instances and
\* the plans that go with them included (usageplan.go:267, apps.go:172).
CacheCurrentUnlessOvertaken ==
    (\A h \in Handler : ~IsAt(h, "flush")) =>
        \A k \in Key : cache[k] # None /\ k \notin tainted /\ InUse(k) =>
                          cache[k] = Effective(k[1], k[2])
=============================================================================
