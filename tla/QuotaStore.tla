----------------------------- MODULE QuotaStore -----------------------------
(***************************************************************************)
(* The daily quota of one relay process over its whole life: the counters  *)
(* of Quota, the usage_counter table that backs them up                    *)
(* (internal/ratelimit/persist.go), and the goroutines that share them     *)
(* (internal/cli/serve.go): requests that read the clock before they take  *)
(* the lock, the janitor that flushes row by row without it, the startup   *)
(* load, the shutdown, crashes and restarts, and the UTC clock.            *)
(***************************************************************************)
EXTENDS Quota

CONSTANTS
    Request,    \* requests that can be inside Gate.Admit at once
    Checks,     \* the sets of tenants one push is checked against
    MaxBoots    \* bound: how often the process is started

ASSUME StoreAssumption ==
    /\ Checks \subseteq SUBSET Tenant
    /\ MaxBoots \in Nat

VARIABLES
    today,      \* the day of the wall clock
    phase,      \* where runServe is
    loadDay,    \* the day QuotaStore.Load read from the clock
    clock,      \* the day each request read in Admit, NoDay when outside it
    janitor,    \* where the janitor goroutine is
    batch,      \* the rows of the flush in progress
    todo,       \* the rows of batch not yet written
    db,         \* the usage_counter table
    boots,      \* process starts so far
    \* History, read by the properties only:
    used,       \* pushes admitted per day and tenant, over all process lives
    lost,       \* those of them no counter knows of any more
    rolledBack, \* an Admit has moved the counters to an earlier day
    loadFailed  \* a startup load has failed

procVars    == <<today, phase, loadDay, clock, boots>>
janitorVars == <<janitor, batch, todo>>
history     == <<used, lost, rolledBack, loadFailed>>
vars        == <<quotaVars, procVars, janitorVars, db, history>>

Phase == {"down", "loading", "booting", "up", "draining", "closing", "forced"}
JanitorState == {"off", "idle", "flushing", "final", "saved", "unsaved"}

\* Phases in which HTTP handlers may still run: a handler that outlives the 30
\* seconds of server.Shutdown runs on until the process is gone.
Serving == {"up", "draining", "forced"}

NoBatch == [p \in Part |-> NoRows]

AllRows(rows) == {k \in Part \X Day \X Tenant : rows[k[1]][k[2]][k[3]] > 0}

Init ==
    /\ QuotaInit
    /\ today = 1 /\ phase = "down" /\ loadDay = NoDay /\ boots = 0
    /\ clock = [r \in Request |-> NoDay]
    /\ janitor = "off" /\ batch = NoBatch /\ todo = {}
    /\ db = NoRows
    /\ used = NoRows /\ lost = NoRows
    /\ rolledBack = FALSE /\ loadFailed = FALSE

-----------------------------------------------------------------------------
\* The wall clock reaches UTC midnight.
Midnight ==
    /\ today < MaxDay
    /\ today' = today + 1
    /\ UNCHANGED <<quotaVars, phase, loadDay, clock, boots, janitorVars, db, history>>

-----------------------------------------------------------------------------
\* Requests.

\* Faulty variant, for mutation runs: the reading is taken for the next day.
ReadClock_NextDay(r) ==
    /\ phase \in Serving
    /\ clock[r] = NoDay
    /\ clock' = [clock EXCEPT ![r] = today + 1]
    /\ UNCHANGED <<quotaVars, today, phase, loadDay, boots, janitorVars, db, history>>

\* Admit reads q.now() before it takes q.mu.
ReadClock(r) ==
    /\ phase \in Serving
    /\ clock[r] = NoDay
    /\ clock' = [clock EXCEPT ![r] = today]
    /\ UNCHANGED <<quotaVars, today, phase, loadDay, boots, janitorVars, db, history>>

LeaveAdmit(r) ==
    /\ clock[r] # NoDay
    /\ clock' = [clock EXCEPT ![r] = NoDay]
    /\ rolledBack' = (rolledBack \/ clock[r] < day)
    /\ UNCHANGED <<today, phase, loadDay, boots, janitorVars, db, lost, loadFailed>>

AdmitPush(r, checks) ==
    /\ LeaveAdmit(r)
    /\ QuotaAdmit(clock[r], checks)
    /\ used' = [used EXCEPT ![clock[r]] = [t \in Tenant |->
                  IF t \in checks THEN used[clock[r]][t] + 1 ELSE used[clock[r]][t]]]

DenyPush(r, checks) ==
    /\ LeaveAdmit(r)
    /\ QuotaDeny(clock[r], checks)
    /\ UNCHANGED used

-----------------------------------------------------------------------------
\* The janitor goroutine: one select loop, so a flush never overlaps another.

\* Flush returns.  The final flush ends the goroutine.
FlushReturns(ok) ==
    /\ janitor' = CASE janitor = "flushing"     -> "idle"
                    [] janitor = "final" /\ ok   -> "saved"
                    [] janitor = "final" /\ ~ok  -> "unsaved"
    /\ batch' = NoBatch
    /\ todo' = {}

\* Snapshot; a flush with no rows has nothing to write and returns at once.
TakeSnapshot(state, ended) ==
    /\ QuotaSnapshot
    /\ IF AllRows(SnapshotRows) = {}
       THEN janitor' = ended /\ UNCHANGED <<batch, todo>>
       ELSE janitor' = state /\ batch' = SnapshotRows /\ todo' = AllRows(SnapshotRows)
    /\ UNCHANGED <<procVars, db, history>>

FlushTick ==
    /\ janitor = "idle"
    /\ TakeSnapshot("flushing", "idle")

\* Faulty variant, for mutation runs: only after a drained shutdown.
FinalFlush_DrainedOnly ==
    /\ janitor = "idle"
    /\ phase = "closing"
    /\ TakeSnapshot("final", "saved")

FinalFlush ==
    /\ janitor = "idle"
    /\ phase \in {"closing", "forced"}
    /\ TakeSnapshot("final", "saved")

\* One upsert, made without q.mu.  Map iteration leaves the order of the rows
\* open, except that held rows come before those of the current day.
Upsert(k) ==
    /\ k \in todo
    /\ k[1] = "held" \/ \A j \in todo : j[1] = "fresh"
    /\ db' = [db EXCEPT ![k[2]][k[3]] = batch[k[1]][k[2]][k[3]]]
    /\ IF todo = {k}
       THEN FlushReturns(TRUE)
       ELSE todo' = todo \ {k} /\ UNCHANGED <<janitor, batch>>
    /\ UNCHANGED <<quotaVars, procVars, history>>

\* Faulty variant, for mutation runs: the batch is dropped.
UpsertFails_Dropped ==
    /\ todo # {}
    /\ FlushReturns(FALSE)
    /\ UNCHANGED <<quotaVars, procVars, db, history>>

\* An upsert fails, or the ten seconds of the final flush are over: the whole
\* batch goes back to the counters.
UpsertFails ==
    /\ todo # {}
    /\ QuotaRestore(batch)
    /\ FlushReturns(FALSE)
    /\ UNCHANGED <<procVars, db, history>>

\* Faulty variant, for mutation runs: yesterday's rows stay.
Cleanup_OffByOne ==
    /\ janitor = "idle"
    /\ db' = [d \in Day |-> IF d + 1 < today THEN NoCounts ELSE db[d]]
    /\ UNCHANGED <<quotaVars, procVars, janitorVars, history>>

\* The cleanup tick deletes the rows of earlier days.
Cleanup ==
    /\ janitor = "idle"
    /\ db' = [d \in Day |-> IF d < today THEN NoCounts ELSE db[d]]
    /\ UNCHANGED <<quotaVars, procVars, janitorVars, history>>

-----------------------------------------------------------------------------
\* runServe.

Start ==
    /\ phase = "down"
    /\ boots < MaxBoots
    /\ boots' = boots + 1
    /\ phase' = "loading"
    /\ loadDay' = today
    /\ UNCHANGED <<quotaVars, today, clock, janitorVars, db, history>>

StartJanitor ==
    /\ phase = "loading"
    /\ phase' = "booting"
    /\ janitor' = "idle"
    /\ loadDay' = NoDay
    /\ UNCHANGED <<today, clock, boots, batch, todo, db, used, rolledBack>>

LoadSucceeds ==
    /\ StartJanitor
    /\ QuotaLoad(loadDay, db[loadDay])
    /\ UNCHANGED <<lost, loadFailed>>

\* A failed startup load is logged and the relay starts with no counts.
LoadFails ==
    /\ StartJanitor
    /\ lost' = used
    /\ loadFailed' = TRUE
    /\ UNCHANGED quotaVars

MovesTo(from, to) ==
    /\ phase = from
    /\ phase' = to
    /\ UNCHANGED <<quotaVars, today, loadDay, clock, boots, janitorVars, db, history>>

Listen      == MovesTo("booting", "up")
ListenFails == MovesTo("booting", "closing")

\* A signal or a serve error: server.Shutdown waits for the handlers.
Shutdown == MovesTo("up", "draining")

\* Faulty variant, for mutation runs: the handlers are not waited for.
Drained_NotWaiting == MovesTo("draining", "closing")

\* Shutdown returns, because every handler is done or because its 30 seconds
\* are over, and janitorDone is closed.
Drained      == (\A r \in Request : clock[r] = NoDay) /\ MovesTo("draining", "closing")
DrainTimeout == MovesTo("draining", "forced")

\* The process is gone and its memory with it.
ProcessEnds ==
    /\ phase' = "down"
    /\ day' = NoDay /\ counts' = NoCounts /\ dirty' = {} /\ pending' = NoRows
    /\ loadDay' = NoDay
    /\ clock' = [r \in Request |-> NoDay]
    /\ janitor' = "off" /\ batch' = NoBatch /\ todo' = {}
    /\ lost' = [d \in Day |-> [t \in Tenant |-> used[d][t] - db[d][t]]]
    /\ UNCHANGED <<today, boots, db, used, rolledBack, loadFailed>>

Exit  == janitor \in {"saved", "unsaved"} /\ ProcessEnds
Crash == phase # "down" /\ ProcessEnds

-----------------------------------------------------------------------------
RequestStep(r) ==
    \/ ReadClock(r)
    \/ \E checks \in Checks : AdmitPush(r, checks) \/ DenyPush(r, checks)

JanitorStep ==
    \/ FlushTick \/ FinalFlush \/ UpsertFails \/ Cleanup
    \/ \E k \in Part \X Day \X Tenant : Upsert(k)

ServeStep ==
    \/ Start \/ LoadSucceeds \/ LoadFails \/ Listen \/ ListenFails
    \/ Shutdown \/ Drained \/ DrainTimeout \/ Exit

Next ==
    \/ Midnight
    \/ \E r \in Request : RequestStep(r)
    \/ JanitorStep
    \/ ServeStep
    \/ Crash

Spec == Init /\ [][Next]_vars

(***************************************************************************)
(* The scheduling.  The janitor's select chooses at random among the       *)
(* channels that are ready, so a tick that keeps coming is not passed over *)
(* for ever; an upsert returns; Shutdown returns after 30 seconds at the   *)
(* latest, and main goes on to exit.  No request, signal or restart need   *)
(* ever come.  The table is assumed to fail finitely often.                *)
(***************************************************************************)
Fairness ==
    /\ SF_vars(FlushTick) /\ SF_vars(FinalFlush) /\ SF_vars(Cleanup)
    /\ WF_vars(\E k \in Part \X Day \X Tenant : Upsert(k))
    /\ WF_vars(DrainTimeout) /\ WF_vars(Exit)

LiveSpec == Spec /\ Fairness /\ <>[][~UpsertFails]_vars

-----------------------------------------------------------------------------
\* Properties.

\* Every variable stays in its type.
TypeOK ==
    /\ day \in Day \cup {NoDay} /\ counts \in [Tenant -> Nat]
    /\ dirty \subseteq Tenant /\ pending \in [Day -> [Tenant -> Nat]]
    /\ today \in Day /\ phase \in Phase /\ loadDay \in Day \cup {NoDay}
    /\ clock \in [Request -> Day \cup {NoDay}] /\ boots \in Nat
    /\ janitor \in JanitorState
    /\ batch \in [Part -> [Day -> [Tenant -> Nat]]]
    /\ todo \subseteq Part \X Day \X Tenant
    /\ db \in [Day -> [Tenant -> Nat]]
    /\ used \in [Day -> [Tenant -> Nat]] /\ lost \in [Day -> [Tenant -> Int]]
    /\ rolledBack \in BOOLEAN /\ loadFailed \in BOOLEAN

\* The pushes of a day that a counter in memory or on disk accounts for.
Kept(d, t) == used[d][t] - lost[d][t]

Metered == Limited(Tenant)

\* No copy of a counter ever exceeds its limit: not in memory, not set aside
\* over a rollover, not in the rows of a flush, not in the table, whatever
\* the day was rolled to, restored, reloaded or lost in between; and a tenant
\* without a limit has no counter anywhere.
NoCounterAboveLimit ==
    \A t \in Tenant :
        /\ counts[t] <= Limit[t]
        /\ \A d \in Day :
            /\ pending[d][t] <= Limit[t]
            /\ db[d][t] <= Limit[t]
            /\ RowCount(batch, d, t) <= Limit[t]

\* The daily quota of Quota.Admit: over all process lives, no more pushes of a
\* day are admitted than the limit allows, beyond those a crash or a failed
\* load made the relay forget.  It depends on Admit never being entered with
\* a day that is already over for the counters.
QuotaEnforced ==
    ~rolledBack =>
        \A d \in Day, t \in Metered : Kept(d, t) <= Limit[t]

\* The count in memory is the number of pushes admitted that day that were
\* not lost: flushes, failed flushes, rollovers, restarts and loads neither
\* drop a push nor count one twice.
CountsExact ==
    ~rolledBack =>
        \A t \in Metered : janitor # "off" /\ day # NoDay => counts[t] = Kept(day, t)

\* A count set aside over a rollover belongs to an earlier day and is that
\* day's final value, also when Restore merges an older batch into it.
HeldRowsFinal ==
    ~rolledBack =>
        \A d \in Day, t \in Metered :
            pending[d][t] > 0 => d < day /\ pending[d][t] = Kept(d, t)

\* Nothing is forgotten while the process runs: a count of today that is not
\* marked dirty and not a row still to be written is in the table.
NothingForgotten ==
    ~rolledBack =>
        \A t \in Metered :
            day = today /\ t \notin dirty /\ <<"fresh", day, t>> \notin todo
                => db[day][t] >= counts[t]

\* "Memory stays authoritative; the DB is a durable backup": the table is
\* never ahead of the counters, as long as the startup loads succeed.
MemoryAuthoritative ==
    ~rolledBack /\ ~loadFailed =>
        \A t \in Metered : day # NoDay => db[day][t] <= counts[t]

\* "Final flush so in-flight counts survive a graceful shutdown": when every
\* handler was done before the janitor was told to stop and its final flush
\* succeeded, every count of the day is in the table.
GracefulShutdownSavesAll ==
    ~rolledBack /\ phase = "closing" /\ janitor = "saved" =>
        /\ dirty = {} /\ pending = NoRows
        /\ day = today => \A t \in Metered : db[day][t] >= counts[t]

\* A saved count of today never goes down: a flush may be retried, come late
\* or fail half way, but it never writes over a newer value with an older one.
BackupNeverRegresses ==
    [][~rolledBack /\ ~loadFailed =>
        \A d \in Day, t \in Metered : d >= today => db'[d][t] >= db[d][t]]_vars

\* What the end of the process loses of the day's counts was not yet flushed:
\* it was dirty or a row of the flush in progress.
OnlyUnflushedLost ==
    [][~rolledBack /\ phase # "down" /\ phase' = "down" =>
        \A t \in Metered :
            day = today /\ lost'[day][t] > lost[day][t]
                => t \in dirty \/ <<"fresh", day, t>> \in todo]_vars

\* The relay's quota is a meter, as long as no clock reading is overtaken by midnight
\* and startup loads succeed: all tenants of a push are counted or none, within their
\* limits and over any flushes and restarts, and a crash forgets what was not in the
\* table and nothing else (quota.go:12-26, persist.go, serve.go:84-118).
Clear == ~rolledBack /\ ~loadFailed
Metering == INSTANCE Meter WITH
    Days    <- Day,
    Tenants <- Metered,
    Quotas  <- [t \in Metered |-> Limit[t]],
    counted <- [d \in Day |-> [t \in Metered |-> Kept(d, t)]],
    saved   <- [d \in Day |-> [t \in Metered |-> db[d][t]]]
MeterKept == Metering!Begin /\ [][Clear' => Metering!Step]_(Metering!states)

\* A count of today the table does not hold reaches it, whatever flushes fail
\* on the way, unless the process ends first.
BackupCatchesUp ==
    \A t \in Metered :
        LET Unsaved == day = today /\ counts[t] > db[day][t]
        IN  (janitor # "off" /\ Unsaved) ~> (janitor = "off" \/ ~Unsaved)

\* Rows of past days are deleted, also those a late flush writes again.
OldRowsDeleted ==
    \A d \in Day, t \in Metered :
        (d < today /\ db[d][t] > 0) ~> (db[d][t] = 0 \/ janitor = "off")

\* Once the shutdown has begun the process ends: a handler, a failing table or
\* a busy janitor cannot keep it alive.
ShutdownCompletes == (phase = "draining") ~> (phase = "down")

-----------------------------------------------------------------------------
\* A statement of the docs that the code breaks.

\* docs/guide/usage-plans.md: an over-limit request never reaches the platform,
\* and daily quotas reset per UTC day.
DailyQuota ==
    \A d \in Day, t \in Metered : Kept(d, t) <= Limit[t]
=============================================================================
