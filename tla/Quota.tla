------------------------------- MODULE Quota -------------------------------
(***************************************************************************)
(* The in-memory daily quota counters of internal/ratelimit/quota.go.      *)
(*                                                                         *)
(* A Quota holds the counts of one UTC day.  It moves to another day only  *)
(* inside Admit, and then sets aside the counts no Snapshot has taken      *)
(* yet.  Each action below is one method, executed under q.mu.             *)
(*                                                                         *)
(* A map entry that is absent in the code is a zero here: every count that *)
(* is stored was incremented at least once, so no stored entry is zero.    *)
(***************************************************************************)
EXTENDS Integers

CONSTANTS
    Tenant,     \* counter keys: "inst:<id>" and "app:<id>"
    Limit,      \* the daily limit each check of a tenant carries, 0 = unlimited
    MaxDay      \* bound: the days of the model are 1 .. MaxDay

ASSUME QuotaAssumption ==
    /\ Limit \in [Tenant -> Nat]
    /\ MaxDay \in Nat \ {0}

VARIABLES
    day,        \* q.day: the day counts belongs to, NoDay before the first use
    counts,     \* q.counts
    dirty,      \* q.dirty: tenants changed since the last Snapshot
    pending     \* q.pending: counts of other days that no Snapshot has taken

quotaVars == <<day, counts, dirty, pending>>

Day   == 1 .. MaxDay
NoDay == 0

NoCounts == [t \in Tenant |-> 0]
NoRows   == [d \in Day |-> NoCounts]

Larger(a, b) == IF a > b THEN a ELSE b

\* The tenants of a request that are metered at all.
Limited(checks) == {t \in checks : Limit[t] > 0}

QuotaInit ==
    /\ day = NoDay
    /\ counts = NoCounts
    /\ dirty = {}
    /\ pending = NoRows

-----------------------------------------------------------------------------
\* rollLocked(d): the state the counters are in once the day is d.

RolledCounts(d) == IF d = day THEN counts ELSE NoCounts

RolledDirty(d) == IF d = day THEN dirty ELSE {}

RolledPending(d) ==
    IF d = day THEN pending
    ELSE [e \in Day |-> [t \in Tenant |->
            IF e = day /\ t \in dirty THEN counts[t] ELSE pending[e][t]]]

-----------------------------------------------------------------------------
\* Admit with a clock reading that fell on day d.

\* Faulty variants, for mutation runs: one check with room is enough; the
\* limit is compared off by one.
QuotaAdmit_AnyCheck(d, checks) ==
    /\ \E t \in Limited(checks) : RolledCounts(d)[t] < Limit[t]
    /\ day' = d
    /\ counts' = [t \in Tenant |-> RolledCounts(d)[t] + (IF t \in Limited(checks) THEN 1 ELSE 0)]
    /\ dirty' = RolledDirty(d) \cup Limited(checks)
    /\ pending' = RolledPending(d)

QuotaAdmit_OffByOne(d, checks) ==
    /\ \A t \in Limited(checks) : RolledCounts(d)[t] <= Limit[t]
    /\ day' = d
    /\ counts' = [t \in Tenant |-> RolledCounts(d)[t] + (IF t \in Limited(checks) THEN 1 ELSE 0)]
    /\ dirty' = RolledDirty(d) \cup Limited(checks)
    /\ pending' = RolledPending(d)

QuotaAdmit(d, checks) ==
    /\ \A t \in Limited(checks) : RolledCounts(d)[t] < Limit[t]
    /\ day' = d
    /\ counts' = [t \in Tenant |-> IF t \in Limited(checks)
                                   THEN RolledCounts(d)[t] + 1
                                   ELSE RolledCounts(d)[t]]
    /\ dirty' = RolledDirty(d) \cup Limited(checks)
    /\ pending' = RolledPending(d)

QuotaDeny(d, checks) ==
    /\ \E t \in Limited(checks) : RolledCounts(d)[t] >= Limit[t]
    /\ day' = d
    /\ counts' = RolledCounts(d)
    /\ dirty' = RolledDirty(d)
    /\ pending' = RolledPending(d)

-----------------------------------------------------------------------------
\* Snapshot: the rows it returns, those held over a rollover before those of
\* the current day, and what it leaves behind.

Part == {"held", "fresh"}

SnapshotRows ==
    [p \in Part |-> [d \in Day |-> [t \in Tenant |->
        CASE p = "held" -> pending[d][t]
          [] p = "fresh" -> IF d = day /\ t \in dirty THEN counts[t] ELSE 0]]]

QuotaSnapshot ==
    /\ dirty' = {}
    /\ pending' = NoRows
    /\ UNCHANGED <<day, counts>>

\* Faulty variant, for mutation runs: the persisted counts are not taken over.
QuotaLoad_Empty(d, c) ==
    /\ day' = d /\ counts' = NoCounts /\ dirty' = {}
    /\ UNCHANGED pending

\* Load(d, c) at startup.
QuotaLoad(d, c) ==
    /\ day' = d
    /\ counts' = c
    /\ dirty' = {}
    /\ UNCHANGED pending

\* The count a batch of rows carries for a tenant on a day.
RowCount(rows, d, t) == Larger(rows["held"][d][t], rows["fresh"][d][t])

\* What Restore(rows) leaves in q.pending.
RestoredPending(rows) ==
    [d \in Day |-> [t \in Tenant |->
        IF d = day THEN pending[d][t] ELSE Larger(pending[d][t], RowCount(rows, d, t))]]

\* Faulty variants, for mutation runs: a held count, or the current one, is
\* replaced by the older one of the batch; the rows are not marked dirty again.
QuotaRestore_HeldOverwritten(rows) ==
    /\ counts' = [t \in Tenant |-> Larger(counts[t], RowCount(rows, day, t))]
    /\ dirty' = dirty \cup {t \in Tenant : RowCount(rows, day, t) > 0}
    /\ pending' = [d \in Day |-> [t \in Tenant |->
                     IF d # day /\ RowCount(rows, d, t) > 0 THEN RowCount(rows, d, t)
                     ELSE pending[d][t]]]
    /\ UNCHANGED day

QuotaRestore_CountsOverwritten(rows) ==
    /\ counts' = [t \in Tenant |-> IF RowCount(rows, day, t) > 0
                                   THEN RowCount(rows, day, t) ELSE counts[t]]
    /\ dirty' = dirty \cup {t \in Tenant : RowCount(rows, day, t) > 0}
    /\ pending' = RestoredPending(rows)
    /\ UNCHANGED day

QuotaRestore_NotDirty(rows) ==
    /\ counts' = [t \in Tenant |-> Larger(counts[t], RowCount(rows, day, t))]
    /\ pending' = RestoredPending(rows)
    /\ UNCHANGED <<day, dirty>>

\* Restore(rows) after a failed flush.
QuotaRestore(rows) ==
    /\ counts' = [t \in Tenant |-> Larger(counts[t], RowCount(rows, day, t))]
    /\ dirty' = dirty \cup {t \in Tenant : RowCount(rows, day, t) > 0}
    /\ pending' = RestoredPending(rows)
    /\ UNCHANGED day
=============================================================================
