------------------------------ MODULE Settings ------------------------------
(***************************************************************************)
(* The server's settings (internal/settings/settings.go): a row of the     *)
(* database, a copy of it cached until the next update, and the requests   *)
(* that read it.  Of the row the model keeps the limit on authentication   *)
(* failures.                                                               *)
(***************************************************************************)
EXTENDS Naturals

CONSTANTS
    Request,        \* callers of Reader.Get at once
    None,
    Config,         \* values the row may have
    Defaults,       \* what Get answers when the row cannot be read
    MaxUpdates      \* bound of the updates

ASSUME SettingsAssumption ==
    Defaults \in Config /\ None \notin Config /\ MaxUpdates \in Nat

VARIABLES
    row,            \* server_settings
    cached,         \* Reader.cached, None for nil
    get,            \* where each call of Get is, and the settings it has
    updates,        \* updates so far
    flushes,        \* handlers between their update and their Flush
    \* History, read by the properties only:
    overtaken,      \* calls that have read the row before its last update
    tainted         \* the cache was filled by such a call

settingsVars == <<row, cached, get, updates, flushes, overtaken, tainted>>

NoGet == [step |-> "idle", value |-> None]

InitSettings ==
    /\ row = Defaults /\ cached = None
    /\ get = [q \in Request |-> NoGet]
    /\ updates = 0 /\ flushes = 0
    /\ overtaken = {} /\ tainted = FALSE

Got(q, step, v) == get' = [get EXCEPT ![q] = [step |-> step, value |-> v]]
Quiet           == UNCHANGED <<row, updates, flushes>>

\* Get, from its call on: the cache is looked at under the lock, the row is read
\* outside of it.
Lookup(q) ==
    /\ get[q].step = "idle"
    /\ IF cached # None THEN Got(q, "done", cached) ELSE Got(q, "read", None)
    /\ UNCHANGED <<cached, overtaken, tainted>> /\ Quiet

ReadRow(q) ==
    /\ get[q].step = "read"
    /\ Got(q, "store", row) \/ Got(q, "done", Defaults)
    /\ overtaken' = overtaken \ {q}
    /\ UNCHANGED <<cached, tainted>> /\ Quiet

Store(q) ==
    /\ get[q].step = "store"
    /\ cached' = get[q].value
    /\ tainted' = (q \in overtaken)
    /\ Got(q, "done", get[q].value)
    /\ UNCHANGED overtaken /\ Quiet

\* PATCH /settings: one UPDATE, and then the cache is dropped.
\* Faulty variant, for mutation runs: it is not.
UpdateSetting_NoFlush(v) ==
    /\ updates < MaxUpdates /\ v # row
    /\ row' = v /\ updates' = updates + 1
    /\ overtaken' = {q \in Request : get[q].step = "store"}
    /\ UNCHANGED <<cached, get, flushes, tainted>>

UpdateSetting(v) ==
    /\ updates < MaxUpdates /\ v # row
    /\ row' = v /\ updates' = updates + 1
    /\ flushes' = flushes + 1
    /\ overtaken' = {q \in Request : get[q].step = "store"}
    /\ UNCHANGED <<cached, get, tainted>>

Flush ==
    /\ flushes > 0
    /\ flushes' = flushes - 1
    /\ cached' = None /\ tainted' = FALSE
    /\ UNCHANGED <<row, get, updates, overtaken>>

SettingsStep ==
    \/ \E q \in Request : ReadRow(q) \/ Store(q)
    \/ \E v \in Config : UpdateSetting(v)
    \/ Flush

\* What is cached is what the row says, between an update's commit and its Flush
\* and after a call of Get that read the row before an update and stored it after
\* the Flush excepted (settings.go:64-75, api/settings.go:80-92).  A failed read
\* is never cached.
SettingsCurrentUnlessOvertaken ==
    cached # None /\ flushes = 0 /\ ~tainted => cached = row
=============================================================================
