------------------------- MODULE QuotaStore_proofs -------------------------
(***************************************************************************)
(* Theorems about QuotaStore, for any tenants, limits, requests, days and  *)
(* number of restarts.                                                     *)
(*                                                                         *)
(* IInv strengthens the invariants of QuotaStore to an inductive one: what *)
(* a row of a flush in progress means, which days a copy of a counter can  *)
(* carry, and what the program counters of main and of the janitor imply.  *)
(***************************************************************************)
EXTENDS TLAPS, QuotaStore

\* The limit bounds each of the copies of a counter.
Bounded ==
    \A t \in Tenant :
        /\ counts[t] <= Limit[t]
        /\ \A d \in Day :
            /\ pending[d][t] <= Limit[t]
            /\ db[d][t] <= Limit[t]
            /\ batch["held"][d][t] <= Limit[t]
            /\ batch["fresh"][d][t] <= Limit[t]

\* No copy of a counter is of a day still to come.
NoFutureDays ==
    /\ day <= today /\ loadDay <= today
    /\ \A r \in Request : clock[r] <= today
    /\ \A d \in Day, t \in Tenant :
        d > today => /\ pending[d][t] = 0 /\ db[d][t] = 0
                     /\ batch["held"][d][t] = 0 /\ batch["fresh"][d][t] = 0

\* What the places where main and the janitor are tell of the other variables.
Control ==
    /\ janitor = "off" <=> phase \in {"down", "loading"}
    /\ phase = "loading" => loadDay \in Day
    /\ phase \notin Serving => \A r \in Request : clock[r] = NoDay
    /\ janitor = "off" => day = NoDay
    /\ day = NoDay => /\ counts = NoCounts /\ dirty = {} /\ pending = NoRows
                      /\ todo = {}
    /\ janitor \notin {"flushing", "final"} => todo = {} /\ batch = NoBatch
    /\ janitor \in {"final", "saved", "unsaved"} => phase \in {"closing", "forced"}
    /\ \A p \in Part, d \in Day, t \in Tenant : <<p, d, t>> \in todo => batch[p][d][t] > 0
    /\ phase = "closing" /\ janitor \in {"final", "saved"} => dirty = {} /\ pending = NoRows

\* What is kept of a day, against the counters and the table.
KeptExact ==
    \A t \in Metered :
        /\ day # NoDay => counts[t] = Kept(day, t)
        /\ \A d \in Day :
            /\ Kept(d, t) <= Limit[t]
            /\ janitor # "off" /\ d > day => Kept(d, t) = 0
            /\ janitor = "off" => Kept(d, t) = db[d][t]
            /\ phase = "loading" /\ d > loadDay => db[d][t] = 0

\* What a row stands for: the final count of an earlier day or, of the current
\* day, one that has grown since only if the tenant is dirty again.
RowsExact ==
    \A t \in Metered, d \in Day :
        /\ pending[d][t] > 0 => d < day /\ pending[d][t] = Kept(d, t)
        /\ batch["held"][d][t] > 0 => d < day
        /\ batch["fresh"][d][t] > 0 => d <= day
        /\ d = day /\ t \notin dirty /\ batch["fresh"][d][t] > 0
             => batch["fresh"][d][t] = counts[t]
        /\ \A p \in Part : batch[p][d][t] > 0 =>
             /\ batch[p][d][t] <= Kept(d, t)
             /\ d < day => pending[d][t] = Kept(d, t) \/ batch[p][d][t] = Kept(d, t)

\* The table against the counters and against the rows about to be written.
TableCurrent ==
    \A t \in Metered :
        /\ day = today /\ t \notin dirty /\ <<"fresh", day, t>> \notin todo
             => db[day][t] >= counts[t]
        /\ ~loadFailed => \A d \in Day :
             /\ db[d][t] <= Kept(d, t)
             /\ d >= today /\ <<"fresh", d, t>> \in todo => db[d][t] <= batch["fresh"][d][t]

Faithful == KeptExact /\ RowsExact /\ TableCurrent

IInv == TypeOK /\ Bounded /\ NoFutureDays /\ Control /\ (~rolledBack => Faithful)

-----------------------------------------------------------------------------
\* Days and limits are natural numbers, and NoDay is before every day.
LEMMA DayFacts == /\ Day \subseteq Nat /\ NoDay \in Nat /\ NoDay \notin Day
                  /\ 1 \in Day /\ \A d \in Day : NoDay < d
  BY QuotaAssumption DEF Day, NoDay

LEMMA LimitFacts == /\ \A t \in Tenant : Limit[t] \in Nat
                    /\ Metered = {t \in Tenant : Limit[t] > 0}
  BY QuotaAssumption DEF Metered, Limited

\* The empty tables.
LEMMA EmptyFacts ==
  /\ NoCounts \in [Tenant -> Nat] /\ \A t \in Tenant : NoCounts[t] = 0
  /\ NoRows \in [Day -> [Tenant -> Nat]] /\ NoRows \in [Day -> [Tenant -> Int]]
  /\ \A d \in Day, t \in Tenant : NoRows[d][t] = 0
  /\ NoBatch \in [Part -> [Day -> [Tenant -> Nat]]]
  /\ NoBatch["held"] = NoRows /\ NoBatch["fresh"] = NoRows
  BY DEF NoCounts, NoRows, NoBatch, Part

LEMMA InitInv == Init => IInv
  <1>1. SUFFICES ASSUME Init PROVE IInv
    OBVIOUS
  <1>2. TypeOK
    BY <1>1, DayFacts, EmptyFacts DEF Init, QuotaInit, TypeOK, Phase, JanitorState
  <1>3. /\ counts = NoCounts /\ pending = NoRows /\ db = NoRows
        /\ batch["held"] = NoRows /\ batch["fresh"] = NoRows
        /\ used = NoRows /\ lost = NoRows
        /\ day = NoDay /\ loadDay = NoDay /\ today = 1 /\ todo = {} /\ dirty = {}
        /\ phase = "down" /\ janitor = "off" /\ batch = NoBatch
        /\ clock = [r \in Request |-> NoDay]
    BY <1>1, EmptyFacts DEF Init, QuotaInit
  <1>a. \A d \in Day, t \in Tenant :
          /\ counts[t] = 0 /\ pending[d][t] = 0 /\ db[d][t] = 0
          /\ batch["held"][d][t] = 0 /\ batch["fresh"][d][t] = 0
          /\ used[d][t] = 0 /\ lost[d][t] = 0
    BY <1>3, EmptyFacts
  <1>b. \A d \in Day, t \in Tenant : Kept(d, t) = 0
    BY <1>a DEF Kept
  <1>c. day = 0 /\ loadDay = 0 /\ today = 1 /\ phase = "down" /\ janitor = "off"
    BY <1>3 DEF NoDay
  <1>4. Bounded
    BY <1>a, LimitFacts, DayFacts DEF Bounded
  <1>5. NoFutureDays
    BY <1>3, <1>a, <1>c DEF NoFutureDays, NoDay
  <1>6. Control
    BY <1>3 DEF Control
  <1>7. KeptExact
    BY <1>a, <1>b, <1>c, LimitFacts, DayFacts DEF KeptExact, NoDay
  <1>8. RowsExact
    BY <1>a, LimitFacts DEF RowsExact, Part
  <1>9. TableCurrent
    BY <1>a, <1>b, <1>c, LimitFacts DEF TableCurrent
  <1> QED
    BY <1>2, <1>4, <1>5, <1>6, <1>7, <1>8, <1>9 DEF IInv, Faithful

\* No two numbers are each at most the other.
LEMMA Antisymmetric == \A m, n \in Nat : m <= n /\ n <= m => m = n
  OBVIOUS

-----------------------------------------------------------------------------
\* The wall clock.
LEMMA MidnightInv == IInv /\ Midnight => IInv'
  <1>1. SUFFICES ASSUME IInv, Midnight PROVE IInv'
    OBVIOUS
  <1>2. today \in Nat /\ today' \in Day /\ today' = today + 1
    BY <1>1, QuotaAssumption DEF IInv, TypeOK, Midnight, Day
  <1>3. UNCHANGED <<day, counts, dirty, pending, phase, loadDay, clock, boots, janitor,
                    batch, todo, db, used, lost, rolledBack, loadFailed>>
    BY <1>1 DEF Midnight, quotaVars, janitorVars, history
  <1>4. TypeOK'
    BY <1>1, <1>2, <1>3 DEF IInv, TypeOK
  <1>5. Bounded'
    BY <1>1, <1>3 DEF IInv, Bounded
  <1>6. NoFutureDays'
    <2>1. day \in Nat /\ loadDay \in Nat /\ \A r \in Request : clock[r] \in Nat
      BY <1>1, DayFacts DEF IInv, TypeOK
    <2> QED
      BY <1>1, <1>2, <1>3, <2>1, DayFacts DEF IInv, NoFutureDays
  <1>7. Control'
    BY <1>1, <1>3 DEF IInv, Control
  <1>8. ~rolledBack => Faithful'
    <2>1. SUFFICES ASSUME ~rolledBack PROVE Faithful'
      OBVIOUS
    <2>2. KeptExact /\ RowsExact /\ TableCurrent
      BY <1>1, <2>1 DEF IInv, Faithful
    <2>3. KeptExact'
      BY <1>3, <2>2 DEF KeptExact, Kept
    <2>4. RowsExact'
      BY <1>3, <2>2 DEF RowsExact, Kept
    <2>5. day' < today'
      <3>1. day \in Day \cup {NoDay} /\ day <= today
        BY <1>1 DEF IInv, TypeOK, NoFutureDays
      <3>2. day \in Nat
        BY <3>1, DayFacts
      <3>3. day' = day
        BY <1>3
      <3> QED
        BY <1>2, <3>1, <3>2, <3>3
    <2>6. TableCurrent'
      <3>1. day' # today'
        BY <1>1, <1>2, <1>3, <2>5 DEF IInv, TypeOK
      <3>2. ASSUME NEW t \in Metered, ~loadFailed
            PROVE  \A d \in Day :
                     /\ db[d][t] <= Kept(d, t)
                     /\ d >= today' /\ <<"fresh", d, t>> \in todo
                          => db[d][t] <= batch["fresh"][d][t]
        <4>1. \A d \in Day : d >= today' => d >= today
          BY <1>2, DayFacts
        <4> QED
          BY <2>2, <3>2, <4>1 DEF TableCurrent
      <3> QED
        BY <1>3, <3>1, <3>2 DEF TableCurrent, Kept
    <2> QED
      BY <2>3, <2>4, <2>6 DEF Faithful
  <1> QED
    BY <1>3, <1>4, <1>5, <1>6, <1>7, <1>8 DEF IInv

-----------------------------------------------------------------------------
\* A request reads the clock.
LEMMA ReadClockInv == ASSUME NEW r \in Request PROVE IInv /\ ReadClock(r) => IInv'
  <1>1. SUFFICES ASSUME IInv, ReadClock(r) PROVE IInv'
    OBVIOUS
  <1>2. UNCHANGED <<day, counts, dirty, pending, today, phase, loadDay, boots, janitor,
                    batch, todo, db, used, lost, rolledBack, loadFailed>>
    BY <1>1 DEF ReadClock, quotaVars, janitorVars, history
  <1>3. /\ phase \in Serving /\ clock' = [clock EXCEPT ![r] = today]
        /\ clock \in [Request -> Day \cup {NoDay}] /\ today \in Day
    BY <1>1 DEF ReadClock, IInv, TypeOK
  <1>4. TypeOK'
    BY <1>1, <1>2, <1>3 DEF IInv, TypeOK
  <1>5. Bounded'
    BY <1>1, <1>2 DEF IInv, Bounded
  <1>6. NoFutureDays'
    BY <1>1, <1>2, <1>3, DayFacts DEF IInv, NoFutureDays
  <1>7. Control'
    BY <1>1, <1>2, <1>3 DEF IInv, Control
  <1>8. ~rolledBack => Faithful'
    BY <1>1, <1>2 DEF IInv, Faithful, KeptExact, RowsExact, TableCurrent, Kept
  <1> QED
    BY <1>2, <1>4, <1>5, <1>6, <1>7, <1>8 DEF IInv

-----------------------------------------------------------------------------
\* main moves on and nothing else changes.
LEMMA MovesToInv ==
  ASSUME NEW from \in {"booting", "up", "draining"},
         NEW to \in {"up", "draining", "closing", "forced"},
         to = "closing" => \A r \in Request : clock[r] = NoDay,
         IInv, MovesTo(from, to)
  PROVE  IInv'
  <1>1. UNCHANGED <<day, counts, dirty, pending, today, loadDay, clock, boots, janitor,
                    batch, todo, db, used, lost, rolledBack, loadFailed>>
    BY DEF MovesTo, quotaVars, janitorVars, history
  <1>2. phase = from /\ phase' = to
    BY DEF MovesTo
  <1>3. TypeOK'
    BY <1>1, <1>2 DEF IInv, TypeOK, Phase
  <1>4. Bounded' /\ NoFutureDays'
    BY <1>1 DEF IInv, Bounded, NoFutureDays
  <1>5. Control'
    <2>1. janitor \notin {"final", "saved", "unsaved", "off"}
      BY <1>2 DEF IInv, Control
    <2> QED
      BY <1>1, <1>2, <2>1 DEF IInv, Control, Serving
  <1>6. ~rolledBack => Faithful'
    <2>1. SUFFICES ASSUME ~rolledBack PROVE Faithful'
      OBVIOUS
    <2>2. KeptExact /\ RowsExact /\ TableCurrent /\ janitor # "off"
      BY <1>2, <2>1 DEF IInv, Faithful, Control
    <2>3. KeptExact'
      BY <1>1, <1>2, <2>2 DEF KeptExact, Kept
    <2>4. RowsExact' /\ TableCurrent'
      BY <1>1, <2>2 DEF RowsExact, TableCurrent, Kept
    <2> QED
      BY <2>3, <2>4 DEF Faithful
  <1> QED
    BY <1>1, <1>3, <1>4, <1>5, <1>6 DEF IInv

-----------------------------------------------------------------------------
\* The process starts and loads the counts of the day.
LEMMA StartInv == IInv /\ Start => IInv'
  <1>1. SUFFICES ASSUME IInv, Start PROVE IInv'
    OBVIOUS
  <1>2. UNCHANGED <<day, counts, dirty, pending, today, clock, janitor, batch, todo, db,
                    used, lost, rolledBack, loadFailed>>
    BY <1>1 DEF Start, quotaVars, janitorVars, history
  <1>3. phase = "down" /\ phase' = "loading" /\ loadDay' = today /\ boots' = boots + 1
    BY <1>1 DEF Start
  <1>4. TypeOK'
    BY <1>1, <1>2, <1>3 DEF IInv, TypeOK, Phase
  <1>5. Bounded'
    BY <1>1, <1>2 DEF IInv, Bounded
  <1>6. NoFutureDays'
    BY <1>1, <1>2, <1>3, DayFacts DEF IInv, TypeOK, NoFutureDays
  <1>7. Control'
    BY <1>1, <1>2, <1>3 DEF IInv, TypeOK, Control, Serving
  <1>8. ~rolledBack => Faithful'
    <2>1. SUFFICES ASSUME ~rolledBack PROVE Faithful'
      OBVIOUS
    <2>2. KeptExact /\ RowsExact /\ TableCurrent
      BY <1>1, <2>1 DEF IInv, Faithful
    <2>3. KeptExact'
      <3>1. \A d \in Day, t \in Tenant : d > today => db[d][t] = 0
        BY <1>1 DEF IInv, NoFutureDays
      <3> QED
        BY <1>2, <1>3, <2>2, <3>1, LimitFacts DEF KeptExact, Kept
    <2>4. RowsExact' /\ TableCurrent'
      BY <1>2, <2>2 DEF RowsExact, TableCurrent, Kept
    <2> QED
      BY <2>3, <2>4 DEF Faithful
  <1> QED
    BY <1>2, <1>4, <1>5, <1>6, <1>7, <1>8 DEF IInv

LEMMA LoadSucceedsInv == IInv /\ LoadSucceeds => IInv'
  <1>1. SUFFICES ASSUME IInv, LoadSucceeds PROVE IInv'
    OBVIOUS
  <1>2. UNCHANGED <<pending, today, clock, boots, batch, todo, db, used, lost, rolledBack,
                    loadFailed>>
    BY <1>1 DEF LoadSucceeds, StartJanitor, QuotaLoad
  <1>3. /\ phase = "loading" /\ phase' = "booting" /\ janitor' = "idle"
        /\ loadDay' = NoDay /\ day' = loadDay /\ counts' = db[loadDay] /\ dirty' = {}
    BY <1>1 DEF LoadSucceeds, StartJanitor, QuotaLoad
  <1>4. /\ loadDay \in Day /\ loadDay <= today /\ db[loadDay] \in [Tenant -> Nat]
        /\ janitor = "off" /\ pending = NoRows /\ batch = NoBatch /\ todo = {}
        /\ \A r \in Request : clock[r] = NoDay
    BY <1>1, <1>3 DEF IInv, TypeOK, Control, NoFutureDays, Serving
  <1>5. TypeOK'
    BY <1>1, <1>2, <1>3, <1>4 DEF IInv, TypeOK, Phase, JanitorState
  <1>6. Bounded'
    BY <1>1, <1>2, <1>3, <1>4 DEF IInv, Bounded
  <1>7. NoFutureDays'
    BY <1>1, <1>2, <1>3, <1>4, DayFacts DEF IInv, TypeOK, NoFutureDays
  <1>8. Control'
    BY <1>1, <1>2, <1>3, <1>4, DayFacts DEF IInv, Control, Serving
  <1>9. ~rolledBack => Faithful'
    <2>1. SUFFICES ASSUME ~rolledBack PROVE Faithful'
      OBVIOUS
    <2>2. KeptExact /\ RowsExact /\ TableCurrent
      BY <1>1, <2>1 DEF IInv, Faithful
    <2>3. \A d \in Day, t \in Metered : Kept(d, t)' = db[d][t] /\ Kept(d, t) = db[d][t]
      BY <1>2, <1>4, <2>2 DEF KeptExact, Kept
    <2>4. KeptExact'
      BY <1>2, <1>3, <1>4, <2>2, <2>3, LimitFacts DEF KeptExact
    <2>5. RowsExact'
      BY <1>2, <1>4, EmptyFacts, LimitFacts DEF RowsExact, Part
    <2>6. TableCurrent'
      <3>1. \A d \in Day, t \in Tenant : db[d][t] \in Nat
        BY <1>1 DEF IInv, TypeOK
      <3> QED
        BY <1>2, <1>3, <1>4, <2>3, <3>1, LimitFacts DEF TableCurrent
    <2> QED
      BY <2>4, <2>5, <2>6 DEF Faithful
  <1> QED
    BY <1>2, <1>5, <1>6, <1>7, <1>8, <1>9 DEF IInv

LEMMA LoadFailsInv == IInv /\ LoadFails => IInv'
  <1>1. SUFFICES ASSUME IInv, LoadFails PROVE IInv'
    OBVIOUS
  <1>2. UNCHANGED <<day, counts, dirty, pending, today, clock, boots, batch, todo, db, used,
                    rolledBack>>
    BY <1>1 DEF LoadFails, StartJanitor, quotaVars
  <1>3. /\ phase = "loading" /\ phase' = "booting" /\ janitor' = "idle"
        /\ loadDay' = NoDay /\ lost' = used /\ loadFailed' = TRUE
    BY <1>1 DEF LoadFails, StartJanitor
  <1>4. /\ janitor = "off" /\ day = NoDay /\ counts = NoCounts /\ pending = NoRows
        /\ batch = NoBatch /\ todo = {} /\ dirty = {}
        /\ \A r \in Request : clock[r] = NoDay
    BY <1>1, <1>3 DEF IInv, Control, Serving
  <1>5. TypeOK'
    <2>1. used \in [Day -> [Tenant -> Int]]
      BY <1>1 DEF IInv, TypeOK
    <2> QED
      BY <1>1, <1>2, <1>3, <2>1 DEF IInv, TypeOK, Phase, JanitorState
  <1>6. Bounded'
    BY <1>1, <1>2 DEF IInv, Bounded
  <1>7. NoFutureDays'
    BY <1>1, <1>2, <1>3, DayFacts DEF IInv, TypeOK, NoFutureDays
  <1>8. Control'
    BY <1>1, <1>2, <1>3, <1>4 DEF IInv, Control, Serving
  <1>9. ~rolledBack => Faithful'
    <2>1. \A d \in Day, t \in Tenant : Kept(d, t)' = 0
      <3>1. \A d \in Day, t \in Tenant : used[d][t] \in Nat
        BY <1>1 DEF IInv, TypeOK
      <3> QED
        BY <1>2, <1>3, <3>1 DEF Kept
    <2>2. KeptExact'
      BY <1>2, <1>3, <1>4, <2>1, LimitFacts DEF KeptExact
    <2>3. RowsExact'
      BY <1>2, <1>4, EmptyFacts, LimitFacts DEF RowsExact, Part
    <2>4. TableCurrent'
      <3>1. day' # today'
        BY <1>1, <1>2, <1>4, DayFacts DEF IInv, TypeOK
      <3> QED
        BY <1>3, <3>1 DEF TableCurrent
    <2> QED
      BY <2>2, <2>3, <2>4 DEF Faithful
  <1> QED
    BY <1>2, <1>5, <1>6, <1>7, <1>8, <1>9 DEF IInv

-----------------------------------------------------------------------------
\* The process ends, cleanly or not: what it leaves behind is the table.
LEMMA ProcessEndsInv == IInv /\ ProcessEnds => IInv'
  <1>1. SUFFICES ASSUME IInv, ProcessEnds PROVE IInv'
    OBVIOUS
  <1>2. UNCHANGED <<today, boots, db, used, rolledBack, loadFailed>>
    BY <1>1 DEF ProcessEnds
  <1>3. /\ phase' = "down" /\ day' = NoDay /\ counts' = NoCounts /\ dirty' = {}
        /\ pending' = NoRows /\ loadDay' = NoDay /\ janitor' = "off"
        /\ batch' = NoBatch /\ todo' = {} /\ clock' = [r \in Request |-> NoDay]
        /\ lost' = [d \in Day |-> [t \in Tenant |-> used[d][t] - db[d][t]]]
    BY <1>1 DEF ProcessEnds
  <1>4. \A d \in Day, t \in Tenant :
          /\ used[d][t] \in Nat /\ db[d][t] \in Nat
          /\ db[d][t] <= Limit[t] /\ (d > today => db[d][t] = 0)
          /\ pending'[d][t] = 0 /\ counts'[t] = 0
          /\ batch'["held"][d][t] = 0 /\ batch'["fresh"][d][t] = 0
    BY <1>1, <1>3, EmptyFacts DEF IInv, TypeOK, Bounded, NoFutureDays
  <1>5. TypeOK'
    <2>1. lost' \in [Day -> [Tenant -> Int]]
      BY <1>3, <1>4
    <2> QED
      BY <1>1, <1>2, <1>3, <2>1, EmptyFacts DEF IInv, TypeOK, Phase, JanitorState
  <1>6. Bounded'
    BY <1>2, <1>4, LimitFacts, DayFacts DEF Bounded
  <1>7. NoFutureDays'
    <2>1. today \in Nat
      BY <1>1, DayFacts DEF IInv, TypeOK
    <2> QED
      BY <1>2, <1>3, <1>4, <2>1, DayFacts DEF NoFutureDays, NoDay
  <1>8. Control'
    BY <1>3 DEF Control
  <1>9. Faithful'
    <2>1. \A d \in Day, t \in Tenant : Kept(d, t)' = db'[d][t]
      BY <1>2, <1>3, <1>4 DEF Kept
    <2>2. KeptExact'
      BY <1>2, <1>3, <1>4, <2>1, LimitFacts DEF KeptExact
    <2>3. RowsExact'
      BY <1>3, <1>4, LimitFacts DEF RowsExact, Part
    <2>4. TableCurrent'
      <3>1. day' # today'
        BY <1>1, <1>2, <1>3, DayFacts DEF IInv, TypeOK
      <3> QED
        BY <1>2, <1>3, <1>4, <2>1, <3>1, LimitFacts DEF TableCurrent
    <2> QED
      BY <2>2, <2>3, <2>4 DEF Faithful
  <1> QED
    BY <1>2, <1>5, <1>6, <1>7, <1>8, <1>9 DEF IInv

-----------------------------------------------------------------------------
\* Deleting the rows of past days.
LEMMA CleanupInv == IInv /\ Cleanup => IInv'
  <1>1. SUFFICES ASSUME IInv, Cleanup PROVE IInv'
    OBVIOUS
  <1>2. UNCHANGED <<day, counts, dirty, pending, today, phase, loadDay, clock, boots,
                    janitor, batch, todo, used, lost, rolledBack, loadFailed>>
    BY <1>1 DEF Cleanup, quotaVars, procVars, janitorVars, history
  <1>3. janitor = "idle" /\ todo = {} /\ db' \in [Day -> [Tenant -> Nat]]
    BY <1>1, EmptyFacts DEF Cleanup, IInv, Control, TypeOK
  <1>4. \A d \in Day, t \in Tenant :
          /\ db[d][t] \in Nat /\ db'[d][t] \in Nat
          /\ db'[d][t] = db[d][t] \/ (d < today /\ db'[d][t] = 0)
    BY <1>1, <1>3, EmptyFacts DEF Cleanup, IInv, TypeOK
  <1>5. TypeOK'
    BY <1>1, <1>2, <1>3 DEF IInv, TypeOK
  <1>6. Bounded'
    BY <1>1, <1>2, <1>4, LimitFacts DEF IInv, Bounded
  <1>7. NoFutureDays'
    BY <1>1, <1>2, <1>4, DayFacts DEF IInv, NoFutureDays, TypeOK
  <1>8. Control'
    BY <1>1, <1>2 DEF IInv, Control
  <1>9. ~rolledBack => Faithful'
    <2>1. SUFFICES ASSUME ~rolledBack PROVE Faithful'
      OBVIOUS
    <2>2. KeptExact /\ RowsExact /\ TableCurrent
      BY <1>1, <2>1 DEF IInv, Faithful
    <2>3. \A d \in Day, t \in Tenant : Kept(d, t)' = Kept(d, t) /\ Kept(d, t) \in Int
      BY <1>1, <1>2 DEF Kept, IInv, TypeOK
    <2>4. KeptExact'
      BY <1>1, <1>2, <1>3, <2>2 DEF KeptExact, Kept, IInv, Control
    <2>5. RowsExact'
      BY <1>2, <2>2 DEF RowsExact, Kept
    <2>6. TableCurrent'
      <3>1. today \in Nat
        BY <1>1, DayFacts DEF IInv, TypeOK
      <3>2. ASSUME NEW t \in Metered, day = today, t \notin dirty,
                   <<"fresh", day, t>> \notin todo
            PROVE  db'[day][t] >= counts[t]
        BY <1>1, <1>4, <2>2, <3>1, <3>2, LimitFacts DEF TableCurrent, IInv, TypeOK
      <3>3. ASSUME NEW t \in Metered, NEW d \in Day, ~loadFailed
            PROVE  db'[d][t] <= Kept(d, t)
        <4>1. t \in Tenant /\ db[d][t] <= Kept(d, t)
          BY <2>2, <3>3, LimitFacts DEF TableCurrent
        <4> QED
          BY <1>4, <2>3, <4>1
      <3>4. \A d \in Day, t \in Metered : Kept(d, t)' = Kept(d, t)
        BY <2>3, LimitFacts
      <3> QED
        BY <1>2, <1>3, <3>2, <3>3, <3>4 DEF TableCurrent
    <2> QED
      BY <2>4, <2>5, <2>6 DEF Faithful
  <1> QED
    BY <1>2, <1>5, <1>6, <1>7, <1>8, <1>9 DEF IInv

-----------------------------------------------------------------------------
\* Taking the rows of a flush.
LEMMA TakeSnapshotInv ==
  ASSUME NEW state, NEW ended, IInv, TakeSnapshot(state, ended), janitor = "idle",
         \/ state = "flushing" /\ ended = "idle"
         \/ state = "final" /\ ended = "saved" /\ phase \in {"closing", "forced"}
  PROVE  IInv'
  <1>1. UNCHANGED <<day, counts, today, phase, loadDay, clock, boots, db, used, lost,
                    rolledBack, loadFailed>>
    BY DEF TakeSnapshot, QuotaSnapshot, procVars, history
  <1>2. dirty' = {} /\ pending' = NoRows /\ batch = NoBatch /\ todo = {}
    BY DEF TakeSnapshot, QuotaSnapshot, IInv, Control
  <1>3. \A d \in Day, t \in Tenant : pending[d][t] \in Nat /\ counts[t] \in Nat
    BY DEF IInv, TypeOK
  <1>4. /\ SnapshotRows \in [Part -> [Day -> [Tenant -> Nat]]]
        /\ \A d \in Day, t \in Tenant :
             /\ SnapshotRows["held"][d][t] = pending[d][t]
             /\ SnapshotRows["fresh"][d][t] = IF d = day /\ t \in dirty THEN counts[t] ELSE 0
    BY <1>3 DEF SnapshotRows, Part
  <1>5. /\ batch' \in [Part -> [Day -> [Tenant -> Nat]]]
        /\ \A d \in Day, t \in Tenant :
             /\ batch'["held"][d][t] = pending[d][t]
             /\ batch'["fresh"][d][t] = IF d = day /\ t \in dirty THEN counts[t] ELSE 0
        /\ todo' \subseteq Part \X Day \X Tenant
        /\ \A q \in Part, d \in Day, t \in Tenant :
             <<q, d, t>> \in todo' <=> batch'[q][d][t] > 0
        /\ janitor' \in {state, ended}
        /\ janitor' = ended => todo' = {} /\ batch' = NoBatch
    <2>1. CASE AllRows(SnapshotRows) = {}
      <3>1. batch' = NoBatch /\ todo' = {} /\ janitor' = ended
        BY <1>2, <2>1 DEF TakeSnapshot
      <3>2. \A q \in Part, d \in Day, t \in Tenant : SnapshotRows[q][d][t] = 0
        <4>1. SUFFICES ASSUME NEW q \in Part, NEW d \in Day, NEW t \in Tenant
                       PROVE  ~(SnapshotRows[q][d][t] > 0)
          BY <1>4
        <4>2. <<q, d, t>> \notin AllRows(SnapshotRows)
          BY <2>1
        <4> QED
          BY <4>2 DEF AllRows
      <3>3. "held" \in Part /\ "fresh" \in Part
        BY DEF Part
      <3>4. \A q \in Part, d \in Day, t \in Tenant : batch'[q][d][t] = 0
        BY <3>1, EmptyFacts DEF Part
      <3> QED
        BY <1>4, <3>1, <3>2, <3>3, <3>4, EmptyFacts
    <2>2. CASE AllRows(SnapshotRows) # {}
      <3>1. batch' = SnapshotRows /\ todo' = AllRows(SnapshotRows) /\ janitor' = state
        BY <2>2 DEF TakeSnapshot
      <3>2. /\ AllRows(SnapshotRows) \subseteq Part \X Day \X Tenant
            /\ \A q \in Part, d \in Day, t \in Tenant :
                 <<q, d, t>> \in AllRows(SnapshotRows) <=> SnapshotRows[q][d][t] > 0
        BY DEF AllRows
      <3>3. state # ended
        OBVIOUS
      <3> QED
        BY <1>4, <3>1, <3>2, <3>3
    <2> QED
      BY <2>1, <2>2
  <1>6. TypeOK'
    BY <1>1, <1>2, <1>5, EmptyFacts DEF IInv, TypeOK, JanitorState
  <1>7. Bounded'
    <2>1. \A d \in Day, t \in Tenant :
            /\ pending'[d][t] = 0 /\ 0 <= Limit[t]
            /\ batch'["held"][d][t] <= Limit[t] /\ batch'["fresh"][d][t] <= Limit[t]
      <3>1. SUFFICES ASSUME NEW d \in Day, NEW t \in Tenant
                     PROVE /\ pending'[d][t] = 0 /\ 0 <= Limit[t]
                           /\ batch'["held"][d][t] <= Limit[t]
                           /\ batch'["fresh"][d][t] <= Limit[t]
        OBVIOUS
      <3>2. pending[d][t] <= Limit[t] /\ counts[t] <= Limit[t]
        BY DEF IInv, Bounded
      <3>3. 0 <= Limit[t]
        BY LimitFacts
      <3>4. pending'[d][t] = 0
        BY <1>2, EmptyFacts
      <3> QED
        BY <1>5, <3>2, <3>3, <3>4
    <2> QED
      BY <1>1, <2>1 DEF IInv, Bounded
  <1>8. NoFutureDays'
    <2>1. \A d \in Day, t \in Tenant : d > today =>
            pending'[d][t] = 0 /\ batch'["held"][d][t] = 0 /\ batch'["fresh"][d][t] = 0
      <3>1. \A d \in Day : d > today => d # day
        BY DayFacts DEF IInv, TypeOK, NoFutureDays
      <3>2. \A d \in Day, t \in Tenant : pending'[d][t] = 0
        BY <1>2, EmptyFacts
      <3>3. \A d \in Day, t \in Tenant : d > today => pending[d][t] = 0
        BY DEF IInv, NoFutureDays
      <3> QED
        BY <1>5, <3>1, <3>2, <3>3
    <2> QED
      BY <1>1, <2>1 DEF IInv, NoFutureDays
  <1>9. Control'
    <2>1. day = NoDay => todo' = {}
      <3>1. ASSUME day = NoDay, NEW k \in todo' PROVE FALSE
        <4>1. PICK q \in Part, d \in Day, t \in Tenant : k = <<q, d, t>>
          BY <1>5, <3>1
        <4>2. q = "held" \/ q = "fresh"
          BY DEF Part
        <4>3. pending[d][t] = 0 /\ d # day
          BY <3>1, EmptyFacts, DayFacts DEF IInv, Control
        <4> QED
          BY <1>5, <3>1, <4>1, <4>2, <4>3
      <3> QED
        BY <3>1
    <2>2. janitor' # "off" /\ janitor # "off"
      BY <1>5
    <2> QED
      BY <1>1, <1>2, <1>5, <2>1, <2>2 DEF IInv, Control
  <1>10. ~rolledBack => Faithful'
    <2>1. SUFFICES ASSUME ~rolledBack PROVE Faithful'
      OBVIOUS
    <2>2. KeptExact /\ RowsExact /\ TableCurrent
      BY <2>1 DEF IInv, Faithful
    <2>3. \A d \in Day, t \in Tenant : Kept(d, t)' = Kept(d, t) /\ Kept(d, t) \in Int
      BY <1>1 DEF Kept, IInv, TypeOK
    <2>4. KeptExact'
      BY <1>1, <1>5, <2>2 DEF KeptExact, Kept
    <2>5. RowsExact'
      <3>1. SUFFICES ASSUME NEW t \in Metered, NEW d \in Day
                     PROVE /\ batch'["held"][d][t] > 0 => d < day
                           /\ batch'["fresh"][d][t] > 0 => d <= day
                           /\ d = day /\ batch'["fresh"][d][t] > 0
                                => batch'["fresh"][d][t] = counts[t]
                           /\ \A q \in Part : batch'[q][d][t] > 0 =>
                                /\ batch'[q][d][t] <= Kept(d, t)
                                /\ d < day => batch'[q][d][t] = Kept(d, t)
        BY <1>1, <1>2, <2>3, EmptyFacts, LimitFacts DEF RowsExact
      <3>2. t \in Tenant /\ Kept(d, t) \in Int /\ day \in Nat
        BY <2>3, LimitFacts, DayFacts DEF IInv, TypeOK
      <3>3. pending[d][t] > 0 => d < day /\ pending[d][t] = Kept(d, t)
        BY <2>2 DEF RowsExact
      <3>4. d = day => counts[t] = Kept(d, t)
        BY <2>2, DayFacts DEF KeptExact
      <3>5. d \in Nat
        BY DayFacts
      <3> QED
        BY <1>3, <1>5, <3>2, <3>3, <3>4, <3>5 DEF Part
    <2>6. TableCurrent'
      <3>1. SUFFICES ASSUME NEW t \in Metered
                     PROVE /\ day = today /\ <<"fresh", day, t>> \notin todo'
                                => db[day][t] >= counts[t]
                           /\ ~loadFailed => \A d \in Day :
                                /\ db[d][t] <= Kept(d, t)
                                /\ <<"fresh", d, t>> \in todo' => db[d][t] <= batch'["fresh"][d][t]
        BY <1>1, <1>2, <2>3, LimitFacts DEF TableCurrent
      <3>2. t \in Tenant /\ "fresh" \in Part
        BY LimitFacts DEF Part
      <3>3. ASSUME day = today, <<"fresh", day, t>> \notin todo'
            PROVE  db[day][t] >= counts[t]
        <4>1. day \in Day /\ db[day][t] \in Nat
          BY <3>2, <3>3 DEF IInv, TypeOK
        <4>2. CASE t \in dirty
          BY <1>3, <1>5, <3>2, <3>3, <4>1, <4>2
        <4>3. CASE t \notin dirty
          BY <1>2, <2>2, <3>3, <4>3 DEF TableCurrent
        <4> QED
          BY <4>2, <4>3
      <3>4. ASSUME ~loadFailed, NEW d \in Day, <<"fresh", d, t>> \in todo'
            PROVE  db[d][t] <= batch'["fresh"][d][t]
        <4>1. d = day /\ batch'["fresh"][d][t] = counts[t]
          BY <1>5, <3>2, <3>4
        <4> QED
          BY <2>2, <3>4, <4>1, DayFacts DEF TableCurrent, KeptExact
      <3> QED
        BY <2>2, <3>3, <3>4 DEF TableCurrent
    <2> QED
      BY <2>4, <2>5, <2>6 DEF Faithful
  <1> QED
    BY <1>1, <1>6, <1>7, <1>8, <1>9, <1>10 DEF IInv

-----------------------------------------------------------------------------
\* Writing one row.
LEMMA UpsertInv ==
  ASSUME NEW k \in Part \X Day \X Tenant, IInv, Upsert(k)
  PROVE  IInv'
  <1>1. PICK p \in Part, e \in Day, u \in Tenant : k = <<p, e, u>>
    OBVIOUS
  <1>2. UNCHANGED <<day, counts, dirty, pending, today, phase, loadDay, clock, boots, used,
                    lost, rolledBack, loadFailed>>
    BY DEF Upsert, quotaVars, procVars, history
  <1>3. /\ <<p, e, u>> \in todo /\ batch[p][e][u] > 0 /\ batch[p][e][u] \in Nat
        /\ janitor \in {"flushing", "final"} /\ day \in Day
    BY <1>1 DEF Upsert, IInv, TypeOK, Control
  <1>4. /\ db' \in [Day -> [Tenant -> Nat]]
        /\ db'[e][u] = batch[p][e][u]
        /\ \A d \in Day, t \in Tenant : ~(d = e /\ t = u) => db'[d][t] = db[d][t]
    BY <1>1, <1>3 DEF Upsert, IInv, TypeOK
  <1>5. /\ todo' = todo \ {<<p, e, u>>}
        /\ \/ janitor' = janitor /\ batch' = batch
           \/ /\ todo' = {} /\ batch' = NoBatch
              /\ janitor = "flushing" => janitor' = "idle"
              /\ janitor = "final" => janitor' = "saved"
    <2>1. CASE todo = {k}
      BY <1>1, <1>3, <2>1 DEF Upsert, FlushReturns
    <2>2. CASE todo # {k}
      BY <1>1, <2>2 DEF Upsert
    <2> QED
      BY <2>1, <2>2
  <1>6. /\ batch' \in [Part -> [Day -> [Tenant -> Nat]]]
        /\ \A q \in Part, d \in Day, t \in Tenant :
             /\ batch'[q][d][t] = batch[q][d][t] \/ batch'[q][d][t] = 0
             /\ <<q, d, t>> \in todo' => batch'[q][d][t] = batch[q][d][t]
    BY <1>5, EmptyFacts DEF IInv, TypeOK, Part
  <1>7. TypeOK'
    BY <1>2, <1>3, <1>4, <1>5, <1>6 DEF IInv, TypeOK, JanitorState
  <1>8. Bounded'
    <2>1. batch[p][e][u] <= Limit[u]
      BY DEF IInv, Bounded, Part
    <2>2. \A d \in Day, t \in Tenant : db'[d][t] <= Limit[t]
      BY <1>4, <2>1 DEF IInv, Bounded
    <2>3. \A d \in Day, t \in Tenant :
            batch'["held"][d][t] <= Limit[t] /\ batch'["fresh"][d][t] <= Limit[t]
      <3>1. SUFFICES ASSUME NEW d \in Day, NEW t \in Tenant
                     PROVE  batch'["held"][d][t] <= Limit[t] /\ batch'["fresh"][d][t] <= Limit[t]
        OBVIOUS
      <3>2. /\ batch["held"][d][t] <= Limit[t] /\ batch["fresh"][d][t] <= Limit[t]
            /\ 0 <= Limit[t]
        BY LimitFacts DEF IInv, Bounded
      <3>3. "held" \in Part /\ "fresh" \in Part
        BY DEF Part
      <3> QED
        BY <1>6, <3>2, <3>3
    <2> QED
      BY <1>2, <2>2, <2>3 DEF IInv, Bounded
  <1>9. NoFutureDays'
    <2>1. e <= today
      BY <1>3, DayFacts DEF IInv, NoFutureDays, Part, TypeOK
    <2>2. \A d \in Day, t \in Tenant : d > today =>
            db'[d][t] = 0 /\ batch'["held"][d][t] = 0 /\ batch'["fresh"][d][t] = 0
      <3>1. SUFFICES ASSUME NEW d \in Day, NEW t \in Tenant, d > today
                     PROVE  db'[d][t] = 0 /\ batch'["held"][d][t] = 0 /\ batch'["fresh"][d][t] = 0
        OBVIOUS
      <3>2. db[d][t] = 0 /\ batch["held"][d][t] = 0 /\ batch["fresh"][d][t] = 0
        BY <3>1 DEF IInv, NoFutureDays
      <3>3. "held" \in Part /\ "fresh" \in Part
        BY DEF Part
      <3>4. d # e
        BY <2>1, <3>1, DayFacts DEF IInv, TypeOK
      <3> QED
        BY <1>4, <1>6, <3>2, <3>3, <3>4
    <2> QED
      BY <1>2, <2>2 DEF IInv, NoFutureDays
  <1>10. Control'
    <2>1. \A q \in Part, d \in Day, t \in Tenant : <<q, d, t>> \in todo' => batch'[q][d][t] > 0
      BY <1>5, <1>6 DEF IInv, Control
    <2>2. CASE janitor' = janitor /\ batch' = batch
      BY <1>2, <1>3, <1>5, <2>1, <2>2, DayFacts DEF IInv, Control
    <2>3. CASE todo' = {} /\ batch' = NoBatch /\ janitor' # janitor
      BY <1>2, <1>3, <1>5, <2>1, <2>3, DayFacts DEF IInv, Control
    <2> QED
      BY <1>3, <1>5, <2>2, <2>3
  <1>11. ~rolledBack => Faithful'
    <2>1. SUFFICES ASSUME ~rolledBack PROVE Faithful'
      OBVIOUS
    <2>2. KeptExact /\ RowsExact /\ TableCurrent
      BY <2>1 DEF IInv, Faithful
    <2>3. \A d \in Day, t \in Tenant : Kept(d, t)' = Kept(d, t) /\ Kept(d, t) \in Int
      BY <1>2 DEF Kept, IInv, TypeOK
    <2>4. KeptExact'
      <3>1. janitor' # "off" /\ janitor # "off" /\ phase # "loading"
        BY <1>3, <1>5 DEF IInv, Control
      <3> QED
        BY <1>2, <2>2, <3>1 DEF KeptExact, Kept
    <2>5. RowsExact'
      <3>1. \A q \in Part, d \in Day, t \in Metered :
              batch'[q][d][t] = batch[q][d][t] \/ ~(batch'[q][d][t] > 0)
        <4>1. \A t \in Metered : t \in Tenant
          BY LimitFacts
        <4>2. ~(0 > 0)
          OBVIOUS
        <4> QED
          BY <1>6, <4>1, <4>2
      <3> QED
        BY <1>2, <2>2, <2>3, <3>1, LimitFacts DEF RowsExact, Part
    <2>6. ASSUME u \in Metered PROVE p = "held" => e < day /\ e < today
      BY <1>3, <2>2, <2>6, DayFacts DEF RowsExact, IInv, NoFutureDays, TypeOK
    <2>7. ASSUME NEW t \in Metered, day = today, t \notin dirty, <<"fresh", day, t>> \notin todo'
          PROVE  db'[day][t] >= counts[t]
      <3>1. t \in Tenant
        BY LimitFacts
      <3>2. CASE <<"fresh", day, t>> \in todo
        <4>1. <<"fresh", day, t>> = <<p, e, u>>
          BY <1>5, <2>7, <3>2
        <4>2. db'[day][t] = batch["fresh"][day][t] /\ batch["fresh"][day][t] > 0
          BY <1>3, <1>4, <4>1
        <4>3. db'[day][t] = counts[t]
          BY <1>3, <2>2, <2>7, <4>2 DEF RowsExact
        <4> QED
          BY <1>3, <3>1, <4>3 DEF IInv, TypeOK
      <3>3. CASE <<"fresh", day, t>> \notin todo
        <4>1. ~(day = e /\ t = u)
          <5>1. SUFFICES ASSUME day = e, t = u PROVE FALSE
            OBVIOUS
          <5>2. p = "held"
            BY <1>3, <3>3, <5>1 DEF Part
          <5> QED
            BY <1>3, <2>6, <2>7, <5>1, <5>2, DayFacts
        <4>2. db'[day][t] = db[day][t]
          BY <1>3, <1>4, <3>1, <4>1
        <4> QED
          BY <2>2, <2>7, <3>3, <4>2 DEF TableCurrent
      <3> QED
        BY <3>2, <3>3
    <2>8. ASSUME NEW t \in Metered, NEW d \in Day, ~loadFailed
          PROVE  db'[d][t] <= Kept(d, t)
      <3>1. t \in Tenant /\ db[d][t] <= Kept(d, t)
        BY <2>2, <2>8, LimitFacts DEF TableCurrent
      <3>2. CASE d = e /\ t = u
        BY <1>3, <1>4, <2>2, <2>8, <3>2 DEF RowsExact
      <3> QED
        BY <1>4, <3>1, <3>2
    <2>9. ASSUME NEW t \in Metered, NEW d \in Day, ~loadFailed, d >= today,
                 <<"fresh", d, t>> \in todo'
          PROVE  db'[d][t] <= batch'["fresh"][d][t]
      <3>1. t \in Tenant /\ <<"fresh", d, t>> \in todo /\ <<"fresh", d, t>> # <<p, e, u>>
        BY <1>5, <2>9, LimitFacts
      <3>2. ~(d = e /\ t = u)
        <4>1. SUFFICES ASSUME d = e, t = u PROVE FALSE
          OBVIOUS
        <4>2. p = "held"
          BY <3>1, <4>1 DEF Part
        <4>3. e < today
          BY <2>6, <2>9, <4>1, <4>2
        <4> QED
          BY <2>9, <4>1, <4>3, DayFacts DEF IInv, TypeOK
      <3>3. db'[d][t] = db[d][t] /\ batch'["fresh"][d][t] = batch["fresh"][d][t]
        BY <1>4, <1>6, <2>9, <3>1, <3>2 DEF Part
      <3> QED
        BY <2>2, <2>9, <3>1, <3>3 DEF TableCurrent
    <2>10. TableCurrent'
      <3>1. \A d \in Day, t \in Metered : Kept(d, t)' = Kept(d, t)
        BY <2>3, LimitFacts
      <3> QED
        BY <1>2, <2>7, <2>8, <2>9, <3>1 DEF TableCurrent
    <2> QED
      BY <2>4, <2>5, <2>10 DEF Faithful
  <1> QED
    BY <1>2, <1>7, <1>8, <1>9, <1>10, <1>11 DEF IInv

-----------------------------------------------------------------------------
\* Putting a failed batch back: it changes no count, since no row is ahead.
LEMMA UpsertFailsInv == IInv /\ UpsertFails => IInv'
  <1> DEFINE R(d, t) == RowCount(batch, d, t)
  <1>1. SUFFICES ASSUME IInv, UpsertFails PROVE IInv'
    OBVIOUS
  <1>2. UNCHANGED <<day, today, phase, loadDay, clock, boots, db, used, lost, rolledBack,
                    loadFailed>>
    BY <1>1 DEF UpsertFails, QuotaRestore, procVars, history
  <1>3. day \in Day /\ day \in Nat /\ janitor \in {"flushing", "final"}
    BY <1>1, DayFacts DEF UpsertFails, IInv, TypeOK, Control
  <1>4. /\ batch' = NoBatch /\ todo' = {}
        /\ janitor = "flushing" => janitor' = "idle"
        /\ janitor = "final" => janitor' = "unsaved"
    BY <1>1, <1>3 DEF UpsertFails, FlushReturns
  <1>5. \A d \in Day, t \in Tenant :
          /\ batch["held"][d][t] \in Nat /\ batch["fresh"][d][t] \in Nat
          /\ pending[d][t] \in Nat /\ counts[t] \in Nat
    BY <1>1 DEF IInv, TypeOK, Part
  <1>6. \A d \in Day, t \in Tenant :
          /\ R(d, t) \in Nat
          /\ R(d, t) >= batch["held"][d][t] /\ R(d, t) >= batch["fresh"][d][t]
          /\ R(d, t) = batch["held"][d][t] \/ R(d, t) = batch["fresh"][d][t]
    BY <1>5 DEF RowCount, Larger
  <1>7. /\ counts' = [t \in Tenant |-> Larger(counts[t], R(day, t))]
        /\ dirty' = dirty \cup {t \in Tenant : R(day, t) > 0}
        /\ pending' = [d \in Day |-> [t \in Tenant |->
                         IF d = day THEN pending[d][t] ELSE Larger(pending[d][t], R(d, t))]]
    BY <1>1 DEF UpsertFails, QuotaRestore, RestoredPending
  <1> HIDE DEF R
  <1>8. /\ counts' \in [Tenant -> Nat] /\ pending' \in [Day -> [Tenant -> Nat]]
        /\ \A t \in Tenant : /\ counts'[t] = counts[t] \/ counts'[t] = R(day, t)
                             /\ counts'[t] = counts[t] <=> R(day, t) <= counts[t]
        /\ \A d \in Day, t \in Tenant :
             \/ pending'[d][t] = pending[d][t] /\ (d # day => R(d, t) <= pending[d][t])
             \/ d # day /\ pending'[d][t] = R(d, t) /\ R(d, t) > pending[d][t]
    <2>1. \A a, b \in Nat : /\ Larger(a, b) \in Nat
                            /\ Larger(a, b) = a <=> b <= a
                            /\ Larger(a, b) = a \/ Larger(a, b) = b
                            /\ ~(b <= a) => Larger(a, b) = b /\ b > a
      BY DEF Larger
    <2>2. \A t \in Tenant : /\ counts'[t] = Larger(counts[t], R(day, t))
                            /\ counts[t] \in Nat /\ R(day, t) \in Nat
      BY <1>3, <1>5, <1>6, <1>7
    <2>3. \A d \in Day, t \in Tenant :
            /\ pending'[d][t] = IF d = day THEN pending[d][t] ELSE Larger(pending[d][t], R(d, t))
            /\ pending[d][t] \in Nat /\ R(d, t) \in Nat
      BY <1>5, <1>6, <1>7
    <2>4. counts' \in [Tenant -> Nat] /\ pending' \in [Day -> [Tenant -> Nat]]
      BY <1>5, <1>7, <2>1, <2>2, <2>3
    <2>5. \A t \in Tenant : /\ counts'[t] = counts[t] \/ counts'[t] = R(day, t)
                            /\ counts'[t] = counts[t] <=> R(day, t) <= counts[t]
      BY <2>1, <2>2
    <2>6. \A d \in Day, t \in Tenant :
             \/ pending'[d][t] = pending[d][t] /\ (d # day => R(d, t) <= pending[d][t])
             \/ d # day /\ pending'[d][t] = R(d, t) /\ R(d, t) > pending[d][t]
      BY <2>1, <2>3
    <2> QED
      BY <2>4, <2>5, <2>6
  <1>9. TypeOK'
    <2>1. dirty' \subseteq Tenant
      BY <1>1, <1>7 DEF IInv, TypeOK
    <2> QED
      BY <1>1, <1>2, <1>3, <1>4, <1>8, <2>1, EmptyFacts DEF IInv, TypeOK, JanitorState
  <1>10. Bounded'
    <2>1. SUFFICES ASSUME NEW t \in Tenant, NEW d \in Day
                   PROVE /\ counts'[t] <= Limit[t] /\ pending'[d][t] <= Limit[t]
                         /\ db'[d][t] <= Limit[t]
                         /\ batch'["held"][d][t] <= Limit[t] /\ batch'["fresh"][d][t] <= Limit[t]
      BY <1>3 DEF Bounded
    <2>2. \A c \in Day : R(c, t) <= Limit[t]
      BY <1>1, <1>6 DEF IInv, Bounded
    <2>3. counts[t] <= Limit[t] /\ pending[d][t] <= Limit[t] /\ db[d][t] <= Limit[t]
      BY <1>1 DEF IInv, Bounded
    <2>4. batch'["held"][d][t] = 0 /\ batch'["fresh"][d][t] = 0 /\ 0 <= Limit[t]
      BY <1>4, EmptyFacts, LimitFacts
    <2> QED
      BY <1>2, <1>3, <1>8, <2>2, <2>3, <2>4
  <1>11. NoFutureDays'
    <2>1. SUFFICES ASSUME NEW t \in Tenant, NEW d \in Day, d > today
                   PROVE  pending'[d][t] = 0 /\ batch'["held"][d][t] = 0 /\ batch'["fresh"][d][t] = 0
      BY <1>1, <1>2 DEF IInv, NoFutureDays
    <2>2. R(d, t) = 0 /\ pending[d][t] = 0
      BY <1>1, <1>6, <2>1 DEF IInv, NoFutureDays
    <2> QED
      BY <1>4, <1>8, <2>2, EmptyFacts
  <1>12. Control'
    BY <1>1, <1>2, <1>3, <1>4, DayFacts DEF IInv, Control
  <1>13. ~rolledBack => Faithful'
    <2>1. SUFFICES ASSUME ~rolledBack PROVE Faithful'
      OBVIOUS
    <2>2. KeptExact /\ RowsExact /\ TableCurrent
      BY <1>1, <2>1 DEF IInv, Faithful
    <2>3. \A d \in Day, t \in Metered :
            t \in Tenant /\ Kept(d, t)' = Kept(d, t) /\ Kept(d, t) \in Int
      BY <1>1, <1>2, LimitFacts DEF Kept, IInv, TypeOK
    <2>4. \A t \in Metered : counts'[t] = counts[t]
      <3>1. SUFFICES ASSUME NEW t \in Metered PROVE R(day, t) <= counts[t]
        <4>1. \A t \in Tenant : R(day, t) <= counts[t] => counts'[t] = counts[t]
          BY <1>8
        <4>2. \A t \in Metered : t \in Tenant
          BY LimitFacts
        <4> QED
          BY <4>1, <4>2
      <3>2. counts[t] = Kept(day, t)
        BY <1>3, <2>2, DayFacts DEF KeptExact
      <3>3. /\ batch["held"][day][t] > 0 => batch["held"][day][t] <= Kept(day, t)
            /\ batch["fresh"][day][t] > 0 => batch["fresh"][day][t] <= Kept(day, t)
        BY <1>3, <2>2 DEF RowsExact, Part
      <3> QED
        BY <1>3, <1>5, <1>6, <2>3, <3>2, <3>3
    <2>5. KeptExact'
      <3>1. janitor' # "off" /\ janitor # "off" /\ phase # "loading"
        BY <1>1, <1>3, <1>4 DEF IInv, Control
      <3> QED
        BY <1>2, <2>2, <2>4, <3>1 DEF KeptExact, Kept
    <2>6. ASSUME NEW t \in Metered, NEW d \in Day, pending'[d][t] > 0
          PROVE  d < day /\ pending'[d][t] = Kept(d, t)
      <3>1. /\ t \in Tenant /\ Kept(d, t) \in Int /\ d \in Nat
            /\ pending[d][t] > 0 => d < day /\ pending[d][t] = Kept(d, t)
            /\ batch["held"][d][t] > 0 => d < day
            /\ batch["fresh"][d][t] > 0 => d <= day
        BY <2>2, <2>3, DayFacts DEF RowsExact
      <3>2. /\ batch["held"][d][t] > 0 =>
                 /\ batch["held"][d][t] <= Kept(d, t)
                 /\ d < day => pending[d][t] = Kept(d, t) \/ batch["held"][d][t] = Kept(d, t)
            /\ batch["fresh"][d][t] > 0 =>
                 /\ batch["fresh"][d][t] <= Kept(d, t)
                 /\ d < day => pending[d][t] = Kept(d, t) \/ batch["fresh"][d][t] = Kept(d, t)
        BY <2>2 DEF RowsExact, Part
      <3>3. CASE pending'[d][t] = pending[d][t]
        BY <2>6, <3>1, <3>3
      <3>4. CASE d # day /\ pending'[d][t] = R(d, t) /\ R(d, t) > pending[d][t]
        <4>1. d < day
          BY <1>3, <1>5, <1>6, <2>6, <3>1, <3>4
        <4>2. R(d, t) <= Kept(d, t)
          BY <1>5, <1>6, <2>6, <3>1, <3>2, <3>4
        <4>3. R(d, t) = Kept(d, t) \/ pending[d][t] = Kept(d, t)
          BY <1>5, <1>6, <2>6, <3>1, <3>2, <3>4, <4>1
        <4> QED
          BY <1>5, <1>6, <3>1, <3>4, <4>1, <4>2, <4>3
      <3> QED
        BY <1>8, <3>1, <3>3, <3>4
    <2>7. RowsExact'
      <3>1. \A q \in Part, d \in Day, t \in Metered : batch'[q][d][t] = 0
        BY <1>4, <2>3, EmptyFacts DEF Part
      <3> QED
        BY <1>2, <2>3, <2>6, <3>1 DEF RowsExact, Part
    <2>8. TableCurrent'
      <3>1. ASSUME NEW t \in Metered, day = today, t \notin dirty'
            PROVE  db[day][t] >= counts[t]
        <4>1. t \in Tenant /\ t \notin dirty /\ ~(R(day, t) > 0)
          <5>1. t \in Tenant
            BY LimitFacts
          <5> QED
            BY <1>7, <3>1, <5>1
        <4>2. ~(batch["fresh"][day][t] > 0)
          BY <1>3, <1>5, <1>6, <4>1
        <4>3. <<"fresh", day, t>> \notin todo
          BY <1>1, <1>3, <4>1, <4>2 DEF IInv, Control, Part
        <4> QED
          BY <2>2, <3>1, <4>1, <4>3 DEF TableCurrent
      <3> QED
        BY <1>2, <1>4, <2>2, <2>3, <2>4, <3>1 DEF TableCurrent
    <2> QED
      BY <2>5, <2>7, <2>8 DEF Faithful
  <1> QED
    BY <1>2, <1>9, <1>10, <1>11, <1>12, <1>13 DEF IInv

-----------------------------------------------------------------------------
\* A request inside Admit, admitted or denied: the counters roll to the day it
\* read, and those of the set charged, which have room, grow by one.
LEMMA AdmitInv ==
  ASSUME NEW r \in Request, NEW checks \in SUBSET Tenant, NEW charged \in SUBSET Tenant,
         IInv, LeaveAdmit(r), day' = clock[r],
         charged = Limited(checks),
         counts' \in [Tenant -> Nat],
         \A t \in Tenant : counts'[t] = IF t \in charged THEN RolledCounts(clock[r])[t] + 1
                                        ELSE RolledCounts(clock[r])[t],
         \A t \in charged : RolledCounts(clock[r])[t] < Limit[t],
         dirty' = RolledDirty(clock[r]) \cup charged,
         pending' = RolledPending(clock[r]),
         used' \in [Day -> [Tenant -> Nat]],
         \A d \in Day, t \in Tenant :
            used'[d][t] = IF d = clock[r] /\ t \in checks THEN used[d][t] + 1 ELSE used[d][t]
  PROVE  IInv'
  <1>1. UNCHANGED <<today, phase, loadDay, boots, janitor, batch, todo, db, lost, loadFailed>>
    BY DEF LeaveAdmit, janitorVars
  <1>0. PICK D \in Day : D = clock[r]
    BY DEF LeaveAdmit, IInv, TypeOK
  <1>2. /\ day' = D /\ D \in Nat /\ day \in Nat /\ D <= today /\ today \in Nat
        /\ clock' = [clock EXCEPT ![r] = NoDay]
        /\ ~rolledBack' => ~rolledBack /\ day <= D
        /\ rolledBack' \in BOOLEAN /\ clock[r] # NoDay
    <2>1. /\ day' = D /\ D \in Nat /\ day \in Nat /\ D <= today /\ today \in Nat
      BY <1>0, DayFacts DEF IInv, TypeOK, NoFutureDays
    <2>2. clock' = [clock EXCEPT ![r] = NoDay] /\ clock[r] # NoDay
      BY DEF LeaveAdmit
    <2>3. rolledBack' = (rolledBack \/ D < day) /\ rolledBack \in BOOLEAN
      BY <1>0 DEF LeaveAdmit, IInv, TypeOK
    <2>4. D < day \/ day <= D
      BY <2>1
    <2> QED
      BY <2>1, <2>2, <2>3, <2>4
  <1>3. /\ phase \in Serving /\ janitor # "off"
    BY <1>2 DEF IInv, Control, Serving
  <1>4. \A d \in Day, t \in Tenant :
          /\ counts[t] \in Nat /\ pending[d][t] \in Nat
          /\ Limit[t] \in Nat /\ used[d][t] \in Nat /\ lost[d][t] \in Int
          /\ t \in charged <=> t \in checks /\ Limit[t] > 0
    BY LimitFacts DEF IInv, TypeOK, Limited
  <1>5. \A t \in Tenant :
          RolledCounts(D)[t] = IF D = day THEN counts[t] ELSE 0
    BY EmptyFacts DEF RolledCounts
  <1>13. /\ \A t \in Tenant : counts'[t] = (IF D = day THEN counts[t] ELSE 0)
                                          + (IF t \in charged THEN 1 ELSE 0)
         /\ \A t \in charged : (IF D = day THEN counts[t] ELSE 0) < Limit[t]
    <2>1. \A t \in charged : t \in Tenant
      OBVIOUS
    <2> QED
      BY <1>0, <1>4, <1>5, <2>1
  <1>6. /\ pending' \in [Day -> [Tenant -> Nat]]
        /\ \A d \in Day, t \in Tenant :
             pending'[d][t] = IF D # day /\ d = day /\ t \in dirty THEN counts[t]
                              ELSE pending[d][t]
    <2>1. CASE D = day
      BY <1>0, <1>2, <2>1 DEF RolledPending, IInv, TypeOK
    <2>2. CASE D # day
      BY <1>0, <1>2, <1>4, <2>2 DEF RolledPending
    <2> QED
      BY <2>1, <2>2
  <1>7. /\ dirty' \subseteq Tenant
        /\ \A t \in Tenant : t \in dirty' <=> (D = day /\ t \in dirty) \/ t \in charged
    BY <1>0, <1>2 DEF RolledDirty, IInv, TypeOK
  <1>8. TypeOK'
    BY <1>1, <1>2, <1>6, <1>7 DEF IInv, TypeOK
  <1>9. Bounded'
    <2>1. SUFFICES ASSUME NEW t \in Tenant
                   PROVE  counts'[t] <= Limit[t] /\ \A d \in Day : pending'[d][t] <= Limit[t]
      BY <1>1 DEF IInv, Bounded
    <2>2. counts[t] <= Limit[t] /\ \A d \in Day : pending[d][t] <= Limit[t]
      BY DEF IInv, Bounded
    <2>3. counts'[t] <= Limit[t]
      BY <1>2, <1>4, <1>13, <2>2
    <2> QED
      BY <1>6, <2>2, <2>3
  <1>10. NoFutureDays'
    <2>1. \A d \in Day, t \in Tenant : d > today => pending'[d][t] = 0
      <3>1. \A d \in Day : d > today => d # day
        BY <1>2, DayFacts DEF IInv, NoFutureDays
      <3> QED
        BY <1>6, <3>1 DEF IInv, NoFutureDays
    <2>2. \A q \in Request : clock'[q] <= today
      BY <1>2, DayFacts DEF IInv, NoFutureDays, TypeOK
    <2> QED
      BY <1>1, <1>2, <2>1, <2>2 DEF IInv, NoFutureDays
  <1>11. Control'
    BY <1>1, <1>2, <1>3, DayFacts DEF IInv, Control, Serving
  <1>12. ~rolledBack' => Faithful'
    <2>1. SUFFICES ASSUME ~rolledBack' PROVE Faithful'
      OBVIOUS
    <2>2. KeptExact /\ RowsExact /\ TableCurrent /\ day <= D
      BY <1>2, <2>1 DEF IInv, Faithful
    <2>3. \A d \in Day, t \in Metered :
            /\ t \in Tenant /\ Kept(d, t) \in Int
            /\ Kept(d, t)' = IF d = D /\ t \in charged THEN Kept(d, t) + 1 ELSE Kept(d, t)
      <3>1. SUFFICES ASSUME NEW d \in Day, NEW t \in Metered
                     PROVE  /\ t \in Tenant /\ Kept(d, t) \in Int
                            /\ Kept(d, t)' = IF d = D /\ t \in charged THEN Kept(d, t) + 1
                                             ELSE Kept(d, t)
        OBVIOUS
      <3>2. t \in Tenant /\ Limit[t] > 0
        BY LimitFacts
      <3>3. used'[d][t] = IF d = D /\ t \in charged THEN used[d][t] + 1 ELSE used[d][t]
        BY <1>0, <1>4, <3>2
      <3> QED
        BY <1>1, <1>4, <3>2, <3>3 DEF Kept
    <2>4. ASSUME NEW t \in Metered
          PROVE  (Kept(D, t) = IF D = day THEN counts[t] ELSE 0) /\ counts'[t] = Kept(D, t)'
      <3>2. Kept(D, t) = IF D = day THEN counts[t] ELSE 0
        BY <1>2, <1>3, <2>2, DayFacts DEF KeptExact
      <3>3. Kept(D, t)' = IF t \in charged THEN Kept(D, t) + 1 ELSE Kept(D, t)
        BY <1>2, <2>3
      <3>4. t \in Tenant
        BY LimitFacts
      <3> QED
        BY <1>2, <1>4, <1>13, <3>2, <3>3, <3>4
    <2>5. KeptExact'
      <3>1. SUFFICES ASSUME NEW t \in Metered
                     PROVE  /\ counts'[t] = Kept(D, t)'
                            /\ \A d \in Day : /\ Kept(d, t)' <= Limit[t]
                                              /\ d > D => Kept(d, t)' = 0
        BY <1>1, <1>2, <1>3, DayFacts DEF KeptExact, IInv, Control
      <3>2. t \in Tenant
        BY LimitFacts
      <3>3. counts'[t] <= Limit[t]
        BY <1>9, <3>2 DEF Bounded
      <3>4. ASSUME NEW d \in Day PROVE /\ Kept(d, t)' <= Limit[t]
                                       /\ d > D => Kept(d, t)' = 0
        <4>1. /\ Kept(d, t) <= Limit[t]
              /\ d > day => Kept(d, t) = 0
          BY <1>3, <2>2 DEF KeptExact
        <4>2. CASE d = D
          BY <1>2, <2>4, <3>3, <4>2
        <4>3. CASE d # D
          BY <1>2, <2>2, <2>3, <4>1, <4>3, DayFacts
        <4> QED
          BY <4>2, <4>3
      <3> QED
        BY <2>4, <3>4
    <2>6. ASSUME NEW t \in Metered, NEW d \in Day, pending'[d][t] > 0
          PROVE  d < D /\ pending'[d][t] = Kept(d, t)'
      <3>1. /\ t \in Tenant /\ d \in Nat
            /\ Kept(d, t)' = IF d = D /\ t \in charged THEN Kept(d, t) + 1 ELSE Kept(d, t)
        BY <2>3, DayFacts
      <3>2. /\ pending[d][t] > 0 => d < day /\ pending[d][t] = Kept(d, t)
            /\ d = day => counts[t] = Kept(d, t)
        BY <2>2, DayFacts DEF RowsExact, KeptExact
      <3> QED
        BY <1>2, <1>6, <2>2, <2>6, <3>1, <3>2
    <2>7. ASSUME NEW t \in Metered, NEW d \in Day
          PROVE  /\ batch["held"][d][t] > 0 => d < D
                 /\ batch["fresh"][d][t] > 0 => d <= D
                 /\ d = D /\ t \notin dirty' /\ batch["fresh"][d][t] > 0
                      => batch["fresh"][d][t] = counts'[t]
      <3>1. t \in Tenant /\ d \in Nat
        BY LimitFacts, DayFacts
      <3>2. /\ batch["held"][d][t] > 0 => d < day
            /\ batch["fresh"][d][t] > 0 => d <= day
            /\ d = day /\ t \notin dirty /\ batch["fresh"][d][t] > 0
                 => batch["fresh"][d][t] = counts[t]
        BY <2>2 DEF RowsExact
      <3>3. /\ batch["held"][d][t] > 0 => d < D
            /\ batch["fresh"][d][t] > 0 => d <= D
        BY <1>2, <2>2, <3>1, <3>2
      <3>4. ASSUME d = D, t \notin dirty', batch["fresh"][d][t] > 0
            PROVE  batch["fresh"][d][t] = counts'[t]
        <4>1. D = day
          <5>1. D \in Nat /\ day \in Nat
            BY <1>2
          <5>2. day <= D
            BY <2>2
          <5>3. D <= day
            BY <3>2, <3>4
          <5> QED
            BY <5>1, <5>2, <5>3, Antisymmetric
        <4>2. t \notin dirty /\ t \notin charged
          BY <1>7, <3>1, <3>4, <4>1
        <4>3. counts'[t] = counts[t]
          BY <1>4, <1>13, <3>1, <4>1, <4>2
        <4> QED
          BY <3>2, <3>4, <4>1, <4>2, <4>3
      <3> QED
        BY <3>3, <3>4
    <2>8. ASSUME NEW t \in Metered, NEW d \in Day, NEW q \in Part, batch[q][d][t] > 0
          PROVE  /\ batch[q][d][t] <= Kept(d, t)'
                 /\ d < D => pending'[d][t] = Kept(d, t)' \/ batch[q][d][t] = Kept(d, t)'
      <3>1. /\ t \in Tenant /\ d \in Nat /\ batch[q][d][t] \in Nat /\ Kept(d, t) \in Int
            /\ Kept(d, t)' = IF d = D /\ t \in charged THEN Kept(d, t) + 1 ELSE Kept(d, t)
        BY <2>3, DayFacts DEF IInv, TypeOK
      <3>2. /\ batch[q][d][t] <= Kept(d, t)
            /\ d < day => pending[d][t] = Kept(d, t) \/ batch[q][d][t] = Kept(d, t)
        BY <2>2, <2>8 DEF RowsExact
      <3>3. batch[q][d][t] <= Kept(d, t)'
        BY <3>1, <3>2
      <3>4. ASSUME d < D
            PROVE  pending'[d][t] = Kept(d, t)' \/ batch[q][d][t] = Kept(d, t)'
        <4>1. Kept(d, t)' = Kept(d, t)
          BY <3>1, <3>4, <1>2
        <4>2. CASE d < day
          BY <1>2, <1>6, <3>1, <3>2, <4>1, <4>2
        <4>3. CASE d = day
          <5>1. counts[t] = Kept(d, t)
            BY <2>2, <4>3, DayFacts DEF KeptExact
          <5>2. t \notin dirty => batch[q][d][t] = counts[t]
            <6>1. batch["held"][d][t] > 0 => d < day
              BY <2>2 DEF RowsExact
            <6>2. q = "fresh"
              BY <1>2, <2>8, <4>3, <6>1 DEF Part
            <6> QED
              BY <2>2, <2>8, <4>3, <6>2 DEF RowsExact
          <5>3. t \in dirty => pending'[d][t] = counts[t]
            BY <1>2, <1>6, <3>1, <3>4, <4>3
          <5> QED
            BY <4>1, <5>1, <5>2, <5>3
        <4>4. CASE d > day
          <5>1. batch["held"][d][t] > 0 => d < day
            BY <2>2 DEF RowsExact
          <5>2. batch["fresh"][d][t] > 0 => d <= day
            BY <2>2 DEF RowsExact
          <5> QED
            BY <1>2, <2>8, <3>1, <4>4, <5>1, <5>2 DEF Part
        <4>5. d < day \/ d = day \/ d > day
          <5>1. d \in Nat /\ day \in Nat
            BY <1>2, <3>1
          <5> QED
            BY <5>1
        <4> QED
          BY <4>2, <4>3, <4>4, <4>5
      <3> QED
        BY <3>3, <3>4
    <2>9. RowsExact'
      BY <1>1, <1>2, <2>6, <2>7, <2>8 DEF RowsExact
    <2>10. ASSUME NEW t \in Metered, D = today, t \notin dirty', <<"fresh", D, t>> \notin todo
           PROVE  db[D][t] >= counts'[t]
      <3>1. t \in Tenant /\ t \notin charged /\ db[D][t] \in Nat
        BY <1>7, <2>10, LimitFacts DEF IInv, TypeOK
      <3>2. CASE D = day
        BY <1>2, <1>4, <1>7, <1>13, <2>2, <2>10, <3>1, <3>2 DEF TableCurrent
      <3>3. CASE D # day
        BY <1>13, <3>1, <3>3
      <3> QED
        BY <3>2, <3>3
    <2>11. ASSUME NEW t \in Metered, ~loadFailed, NEW d \in Day
           PROVE  /\ db[d][t] <= Kept(d, t)'
                  /\ d >= today /\ <<"fresh", d, t>> \in todo => db[d][t] <= batch["fresh"][d][t]
      <3>1. /\ db[d][t] <= Kept(d, t)
            /\ d >= today /\ <<"fresh", d, t>> \in todo => db[d][t] <= batch["fresh"][d][t]
        BY <2>2, <2>11 DEF TableCurrent
      <3>2. /\ db[d][t] \in Nat /\ Kept(d, t) \in Int
            /\ Kept(d, t)' = IF d = D /\ t \in charged THEN Kept(d, t) + 1 ELSE Kept(d, t)
        BY <2>3, LimitFacts DEF IInv, TypeOK
      <3> QED
        BY <3>1, <3>2
    <2>12. TableCurrent'
      BY <1>1, <1>2, <2>10, <2>11 DEF TableCurrent
    <2> QED
      BY <2>5, <2>9, <2>12 DEF Faithful
  <1> QED
    BY <1>1, <1>2, <1>8, <1>9, <1>10, <1>11, <1>12 DEF IInv

LEMMA AdmitPushInv ==
  ASSUME NEW r \in Request, NEW checks \in Checks
  PROVE  IInv /\ AdmitPush(r, checks) => IInv'
  <1>1. SUFFICES ASSUME IInv, AdmitPush(r, checks) PROVE IInv'
    OBVIOUS
  <1> DEFINE charged == Limited(checks)
  <1>2. checks \in SUBSET Tenant /\ charged \in SUBSET Tenant
    BY StoreAssumption DEF Limited
  <1>3. clock[r] \in Day
    BY <1>1 DEF AdmitPush, LeaveAdmit, IInv, TypeOK
  <1>4. \A t \in Tenant : RolledCounts(clock[r])[t] \in Nat
    BY <1>1, EmptyFacts DEF RolledCounts, IInv, TypeOK
  <1>5. /\ counts' \in [Tenant -> Nat]
        /\ \A t \in Tenant : counts'[t] = IF t \in charged THEN RolledCounts(clock[r])[t] + 1
                                          ELSE RolledCounts(clock[r])[t]
    BY <1>1, <1>4 DEF AdmitPush, QuotaAdmit
  <1>6. /\ used' \in [Day -> [Tenant -> Nat]]
        /\ \A d \in Day, t \in Tenant :
             used'[d][t] = IF d = clock[r] /\ t \in checks THEN used[d][t] + 1 ELSE used[d][t]
    BY <1>1, <1>3 DEF AdmitPush, IInv, TypeOK
  <1>7. /\ LeaveAdmit(r) /\ day' = clock[r]
        /\ \A t \in charged : RolledCounts(clock[r])[t] < Limit[t]
        /\ dirty' = RolledDirty(clock[r]) \cup charged /\ pending' = RolledPending(clock[r])
    BY <1>1 DEF AdmitPush, QuotaAdmit
  <1> HIDE DEF charged
  <1>8. charged = Limited(checks)
    BY DEF charged
  <1> QED
    BY <1>1, <1>2, <1>5, <1>6, <1>7, <1>8, AdmitInv

LEMMA DenyPushInv ==
  ASSUME NEW r \in Request, NEW checks \in Checks
  PROVE  IInv /\ DenyPush(r, checks) => IInv'
  <1>1. SUFFICES ASSUME IInv, DenyPush(r, checks) PROVE IInv'
    OBVIOUS
  <1>2. {} = Limited({}) /\ {} \in SUBSET Tenant
    BY DEF Limited
  <1>3. counts' \in [Tenant -> Nat] /\ \A t \in Tenant : counts'[t] = RolledCounts(clock[r])[t]
    BY <1>1, EmptyFacts DEF DenyPush, QuotaDeny, RolledCounts, IInv, TypeOK
  <1>4. used' \in [Day -> [Tenant -> Nat]] /\ used' = used
    BY <1>1 DEF DenyPush, IInv, TypeOK
  <1>5. /\ LeaveAdmit(r) /\ day' = clock[r]
        /\ dirty' = RolledDirty(clock[r]) \cup {} /\ pending' = RolledPending(clock[r])
    BY <1>1 DEF DenyPush, QuotaDeny
  <1>6. /\ \A t \in Tenant : counts'[t] = IF t \in {} THEN RolledCounts(clock[r])[t] + 1
                                          ELSE RolledCounts(clock[r])[t]
        /\ \A t \in {} : RolledCounts(clock[r])[t] < Limit[t]
        /\ \A d \in Day, t \in Tenant :
             used'[d][t] = IF d = clock[r] /\ t \in {} THEN used[d][t] + 1 ELSE used[d][t]
    BY <1>3, <1>4
  <1> QED
    BY <1>1, <1>2, <1>3, <1>4, <1>5, <1>6, AdmitInv

-----------------------------------------------------------------------------
\* IInv is preserved by every step of the specification.
LEMMA NextInv == IInv /\ [Next]_vars => IInv'
  <1>1. SUFFICES ASSUME IInv, [Next]_vars PROVE IInv'
    OBVIOUS
  <1>2. CASE UNCHANGED vars
    BY <1>1, <1>2 DEF vars, quotaVars, procVars, janitorVars, history, IInv, TypeOK, Bounded,
       NoFutureDays, Control, Faithful, KeptExact, RowsExact, TableCurrent, Kept
  <1>3. CASE Midnight
    BY <1>1, <1>3, MidnightInv
  <1>4. ASSUME NEW r \in Request, RequestStep(r) PROVE IInv'
    BY <1>1, <1>4, ReadClockInv, AdmitPushInv, DenyPushInv DEF RequestStep
  <1>5. CASE JanitorStep
    <2>1. CASE FlushTick
      BY <1>1, <2>1, TakeSnapshotInv DEF FlushTick
    <2>2. CASE FinalFlush
      BY <1>1, <2>2, TakeSnapshotInv DEF FinalFlush
    <2>3. CASE UpsertFails
      BY <1>1, <2>3, UpsertFailsInv
    <2>4. CASE Cleanup
      BY <1>1, <2>4, CleanupInv
    <2>5. ASSUME NEW k \in Part \X Day \X Tenant, Upsert(k) PROVE IInv'
      BY <1>1, <2>5, UpsertInv
    <2> QED
      BY <1>5, <2>1, <2>2, <2>3, <2>4, <2>5 DEF JanitorStep
  <1>6. CASE ServeStep
    <2>1. CASE Start
      BY <1>1, <2>1, StartInv
    <2>2. CASE LoadSucceeds \/ LoadFails
      BY <1>1, <2>2, LoadSucceedsInv, LoadFailsInv
    <2>3. CASE Listen \/ Shutdown \/ DrainTimeout
      BY <1>1, <2>3, MovesToInv DEF Listen, Shutdown, DrainTimeout
    <2>4. CASE ListenFails
      <3>1. \A r \in Request : clock[r] = NoDay
        BY <1>1, <2>4 DEF ListenFails, MovesTo, IInv, Control, Serving
      <3> QED
        BY <1>1, <2>4, <3>1, MovesToInv DEF ListenFails
    <2>5. CASE Drained
      BY <1>1, <2>5, MovesToInv DEF Drained
    <2>6. CASE Exit
      BY <1>1, <2>6, ProcessEndsInv DEF Exit
    <2> QED
      BY <1>6, <2>1, <2>2, <2>3, <2>4, <2>5, <2>6 DEF ServeStep
  <1>7. CASE Crash
    BY <1>1, <1>7, ProcessEndsInv DEF Crash
  <1> QED
    BY <1>1, <1>2, <1>3, <1>4, <1>5, <1>6, <1>7 DEF Next

\* The inductive invariant holds throughout.
THEOREM InductiveInvariant == Spec => []IInv
  BY InitInv, NextInv, PTL DEF Spec

-----------------------------------------------------------------------------
\* Every variable stays in its type.
THEOREM TypeCorrect == Spec => []TypeOK
  <1>1. IInv => TypeOK
    BY DEF IInv
  <1> QED
    BY <1>1, InductiveInvariant, PTL

\* No counter exceeds its limit, in memory, in a flush or in the table: also
\* after a rollback of the day, a failed load or a crash (Quota.Admit).
THEOREM CountersBounded == Spec => []NoCounterAboveLimit
  <1>1. IInv => NoCounterAboveLimit
    <2>1. SUFFICES ASSUME IInv, NEW t \in Tenant
                   PROVE  /\ counts[t] <= Limit[t]
                          /\ \A d \in Day : /\ pending[d][t] <= Limit[t] /\ db[d][t] <= Limit[t]
                                            /\ RowCount(batch, d, t) <= Limit[t]
      BY DEF NoCounterAboveLimit
    <2> QED
      BY <2>1 DEF IInv, Bounded, RowCount, Larger
  <1> QED
    BY <1>1, InductiveInvariant, PTL

\* The daily quota is enforced across flushes, failures and restarts, unless
\* an Admit has rolled the counters back to an earlier day (Quota.Admit).
THEOREM QuotaIsEnforced == Spec => []QuotaEnforced
  <1>1. IInv => QuotaEnforced
    BY DEF IInv, Faithful, KeptExact, QuotaEnforced
  <1> QED
    BY <1>1, InductiveInvariant, PTL

\* The counts in memory are exact (Quota.Admit, Restore, Load).
THEOREM CountsAreExact == Spec => []CountsExact
  <1>1. IInv => CountsExact
    BY DEF IInv, Faithful, KeptExact, CountsExact
  <1> QED
    BY <1>1, InductiveInvariant, PTL

\* Counts set aside over a rollover are final (rollLocked, Restore).
THEOREM HeldRowsAreFinal == Spec => []HeldRowsFinal
  <1>1. IInv => HeldRowsFinal
    BY DEF IInv, Faithful, RowsExact, HeldRowsFinal
  <1> QED
    BY <1>1, InductiveInvariant, PTL

\* A count of today that is neither dirty nor a row still to be written is in
\* the table (Snapshot, Flush, Restore).
THEOREM NothingIsForgotten == Spec => []NothingForgotten
  <1>1. IInv => NothingForgotten
    BY DEF IInv, Faithful, TableCurrent, NothingForgotten
  <1> QED
    BY <1>1, InductiveInvariant, PTL

\* The table is never ahead of the memory while loads succeed (QuotaStore).
THEOREM MemoryIsAuthoritative == Spec => []MemoryAuthoritative
  <1>1. IInv => MemoryAuthoritative
    <2>1. SUFFICES ASSUME IInv, ~rolledBack, ~loadFailed, NEW t \in Metered, day # NoDay
                   PROVE  db[day][t] <= counts[t]
      BY DEF MemoryAuthoritative
    <2>2. day \in Day /\ counts[t] = Kept(day, t)
      BY <2>1 DEF IInv, TypeOK, Faithful, KeptExact
    <2> QED
      BY <2>1, <2>2 DEF IInv, Faithful, TableCurrent
  <1> QED
    BY <1>1, InductiveInvariant, PTL

\* A drained shutdown whose final flush succeeds leaves every count of the day
\* in the table (runServe).
THEOREM GracefulShutdown == Spec => []GracefulShutdownSavesAll
  <1>1. IInv => GracefulShutdownSavesAll
    <2>1. SUFFICES ASSUME IInv, ~rolledBack, phase = "closing", janitor = "saved"
                   PROVE  /\ dirty = {} /\ pending = NoRows
                          /\ day = today => \A t \in Metered : db[day][t] >= counts[t]
      BY DEF GracefulShutdownSavesAll
    <2>2. dirty = {} /\ pending = NoRows /\ todo = {}
      BY <2>1 DEF IInv, Control
    <2> QED
      BY <2>1, <2>2 DEF IInv, Faithful, TableCurrent
  <1> QED
    BY <1>1, InductiveInvariant, PTL

\* No flush, retry or late write lowers a saved count of today (Flush, Restore).
THEOREM BackupIsMonotonic == Spec => BackupNeverRegresses
  <1> DEFINE Mono == ~rolledBack /\ ~loadFailed =>
                       \A d \in Day, t \in Metered : d >= today => db'[d][t] >= db[d][t]
  <1>1. ASSUME IInv, [Next]_vars PROVE Mono
    <2>1. SUFFICES ASSUME ~rolledBack, ~loadFailed, NEW d \in Day, NEW t \in Metered, d >= today
                   PROVE  db'[d][t] >= db[d][t]
      OBVIOUS
    <2>2. t \in Tenant /\ db[d][t] \in Nat /\ today \in Nat /\ d \in Nat
      BY <1>1, LimitFacts, DayFacts DEF IInv, TypeOK
    <2>3. CASE db' = db
      BY <2>2, <2>3
    <2>4. CASE Cleanup
      BY <2>1, <2>2, <2>4 DEF Cleanup
    <2>5. ASSUME NEW k \in Part \X Day \X Tenant, Upsert(k) PROVE db'[d][t] >= db[d][t]
      <3>1. PICK p \in Part, e \in Day, u \in Tenant : k = <<p, e, u>>
        OBVIOUS
      <3>2. <<p, e, u>> \in todo /\ batch[p][e][u] > 0
        BY <1>1, <2>5, <3>1 DEF Upsert, IInv, Control
      <3>3. db'[d][t] = IF d = e /\ t = u THEN batch[p][e][u] ELSE db[d][t]
        BY <1>1, <2>2, <2>5, <3>1 DEF Upsert, IInv, TypeOK
      <3>4. CASE d = e /\ t = u
        <4>1. p = "fresh"
          <5>1. batch["held"][d][t] > 0 => d < day
            BY <1>1, <2>1 DEF IInv, Faithful, RowsExact
          <5>2. day <= today /\ day \in Nat
            BY <1>1, DayFacts DEF IInv, TypeOK, NoFutureDays
          <5>3. p = "held" => FALSE
            BY <2>1, <2>2, <3>2, <3>4, <5>1, <5>2
          <5> QED
            BY <5>3 DEF Part
        <4>2. db[d][t] <= batch["fresh"][d][t]
          BY <1>1, <2>1, <3>2, <3>4, <4>1 DEF IInv, Faithful, TableCurrent
        <4>3. batch["fresh"][d][t] \in Nat
          BY <1>1, <2>2 DEF IInv, TypeOK, Part
        <4> QED
          BY <2>2, <3>3, <3>4, <4>1, <4>2, <4>3
      <3>5. CASE ~(d = e /\ t = u)
        BY <2>2, <3>3, <3>5
      <3> QED
        BY <3>4, <3>5
    <2>6. db' = db \/ Cleanup \/ \E k \in Part \X Day \X Tenant : Upsert(k)
      BY <1>1 DEF Next, vars, RequestStep, JanitorStep, ServeStep, Midnight, ReadClock, AdmitPush,
         DenyPush, LeaveAdmit, FlushTick, FinalFlush, TakeSnapshot, UpsertFails, Start,
         LoadSucceeds, LoadFails, StartJanitor, Listen, ListenFails, Shutdown, Drained,
         DrainTimeout, MovesTo, Exit, Crash, ProcessEnds
    <2> QED
      BY <2>3, <2>4, <2>5, <2>6
  <1>2. IInv /\ [Next]_vars => [Mono]_vars
    BY <1>1
  <1> QED
    BY <1>2, InductiveInvariant, PTL DEF Spec, BackupNeverRegresses

\* The end of the process loses nothing of today that a flush had written and
\* no request changed since (Snapshot, Flush, Restore).
THEOREM LossIsUnflushed == Spec => OnlyUnflushedLost
  <1> DEFINE Loss == ~rolledBack /\ phase # "down" /\ phase' = "down" =>
                       \A t \in Metered :
                         day = today /\ lost'[day][t] > lost[day][t]
                           => t \in dirty \/ <<"fresh", day, t>> \in todo
  <1>1. ASSUME IInv, [Next]_vars PROVE Loss
    <2>1. SUFFICES ASSUME ~rolledBack, phase # "down", phase' = "down", NEW t \in Metered,
                          day = today, t \notin dirty, <<"fresh", day, t>> \notin todo
                   PROVE  ~(lost'[day][t] > lost[day][t])
      OBVIOUS
    <2>2. ProcessEnds
      BY <1>1, <2>1 DEF Next, vars, procVars, RequestStep, JanitorStep, ServeStep, Midnight, ReadClock,
         AdmitPush, DenyPush, LeaveAdmit, FlushTick, FinalFlush, TakeSnapshot, Upsert, UpsertFails,
         Cleanup, Start, LoadSucceeds, LoadFails, StartJanitor, Listen, ListenFails, Shutdown,
         Drained, DrainTimeout, MovesTo, Exit, Crash
    <2>3. /\ t \in Tenant /\ day \in Day /\ db[day][t] \in Nat /\ counts[t] \in Nat
          /\ used[day][t] \in Nat /\ lost[day][t] \in Int
      BY <1>1, <2>1, LimitFacts DEF IInv, TypeOK
    <2>4. db[day][t] >= counts[t] /\ counts[t] = used[day][t] - lost[day][t]
      BY <1>1, <2>1, <2>3, DayFacts DEF IInv, Faithful, TableCurrent, KeptExact, Kept
    <2>5. lost'[day][t] = used[day][t] - db[day][t]
      BY <2>2, <2>3 DEF ProcessEnds
    <2> QED
      BY <2>3, <2>4, <2>5
  <1>2. IInv /\ [Next]_vars => [Loss]_vars
    BY <1>1
  <1> QED
    BY <1>2, InductiveInvariant, PTL DEF Spec, OnlyUnflushedLost

-----------------------------------------------------------------------------
\* QuotaStore implements Meter.

\* What the mapping makes of the pushes kept and of the table.
KeptRows  == [d \in Day |-> [t \in Metered |-> Kept(d, t)]]
SavedRows == [d \in Day |-> [t \in Metered |-> db[d][t]]]

LEMMA Mapping ==
    /\ Metering!states = <<today, KeptRows, SavedRows>>
    /\ Metering!NextDay <=>
          today' \in Day /\ today' > today /\ KeptRows' = KeptRows /\ SavedRows' = SavedRows
    /\ Metering!Forget <=> KeptRows' = SavedRows /\ today' = today /\ SavedRows' = SavedRows
    /\ Metering!Save <=>
          /\ SavedRows' \in [Day -> [Metered -> Nat]]
          /\ \A d \in Day, t \in Metered :
                /\ SavedRows'[d][t] <= KeptRows[d][t]
                /\ d >= today => SavedRows[d][t] <= SavedRows'[d][t]
          /\ today' = today /\ KeptRows' = KeptRows
  BY DEF Metering!states, Metering!NextDay, Metering!Forget, Metering!Save, KeptRows, SavedRows

LEMMA CountIs ==
    ASSUME NEW d \in Day, NEW tenants \in SUBSET Metered
    PROVE  Metering!Count(d, tenants) <=>
               /\ d <= today
               /\ \A t \in tenants : KeptRows[d][t] < Limit[t]
               /\ KeptRows' = [KeptRows EXCEPT ![d] =
                     [t \in Metered |-> IF t \in tenants THEN KeptRows[d][t] + 1 ELSE KeptRows[d][t]]]
               /\ today' = today /\ SavedRows' = SavedRows
  BY DEF Metering!Count, KeptRows, SavedRows

\* What a clear run has been, it was before.
LEMMA ClearBefore == ASSUME IInv, [Next]_vars, Clear' PROVE Clear
  <1>1. rolledBack \in BOOLEAN /\ loadFailed \in BOOLEAN
    BY DEF IInv, TypeOK
  <1>2. (rolledBack => rolledBack') /\ (loadFailed => loadFailed')
    BY <1>1 DEF Next, vars, history, RequestStep, JanitorStep, ServeStep, Midnight, ReadClock, AdmitPush,
       DenyPush, LeaveAdmit, FlushTick, FinalFlush, TakeSnapshot, Upsert, UpsertFails, Cleanup, Start,
       LoadSucceeds, LoadFails, StartJanitor, Listen, ListenFails, Shutdown, Drained,
       DrainTimeout, MovesTo, Exit, Crash, ProcessEnds
  <1> QED
    BY <1>2 DEF Clear

\* Steps that change neither what is kept nor what is saved.
LEMMA Unseen ==
    ASSUME UNCHANGED <<today, used, lost, db>> PROVE UNCHANGED Metering!states
  BY DEF Metering!states, Kept

LEMMA MidnightIsNextDay == ASSUME IInv, Midnight PROVE Metering!NextDay
  <1>1. today' \in Day /\ today' > today
    BY QuotaAssumption DEF Midnight, IInv, TypeOK, Day
  <1>2. KeptRows' = KeptRows /\ SavedRows' = SavedRows
    BY DEF Midnight, history, KeptRows, SavedRows, Kept
  <1> QED
    BY <1>1, <1>2, Mapping

\* A push that is let in has room on its own day, which the counters have reached or
\* are rolled to.
LEMMA AdmitIsCount ==
    ASSUME IInv, NEW r \in Request, NEW checks \in Checks, AdmitPush(r, checks), Clear, Clear'
    PROVE  Metering!Count(clock[r], Limited(checks)) /\ clock[r] \in Day
  <1> DEFINE d == clock[r]
  <1>1. /\ d \in Day /\ d <= today /\ today' = today /\ db' = db /\ lost' = lost
        /\ day \in Day \cup {NoDay} /\ janitor # "off"
        /\ used \in [Day -> [Tenant -> Nat]] /\ lost \in [Day -> [Tenant -> Int]]
    BY DEF AdmitPush, LeaveAdmit, IInv, TypeOK, NoFutureDays, Control, Serving
  <1>2. day <= d /\ day \in Nat /\ d \in Nat
    <2>1. day \in Nat /\ d \in Nat
      BY <1>1, DayFacts
    <2>2. ~(d < day)
      BY DEF AdmitPush, LeaveAdmit, Clear
    <2> QED
      BY <2>1, <2>2
  <1>3. checks \subseteq Tenant /\ Limited(checks) \in SUBSET Metered
        /\ \A t \in Metered : t \in checks <=> t \in Limited(checks)
    BY StoreAssumption DEF Limited, Metered
  <1>4. Metered \subseteq Tenant
    BY LimitFacts
  <1>5. ASSUME NEW t \in Limited(checks) PROVE Kept(d, t) < Limit[t]
    <2>1. t \in Metered /\ t \in Tenant /\ RolledCounts(d)[t] < Limit[t]
      BY <1>3, <1>4 DEF AdmitPush, QuotaAdmit
    <2>2. CASE d = day
      <3>1. counts[t] = Kept(day, t)
        BY <1>1, <2>1, <2>2, DayFacts DEF Clear, IInv, Faithful, KeptExact
      <3> QED
        BY <2>1, <2>2, <3>1 DEF RolledCounts
    <2>3. CASE d # day
      <3>1. d > day /\ Kept(d, t) = 0
        <4>1. d > day
          BY <1>2, <2>3
        <4>2. KeptExact
          BY DEF Clear, IInv, Faithful
        <4> QED
          BY <1>1, <2>1, <4>1, <4>2 DEF KeptExact
      <3> QED
        BY <2>1, <2>3, <3>1, EmptyFacts DEF RolledCounts
    <2> QED
      BY <2>2, <2>3
  <1>6. \A e \in Day, t \in Metered :
           Kept(e, t)' = IF e = d /\ t \in Limited(checks) THEN Kept(e, t) + 1 ELSE Kept(e, t)
    <2> SUFFICES ASSUME NEW e \in Day, NEW t \in Metered
                 PROVE  Kept(e, t)' = IF e = d /\ t \in Limited(checks)
                                      THEN Kept(e, t) + 1 ELSE Kept(e, t)
      OBVIOUS
    <2>1. used'[e][t] = IF e = d /\ t \in checks THEN used[e][t] + 1 ELSE used[e][t]
      BY <1>1, <1>4 DEF AdmitPush
    <2>2. used[e][t] \in Nat /\ lost[e][t] \in Int
      BY <1>1, <1>4
    <2> QED
      BY <1>1, <1>3, <2>1, <2>2 DEF Kept
  <1>7. KeptRows' = [KeptRows EXCEPT ![d] =
            [t \in Metered |-> IF t \in Limited(checks) THEN KeptRows[d][t] + 1 ELSE KeptRows[d][t]]]
    BY <1>1, <1>6 DEF KeptRows
  <1>8. \A t \in Limited(checks) : KeptRows[d][t] < Limit[t]
    BY <1>1, <1>3, <1>5 DEF KeptRows
  <1>9. SavedRows' = SavedRows
    BY <1>1 DEF SavedRows
  <1> QED
    BY <1>1, <1>3, <1>7, <1>8, <1>9, CountIs

\* A write of the table saves what is kept.
LEMMA WriteIsSave ==
    ASSUME IInv, IInv', Clear, UNCHANGED <<today, used, lost>>,
           \A d \in Day, t \in Metered : db'[d][t] <= Kept(d, t) /\ (d >= today => db[d][t] <= db'[d][t])
    PROVE  Metering!Save
  <1>1. Metered \subseteq Tenant
    BY LimitFacts
  <1>2. SavedRows' \in [Day -> [Metered -> Nat]] /\ KeptRows' = KeptRows
    BY <1>1 DEF IInv, TypeOK, SavedRows, KeptRows, Kept
  <1>3. \A d \in Day, t \in Metered :
           SavedRows'[d][t] = db'[d][t] /\ SavedRows[d][t] = db[d][t] /\ KeptRows[d][t] = Kept(d, t)
    BY DEF SavedRows, KeptRows
  <1> QED
    BY <1>2, <1>3, Mapping

LEMMA UpsertIsSave ==
    ASSUME IInv, IInv', Clear, NEW k \in Part \X Day \X Tenant, Upsert(k) PROVE Metering!Save
  <1>1. PICK p \in Part, e \in Day, u \in Tenant : k = <<p, e, u>>
    OBVIOUS
  <1>2. <<p, e, u>> \in todo /\ batch[p][e][u] > 0
    BY <1>1 DEF Upsert, IInv, Control
  <1>3. ASSUME NEW d \in Day, NEW t \in Metered
        PROVE  db'[d][t] <= Kept(d, t) /\ (d >= today => db[d][t] <= db'[d][t])
    <2>1. t \in Tenant /\ db[d][t] \in Nat /\ today \in Nat /\ d \in Nat /\ db[d][t] <= Kept(d, t)
      <3>1. t \in Tenant /\ db[d][t] \in Nat /\ today \in Nat /\ d \in Nat
        BY LimitFacts, DayFacts DEF IInv, TypeOK
      <3>2. TableCurrent /\ ~loadFailed
        BY DEF Clear, IInv, Faithful
      <3> QED
        BY <3>1, <3>2 DEF TableCurrent
    <2>2. db'[d][t] = IF d = e /\ t = u THEN batch[p][e][u] ELSE db[d][t]
      BY <1>1, <2>1 DEF Upsert, IInv, TypeOK
    <2>3. CASE d = e /\ t = u
      <3>1. batch[p][d][t] <= Kept(d, t)
        BY <1>2, <2>3 DEF Clear, IInv, Faithful, RowsExact
      <3>2. ASSUME d >= today PROVE p = "fresh"
        <4>1. batch["held"][d][t] > 0 => d < day
          BY DEF Clear, IInv, Faithful, RowsExact
        <4>2. day <= today /\ day \in Nat
          BY DayFacts DEF IInv, TypeOK, NoFutureDays
        <4>3. p = "held" => FALSE
          BY <1>2, <2>1, <2>3, <3>2, <4>1, <4>2
        <4> QED
          BY <4>3 DEF Part
      <3>3. d >= today => db[d][t] <= batch[p][d][t]
        BY <1>2, <2>3, <3>2 DEF Clear, IInv, Faithful, TableCurrent
      <3> QED
        BY <2>2, <2>3, <3>1, <3>3
    <2>4. CASE ~(d = e /\ t = u)
      BY <2>1, <2>2, <2>4
    <2> QED
      BY <2>3, <2>4
  <1>4. UNCHANGED <<today, used, lost>>
    BY DEF Upsert, procVars, history
  <1> QED
    BY <1>3, <1>4, WriteIsSave

LEMMA CleanupIsSave == ASSUME IInv, IInv', Clear, Cleanup PROVE Metering!Save
  <1>1. ASSUME NEW d \in Day, NEW t \in Metered
        PROVE  db'[d][t] <= Kept(d, t) /\ (d >= today => db[d][t] <= db'[d][t])
    <2>1. t \in Tenant /\ db[d][t] \in Nat /\ today \in Nat /\ d \in Nat /\ db[d][t] <= Kept(d, t)
      <3>1. t \in Tenant /\ db[d][t] \in Nat /\ today \in Nat /\ d \in Nat
        BY LimitFacts, DayFacts DEF IInv, TypeOK
      <3>2. TableCurrent /\ ~loadFailed
        BY DEF Clear, IInv, Faithful
      <3> QED
        BY <3>1, <3>2 DEF TableCurrent
    <2>2. db'[d][t] = IF d < today THEN 0 ELSE db[d][t]
      BY <2>1, EmptyFacts DEF Cleanup
    <2>3. Kept(d, t) \in Int
      BY <2>1 DEF IInv, TypeOK, Kept
    <2> QED
      BY <2>1, <2>2, <2>3
  <1>2. UNCHANGED <<today, used, lost>>
    BY DEF Cleanup, procVars, history
  <1> QED
    BY <1>1, <1>2, WriteIsSave

LEMMA EndIsForget == ASSUME IInv, ProcessEnds PROVE Metering!Forget
  <1>1. ASSUME NEW d \in Day, NEW t \in Metered PROVE Kept(d, t)' = db[d][t]
    <2>1. t \in Tenant /\ db[d][t] \in Nat /\ used[d][t] \in Nat
      BY LimitFacts DEF IInv, TypeOK
    <2>2. used'[d][t] = used[d][t] /\ lost'[d][t] = used[d][t] - db[d][t]
      BY <2>1 DEF ProcessEnds
    <2> QED
      BY <2>1, <2>2 DEF Kept
  <1>2. KeptRows' = SavedRows
    BY <1>1 DEF KeptRows, SavedRows
  <1>3. SavedRows' = SavedRows /\ today' = today
    BY DEF ProcessEnds, SavedRows
  <1> QED
    BY <1>2, <1>3, Mapping

LEMMA InitIsBegin == Init => Metering!Begin
  <1> SUFFICES ASSUME Init PROVE Metering!Begin
    OBVIOUS
  <1>1. today \in Day /\ used = NoRows /\ lost = NoRows /\ db = NoRows
    BY DayFacts DEF Init
  <1>2. \A d \in Day, t \in Metered : Kept(d, t) = 0 /\ db[d][t] = 0
    BY <1>1, EmptyFacts, LimitFacts DEF Kept
  <1> QED
    BY <1>1, <1>2 DEF Metering!Begin, Metering!Nothing

LEMMA StepIsMetered ==
    ASSUME IInv, IInv', [Next]_vars, Clear' PROVE [Metering!Step]_(Metering!states)
  <1>1. Clear
    BY ClearBefore
  <1>2. CASE UNCHANGED <<today, used, lost, db>>
    BY <1>2, Unseen
  <1>3. CASE Midnight
    BY <1>3, MidnightIsNextDay DEF Metering!Step
  <1>4. ASSUME NEW r \in Request, NEW checks \in Checks, AdmitPush(r, checks)
        PROVE  Metering!Step
    <2>1. Limited(checks) \in SUBSET Metered
      BY StoreAssumption DEF Limited, Metered
    <2> QED
      BY <1>1, <1>4, <2>1, AdmitIsCount DEF Metering!Step
  <1>5. ASSUME NEW k \in Part \X Day \X Tenant, Upsert(k) PROVE Metering!Step
    BY <1>1, <1>5, UpsertIsSave DEF Metering!Step
  <1>6. CASE Cleanup
    BY <1>1, <1>6, CleanupIsSave DEF Metering!Step
  <1>7. CASE ProcessEnds
    BY <1>7, EndIsForget DEF Metering!Step
  <1>8. ~LoadFails
    BY DEF LoadFails, Clear
  <1> QED
    BY <1>2, <1>3, <1>4, <1>5, <1>6, <1>7, <1>8 DEF Next, vars, procVars, history, RequestStep, JanitorStep,
       ServeStep, ReadClock, DenyPush, LeaveAdmit, FlushTick, FinalFlush, TakeSnapshot, UpsertFails,
       Start, LoadSucceeds, StartJanitor, Listen, ListenFails, Shutdown, Drained, DrainTimeout,
       MovesTo, Exit, Crash

\* Every step of a request, the janitor, main or a crash is a step of the meter, as long
\* as no clock reading is overtaken by midnight and startup loads succeed (quota.go,
\* persist.go, serve.go:84-118).
THEOREM ImplementsMeter == Spec => MeterKept
  <1>1. Init => Metering!Begin
    BY InitIsBegin
  <1>2. IInv /\ IInv' /\ [Next]_vars => [Clear' => Metering!Step]_(Metering!states)
    BY StepIsMetered
  <1> QED
    BY <1>1, <1>2, InductiveInvariant, PTL DEF Spec, MeterKept

\* A run of the relay in which neither happens keeps the promise of a meter (quota.go,
\* persist.go, serve.go:84-118).
THEOREM ClearRunsAreMetered == Spec /\ []Clear => Metering!Promise
  BY ImplementsMeter, PTL DEF MeterKept, Metering!Promise
=============================================================================
