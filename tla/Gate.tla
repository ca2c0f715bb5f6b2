-------------------------------- MODULE Gate --------------------------------
(***************************************************************************)
(* Admission of pushes (internal/ratelimit/gate.go) over the two rate      *)
(* limiters (limiter.go): a push reserves a token of its instance, then    *)
(* one of its app, then asks the daily quotas, and a denial gives back     *)
(* what was reserved before it.  The quotas are QuotaStore's and answer    *)
(* here either way; the limits are Resolver's and change here at any time. *)
(*                                                                         *)
(* Every lock is a step of its own: the clock is read before either lock,  *)
(* the map's lock finds the bucket, and the bucket's own lock is taken     *)
(* twice to put it to other limits, while the map's is held, once to       *)
(* reserve and once more to cancel.                                        *)
(***************************************************************************)
EXTENDS RateBucket, FiniteSets

CONSTANTS
    Instance, App,
    AppOf,          \* the app of an instance
    Push,           \* pushes that can be under admission at once
    None,           \* no bucket
    Limits,         \* the rates and bursts plans may give each key, 0 a minute for unlimited
    IdleFor,        \* Cleanup evicts buckets not seen for longer
    MaxStall,       \* a push takes at most this long from its clock readings on
    MaxTime,        \* bound of the clock
    MaxPushes       \* bound of the pushes

Key == Instance \cup App        \* each limiter has a map of its own

\* The burst of an app is its rate (gate.go:41).
ASSUME GateAssumption ==
    /\ Instance \cap App = {}
    /\ AppOf \in [Instance -> App]
    /\ IsFiniteSet(Push)
    /\ Limits \in [Key -> SUBSET [perMin : Nat, burst : Nat]]
    /\ \A k \in Key : \E r, b \in Limits[k] :
          \A lim \in Limits[k] : lim.perMin <= r.perMin /\ lim.burst <= b.burst
    /\ \A a \in App : \A lim \in Limits[a] : lim.burst = lim.perMin
    /\ IdleFor \in Nat /\ MaxStall \in Nat /\ 2 * MaxStall <= IdleFor
    /\ MaxTime \in Nat /\ MaxPushes \in Nat
    /\ None \notin [perMin : Int, burst : Int, tokens : Int, last : Int, lastEvent : Int, seen : Int]

\* The most a plan gives a key.
MaxRate(k)  == Max({lim.perMin : lim \in Limits[k]})
MaxBurst(k) == Max({Burst(lim) : lim \in Limits[k]})

VARIABLES
    clock,
    bucket,         \* Limiter.m of both limiters, None for no entry
    push,           \* where each push is
    pushes,         \* pushes so far
    \* History, read by the properties only:
    admitted,       \* pushes let through with a token of each key
    gained,         \* what clocks put back and refunds of more than a token gave each key
    evicted,        \* the bucket of each key that was evicted and not made anew yet
    renewed,        \* what new buckets had that the evicted ones would not have had
    overlapped,     \* two pushes have been under admission at once
    ideal           \* a bucket of each key that only admitted pushes take from

ghosts == <<admitted, gained, evicted, renewed, overlapped, ideal>>
vars   == <<clock, bucket, push, pushes, ghosts>>

\* A push: the limiter it is at, what it does there next, its instance, the
\* limits it was resolved to, the time it has read, when the reservation it is
\* about to cancel acts and at what rate it was made, and the tokens it holds, by
\* the time and the rate of each.
Stage == {"idle", "instance", "app", "quota", "undo"}
Step  == {"clock", "bucket", "burst", "reserve", "cancel"}
NoPush == [stage |-> "idle", step |-> "clock", inst |-> None, lim |-> <<>>,
           now |-> 0, acts |-> 0, perMin |-> 0, held |-> <<>>]

Active(p) == push[p].stage # "idle"
KeyOf(p)  == IF push[p].stage = "instance" THEN push[p].inst ELSE AppOf[push[p].inst]
At(p, step) == push[p].stage \in {"instance", "app"} /\ push[p].step = step
Holds(p)  == DOMAIN push[p].held
Level(b)  == Advance(b, clock)

Init ==
    /\ clock = 0
    /\ bucket = [k \in Key |-> None]
    /\ push = [p \in Push |-> NoPush]
    /\ pushes = 0
    /\ admitted = [k \in Key |-> 0]
    /\ gained = [k \in Key |-> 0] /\ renewed = [k \in Key |-> 0]
    /\ evicted = [k \in Key |-> None]
    /\ overlapped = FALSE
    /\ ideal = [k \in Key |-> None]

Goto(p, stage) == [push[p] EXCEPT !.stage = stage, !.step = "clock",
                                  !.now = 0, !.acts = 0, !.perMin = 0]
Become(p, r)   == push' = [push EXCEPT ![p] = r]
NextStage(p)   == IF push[p].stage = "instance" THEN "app" ELSE "quota"

\* A denial at the app's limiter undoes the reservation at the instance's.
Denied(p) == Become(p, IF Holds(p) = {} THEN NoPush ELSE Goto(p, "undo"))

-----------------------------------------------------------------------------
\* The steps of a push.

\* Plans and assignments change at any time: the push has what Resolver.Limits answers
\* it at its start.
Admit(p, i) ==
    /\ ~Active(p)
    /\ pushes < MaxPushes
    /\ pushes' = pushes + 1
    /\ \E lim \in [{i, AppOf[i]} -> UNION {Limits[k] : k \in Key}] :
          /\ \A k \in {i, AppOf[i]} : lim[k] \in Limits[k]
          /\ Become(p, [NoPush EXCEPT !.stage = "instance", !.inst = i, !.lim = lim])
    /\ overlapped' = (overlapped \/ \E o \in Push : Active(o))
    /\ UNCHANGED <<clock, bucket, admitted, gained, evicted, renewed, ideal>>

\* perMin <= 0: no bucket, and a cancel that does nothing.
Unlimited(p) ==
    /\ At(p, "clock") /\ push[p].lim[KeyOf(p)].perMin = 0
    /\ Become(p, Goto(p, NextStage(p)))
    /\ UNCHANGED <<clock, pushes, bucket, ghosts>>

ReadClock(p) ==
    /\ At(p, "clock") /\ push[p].lim[KeyOf(p)].perMin > 0
    /\ Become(p, [push[p] EXCEPT !.step = "bucket", !.now = clock])
    /\ UNCHANGED <<clock, pushes, bucket, ghosts>>

\* An access with a time before the bucket's last one puts its clock back, and the
\* time between the two refills it twice, at the key's greatest rate at most.
PutBack(k) ==
    IF bucket[k] = None THEN 0
    ELSE MaxRate(k) * Max({0, bucket[k].last - bucket'[k].last})
\* A reservation that acts after the last event gets more than its token back.
Overpaid(k, acts, perMin) ==
    IF bucket'[k] = bucket[k] THEN 0
    ELSE Max({0, Restored(bucket[k], acts, perMin) - Token})
Gains(k, n) == gained' = [gained EXCEPT ![k] = @ + PutBack(k) + n]

\* What a new bucket has over the one evicted, had that stayed, at the oldest clock
\* reading with which a push may still come.
Earliest == IF clock >= MaxStall THEN clock - MaxStall ELSE 0
Renewal(k) ==
    IF bucket[k] # None \/ evicted[k] = None THEN 0
    ELSE Max({0, bucket'[k].tokens - Advance(evicted[k], Earliest)})

\* The limiter of a push has its map locked while a bucket is put to other limits.
MapFree(stage) == \A o \in Push : ~(push[o].stage = stage /\ push[o].step = "burst")

\* bucketAt: the bucket is made if there is none, and put to the rate that the push
\* was resolved to if it has another.  lastSeen is only read under the map's lock.
BucketAt(p) ==
    LET k == KeyOf(p)  t == push[p].now  lim == push[p].lim[k]
    IN  /\ At(p, "bucket") /\ MapFree(push[p].stage)
        /\ bucket' = [bucket EXCEPT ![k] = Synced(@, t, lim, None)]
        /\ ideal' = [ideal EXCEPT ![k] = Synced(@, t, lim, None)]
        /\ Gains(k, 0)
        /\ renewed' = [renewed EXCEPT ![k] = @ + Renewal(k)]
        /\ evicted' = [evicted EXCEPT ![k] = None]
        /\ Become(p, [push[p] EXCEPT !.step = IF Differs(bucket[k], lim, None) THEN "burst"
                                              ELSE "reserve"])
        /\ UNCHANGED <<clock, pushes, admitted, overlapped>>

\* And then to the burst, under the bucket's lock taken anew.
SetBurst(p) ==
    LET k == KeyOf(p)  t == push[p].now  lim == push[p].lim[k]
    IN  /\ At(p, "burst")
        /\ bucket' = [bucket EXCEPT ![k] = SetBurstAt(@, t, lim)]
        /\ ideal' = [ideal EXCEPT ![k] = SetBurstAt(@, t, lim)]
        /\ Gains(k, 0)
        /\ Become(p, [push[p] EXCEPT !.step = "reserve"])
        /\ UNCHANGED <<clock, pushes, admitted, evicted, renewed, overlapped>>

Hold(p, k) ==
    [Goto(p, NextStage(p)) EXCEPT
        !.held = [h \in Holds(p) \cup {k} |->
                     IF h = k THEN [now |-> push[p].now, perMin |-> bucket[k].perMin]
                     ELSE push[p].held[h]]]

Reserve(p) ==
    LET k == KeyOf(p)  t == push[p].now  b == ReserveN(bucket[k], t)
    IN  /\ At(p, "reserve")
        /\ bucket' = [bucket EXCEPT ![k] = b]
        /\ Gains(k, 0)
        /\ Become(p, IF b.lastEvent <= t THEN Hold(p, k)
                     ELSE [push[p] EXCEPT !.step = "cancel", !.acts = b.lastEvent,
                                          !.perMin = b.perMin])
        /\ UNCHANGED <<clock, pushes, admitted, evicted, renewed, overlapped, ideal>>

\* A push over the rate cancels its reservation under the lock taken anew.
CancelDenied(p) ==
    LET k == KeyOf(p)  t == push[p].now  acts == push[p].acts  perMin == push[p].perMin
    IN  /\ At(p, "cancel")
        /\ bucket' = [bucket EXCEPT ![k] = CancelAt(@, acts, perMin, t)]
        /\ Gains(k, Overpaid(k, acts, perMin))
        /\ Denied(p)
        /\ UNCHANGED <<clock, pushes, admitted, evicted, renewed, overlapped, ideal>>

QuotaAdmits(p) ==
    /\ push[p].stage = "quota"
    /\ admitted' = [k \in Key |-> admitted[k] + (IF k \in Holds(p) THEN 1 ELSE 0)]
    /\ ideal' = [k \in Key |-> IF k \in Holds(p) THEN ReserveN(ideal[k], push[p].held[k].now)
                               ELSE ideal[k]]
    /\ Become(p, NoPush)
    /\ UNCHANGED <<clock, pushes, bucket, gained, evicted, renewed, overlapped>>

QuotaDenies(p) ==
    /\ push[p].stage = "quota"
    /\ Denied(p)
    /\ UNCHANGED <<clock, pushes, bucket, ghosts>>

\* The app's reservation is cancelled before the instance's, each at the time it
\* was made.
\* Faulty variant, for mutation runs: at the time of the cancel.
RefundTime_Now(p, k) == clock
RefundTime(p, k)     == push[p].held[k].now

Refund(p, k) ==
    LET h == push[p].held[k]
    IN  /\ push[p].stage = "undo" /\ k \in Holds(p)
        /\ k \in App \/ Holds(p) \cap App = {}
        /\ bucket' = [bucket EXCEPT ![k] = CancelAt(@, h.now, h.perMin, RefundTime(p, k))]
        /\ Gains(k, Overpaid(k, h.now, h.perMin))
        /\ Become(p, IF Holds(p) = {k} THEN NoPush
                     ELSE [push[p] EXCEPT !.held = [j \in Holds(p) \ {k} |-> @[j]]])
        /\ UNCHANGED <<clock, pushes, admitted, evicted, renewed, overlapped, ideal>>

-----------------------------------------------------------------------------
\* Everything else.

\* Cleanup of one of the limiters.
\* Faulty variants, for mutation runs: at the next tick; when no push needs it.
Idle_Soon(k) == clock > bucket[k].seen
Idle_Free(k) == \A p \in Push : k \notin DOMAIN push[p].lim
Idle(k)      == clock - bucket[k].seen > IdleFor

Cleanup(keys, stage) ==
    LET idle == {k \in keys : bucket[k] # None /\ Idle(k)}
    IN  /\ MapFree(stage) /\ idle # {}
        /\ bucket' = [k \in Key |-> IF k \in idle THEN None ELSE bucket[k]]
        /\ ideal' = [k \in Key |-> IF k \in idle THEN None ELSE ideal[k]]
        /\ evicted' = [k \in Key |-> IF k \in idle THEN bucket[k] ELSE evicted[k]]
        /\ UNCHANGED <<clock, pushes, push, admitted, gained, renewed, overlapped>>

\* No push is left behind by more than MaxStall.
Stalled(p) ==
    \/ push[p].step # "clock" /\ clock - push[p].now >= MaxStall
    \/ \E k \in Holds(p) : clock - push[p].held[k].now >= MaxStall

Tick ==
    /\ clock < MaxTime /\ \A p \in Push : ~Stalled(p)
    /\ clock' = clock + 1
    /\ UNCHANGED <<bucket, push, pushes, ghosts>>

PushStep(p) ==
    \/ \E i \in Instance : Admit(p, i)
    \/ Unlimited(p) \/ ReadClock(p) \/ BucketAt(p) \/ SetBurst(p) \/ Reserve(p)
    \/ CancelDenied(p) \/ QuotaAdmits(p) \/ QuotaDenies(p)
    \/ \E k \in Key : Refund(p, k)

Next ==
    \/ \E p \in Push : PushStep(p)
    \/ Cleanup(Instance, "instance") \/ Cleanup(App, "app")
    \/ Tick

GateSpec == Init /\ [][Next]_vars

-----------------------------------------------------------------------------
\* Type invariant: a bucket is never fuller than the key's greatest burst; the push
\* at work on a bucket finds it in the map, as nothing evicts it meanwhile
\* (limiter.go:117); one push at a time puts buckets of a limiter to other limits.
BucketRec(k) == [perMin : 1..MaxRate(k), burst : 1..MaxBurst(k), tokens : Int,
                 last : 0..MaxTime, lastEvent : Nat, seen : 0..MaxTime]
TypeOK ==
    /\ clock \in 0..MaxTime /\ pushes \in 0..MaxPushes /\ overlapped \in BOOLEAN
    /\ \A k \in Key :
        /\ admitted[k] \in Nat /\ gained[k] \in Nat /\ renewed[k] \in Nat
        /\ bucket[k] # None =>
              bucket[k] \in BucketRec(k) /\ bucket[k].tokens <= Token * MaxBurst(k)
        /\ evicted[k] # None => bucket[k] = None /\ evicted[k] \in BucketRec(k)
    /\ \A p \in Push :
        /\ push[p].stage \in Stage /\ push[p].step \in Step
        /\ push[p].now \in 0..clock /\ \A k \in Holds(p) : push[p].held[k].now \in 0..clock
        /\ At(p, "burst") \/ At(p, "reserve") \/ At(p, "cancel") => bucket[KeyOf(p)] # None
        /\ \A k \in Holds(p) : bucket[k] # None
        /\ \A o \in Push : At(p, "burst") /\ At(o, "burst") /\ push[p].stage = push[o].stage => o = p

\* However pushes interleave, limits change and idle buckets are evicted, no key
\* gets more pushes through than its greatest burst and rate and the time passed
\* allow, but for three gains: an access with a clock reading older than the
\* bucket's puts its clock back; a reservation that is cancelled when older readings
\* have moved the bucket's last event before it returns more than it took; and a
\* bucket that is evicted before it is full, or has a smaller burst than the plan of
\* the next push, is made anew full.  The first two need pushes that overlap
\* (limiter.go:59-94, 117; gate.go:27-57).
AdmittedBound ==
    \A k \in Key :
        /\ Token * admitted[k] <=
              Token * MaxBurst(k) + MaxRate(k) * clock + gained[k] + renewed[k]
        /\ ~overlapped => gained[k] = 0

\* Cleanup takes nothing for given: a bucket that refills within the idle time, less
\* what a push may stall, from what its last access has left, is full when it is
\* evicted, however old the clock readings of its last accesses were.  The 30
\* minutes of serve.go:118 are enough for that unless a burst is more than 30 times
\* the rate per minute, which instance plans may say; it is then made anew too full.
Refills(b, ticks) == b.tokens + b.perMin * ticks >= Token * b.burst
EvictedWhenFull ==
    [][\A k \in Key :
          bucket[k] # None /\ bucket'[k] = None /\ Refills(bucket[k], IdleFor - MaxStall)
              => Level(bucket[k]) = Token * bucket[k].burst]_vars

\* As long as pushes have come one after another, every bucket stands between
\* them where the admitted ones alone have left it: a denial at any of the four
\* checks costs neither key a token, and no eviction and no change of a limit
\* gives one (limiter.go:78-96, gate.go:36-57).
AtRest == \A p \in Push : ~Active(p)
OnlyAdmittedSpend ==
    AtRest /\ ~overlapped =>
        \A k \in Key : bucket[k] # None => Level(bucket[k]) = Level(ideal[k])
=============================================================================
