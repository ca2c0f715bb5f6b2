------------------------------ MODULE Throttle ------------------------------
(***************************************************************************)
(* The limit on authentication failures of a client address                *)
(* (internal/api/throttle.go): a request is let in if the bucket of its    *)
(* address has a token, and takes one only when it is answered 401.  Get   *)
(* of Settings gives each request its rate and burst.                      *)
(*                                                                         *)
(* One address, which ClientAddress finds: the limiter (limiter.go) keeps  *)
(* a bucket for each and they do not meet.  As in Gate, every lock is a    *)
(* step of its own.  Allowed alone is one: its two locks only read.        *)
(***************************************************************************)
EXTENDS Settings, RateBucket, FiniteSets

CONSTANTS
    IdleFor,        \* Cleanup evicts buckets not consumed from for longer
    MaxStall,       \* a request takes at most this long from its clock readings on
    MaxTime,        \* bound of the clock
    MaxRequests     \* bound of the requests

ASSUME ThrottleAssumption ==
    /\ IsFiniteSet(Request)
    /\ Config \subseteq [perMin : Nat, burst : Nat]
    /\ \E r, b \in Config : \A c \in Config : c.perMin <= r.perMin /\ c.burst <= b.burst
    /\ \E r \in Config : r.perMin > 0 /\ \A c \in Config : c.perMin > 0 => r.perMin <= c.perMin
    /\ IdleFor \in Nat /\ MaxStall \in Nat /\ 2 * MaxStall <= IdleFor
    /\ MaxTime \in Nat /\ MaxRequests \in Nat
    /\ None \notin Nat \cup
           [perMin : Int, burst : Int, tokens : Int, last : Int, lastEvent : Int, seen : Int]

\* The settings' greatest rate and burst, and their least rate that limits.
MaxRate  == Max({c.perMin : c \in Config})
MinRate  == Min({c.perMin : c \in Config} \ {0})
MaxBurst == Max({Burst(c) : c \in Config})

VARIABLES
    clock,
    bucket,         \* of the address, None for no entry
    guard,          \* where each request is in Wrap and in the limiter
    requests,       \* requests so far
    \* History, read by the properties only:
    lastFailure,    \* time of the last answer 401 while there is a limit, None before
    raced,          \* requests past the peek that another one may have taken the token of
    taken,          \* tokens that failures have taken
    gained,         \* what clocks put back and refunds of more than a token gave
    evicted,        \* the bucket that was evicted and not made anew yet
    renewed         \* what new buckets had that the evicted ones would not have had

counts       == <<taken, gained, evicted, renewed>>
ghosts       == <<lastFailure, raced, counts>>
throttleVars == <<clock, bucket, guard, requests, ghosts>>
vars         == <<settingsVars, throttleVars>>

\* A request: the step it is at, the time it has read last, and when the
\* reservation it is about to cancel acts and at what rate it was made.
NoGuard == [step |-> "idle", now |-> 0, acts |-> 0, perMin |-> 0]
Limit(q)   == get[q].value
Limited(q) == Limit(q).perMin > 0
Passed(q)  == guard[q].step \in {"handle", "bucket", "burst", "reserve"} /\ Limited(q)
Become(q, r) == guard' = [guard EXCEPT ![q] = r]
Goto(q, step) == Become(q, [guard[q] EXCEPT !.step = step])
Read(q, step) == Become(q, [guard[q] EXCEPT !.step = step, !.now = clock])
Finish(q) ==
    /\ Become(q, NoGuard)
    /\ get' = [get EXCEPT ![q] = NoGet]
    /\ UNCHANGED <<row, cached, updates, flushes, overtaken, tainted>>

Init ==
    /\ InitSettings
    /\ clock = 0 /\ bucket = None
    /\ guard = [q \in Request |-> NoGuard] /\ requests = 0
    /\ lastFailure = None /\ raced = {}
    /\ taken = 0 /\ gained = 0 /\ evicted = None /\ renewed = 0

-----------------------------------------------------------------------------
\* Wrap.

Enter(q) ==
    /\ guard[q].step = "idle"
    /\ requests < MaxRequests /\ requests' = requests + 1
    /\ Goto(q, "get") /\ Lookup(q)
    /\ UNCHANGED <<clock, bucket, ghosts>>

\* Limiter.Allowed reads the clock, unless there is no limit, ...
ReadPeek(q) ==
    /\ guard[q].step = "get" /\ get[q].step = "done"
    /\ IF Limited(q) THEN Read(q, "look") ELSE Goto(q, "handle")
    /\ UNCHANGED <<clock, bucket, requests, ghosts, settingsVars>>

\* ... and finds the bucket: it consumes nothing and does not put it to other limits.
\* Faulty variant, for mutation runs: no token is enough, as long as none is owed.
Allowed_Zero(b, t) == b # None => Advance(b, t) >= 0
Allowed(b, t)      == b # None => Advance(b, t) >= Token

LetIn(q) ==
    /\ guard[q].step = "look" /\ Allowed(bucket, guard[q].now)
    /\ Goto(q, "handle")
    /\ UNCHANGED <<clock, bucket, requests, ghosts, settingsVars>>

\* 429.
Block(q) ==
    /\ guard[q].step = "look" /\ ~Allowed(bucket, guard[q].now)
    /\ Finish(q)
    /\ UNCHANGED <<clock, bucket, requests, ghosts>>

\* Which answers cost a token.
\* Faulty variant, for mutation runs: every answer does.
Costs_Any(unauthorized) == TRUE
Costs(unauthorized)     == unauthorized

\* The handler has answered, with 401 or otherwise: Limiter.Allow reads the clock.
Leave(q, unauthorized) ==
    /\ guard[q].step = "handle"
    /\ IF Costs(unauthorized) /\ Limited(q)
       THEN Read(q, "bucket") /\ UNCHANGED <<settingsVars, raced>>
       ELSE Finish(q) /\ raced' = raced \ {q}
    /\ lastFailure' = IF unauthorized /\ Limited(q) THEN clock ELSE lastFailure
    /\ UNCHANGED <<clock, bucket, requests, counts>>

-----------------------------------------------------------------------------
\* Limiter.Allow.

\* What clocks put back, refunds and new buckets give: as in Gate.
PutBack == IF bucket = None THEN 0 ELSE MaxRate * Max({0, bucket.last - bucket'.last})
Overpaid(acts, perMin) ==
    IF bucket' = bucket THEN 0 ELSE Max({0, Restored(bucket, acts, perMin) - Token})
Gains(n) == gained' = gained + PutBack + n
Earliest == IF clock >= MaxStall THEN clock - MaxStall ELSE 0
Renewal  ==
    IF bucket # None \/ evicted = None THEN 0
    ELSE Max({0, bucket'.tokens - Advance(evicted, Earliest)})

\* Requests past the peek that have read the clock after t.
Ahead(t) == {o \in Request : Passed(o) /\ guard[o].now > t}

\* The limiter has its map locked while a bucket is put to other limits.
MapFree == \A o \in Request : guard[o].step # "burst"

BucketAt(q) ==
    LET t == guard[q].now
    IN  /\ guard[q].step = "bucket" /\ MapFree
        /\ bucket' = Synced(bucket, t, Limit(q), None)
        /\ Gains(0)
        /\ renewed' = renewed + Renewal /\ evicted' = None
        /\ IF Differs(bucket, Limit(q), None)
           THEN Goto(q, "burst") /\ raced' = raced \cup (Ahead(t) \ {q})
           ELSE Goto(q, "reserve") /\ UNCHANGED raced
        /\ UNCHANGED <<clock, requests, lastFailure, taken, settingsVars>>

SetBurst(q) ==
    /\ guard[q].step = "burst"
    /\ bucket' = SetBurstAt(bucket, guard[q].now, Limit(q))
    /\ Gains(0)
    /\ Goto(q, "reserve")
    /\ UNCHANGED <<clock, requests, lastFailure, raced, taken, evicted, renewed, settingsVars>>

\* The token is taken, or the reservation is still to be cancelled.
Reserve(q) ==
    LET t == guard[q].now  b == ReserveN(bucket, t)
    IN  /\ guard[q].step = "reserve"
        /\ bucket' = b
        /\ Gains(0)
        /\ IF b.lastEvent <= t
           THEN /\ Finish(q) /\ taken' = taken + 1
                /\ raced' = {o \in Request \ {q} : Passed(o)}
           ELSE /\ Become(q, [guard[q] EXCEPT !.step = "cancel", !.acts = b.lastEvent,
                                              !.perMin = b.perMin])
                /\ raced' = (raced \cup Ahead(t)) \ {q}
                /\ UNCHANGED <<taken, settingsVars>>
        /\ UNCHANGED <<clock, requests, lastFailure, evicted, renewed>>

CancelDenied(q) ==
    LET g == guard[q]
    IN  /\ g.step = "cancel"
        /\ bucket' = CancelAt(bucket, g.acts, g.perMin, g.now)
        /\ Gains(Overpaid(g.acts, g.perMin))
        /\ Finish(q)
        /\ UNCHANGED <<clock, requests, lastFailure, raced, taken, evicted, renewed>>

-----------------------------------------------------------------------------
\* Faulty variant, for mutation runs: at the next tick.
Idle_Soon(b) == clock > b.seen
Idle(b)      == clock - b.seen > IdleFor

Cleanup ==
    /\ MapFree /\ bucket # None /\ Idle(bucket)
    /\ bucket' = None /\ evicted' = bucket
    /\ UNCHANGED <<clock, guard, requests, lastFailure, raced, taken, gained, renewed, settingsVars>>

\* No request is left behind by more than MaxStall while it is at the limiter.
Stalled(q) ==
    /\ guard[q].step \in {"look", "bucket", "burst", "reserve", "cancel"}
    /\ clock - guard[q].now >= MaxStall

Tick ==
    /\ clock < MaxTime /\ \A q \in Request : ~Stalled(q)
    /\ clock' = clock + 1
    /\ UNCHANGED <<bucket, guard, requests, ghosts, settingsVars>>

GuardStep(q) ==
    \/ Enter(q) \/ ReadPeek(q) \/ LetIn(q) \/ Block(q)
    \/ \E u \in BOOLEAN : Leave(q, u)
    \/ BucketAt(q) \/ SetBurst(q) \/ Reserve(q) \/ CancelDenied(q)

Next ==
    \/ \E q \in Request : GuardStep(q)
    \/ Cleanup \/ Tick
    \/ SettingsStep /\ UNCHANGED throttleVars

ThrottleSpec == Init /\ [][Next]_vars

-----------------------------------------------------------------------------
\* Type invariant: a call of Get stands where its request does; a request at work on
\* the bucket finds it in the map, as nothing evicts it meanwhile; one at a time puts
\* it to other limits; and it is never fuller than the greatest burst.
BucketRec == [perMin : 1..MaxRate, burst : 1..MaxBurst, tokens : Int,
              last : 0..MaxTime, lastEvent : Nat, seen : 0..MaxTime]
TypeOK ==
    /\ row \in Config /\ cached \in Config \cup {None} /\ updates \in 0..MaxUpdates
    /\ flushes \in 0..updates /\ overtaken \subseteq Request /\ tainted \in BOOLEAN
    /\ clock \in 0..MaxTime /\ requests \in 0..MaxRequests /\ lastFailure \in (0..clock) \cup {None}
    /\ taken \in Nat /\ gained \in Nat /\ renewed \in Nat
    /\ bucket # None => bucket \in BucketRec /\ bucket.tokens <= Token * MaxBurst
    /\ evicted # None => bucket = None /\ evicted \in BucketRec
    /\ raced \subseteq {q \in Request : Passed(q)}
    /\ \A q \in Request :
        /\ guard[q].now \in 0..clock /\ guard[q].acts \in Nat
        /\ get[q].step \in {"idle", "read", "store", "done"}
        /\ get[q].step = "idle" <=> guard[q].step = "idle"
        /\ get[q].step \in {"store", "done"} => get[q].value \in Config
        /\ guard[q].step \notin {"idle", "get"} => get[q].step = "done"
        /\ guard[q].step \in {"burst", "reserve", "cancel"} => bucket # None
        /\ \A o \in Request : guard[q].step = "burst" /\ guard[o].step = "burst" => o = q

\* However requests interleave, settings change and the bucket is evicted, failures
\* take no more tokens than the greatest burst and rate and the time passed allow,
\* but for what Gate counts for its keys too: clocks put back, refunds of more than
\* a token, and buckets made anew too full (throttle.go:46-55 "The limiter still
\* bounds the sustained failure rate").
FailuresBounded == Token * taken <= Token * MaxBurst + MaxRate * clock + gained + renewed

\* And a failure goes without taking a token only if another one came between the
\* peek and it: one that took the token, or that reserved, or put the bucket to
\* another rate, with an older clock reading (throttle.go:48-52 "concurrent failures
\* can slip past the peek").
UnpaidOnlyIfRaced ==
    [][\A q \in Request :
          guard[q].step = "reserve" /\ guard'[q].step = "cancel" => q \in raced]_vars

\* A request is blocked only for as long after a 401 as one token for every request
\* at once takes to refill: as many failures may have passed the peek together, and
\* a cancel does not give back what a later reservation has reserved over.  However
\* the limits are changed meanwhile, answers other than 401, blocked requests and an
\* eviction do not put that off (throttle.go:37-45; the "Time for one failure token
\* to refill" of throttle.go:63 is right only for failures one after another).
BlockedOnlyByFailures ==
    [][\A q \in Request : guard[q].step = "look" /\ guard'[q].step = "idle" =>
          /\ lastFailure # None
          /\ MinRate * (guard[q].now - lastFailure) <
                Cardinality(Request) * Token + MaxRate * MaxStall]_vars
=============================================================================
