----------------------------- MODULE RateBucket -----------------------------
(***************************************************************************)
(* The token bucket of golang.org/x/time/rate (v0.15.0, not part of the    *)
(* repository) as far as internal/ratelimit/limiter.go uses it.            *)
(*                                                                         *)
(* Time is counted in ticks, a minute is Token of them, and a token is     *)
(* worth Token units: a bucket of perMin tokens per minute is refilled     *)
(* perMin units a tick.  Only a wait divides; it is rounded up to whole    *)
(* ticks, where the library's is cut to nanoseconds.                       *)
(***************************************************************************)
EXTENDS Integers, FiniteSetsExt

CONSTANT Token      \* units of a token, ticks of a minute

ASSUME TokenAssumption == Token \in Nat \ {0}

\* bucketAt: a burst of none is one of one token.
Burst(lim) == Max({1, lim.burst})

\* rate.NewLimiter: a bucket starts full.
NewBucket(lim, seen) ==
    [perMin |-> lim.perMin, burst |-> Burst(lim), tokens |-> Token * Burst(lim),
     last |-> 0, lastEvent |-> 0, seen |-> seen]

\* Limiter.advance: a time before the last one counts as the last one.
Advance(b, t) == Min({Token * b.burst, b.tokens + b.perMin * Max({0, t - b.last})})

\* Limiter.SetLimitAt and SetBurstAt.  The tokens are clipped to the new burst by
\* the next advance.
SetLimitAt(b, t, lim) == [b EXCEPT !.tokens = Advance(b, t), !.last = t, !.perMin = lim.perMin]
SetBurstAt(b, t, lim) == [b EXCEPT !.tokens = Advance(b, t), !.last = t, !.burst = Burst(lim)]

\* Limiter.bucketAt up to SetLimitAt: the bucket is made, or put to another rate in
\* place if its limits differ; SetBurstAt is then still to come.
Differs(b, lim, none) == b # none /\ ~(b.perMin = lim.perMin /\ b.burst = Burst(lim))
\* Faulty variant, for mutation runs: made anew if its limits differ.
Synced_Anew(b, t, lim, none) ==
    IF b = none \/ Differs(b, lim, none) THEN NewBucket(lim, t) ELSE [b EXCEPT !.seen = t]
Synced(b, t, lim, none) ==
    IF b = none THEN NewBucket(lim, t)
    ELSE [(IF Differs(b, lim, none) THEN SetLimitAt(b, t, lim) ELSE b) EXCEPT !.seen = t]

\* Ticks until so many units are refilled.
Wait(units, perMin) == (units + perMin - 1) \div perMin

\* Limiter.ReserveN(t, 1): the token is taken at once, the reservation acts when
\* the bucket has refilled what is missing, and remembers the rate.
ReserveN(b, t) ==
    LET left == Advance(b, t) - Token
    IN  [b EXCEPT !.tokens = left, !.last = t,
                  !.lastEvent = t + Wait(Max({0, -left}), b.perMin)]

\* What a cancel of a reservation gives back: the token less what later ones have
\* taken of it.
Restored(b, acts, perMin) == Token - perMin * (b.lastEvent - acts)

\* Reservation.CancelAt(t): the bucket's clock is put to t, back if need be.
CancelAt(b, acts, perMin, t) ==
    LET restored == Restored(b, acts, perMin)
        before   == acts - Wait(Token, perMin)
    IN  IF acts < t \/ restored <= 0 THEN b
        ELSE [b EXCEPT !.tokens = Min({Token * b.burst, Advance(b, t) + restored}),
                       !.last = t,
                       !.lastEvent = IF acts = b.lastEvent /\ before >= t
                                     THEN before ELSE b.lastEvent]
=============================================================================
