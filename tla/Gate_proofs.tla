---------------------------- MODULE Gate_proofs ----------------------------
(***************************************************************************)
(* Proofs about Gate and the RateBucket below it, for any instances, apps, *)
(* limits, and any number of pushes at once.                               *)
(***************************************************************************)
EXTENDS TLAPS, FiniteSetTheorems, Gate

Bucket == [perMin : Nat \ {0}, burst : Nat \ {0}, tokens : Int, last : Nat, lastEvent : Nat, seen : Nat]
Limit  == [perMin : Nat, burst : Nat]
Grant == [now : Nat, perMin : Nat]

\* Functions of some keys.
KeyFcns(S) == UNION {[D -> S] : D \in SUBSET Key}
PushRec == [stage : Stage, step : Step, inst : Instance \cup {None}, lim : KeyFcns(Limit),
            now : Nat, acts : Nat, perMin : Nat, held : KeyFcns(Grant)]

\* What a push r has to do with the bucket of a key k: it is at work on it, holds a
\* token of it, or has taken one that it may still give back.
KeyIn(r)      == IF r.stage = "instance" THEN r.inst ELSE AppOf[r.inst]
Holding(r, k) == k \in DOMAIN r.held
Owing(r, k)   == Holding(r, k) \/ (r.step = "cancel" /\ KeyIn(r) = k)
Using(r, k)   == Owing(r, k) \/ (r.step \in {"burst", "reserve"} /\ KeyIn(r) = k)
TimeIn(r, k)  == IF Holding(r, k) THEN r.held[k].now ELSE r.now
Out(k)        == {p \in Push : Owing(push[p], k)}
Held(k)       == {p \in Push : Holding(push[p], k)}

\* A push in order at time t: no time that it acts at is older than MaxStall.
Recent(s, t) == s \in Nat /\ s <= t /\ t - s <= MaxStall

InOrder(r, t) ==
    /\ r \in PushRec
    /\ r.now <= t
    /\ r.stage # "idle" => r.inst \in Instance /\ DOMAIN r.lim = {r.inst, AppOf[r.inst]}
    /\ r.stage \notin {"instance", "app"} => r.step = "clock"
    /\ r.stage \in {"idle", "instance"} => DOMAIN r.held = {}
    /\ r.stage = "app" => DOMAIN r.held \subseteq {r.inst}
    /\ DOMAIN r.held \subseteq {r.inst, AppOf[r.inst]}
    /\ \A k \in DOMAIN r.lim : r.lim[k] \in Limits[k]
    /\ r.step # "clock" => Recent(r.now, t) /\ r.lim[KeyIn(r)].perMin > 0
    /\ r.step = "cancel" => r.acts > r.now /\ r.perMin > 0
    /\ \A k \in DOMAIN r.held : Recent(r.held[k].now, t) /\ r.held[k].perMin > 0
PushesInOrder == push \in [Push -> PushRec] /\ \A p \in Push : InOrder(push[p], clock)

\* A bucket of key k in order at time t.
Fits(b, k, t) ==
    /\ b \in Bucket
    /\ b.perMin <= MaxRate(k) /\ b.burst <= MaxBurst(k)
    /\ b.tokens <= Token * MaxBurst(k)
    /\ b.last <= t /\ b.seen <= t
    /\ b.last <= b.seen + MaxStall
BucketsFit ==
    /\ bucket \in [Key -> Bucket \cup {None}]
    /\ \A k \in Key : bucket[k] # None => Fits(bucket[k], k, clock)

\* A bucket that was evicted has been left alone for longer than a push may stall.
EvictedFit ==
    /\ evicted \in [Key -> Bucket \cup {None}]
    /\ \A k \in Key : evicted[k] # None =>
           /\ bucket[k] = None /\ Fits(evicted[k], k, clock)
           /\ evicted[k].last + MaxStall <= clock

\* Whoever uses the bucket b of a key k finds it, and Cleanup does not evict it.
Stays(r, k, b)  == Using(r, k) => b # None /\ TimeIn(r, k) <= b.seen + MaxStall
UsedBucketsStay == \A p \in Push, k \in Key : Stays(push[p], k, bucket[k])

\* One push at a time has the map of a limiter locked.
OneResyncs ==
    \A p, o \in Push :
        push[p].step = "burst" /\ push[o].step = "burst" /\ push[p].stage = push[o].stage => p = o

Counted ==
    /\ clock \in 0..MaxTime /\ pushes \in 0..MaxPushes /\ overlapped \in BOOLEAN
    /\ admitted \in [Key -> Nat] /\ gained \in [Key -> Nat] /\ renewed \in [Key -> Nat]

GateInv == Counted /\ PushesInOrder /\ BucketsFit /\ EvictedFit /\ UsedBucketsStay /\ OneResyncs

-----------------------------------------------------------------------------
\* The assumptions, each in the form the solver needs.

LEMMA Bounds ==
    /\ IdleFor \in Nat /\ MaxStall \in Nat /\ 2 * MaxStall <= IdleFor
    /\ MaxTime \in Nat /\ MaxPushes \in Nat /\ Token \in Nat \ {0}
  BY GateAssumption, TokenAssumption, Zenon

LEMMA Keys ==
    /\ Instance \cap App = {} /\ AppOf \in [Instance -> App] /\ Key = Instance \cup App
    /\ Limits \in [Key -> SUBSET Limit]
  BY GateAssumption, Zenon DEF Key, Limit

LEMMA NoneIsNoBucket == None \notin Bucket
  <1>1. None \notin [perMin : Int, burst : Int, tokens : Int, last : Int, lastEvent : Int, seen : Int]
    BY GateAssumption, Zenon
  <1> QED
    BY <1>1 DEF Bucket

LEMMA MaxOfTwo ==
    ASSUME NEW a \in Int, NEW b \in Int PROVE Max({a, b}) = IF a >= b THEN a ELSE b
  BY DEF Max

LEMMA MinOfTwo ==
    ASSUME NEW a \in Int, NEW b \in Int PROVE Min({a, b}) = IF a <= b THEN a ELSE b
  BY DEF Min

\* A set of numbers that has a greatest one.
LEMMA Greatest ==
    ASSUME NEW S, NEW m \in S, \A n \in S : m >= n
    PROVE  Max(S) \in S /\ \A n \in S : Max(S) >= n
  BY DEF Max

\* A burst of at least one token.
LEMMA BurstOf ==
    ASSUME NEW lim \in Limit
    PROVE  Burst(lim) \in Nat \ {0} /\ Burst(lim) = IF lim.burst >= 1 THEN lim.burst ELSE 1
  <1>1. lim.burst \in Nat
    BY DEF Limit
  <1>2. Max({1, lim.burst}) = IF 1 >= lim.burst THEN 1 ELSE lim.burst
    BY <1>1, MaxOfTwo
  <1> QED
    BY <1>1, <1>2 DEF Burst

\* The greatest rate and burst of a key are those of some of its limits.
LEMMA MostOf ==
    ASSUME NEW k \in Key
    PROVE  /\ MaxRate(k) \in Nat /\ MaxBurst(k) \in Nat /\ Token * MaxBurst(k) \in Nat
           /\ \A lim \in Limits[k] :
                 /\ lim \in Limit /\ lim.perMin \in Nat /\ lim.perMin <= MaxRate(k)
                 /\ Burst(lim) \in Nat \ {0} /\ Burst(lim) <= MaxBurst(k)
  <1>1. \A lim \in Limits[k] : /\ lim \in Limit /\ lim.perMin \in Nat /\ lim.burst \in Nat
                               /\ Burst(lim) \in Nat \ {0}
                               /\ Burst(lim) = IF lim.burst >= 1 THEN lim.burst ELSE 1
    BY Keys, BurstOf DEF Limit
  <1>2. PICK r, b \in Limits[k] : \A lim \in Limits[k] : lim.perMin <= r.perMin /\ lim.burst <= b.burst
    BY GateAssumption, Zenon
  <1> DEFINE rates  == {lim.perMin : lim \in Limits[k]}
             bursts == {Burst(lim) : lim \in Limits[k]}
  <1>3. r.perMin \in rates /\ \A n \in rates : r.perMin >= n
    BY <1>1, <1>2
  <1>4. Burst(b) \in bursts /\ \A n \in bursts : Burst(b) >= n
    <2>1. Burst(b) \in bursts
      BY <1>2
    <2>2. ASSUME NEW lim \in Limits[k] PROVE Burst(b) >= Burst(lim)
      BY <1>1, <1>2
    <2> QED
      BY <2>1, <2>2
  <1>5. /\ MaxRate(k) \in rates /\ \A n \in rates : MaxRate(k) >= n
        /\ MaxBurst(k) \in bursts /\ \A n \in bursts : MaxBurst(k) >= n
    <2>1. MaxRate(k) = Max(rates) /\ MaxBurst(k) = Max(bursts)
      BY DEF MaxRate, MaxBurst
    <2> HIDE DEF rates, bursts
    <2> QED
      BY <1>3, <1>4, <2>1, Greatest
  <1>6. MaxRate(k) \in Nat /\ MaxBurst(k) \in Nat
    BY <1>1, <1>5
  <1>7. \A lim \in Limits[k] : lim.perMin \in rates /\ Burst(lim) \in bursts
    OBVIOUS
  <1> HIDE DEF rates, bursts
  <1>8. \A lim \in Limits[k] : lim.perMin <= MaxRate(k) /\ Burst(lim) <= MaxBurst(k)
    BY <1>1, <1>5, <1>6, <1>7
  <1>9. Token * MaxBurst(k) \in Nat
    BY <1>6, Bounds
  <1> QED
    BY <1>1, <1>6, <1>8, <1>9

-----------------------------------------------------------------------------
\* Arithmetic of the bucket.

LEMMA Capacity ==
    ASSUME NEW n \in Nat
    PROVE  /\ Token * n \in Nat /\ Token * (n + 1) = Token * n + Token
           /\ \A m \in Nat : m <= n => Token * m <= Token * n
  BY TokenAssumption

\* What is refilled at a rate.
LEMMA Rated ==
    ASSUME NEW r \in Nat
    PROVE  /\ \A n \in Int : r * n \in Int
           /\ \A n \in Nat : r * n \in Nat
           /\ \A s \in Int, t \in Int : r * (t - s) = r * t - r * s
           /\ \A s \in Int, t \in Int : s <= t => r * s <= r * t
           /\ r * 0 = 0
           /\ \A q \in Nat, n \in Nat : q <= r => q * n <= r * n
  OBVIOUS

\* Time that passes between the last access and t, and what is refilled in it.
Since(b, t)  == IF b.last <= t THEN t - b.last ELSE 0
Refill(b, t) == b.perMin * Since(b, t)

LEMMA OfBucket ==
    ASSUME NEW b \in Bucket
    PROVE  /\ b.perMin \in Nat \ {0} /\ b.burst \in Nat \ {0} /\ b.tokens \in Int /\ b.last \in Nat
           /\ b.lastEvent \in Nat /\ b.seen \in Nat /\ Token * b.burst \in Nat
           /\ \A t \in Nat : Since(b, t) \in Nat /\ Refill(b, t) \in Nat
           /\ Since(b, b.last) = 0 /\ Refill(b, b.last) = 0
  <1>1. /\ b.perMin \in Nat \ {0} /\ b.burst \in Nat \ {0} /\ b.tokens \in Int /\ b.last \in Nat
        /\ b.lastEvent \in Nat /\ b.seen \in Nat
    BY DEF Bucket
  <1>2. Token * b.burst \in Nat
    BY <1>1, Capacity
  <1>3. \A t \in Nat : Since(b, t) \in Nat
    BY <1>1 DEF Since
  <1>4. \A t \in Nat : Refill(b, t) \in Nat
    BY <1>1, <1>3, Rated DEF Refill
  <1>5. Since(b, b.last) = 0 /\ Refill(b, b.last) = 0
    BY <1>1, Rated DEF Since, Refill
  <1> QED
    BY <1>1, <1>2, <1>3, <1>4, <1>5

LEMMA Advanced ==
    ASSUME NEW b \in Bucket, NEW t \in Nat
    PROVE  /\ Advance(b, t) = IF Token * b.burst <= b.tokens + Refill(b, t)
                              THEN Token * b.burst ELSE b.tokens + Refill(b, t)
           /\ Advance(b, t) \in Int /\ Advance(b, t) <= Token * b.burst
  <1>1. b.last \in Nat /\ Since(b, t) \in Nat /\ Refill(b, t) \in Nat /\ b.tokens \in Int /\ Token * b.burst \in Int
    BY OfBucket
  <1>2. Max({0, t - b.last}) = Since(b, t)
    BY <1>1, MaxOfTwo DEF Since
  <1>3. b.tokens + Refill(b, t) \in Int
    BY <1>1
  <1>4. Advance(b, t) = Min({Token * b.burst, b.tokens + Refill(b, t)})
    <2>1. Advance(b, t) = Min({Token * b.burst, b.tokens + b.perMin * Max({0, t - b.last})})
      BY Zenon DEF Advance
    <2> QED
      BY <1>2, <2>1, Zenon DEF Refill
  <1>5. Advance(b, t) = IF Token * b.burst <= b.tokens + Refill(b, t)
                        THEN Token * b.burst ELSE b.tokens + Refill(b, t)
    <2>1. Min({Token * b.burst, b.tokens + Refill(b, t)})
            = IF Token * b.burst <= b.tokens + Refill(b, t)
              THEN Token * b.burst ELSE b.tokens + Refill(b, t)
      BY <1>1, <1>3, MinOfTwo, Zenon
    <2> QED
      BY <1>4, <2>1, Zenon
  <1> QED
    BY <1>1, <1>3, <1>5

\* Buckets that differ in when they were seen only advance alike.
LEMMA SameAdvance ==
    ASSUME NEW b, NEW d, NEW t, b.perMin = d.perMin, b.burst = d.burst, b.tokens = d.tokens, b.last = d.last
    PROVE  Advance(b, t) = Advance(d, t)
  BY Zenon DEF Advance

\* A bucket just accessed has what it was left with.
LEMMA JustAccessed ==
    ASSUME NEW b \in Bucket
    PROVE  /\ Advance(b, b.last) = IF Token * b.burst <= b.tokens THEN Token * b.burst ELSE b.tokens
           /\ \A t \in Nat : t <= b.last => Advance(b, t) = Advance(b, b.last)
  <1>1. b.last \in Nat /\ Refill(b, b.last) = 0 /\ b.tokens \in Int /\ Token * b.burst \in Nat
    BY OfBucket
  <1>2. ASSUME NEW t \in Nat, t <= b.last PROVE Refill(b, t) = 0
    <2>1. Since(b, t) = 0
      BY <1>1, <1>2 DEF Since
    <2> QED
      BY <2>1, OfBucket, Rated DEF Refill
  <1> QED
    BY <1>1, <1>2, Advanced

\* A bucket goes on from any time after its last access.
LEMMA Onward ==
    ASSUME NEW b \in Bucket, NEW s \in Nat, NEW t \in Nat, b.last <= s, s <= t
    PROVE  /\ Advance(b, t) = IF Token * b.burst <= Advance(b, s) + b.perMin * (t - s)
                              THEN Token * b.burst ELSE Advance(b, s) + b.perMin * (t - s)
           /\ b.perMin * (t - s) \in Nat
  <1>1. /\ b.perMin \in Nat /\ b.last \in Nat /\ b.tokens \in Int /\ Token * b.burst \in Nat
        /\ Refill(b, s) \in Nat /\ Refill(b, t) \in Nat
    BY OfBucket
  <1>2. Since(b, s) = s - b.last /\ Since(b, t) = t - b.last /\ t - s \in Nat
    BY <1>1 DEF Since
  <1>3. b.perMin * (t - s) \in Nat /\ Refill(b, t) = Refill(b, s) + b.perMin * (t - s)
    <2>1. /\ b.perMin * (t - b.last) = b.perMin * t - b.perMin * b.last
          /\ b.perMin * (s - b.last) = b.perMin * s - b.perMin * b.last
          /\ b.perMin * (t - s) = b.perMin * t - b.perMin * s
          /\ b.perMin * (t - s) \in Nat
          /\ b.perMin * t \in Int /\ b.perMin * s \in Int /\ b.perMin * b.last \in Int
      BY <1>1, <1>2, Rated
    <2> QED
      BY <1>2, <2>1 DEF Refill
  <1> HIDE DEF Refill
  <1> QED
    BY <1>1, <1>3, Advanced

\* The tokens of a bucket less what any bucket could refill, which never grow with the
\* time.
Lead(b, t, rate) == Advance(b, t) - rate * t

\* An access at t is one at the last access or later, or puts the clock back.
LEMMA LeadShrinks ==
    ASSUME NEW b \in Bucket, NEW rate \in Nat, b.perMin <= rate,
           NEW s \in Nat, NEW t \in Nat, s >= b.last
    PROVE  /\ t >= s => Lead(b, t, rate) <= Lead(b, s, rate)
           /\ t < b.last => Lead(b, t, rate) = Lead(b, b.last, rate) + rate * (b.last - t)
           /\ Lead(b, t, rate) \in Int /\ Lead(b, s, rate) \in Int /\ Lead(b, b.last, rate) \in Int
  <1>1. b.last \in Nat /\ b.perMin \in Nat /\ Token * b.burst \in Nat
    BY OfBucket
  <1>2. /\ Advance(b, s) \in Int /\ Advance(b, t) \in Int /\ Advance(b, b.last) \in Int
        /\ Advance(b, s) <= Token * b.burst
    BY <1>1, Advanced
  <1>3. rate * s \in Int /\ rate * t \in Int /\ rate * b.last \in Int
    BY <1>1, Rated
  <1>4. ASSUME t >= s PROVE Lead(b, t, rate) <= Lead(b, s, rate)
    <2>1. t - s \in Nat
      BY <1>4
    <2>2. b.perMin * (t - s) \in Nat /\ b.perMin * (t - s) <= rate * (t - s) /\ rate * (t - s) = rate * t - rate * s
      BY <1>1, <2>1, Rated
    <2>3. Advance(b, t) <= Advance(b, s) + b.perMin * (t - s)
      BY <1>1, <1>2, <1>4, <2>2, Onward
    <2> QED
      BY <1>2, <1>3, <2>2, <2>3 DEF Lead
  <1>5. ASSUME t < b.last PROVE Lead(b, t, rate) = Lead(b, b.last, rate) + rate * (b.last - t)
    <2>1. Advance(b, t) = Advance(b, b.last)
      BY <1>1, <1>5, JustAccessed
    <2>2. rate * (b.last - t) = rate * b.last - rate * t
      BY <1>1, Rated
    <2> QED
      BY <1>2, <1>3, <2>1, <2>2 DEF Lead
  <1> QED
    BY <1>2, <1>3, <1>4, <1>5 DEF Lead

\* Changing the rate of a bucket or its burst gives it nothing.
LEMMA SetLimit ==
    ASSUME NEW b \in Bucket, NEW t \in Nat, NEW lim \in Limit, lim.perMin > 0,
           NEW d, d = SetLimitAt(b, t, lim)
    PROVE  /\ d \in Bucket /\ d.perMin = lim.perMin /\ d.burst = b.burst /\ d.tokens = Advance(b, t)
           /\ d.last = t /\ d.lastEvent = b.lastEvent /\ d.seen = b.seen
           /\ Advance(d, t) = Advance(b, t)
  <1>1. Advance(b, t) \in Int /\ Advance(b, t) <= Token * b.burst /\ lim.perMin \in Nat \ {0}
    BY Advanced DEF Limit
  <1>2. /\ d \in Bucket /\ d.perMin = lim.perMin /\ d.burst = b.burst /\ d.tokens = Advance(b, t)
        /\ d.last = t /\ d.lastEvent = b.lastEvent /\ d.seen = b.seen
    BY <1>1 DEF SetLimitAt, Bucket
  <1>3. Advance(d, d.last) = IF Token * d.burst <= d.tokens THEN Token * d.burst ELSE d.tokens
    BY <1>2, JustAccessed
  <1>4. Token * b.burst \in Nat
    BY OfBucket
  <1>5. Advance(d, t) = IF Token * b.burst <= Advance(b, t) THEN Token * b.burst ELSE Advance(b, t)
    BY <1>2, <1>3, Zenon
  <1>6. Advance(d, t) = Advance(b, t)
    BY <1>1, <1>4, <1>5
  <1> QED
    BY <1>2, <1>6

LEMMA SetBurstTo ==
    ASSUME NEW b \in Bucket, NEW t \in Nat, NEW lim \in Limit, NEW d, d = SetBurstAt(b, t, lim)
    PROVE  /\ d \in Bucket /\ d.perMin = b.perMin /\ d.burst = Burst(lim) /\ d.tokens = Advance(b, t)
           /\ d.last = t /\ d.lastEvent = b.lastEvent /\ d.seen = b.seen
           /\ Advance(d, t) <= Advance(b, t)
  <1>1. Advance(b, t) \in Int /\ Burst(lim) \in Nat \ {0}
    BY Advanced, BurstOf
  <1>2. /\ d \in Bucket /\ d.perMin = b.perMin /\ d.burst = Burst(lim) /\ d.tokens = Advance(b, t)
        /\ d.last = t /\ d.lastEvent = b.lastEvent /\ d.seen = b.seen
    BY <1>1 DEF SetBurstAt, Bucket
  <1> QED
    BY <1>1, <1>2, JustAccessed, OfBucket

\* A wait is none only for nothing.
LEMMA Waits ==
    ASSUME NEW units \in Nat, NEW perMin \in Nat \ {0}
    PROVE  Wait(units, perMin) \in Nat /\ (Wait(units, perMin) = 0 <=> units = 0)
  BY DEF Wait

\* A reservation takes one token, and acts when the bucket has refilled it.
LEMMA Reserved ==
    ASSUME NEW b \in Bucket, NEW t \in Nat, NEW d, d = ReserveN(b, t)
    PROVE  /\ d \in Bucket /\ d.perMin = b.perMin /\ d.burst = b.burst /\ d.last = t /\ d.seen = b.seen
           /\ d.tokens = Advance(b, t) - Token
           /\ d.lastEvent \in Nat /\ d.lastEvent >= t /\ (d.lastEvent = t <=> d.tokens >= 0)
           /\ Advance(d, t) = Advance(b, t) - Token
  <1> DEFINE left  == Advance(b, t) - Token
             short == Max({0, -left})
             event == t + Wait(short, b.perMin)
  <1>1. left \in Int /\ left <= Token * b.burst /\ b.perMin \in Nat \ {0} /\ -left \in Int
    BY Advanced, OfBucket, Bounds
  <1>2. short = (IF 0 >= -left THEN 0 ELSE -left)
    <2>1. 0 \in Int /\ -left \in Int
      BY <1>1
    <2> HIDE DEF left
    <2> QED
      BY <2>1, MaxOfTwo
  <1>3. d = [b EXCEPT !.tokens = left, !.last = t, !.lastEvent = event]
    BY DEF ReserveN
  <1> HIDE DEF left, short
  <1>4. short \in Nat /\ (short = 0 <=> left >= 0)
    BY <1>1, <1>2
  <1>5. Wait(short, b.perMin) \in Nat /\ (Wait(short, b.perMin) = 0 <=> short = 0)
    BY <1>1, <1>4, Waits
  <1>6. event \in Nat /\ event >= t /\ (event = t <=> left >= 0)
    BY <1>4, <1>5
  <1> HIDE DEF event
  <1>7. /\ d \in Bucket /\ d.perMin = b.perMin /\ d.burst = b.burst /\ d.last = t /\ d.seen = b.seen
        /\ d.tokens = left /\ d.lastEvent = event
    BY <1>1, <1>3, <1>6 DEF Bucket
  <1>8. Advance(d, t) = left
    <2>1. Advance(d, d.last) = IF Token * d.burst <= d.tokens THEN Token * d.burst ELSE d.tokens
      BY <1>7, JustAccessed
    <2>2. Advance(d, t) = IF Token * b.burst <= left THEN Token * b.burst ELSE left
      BY <1>7, <2>1, Zenon
    <2>3. Token * b.burst \in Nat
      BY OfBucket
    <2> QED
      BY <1>1, <2>2, <2>3
  <1> QED
    BY <1>6, <1>7, <1>8 DEF left

\* A reservation that is cancelled gives its bucket something back, or leaves it.
GivenBack(b, d, acts, perMin, t) ==
    /\ Restored(b, acts, perMin) > 0
    /\ d \in Bucket /\ d.perMin = b.perMin /\ d.burst = b.burst /\ d.last = t /\ d.seen = b.seen
    /\ d.tokens = IF Token * b.burst <= Advance(b, t) + Restored(b, acts, perMin)
                  THEN Token * b.burst ELSE Advance(b, t) + Restored(b, acts, perMin)
    /\ Advance(d, t) = d.tokens

LEMMA RestoredIsInt ==
    ASSUME NEW b \in Bucket, NEW acts \in Nat, NEW perMin \in Nat
    PROVE  Restored(b, acts, perMin) \in Int
  BY OfBucket, Bounds DEF Restored

LEMMA Cancelled ==
    ASSUME NEW b \in Bucket, NEW t \in Nat, NEW acts \in Nat, acts >= t, NEW perMin \in Nat \ {0},
           NEW d, d = CancelAt(b, acts, perMin, t)
    PROVE  \/ Restored(b, acts, perMin) <= 0 /\ d = b
           \/ GivenBack(b, d, acts, perMin, t)
  <1> DEFINE back   == Restored(b, acts, perMin)
             tokens == Min({Token * b.burst, Advance(b, t) + back})
             before == acts - Wait(Token, perMin)
             event  == IF acts = b.lastEvent /\ before >= t THEN before ELSE b.lastEvent
  <1>1. back \in Int /\ b.lastEvent \in Nat /\ Token \in Nat
    BY RestoredIsInt, OfBucket, Bounds
  <1>2. Advance(b, t) \in Int /\ Token * b.burst \in Nat /\ Wait(Token, perMin) \in Nat
    BY Advanced, OfBucket, Waits, Bounds
  <1>3. Advance(b, t) + back \in Int /\ Token * b.burst \in Int
    BY <1>1, <1>2
  <1>4. tokens = IF Token * b.burst <= Advance(b, t) + back THEN Token * b.burst ELSE Advance(b, t) + back
    <2> HIDE DEF back
    <2> QED
      BY <1>3, MinOfTwo, Zenon
  <1>5. event \in Nat
    BY <1>1, <1>2
  <1>6. d = IF acts < t \/ back <= 0 THEN b
            ELSE [b EXCEPT !.tokens = tokens, !.last = t, !.lastEvent = event]
    BY DEF CancelAt
  <1> HIDE DEF back, tokens, event
  <1>7. CASE back <= 0
    BY <1>6, <1>7 DEF back
  <1>8. CASE back > 0
    <2>1. d = [b EXCEPT !.tokens = tokens, !.last = t, !.lastEvent = event]
      BY <1>1, <1>6, <1>8
    <2>2. tokens \in Int /\ tokens <= Token * b.burst
      BY <1>2, <1>3, <1>4
    <2>3. /\ d \in Bucket /\ d.perMin = b.perMin /\ d.burst = b.burst /\ d.last = t /\ d.seen = b.seen
          /\ d.tokens = tokens
      BY <1>5, <2>1, <2>2 DEF Bucket
    <2>4. Advance(d, t) = d.tokens
      <3>1. Advance(d, d.last) = IF Token * d.burst <= d.tokens THEN Token * d.burst ELSE d.tokens
        BY <2>3, JustAccessed
      <3> QED
        BY <1>2, <2>2, <2>3, <3>1
    <2> QED
      BY <1>4, <1>8, <2>3, <2>4 DEF back, GivenBack
  <1> QED
    BY <1>1, <1>7, <1>8

-----------------------------------------------------------------------------
\* The pushes.

LEMMA NoKeys == <<>> \in KeyFcns(Limit) /\ <<>> \in KeyFcns(Grant) /\ DOMAIN <<>> = {}
  <1>1. <<>> \in [{} -> Limit] /\ <<>> \in [{} -> Grant] /\ DOMAIN <<>> = {}
    OBVIOUS
  <1> QED
    BY <1>1 DEF KeyFcns

LEMMA KeyFcn ==
    ASSUME NEW S, NEW f \in KeyFcns(S)
    PROVE  DOMAIN f \subseteq Key /\ f = [k \in DOMAIN f |-> f[k]] /\ \A k \in DOMAIN f : f[k] \in S
  BY DEF KeyFcns

LEMMA IdleInOrder ==
    ASSUME clock \in Nat
    PROVE  InOrder(NoPush, clock) /\ DOMAIN NoPush.held = {} /\ NoPush.step = "clock"
  <1>1. /\ NoPush \in PushRec /\ NoPush.stage = "idle" /\ NoPush.step = "clock" /\ NoPush.now = 0
        /\ NoPush.lim = <<>> /\ NoPush.held = <<>>
    BY NoKeys DEF NoPush, PushRec, Stage, Step
  <1> QED
    BY <1>1, NoKeys DEF InOrder

\* What is known of a push.
LEMMA OfPush ==
    ASSUME GateInv, NEW p \in Push
    PROVE  /\ push[p] \in PushRec /\ InOrder(push[p], clock) /\ push \in [Push -> PushRec]
           /\ push[p].stage \in Stage /\ push[p].step \in Step
           /\ push[p].now \in Nat /\ push[p].acts \in Nat /\ push[p].perMin \in Nat
           /\ push[p].lim \in KeyFcns(Limit) /\ push[p].held \in KeyFcns(Grant)
           /\ DOMAIN push[p].held \subseteq Key /\ \A k \in DOMAIN push[p].held : push[p].held[k] \in Grant
           /\ clock \in Nat
           /\ KeyOf(p) = KeyIn(push[p]) /\ Holds(p) = DOMAIN push[p].held
  <1>1. push[p] \in PushRec /\ InOrder(push[p], clock) /\ push \in [Push -> PushRec] /\ clock \in Nat
    BY Bounds DEF GateInv, PushesInOrder, Counted
  <1>2. /\ push[p].stage \in Stage /\ push[p].step \in Step
        /\ push[p].now \in Nat /\ push[p].acts \in Nat /\ push[p].perMin \in Nat
        /\ push[p].lim \in KeyFcns(Limit) /\ push[p].held \in KeyFcns(Grant)
    BY <1>1 DEF PushRec
  <1> QED
    BY <1>1, <1>2, KeyFcn DEF KeyOf, KeyIn, Holds

\* A push at a limiter is at a key of it, of which it holds no token yet.
LEMMA AtKey ==
    ASSUME GateInv, NEW p \in Push, push[p].stage \in {"instance", "app"}
    PROVE  /\ KeyOf(p) \in Key /\ ~Holding(push[p], KeyOf(p)) /\ KeyOf(p) \in DOMAIN push[p].lim
           /\ push[p].inst \in Instance /\ AppOf[push[p].inst] \in App /\ push[p].inst \in Key
           /\ push[p].stage = "instance" => KeyOf(p) = push[p].inst /\ Holds(p) = {}
           /\ push[p].stage = "app" => KeyOf(p) = AppOf[push[p].inst] /\ Holds(p) \subseteq {push[p].inst}
  <1>1. /\ push[p].inst \in Instance /\ DOMAIN push[p].lim = {push[p].inst, AppOf[push[p].inst]}
        /\ push[p].stage = "instance" => Holds(p) = {}
        /\ push[p].stage = "app" => Holds(p) \subseteq {push[p].inst}
    BY OfPush DEF InOrder
  <1>2. AppOf[push[p].inst] \in App /\ push[p].inst # AppOf[push[p].inst]
    BY <1>1, Keys
  <1> QED
    BY <1>1, <1>2, Keys DEF KeyOf, Holding, Holds

\* A push moves on to another limiter, to the quota or to giving back.
LEMMA MovesInOrder ==
    ASSUME GateInv, NEW p \in Push, Active(p), NEW stage \in Stage \ {"idle", "instance"},
           stage = "app" => Holds(p) \subseteq {push[p].inst}
    PROVE  /\ InOrder(Goto(p, stage), clock) /\ Goto(p, stage).held = push[p].held
           /\ Goto(p, stage).step = "clock"
  <1> DEFINE r == Goto(p, stage)
  <1>1. /\ r \in PushRec /\ r.stage = stage /\ r.step = "clock" /\ r.now = 0
        /\ r.inst = push[p].inst /\ r.lim = push[p].lim /\ r.held = push[p].held
    BY OfPush DEF Goto, PushRec, Stage, Step
  <1>2. InOrder(push[p], clock) /\ clock \in Nat /\ push[p].stage # "idle"
    BY OfPush DEF Active
  <1> QED
    BY <1>1, <1>2 DEF InOrder, Holds

\* Only push p becomes another one.
LEMMA OnlyOne ==
    ASSUME GateInv, NEW p \in Push, NEW r, InOrder(r, clock), Become(p, r), clock' = clock
    PROVE  /\ PushesInOrder' /\ push'[p] = r
           /\ \A q \in Push \ {p} : push'[q] = push[q]
  <1>1. r \in PushRec /\ push \in [Push -> PushRec] /\ push' = [push EXCEPT ![p] = r]
    BY OfPush DEF InOrder, Become
  <1>2. push' \in [Push -> PushRec] /\ push'[p] = r /\ \A q \in Push \ {p} : push'[q] = push[q]
    BY <1>1
  <1>3. \A q \in Push : InOrder(push'[q], clock)
    BY <1>2 DEF GateInv, PushesInOrder
  <1> QED
    BY <1>2, <1>3 DEF PushesInOrder

\* A push that is denied keeps what it holds, and gives it back in the next steps.
LEMMA DeniedMoves ==
    ASSUME GateInv, NEW p \in Push, Active(p), Denied(p)
    PROVE  \E r \in PushRec : InOrder(r, clock) /\ Become(p, r) /\ r.step = "clock" /\ DOMAIN r.held = Holds(p)
                  /\ \A k \in Holds(p) : r.held[k] = push[p].held[k]
  <1>1. CASE Holds(p) = {}
    BY <1>1, OfPush, IdleInOrder DEF Denied, InOrder
  <1>2. CASE Holds(p) # {}
    BY <1>2, OfPush, MovesInOrder DEF Denied, Stage, InOrder
  <1> QED
    BY <1>1, <1>2

-----------------------------------------------------------------------------
\* What each step makes of its push.

\* A push that becomes r has as much to do with key k as before, or less.
Keeps(r, p, k) ==
    /\ Owing(r, k) <=> Owing(push[p], k)
    /\ Holding(r, k) <=> Holding(push[p], k)
    /\ Using(r, k) => Using(push[p], k) /\ TimeIn(r, k) = TimeIn(push[p], k)
Moves(p, r) == r \in PushRec /\ InOrder(r, clock) /\ Become(p, r)

\* It does if it works at k neither before nor after.
LEMMA Kept ==
    ASSUME NEW r, NEW p, NEW k,
           ~(r.step \in {"burst", "reserve", "cancel"} /\ KeyIn(r) = k),
           ~(push[p].step \in {"burst", "reserve", "cancel"} /\ KeyIn(push[p]) = k),
           k \in DOMAIN r.held <=> k \in DOMAIN push[p].held,
           k \in DOMAIN r.held => r.held[k] = push[p].held[k]
    PROVE  Keeps(r, p, k)
  <1>1. Owing(r, k) <=> Holding(r, k)
    BY DEF Owing, Holding
  <1>2. Owing(push[p], k) <=> Holding(push[p], k)
    BY DEF Owing, Holding
  <1>3. Using(r, k) <=> Holding(r, k)
    BY DEF Using, Owing, Holding
  <1>4. Holding(r, k) <=> Holding(push[p], k)
    BY DEF Holding
  <1>5. Holding(r, k) => TimeIn(r, k) = TimeIn(push[p], k)
    BY <1>4 DEF TimeIn, Holding
  <1> QED
    BY <1>1, <1>2, <1>3, <1>4, <1>5, Zenon DEF Keeps, Using

LEMMA AdmitMoves ==
    ASSUME GateInv, NEW p \in Push, NEW i \in Instance, Admit(p, i)
    PROVE  \E r \in PushRec : Moves(p, r) /\ r.stage # "idle" /\ r.step = "clock"
                                /\ \A k \in Key : Keeps(r, p, k)
  <1>1. i \in Key /\ AppOf[i] \in Key
    BY Keys
  <1>2. PICK lim \in [{i, AppOf[i]} -> UNION {Limits[k] : k \in Key}] :
            /\ \A k \in {i, AppOf[i]} : lim[k] \in Limits[k]
            /\ Become(p, [NoPush EXCEPT !.stage = "instance", !.inst = i, !.lim = lim])
    BY DEF Admit
  <1>3. lim \in KeyFcns(Limit) /\ DOMAIN lim = {i, AppOf[i]} /\ \A k \in DOMAIN lim : lim[k] \in Limits[k]
    <2>1. lim \in [{i, AppOf[i]} -> Limit] /\ {i, AppOf[i]} \in SUBSET Key
      BY <1>1, <1>2, Keys
    <2> QED
      BY <1>2, <2>1 DEF KeyFcns
  <1> DEFINE r == [NoPush EXCEPT !.stage = "instance", !.inst = i, !.lim = lim]
  <1>4. /\ r \in PushRec /\ r.stage = "instance" /\ r.step = "clock" /\ r.now = 0 /\ r.inst = i
        /\ r.lim = lim /\ r.held = <<>>
    BY <1>3, NoKeys DEF NoPush, PushRec, Stage, Step
  <1>5. InOrder(r, clock)
    BY <1>3, <1>4, NoKeys, OfPush DEF InOrder
  <1>6. DOMAIN push[p].held = {} /\ push[p].step = "clock"
    BY OfPush DEF Admit, Active, InOrder
  <1>7. \A k \in Key : Keeps(r, p, k)
    BY <1>4, <1>6, NoKeys DEF Keeps, Owing, Holding, Using
  <1> QED
    BY <1>2, <1>4, <1>5, <1>7 DEF Moves

LEMMA UnlimitedMoves ==
    ASSUME GateInv, NEW p \in Push, Unlimited(p)
    PROVE  \E r \in PushRec : Moves(p, r) /\ r.step = "clock" /\ \A k \in Key : Keeps(r, p, k)
  <1> DEFINE r == Goto(p, NextStage(p))
  <1>1. push[p].stage \in {"instance", "app"} /\ push[p].step = "clock" /\ Active(p)
    BY DEF Unlimited, At, Active
  <1>2. InOrder(r, clock) /\ r.held = push[p].held /\ r.step = "clock"
    BY <1>1, AtKey, MovesInOrder DEF NextStage, Stage
  <1> HIDE DEF r
  <1>3. \A k \in Key : Keeps(r, p, k)
    BY <1>1, <1>2, Kept
  <1> QED
    BY <1>2, <1>3 DEF Moves, InOrder, Unlimited, r

LEMMA ReadClockMoves ==
    ASSUME GateInv, NEW p \in Push, ReadClock(p)
    PROVE  \E r \in PushRec : /\ Moves(p, r) /\ r.step = "bucket" /\ r.now = clock /\ KeyIn(r) = KeyOf(p)
                              /\ \A k \in Key : Keeps(r, p, k)
  <1> DEFINE r == [push[p] EXCEPT !.step = "bucket", !.now = clock]
  <1>1. push[p].stage \in {"instance", "app"} /\ push[p].step = "clock" /\ push[p].lim[KeyOf(p)].perMin > 0
    BY DEF ReadClock, At
  <1>2. /\ r \in PushRec /\ r.stage = push[p].stage /\ r.step = "bucket" /\ r.now = clock
        /\ r.inst = push[p].inst /\ r.lim = push[p].lim /\ r.held = push[p].held
    BY OfPush DEF PushRec, Step
  <1>3. InOrder(r, clock) /\ KeyIn(r) = KeyOf(p)
    BY <1>1, <1>2, OfPush, Bounds DEF InOrder, Recent, KeyIn
  <1> HIDE DEF r
  <1>4. \A k \in Key : Keeps(r, p, k)
    BY <1>1, <1>2, Kept
  <1> QED
    BY <1>2, <1>3, <1>4 DEF Moves, ReadClock, r

\* A push gets to its bucket, in one step or two.
LEMMA BucketAtMoves ==
    ASSUME GateInv, NEW p \in Push, BucketAt(p)
    PROVE  \E r \in PushRec :
              /\ Moves(p, r) /\ r.step \in {"burst", "reserve"} /\ r.now = push[p].now /\ KeyIn(r) = KeyOf(p)
              /\ r.stage = push[p].stage
              /\ \A k \in Key \ {KeyOf(p)} : Keeps(r, p, k)
              /\ ~Owing(r, KeyOf(p)) /\ ~Owing(push[p], KeyOf(p))
  <1> DEFINE step == IF Differs(bucket[KeyOf(p)], push[p].lim[KeyOf(p)], None) THEN "burst" ELSE "reserve"
             r    == [push[p] EXCEPT !.step = step]
  <1>1. push[p].stage \in {"instance", "app"} /\ push[p].step = "bucket"
    BY DEF BucketAt, At
  <1>2. Become(p, r)
    BY DEF BucketAt
  <1>3. step \in {"burst", "reserve"}
    OBVIOUS
  <1> HIDE DEF step
  <1>4. /\ r \in PushRec /\ r.stage = push[p].stage /\ r.step = step /\ r.now = push[p].now
        /\ r.inst = push[p].inst /\ r.lim = push[p].lim /\ r.held = push[p].held
    BY <1>3, OfPush DEF PushRec, Step
  <1>5. InOrder(r, clock) /\ KeyIn(r) = KeyOf(p)
    BY <1>1, <1>3, <1>4, OfPush DEF InOrder, KeyIn
  <1> HIDE DEF r
  <1>6. \A k \in Key \ {KeyOf(p)} : Keeps(r, p, k)
    BY <1>1, <1>4, <1>5, Kept
  <1>7. ~Owing(r, KeyOf(p)) /\ ~Owing(push[p], KeyOf(p))
    BY <1>1, <1>3, <1>4, AtKey DEF Owing, Holding
  <1> QED
    BY <1>2, <1>3, <1>4, <1>5, <1>6, <1>7 DEF Moves

LEMMA SetBurstMoves ==
    ASSUME GateInv, NEW p \in Push, SetBurst(p)
    PROVE  \E r \in PushRec :
              /\ Moves(p, r) /\ r.step = "reserve" /\ r.now = push[p].now /\ KeyIn(r) = KeyOf(p)
              /\ \A k \in Key \ {KeyOf(p)} : Keeps(r, p, k)
              /\ ~Owing(r, KeyOf(p)) /\ ~Owing(push[p], KeyOf(p))
              /\ Using(push[p], KeyOf(p)) /\ TimeIn(r, KeyOf(p)) = TimeIn(push[p], KeyOf(p))
              /\ TimeIn(push[p], KeyOf(p)) = push[p].now
  <1> DEFINE r == [push[p] EXCEPT !.step = "reserve"]
  <1>1. push[p].stage \in {"instance", "app"} /\ push[p].step = "burst"
    BY DEF SetBurst, At
  <1>2. /\ r \in PushRec /\ r.stage = push[p].stage /\ r.step = "reserve" /\ r.now = push[p].now
        /\ r.inst = push[p].inst /\ r.lim = push[p].lim /\ r.held = push[p].held
    BY OfPush DEF PushRec, Step
  <1>3. InOrder(r, clock) /\ KeyIn(r) = KeyOf(p) /\ KeyIn(push[p]) = KeyOf(p)
    BY <1>1, <1>2, OfPush DEF InOrder, KeyIn
  <1> HIDE DEF r
  <1>4. \A k \in Key \ {KeyOf(p)} : Keeps(r, p, k)
    BY <1>1, <1>2, <1>3, Kept
  <1>5. ~Owing(r, KeyOf(p)) /\ ~Owing(push[p], KeyOf(p)) /\ ~Holding(r, KeyOf(p)) /\ ~Holding(push[p], KeyOf(p))
    BY <1>1, <1>2, AtKey DEF Owing, Holding
  <1> QED
    BY <1>1, <1>2, <1>3, <1>4, <1>5 DEF Moves, SetBurst, r, Using, TimeIn

\* A push is granted the token of the bucket b it finds, or is going to cancel.
LEMMA ReserveMoves ==
    ASSUME GateInv, NEW p \in Push, Reserve(p), NEW b, b = ReserveN(bucket[KeyOf(p)], push[p].now),
           b.lastEvent \in Nat, b.perMin \in Nat \ {0}, bucket[KeyOf(p)].perMin \in Nat \ {0}
    PROVE  \E r \in PushRec :
              /\ Moves(p, r) /\ TimeIn(r, KeyOf(p)) = push[p].now
              /\ \A k \in Key \ {KeyOf(p)} : Keeps(r, p, k)
              /\ ~Owing(push[p], KeyOf(p)) /\ Owing(r, KeyOf(p))
              /\ IF b.lastEvent <= push[p].now THEN Holding(r, KeyOf(p)) /\ r.step = "clock"
                 ELSE /\ ~Holding(r, KeyOf(p)) /\ r.acts = b.lastEvent /\ r.now = push[p].now
                      /\ r.step = "cancel" /\ KeyIn(r) = KeyOf(p)
  <1> DEFINE k == KeyOf(p)
             t == push[p].now
  <1>1. /\ push[p].stage \in {"instance", "app"} /\ push[p].step = "reserve"
        /\ Become(p, IF b.lastEvent <= t THEN Hold(p, k)
                     ELSE [push[p] EXCEPT !.step = "cancel", !.acts = b.lastEvent, !.perMin = b.perMin])
    BY DEF Reserve, At
  <1>2. /\ k \in Key /\ t \in Nat /\ Recent(t, clock) /\ ~Holding(push[p], k) /\ InOrder(push[p], clock)
        /\ KeyIn(push[p]) = k /\ DOMAIN push[p].held = Holds(p) /\ Holds(p) \subseteq Key
    BY <1>1, OfPush, AtKey DEF InOrder
  <1>3. ~Owing(push[p], k)
    BY <1>1, <1>2 DEF Owing
  <1>4. CASE b.lastEvent <= t
    <2> DEFINE g    == Goto(p, NextStage(p))
               mine == [now |-> t, perMin |-> bucket[k].perMin]
               held == [h \in Holds(p) \cup {k} |-> IF h = k THEN mine ELSE push[p].held[h]]
               r    == Hold(p, k)
    <2>1. /\ g \in PushRec /\ g.stage = NextStage(p) /\ g.step = "clock" /\ g.now = 0
          /\ g.inst = push[p].inst /\ g.lim = push[p].lim
      BY OfPush DEF Goto, PushRec, Stage, Step, NextStage
    <2> HIDE DEF k
    <2>10. mine \in Grant /\ mine.now = t /\ mine.perMin > 0
      BY <1>2 DEF Grant, k
    <2> HIDE DEF mine
    <2>2. held \in [Holds(p) \cup {k} -> Grant] /\ Holds(p) \cup {k} \in SUBSET Key
      BY <1>2, <2>10, OfPush, KeyFcn
    <2>3. /\ held \in KeyFcns(Grant) /\ DOMAIN held = Holds(p) \cup {k} /\ held[k] = mine
          /\ \A h \in Holds(p) : held[h] = push[p].held[h]
      BY <1>2, <2>2 DEF KeyFcns, Holding
    <2>4. r = [g EXCEPT !.held = held]
      BY DEF Hold, mine
    <2> HIDE DEF g, held, r
    <2>5. /\ r \in PushRec /\ r.stage = NextStage(p) /\ r.step = "clock" /\ r.now = 0
          /\ r.inst = push[p].inst /\ r.lim = push[p].lim /\ r.held = held
      BY <2>1, <2>3, <2>4 DEF PushRec
    <2>6. InOrder(r, clock)
      <3>1. /\ push[p].inst \in Instance /\ DOMAIN push[p].lim = {push[p].inst, AppOf[push[p].inst]}
            /\ \A h \in Holds(p) : Recent(push[p].held[h].now, clock) /\ push[p].held[h].perMin > 0
            /\ \A h \in DOMAIN push[p].lim : push[p].lim[h] \in Limits[h]
            /\ Holds(p) \subseteq {push[p].inst, AppOf[push[p].inst]}
        BY <1>1, <1>2 DEF InOrder
      <3>2. /\ k \in {push[p].inst, AppOf[push[p].inst]}
            /\ NextStage(p) = "app" => k = push[p].inst /\ Holds(p) = {}
            /\ NextStage(p) \in {"app", "quota"}
        BY <1>1, AtKey DEF NextStage, k
      <3>3. \A h \in DOMAIN r.held : Recent(r.held[h].now, clock) /\ r.held[h].perMin > 0
        BY <1>2, <2>3, <2>5, <2>10, <3>1
      <3>4. 0 <= clock
        BY OfPush
      <3> HIDE DEF t
      <3> QED
        BY <2>3, <2>5, <3>1, <3>2, <3>3, <3>4 DEF InOrder
    <2>7. Holding(r, k) /\ TimeIn(r, k) = t /\ Owing(r, k)
      BY <2>3, <2>5, <2>10 DEF Owing, Holding, TimeIn
    <2>8. ASSUME NEW j \in Key \ {k} PROVE Keeps(r, p, j)
      <3>1. j \in DOMAIN r.held <=> j \in DOMAIN push[p].held
        BY <1>2, <2>3, <2>5
      <3>2. j \in DOMAIN r.held => r.held[j] = push[p].held[j]
        BY <1>2, <2>3, <2>5
      <3> QED
        BY <1>2, <2>5, <3>1, <3>2, Kept
    <2>9. Become(p, r)
      BY <1>1, <1>4 DEF r
    <2> QED
      BY <1>3, <1>4, <2>5, <2>6, <2>7, <2>8, <2>9 DEF Moves, k
  <1>5. CASE b.lastEvent > t
    <2> DEFINE r == [push[p] EXCEPT !.step = "cancel", !.acts = b.lastEvent, !.perMin = b.perMin]
    <2>1. /\ r \in PushRec /\ r.stage = push[p].stage /\ r.step = "cancel" /\ r.acts = b.lastEvent
          /\ r.perMin = b.perMin
          /\ r.inst = push[p].inst /\ r.lim = push[p].lim /\ r.held = push[p].held /\ r.now = t
      BY OfPush DEF PushRec, Step
    <2>2. Become(p, r)
      BY <1>1, <1>2, <1>5
    <2> HIDE DEF r
    <2>3. KeyIn(r) = k
      BY <1>2, <2>1 DEF KeyIn
    <2>4. InOrder(r, clock)
      BY <1>1, <1>2, <1>5, <2>1, <2>3 DEF InOrder
    <2>5. /\ ~Holding(r, k) /\ TimeIn(r, k) = t /\ Owing(r, k)
          /\ \A j \in Key \ {k} : Keeps(r, p, j)
      BY <1>1, <1>2, <2>1, <2>3 DEF Keeps, Owing, Holding, Using, TimeIn
    <2> QED
      BY <1>2, <1>3, <1>5, <2>1, <2>2, <2>3, <2>4, <2>5 DEF Moves
  <1> QED
    BY <1>2, <1>4, <1>5

LEMMA CancelDeniedMoves ==
    ASSUME GateInv, NEW p \in Push, CancelDenied(p)
    PROVE  \E r \in PushRec :
              /\ Moves(p, r) /\ r.step = "clock"
              /\ \A k \in Key \ {KeyOf(p)} : Keeps(r, p, k)
              /\ Owing(push[p], KeyOf(p)) /\ ~Using(r, KeyOf(p)) /\ ~Holding(push[p], KeyOf(p))
  <1>1. push[p].stage \in {"instance", "app"} /\ push[p].step = "cancel" /\ Denied(p) /\ Active(p)
    BY DEF CancelDenied, At, Active
  <1>2. PICK r \in PushRec : /\ InOrder(r, clock) /\ Become(p, r) /\ r.step = "clock"
                             /\ DOMAIN r.held = Holds(p) /\ \A k \in Holds(p) : r.held[k] = push[p].held[k]
    BY <1>1, DeniedMoves
  <1>3. ~Holding(push[p], KeyOf(p)) /\ KeyIn(push[p]) = KeyOf(p) /\ Holds(p) = DOMAIN push[p].held
    BY <1>1, AtKey, OfPush
  <1>4. \A k \in Key \ {KeyOf(p)} : Keeps(r, p, k)
    BY <1>2, <1>3, Kept
  <1>5. Owing(push[p], KeyOf(p)) /\ ~Using(r, KeyOf(p))
    BY <1>1, <1>2, <1>3 DEF Owing, Holding, Using
  <1> QED
    BY <1>2, <1>3, <1>4, <1>5 DEF Moves, CancelDenied

LEMMA QuotaAdmitsMoves ==
    ASSUME GateInv, NEW p \in Push, QuotaAdmits(p)
    PROVE  /\ Moves(p, NoPush) /\ \A k \in Key : ~Using(NoPush, k)
           /\ \A k \in Key : Owing(push[p], k) <=> Holding(push[p], k)
  <1>1. push[p].step = "clock" /\ Become(p, NoPush)
    BY OfPush DEF QuotaAdmits, InOrder
  <1>2. InOrder(NoPush, clock) /\ NoPush \in PushRec
    BY OfPush, IdleInOrder DEF InOrder
  <1>3. \A k \in Key : ~Using(NoPush, k)
    BY OfPush, IdleInOrder DEF Owing, Using, Holding
  <1>4. \A k \in Key : Owing(push[p], k) <=> Holding(push[p], k)
    BY <1>1 DEF Owing, Holding
  <1> QED
    BY <1>1, <1>2, <1>3, <1>4 DEF Moves

LEMMA QuotaDeniesMoves ==
    ASSUME GateInv, NEW p \in Push, QuotaDenies(p)
    PROVE  \E r \in PushRec : Moves(p, r) /\ r.step = "clock" /\ \A k \in Key : Keeps(r, p, k)
  <1>1. push[p].stage = "quota" /\ push[p].step = "clock" /\ Denied(p) /\ Active(p)
    BY OfPush DEF QuotaDenies, Active, InOrder
  <1>2. PICK r \in PushRec : /\ InOrder(r, clock) /\ Become(p, r) /\ r.step = "clock"
                             /\ DOMAIN r.held = Holds(p) /\ \A k \in Holds(p) : r.held[k] = push[p].held[k]
    BY <1>1, DeniedMoves
  <1>3. \A k \in Key : Keeps(r, p, k)
    BY <1>1, <1>2, Kept DEF Holds
  <1> QED
    BY <1>2, <1>3 DEF Moves

LEMMA RefundMoves ==
    ASSUME GateInv, NEW p \in Push, NEW k \in Key, Refund(p, k)
    PROVE  \E r \in PushRec :
              /\ Moves(p, r) /\ r.step = "clock"
              /\ \A j \in Key \ {k} : Keeps(r, p, j)
              /\ Holding(push[p], k) /\ ~Using(r, k) /\ Recent(push[p].held[k].now, clock)
              /\ push[p].held[k].perMin \in Nat \ {0}
  <1>1. /\ push[p].stage = "undo" /\ push[p].step = "clock" /\ k \in Holds(p) /\ Active(p)
        /\ InOrder(push[p], clock)
    BY OfPush DEF Refund, Active, InOrder
  <1>2. Holding(push[p], k) /\ Recent(push[p].held[k].now, clock) /\ push[p].held[k].perMin \in Nat \ {0}
    <2>1. push[p].held[k] \in Grant
      BY <1>1, OfPush DEF Holds
    <2> QED
      BY <1>1, <2>1 DEF Holding, Holds, InOrder, Grant
  <1>3. CASE Holds(p) = {k}
    <2>1. Become(p, NoPush)
      BY <1>3 DEF Refund
    <2>2. \A j \in Key \ {k} : Keeps(NoPush, p, j)
      BY <1>1, <1>3, OfPush, IdleInOrder DEF Keeps, Owing, Holding, Holds, Using
    <2>3. ~Using(NoPush, k)
      BY OfPush, IdleInOrder DEF Using, Owing, Holding
    <2> QED
      BY <1>2, <2>1, <2>2, <2>3, OfPush, IdleInOrder DEF Moves, InOrder
  <1>4. CASE Holds(p) # {k}
    <2> DEFINE held == [h \in Holds(p) \ {k} |-> push[p].held[h]]
               r    == [push[p] EXCEPT !.held = held]
    <2>1. held \in [Holds(p) \ {k} -> Grant] /\ Holds(p) \ {k} \in SUBSET Key
      BY OfPush, KeyFcn
    <2>2. /\ held \in KeyFcns(Grant) /\ DOMAIN held = Holds(p) \ {k}
          /\ \A h \in Holds(p) \ {k} : held[h] = push[p].held[h]
      BY <2>1 DEF KeyFcns
    <2>3. Become(p, r)
      BY <1>4 DEF Refund
    <2> HIDE DEF held
    <2>4. /\ r \in PushRec /\ r.stage = "undo" /\ r.step = "clock" /\ r.now = push[p].now
          /\ r.inst = push[p].inst /\ r.lim = push[p].lim /\ r.held = held
      BY <1>1, <2>2, OfPush DEF PushRec
    <2> HIDE DEF r
    <2>5. InOrder(r, clock)
      BY <1>1, <2>2, <2>4, OfPush DEF InOrder, Holds
    <2>6. ~Using(r, k)
      BY <2>2, <2>4 DEF Owing, Holding, Using
    <2>7. ASSUME NEW j \in Key \ {k} PROVE Keeps(r, p, j)
      <3>1. j \in DOMAIN r.held <=> j \in DOMAIN push[p].held
        BY <2>2, <2>4, OfPush
      <3>2. j \in DOMAIN r.held => r.held[j] = push[p].held[j]
        BY <2>2, <2>4
      <3> QED
        BY <1>1, <2>4, <3>1, <3>2, Kept
    <2> QED
      BY <1>2, <2>3, <2>4, <2>5, <2>6, <2>7 DEF Moves
  <1> QED
    BY <1>3, <1>4

-----------------------------------------------------------------------------
\* The buckets.

LEMMA FitsType ==
    ASSUME NEW k \in Key, NEW b, NEW t \in Nat, Fits(b, k, t)
    PROVE  /\ b \in Bucket /\ b # None /\ b.perMin \in Nat \ {0} /\ b.burst \in Nat \ {0} /\ b.tokens \in Int
           /\ b.last \in Nat /\ b.seen \in Nat /\ b.lastEvent \in Nat
           /\ Token * b.burst \in Nat /\ Token * MaxBurst(k) \in Nat /\ Token * b.burst <= Token * MaxBurst(k)
           /\ \A s \in Nat : Advance(b, s) \in Int /\ Advance(b, s) <= Token * MaxBurst(k)
  <1>1. b \in Bucket /\ b # None
    BY NoneIsNoBucket DEF Fits
  <1>2. /\ b.perMin \in Nat \ {0} /\ b.burst \in Nat \ {0} /\ b.tokens \in Int
        /\ b.last \in Nat /\ b.seen \in Nat /\ b.lastEvent \in Nat
    BY <1>1, OfBucket
  <1>3. MaxBurst(k) \in Nat /\ b.burst <= MaxBurst(k)
    BY MostOf DEF Fits
  <1>4. Token * b.burst \in Nat /\ Token * MaxBurst(k) \in Nat /\ Token * b.burst <= Token * MaxBurst(k)
    BY <1>2, <1>3, Capacity
  <1>5. ASSUME NEW s \in Nat PROVE Advance(b, s) \in Int /\ Advance(b, s) <= Token * MaxBurst(k)
    <2>1. Advance(b, s) \in Int /\ Advance(b, s) <= Token * b.burst
      BY <1>1, Advanced
    <2> QED
      BY <1>4, <2>1
  <1> QED
    BY <1>1, <1>2, <1>4, <1>5

\* The bucket that a push with the limits lim finds or makes at t.
LEMMA SyncedFits ==
    ASSUME GateInv, NEW k \in Key, NEW t, Recent(t, clock), NEW lim \in Limits[k], lim.perMin > 0,
           NEW d, d = Synced(bucket[k], t, lim, None)
    PROVE  Fits(d, k, clock) /\ d.seen = t
  <1> DEFINE b == bucket[k]
  <1>1. clock \in Nat /\ MaxStall \in Nat /\ t \in Nat /\ t <= clock /\ clock <= t + MaxStall
    BY Bounds DEF GateInv, Counted, Recent
  <1>2. /\ lim \in Limit /\ lim.perMin \in Nat \ {0} /\ lim.perMin <= MaxRate(k)
        /\ Burst(lim) \in Nat \ {0} /\ Burst(lim) <= MaxBurst(k) /\ MaxBurst(k) \in Nat
    BY MostOf
  <1>3. /\ Token * Burst(lim) \in Nat /\ Token * Burst(lim) <= Token * MaxBurst(k)
        /\ Token * MaxBurst(k) \in Nat
    BY <1>2, Capacity
  <1>4. CASE b = None
    <2>1. d = NewBucket(lim, t)
      BY <1>4 DEF Synced
    <2>2. /\ d \in Bucket /\ d.perMin = lim.perMin /\ d.burst = Burst(lim) /\ d.tokens = Token * Burst(lim)
          /\ d.last = 0 /\ d.seen = t
      BY <1>1, <1>2, <1>3, <2>1 DEF NewBucket, Bucket
    <2> QED
      BY <1>1, <1>2, <1>3, <2>2 DEF Fits
  <1>5. CASE b # None
    <2> DEFINE c == IF Differs(b, lim, None) THEN SetLimitAt(b, t, lim) ELSE b
    <2>1. d = [c EXCEPT !.seen = t] /\ Fits(b, k, clock)
      BY <1>5 DEF Synced, GateInv, BucketsFit
    <2>2. b \in Bucket /\ Advance(b, t) <= Token * MaxBurst(k) /\ b.last \in Nat /\ b.seen \in Nat
      BY <1>1, <2>1, FitsType
    <2> HIDE DEF b
    <2>3. /\ c \in Bucket /\ c.perMin \in {b.perMin, lim.perMin} /\ c.burst = b.burst
          /\ c.tokens \in {b.tokens, Advance(b, t)} /\ c.last \in {b.last, t}
      <3>1. CASE Differs(b, lim, None)
        <4>1. c = SetLimitAt(b, t, lim)
          BY <3>1
        <4> HIDE DEF c
        <4>2. c \in Bucket /\ c.perMin = lim.perMin /\ c.burst = b.burst /\ c.tokens = Advance(b, t) /\ c.last = t
          <5>1. t \in Nat /\ b \in Bucket /\ lim \in Limit
            BY <1>1, <1>2, <2>2
          <5> QED
            BY <4>1, <5>1, SetLimit
        <4> QED
          BY <4>2
      <3>2. CASE ~Differs(b, lim, None)
        BY <2>2, <3>2
      <3> QED
        BY <3>1, <3>2
    <2> HIDE DEF c
    <2>4. /\ d \in Bucket /\ d.perMin = c.perMin /\ d.burst = c.burst /\ d.tokens = c.tokens
          /\ d.last = c.last /\ d.seen = t
      BY <1>1, <2>1, <2>3 DEF Bucket
    <2>5. d.perMin <= MaxRate(k) /\ d.burst <= MaxBurst(k) /\ d.tokens <= Token * MaxBurst(k)
      BY <1>2, <2>1, <2>2, <2>3, <2>4 DEF Fits
    <2>6. d.last <= clock /\ d.last <= d.seen + MaxStall
      BY <1>1, <2>1, <2>2, <2>3, <2>4 DEF Fits
    <2> QED
      BY <1>1, <2>4, <2>5, <2>6 DEF Fits
  <1> QED
    BY <1>4, <1>5

LEMMA SetBurstFits ==
    ASSUME GateInv, NEW k \in Key, NEW t, Recent(t, clock), NEW b, Fits(b, k, clock),
           t <= b.seen + MaxStall, NEW lim \in Limits[k], NEW d, d = SetBurstAt(b, t, lim)
    PROVE  Fits(d, k, clock) /\ d.seen = b.seen
  <1>1. clock \in Nat /\ t \in Nat /\ t <= clock
    BY Bounds DEF GateInv, Counted, Recent
  <1>2. b \in Bucket /\ Advance(b, t) <= Token * MaxBurst(k)
    BY <1>1, FitsType
  <1>3. lim \in Limit /\ Burst(lim) <= MaxBurst(k)
    BY MostOf
  <1>4. /\ d \in Bucket /\ d.perMin = b.perMin /\ d.burst = Burst(lim) /\ d.tokens = Advance(b, t)
        /\ d.last = t /\ d.seen = b.seen
    BY <1>1, <1>2, <1>3, SetBurstTo
  <1> QED
    BY <1>1, <1>2, <1>3, <1>4 DEF Fits

LEMMA ReservedFits ==
    ASSUME GateInv, NEW k \in Key, NEW t, Recent(t, clock), NEW b, Fits(b, k, clock),
           t <= b.seen + MaxStall, NEW d, d = ReserveN(b, t)
    PROVE  Fits(d, k, clock) /\ d.seen = b.seen
  <1>1. clock \in Nat /\ t \in Nat /\ t <= clock /\ Token \in Nat
    BY Bounds DEF GateInv, Counted, Recent
  <1>2. b \in Bucket /\ Advance(b, t) \in Int /\ Advance(b, t) <= Token * MaxBurst(k) /\ Token * MaxBurst(k) \in Nat
    BY <1>1, FitsType
  <1>3. /\ d \in Bucket /\ d.perMin = b.perMin /\ d.burst = b.burst /\ d.last = t /\ d.seen = b.seen
        /\ d.tokens = Advance(b, t) - Token
    <2>1. b \in Bucket /\ t \in Nat
      BY <1>1, <1>2
    <2> QED
      BY <2>1, Reserved
  <1> QED
    BY <1>1, <1>2, <1>3 DEF Fits

LEMMA CancelledFits ==
    ASSUME GateInv, NEW k \in Key, NEW t, Recent(t, clock), NEW b, Fits(b, k, clock),
           t <= b.seen + MaxStall, NEW acts \in Nat, acts >= t, NEW perMin \in Nat \ {0},
           NEW d, d = CancelAt(b, acts, perMin, t)
    PROVE  Fits(d, k, clock) /\ d.seen = b.seen
  <1>1. clock \in Nat /\ t \in Nat /\ t <= clock /\ b \in Bucket
    BY Bounds DEF GateInv, Counted, Recent, Fits
  <1>2. CASE d = b
    BY <1>2
  <1>3. CASE GivenBack(b, d, acts, perMin, t)
    <2>1. Token * b.burst <= Token * MaxBurst(k) /\ Token * b.burst \in Nat /\ Token * MaxBurst(k) \in Nat
      BY <1>1, FitsType
    <2>2. Advance(b, t) \in Int /\ Restored(b, acts, perMin) \in Int
      BY <1>1, Advanced, RestoredIsInt
    <2>3. d.tokens <= Token * MaxBurst(k)
      BY <1>3, <2>1, <2>2 DEF GivenBack
    <2> QED
      BY <1>1, <1>3, <2>3 DEF Fits, GivenBack
  <1> QED
    BY <1>1, <1>2, <1>3, Cancelled

\* What a step at a key adds to what it has gained.
LEMMA GainsMore ==
    ASSUME GateInv, NEW k \in Key, NEW d \in Bucket, bucket' = [bucket EXCEPT ![k] = d],
           NEW n \in Nat, Gains(k, n)
    PROVE  /\ gained' \in [Key -> Nat] /\ gained'[k] = gained[k] + PutBack(k) + n
           /\ \A j \in Key \ {k} : gained'[j] = gained[j]
           /\ PutBack(k) \in Nat /\ gained[k] \in Nat
           /\ bucket[k] # None => /\ PutBack(k) >= MaxRate(k) * (bucket[k].last - d.last)
                                  /\ bucket[k].last <= d.last => PutBack(k) = 0
  <1>1. bucket'[k] = d /\ d.last \in Nat /\ (bucket[k] # None => bucket[k].last \in Nat) /\ MaxRate(k) \in Nat
    BY MostOf DEF GateInv, BucketsFit, Bucket
  <1>2. CASE bucket[k] = None
    BY <1>2 DEF PutBack, Gains, GateInv, Counted
  <1>3. CASE bucket[k] # None
    <2> DEFINE back == Max({0, bucket[k].last - d.last})
    <2>1. bucket[k].last - d.last \in Int
      BY <1>1, <1>3
    <2>2. PutBack(k) = MaxRate(k) * back
      BY <1>1, <1>3 DEF PutBack
    <2>3. back = IF 0 >= bucket[k].last - d.last THEN 0 ELSE bucket[k].last - d.last
      BY <2>1, MaxOfTwo
    <2> HIDE DEF back
    <2>4. back \in Nat /\ bucket[k].last - d.last <= back /\ (bucket[k].last <= d.last => back = 0)
      BY <1>1, <1>3, <2>1, <2>3
    <2>5. PutBack(k) \in Nat /\ PutBack(k) >= MaxRate(k) * (bucket[k].last - d.last)
      BY <1>1, <2>1, <2>2, <2>4, Rated
    <2>6. bucket[k].last <= d.last => PutBack(k) = 0
      BY <1>1, <2>2, <2>4, Rated
    <2> QED
      BY <1>3, <2>5, <2>6 DEF Gains, GateInv, Counted
  <1> QED
    BY <1>2, <1>3

\* Push p gets to the bucket of key k and leaves it as d.
LEMMA Access ==
    ASSUME GateInv, NEW p \in Push, NEW k \in Key, NEW r, Moves(p, r), clock' = clock,
           NEW d, Fits(d, k, clock), bucket' = [bucket EXCEPT ![k] = d],
           clock <= d.seen + MaxStall \/ (bucket[k] # None /\ d.seen = bucket[k].seen),
           \A j \in Key : Using(r, j) =>
               \/ Using(push[p], j) /\ TimeIn(r, j) = TimeIn(push[p], j)
               \/ j = k /\ clock <= d.seen + MaxStall
    PROVE  PushesInOrder' /\ BucketsFit' /\ UsedBucketsStay'
  <1>1. /\ PushesInOrder' /\ push'[p] = r /\ \A q \in Push \ {p} : push'[q] = push[q]
    BY OnlyOne DEF Moves
  <1>2. /\ clock \in Nat /\ MaxStall \in Nat /\ d \in Bucket /\ d # None /\ d.seen \in Nat
    BY Bounds, FitsType DEF GateInv, Counted
  <1>3. BucketsFit'
    <2>1. bucket' \in [Key -> Bucket \cup {None}]
      BY <1>2 DEF GateInv, BucketsFit
    <2>2. \A j \in Key : bucket'[j] # None => Fits(bucket'[j], j, clock)
      BY DEF GateInv, BucketsFit
    <2> QED
      BY <2>1, <2>2 DEF BucketsFit
  <1>4. ASSUME NEW q \in Push, NEW j \in Key PROVE Stays(push'[q], j, bucket'[j])
    <2> SUFFICES ASSUME Using(push'[q], j)
                 PROVE  bucket'[j] # None /\ TimeIn(push'[q], j) <= bucket'[j].seen + MaxStall
      BY DEF Stays
    <2>1. InOrder(push'[q], clock)
      BY <1>1 DEF PushesInOrder
    <2>2. TimeIn(push'[q], j) \in Nat /\ TimeIn(push'[q], j) <= clock
      <3>1. CASE Holding(push'[q], j)
        BY <2>1, <3>1 DEF InOrder, Holding, TimeIn, Recent
      <3>2. CASE ~Holding(push'[q], j)
        <4>1. push'[q].step # "clock" /\ TimeIn(push'[q], j) = push'[q].now
          BY <3>2 DEF Using, Owing, TimeIn
        <4> QED
          BY <2>1, <4>1 DEF InOrder, Recent
      <3> QED
        BY <3>1, <3>2
    <2>3. CASE j = k /\ clock <= d.seen + MaxStall
      <3>1. bucket'[j] = d
        BY <2>3 DEF GateInv, BucketsFit
      <3> QED
        BY <1>2, <2>2, <2>3, <3>1
    <2>4. CASE ~(j = k /\ clock <= d.seen + MaxStall)
      <3>1. Using(push[q], j) /\ TimeIn(push'[q], j) = TimeIn(push[q], j)
        <4>1. CASE q = p
          BY <1>1, <2>4, <4>1
        <4>2. CASE q # p
          BY <1>1, <4>2
        <4> QED
          BY <4>1, <4>2
      <3>2. bucket[j] # None /\ TimeIn(push[q], j) <= bucket[j].seen + MaxStall
        BY <3>1 DEF GateInv, UsedBucketsStay, Stays
      <3>3. bucket'[j] # None /\ bucket'[j].seen = bucket[j].seen
        BY <1>2, <2>4, <3>2 DEF GateInv, BucketsFit
      <3> QED
        BY <3>1, <3>2, <3>3
    <2> QED
      BY <2>3, <2>4
  <1>5. UsedBucketsStay'
    BY <1>4 DEF UsedBucketsStay
  <1> QED
    BY <1>1, <1>3, <1>5

\* Push p moves on and no bucket changes.
LEMMA NoAccess ==
    ASSUME GateInv, NEW p \in Push, NEW r, Moves(p, r), clock' = clock, bucket' = bucket,
           \A j \in Key : Using(r, j) => Using(push[p], j) /\ TimeIn(r, j) = TimeIn(push[p], j)
    PROVE  PushesInOrder' /\ BucketsFit' /\ UsedBucketsStay'
  <1>1. /\ PushesInOrder' /\ push'[p] = r /\ \A q \in Push \ {p} : push'[q] = push[q]
    BY OnlyOne DEF Moves
  <1>2. BucketsFit'
    BY DEF GateInv, BucketsFit
  <1>3. ASSUME NEW q \in Push, NEW j \in Key PROVE Stays(push'[q], j, bucket'[j])
    <2>1. Using(push'[q], j) => Using(push[q], j) /\ TimeIn(push'[q], j) = TimeIn(push[q], j)
      BY <1>1
    <2> QED
      BY <2>1 DEF Stays, GateInv, UsedBucketsStay
  <1>4. UsedBucketsStay'
    BY <1>3 DEF UsedBucketsStay
  <1> QED
    BY <1>1, <1>2, <1>4

\* No bucket is made.
LEMMA NoneMade ==
    ASSUME GateInv, clock' = clock, evicted' = evicted, \A k \in Key : bucket[k] = None => bucket'[k] = None
    PROVE  EvictedFit'
  BY DEF GateInv, EvictedFit

\* The map of push p's limiter is not locked by it, or by it alone.
LEMMA NotResyncing ==
    ASSUME GateInv, NEW p \in Push, NEW r, Moves(p, r), clock' = clock,
           r.step = "burst" => MapFree(r.stage)
    PROVE  OneResyncs'
  <1>1. push'[p] = r /\ \A q \in Push \ {p} : push'[q] = push[q]
    BY OnlyOne DEF Moves
  <1>2. \A q \in Push : r.step = "burst" => ~(push[q].stage = r.stage /\ push[q].step = "burst")
    BY DEF MapFree
  <1>3. SUFFICES ASSUME NEW q \in Push, NEW o \in Push, push'[q].step = "burst", push'[o].step = "burst",
                        push'[q].stage = push'[o].stage, q # o
                 PROVE  FALSE
    BY DEF OneResyncs
  <1>4. CASE q # p /\ o # p
    BY <1>1, <1>3, <1>4 DEF GateInv, OneResyncs
  <1>5. CASE q = p
    BY <1>1, <1>2, <1>3, <1>5
  <1>6. CASE o = p
    BY <1>1, <1>2, <1>3, <1>6
  <1> QED
    BY <1>4, <1>5, <1>6

-----------------------------------------------------------------------------
\* Every step keeps the pushes and the buckets in order.

LEMMA InitInv == Init => GateInv
  <1> SUFFICES ASSUME Init PROVE GateInv
    OBVIOUS
  <1>1. clock = 0 /\ pushes = 0 /\ overlapped = FALSE /\ push = [p \in Push |-> NoPush]
        /\ bucket = [k \in Key |-> None] /\ evicted = [k \in Key |-> None]
    BY DEF Init
  <1>2. Counted
    <2>2. overlapped \in BOOLEAN
      BY <1>1
    <2>3. admitted \in [Key -> Nat] /\ gained \in [Key -> Nat] /\ renewed \in [Key -> Nat]
      BY DEF Init
    <2> QED
      BY <1>1, <2>2, <2>3, Bounds DEF Counted
  <1>3. PushesInOrder
    <2>1. InOrder(NoPush, clock)
      BY <1>1, IdleInOrder
    <2>2. NoPush \in PushRec
      BY <2>1 DEF InOrder
    <2> QED
      BY <1>1, <2>1, <2>2 DEF PushesInOrder
  <1>4. BucketsFit /\ EvictedFit
    BY <1>1 DEF BucketsFit, EvictedFit
  <1>5. UsedBucketsStay
    BY <1>1, IdleInOrder DEF UsedBucketsStay, Stays, Using, Owing, Holding
  <1>6. OneResyncs
    BY <1>1, IdleInOrder, Bounds DEF OneResyncs
  <1> QED
    BY <1>2, <1>3, <1>4, <1>5, <1>6 DEF GateInv

\* A push that no bucket is concerned in.
LEMMA StillInOrder ==
    ASSUME GateInv, NEW p \in Push, NEW r, Moves(p, r), r.step # "burst", \A k \in Key : Keeps(r, p, k),
           clock' = clock, bucket' = bucket, evicted' = evicted
    PROVE  PushesInOrder' /\ BucketsFit' /\ EvictedFit' /\ UsedBucketsStay' /\ OneResyncs'
  <1>1. EvictedFit' /\ OneResyncs'
    BY NoneMade, NotResyncing
  <1> QED
    BY <1>1, NoAccess DEF Keeps

LEMMA AdmitInv == ASSUME GateInv, NEW p \in Push, NEW i \in Instance, Admit(p, i) PROVE GateInv'
  <1>1. PushesInOrder' /\ BucketsFit' /\ EvictedFit' /\ UsedBucketsStay' /\ OneResyncs'
    BY AdmitMoves, StillInOrder DEF Admit
  <1>2. overlapped' \in BOOLEAN
    BY DEF Admit
  <1>3. Counted'
    BY <1>2, Bounds DEF Admit, GateInv, Counted
  <1> QED
    BY <1>1, <1>3 DEF GateInv

LEMMA UnlimitedInv == ASSUME GateInv, NEW p \in Push, Unlimited(p) PROVE GateInv'
  <1>1. PushesInOrder' /\ BucketsFit' /\ EvictedFit' /\ UsedBucketsStay' /\ OneResyncs'
    BY UnlimitedMoves, StillInOrder DEF Unlimited, ghosts
  <1>2. Counted'
    BY DEF Unlimited, ghosts, GateInv, Counted
  <1> QED
    BY <1>1, <1>2 DEF GateInv

LEMMA ReadClockInv == ASSUME GateInv, NEW p \in Push, ReadClock(p) PROVE GateInv'
  <1>1. PushesInOrder' /\ BucketsFit' /\ EvictedFit' /\ UsedBucketsStay' /\ OneResyncs'
    BY ReadClockMoves, StillInOrder DEF ReadClock, ghosts
  <1>2. Counted'
    BY DEF ReadClock, ghosts, GateInv, Counted
  <1> QED
    BY <1>1, <1>2 DEF GateInv

LEMMA QuotaDeniesInv == ASSUME GateInv, NEW p \in Push, QuotaDenies(p) PROVE GateInv'
  <1>1. PushesInOrder' /\ BucketsFit' /\ EvictedFit' /\ UsedBucketsStay' /\ OneResyncs'
    BY QuotaDeniesMoves, StillInOrder DEF QuotaDenies, ghosts
  <1>2. Counted'
    BY DEF QuotaDenies, ghosts, GateInv, Counted
  <1> QED
    BY <1>1, <1>2 DEF GateInv

LEMMA QuotaAdmitsInv == ASSUME GateInv, NEW p \in Push, QuotaAdmits(p) PROVE GateInv'
  <1>1. PushesInOrder' /\ BucketsFit' /\ UsedBucketsStay'
    BY QuotaAdmitsMoves, NoAccess DEF QuotaAdmits
  <1>2. EvictedFit' /\ OneResyncs'
    <2>1. NoPush.step # "burst"
      BY DEF NoPush
    <2> QED
      BY <2>1, QuotaAdmitsMoves, NoneMade, NotResyncing DEF QuotaAdmits
  <1>3. admitted' \in [Key -> Nat]
    BY DEF QuotaAdmits, GateInv, Counted
  <1>4. Counted'
    BY <1>3 DEF QuotaAdmits, GateInv, Counted
  <1> QED
    BY <1>1, <1>2, <1>4 DEF GateInv

\* The bucket that BucketAt finds or makes.
LEMMA BucketAtFinds ==
    ASSUME GateInv, NEW p \in Push, BucketAt(p), NEW k, k = KeyOf(p), NEW lim, lim = push[p].lim[k]
    PROVE  /\ k \in Key /\ Recent(push[p].now, clock) /\ lim \in Limits[k] /\ lim.perMin > 0
           /\ bucket' = [bucket EXCEPT ![k] = Synced(bucket[k], push[p].now, lim, None)]
           /\ ideal' = [ideal EXCEPT ![k] = Synced(@, push[p].now, lim, None)]
           /\ Gains(k, 0) /\ UNCHANGED <<clock, pushes, admitted, overlapped>>
           /\ Fits(bucket'[k], k, clock) /\ bucket'[k] = Synced(bucket[k], push[p].now, lim, None)
           /\ bucket'[k].seen = push[p].now /\ bucket'[k] \in Bucket
           /\ bucket' = [bucket EXCEPT ![k] = bucket'[k]]
           /\ evicted' = [evicted EXCEPT ![k] = None]
           /\ renewed' = [renewed EXCEPT ![k] = @ + Renewal(k)]
           /\ MapFree(push[p].stage)
  <1>1. push[p].stage \in {"instance", "app"} /\ push[p].step = "bucket"
    BY DEF BucketAt, At
  <1>2. k \in Key /\ k \in DOMAIN push[p].lim /\ KeyIn(push[p]) = k
    BY <1>1, AtKey, OfPush
  <1>3. Recent(push[p].now, clock) /\ lim \in Limits[k] /\ lim.perMin > 0
    BY <1>1, <1>2, OfPush DEF InOrder
  <1>4. /\ bucket' = [bucket EXCEPT ![k] = Synced(bucket[k], push[p].now, lim, None)]
        /\ ideal' = [ideal EXCEPT ![k] = Synced(@, push[p].now, lim, None)]
        /\ Gains(k, 0) /\ UNCHANGED <<clock, pushes, admitted, overlapped>>
        /\ evicted' = [evicted EXCEPT ![k] = None]
        /\ renewed' = [renewed EXCEPT ![k] = @ + Renewal(k)]
        /\ MapFree(push[p].stage)
    BY DEF BucketAt
  <1>5. bucket'[k] = Synced(bucket[k], push[p].now, lim, None)
    BY <1>2, <1>4 DEF GateInv, BucketsFit
  <1>6. Fits(bucket'[k], k, clock) /\ bucket'[k].seen = push[p].now
    BY <1>2, <1>3, <1>5, SyncedFits
  <1> QED
    BY <1>2, <1>3, <1>4, <1>5, <1>6 DEF Fits

\* What a new bucket is more than the one evicted is counted.
LEMMA Renewed ==
    ASSUME GateInv, NEW k \in Key, bucket'[k] \in Bucket, renewed' = [renewed EXCEPT ![k] = @ + Renewal(k)]
    PROVE  /\ renewed' \in [Key -> Nat] /\ renewed'[k] = renewed[k] + Renewal(k)
           /\ \A j \in Key \ {k} : renewed'[j] = renewed[j]
           /\ Renewal(k) \in Nat /\ Earliest \in Nat /\ Earliest = IF clock >= MaxStall THEN clock - MaxStall ELSE 0
           /\ bucket[k] = None /\ evicted[k] # None => Renewal(k) >= bucket'[k].tokens - Advance(evicted[k], Earliest)
  <1>1. clock \in Nat /\ MaxStall \in Nat /\ 0 \in Int /\ clock - MaxStall \in Int
    BY Bounds DEF GateInv, Counted
  <1>2. Earliest = IF clock >= MaxStall THEN clock - MaxStall ELSE 0
    BY DEF Earliest
  <1>3. Earliest \in Nat /\ Earliest = IF clock >= MaxStall THEN clock - MaxStall ELSE 0
    BY <1>1, <1>2
  <1>4. CASE bucket[k] # None \/ evicted[k] = None
    BY <1>3, <1>4 DEF Renewal, GateInv, Counted
  <1>5. CASE bucket[k] = None /\ evicted[k] # None
    <2> DEFINE more == bucket'[k].tokens - Advance(evicted[k], Earliest)
    <2>1. evicted[k] \in Bucket
      BY <1>5 DEF GateInv, EvictedFit
    <2>2. Advance(evicted[k], Earliest) \in Int /\ bucket'[k].tokens \in Int
      BY <1>3, <2>1, Advanced, OfBucket
    <2>3. more \in Int /\ 0 \in Int
      BY <2>2
    <2>4. Renewal(k) = Max({0, more})
      BY <1>5 DEF Renewal
    <2> HIDE DEF more
    <2>5. Renewal(k) = IF 0 >= more THEN 0 ELSE more
      BY <2>3, <2>4, MaxOfTwo, Zenon
    <2>6. Renewal(k) \in Nat /\ Renewal(k) >= more
      BY <2>3, <2>5
    <2> QED
      BY <1>3, <1>5, <2>6 DEF GateInv, Counted, more
  <1> QED
    BY <1>4, <1>5

LEMMA BucketAtInv == ASSUME GateInv, NEW p \in Push, BucketAt(p) PROVE GateInv'
  <1> DEFINE k == KeyOf(p)
  <1>1. /\ k \in Key /\ Recent(push[p].now, clock) /\ Gains(k, 0)
        /\ UNCHANGED <<clock, pushes, admitted, overlapped>>
        /\ Fits(bucket'[k], k, clock) /\ bucket'[k].seen = push[p].now /\ bucket'[k] \in Bucket
        /\ bucket' = [bucket EXCEPT ![k] = bucket'[k]]
        /\ evicted' = [evicted EXCEPT ![k] = None]
        /\ renewed' = [renewed EXCEPT ![k] = @ + Renewal(k)] /\ MapFree(push[p].stage)
    BY BucketAtFinds
  <1>2. PICK r \in PushRec : Moves(p, r) /\ r.stage = push[p].stage /\ \A j \in Key \ {k} : Keeps(r, p, j)
    BY BucketAtMoves
  <1> HIDE DEF k
  <1>3. clock <= bucket'[k].seen + MaxStall
    BY <1>1, Bounds, OfPush DEF Recent
  <1>4. PushesInOrder' /\ BucketsFit' /\ UsedBucketsStay'
    BY <1>1, <1>2, <1>3, Access DEF Keeps
  <1>5. Counted'
    BY <1>1, GainsMore, Renewed DEF GateInv, Counted
  <1>6. EvictedFit'
    BY <1>1 DEF GateInv, EvictedFit, BucketsFit
  <1>7. OneResyncs'
    BY <1>1, <1>2, NotResyncing
  <1> QED
    BY <1>4, <1>5, <1>6, <1>7 DEF GateInv

\* The bucket of a push at work on it is still there.
LEMMA StillFound ==
    ASSUME GateInv, NEW p \in Push, At(p, "burst") \/ At(p, "reserve"), NEW k, k = KeyOf(p)
    PROVE  /\ k \in Key /\ Recent(push[p].now, clock) /\ bucket[k] # None /\ Fits(bucket[k], k, clock)
           /\ push[p].now <= bucket[k].seen + MaxStall
           /\ push[p].lim[k] \in Limits[k] /\ ~Owing(push[p], k)
           /\ Using(push[p], k) /\ TimeIn(push[p], k) = push[p].now
  <1>1. push[p].stage \in {"instance", "app"} /\ push[p].step \in {"burst", "reserve"}
    BY DEF At
  <1>2. k \in Key /\ KeyIn(push[p]) = k /\ ~Holding(push[p], k) /\ k \in DOMAIN push[p].lim
    BY <1>1, AtKey, OfPush
  <1>3. Recent(push[p].now, clock) /\ push[p].lim[k] \in Limits[k]
    BY <1>1, <1>2, OfPush DEF InOrder
  <1>4. Using(push[p], k) /\ TimeIn(push[p], k) = push[p].now /\ ~Owing(push[p], k)
    BY <1>1, <1>2 DEF Using, Owing, TimeIn
  <1>5. bucket[k] # None /\ push[p].now <= bucket[k].seen + MaxStall
    BY <1>2, <1>4 DEF GateInv, UsedBucketsStay, Stays
  <1>6. Fits(bucket[k], k, clock)
    BY <1>2, <1>5 DEF GateInv, BucketsFit
  <1> QED
    BY <1>2, <1>3, <1>4, <1>5, <1>6

LEMMA SetBurstFinds ==
    ASSUME GateInv, NEW p \in Push, SetBurst(p), NEW k, k = KeyOf(p), NEW lim, lim = push[p].lim[k]
    PROVE  /\ k \in Key /\ Recent(push[p].now, clock) /\ bucket[k] # None /\ Fits(bucket[k], k, clock)
           /\ lim \in Limits[k]
           /\ ideal' = [ideal EXCEPT ![k] = SetBurstAt(@, push[p].now, lim)]
           /\ Gains(k, 0) /\ UNCHANGED <<clock, pushes, admitted, evicted, renewed, overlapped>>
           /\ Fits(bucket'[k], k, clock) /\ bucket'[k] = SetBurstAt(bucket[k], push[p].now, lim)
           /\ bucket'[k].seen = bucket[k].seen /\ bucket'[k] \in Bucket
           /\ bucket' = [bucket EXCEPT ![k] = bucket'[k]]
  <1>1. /\ k \in Key /\ Recent(push[p].now, clock) /\ bucket[k] # None /\ Fits(bucket[k], k, clock)
        /\ push[p].now <= bucket[k].seen + MaxStall /\ lim \in Limits[k]
    BY StillFound DEF SetBurst
  <1>2. /\ bucket' = [bucket EXCEPT ![k] = SetBurstAt(bucket[k], push[p].now, lim)]
        /\ ideal' = [ideal EXCEPT ![k] = SetBurstAt(@, push[p].now, lim)]
        /\ Gains(k, 0) /\ UNCHANGED <<clock, pushes, admitted, evicted, renewed, overlapped>>
    BY DEF SetBurst
  <1>3. bucket'[k] = SetBurstAt(bucket[k], push[p].now, lim)
    BY <1>1, <1>2 DEF GateInv, BucketsFit
  <1>4. Fits(bucket'[k], k, clock) /\ bucket'[k].seen = bucket[k].seen
    BY <1>1, <1>3, SetBurstFits
  <1> QED
    BY <1>1, <1>2, <1>3, <1>4 DEF Fits

LEMMA SetBurstInv == ASSUME GateInv, NEW p \in Push, SetBurst(p) PROVE GateInv'
  <1> DEFINE k == KeyOf(p)
  <1>1. /\ k \in Key /\ Gains(k, 0) /\ UNCHANGED <<clock, pushes, admitted, evicted, renewed, overlapped>>
        /\ bucket[k] # None
        /\ Fits(bucket'[k], k, clock) /\ bucket'[k].seen = bucket[k].seen /\ bucket'[k] \in Bucket
        /\ bucket' = [bucket EXCEPT ![k] = bucket'[k]]
    BY SetBurstFinds
  <1>2. PICK r \in PushRec : /\ Moves(p, r) /\ r.step = "reserve"
                             /\ TimeIn(r, k) = TimeIn(push[p], k) /\ Using(push[p], k)
                             /\ \A j \in Key \ {k} : Keeps(r, p, j)
    BY SetBurstMoves
  <1> HIDE DEF k
  <1>3. PushesInOrder' /\ BucketsFit' /\ UsedBucketsStay'
    BY <1>1, <1>2, Access DEF Keeps
  <1>4. Counted'
    BY <1>1, GainsMore DEF GateInv, Counted
  <1>5. EvictedFit' /\ OneResyncs'
    BY <1>1, <1>2, NoneMade, NotResyncing DEF GateInv, BucketsFit
  <1> QED
    BY <1>3, <1>4, <1>5 DEF GateInv

LEMMA ReserveFinds ==
    ASSUME GateInv, NEW p \in Push, Reserve(p), NEW k, k = KeyOf(p)
    PROVE  /\ k \in Key /\ Recent(push[p].now, clock) /\ bucket[k] # None /\ Fits(bucket[k], k, clock)
           /\ bucket' = [bucket EXCEPT ![k] = ReserveN(bucket[k], push[p].now)]
           /\ Gains(k, 0) /\ UNCHANGED <<clock, pushes, admitted, evicted, renewed, overlapped, ideal>>
           /\ Fits(bucket'[k], k, clock) /\ bucket'[k] = ReserveN(bucket[k], push[p].now)
           /\ bucket'[k].seen = bucket[k].seen /\ bucket'[k] \in Bucket
           /\ bucket' = [bucket EXCEPT ![k] = bucket'[k]]
           /\ bucket'[k].lastEvent \in Nat /\ ~Owing(push[p], k)
           /\ bucket'[k].perMin \in Nat \ {0} /\ bucket[k].perMin \in Nat \ {0}
           /\ Using(push[p], k) /\ TimeIn(push[p], k) = push[p].now
  <1>1. /\ k \in Key /\ Recent(push[p].now, clock) /\ bucket[k] # None /\ Fits(bucket[k], k, clock)
        /\ push[p].now <= bucket[k].seen + MaxStall /\ ~Owing(push[p], k)
        /\ Using(push[p], k) /\ TimeIn(push[p], k) = push[p].now
    BY StillFound DEF Reserve
  <1>2. /\ bucket' = [bucket EXCEPT ![k] = ReserveN(bucket[k], push[p].now)]
        /\ Gains(k, 0) /\ UNCHANGED <<clock, pushes, admitted, evicted, renewed, overlapped, ideal>>
    BY DEF Reserve
  <1>3. bucket'[k] = ReserveN(bucket[k], push[p].now)
    BY <1>1, <1>2 DEF GateInv, BucketsFit
  <1>4. Fits(bucket'[k], k, clock) /\ bucket'[k].seen = bucket[k].seen
    BY <1>1, <1>3, ReservedFits
  <1>5. /\ bucket'[k].lastEvent \in Nat /\ bucket'[k] \in Bucket
        /\ bucket'[k].perMin \in Nat \ {0} /\ bucket[k].perMin \in Nat \ {0}
    BY <1>1, <1>4, OfBucket DEF Fits
  <1> QED
    BY <1>1, <1>2, <1>3, <1>4, <1>5

LEMMA ReserveInv == ASSUME GateInv, NEW p \in Push, Reserve(p) PROVE GateInv'
  <1> DEFINE k == KeyOf(p)
  <1>1. /\ k \in Key /\ Gains(k, 0) /\ UNCHANGED <<clock, pushes, admitted, evicted, renewed, overlapped>>
        /\ bucket[k] # None /\ bucket'[k] = ReserveN(bucket[k], push[p].now)
        /\ Fits(bucket'[k], k, clock) /\ bucket'[k].seen = bucket[k].seen /\ bucket'[k] \in Bucket
        /\ bucket' = [bucket EXCEPT ![k] = bucket'[k]] /\ bucket'[k].lastEvent \in Nat
        /\ bucket'[k].perMin \in Nat \ {0} /\ bucket[k].perMin \in Nat \ {0}
        /\ Using(push[p], k) /\ TimeIn(push[p], k) = push[p].now
    BY ReserveFinds
  <1>2. PICK r \in PushRec : /\ Moves(p, r) /\ TimeIn(r, k) = push[p].now /\ r.step # "burst"
                             /\ \A j \in Key \ {k} : Keeps(r, p, j)
    BY <1>1, ReserveMoves
  <1> HIDE DEF k
  <1>3. PushesInOrder' /\ BucketsFit' /\ UsedBucketsStay'
    BY <1>1, <1>2, Access DEF Keeps
  <1>4. Counted'
    BY <1>1, GainsMore DEF GateInv, Counted
  <1>5. EvictedFit' /\ OneResyncs'
    BY <1>1, <1>2, NoneMade, NotResyncing DEF GateInv, BucketsFit
  <1> QED
    BY <1>3, <1>4, <1>5 DEF GateInv

\* What a cancel of a reservation that acts at acts does to the bucket of key k.
Returns(k, acts, perMin, t) ==
    /\ k \in Key /\ Recent(t, clock) /\ bucket[k] # None /\ Fits(bucket[k], k, clock)
    /\ acts \in Nat /\ acts >= t /\ perMin \in Nat \ {0}
    /\ Gains(k, Overpaid(k, acts, perMin))
    /\ UNCHANGED <<clock, pushes, admitted, evicted, renewed, overlapped, ideal>>
    /\ Fits(bucket'[k], k, clock) /\ bucket'[k] = CancelAt(bucket[k], acts, perMin, t)
    /\ bucket'[k].seen = bucket[k].seen /\ bucket'[k] \in Bucket
    /\ bucket' = [bucket EXCEPT ![k] = bucket'[k]]
    /\ Overpaid(k, acts, perMin) \in Nat
    /\ bucket'[k] # bucket[k] => Overpaid(k, acts, perMin) >= Restored(bucket[k], acts, perMin) - Token
    /\ Restored(bucket[k], acts, perMin) <= Token => Overpaid(k, acts, perMin) = 0

LEMMA CancelReturns ==
    ASSUME GateInv, NEW p \in Push, NEW k \in Key, NEW t, Recent(t, clock), Using(push[p], k),
           TimeIn(push[p], k) = t, NEW acts \in Nat, acts >= t, NEW perMin \in Nat \ {0},
           bucket' = [bucket EXCEPT ![k] = CancelAt(bucket[k], acts, perMin, t)],
           Gains(k, Overpaid(k, acts, perMin)),
           UNCHANGED <<clock, pushes, admitted, evicted, renewed, overlapped, ideal>>
    PROVE  Returns(k, acts, perMin, t)
  <1>1. bucket[k] # None /\ t <= bucket[k].seen + MaxStall
    BY DEF GateInv, UsedBucketsStay, Stays
  <1>2. Fits(bucket[k], k, clock)
    BY <1>1 DEF GateInv, BucketsFit
  <1>3. bucket'[k] = CancelAt(bucket[k], acts, perMin, t)
    BY DEF GateInv, BucketsFit
  <1>4. Fits(bucket'[k], k, clock) /\ bucket'[k].seen = bucket[k].seen
    BY <1>1, <1>2, <1>3, CancelledFits
  <1>5. /\ Overpaid(k, acts, perMin) \in Nat
        /\ bucket'[k] # bucket[k] => Overpaid(k, acts, perMin) >= Restored(bucket[k], acts, perMin) - Token
        /\ Restored(bucket[k], acts, perMin) <= Token => Overpaid(k, acts, perMin) = 0
    <2> DEFINE more == Restored(bucket[k], acts, perMin) - Token
    <2>1. more \in Int /\ 0 \in Int /\ Restored(bucket[k], acts, perMin) \in Int /\ Token \in Nat
      BY <1>2, RestoredIsInt, Bounds DEF Fits
    <2>2. Overpaid(k, acts, perMin) = IF bucket'[k] = bucket[k] THEN 0 ELSE Max({0, more})
      BY DEF Overpaid
    <2>3. Restored(bucket[k], acts, perMin) <= Token => more <= 0
      BY <2>1
    <2> HIDE DEF more
    <2>4. Max({0, more}) = IF 0 >= more THEN 0 ELSE more
      BY <2>1, MaxOfTwo
    <2>5. /\ Overpaid(k, acts, perMin) \in Nat
          /\ bucket'[k] # bucket[k] => Overpaid(k, acts, perMin) >= more
          /\ more <= 0 => Overpaid(k, acts, perMin) = 0
      BY <2>1, <2>2, <2>4
    <2> QED
      BY <2>3, <2>5 DEF more
  <1>6. bucket'[k] \in Bucket
    BY <1>4 DEF Fits
  <1> QED
    BY <1>1, <1>2, <1>3, <1>4, <1>5, <1>6 DEF Returns

LEMMA CancelDeniedReturns ==
    ASSUME GateInv, NEW p \in Push, CancelDenied(p)
    PROVE  /\ Returns(KeyOf(p), push[p].acts, push[p].perMin, push[p].now)
           /\ push[p].acts > push[p].now /\ TimeIn(push[p], KeyOf(p)) = push[p].now
  <1> DEFINE k == KeyOf(p)
  <1>1. push[p].stage \in {"instance", "app"} /\ push[p].step = "cancel"
    BY DEF CancelDenied, At
  <1>2. k \in Key /\ KeyIn(push[p]) = k /\ ~Holding(push[p], k)
    BY <1>1, AtKey, OfPush
  <1>3. Recent(push[p].now, clock) /\ push[p].acts > push[p].now /\ push[p].perMin > 0
    BY <1>1, OfPush DEF InOrder
  <1>4. Using(push[p], k) /\ TimeIn(push[p], k) = push[p].now
    BY <1>1, <1>2 DEF Using, Owing, TimeIn
  <1>5. /\ bucket' = [bucket EXCEPT ![k] = CancelAt(bucket[k], push[p].acts, push[p].perMin, push[p].now)]
        /\ Gains(k, Overpaid(k, push[p].acts, push[p].perMin))
        /\ UNCHANGED <<clock, pushes, admitted, evicted, renewed, overlapped, ideal>>
    BY DEF CancelDenied
  <1> HIDE DEF k
  <1>6. Returns(k, push[p].acts, push[p].perMin, push[p].now)
    <2>1. push[p].acts \in Nat /\ push[p].acts >= push[p].now /\ push[p].perMin \in Nat \ {0}
      BY <1>3, OfPush
    <2> QED
      BY <1>2, <1>3, <1>4, <1>5, <2>1, CancelReturns
  <1> QED
    BY <1>3, <1>4, <1>6 DEF k

LEMMA RefundReturns ==
    ASSUME GateInv, NEW p \in Push, NEW k \in Key, Refund(p, k)
    PROVE  Returns(k, push[p].held[k].now, push[p].held[k].perMin, push[p].held[k].now)
  <1> DEFINE t == push[p].held[k].now
             perMin == push[p].held[k].perMin
  <1>1. Holding(push[p], k) /\ Recent(t, clock) /\ perMin \in Nat \ {0}
    BY RefundMoves
  <1>2. Using(push[p], k) /\ TimeIn(push[p], k) = t
    BY <1>1 DEF Using, Owing, TimeIn
  <1>3. /\ bucket' = [bucket EXCEPT ![k] = CancelAt(bucket[k], t, perMin, t)]
        /\ Gains(k, Overpaid(k, t, perMin))
        /\ UNCHANGED <<clock, pushes, admitted, evicted, renewed, overlapped, ideal>>
    BY DEF Refund, RefundTime
  <1> HIDE DEF t, perMin
  <1>4. t \in Nat /\ t >= t
    BY <1>1 DEF Recent
  <1>5. Returns(k, t, perMin, t)
    BY <1>1, <1>2, <1>3, <1>4, CancelReturns
  <1> QED
    BY <1>5 DEF t, perMin

LEMMA ReturnsInv ==
    ASSUME GateInv, NEW p \in Push, NEW k, NEW acts, NEW perMin, NEW t, Returns(k, acts, perMin, t),
           NEW r, Moves(p, r), r.step = "clock", ~Using(r, k), \A j \in Key \ {k} : Keeps(r, p, j)
    PROVE  GateInv'
  <1>1. PushesInOrder' /\ BucketsFit' /\ UsedBucketsStay'
    BY Access DEF Keeps, Returns
  <1>2. Counted'
    BY GainsMore DEF GateInv, Counted, Returns
  <1>3. EvictedFit' /\ OneResyncs'
    BY NoneMade, NotResyncing DEF Returns, GateInv, BucketsFit
  <1> QED
    BY <1>1, <1>2, <1>3 DEF GateInv

LEMMA CancelDeniedInv == ASSUME GateInv, NEW p \in Push, CancelDenied(p) PROVE GateInv'
  BY CancelDeniedMoves, CancelDeniedReturns, ReturnsInv

LEMMA RefundInv == ASSUME GateInv, NEW p \in Push, NEW k \in Key, Refund(p, k) PROVE GateInv'
  BY RefundMoves, RefundReturns, ReturnsInv

\* A bucket that is used is not evicted: its last access is at most as old as two
\* pushes may stall.
LEMMA UsedIsNotIdle ==
    ASSUME GateInv, NEW p \in Push, NEW k \in Key, Using(push[p], k)
    PROVE  bucket[k] # None /\ ~Idle(k)
  <1>1. bucket[k] # None /\ TimeIn(push[p], k) <= bucket[k].seen + MaxStall
    BY DEF GateInv, UsedBucketsStay, Stays
  <1>2. bucket[k].seen \in Nat
    BY <1>1 DEF GateInv, BucketsFit, Fits, Bucket
  <1>3. Recent(TimeIn(push[p], k), clock)
    <2>1. InOrder(push[p], clock)
      BY OfPush
    <2>2. CASE Holding(push[p], k)
      BY <2>1, <2>2 DEF InOrder, Holding, TimeIn
    <2>3. CASE ~Holding(push[p], k)
      <3>1. push[p].step # "clock" /\ TimeIn(push[p], k) = push[p].now
        BY <2>3 DEF Using, Owing, TimeIn
      <3> QED
        BY <2>1, <3>1 DEF InOrder
    <2> QED
      BY <2>2, <2>3
  <1>4. clock \in Nat
    BY DEF GateInv, Counted
  <1> QED
    BY <1>1, <1>2, <1>3, <1>4, Bounds DEF Recent, Idle

\* A bucket that is idle was last accessed before any push under way read the clock.
LEMMA IdleIsOld ==
    ASSUME GateInv, NEW k \in Key, bucket[k] # None, Idle(k)
    PROVE  clock - bucket[k].last > IdleFor - MaxStall /\ bucket[k].last + MaxStall <= clock
  <1>1. bucket[k].last <= bucket[k].seen + MaxStall /\ bucket[k].seen \in Nat /\ bucket[k].last \in Nat
    BY DEF GateInv, BucketsFit, Fits, Bucket
  <1>2. clock - bucket[k].seen > IdleFor /\ clock \in Nat
    BY DEF Idle, GateInv, Counted
  <1> QED
    BY <1>1, <1>2, Bounds

LEMMA CleanupInv ==
    ASSUME GateInv, NEW keys \in {Instance, App}, NEW stage, Cleanup(keys, stage)
    PROVE  /\ GateInv'
           /\ \A k \in Key : \/ bucket'[k] = bucket[k] /\ ideal'[k] = ideal[k] /\ evicted'[k] = evicted[k]
                             \/ /\ bucket[k] # None /\ Idle(k) /\ evicted'[k] = bucket[k]
                                /\ bucket'[k] = None /\ ideal'[k] = None
                                /\ \A p \in Push : ~Using(push[p], k)
  <1> DEFINE idle == {k \in keys : bucket[k] # None /\ Idle(k)}
  <1>1. /\ bucket' = [k \in Key |-> IF k \in idle THEN None ELSE bucket[k]]
        /\ ideal' = [k \in Key |-> IF k \in idle THEN None ELSE ideal[k]]
        /\ evicted' = [k \in Key |-> IF k \in idle THEN bucket[k] ELSE evicted[k]]
        /\ UNCHANGED <<clock, pushes, push, admitted, gained, renewed, overlapped>>
    BY DEF Cleanup
  <1>2. \A k \in idle : bucket[k] # None /\ Idle(k)
    OBVIOUS
  <1> HIDE DEF idle
  <1>3. bucket' \in [Key -> Bucket \cup {None}] /\ evicted' \in [Key -> Bucket \cup {None}]
    BY <1>1 DEF GateInv, BucketsFit, EvictedFit
  <1>4. BucketsFit'
    BY <1>1, <1>3 DEF GateInv, BucketsFit
  <1>5. \A p \in Push, k \in Key : Using(push[p], k) => k \notin idle
    BY <1>2, UsedIsNotIdle
  <1>6. UsedBucketsStay'
    BY <1>1, <1>5 DEF GateInv, UsedBucketsStay, Stays
  <1>7. PushesInOrder' /\ Counted' /\ OneResyncs'
    BY <1>1 DEF GateInv, PushesInOrder, Counted, OneResyncs
  <1>8. EvictedFit'
    <2>1. ASSUME NEW k \in Key, evicted'[k] # None
          PROVE  /\ bucket'[k] = None /\ Fits(evicted'[k], k, clock)
                 /\ evicted'[k].last + MaxStall <= clock
      <3>1. CASE k \in idle
        BY <1>1, <1>2, <3>1, IdleIsOld DEF GateInv, BucketsFit
      <3>2. CASE k \notin idle
        BY <1>1, <2>1, <3>2 DEF GateInv, EvictedFit
      <3> QED
        BY <3>1, <3>2
    <2> QED
      BY <1>1, <1>3, <2>1 DEF EvictedFit
  <1> QED
    BY <1>1, <1>2, <1>4, <1>5, <1>6, <1>7, <1>8 DEF GateInv

LEMMA TickInv == ASSUME GateInv, Tick PROVE GateInv'
  <1>1. /\ clock' = clock + 1 /\ clock < MaxTime /\ clock \in Nat
        /\ UNCHANGED <<bucket, push, pushes, ghosts>> /\ \A p \in Push : ~Stalled(p)
    BY Bounds DEF Tick, GateInv, Counted
  <1>2. Counted'
    BY <1>1, Bounds DEF GateInv, Counted, ghosts
  <1>3. ASSUME NEW p \in Push PROVE InOrder(push[p], clock + 1)
    <2>1. InOrder(push[p], clock)
      BY OfPush
    <2>2. ASSUME push[p].step # "clock" PROVE Recent(push[p].now, clock + 1)
      <3>1. Recent(push[p].now, clock)
        BY <2>1, <2>2 DEF InOrder
      <3>2. ~(clock - push[p].now >= MaxStall)
        BY <1>1, <2>2 DEF Stalled
      <3> QED
        BY <1>1, <3>1, <3>2, Bounds DEF Recent
    <2>3. ASSUME NEW k \in DOMAIN push[p].held PROVE Recent(push[p].held[k].now, clock + 1)
      <3>1. Recent(push[p].held[k].now, clock)
        BY <2>1 DEF InOrder
      <3>2. ~(clock - push[p].held[k].now >= MaxStall)
        BY <1>1, OfPush DEF Stalled
      <3> QED
        BY <1>1, <3>1, <3>2, Bounds DEF Recent
    <2>4. push[p].now <= clock + 1
      BY <1>1, <2>1, OfPush DEF InOrder
    <2> QED
      BY <2>1, <2>2, <2>3, <2>4 DEF InOrder
  <1>4. PushesInOrder'
    BY <1>1, <1>3 DEF GateInv, PushesInOrder
  <1>5. BucketsFit'
    <2>1. ASSUME NEW k \in Key, bucket[k] # None PROVE Fits(bucket[k], k, clock + 1)
      <3>1. Fits(bucket[k], k, clock) /\ bucket[k].last \in Nat /\ bucket[k].seen \in Nat
        BY <2>1 DEF GateInv, BucketsFit, Fits, Bucket
      <3> QED
        BY <1>1, <3>1 DEF Fits
    <2> QED
      BY <1>1, <2>1 DEF GateInv, BucketsFit
  <1>6. UsedBucketsStay' /\ OneResyncs'
    BY <1>1 DEF GateInv, UsedBucketsStay, OneResyncs
  <1>7. EvictedFit'
    <2>1. ASSUME NEW k \in Key, evicted[k] # None
          PROVE  /\ bucket[k] = None /\ Fits(evicted[k], k, clock + 1)
                 /\ evicted[k].last + MaxStall <= clock + 1
      <3>1. /\ bucket[k] = None /\ Fits(evicted[k], k, clock) /\ evicted[k].last \in Nat /\ evicted[k].seen \in Nat
            /\ evicted[k].last + MaxStall <= clock
        BY <2>1 DEF GateInv, EvictedFit, Fits, Bucket
      <3> QED
        BY <1>1, <3>1, Bounds DEF Fits
    <2> QED
      BY <1>1, <2>1 DEF GateInv, EvictedFit, ghosts
  <1> QED
    BY <1>2, <1>4, <1>5, <1>6, <1>7 DEF GateInv

LEMMA NextInv == GateInv /\ [Next]_vars => GateInv'
  <1> SUFFICES ASSUME GateInv, [Next]_vars PROVE GateInv'
    OBVIOUS
  <1>1. ASSUME NEW p \in Push, PushStep(p) PROVE GateInv'
    BY <1>1, AdmitInv, UnlimitedInv, ReadClockInv, BucketAtInv, SetBurstInv, ReserveInv, CancelDeniedInv,
       QuotaAdmitsInv, QuotaDeniesInv, RefundInv DEF PushStep
  <1>2. CASE Cleanup(Instance, "instance") \/ Cleanup(App, "app")
    BY <1>2, CleanupInv
  <1>4. CASE Tick
    BY <1>4, TickInv
  <1>5. CASE UNCHANGED vars
    BY <1>5 DEF vars, ghosts, GateInv, Counted, PushesInOrder, BucketsFit, EvictedFit, UsedBucketsStay, OneResyncs
  <1> QED
    BY <1>1, <1>2, <1>4, <1>5 DEF Next

LEMMA SpecInv == GateSpec => []GateInv
  BY InitInv, NextInv, PTL DEF GateSpec

\* No bucket is fuller than its key's greatest burst, and whoever is at work on one
\* or may give back a token of it finds it in the map, however pushes interleave and
\* whatever is evicted (limiter.go:43-124).
THEOREM TypeCorrect == GateSpec => []TypeOK
  <1>1. ASSUME GateInv PROVE TypeOK
    <2>1. clock \in 0..MaxTime /\ pushes \in 0..MaxPushes /\ overlapped \in BOOLEAN
      BY <1>1 DEF GateInv, Counted
    <2>2. ASSUME NEW k \in Key, NEW b, Fits(b, k, clock)
          PROVE  b \in BucketRec(k) /\ b.tokens <= Token * MaxBurst(k)
      <3>1. /\ b \in Bucket /\ b.perMin \in Nat \ {0} /\ b.burst \in Nat \ {0} /\ b.tokens \in Int
            /\ b.last \in Nat /\ b.seen \in Nat /\ b.lastEvent \in Nat /\ clock \in Nat /\ clock <= MaxTime
        BY <2>1, <2>2, FitsType, Bounds
      <3>2. b.perMin \in 1..MaxRate(k) /\ b.burst \in 1..MaxBurst(k)
        BY <2>2, <3>1, MostOf DEF Fits
      <3>3. b.last \in 0..MaxTime /\ b.seen \in 0..MaxTime
        BY <2>2, <3>1, Bounds DEF Fits
      <3>4. b.tokens <= Token * MaxBurst(k)
        BY <2>2 DEF Fits
      <3> QED
        BY <3>1, <3>2, <3>3, <3>4 DEF Bucket, BucketRec
    <2>3. ASSUME NEW k \in Key
          PROVE  /\ admitted[k] \in Nat /\ gained[k] \in Nat /\ renewed[k] \in Nat
                 /\ bucket[k] # None =>
                       bucket[k] \in BucketRec(k) /\ bucket[k].tokens <= Token * MaxBurst(k)
                 /\ evicted[k] # None => bucket[k] = None /\ evicted[k] \in BucketRec(k)
      <3>1. admitted[k] \in Nat /\ gained[k] \in Nat /\ renewed[k] \in Nat
        BY <1>1 DEF GateInv, Counted
      <3>2. ASSUME bucket[k] # None PROVE bucket[k] \in BucketRec(k) /\ bucket[k].tokens <= Token * MaxBurst(k)
        BY <1>1, <2>2, <3>2 DEF GateInv, BucketsFit
      <3>3. ASSUME evicted[k] # None PROVE bucket[k] = None /\ evicted[k] \in BucketRec(k)
        BY <1>1, <2>2, <3>3 DEF GateInv, EvictedFit
      <3> QED
        BY <3>1, <3>2, <3>3
    <2>4. ASSUME NEW p \in Push
          PROVE  /\ push[p].stage \in Stage /\ push[p].step \in Step
                 /\ push[p].now \in 0..clock /\ \A k \in Holds(p) : push[p].held[k].now \in 0..clock
                 /\ At(p, "burst") \/ At(p, "reserve") \/ At(p, "cancel") => bucket[KeyOf(p)] # None
                 /\ \A k \in Holds(p) : bucket[k] # None
                 /\ \A o \in Push : At(p, "burst") /\ At(o, "burst") /\ push[p].stage = push[o].stage => o = p
      <3>1. /\ InOrder(push[p], clock) /\ push[p].stage \in Stage /\ push[p].step \in Step
            /\ push[p].now \in Nat /\ clock \in Nat /\ Holds(p) = DOMAIN push[p].held
            /\ Holds(p) \subseteq Key /\ KeyOf(p) = KeyIn(push[p])
        BY <1>1, OfPush
      <3>2. push[p].now \in 0..clock
        BY <3>1 DEF InOrder
      <3>3. ASSUME NEW k \in Holds(p) PROVE push[p].held[k].now \in 0..clock /\ bucket[k] # None
        <4>1. Using(push[p], k) /\ k \in Key
          BY <3>1 DEF Using, Owing, Holding
        <4>2. bucket[k] # None
          BY <1>1, <4>1 DEF GateInv, UsedBucketsStay, Stays
        <4>3. Recent(push[p].held[k].now, clock)
          BY <3>1 DEF InOrder
        <4> QED
          BY <3>1, <4>2, <4>3 DEF Recent
      <3>4. ASSUME At(p, "burst") \/ At(p, "reserve") \/ At(p, "cancel") PROVE bucket[KeyOf(p)] # None
        <4>1. push[p].stage \in {"instance", "app"} /\ push[p].step \in {"burst", "reserve", "cancel"}
          BY <3>4 DEF At
        <4>2. KeyOf(p) \in Key
          BY <1>1, <4>1, AtKey
        <4>3. Using(push[p], KeyOf(p))
          BY <3>1, <4>1 DEF Using, Owing
        <4> QED
          BY <1>1, <4>2, <4>3 DEF GateInv, UsedBucketsStay, Stays
      <3>5. \A o \in Push : At(p, "burst") /\ At(o, "burst") /\ push[p].stage = push[o].stage => o = p
        BY <1>1 DEF GateInv, OneResyncs, At
      <3> QED
        BY <3>1, <3>2, <3>3, <3>4, <3>5
    <2> QED
      BY <2>1, <2>3, <2>4 DEF TypeOK
  <1> QED
    BY <1>1, SpecInv, PTL

\* A bucket that would be full after the idle time, less what a push may stall, is
\* full when it is evicted, whatever the clock readings of its last accesses
\* (limiter.go:117, serve.go:118).
THEOREM EvictionsLoseNothing == GateSpec => EvictedWhenFull
  <1>1. ASSUME GateInv, [Next]_vars, NEW k \in Key, bucket[k] # None, bucket'[k] = None,
               Refills(bucket[k], IdleFor - MaxStall)
        PROVE  Level(bucket[k]) = Token * bucket[k].burst
    <2> DEFINE b == bucket[k]
    <2>1. b \in Bucket /\ b.last \in Nat /\ b.last <= clock /\ clock \in Nat
      BY <1>1, OfBucket DEF GateInv, Counted, BucketsFit, Fits
    <2>2. Idle(k)
      <3>1. CASE bucket' # bucket
        <4>1. ASSUME NEW p \in Push, NEW j, NEW d \in Bucket, bucket' = [bucket EXCEPT ![j] = d]
              PROVE  FALSE
          BY <1>1, <4>1, NoneIsNoBucket DEF GateInv, BucketsFit
        <4>2. ASSUME NEW p \in Push, PushStep(p) PROVE bucket' = bucket \/ \E j \in Key : bucket'[j] \in Bucket /\ bucket' = [bucket EXCEPT ![j] = bucket'[j]]
          <5>1. ASSUME NEW j \in Key, Refund(p, j) PROVE bucket'[j] \in Bucket /\ bucket' = [bucket EXCEPT ![j] = bucket'[j]]
            BY <1>1, <5>1, RefundReturns DEF Returns
          <5>2. ASSUME CancelDenied(p) PROVE \E j \in Key : bucket'[j] \in Bucket /\ bucket' = [bucket EXCEPT ![j] = bucket'[j]]
            BY <1>1, <5>2, CancelDeniedReturns DEF Returns
          <5>3. ASSUME BucketAt(p) \/ SetBurst(p) \/ Reserve(p)
                PROVE  \E j \in Key : bucket'[j] \in Bucket /\ bucket' = [bucket EXCEPT ![j] = bucket'[j]]
            BY <1>1, <5>3, BucketAtFinds, SetBurstFinds, ReserveFinds
          <5> QED
            BY <4>2, <5>1, <5>2, <5>3 DEF PushStep, Admit, Unlimited, ReadClock, QuotaAdmits, QuotaDenies
        <4>3. \A p \in Push : ~PushStep(p)
          BY <3>1, <4>1, <4>2
        <4>4. Cleanup(Instance, "instance") \/ Cleanup(App, "app")
          BY <1>1, <3>1, <4>3 DEF Next, Tick, vars
        <4> QED
          BY <1>1, <4>4, CleanupInv
      <3> QED
        BY <1>1, <3>1
    <2>3. clock - b.last > IdleFor - MaxStall
      BY <1>1, <2>2, IdleIsOld
    <2>4. b.perMin \in Nat /\ Refill(b, clock) = b.perMin * (clock - b.last) /\ IdleFor - MaxStall \in Nat
      BY <2>1, OfBucket, Bounds DEF Refill, Since
    <2>5. b.perMin * (clock - b.last) >= b.perMin * (IdleFor - MaxStall)
      <3>1. clock - b.last \in Int /\ IdleFor - MaxStall \in Int /\ IdleFor - MaxStall <= clock - b.last
        BY <2>1, <2>3, <2>4
      <3> QED
        BY <2>4, <3>1, Rated
    <2>6. b.tokens + b.perMin * (IdleFor - MaxStall) >= Token * b.burst
      BY <1>1 DEF Refills
    <2>7. b.tokens \in Int /\ b.perMin * (IdleFor - MaxStall) \in Int /\ b.perMin * (clock - b.last) \in Int
          /\ Token * b.burst \in Nat
      BY <2>1, <2>4, OfBucket, Rated
    <2>8. Token * b.burst <= b.tokens + Refill(b, clock)
      BY <2>4, <2>5, <2>6, <2>7
    <2> HIDE DEF b
    <2>9. Advance(b, clock) = Token * b.burst
      BY <2>1, <2>8, Advanced
    <2> QED
      BY <2>9 DEF Level, b
  <1>2. GateInv /\ [Next]_vars =>
            [\A k \in Key : bucket[k] # None /\ bucket'[k] = None /\ Refills(bucket[k], IdleFor - MaxStall)
                                => Level(bucket[k]) = Token * bucket[k].burst]_vars
    BY <1>1
  <1> QED
    BY <1>2, SpecInv, PTL DEF GateSpec, EvictedWhenFull

-----------------------------------------------------------------------------
\* How many pushes are let through.  The tokens that a key has given to pushes it has
\* admitted, or may have to give back, and those its bucket has, all together are no
\* more than its burst and the time passed allow, whatever time of the last MaxStall
\* ticks the bucket is accessed at next.  That of a granted token counts from the
\* last access, since a bucket that waits for one has less than none.  A bucket that
\* was evicted still counts, until it is made anew.

Trail(k)   == IF bucket[k] # None THEN bucket[k] ELSE evicted[k]
From(b)    == IF b.last >= Earliest THEN b.last ELSE Earliest
Allowed(k) == Token * MaxBurst(k) + gained[k] + renewed[k]

Fresh(k)   == Trail(k) = None => admitted[k] = 0
Covered(k) ==
    Trail(k) # None =>
        Token * (admitted[k] + Cardinality(Out(k))) + Lead(Trail(k), From(Trail(k)), MaxRate(k))
            <= Allowed(k)
Backed(k) ==
    Trail(k) # None =>
        Token * (admitted[k] + Cardinality(Held(k))) <= Allowed(k) + MaxRate(k) * From(Trail(k))
CreditInv == \A k \in Key : Fresh(k) /\ Covered(k) /\ Backed(k)

LEMMA Outstanding ==
    ASSUME NEW k \in Key
    PROVE  /\ IsFiniteSet(Out(k)) /\ Cardinality(Out(k)) \in Nat
           /\ IsFiniteSet(Held(k)) /\ Cardinality(Held(k)) \in Nat
           /\ Cardinality(Held(k)) <= Cardinality(Out(k)) /\ Held(k) \subseteq Out(k)
  <1>1. IsFiniteSet(Push)
    BY GateAssumption, Zenon
  <1>2. Out(k) \in SUBSET Push /\ Held(k) \in SUBSET Out(k)
    BY DEF Out, Held, Owing
  <1>3. IsFiniteSet(Out(k)) /\ Cardinality(Out(k)) \in Nat
    BY <1>1, <1>2, FS_Subset, FS_CardinalityType
  <1>4. IsFiniteSet(Held(k)) /\ Cardinality(Held(k)) \in Nat /\ Cardinality(Held(k)) <= Cardinality(Out(k))
    BY <1>2, <1>3, FS_Subset, FS_CardinalityType
  <1> QED
    BY <1>2, <1>3, <1>4

\* Nobody owes a token of a bucket that is not there.
LEMMA NobodyOwes ==
    ASSUME GateInv, NEW k \in Key, bucket[k] = None
    PROVE  Cardinality(Out(k)) = 0 /\ Cardinality(Held(k)) = 0
  <1>1. \A p \in Push : ~Owing(push[p], k)
    BY DEF GateInv, UsedBucketsStay, Stays, Using
  <1>2. Out(k) = {}
    BY <1>1 DEF Out
  <1>3. Held(k) = {}
    BY <1>2, Outstanding
  <1> QED
    BY <1>2, <1>3, FS_EmptySet

LEMMA PlusOrMinus ==
    ASSUME NEW S, IsFiniteSet(S), NEW x
    PROVE  /\ x \in S => Cardinality(S \ {x}) = Cardinality(S) - 1 /\ S \cup {x} = S
           /\ x \notin S => Cardinality(S \cup {x}) = Cardinality(S) + 1 /\ S \ {x} = S
  BY FS_AddElement, FS_RemoveElement

\* Push p joins those that owe a token of key k, or leaves them.
LEMMA OutMoves ==
    ASSUME GateInv, NEW p \in Push, NEW r, Moves(p, r), clock' = clock, NEW k \in Key
    PROVE  /\ p \in Out(k) <=> Owing(push[p], k)
           /\ p \in Held(k) <=> Holding(push[p], k)
           /\ Owing(r, k) => Out(k)' = Out(k) \cup {p}
           /\ ~Owing(r, k) => Out(k)' = Out(k) \ {p}
           /\ Holding(r, k) => Held(k)' = Held(k) \cup {p}
           /\ ~Holding(r, k) => Held(k)' = Held(k) \ {p}
  <1>1. /\ push'[p] = r /\ \A q \in Push \ {p} : push'[q] = push[q]
    BY OnlyOne DEF Moves
  <1>2. Out(k)' = {q \in Push : Owing(push'[q], k)} /\ Held(k)' = {q \in Push : Holding(push'[q], k)}
    BY DEF Out, Held
  <1>3. \A q \in Push : /\ Owing(push'[q], k) <=> IF q = p THEN Owing(r, k) ELSE Owing(push[q], k)
                        /\ Holding(push'[q], k) <=> IF q = p THEN Holding(r, k) ELSE Holding(push[q], k)
    BY <1>1
  <1>4. Owing(r, k) => Out(k)' = Out(k) \cup {p}
    BY <1>2, <1>3 DEF Out
  <1>5. ~Owing(r, k) => Out(k)' = Out(k) \ {p}
    BY <1>2, <1>3 DEF Out
  <1>6. Holding(r, k) => Held(k)' = Held(k) \cup {p}
    BY <1>2, <1>3 DEF Held
  <1>7. ~Holding(r, k) => Held(k)' = Held(k) \ {p}
    BY <1>2, <1>3 DEF Held
  <1>8. (p \in Out(k) <=> Owing(push[p], k)) /\ (p \in Held(k) <=> Holding(push[p], k))
    BY DEF Out, Held
  <1> QED
    BY <1>4, <1>5, <1>6, <1>7, <1>8

LEMMA KeptOut ==
    ASSUME GateInv, NEW p \in Push, NEW r, Moves(p, r), clock' = clock, NEW k \in Key,
           Owing(r, k) <=> Owing(push[p], k), Holding(r, k) <=> Holding(push[p], k)
    PROVE  Out(k)' = Out(k) /\ Held(k)' = Held(k)
  <1>1. Out(k)' = Out(k)
    <2>1. CASE Owing(r, k)
      <3>1. p \in Out(k) /\ Out(k)' = Out(k) \cup {p}
        BY <2>1, OutMoves
      <3> QED
        BY <3>1
    <2>2. CASE ~Owing(r, k)
      <3>1. p \notin Out(k) /\ Out(k)' = Out(k) \ {p}
        BY <2>2, OutMoves
      <3> QED
        BY <3>1
    <2> QED
      BY <2>1, <2>2
  <1>2. Held(k)' = Held(k)
    <2>1. CASE Holding(r, k)
      <3>1. p \in Held(k) /\ Held(k)' = Held(k) \cup {p}
        BY <2>1, OutMoves
      <3> QED
        BY <3>1
    <2>2. CASE ~Holding(r, k)
      <3>1. p \notin Held(k) /\ Held(k)' = Held(k) \ {p}
        BY <2>2, OutMoves
      <3> QED
        BY <3>1
    <2> QED
      BY <2>1, <2>2
  <1> QED
    BY <1>1, <1>2

\* A key whose bucket and counts a step leaves alone.
LEMMA Undisturbed ==
    ASSUME NEW k \in Key, Fresh(k), Covered(k), Backed(k), Out(k)' = Out(k), Held(k)' = Held(k),
           Trail(k)' = Trail(k), admitted'[k] = admitted[k], gained'[k] = gained[k],
           renewed'[k] = renewed[k], clock' = clock
    PROVE  Fresh(k)' /\ Covered(k)' /\ Backed(k)'
  <1>1. Earliest' = Earliest /\ Allowed(k)' = Allowed(k)
    BY DEF Earliest, Allowed
  <1>2. From(Trail(k))' = From(Trail(k))
    BY <1>1 DEF From
  <1>3. Lead(Trail(k), From(Trail(k)), MaxRate(k))' = Lead(Trail(k), From(Trail(k)), MaxRate(k))
    BY <1>2, Zenon DEF Lead
  <1>4. Fresh(k)' /\ Backed(k)'
    BY <1>1, <1>2 DEF Fresh, Backed
  <1>5. Covered(k)'
    BY <1>1, <1>3 DEF Covered
  <1> QED
    BY <1>4, <1>5

\* The oldest clock reading that a push may come with.
LEMMA Oldest ==
    ASSUME GateInv
    PROVE  /\ Earliest = IF clock >= MaxStall THEN clock - MaxStall ELSE 0
           /\ clock \in Nat /\ MaxStall \in Nat /\ Earliest \in Nat /\ Earliest <= clock
           /\ \A t : Recent(t, clock) => t \in Nat /\ t <= clock /\ t >= Earliest
  <1>1. clock \in Nat /\ MaxStall \in Nat /\ 0 \in Int /\ clock - MaxStall \in Int
    BY Bounds DEF GateInv, Counted
  <1>2. Earliest = IF clock >= MaxStall THEN clock - MaxStall ELSE 0
    BY DEF Earliest
  <1> QED
    BY <1>1, <1>2 DEF Recent

LEMMA Numbers ==
    ASSUME GateInv, NEW k \in Key
    PROVE  /\ clock \in Nat /\ Earliest \in Nat /\ Earliest <= clock
           /\ MaxRate(k) \in Nat /\ Token * MaxBurst(k) \in Nat /\ Token \in Nat \ {0}
           /\ admitted[k] \in Nat /\ gained[k] \in Nat /\ renewed[k] \in Nat /\ Allowed(k) \in Nat
           /\ admitted[k] + Cardinality(Out(k)) \in Nat /\ admitted[k] + Cardinality(Held(k)) \in Nat
           /\ Token * admitted[k] \in Nat
           /\ Token * (admitted[k] + Cardinality(Out(k))) \in Nat
           /\ Token * (admitted[k] + Cardinality(Held(k))) \in Nat
           /\ Token * admitted[k] <= Token * (admitted[k] + Cardinality(Held(k)))
           /\ Token * (admitted[k] + Cardinality(Held(k))) <= Token * (admitted[k] + Cardinality(Out(k)))
  <1>1. clock \in Nat /\ Earliest \in Nat /\ Earliest <= clock /\ Token \in Nat \ {0}
    BY Bounds, Oldest
  <1>2. MaxRate(k) \in Nat /\ Token * MaxBurst(k) \in Nat
    BY MostOf
  <1>3. admitted[k] \in Nat /\ gained[k] \in Nat /\ renewed[k] \in Nat
    BY DEF GateInv, Counted
  <1>4. /\ admitted[k] + Cardinality(Out(k)) \in Nat /\ admitted[k] + Cardinality(Held(k)) \in Nat
        /\ admitted[k] <= admitted[k] + Cardinality(Held(k))
        /\ admitted[k] + Cardinality(Held(k)) <= admitted[k] + Cardinality(Out(k))
    BY <1>3, Outstanding
  <1>5. /\ Token * admitted[k] \in Nat
        /\ Token * (admitted[k] + Cardinality(Out(k))) \in Nat
        /\ Token * (admitted[k] + Cardinality(Held(k))) \in Nat
        /\ Token * admitted[k] <= Token * (admitted[k] + Cardinality(Held(k)))
        /\ Token * (admitted[k] + Cardinality(Held(k))) <= Token * (admitted[k] + Cardinality(Out(k)))
    BY <1>3, <1>4, Capacity
  <1>6. Allowed(k) \in Nat
    BY <1>2, <1>3 DEF Allowed
  <1> QED
    BY <1>1, <1>2, <1>3, <1>4, <1>5, <1>6

\* The bucket that stands for a key, there or evicted.
LEMMA OfTrail ==
    ASSUME GateInv, NEW k \in Key, NEW b, b = Trail(k), b # None
    PROVE  /\ Fits(b, k, clock) /\ b \in Bucket /\ b.perMin \in Nat /\ b.perMin <= MaxRate(k)
           /\ b.last \in Nat /\ b.last <= clock /\ From(b) \in Nat /\ From(b) >= b.last
           /\ From(b) <= clock /\ From(b) >= Earliest
           /\ Lead(b, From(b), MaxRate(k)) \in Int /\ MaxRate(k) * From(b) \in Int
           /\ bucket[k] = None => From(b) = Earliest
  <1>1. Fits(b, k, clock)
    BY DEF Trail, GateInv, BucketsFit, EvictedFit
  <1>2. /\ b \in Bucket /\ b.perMin \in Nat /\ b.perMin <= MaxRate(k) /\ b.last \in Nat /\ b.last <= clock
        /\ MaxRate(k) \in Nat
    BY <1>1, Numbers DEF Fits, Bucket
  <1>3. /\ From(b) \in Nat /\ From(b) >= b.last /\ From(b) <= clock /\ From(b) >= Earliest
    BY <1>2, Oldest DEF From
  <1>4. Lead(b, From(b), MaxRate(k)) \in Int /\ MaxRate(k) * From(b) \in Int
    BY <1>2, <1>3, LeadShrinks, Rated
  <1>5. ASSUME bucket[k] = None PROVE From(b) = Earliest
    <2>1. b.last + MaxStall <= clock
      BY <1>5 DEF Trail, GateInv, EvictedFit
    <2> QED
      BY <1>2, <2>1, Oldest DEF From
  <1> QED
    BY <1>1, <1>2, <1>3, <1>4, <1>5

\* What an access at t finds is covered, once the clock it puts back is counted.
LEMMA LeadAtAccess ==
    ASSUME GateInv, NEW k \in Key, NEW b, b = Trail(k), b # None, NEW t, Recent(t, clock),
           NEW g \in Nat, g >= MaxRate(k) * (b.last - t)
    PROVE  /\ t \in Nat /\ t >= Earliest /\ Lead(b, t, MaxRate(k)) \in Int /\ MaxRate(k) * t \in Int
           /\ Lead(b, t, MaxRate(k)) <= Lead(b, From(b), MaxRate(k)) + g
           /\ MaxRate(k) * From(b) <= MaxRate(k) * t + g
  <1> DEFINE rate == MaxRate(k)
  <1>1. t \in Nat /\ t >= Earliest /\ rate \in Nat /\ Earliest \in Nat
    BY Oldest, Numbers
  <1>2. /\ b \in Bucket /\ b.perMin <= rate /\ b.last \in Nat /\ From(b) \in Nat /\ From(b) >= b.last
        /\ Lead(b, From(b), rate) \in Int
    BY OfTrail
  <1>3. rate * t \in Int /\ rate * b.last \in Int /\ rate * From(b) \in Int
        /\ rate * (b.last - t) = rate * b.last - rate * t
    BY <1>1, <1>2, Rated
  <1>4. t < From(b) => From(b) = b.last
    BY <1>1, <1>2 DEF From
  <1> HIDE DEF rate
  <1>5. /\ t >= From(b) => Lead(b, t, rate) <= Lead(b, From(b), rate)
        /\ t < b.last => Lead(b, t, rate) = Lead(b, b.last, rate) + rate * (b.last - t)
        /\ Lead(b, t, rate) \in Int /\ Lead(b, b.last, rate) \in Int
    BY <1>1, <1>2, LeadShrinks
  <1>6. g >= rate * (b.last - t)
    BY DEF rate
  <1>7. CASE t >= From(b)
    <2>1. rate * From(b) <= rate * t
      BY <1>1, <1>2, <1>7, Rated
    <2> QED
      BY <1>1, <1>2, <1>3, <1>5, <1>7, <2>1 DEF rate
  <1>8. CASE t < From(b)
    <2>1. From(b) = b.last /\ t < b.last
      BY <1>1, <1>2, <1>4, <1>8
    <2>2. Lead(b, t, rate) = Lead(b, From(b), rate) + rate * (b.last - t)
      BY <1>5, <2>1
    <2>3. Lead(b, t, rate) <= Lead(b, From(b), rate) + g
      BY <1>2, <1>3, <1>6, <2>2
    <2>4. rate * From(b) <= rate * t + g
      BY <1>3, <1>6, <2>1
    <2> QED
      BY <1>1, <1>3, <1>5, <2>3, <2>4 DEF rate
  <1> QED
    BY <1>1, <1>2, <1>7, <1>8

\* A step of push p at the bucket of key k at time t is covered if the tokens owed
\* and those left are no more than before, but for e that is counted as a gain.
LEMMA AccessCovered ==
    ASSUME GateInv, NEW k \in Key, Covered(k), NEW b, b = bucket[k], b # None, NEW t, Recent(t, clock),
           clock' = clock, admitted'[k] = admitted[k], renewed'[k] = renewed[k],
           NEW d \in Bucket, bucket'[k] = d, d.last = t, NEW g \in Nat, g >= MaxRate(k) * (b.last - t),
           NEW e \in Nat, gained'[k] = gained[k] + g + e,
           NEW n \in Nat, Cardinality(Out(k))' = n,
           Token * (admitted[k] + n) + Advance(d, t)
             <= Token * (admitted[k] + Cardinality(Out(k))) + Advance(b, t) + e
    PROVE  /\ Fresh(k)' /\ Covered(k)' /\ Trail(k)' = d /\ From(d) = t
           /\ Token * (admitted[k] + n) + Advance(d, t) <= Allowed(k)' + MaxRate(k) * t
           /\ Allowed(k) + MaxRate(k) * From(b) <= Allowed(k)' + MaxRate(k) * t
           /\ Allowed(k)' \in Nat /\ MaxRate(k) * t \in Int /\ MaxRate(k) * From(b) \in Int
           /\ Advance(d, t) \in Int
  <1> DEFINE rate == MaxRate(k)
  <1>1. Trail(k) = b /\ Trail(k)' = d /\ d # None
    BY NoneIsNoBucket DEF Trail
  <1>2. /\ t \in Nat /\ t >= Earliest /\ Lead(b, t, rate) \in Int /\ rate * t \in Int
        /\ Lead(b, t, rate) <= Lead(b, From(b), rate) + g
        /\ rate * From(b) <= rate * t + g
    BY <1>1, LeadAtAccess
  <1>3. b \in Bucket /\ Lead(b, From(b), rate) \in Int /\ rate * From(b) \in Int
    BY <1>1, OfTrail
  <1>4. Earliest' = Earliest /\ Allowed(k)' = Allowed(k) + g + e /\ Allowed(k)' \in Nat
    BY Numbers DEF Earliest, Allowed
  <1>5. From(d) = t /\ From(d)' = t
    BY <1>2, <1>4, Numbers DEF From
  <1>6. Token * (admitted[k] + Cardinality(Out(k))) + Lead(b, From(b), rate) <= Allowed(k)
    BY <1>1 DEF Covered
  <1>7. Token * (admitted[k] + n) \in Nat /\ Token * (admitted[k] + Cardinality(Out(k))) \in Nat
    <2>1. admitted[k] + n \in Nat
      BY Numbers
    <2> QED
      BY <2>1, Capacity, Numbers
  <1>8. Advance(b, t) \in Int /\ Advance(d, t) \in Int
    BY <1>2, <1>3, Advanced
  <1>9. Lead(b, t, rate) = Advance(b, t) - rate * t /\ Lead(d, t, rate) = Advance(d, t) - rate * t
    BY DEF Lead
  <1> HIDE DEF rate
  <1>10. Token * (admitted[k] + n) + Lead(d, t, rate) <= Allowed(k)'
    BY <1>2, <1>3, <1>4, <1>6, <1>7, <1>8, <1>9, Numbers
  <1>11. Covered(k)'
    BY <1>1, <1>5, <1>10, Zenon DEF Covered, rate
  <1>12. Fresh(k)'
    BY <1>1 DEF Fresh
  <1>13. Token * (admitted[k] + n) + Advance(d, t) <= Allowed(k)' + rate * t
    BY <1>2, <1>4, <1>7, <1>8, <1>9, <1>10
  <1>14. Allowed(k) + rate * From(b) <= Allowed(k)' + rate * t
    BY <1>2, <1>3, <1>4, Numbers
  <1> QED
    BY <1>1, <1>2, <1>3, <1>4, <1>5, <1>8, <1>11, <1>12, <1>13, <1>14 DEF rate

\* It stays backed if no more tokens are held.
LEMMA AccessBacked ==
    ASSUME GateInv, NEW k \in Key, Backed(k), NEW b, b = bucket[k], b # None,
           clock' = clock, admitted'[k] = admitted[k], NEW t, NEW d, Trail(k)' = d, From(d) = t,
           Allowed(k) + MaxRate(k) * From(b) <= Allowed(k)' + MaxRate(k) * t,
           Allowed(k)' \in Nat, MaxRate(k) * t \in Int, MaxRate(k) * From(b) \in Int,
           Cardinality(Held(k))' \in Nat, Cardinality(Held(k))' <= Cardinality(Held(k))
    PROVE  Backed(k)'
  <1>1. Token * (admitted[k] + Cardinality(Held(k))) <= Allowed(k) + MaxRate(k) * From(b)
    BY DEF Backed, Trail
  <1>2. /\ Token * (admitted[k] + Cardinality(Held(k))') <= Token * (admitted[k] + Cardinality(Held(k)))
        /\ Token * (admitted[k] + Cardinality(Held(k))') \in Nat
    <2>1. /\ admitted[k] + Cardinality(Held(k))' \in Nat /\ admitted[k] + Cardinality(Held(k)) \in Nat
          /\ admitted[k] + Cardinality(Held(k))' <= admitted[k] + Cardinality(Held(k))
      BY Numbers, Outstanding
    <2> QED
      BY <2>1, Capacity
  <1>3. Token * (admitted[k] + Cardinality(Held(k))') <= Allowed(k)' + MaxRate(k) * t
    BY <1>1, <1>2, Numbers
  <1>4. From(d)' = t
    BY DEF From, Earliest
  <1> QED
    BY <1>3, <1>4 DEF Backed

LEMMA InitCredit == Init => CreditInv
  <1>1. ASSUME Init, NEW k \in Key PROVE bucket[k] = None /\ evicted[k] = None /\ admitted[k] = 0
    BY <1>1 DEF Init
  <1>2. ASSUME Init, NEW k \in Key PROVE Fresh(k) /\ Covered(k) /\ Backed(k)
    BY <1>1, <1>2 DEF Fresh, Covered, Backed, Trail
  <1> QED
    BY <1>2 DEF CreditInv

\* A step that leaves every bucket alone.
LEMMA NoBucketCredit ==
    ASSUME GateInv, CreditInv, NEW p \in Push, NEW r, Moves(p, r), \A k \in Key : Keeps(r, p, k),
           UNCHANGED <<clock, bucket, admitted, gained, evicted, renewed>>
    PROVE  CreditInv'
  <1>1. \A k \in Key : Out(k)' = Out(k) /\ Held(k)' = Held(k)
    BY KeptOut DEF Keeps
  <1>2. \A k \in Key : Fresh(k)' /\ Covered(k)' /\ Backed(k)'
    BY <1>1, Undisturbed DEF CreditInv, Trail
  <1> QED
    BY <1>2 DEF CreditInv

\* A step at one key leaves the others alone.
LEMMA OtherCredit ==
    ASSUME GateInv, CreditInv, NEW p \in Push, NEW r, Moves(p, r), NEW k \in Key,
           \A j \in Key \ {k} : Keeps(r, p, j), NEW d \in Bucket, bucket' = [bucket EXCEPT ![k] = d],
           NEW n \in Nat, Gains(k, n), UNCHANGED <<clock, admitted>>,
           \A j \in Key \ {k} : evicted'[j] = evicted[j] /\ renewed'[j] = renewed[j],
           Fresh(k)', Covered(k)', Backed(k)'
    PROVE  CreditInv'
  <1>1. ASSUME NEW j \in Key \ {k} PROVE Fresh(j)' /\ Covered(j)' /\ Backed(j)'
    <2>1. Out(j)' = Out(j) /\ Held(j)' = Held(j)
      BY KeptOut DEF Keeps
    <2>2. bucket'[j] = bucket[j] /\ gained'[j] = gained[j]
      BY GainsMore DEF GateInv, BucketsFit
    <2>3. Trail(j)' = Trail(j)
      BY <2>2 DEF Trail
    <2> QED
      BY <2>1, <2>2, <2>3, Undisturbed DEF CreditInv
  <1> QED
    BY <1>1 DEF CreditInv

\* A new bucket has no more than its burst, or than the one evicted but for what is
\* counted as renewed.
LEMMA MadeCredit ==
    ASSUME GateInv, NEW k \in Key, Fresh(k), Covered(k), Backed(k), bucket[k] = None, clock' = clock,
           NEW lim \in Limits[k], lim.perMin > 0, NEW t \in Nat, NEW d \in Bucket, d = NewBucket(lim, t),
           bucket'[k] = d, renewed' = [renewed EXCEPT ![k] = @ + Renewal(k)],
           gained[k] <= gained'[k], gained'[k] \in Nat, admitted'[k] = admitted[k],
           Out(k)' = Out(k), Held(k)' = Held(k)
    PROVE  Fresh(k)' /\ Covered(k)' /\ Backed(k)'
  <1> DEFINE rate == MaxRate(k)
             base == Token * MaxBurst(k)
             e    == evicted[k]
  <1>1. /\ Burst(lim) \in Nat \ {0} /\ Burst(lim) <= MaxBurst(k) /\ MaxBurst(k) \in Nat /\ rate \in Nat
    BY MostOf, BurstOf DEF MaxBurst, MaxRate
  <1>2. /\ Token * Burst(lim) \in Nat /\ Token * Burst(lim) <= base /\ base \in Nat
    BY <1>1, Capacity
  <1>3. d.tokens = Token * Burst(lim) /\ d.burst = Burst(lim) /\ d.last = 0
    BY DEF NewBucket
  <1>4. Earliest' = Earliest /\ Earliest \in Nat /\ rate * Earliest \in Nat
    BY <1>1, Oldest, Rated DEF Earliest
  <1>5. Advance(d, Earliest) \in Int /\ Advance(d, Earliest) <= d.tokens
    BY <1>3, <1>4, Advanced
  <1>6. Trail(k)' = d /\ d # None /\ Trail(k) = e
    BY NoneIsNoBucket DEF Trail
  <1>7. From(d)' = Earliest
    BY <1>3, <1>4 DEF From
  <1>8. renewed'[k] = renewed[k] + Renewal(k) /\ Renewal(k) \in Nat /\ renewed[k] \in Nat
    BY Renewed, Numbers
  <1>9. Allowed(k)' >= Allowed(k) + Renewal(k) /\ Allowed(k)' \in Nat /\ Allowed(k) \in Nat
        /\ Allowed(k) >= base
    BY <1>2, <1>8, Numbers DEF Allowed
  <1>10. Fresh(k)'
    BY <1>6 DEF Fresh
  <1> DEFINE n == Token * (admitted[k] + Cardinality(Out(k)))
             m == Token * (admitted[k] + Cardinality(Held(k)))
  <1>11. n + Advance(d, Earliest) - rate * Earliest <= Allowed(k)' /\ m <= Allowed(k)' + rate * Earliest
    <2>1. n \in Nat /\ m \in Nat /\ Cardinality(Out(k)) = 0 /\ Cardinality(Held(k)) = 0 /\ admitted[k] \in Nat
      BY NobodyOwes, Numbers
    <2>2. CASE e = None
      <3>1. admitted[k] = 0
        BY <1>6, <2>2 DEF Fresh
      <3>2. n = 0 /\ m = 0
        BY <2>1, <3>1, Bounds
      <3> HIDE DEF n, m, rate
      <3> QED
        BY <1>2, <1>3, <1>4, <1>5, <1>8, <1>9, <3>2
    <2>3. CASE e # None
      <3>1. From(e) = Earliest /\ e \in Bucket
        BY <1>6, <2>3, OfTrail
      <3>2. Advance(e, Earliest) \in Int
        BY <1>4, <3>1, Advanced
      <3>3. Renewal(k) >= d.tokens - Advance(e, Earliest)
        BY <2>3, Renewed
      <3>4. n + (Advance(e, Earliest) - rate * Earliest) <= Allowed(k) /\ m <= Allowed(k) + rate * Earliest
        BY <1>6, <2>3, <3>1, Zenon DEF Covered, Backed, Lead
      <3>5. d.tokens \in Int
        BY <1>2, <1>3
      <3> HIDE DEF n, m, rate, e
      <3> QED
        BY <1>4, <1>5, <1>8, <1>9, <2>1, <3>2, <3>3, <3>4, <3>5
    <2> QED
      BY <2>2, <2>3
  <1>12. Covered(k)'
    <2>1. n + (Advance(d, Earliest) - rate * Earliest) <= Allowed(k)'
      <3>1. n \in Nat
        BY Numbers
      <3> HIDE DEF n, rate
      <3> QED
        BY <1>4, <1>5, <1>9, <1>11, <3>1
    <2> QED
      BY <1>6, <1>7, <2>1, Zenon DEF Covered, Lead
  <1>13. Backed(k)'
    BY <1>6, <1>7, <1>11, Zenon DEF Backed
  <1> QED
    BY <1>10, <1>12, <1>13

\* A bucket that is only seen keeps what it has.
LEMMA SeenCredit ==
    ASSUME GateInv, NEW k \in Key, Covered(k), Backed(k), NEW b, b = bucket[k], b # None,
           NEW d, bucket'[k] = d, d # None,
           d.perMin = b.perMin, d.burst = b.burst, d.tokens = b.tokens, d.last = b.last,
           clock' = clock, admitted'[k] = admitted[k], Out(k)' = Out(k), Held(k)' = Held(k),
           NEW n \in Nat, Allowed(k)' = Allowed(k) + n
    PROVE  Fresh(k)' /\ Covered(k)' /\ Backed(k)'
  <1> DEFINE rate == MaxRate(k)
             s    == From(b)
  <1>1. Trail(k) = b /\ Trail(k)' = d
    BY DEF Trail
  <1>2. From(d)' = s
    BY DEF From, Earliest
  <1>3. Lead(d, s, rate) = Lead(b, s, rate)
    BY SameAdvance DEF Lead
  <1>4. Lead(b, s, rate) \in Int /\ rate * s \in Int
    BY <1>1, OfTrail
  <1>5. /\ Token * (admitted[k] + Cardinality(Out(k))) + Lead(b, s, rate) <= Allowed(k)
        /\ Token * (admitted[k] + Cardinality(Held(k))) <= Allowed(k) + rate * s
    BY <1>1 DEF Covered, Backed
  <1> HIDE DEF s, rate
  <1>6. /\ Token * (admitted[k] + Cardinality(Out(k))) + Lead(d, s, rate) <= Allowed(k)'
        /\ Token * (admitted[k] + Cardinality(Held(k))) <= Allowed(k)' + rate * s
    BY <1>3, <1>4, <1>5, Numbers
  <1>7. Fresh(k)'
    BY <1>1 DEF Fresh
  <1>8. Covered(k)' /\ Backed(k)'
    BY <1>1, <1>2, <1>6, Zenon DEF Covered, Backed, rate
  <1> QED
    BY <1>7, <1>8

\* A bucket is new and full, keeps what it has, or is put to another rate.
LEMMA BucketAtCredit ==
    ASSUME GateInv, CreditInv, NEW p \in Push, BucketAt(p), NEW k, k = KeyOf(p)
    PROVE  CreditInv'
  <1> DEFINE t == push[p].now
             b == bucket[k]
             d == bucket'[k]
             lim == push[p].lim[k]
             n == Cardinality(Out(k))
  <1>1. /\ k \in Key /\ Recent(t, clock) /\ Gains(k, 0) /\ UNCHANGED <<clock, admitted>>
        /\ Fits(d, k, clock) /\ d \in Bucket /\ bucket' = [bucket EXCEPT ![k] = d]
        /\ d = Synced(b, t, lim, None) /\ lim \in Limits[k] /\ lim.perMin > 0
        /\ evicted' = [evicted EXCEPT ![k] = None] /\ renewed' = [renewed EXCEPT ![k] = @ + Renewal(k)]
    BY BucketAtFinds
  <1>2. PICK r \in PushRec : /\ Moves(p, r) /\ \A j \in Key \ {k} : Keeps(r, p, j)
                             /\ ~Owing(r, k) /\ ~Owing(push[p], k)
    BY BucketAtMoves
  <1>3. Out(k)' = Out(k) /\ Held(k)' = Held(k) /\ n \in Nat
    <2>1. ~Holding(r, k) /\ ~Holding(push[p], k)
      BY <1>2 DEF Owing
    <2> QED
      BY <1>1, <1>2, <2>1, KeptOut, Outstanding
  <1>4. /\ gained'[k] = gained[k] + PutBack(k) + 0 /\ PutBack(k) \in Nat /\ gained[k] \in Nat
        /\ b # None => PutBack(k) >= MaxRate(k) * (b.last - d.last)
    BY <1>1, GainsMore
  <1>5. Fresh(k) /\ Covered(k) /\ Backed(k)
    BY <1>1 DEF CreditInv
  <1>6. t \in Nat /\ lim \in Limit
    BY <1>1, Oldest, MostOf
  <1>7. /\ \A j \in Key \ {k} : evicted'[j] = evicted[j] /\ renewed'[j] = renewed[j]
        /\ admitted'[k] = admitted[k] /\ clock' = clock /\ d # None
    BY <1>1, NoneIsNoBucket DEF GateInv, EvictedFit, Counted
  <1> HIDE DEF t, b, d, lim, n
  <1>8. CASE b = None
    <2>1. d = NewBucket(lim, t)
      BY <1>1, <1>8 DEF Synced
    <2>2. gained[k] <= gained'[k] /\ gained'[k] \in Nat
      BY <1>4
    <2>3. Fresh(k)' /\ Covered(k)' /\ Backed(k)'
      BY <1>1, <1>3, <1>5, <1>6, <1>7, <1>8, <2>1, <2>2, MadeCredit DEF b, d
    <2> QED
      BY <1>1, <1>2, <1>7, <2>3, OtherCredit
  <1>9. ASSUME b # None PROVE renewed'[k] = renewed[k] /\ Renewal(k) = 0
    BY <1>1, <1>9, Numbers, Renewed DEF Renewal, b, d
  <1>10. CASE b # None /\ ~Differs(b, lim, None)
    <2>1. d = [b EXCEPT !.seen = t] /\ b \in Bucket
      BY <1>1, <1>10, OfTrail DEF Synced, b, Trail
    <2>2. d.perMin = b.perMin /\ d.burst = b.burst /\ d.tokens = b.tokens /\ d.last = b.last
      BY <2>1 DEF Bucket
    <2>3. Allowed(k)' = Allowed(k) + PutBack(k)
      BY <1>1, <1>4, <1>9, <1>10, Numbers DEF Allowed
    <2>4. Fresh(k)' /\ Covered(k)' /\ Backed(k)'
      BY <1>1, <1>3, <1>4, <1>5, <1>7, <1>10, <2>2, <2>3, SeenCredit DEF b, d
    <2> QED
      BY <1>1, <1>2, <1>7, <2>4, OtherCredit
  <1>11. CASE b # None /\ Differs(b, lim, None)
    <2> DEFINE c == SetLimitAt(b, t, lim)
    <2>1. d = [c EXCEPT !.seen = t] /\ b \in Bucket
      BY <1>1, <1>11, OfTrail DEF Synced, b, Trail
    <2>2. /\ c \in Bucket /\ c.last = t /\ Advance(c, t) = Advance(b, t)
      BY <1>1, <1>6, <2>1, SetLimit
    <2> HIDE DEF c
    <2>3. d.perMin = c.perMin /\ d.burst = c.burst /\ d.tokens = c.tokens /\ d.last = c.last
      BY <2>1, <2>2 DEF Bucket
    <2>4. Advance(d, t) = Advance(b, t) /\ Advance(d, t) \in Int
      BY <1>1, <1>6, <2>2, <2>3, SameAdvance, Advanced
    <2>5. Token * (admitted[k] + n) + Advance(d, t)
             <= Token * (admitted[k] + Cardinality(Out(k))) + Advance(b, t) + 0
      BY <1>1, <2>4, Numbers DEF n
    <2>6. /\ Fresh(k)' /\ Covered(k)' /\ Trail(k)' = d /\ From(d) = t
          /\ Allowed(k) + MaxRate(k) * From(b) <= Allowed(k)' + MaxRate(k) * t
          /\ Allowed(k)' \in Nat /\ MaxRate(k) * t \in Int /\ MaxRate(k) * From(b) \in Int
      <3>1. Cardinality(Out(k))' = n /\ d.last = t /\ PutBack(k) >= MaxRate(k) * (b.last - t)
            /\ renewed'[k] = renewed[k] /\ b = bucket[k] /\ bucket'[k] = d
        BY <1>3, <1>4, <1>9, <1>11, <2>2, <2>3 DEF n, b, d
      <3> QED
        BY <1>1, <1>3, <1>4, <1>5, <1>7, <1>11, <2>5, <3>1, AccessCovered
    <2>7. Backed(k)'
      BY <1>1, <1>3, <1>5, <1>7, <1>11, <2>6, Outstanding, AccessBacked DEF b
    <2> QED
      BY <1>1, <1>2, <1>7, <2>6, <2>7, OtherCredit
  <1> QED
    BY <1>8, <1>10, <1>11

\* A bucket put to another burst has no more than before.
LEMMA SetBurstCredit ==
    ASSUME GateInv, CreditInv, NEW p \in Push, SetBurst(p), NEW k, k = KeyOf(p)
    PROVE  CreditInv'
  <1> DEFINE t == push[p].now
             b == bucket[k]
             d == bucket'[k]
             lim == push[p].lim[k]
             n == Cardinality(Out(k))
  <1>1. /\ k \in Key /\ Recent(t, clock) /\ b # None /\ Gains(k, 0) /\ lim \in Limits[k]
        /\ UNCHANGED <<clock, admitted, evicted, renewed>>
        /\ d = SetBurstAt(b, t, lim) /\ d \in Bucket /\ bucket' = [bucket EXCEPT ![k] = d]
    BY SetBurstFinds
  <1>2. PICK r \in PushRec : /\ Moves(p, r) /\ \A j \in Key \ {k} : Keeps(r, p, j)
                             /\ ~Owing(r, k) /\ ~Owing(push[p], k)
    BY SetBurstMoves
  <1>3. Out(k)' = Out(k) /\ Held(k)' = Held(k) /\ n \in Nat
    <2>1. ~Holding(r, k) /\ ~Holding(push[p], k)
      BY <1>2 DEF Owing
    <2> QED
      BY <1>1, <1>2, <2>1, KeptOut, Outstanding
  <1>4. /\ gained'[k] = gained[k] + PutBack(k) + 0 /\ PutBack(k) \in Nat
        /\ PutBack(k) >= MaxRate(k) * (b.last - d.last)
    BY <1>1, GainsMore
  <1>5. Covered(k) /\ Backed(k) /\ b \in Bucket
    BY <1>1, OfTrail DEF CreditInv, Trail
  <1>6. t \in Nat /\ lim \in Limit
    BY <1>1, Oldest, MostOf
  <1>7. d.last = t /\ Advance(d, t) <= Advance(b, t) /\ Advance(d, t) \in Int /\ Advance(b, t) \in Int
    <2>1. d = SetBurstAt(b, t, lim) /\ b \in Bucket /\ d \in Bucket
      BY <1>1, <1>5
    <2> HIDE DEF b, d, t, lim
    <2> QED
      BY <1>6, <2>1, SetBurstTo, Advanced
  <1> HIDE DEF t, lim
  <1>8. /\ Fresh(k)' /\ Covered(k)' /\ Trail(k)' = d /\ From(d) = t
        /\ Allowed(k) + MaxRate(k) * From(b) <= Allowed(k)' + MaxRate(k) * t
        /\ Allowed(k)' \in Nat /\ MaxRate(k) * t \in Int /\ MaxRate(k) * From(b) \in Int
    <2>1. Cardinality(Out(k))' = n /\ PutBack(k) >= MaxRate(k) * (b.last - t)
          /\ renewed'[k] = renewed[k] /\ admitted'[k] = admitted[k]
      BY <1>1, <1>3, <1>4, <1>7
    <2>2. Token * (admitted[k] + n) + Advance(d, t)
             <= Token * (admitted[k] + Cardinality(Out(k))) + Advance(b, t) + 0
      BY <1>1, <1>7, Numbers
    <2> HIDE DEF n, b, d
    <2> QED
      BY <1>1, <1>3, <1>4, <1>5, <1>7, <2>1, <2>2, AccessCovered DEF b, d
  <1>9. Backed(k)'
    BY <1>1, <1>3, <1>5, <1>8, Outstanding, AccessBacked
  <1> QED
    BY <1>1, <1>2, <1>8, <1>9, OtherCredit

\* A reservation takes the token that its push owes from then on.
LEMMA ReserveCredit ==
    ASSUME GateInv, CreditInv, NEW p \in Push, Reserve(p), NEW k, k = KeyOf(p)
    PROVE  CreditInv'
  <1> DEFINE t == push[p].now
             b == bucket[k]
             d == bucket'[k]
             n == Cardinality(Out(k)) + 1
  <1>1. /\ k \in Key /\ Recent(t, clock) /\ b # None /\ Gains(k, 0)
        /\ UNCHANGED <<clock, admitted, evicted, renewed>>
        /\ d = ReserveN(b, t) /\ d \in Bucket /\ bucket' = [bucket EXCEPT ![k] = d]
        /\ d.lastEvent \in Nat /\ d.perMin \in Nat \ {0} /\ b.perMin \in Nat \ {0} /\ ~Owing(push[p], k)
    BY ReserveFinds
  <1>2. PICK r \in PushRec :
            /\ Moves(p, r) /\ Owing(r, k) /\ \A j \in Key \ {k} : Keeps(r, p, j)
            /\ IF d.lastEvent <= t THEN Holding(r, k) ELSE ~Holding(r, k)
    BY <1>1, ReserveMoves
  <1>3. /\ gained'[k] = gained[k] + PutBack(k) + 0 /\ PutBack(k) \in Nat
        /\ PutBack(k) >= MaxRate(k) * (b.last - d.last)
    BY <1>1, GainsMore
  <1>4. Covered(k) /\ Backed(k) /\ b \in Bucket
    BY <1>1, OfTrail DEF CreditInv, Trail
  <1>5. t \in Nat
    BY <1>1, Oldest
  <1>6. /\ d.last = t /\ d.tokens = Advance(b, t) - Token /\ d.lastEvent >= t
        /\ (d.lastEvent = t <=> d.tokens >= 0) /\ Advance(d, t) = Advance(b, t) - Token
    <2>1. d = ReserveN(b, t) /\ b \in Bucket /\ t \in Nat
      BY <1>1, <1>4, <1>5
    <2> HIDE DEF b, d, t
    <2> QED
      BY <2>1, Reserved
  <1>7. Advance(b, t) \in Int /\ Token \in Nat
    BY <1>4, <1>5, Advanced, Bounds
  <1>8. /\ p \notin Out(k) /\ Out(k)' = Out(k) \cup {p} /\ p \notin Held(k)
        /\ Holding(r, k) => Held(k)' = Held(k) \cup {p}
        /\ ~Holding(r, k) => Held(k)' = Held(k) \ {p}
    <2>1. ~Holding(push[p], k)
      BY <1>1 DEF Owing
    <2> QED
      BY <1>1, <1>2, <2>1, OutMoves
  <1>9. Cardinality(Out(k))' = n /\ n \in Nat
    <2>1. Cardinality(Out(k) \cup {p}) = Cardinality(Out(k)) + 1
      BY <1>1, <1>8, Outstanding, PlusOrMinus
    <2> QED
      BY <1>1, <1>8, <2>1, Outstanding
  <1>10. Token * (admitted[k] + n) = Token * (admitted[k] + Cardinality(Out(k))) + Token
    <2>1. admitted[k] + n = (admitted[k] + Cardinality(Out(k))) + 1
      BY <1>1, Numbers, Outstanding
    <2> QED
      BY <1>1, <2>1, Numbers, Capacity
  <1>11. admitted'[k] = admitted[k] /\ renewed'[k] = renewed[k]
    BY <1>1
  <1> HIDE DEF t
  <1>12. /\ Fresh(k)' /\ Covered(k)' /\ Trail(k)' = d /\ From(d) = t
         /\ Token * (admitted[k] + n) + Advance(d, t) <= Allowed(k)' + MaxRate(k) * t
         /\ Allowed(k) + MaxRate(k) * From(b) <= Allowed(k)' + MaxRate(k) * t
         /\ Allowed(k)' \in Nat /\ MaxRate(k) * t \in Int /\ MaxRate(k) * From(b) \in Int
         /\ Advance(d, t) \in Int
    <2>1. Token * (admitted[k] + n) + Advance(d, t)
             <= Token * (admitted[k] + Cardinality(Out(k))) + Advance(b, t) + 0
      BY <1>1, <1>6, <1>7, <1>10, Numbers
    <2>2. PutBack(k) >= MaxRate(k) * (b.last - t)
      BY <1>3, <1>6
    <2> HIDE DEF n, b, d
    <2> QED
      BY <1>1, <1>3, <1>4, <1>6, <1>9, <1>11, <2>1, <2>2, AccessCovered DEF b, d
  <1>13. Backed(k)'
    <2>1. CASE Holding(r, k)
      <3>1. Advance(d, t) >= 0
        BY <1>1, <1>2, <1>5, <1>6, <1>7, <2>1
      <3>2. Cardinality(Held(k))' = Cardinality(Held(k)) + 1
        <4>1. Cardinality(Held(k) \cup {p}) = Cardinality(Held(k)) + 1
          BY <1>1, <1>8, Outstanding, PlusOrMinus
        <4> QED
          BY <1>8, <2>1, <4>1
      <3>3. /\ Token * (admitted[k] + Cardinality(Held(k))') <= Token * (admitted[k] + n)
            /\ Token * (admitted[k] + Cardinality(Held(k))') \in Nat /\ Token * (admitted[k] + n) \in Nat
        <4>1. /\ admitted[k] + Cardinality(Held(k))' \in Nat /\ admitted[k] + n \in Nat
              /\ admitted[k] + Cardinality(Held(k))' <= admitted[k] + n
          BY <1>1, <3>2, Numbers, Outstanding DEF n
        <4> QED
          BY <4>1, Capacity
      <3> HIDE DEF n, b
      <3>4. Token * (admitted[k] + Cardinality(Held(k))') <= Allowed(k)' + MaxRate(k) * t
        <4> HIDE DEF d
        <4> QED
          BY <1>12, <3>1, <3>3
      <3>5. From(Trail(k))' = t
        BY <1>1, <1>12 DEF From, Earliest
      <3> QED
        BY <1>11, <1>12, <3>4, <3>5, Zenon DEF Backed
    <2>2. CASE ~Holding(r, k)
      <3>1. Held(k)' = Held(k)
        BY <1>8, <2>2
      <3> QED
        BY <1>1, <1>4, <1>11, <1>12, <3>1, Outstanding, AccessBacked
    <2> QED
      BY <2>1, <2>2
  <1> QED
    BY <1>1, <1>2, <1>12, <1>13, OtherCredit

\* A cancel gives back what its push owes, but for what it is overpaid.
LEMMA ReturnsCredit ==
    ASSUME GateInv, CreditInv, NEW p \in Push, NEW k, NEW acts, NEW perMin, NEW t,
           Returns(k, acts, perMin, t),
           NEW r, Moves(p, r), Owing(push[p], k), ~Using(r, k), \A j \in Key \ {k} : Keeps(r, p, j)
    PROVE  CreditInv'
  <1> DEFINE b == bucket[k]
             d == bucket'[k]
             e == Overpaid(k, acts, perMin)
             n == Cardinality(Out(k)) - 1
  <1>1. /\ k \in Key /\ Recent(t, clock) /\ b # None /\ Gains(k, e)
        /\ UNCHANGED <<clock, admitted, evicted, renewed>>
        /\ acts \in Nat /\ acts >= t /\ perMin \in Nat \ {0} /\ d = CancelAt(b, acts, perMin, t)
        /\ d \in Bucket /\ bucket' = [bucket EXCEPT ![k] = d]
        /\ e \in Nat /\ (d # b => e >= Restored(b, acts, perMin) - Token)
    BY DEF Returns
  <1>2. /\ gained'[k] = gained[k] + PutBack(k) + e /\ PutBack(k) \in Nat
        /\ PutBack(k) >= MaxRate(k) * (b.last - d.last)
    BY <1>1, GainsMore
  <1>3. Covered(k) /\ Backed(k) /\ b \in Bucket /\ Trail(k) = b
    BY <1>1, OfTrail DEF CreditInv, Trail
  <1>4. t \in Nat /\ admitted'[k] = admitted[k] /\ renewed'[k] = renewed[k] /\ clock' = clock
    BY <1>1, Oldest
  <1>5. /\ p \in Out(k) /\ Out(k)' = Out(k) \ {p} /\ Held(k)' = Held(k) \ {p}
    <2>1. ~Owing(r, k) /\ ~Holding(r, k)
      BY DEF Using, Owing
    <2> QED
      BY <1>1, <2>1, OutMoves
  <1>6. Cardinality(Out(k))' = n /\ n \in Nat
    <2>1. Cardinality(Out(k) \ {p}) = Cardinality(Out(k)) - 1
      BY <1>1, <1>5, Outstanding, PlusOrMinus
    <2>2. IsFiniteSet(Out(k) \ {p})
      BY <1>1, Outstanding, FS_RemoveElement
    <2>3. Cardinality(Out(k) \ {p}) \in Nat
      BY <2>2, FS_CardinalityType
    <2> QED
      BY <1>5, <2>1, <2>3
  <1>7. Cardinality(Held(k))' \in Nat /\ Cardinality(Held(k))' <= Cardinality(Held(k))
    <2>1. Held(k) \ {p} \in SUBSET Held(k)
      OBVIOUS
    <2>2. IsFiniteSet(Held(k) \ {p}) /\ Cardinality(Held(k) \ {p}) <= Cardinality(Held(k))
      BY <1>1, <2>1, Outstanding, FS_Subset
    <2> QED
      BY <1>5, <2>2, FS_CardinalityType
  <1>8. /\ Token * (admitted[k] + Cardinality(Out(k))) = Token * (admitted[k] + n) + Token
        /\ Token * (admitted[k] + n) \in Nat /\ Token \in Nat
    <2>1. admitted[k] + n \in Nat /\ admitted[k] + Cardinality(Out(k)) = (admitted[k] + n) + 1
      BY <1>1, <1>6, Numbers, Outstanding
    <2> QED
      BY <2>1, Capacity, Bounds
  <1> HIDE DEF n, e, b, d
  <1>9. CASE d = b
    <2>1. Trail(k)' = b
      BY <1>1, <1>9 DEF Trail, b, d
    <2>2. From(b)' = From(b)
      BY <1>1, <1>9 DEF From, Earliest, b, d
    <2>3. Allowed(k)' = Allowed(k) + PutBack(k) + e /\ Allowed(k)' \in Nat /\ Allowed(k)' >= Allowed(k)
      BY <1>1, <1>2, <1>4, Numbers DEF Allowed
    <2>4. Lead(b, From(b), MaxRate(k)) \in Int /\ MaxRate(k) * From(b) \in Int
      BY <1>1, <1>3, OfTrail
    <2>5. /\ Token * (admitted[k] + Cardinality(Out(k))) + Lead(b, From(b), MaxRate(k)) <= Allowed(k)
          /\ Token * (admitted[k] + Cardinality(Held(k))) <= Allowed(k) + MaxRate(k) * From(b)
      BY <1>1, <1>3, Zenon DEF Covered, Backed
    <2>6. Token * (admitted[k] + n) + Lead(b, From(b), MaxRate(k)) <= Allowed(k)'
      BY <1>1, <1>8, <2>3, <2>4, <2>5, Numbers
    <2>7. Token * (admitted[k] + Cardinality(Held(k))') <= Allowed(k)' + MaxRate(k) * From(b)
      <3>1. /\ Token * (admitted[k] + Cardinality(Held(k))') <= Token * (admitted[k] + Cardinality(Held(k)))
            /\ Token * (admitted[k] + Cardinality(Held(k))') \in Nat
        <4>1. /\ admitted[k] + Cardinality(Held(k))' \in Nat /\ admitted[k] + Cardinality(Held(k)) \in Nat
              /\ admitted[k] + Cardinality(Held(k))' <= admitted[k] + Cardinality(Held(k))
          BY <1>1, <1>7, Numbers, Outstanding
        <4> QED
          BY <4>1, Capacity
      <3> QED
        BY <1>1, <2>3, <2>4, <2>5, <3>1, Numbers
    <2>8. Fresh(k)' /\ Covered(k)' /\ Backed(k)'
      <3>1. Trail(k)' = Trail(k) /\ From(Trail(k))' = From(Trail(k)) /\ Trail(k) = b
        BY <1>3, <2>1, <1>1 DEF From, Earliest
      <3>2. Lead(Trail(k), From(Trail(k)), MaxRate(k))' = Lead(b, From(b), MaxRate(k))
        BY <3>1, Zenon DEF Lead
      <3>3. Fresh(k)'
        BY <1>1, <3>1 DEF Fresh
      <3>4. Covered(k)'
        BY <1>4, <1>6, <2>6, <3>1, <3>2 DEF Covered
      <3>5. Backed(k)'
        BY <1>4, <2>7, <3>1 DEF Backed
      <3> QED
        BY <3>3, <3>4, <3>5
    <2> QED
      BY <1>1, <2>8, OtherCredit
  <1>10. CASE d # b /\ GivenBack(b, d, acts, perMin, t)
    <2>1. Advance(b, t) \in Int /\ Token * b.burst \in Nat
      BY <1>3, <1>4, Advanced, OfBucket
    <2>2. Restored(b, acts, perMin) <= Token + e /\ Restored(b, acts, perMin) \in Int
      <3>1. Restored(b, acts, perMin) \in Int
        BY <1>1, <1>3, RestoredIsInt
      <3> QED
        BY <1>1, <1>8, <1>10, <3>1
    <2>3. Advance(d, t) <= Advance(b, t) + Token + e /\ Advance(d, t) \in Int /\ d.last = t
      BY <1>1, <1>8, <1>10, <2>1, <2>2 DEF GivenBack
    <2>4. /\ Token * (admitted[k] + n) + Advance(d, t)
               <= Token * (admitted[k] + Cardinality(Out(k))) + Advance(b, t) + e
          /\ PutBack(k) >= MaxRate(k) * (b.last - t)
      BY <1>1, <1>2, <1>8, <2>1, <2>3
    <2>5. /\ Fresh(k)' /\ Covered(k)' /\ Trail(k)' = d /\ From(d) = t
          /\ Allowed(k) + MaxRate(k) * From(b) <= Allowed(k)' + MaxRate(k) * t
          /\ Allowed(k)' \in Nat /\ MaxRate(k) * t \in Int /\ MaxRate(k) * From(b) \in Int
      BY <1>1, <1>2, <1>3, <1>4, <1>6, <2>3, <2>4, AccessCovered DEF b, d
    <2>6. Backed(k)'
      BY <1>1, <1>3, <1>4, <1>7, <2>5, AccessBacked DEF b
    <2> QED
      BY <1>1, <2>5, <2>6, OtherCredit
  <1>11. (Restored(b, acts, perMin) <= 0 /\ d = b) \/ GivenBack(b, d, acts, perMin, t)
    BY <1>1, <1>3, <1>4, Cancelled
  <1> QED
    BY <1>9, <1>10, <1>11

\* A push that is admitted has paid for it.
LEMMA QuotaAdmitsCredit == ASSUME GateInv, CreditInv, NEW p \in Push, QuotaAdmits(p) PROVE CreditInv'
  <1>1. /\ Moves(p, NoPush) /\ \A k \in Key : ~Using(NoPush, k)
        /\ \A k \in Key : Owing(push[p], k) <=> Holding(push[p], k)
    BY QuotaAdmitsMoves
  <1>2. /\ UNCHANGED <<clock, bucket, gained, evicted, renewed>> /\ Holds(p) = DOMAIN push[p].held
        /\ admitted' = [k \in Key |-> admitted[k] + (IF k \in Holds(p) THEN 1 ELSE 0)]
    BY OfPush DEF QuotaAdmits
  <1>3. ASSUME NEW k \in Key, ~Holding(push[p], k) PROVE Fresh(k)' /\ Covered(k)' /\ Backed(k)'
    <2>1. ~Owing(NoPush, k) /\ ~Holding(NoPush, k) /\ ~Owing(push[p], k)
      BY <1>1, <1>3 DEF Using, Owing
    <2>2. Out(k)' = Out(k) /\ Held(k)' = Held(k)
      BY <1>1, <1>2, <1>3, <2>1, KeptOut
    <2>3. admitted'[k] = admitted[k] /\ Trail(k)' = Trail(k)
      BY <1>2, <1>3, Numbers DEF Holding, Trail
    <2> QED
      BY <1>2, <2>2, <2>3, Undisturbed DEF CreditInv
  <1>4. ASSUME NEW k \in Key, Holding(push[p], k) PROVE Fresh(k)' /\ Covered(k)' /\ Backed(k)'
    <2>1. ~Owing(NoPush, k) /\ ~Holding(NoPush, k) /\ Owing(push[p], k)
      BY <1>1, <1>4 DEF Using, Owing
    <2>2. p \in Out(k) /\ Out(k)' = Out(k) \ {p} /\ p \in Held(k) /\ Held(k)' = Held(k) \ {p}
      BY <1>1, <1>2, <1>4, <2>1, OutMoves
    <2>3. /\ Cardinality(Out(k))' = Cardinality(Out(k)) - 1
          /\ Cardinality(Held(k))' = Cardinality(Held(k)) - 1
      <3>1. /\ Cardinality(Out(k) \ {p}) = Cardinality(Out(k)) - 1
            /\ Cardinality(Held(k) \ {p}) = Cardinality(Held(k)) - 1
        BY <2>2, Outstanding, PlusOrMinus
      <3> QED
        BY <2>2, <3>1
    <2>4. admitted'[k] = admitted[k] + 1
      BY <1>2, <1>4 DEF Holding
    <2>5. /\ admitted'[k] + Cardinality(Out(k))' = admitted[k] + Cardinality(Out(k))
          /\ admitted'[k] + Cardinality(Held(k))' = admitted[k] + Cardinality(Held(k))
      BY <2>3, <2>4, Numbers, Outstanding
    <2>6. Trail(k)' = Trail(k) /\ Trail(k) # None
      <3>1. Stays(push[p], k, bucket[k]) /\ Using(push[p], k)
        BY <2>1 DEF GateInv, UsedBucketsStay, Using
      <3> QED
        BY <1>2, <3>1 DEF Trail, Stays
    <2>7. Earliest' = Earliest /\ Allowed(k)' = Allowed(k)
      BY <1>2 DEF Earliest, Allowed
    <2>8. From(Trail(k))' = From(Trail(k))
      BY <2>6, <2>7 DEF From
    <2>9. Lead(Trail(k), From(Trail(k)), MaxRate(k))' = Lead(Trail(k), From(Trail(k)), MaxRate(k))
      BY <2>6, <2>8, Zenon DEF Lead
    <2>10. Covered(k) /\ Backed(k)
      BY DEF CreditInv
    <2>11. Covered(k)'
      BY <2>5, <2>6, <2>7, <2>9, <2>10 DEF Covered
    <2>12. Backed(k)'
      BY <2>5, <2>6, <2>7, <2>8, <2>10 DEF Backed
    <2> QED
      BY <2>6, <2>11, <2>12 DEF Fresh
  <1> QED
    BY <1>3, <1>4 DEF CreditInv

\* A bucket that is evicted still counts.
LEMMA CleanupCredit ==
    ASSUME GateInv, CreditInv, NEW keys \in {Instance, App}, NEW stage, Cleanup(keys, stage)
    PROVE  CreditInv'
  <1>1. UNCHANGED <<clock, push, admitted, gained, renewed>>
    BY DEF Cleanup
  <1>2. \A k \in Key : Out(k)' = Out(k) /\ Held(k)' = Held(k)
    BY <1>1 DEF Out, Held
  <1>3. \A k \in Key : Trail(k)' = Trail(k)
    BY CleanupInv DEF Trail
  <1>4. \A k \in Key : Fresh(k)' /\ Covered(k)' /\ Backed(k)'
    BY <1>1, <1>2, <1>3, Undisturbed DEF CreditInv
  <1> QED
    BY <1>4 DEF CreditInv

LEMMA TickCredit == ASSUME GateInv, CreditInv, Tick PROVE CreditInv'
  <1>1. clock' = clock + 1 /\ UNCHANGED <<bucket, push, admitted, gained, evicted, renewed>>
    BY DEF Tick, ghosts
  <1>2. \A k \in Key : Out(k)' = Out(k) /\ Held(k)' = Held(k)
    BY <1>1 DEF Out, Held
  <1>3. GateInv'
    BY TickInv
  <1>4. Earliest' \in Nat /\ Earliest' >= Earliest /\ Earliest \in Nat
    <2>1. /\ Earliest = IF clock >= MaxStall THEN clock - MaxStall ELSE 0
          /\ clock \in Nat /\ MaxStall \in Nat
      BY Oldest
    <2>2. Earliest' = IF clock' >= MaxStall THEN clock' - MaxStall ELSE 0
      BY DEF Earliest
    <2> QED
      BY <1>1, <2>1, <2>2
  <1>5. ASSUME NEW k \in Key, NEW b, b = Trail(k), b # None PROVE Covered(k)' /\ Backed(k)'
    <2> DEFINE rate == MaxRate(k)
               s    == From(b)
    <2>1. /\ b \in Bucket /\ b.perMin <= rate /\ b.last \in Nat /\ s \in Nat /\ s >= b.last
          /\ Lead(b, s, rate) \in Int /\ rate * s \in Int /\ rate \in Nat
      BY <1>5, OfTrail, Numbers
    <2>2. Trail(k)' = b /\ Allowed(k)' = Allowed(k)
      BY <1>1, <1>5 DEF Trail, Allowed
    <2>3. PICK u : u = From(b)'
      OBVIOUS
    <2>4. u \in Nat /\ u >= s
      BY <1>4, <2>1, <2>3 DEF From
    <2>5. Lead(b, u, rate) <= Lead(b, s, rate) /\ Lead(b, u, rate) \in Int
      BY <2>1, <2>4, LeadShrinks
    <2>6. rate * s <= rate * u /\ rate * u \in Int
      BY <2>1, <2>4, Rated
    <2>7. /\ Token * (admitted[k] + Cardinality(Out(k))) + Lead(b, s, rate) <= Allowed(k)
          /\ Token * (admitted[k] + Cardinality(Held(k))) <= Allowed(k) + rate * s
      BY <1>5, Zenon DEF CreditInv, Covered, Backed
    <2> HIDE DEF s, rate
    <2>8. /\ Token * (admitted[k] + Cardinality(Out(k))) + Lead(b, u, rate) <= Allowed(k)'
          /\ Token * (admitted[k] + Cardinality(Held(k))) <= Allowed(k)' + rate * u
      BY <1>5, <2>1, <2>2, <2>5, <2>6, <2>7, Numbers
    <2>9. Covered(k)'
      BY <1>1, <1>2, <2>2, <2>3, <2>8 DEF Covered, rate
    <2>10. Backed(k)'
      BY <1>1, <1>2, <2>2, <2>3, <2>8 DEF Backed, rate
    <2> QED
      BY <2>9, <2>10
  <1>6. ASSUME NEW k \in Key, Trail(k) = None PROVE Covered(k)' /\ Backed(k)'
    BY <1>1, <1>6 DEF Covered, Backed, Trail
  <1>7. \A k \in Key : Fresh(k)'
    BY <1>1 DEF CreditInv, Fresh, Trail
  <1> QED
    BY <1>5, <1>6, <1>7 DEF CreditInv

LEMMA NextCredit == GateInv /\ CreditInv /\ [Next]_vars => CreditInv'
  <1> SUFFICES ASSUME GateInv, CreditInv, [Next]_vars PROVE CreditInv'
    OBVIOUS
  <1>1. ASSUME NEW p \in Push, NEW i \in Instance, Admit(p, i) PROVE CreditInv'
    BY <1>1, AdmitMoves, NoBucketCredit DEF Admit
  <1>2. ASSUME NEW p \in Push, Unlimited(p) PROVE CreditInv'
    BY <1>2, UnlimitedMoves, NoBucketCredit DEF Unlimited, ghosts
  <1>3. ASSUME NEW p \in Push, ReadClock(p) PROVE CreditInv'
    BY <1>3, ReadClockMoves, NoBucketCredit DEF ReadClock, ghosts
  <1>4. ASSUME NEW p \in Push, QuotaDenies(p) PROVE CreditInv'
    BY <1>4, QuotaDeniesMoves, NoBucketCredit DEF QuotaDenies, ghosts
  <1>5. ASSUME NEW p \in Push, CancelDenied(p) PROVE CreditInv'
    BY <1>5, CancelDeniedMoves, CancelDeniedReturns, ReturnsCredit
  <1>6. ASSUME NEW p \in Push, NEW k \in Key, Refund(p, k) PROVE CreditInv'
    <2>1. Holding(push[p], k) => Owing(push[p], k)
      BY DEF Owing
    <2> QED
      BY <1>6, <2>1, RefundMoves, RefundReturns, ReturnsCredit
  <1>7. ASSUME NEW p \in Push, PushStep(p) PROVE CreditInv'
    BY <1>1, <1>2, <1>3, <1>4, <1>5, <1>6, <1>7, BucketAtCredit, SetBurstCredit, ReserveCredit,
       QuotaAdmitsCredit
    DEF PushStep
  <1>8. CASE Cleanup(Instance, "instance") \/ Cleanup(App, "app")
    BY <1>8, CleanupCredit
  <1>9. ASSUME UNCHANGED <<clock, bucket, push, admitted, gained, evicted, renewed>> PROVE CreditInv'
    <2>1. \A k \in Key : Out(k)' = Out(k) /\ Held(k)' = Held(k) /\ Trail(k)' = Trail(k)
      BY <1>9 DEF Out, Held, Trail
    <2> QED
      BY <1>9, <2>1, Undisturbed DEF CreditInv
  <1>11. CASE UNCHANGED vars
    BY <1>9, <1>11 DEF vars, ghosts
  <1> QED
    BY <1>7, <1>8, <1>11, TickCredit DEF Next

\* What CreditInv says of the pushes let through.
LEMMA CreditBounds ==
    ASSUME GateInv, CreditInv, NEW k \in Key
    PROVE  Token * admitted[k] <= Token * MaxBurst(k) + MaxRate(k) * clock + gained[k] + renewed[k]
  <1>1. CASE Trail(k) = None
    <2>1. admitted[k] = 0 /\ Token * 0 = 0 /\ MaxRate(k) * clock \in Nat
      BY <1>1, Numbers, Rated DEF CreditInv, Fresh
    <2> QED
      BY <2>1, Numbers
  <1>2. CASE Trail(k) # None
    <2> DEFINE s == From(Trail(k))
    <2>1. Token * (admitted[k] + Cardinality(Held(k))) <= Allowed(k) + MaxRate(k) * s
      BY <1>2 DEF CreditInv, Backed
    <2>2. s \in Nat /\ s <= clock
      BY <1>2, OfTrail
    <2>3. MaxRate(k) * s <= MaxRate(k) * clock /\ MaxRate(k) * s \in Nat /\ MaxRate(k) * clock \in Nat
      BY <2>2, Numbers, Rated
    <2> QED
      BY <2>1, <2>3, Numbers DEF Allowed
  <1> QED
    BY <1>1, <1>2

-----------------------------------------------------------------------------
-----------------------------------------------------------------------------
\* What denials cost.  As long as pushes have come one after another, the bucket of a
\* key is the ideal one, or the push under admission has taken just its token of it.

Alike(b, d) ==
    /\ b.perMin = d.perMin /\ b.burst = d.burst /\ d.last <= b.last
    /\ Advance(b, b.last) = Advance(d, b.last)
Taken(b, d, t, acts) ==
    /\ b.perMin = d.perMin /\ b.burst = d.burst /\ d.last <= t /\ b.last = t
    /\ b.tokens = Advance(d, t) - Token /\ b.lastEvent = acts

ActsIn(r, k) == IF Holding(r, k) THEN r.held[k].now ELSE r.acts
Exact(k) ==
    bucket[k] # None =>
        /\ Out(k) = {} => Alike(bucket[k], ideal[k])
        /\ \A p \in Out(k) :
               Taken(bucket[k], ideal[k], TimeIn(push[p], k), ActsIn(push[p], k))

\* A push that has read the clock has read it since the last access.
OnTime(r) ==
    r.step # "clock" /\ bucket[KeyIn(r)] # None => bucket[KeyIn(r)].last <= r.now

Alone == \A p, q \in Push : Active(p) /\ Active(q) => p = q
SpendInv ==
    /\ ideal \in [Key -> Bucket \cup {None}]
    /\ \A k \in Key : bucket[k] = None <=> ideal[k] = None
    /\ ~overlapped => /\ Alone
                      /\ \A k \in Key : Exact(k)
                      /\ \A p \in Push : OnTime(push[p])

LEMMA AlikeOnward ==
    ASSUME NEW b \in Bucket, NEW d \in Bucket, Alike(b, d), NEW t \in Nat, b.last <= t
    PROVE  Advance(b, t) = Advance(d, t) /\ d.last <= t
  <1>1. /\ b.last \in Nat /\ d.last \in Nat /\ d.last <= b.last /\ b.burst = d.burst /\ b.perMin = d.perMin
        /\ Advance(b, b.last) = Advance(d, b.last)
    BY DEF Alike, Bucket
  <1>2. Advance(b, t) = IF Token * b.burst <= Advance(b, b.last) + b.perMin * (t - b.last)
                        THEN Token * b.burst ELSE Advance(b, b.last) + b.perMin * (t - b.last)
    BY <1>1, Onward
  <1>3. Advance(d, t) = IF Token * d.burst <= Advance(d, b.last) + d.perMin * (t - b.last)
                        THEN Token * d.burst ELSE Advance(d, b.last) + d.perMin * (t - b.last)
    BY <1>1, Onward
  <1>4. Advance(b, t) = Advance(d, t)
    BY <1>1, <1>2, <1>3, Zenon
  <1> QED
    BY <1>1, <1>4

\* Two buckets that stand alike at their last access are alike.
LEMMA SameIsAlike ==
    ASSUME NEW b \in Bucket, NEW d \in Bucket, b.perMin = d.perMin, b.burst = d.burst,
           b.tokens = d.tokens, b.last = d.last
    PROVE  Alike(b, d)
  <1>1. b.last \in Nat /\ Advance(b, b.last) = Advance(d, b.last)
    BY SameAdvance, OfBucket
  <1> QED
    BY <1>1 DEF Alike

\* Both are brought to the limits of the next push alike.
LEMMA SyncedNone ==
    ASSUME NEW t \in Nat, NEW lim \in Limit, lim.perMin > 0, NEW c, c = Synced(None, t, lim, None)
    PROVE  c \in Bucket /\ c.last = 0 /\ Alike(c, c)
  <1>1. c = NewBucket(lim, t) /\ Burst(lim) \in Nat \ {0} /\ lim.perMin \in Nat \ {0}
    BY BurstOf DEF Synced, Limit
  <1>2. Token * Burst(lim) \in Nat
    BY <1>1, Capacity
  <1>3. c \in Bucket /\ c.last = 0
    BY <1>1, <1>2 DEF NewBucket, Bucket
  <1> QED
    BY <1>3, SameIsAlike

LEMMA SyncedSome ==
    ASSUME NEW b \in Bucket, NEW t \in Nat, NEW lim \in Limit, lim.perMin > 0,
           NEW c, c = Synced(b, t, lim, None)
    PROVE  /\ c \in Bucket /\ c.burst = b.burst
           /\ IF Differs(b, lim, None)
              THEN c.perMin = lim.perMin /\ c.tokens = Advance(b, t) /\ c.last = t
              ELSE c.perMin = b.perMin /\ c.tokens = b.tokens /\ c.last = b.last
  <1> DEFINE x == IF Differs(b, lim, None) THEN SetLimitAt(b, t, lim) ELSE b
  <1>1. c = [x EXCEPT !.seen = t]
    BY NoneIsNoBucket DEF Synced
  <1>2. /\ x \in Bucket /\ x.burst = b.burst
        /\ IF Differs(b, lim, None)
           THEN x.perMin = lim.perMin /\ x.tokens = Advance(b, t) /\ x.last = t
           ELSE x.perMin = b.perMin /\ x.tokens = b.tokens /\ x.last = b.last
    BY SetLimit
  <1> HIDE DEF x
  <1> QED
    BY <1>1, <1>2 DEF Bucket

LEMMA SyncedAlike ==
    ASSUME NEW b \in Bucket, NEW d \in Bucket, Alike(b, d),
           NEW t \in Nat, b.last <= t, NEW lim \in Limit, lim.perMin > 0,
           NEW c, c = Synced(b, t, lim, None), NEW e, e = Synced(d, t, lim, None)
    PROVE  c.last <= t /\ Alike(c, e)
  <1>1. Advance(b, t) = Advance(d, t) /\ b.burst = d.burst /\ b.perMin = d.perMin
    BY AlikeOnward DEF Alike
  <1>2. Differs(b, lim, None) <=> Differs(d, lim, None)
    BY <1>1, NoneIsNoBucket DEF Differs
  <1>3. /\ c \in Bucket /\ c.burst = b.burst
        /\ IF Differs(b, lim, None)
           THEN c.perMin = lim.perMin /\ c.tokens = Advance(b, t) /\ c.last = t
           ELSE c.perMin = b.perMin /\ c.tokens = b.tokens /\ c.last = b.last
    BY SyncedSome
  <1>4. /\ e \in Bucket /\ e.burst = d.burst
        /\ IF Differs(d, lim, None)
           THEN e.perMin = lim.perMin /\ e.tokens = Advance(d, t) /\ e.last = t
           ELSE e.perMin = d.perMin /\ e.tokens = d.tokens /\ e.last = d.last
    BY SyncedSome
  <1>5. CASE Differs(b, lim, None)
    BY <1>1, <1>2, <1>3, <1>4, <1>5, SameIsAlike
  <1>6. CASE ~Differs(b, lim, None)
    <2>1. Advance(c, b.last) = Advance(b, b.last) /\ Advance(e, b.last) = Advance(d, b.last)
      BY <1>2, <1>3, <1>4, <1>6, SameAdvance
    <2> QED
      BY <1>1, <1>2, <1>3, <1>4, <1>6, <2>1 DEF Alike
  <1> QED
    BY <1>5, <1>6

LEMMA SetBurstAlike ==
    ASSUME NEW b \in Bucket, NEW d \in Bucket, Alike(b, d),
           NEW t \in Nat, b.last <= t, NEW lim \in Limit,
           NEW c, c = SetBurstAt(b, t, lim), NEW e, e = SetBurstAt(d, t, lim)
    PROVE  c.last <= t /\ Alike(c, e)
  <1>1. Advance(b, t) = Advance(d, t) /\ b.perMin = d.perMin
    BY AlikeOnward DEF Alike
  <1>2. c \in Bucket /\ c.perMin = b.perMin /\ c.burst = Burst(lim) /\ c.tokens = Advance(b, t) /\ c.last = t
    BY SetBurstTo
  <1>3. e \in Bucket /\ e.perMin = d.perMin /\ e.burst = Burst(lim) /\ e.tokens = Advance(d, t) /\ e.last = t
    BY SetBurstTo
  <1> QED
    BY <1>1, <1>2, <1>3, SameIsAlike

LEMMA ReservedLeaves ==
    ASSUME NEW b \in Bucket, NEW t \in Nat, NEW d, d = ReserveN(b, t)
    PROVE  /\ d.perMin = b.perMin /\ d.burst = b.burst /\ d.last = t
           /\ d.tokens = Advance(b, t) - Token
           /\ d.lastEvent \in Nat /\ d.lastEvent >= t
  <1>1. /\ d.perMin = b.perMin /\ d.burst = b.burst /\ d.last = t
    BY Reserved
  <1>2. d.tokens = Advance(b, t) - Token
    BY Reserved
  <1>3. d.lastEvent \in Nat /\ d.lastEvent >= t
    BY Reserved
  <1> QED
    BY <1>1, <1>2, <1>3

\* A reservation takes one token of the ideal bucket, ...
LEMMA ReservedIsTaken ==
    ASSUME NEW b \in Bucket, NEW d \in Bucket, Alike(b, d), NEW t \in Nat, b.last <= t,
           NEW c, c = ReserveN(b, t)
    PROVE  Taken(c, d, t, c.lastEvent) /\ (c.lastEvent <= t => c.lastEvent = t)
  <1>1. Advance(b, t) = Advance(d, t) /\ d.last <= t /\ b.burst = d.burst /\ b.perMin = d.perMin
    BY AlikeOnward DEF Alike
  <1>2. /\ c.perMin = b.perMin /\ c.burst = b.burst /\ c.last = t /\ c.tokens = Advance(b, t) - Token
        /\ c.lastEvent \in Nat /\ c.lastEvent >= t
    <2>1. b \in Bucket /\ t \in Nat /\ c = ReserveN(b, t)
      OBVIOUS
    <2> QED
      BY <2>1, ReservedLeaves
  <1> QED
    BY <1>1, <1>2 DEF Taken

\* ... which a cancel gives back ...
LEMMA CancelledIsAlike ==
    ASSUME NEW b \in Bucket, NEW d \in Bucket, NEW t \in Nat, NEW acts \in Nat, acts >= t,
           Taken(b, d, t, acts), NEW perMin \in Nat \ {0}, NEW c, c = CancelAt(b, acts, perMin, t)
    PROVE  Alike(c, d) /\ Restored(b, acts, perMin) = Token
  <1>1. /\ b.perMin = d.perMin /\ b.burst = d.burst /\ d.last <= t /\ b.last = t /\ b.lastEvent = acts
        /\ b.tokens = Advance(d, t) - Token
    BY DEF Taken
  <1>2. Restored(b, acts, perMin) = Token /\ Token \in Nat \ {0}
    <2>1. b.lastEvent - acts = 0 /\ perMin * 0 = 0
      BY <1>1, Rated
    <2> QED
      BY <2>1, Bounds DEF Restored
  <1>3. GivenBack(b, c, acts, perMin, t)
    BY <1>2, Cancelled
  <1>4. /\ c.perMin = b.perMin /\ c.burst = b.burst /\ c.last = t
        /\ c.tokens = IF Token * b.burst <= Advance(b, t) + Token
                      THEN Token * b.burst ELSE Advance(b, t) + Token
        /\ Advance(c, t) = c.tokens
    BY <1>2, <1>3 DEF GivenBack
  <1>5. Advance(d, t) \in Int /\ Advance(d, t) <= Token * d.burst /\ Token * d.burst \in Nat
    BY Advanced, OfBucket
  <1>6. Advance(b, t) = Advance(d, t) - Token
    <2>1. Advance(b, b.last) = IF Token * b.burst <= b.tokens THEN Token * b.burst ELSE b.tokens
      BY JustAccessed
    <2>2. Advance(b, t) = IF Token * d.burst <= Advance(d, t) - Token THEN Token * d.burst
                          ELSE Advance(d, t) - Token
      BY <1>1, <2>1, Zenon
    <2> QED
      BY <1>2, <1>5, <2>2
  <1>7. c.tokens = IF Token * d.burst <= Advance(b, t) + Token
                   THEN Token * d.burst ELSE Advance(b, t) + Token
    BY <1>1, <1>4, Zenon
  <1>8. Advance(c, t) = Advance(d, t)
    BY <1>2, <1>4, <1>5, <1>6, <1>7
  <1> QED
    BY <1>1, <1>2, <1>4, <1>8 DEF Alike

\* ... and the admission of its push takes for good.
LEMMA AdmittedIsAlike ==
    ASSUME NEW b \in Bucket, NEW d \in Bucket, NEW t \in Nat, NEW acts, Taken(b, d, t, acts),
           NEW c, c = ReserveN(d, t)
    PROVE  c \in Bucket /\ Alike(b, c)
  <1>1. c \in Bucket /\ c.perMin = d.perMin /\ c.burst = d.burst /\ c.last = t /\ c.tokens = Advance(d, t) - Token
    BY Reserved
  <1> QED
    BY <1>1, SameIsAlike DEF Taken

\* While pushes come one after another, nobody but the one under admission owes a key.
LEMMA NobodyElse ==
    ASSUME GateInv, Alone, NEW p \in Push, Active(p), NEW k \in Key
    PROVE  Out(k) \subseteq {p}
  <1>1. ASSUME NEW q \in Push, Owing(push[q], k) PROVE Active(q)
    <2>1. push[q].stage = "idle" => push[q].step = "clock" /\ DOMAIN push[q].held = {}
      BY OfPush DEF InOrder
    <2> QED
      BY <1>1, <2>1 DEF Active, Owing, Holding
  <1> QED
    BY <1>1 DEF Alone, Out

\* A key that push p leaves alone.
LEMMA StillExact ==
    ASSUME GateInv, NEW p \in Push, NEW r, Moves(p, r), clock' = clock, NEW k \in Key, Keeps(r, p, k),
           r.step = "cancel" => KeyIn(r) # k, bucket'[k] = bucket[k], ideal'[k] = ideal[k], Exact(k)
    PROVE  Exact(k)'
  <1>1. Out(k)' = Out(k)
    BY KeptOut DEF Keeps
  <1>2. push'[p] = r /\ \A q \in Push \ {p} : push'[q] = push[q]
    BY OnlyOne DEF Moves
  <1>3. ASSUME NEW q \in Push, q \in Out(k), bucket[k] # None
        PROVE  Taken(bucket[k], ideal[k], TimeIn(push'[q], k), ActsIn(push'[q], k))
    <2>1. Taken(bucket[k], ideal[k], TimeIn(push[q], k), ActsIn(push[q], k))
      BY <1>3 DEF Exact
    <2>2. CASE q # p
      BY <1>2, <2>1, <2>2
    <2>3. CASE q = p
      <3>1. Owing(r, k) /\ Holding(r, k) /\ Holding(push[p], k) /\ TimeIn(r, k) = TimeIn(push[p], k)
        BY <1>3, <2>3 DEF Out, Keeps, Owing, Using
      <3>2. ActsIn(r, k) = ActsIn(push[p], k)
        BY <3>1 DEF ActsIn, TimeIn
      <3> QED
        BY <1>2, <2>1, <2>3, <3>1, <3>2
    <2> QED
      BY <2>2, <2>3
  <1>4. \A q \in Out(k) : q \in Push
    BY DEF Out
  <1> QED
    BY <1>1, <1>3, <1>4 DEF Exact

\* A key that push p has left with no push that owes it, or with p alone.
LEMMA LeftAlike ==
    ASSUME NEW k \in Key, NEW p \in Push, Out(k)' \subseteq {p}, ~Owing(push'[p], k),
           Alike(bucket'[k], ideal'[k])
    PROVE  Exact(k)'
  <1>1. Out(k)' = {}
    BY DEF Out
  <1> QED
    BY <1>1 DEF Exact

LEMMA LeftTaken ==
    ASSUME NEW k \in Key, NEW p \in Push, Out(k)' \subseteq {p}, Owing(push'[p], k),
           Taken(bucket'[k], ideal'[k], TimeIn(push'[p], k), ActsIn(push'[p], k))
    PROVE  Exact(k)'
  <1>1. Out(k)' = {p}
    BY DEF Out
  <1> QED
    BY <1>1 DEF Exact

\* What there is to show for a step of a push under admission.
LEMMA SpendStep ==
    ASSUME GateInv, SpendInv, NEW p \in Push, Active(p), NEW r, Moves(p, r),
           UNCHANGED <<clock, overlapped>>,
           ideal' \in [Key -> Bucket \cup {None}],
           \A k \in Key : bucket'[k] = None <=> ideal'[k] = None,
           ~overlapped =>
               /\ \A k \in Key : Exact(k)'
               /\ r.step # "clock" /\ bucket'[KeyIn(r)] # None => bucket'[KeyIn(r)].last <= r.now
    PROVE  SpendInv'
  <1>1. push'[p] = r /\ \A q \in Push \ {p} : push'[q] = push[q]
    BY OnlyOne DEF Moves
  <1>2. ASSUME ~overlapped PROVE Alone' /\ \A q \in Push : OnTime(push[q])'
    <2>1. Alone
      BY <1>2 DEF SpendInv
    <2>2. \A q \in Push : Active(q)' => q = p
      BY <1>1, <2>1 DEF Alone, Active
    <2>3. ASSUME NEW q \in Push, q # p PROVE OnTime(push[q])'
      <3>1. push[q].stage = "idle" /\ push'[q] = push[q]
        BY <1>1, <2>1, <2>3 DEF Alone, Active
      <3>2. push[q].step = "clock"
        BY <3>1, OfPush DEF InOrder
      <3> QED
        BY <3>1, <3>2 DEF OnTime
    <2>4. OnTime(push[p])'
      BY <1>1, <1>2 DEF OnTime
    <2> QED
      BY <2>2, <2>3, <2>4 DEF Alone
  <1> QED
    BY <1>2 DEF SpendInv

\* A step of a push under admission that leaves every bucket alone.
LEMMA NoBucketSpend ==
    ASSUME GateInv, SpendInv, NEW p \in Push, Active(p), NEW r, Moves(p, r), \A k \in Key : Keeps(r, p, k),
           r.step = "clock" \/ (r.step = "bucket" /\ r.now = clock), r.step # "clock" => KeyIn(r) \in Key,
           UNCHANGED <<clock, overlapped, bucket, ideal>>
    PROVE  SpendInv'
  <1>1. r.step # "cancel"
    OBVIOUS
  <1>2. ASSUME NEW k \in Key, ~overlapped PROVE Exact(k)'
    BY <1>1, <1>2, StillExact DEF SpendInv
  <1>3. \A k \in Key : bucket[k] # None => bucket[k].last <= clock
    BY DEF GateInv, BucketsFit, Fits
  <1> QED
    BY <1>2, <1>3, SpendStep DEF SpendInv

LEMMA AdmitSpend ==
    ASSUME GateInv, SpendInv, NEW p \in Push, NEW i \in Instance, Admit(p, i) PROVE SpendInv'
  <1>1. /\ overlapped' = (overlapped \/ \E o \in Push : Active(o))
        /\ UNCHANGED <<clock, bucket, ideal>>
    BY DEF Admit
  <1>2. PICK r \in PushRec : Moves(p, r) /\ r.step = "clock" /\ \A k \in Key : Keeps(r, p, k)
    BY AdmitMoves
  <1>3. push'[p] = r /\ \A q \in Push \ {p} : push'[q] = push[q]
    BY <1>1, <1>2, OnlyOne DEF Moves
  <1>4. ASSUME ~overlapped' PROVE Alone' /\ (\A k \in Key : Exact(k)') /\ \A q \in Push : OnTime(push[q])'
    <2>1. ~overlapped /\ \A q \in Push : ~Active(q)
      BY <1>1, <1>4
    <2>2. Alone'
      BY <1>3, <2>1 DEF Alone, Active
    <2>3. ASSUME NEW k \in Key PROVE Exact(k)'
      BY <1>1, <1>2, <2>1, StillExact DEF SpendInv
    <2>4. ASSUME NEW q \in Push PROVE OnTime(push[q])'
      <3>1. push[q].step = "clock"
        BY <2>1, OfPush DEF Active, InOrder
      <3> QED
        BY <1>2, <1>3, <3>1 DEF OnTime
    <2> QED
      BY <2>2, <2>3, <2>4
  <1> QED
    BY <1>1, <1>4 DEF SpendInv

\* A step that brings a bucket and its ideal one to other limits.
LEMMA ResyncSpend ==
    ASSUME GateInv, SpendInv, NEW p \in Push, Active(p), NEW k \in Key, NEW r, Moves(p, r),
           r.step \in {"burst", "reserve"}, KeyIn(r) = k, \A j \in Key \ {k} : Keeps(r, p, j), ~Owing(r, k),
           NEW c \in Bucket, bucket' = [bucket EXCEPT ![k] = c],
           NEW e \in Bucket, ideal' = [ideal EXCEPT ![k] = e], UNCHANGED <<clock, overlapped>>,
           ~overlapped => Alike(c, e) /\ c.last <= r.now
    PROVE  SpendInv'
  <1>1. /\ ideal \in [Key -> Bucket \cup {None}] /\ bucket \in [Key -> Bucket \cup {None}]
        /\ \A j \in Key : bucket[j] = None <=> ideal[j] = None
    BY DEF SpendInv, GateInv, BucketsFit
  <1>2. /\ bucket'[k] = c /\ ideal'[k] = e
        /\ \A j \in Key \ {k} : bucket'[j] = bucket[j] /\ ideal'[j] = ideal[j]
    BY <1>1
  <1>3. ideal' \in [Key -> Bucket \cup {None}]
    BY <1>1
  <1>4. \A j \in Key : bucket'[j] = None <=> ideal'[j] = None
    BY <1>1, <1>2, NoneIsNoBucket
  <1>5. push'[p] = r
    BY OnlyOne DEF Moves
  <1>6. ASSUME ~overlapped, NEW j \in Key PROVE Exact(j)'
    <2>1. CASE j = k
      <3>1. Out(k) \subseteq {p}
        BY <1>6, NobodyElse DEF SpendInv
      <3>2. Out(k)' = Out(k) \ {p}
        BY OutMoves
      <3>3. Out(k)' \subseteq {p}
        BY <3>1, <3>2
      <3> QED
        BY <1>2, <1>5, <1>6, <2>1, <3>3, LeftAlike
    <2>2. CASE j # k
      <3>1. Keeps(r, p, j) /\ r.step # "cancel" /\ bucket'[j] = bucket[j] /\ ideal'[j] = ideal[j]
        BY <1>2, <2>2
      <3> QED
        BY <1>6, <3>1, StillExact DEF SpendInv
    <2> QED
      BY <2>1, <2>2
  <1>7. ~overlapped /\ r.step # "clock" /\ bucket'[KeyIn(r)] # None => bucket'[KeyIn(r)].last <= r.now
    BY <1>2
  <1> QED
    BY <1>3, <1>4, <1>6, <1>7, SpendStep

\* What the push under admission finds, at time t.
LEMMA FindsAlike ==
    ASSUME GateInv, SpendInv, ~overlapped, NEW p \in Push, Active(p), NEW k \in Key, KeyIn(push[p]) = k,
           push[p].step # "clock", ~Owing(push[p], k), bucket[k] # None
    PROVE  Alike(bucket[k], ideal[k]) /\ bucket[k].last <= push[p].now
  <1>1. Exact(k) /\ OnTime(push[p]) /\ Out(k) \subseteq {p}
    BY NobodyElse DEF SpendInv
  <1>2. Out(k) = {}
    BY <1>1 DEF Out
  <1> QED
    BY <1>1, <1>2 DEF Exact, OnTime

LEMMA BucketAtSpend ==
    ASSUME GateInv, SpendInv, NEW p \in Push, BucketAt(p), NEW k, k = KeyOf(p) PROVE SpendInv'
  <1> DEFINE t == push[p].now
             lim == push[p].lim[k]
             b == bucket[k]
             d == ideal[k]
             c == Synced(b, t, lim, None)
             e == Synced(d, t, lim, None)
  <1>1. /\ k \in Key /\ Recent(t, clock) /\ lim \in Limits[k] /\ lim.perMin > 0
        /\ ideal' = [ideal EXCEPT ![k] = e] /\ UNCHANGED <<clock, overlapped>>
        /\ c \in Bucket /\ bucket' = [bucket EXCEPT ![k] = c]
    BY BucketAtFinds
  <1>2. PICK r \in PushRec : /\ Moves(p, r) /\ r.step \in {"burst", "reserve"} /\ r.now = t /\ KeyIn(r) = k
                             /\ \A j \in Key \ {k} : Keeps(r, p, j)
                             /\ ~Owing(r, k) /\ ~Owing(push[p], k)
    BY BucketAtMoves
  <1>3. Active(p) /\ push[p].step = "bucket" /\ KeyIn(push[p]) = k
    BY OfPush DEF BucketAt, At, Active
  <1>4. t \in Nat /\ lim \in Limit
    BY <1>1, Oldest, MostOf
  <1>5. d \in Bucket \cup {None} /\ b \in Bucket \cup {None} /\ (b = None <=> d = None)
    BY <1>1 DEF SpendInv, GateInv, BucketsFit
  <1>6. ASSUME ~overlapped, b # None PROVE Alike(b, d) /\ b.last <= t
    BY <1>1, <1>2, <1>3, <1>6, FindsAlike
  <1> HIDE DEF t, lim, b, d
  <1>7. e \in Bucket
    BY <1>1, <1>4, <1>5, SyncedNone, SyncedSome
  <1>8. ~overlapped => Alike(c, e) /\ c.last <= t
    <2>1. CASE b = None
      BY <1>1, <1>4, <1>5, <2>1, SyncedNone
    <2>2. CASE b # None
      BY <1>1, <1>4, <1>5, <1>6, <2>2, SyncedAlike
    <2> QED
      BY <2>1, <2>2
  <1> HIDE DEF c, e
  <1> QED
    BY <1>1, <1>2, <1>3, <1>7, <1>8, ResyncSpend

LEMMA SetBurstSpend ==
    ASSUME GateInv, SpendInv, NEW p \in Push, SetBurst(p), NEW k, k = KeyOf(p) PROVE SpendInv'
  <1> DEFINE t == push[p].now
             lim == push[p].lim[k]
             b == bucket[k]
             d == ideal[k]
             c == SetBurstAt(b, t, lim)
             e == SetBurstAt(d, t, lim)
  <1>1. /\ k \in Key /\ Recent(t, clock) /\ lim \in Limits[k] /\ b # None
        /\ ideal' = [ideal EXCEPT ![k] = e] /\ UNCHANGED <<clock, overlapped>>
        /\ c \in Bucket /\ bucket' = [bucket EXCEPT ![k] = c]
    BY SetBurstFinds
  <1>2. PICK r \in PushRec : /\ Moves(p, r) /\ r.step = "reserve" /\ r.now = t /\ KeyIn(r) = k
                             /\ \A j \in Key \ {k} : Keeps(r, p, j)
                             /\ ~Owing(r, k) /\ ~Owing(push[p], k)
    BY SetBurstMoves
  <1>3. Active(p) /\ push[p].step = "burst" /\ KeyIn(push[p]) = k
    BY OfPush DEF SetBurst, At, Active
  <1>4. t \in Nat /\ lim \in Limit
    BY <1>1, Oldest, MostOf
  <1>5. d \in Bucket /\ b \in Bucket
    BY <1>1 DEF SpendInv, GateInv, BucketsFit
  <1>6. ASSUME ~overlapped PROVE Alike(b, d) /\ b.last <= t
    BY <1>1, <1>2, <1>3, <1>6, FindsAlike
  <1> HIDE DEF t, lim, b, d
  <1>7. e \in Bucket
    BY <1>4, <1>5, SetBurstTo
  <1>8. ~overlapped => Alike(c, e) /\ c.last <= t
    BY <1>4, <1>5, <1>6, SetBurstAlike
  <1> HIDE DEF c, e
  <1> QED
    BY <1>1, <1>2, <1>3, <1>7, <1>8, ResyncSpend

\* A step at the bucket of one key that leaves the ideal ones alone.
LEMMA OneBucketSpend ==
    ASSUME GateInv, SpendInv, NEW p \in Push, Active(p), NEW r, Moves(p, r), NEW k \in Key,
           \A j \in Key \ {k} : Keeps(r, p, j), r.step = "cancel" => KeyIn(r) = k,
           bucket[k] # None, NEW d \in Bucket, bucket' = [bucket EXCEPT ![k] = d],
           UNCHANGED <<clock, overlapped, ideal>>, ~overlapped => Exact(k)',
           r.step # "clock" => KeyIn(r) = k /\ d.last <= r.now
    PROVE  SpendInv'
  <1>1. /\ ideal \in [Key -> Bucket \cup {None}] /\ bucket \in [Key -> Bucket \cup {None}]
        /\ \A j \in Key : bucket[j] = None <=> ideal[j] = None
    BY DEF SpendInv, GateInv, BucketsFit
  <1>2. bucket'[k] = d /\ \A j \in Key \ {k} : bucket'[j] = bucket[j]
    BY <1>1
  <1>3. \A j \in Key : bucket'[j] = None <=> ideal'[j] = None
    BY <1>1, <1>2, NoneIsNoBucket
  <1>4. ASSUME ~overlapped, NEW j \in Key \ {k} PROVE Exact(j)'
    BY <1>2, <1>4, StillExact DEF SpendInv
  <1> QED
    BY <1>1, <1>2, <1>3, <1>4, SpendStep

LEMMA ReserveSpend ==
    ASSUME GateInv, SpendInv, NEW p \in Push, Reserve(p), NEW k, k = KeyOf(p) PROVE SpendInv'
  <1> DEFINE t == push[p].now
             b == bucket[k]
             c == bucket'[k]
  <1>1. /\ k \in Key /\ Recent(t, clock) /\ b # None /\ c = ReserveN(b, t) /\ c \in Bucket
        /\ UNCHANGED <<clock, overlapped, ideal>> /\ bucket' = [bucket EXCEPT ![k] = c]
        /\ c.lastEvent \in Nat /\ ~Owing(push[p], k)
        /\ c.perMin \in Nat \ {0} /\ b.perMin \in Nat \ {0}
    BY ReserveFinds
  <1>2. Active(p) /\ push[p].step = "reserve" /\ KeyIn(push[p]) = k /\ t \in Nat
    BY OfPush DEF Reserve, At, Active
  <1>3. PICK r \in PushRec :
           /\ Moves(p, r) /\ TimeIn(r, k) = t /\ \A j \in Key \ {k} : Keeps(r, p, j)
           /\ Owing(r, k)
           /\ IF c.lastEvent <= t THEN Holding(r, k) /\ r.step = "clock"
              ELSE /\ ~Holding(r, k) /\ r.acts = c.lastEvent /\ r.now = t
                   /\ r.step = "cancel" /\ KeyIn(r) = k
    BY <1>1, ReserveMoves
  <1>4. bucket \in [Key -> Bucket \cup {None}] /\ ideal \in [Key -> Bucket \cup {None}]
        /\ (bucket[k] = None <=> ideal[k] = None)
    BY <1>1 DEF SpendInv, GateInv, BucketsFit
  <1>5. b \in Bucket /\ ideal[k] \in Bucket
    BY <1>1, <1>4
  <1>6. c.last = t
    <2> HIDE DEF t, b, c
    <2>1. b \in Bucket /\ t \in Nat /\ c = ReserveN(b, t)
      BY <1>1, <1>2, <1>5
    <2> QED
      BY <2>1, ReservedLeaves
  <1>7. push'[p] = r
    BY <1>1, <1>3, OnlyOne DEF Moves
  <1>8. ASSUME ~overlapped PROVE Exact(k)'
    <2>1. Out(k) \subseteq {p}
      BY <1>1, <1>2, <1>8, NobodyElse DEF SpendInv
    <2>2. Out(k) = {}
      BY <1>1, <2>1 DEF Out
    <2>3. Alike(b, ideal[k]) /\ b.last <= t
      BY <1>1, <1>2, <1>8, FindsAlike
    <2>4. Taken(c, ideal[k], t, c.lastEvent) /\ (c.lastEvent <= t => c.lastEvent = t)
      BY <1>1, <1>2, <1>5, <2>3, ReservedIsTaken
    <2>5. Out(k)' = Out(k) \cup {p}
      BY <1>1, <1>3, OutMoves
    <2> HIDE DEF t, b, c
    <2>6. ActsIn(r, k) = c.lastEvent
      BY <1>3, <2>4 DEF ActsIn, TimeIn
    <2>7. Taken(c, ideal'[k], TimeIn(push'[p], k), ActsIn(push'[p], k))
      BY <1>1, <1>3, <1>7, <2>4, <2>6
    <2>8. Taken(bucket'[k], ideal'[k], TimeIn(push'[p], k), ActsIn(push'[p], k))
      BY <2>7 DEF c
    <2>9. Out(k)' \subseteq {p} /\ Owing(push'[p], k)
      BY <1>3, <1>7, <2>2, <2>5
    <2> QED
      BY <1>1, <2>8, <2>9, LeftTaken
  <1>9. r.step # "clock" => KeyIn(r) = k /\ c.last <= r.now
    BY <1>2, <1>3, <1>6
  <1> HIDE DEF t, c
  <1> QED
    BY <1>1, <1>2, <1>3, <1>8, <1>9, OneBucketSpend

\* A cancel leaves the ideal bucket.
LEMMA ReturnsSpend ==
    ASSUME GateInv, SpendInv, NEW p \in Push, Active(p), NEW k, NEW acts, NEW perMin, NEW t,
           Returns(k, acts, perMin, t),
           Owing(push[p], k), TimeIn(push[p], k) = t, ActsIn(push[p], k) = acts,
           NEW r, Moves(p, r), r.step = "clock", ~Using(r, k), \A j \in Key \ {k} : Keeps(r, p, j)
    PROVE  SpendInv'
  <1> DEFINE b == bucket[k]
             c == bucket'[k]
  <1>1. /\ k \in Key /\ Recent(t, clock) /\ b # None /\ c = CancelAt(b, acts, perMin, t) /\ c \in Bucket
        /\ UNCHANGED <<clock, overlapped, ideal>> /\ bucket' = [bucket EXCEPT ![k] = c]
        /\ acts \in Nat /\ acts >= t /\ perMin \in Nat \ {0}
    BY DEF Returns
  <1>2. t \in Nat /\ ~Owing(r, k)
    BY <1>1 DEF Recent, Using
  <1>3. bucket \in [Key -> Bucket \cup {None}] /\ ideal \in [Key -> Bucket \cup {None}]
        /\ (bucket[k] = None <=> ideal[k] = None)
    BY <1>1 DEF SpendInv, GateInv, BucketsFit
  <1>4. b \in Bucket /\ ideal[k] \in Bucket
    BY <1>1, <1>3
  <1>5. push'[p] = r
    BY <1>1, OnlyOne DEF Moves
  <1>6. ASSUME ~overlapped PROVE Exact(k)'
    <2>1. Exact(k) /\ Out(k) \subseteq {p}
      BY <1>1, <1>6, NobodyElse DEF SpendInv
    <2>2. p \in Out(k)
      BY DEF Out
    <2>3. Taken(b, ideal[k], t, acts)
      BY <1>1, <2>1, <2>2 DEF Exact
    <2>4. Alike(c, ideal[k])
      BY <1>1, <1>2, <1>4, <2>3, CancelledIsAlike
    <2>5. Out(k)' = Out(k) \ {p}
      BY <1>1, <1>2, OutMoves
    <2>6. Out(k)' \subseteq {p} /\ ~Owing(push'[p], k) /\ Alike(bucket'[k], ideal'[k])
      BY <1>1, <1>2, <1>5, <2>1, <2>4, <2>5
    <2> QED
      BY <1>1, <2>6, LeftAlike
  <1> HIDE DEF c
  <1> QED
    BY <1>1, <1>6, OneBucketSpend

LEMMA CancelDeniedSpend ==
    ASSUME GateInv, SpendInv, NEW p \in Push, CancelDenied(p) PROVE SpendInv'
  <1>1. /\ Returns(KeyOf(p), push[p].acts, push[p].perMin, push[p].now) /\ TimeIn(push[p], KeyOf(p)) = push[p].now
    BY CancelDeniedReturns
  <1>2. /\ push[p].stage \in {"instance", "app"} /\ push[p].step = "cancel" /\ Active(p)
        /\ KeyIn(push[p]) = KeyOf(p) /\ ~Holding(push[p], KeyOf(p))
    BY OfPush, AtKey DEF CancelDenied, At, Active
  <1>3. Owing(push[p], KeyOf(p)) /\ ActsIn(push[p], KeyOf(p)) = push[p].acts
    BY <1>2 DEF Owing, ActsIn
  <1> QED
    BY <1>1, <1>2, <1>3, CancelDeniedMoves, ReturnsSpend

LEMMA RefundSpend ==
    ASSUME GateInv, SpendInv, NEW p \in Push, NEW k \in Key, Refund(p, k) PROVE SpendInv'
  <1>1. Returns(k, push[p].held[k].now, push[p].held[k].perMin, push[p].held[k].now) /\ Active(p)
    BY RefundReturns DEF Refund, Active
  <1>2. PICK r \in PushRec : /\ Moves(p, r) /\ r.step = "clock" /\ \A j \in Key \ {k} : Keeps(r, p, j)
                             /\ Holding(push[p], k) /\ ~Using(r, k)
    BY RefundMoves
  <1>3. /\ Owing(push[p], k) /\ ActsIn(push[p], k) = push[p].held[k].now
        /\ TimeIn(push[p], k) = push[p].held[k].now
    BY <1>2 DEF Owing, ActsIn, TimeIn
  <1> QED
    BY <1>1, <1>2, <1>3, ReturnsSpend

\* The ideal bucket gives a push its token when it is admitted.
LEMMA QuotaAdmitsSpend == ASSUME GateInv, SpendInv, NEW p \in Push, QuotaAdmits(p) PROVE SpendInv'
  <1>1. /\ Moves(p, NoPush) /\ \A k \in Key : ~Using(NoPush, k)
        /\ \A k \in Key : Owing(push[p], k) <=> Holding(push[p], k)
    BY QuotaAdmitsMoves
  <1>2. /\ UNCHANGED <<clock, bucket, overlapped>> /\ Active(p) /\ Holds(p) = DOMAIN push[p].held
        /\ ideal' = [k \in Key |-> IF k \in Holds(p) THEN ReserveN(ideal[k], push[p].held[k].now)
                                   ELSE ideal[k]]
    BY OfPush DEF QuotaAdmits, Active
  <1>3. push'[p] = NoPush /\ NoPush.step = "clock"
    BY <1>1, <1>2, OnlyOne DEF Moves, NoPush
  <1>4. ASSUME NEW k \in Key, ~Holding(push[p], k)
        PROVE  ideal'[k] = ideal[k] /\ (~overlapped => Exact(k)')
    <2>1. ideal'[k] = ideal[k]
      BY <1>2, <1>4 DEF Holding
    <2>2. Keeps(NoPush, p, k)
      BY <1>1, <1>4 DEF Keeps, Using, Owing
    <2> QED
      BY <1>1, <1>2, <1>3, <2>1, <2>2, StillExact DEF SpendInv
  <1>5. ASSUME NEW k \in Key, Holding(push[p], k)
        PROVE  bucket[k] # None /\ ideal'[k] \in Bucket /\ (~overlapped => Exact(k)')
    <2> DEFINE t == push[p].held[k].now
    <2>1. Owing(push[p], k) /\ Using(push[p], k) /\ TimeIn(push[p], k) = t /\ ActsIn(push[p], k) = t
      BY <1>5 DEF Owing, Using, TimeIn, ActsIn
    <2>2. bucket[k] # None
      BY <2>1 DEF GateInv, UsedBucketsStay, Stays
    <2>3. bucket[k] \in Bucket /\ ideal[k] \in Bucket
      BY <2>2 DEF SpendInv, GateInv, BucketsFit
    <2>4. t \in Nat
      BY <1>5, OfPush DEF Holding, Grant
    <2>5. ideal'[k] = ReserveN(ideal[k], t)
      BY <1>2, <1>5 DEF Holding
    <2> HIDE DEF t
    <2>6. ideal'[k] \in Bucket
      BY <2>3, <2>4, <2>5, Reserved
    <2>7. ASSUME ~overlapped PROVE Exact(k)'
      <3>1. Exact(k) /\ Out(k) \subseteq {p} /\ p \in Out(k)
        BY <1>2, <2>1, <2>7, NobodyElse DEF SpendInv, Out
      <3>2. Taken(bucket[k], ideal[k], t, t)
        BY <2>1, <2>2, <3>1 DEF Exact
      <3>3. Alike(bucket[k], ideal'[k])
        BY <2>3, <2>4, <2>5, <3>2, AdmittedIsAlike
      <3>4. ~Owing(NoPush, k)
        BY <1>1 DEF Using
      <3>5. Out(k)' = Out(k) \ {p}
        BY <1>1, <1>2, <3>4, OutMoves
      <3>6. Out(k)' \subseteq {p} /\ ~Owing(push'[p], k) /\ Alike(bucket'[k], ideal'[k])
        BY <1>2, <1>3, <3>1, <3>3, <3>4, <3>5
      <3> QED
        BY <3>6, LeftAlike
    <2> QED
      BY <2>2, <2>6, <2>7
  <1>6. \A k \in Key : ideal'[k] \in Bucket \cup {None} /\ (bucket[k] = None <=> ideal'[k] = None)
    BY <1>4, <1>5, NoneIsNoBucket DEF SpendInv
  <1>7. ideal' \in [Key -> Bucket \cup {None}]
    BY <1>2, <1>6
  <1> QED
    BY <1>1, <1>2, <1>3, <1>4, <1>5, <1>6, <1>7, SpendStep

\* An eviction takes a bucket and its ideal one.
LEMMA CleanupSpend ==
    ASSUME GateInv, SpendInv, NEW keys \in {Instance, App}, NEW stage, Cleanup(keys, stage)
    PROVE  SpendInv'
  <1>1. /\ UNCHANGED <<clock, push, overlapped>>
        /\ ideal' = [k \in Key |-> IF k \in {j \in keys : bucket[j] # None /\ Idle(j)}
                                   THEN None ELSE ideal[k]]
    BY DEF Cleanup
  <1>2. \A k \in Key : \/ bucket'[k] = bucket[k] /\ ideal'[k] = ideal[k]
                       \/ bucket'[k] = None /\ ideal'[k] = None
    BY CleanupInv
  <1>3. ideal' \in [Key -> Bucket \cup {None}] /\ \A k \in Key : bucket'[k] = None <=> ideal'[k] = None
    BY <1>1, <1>2 DEF SpendInv
  <1>4. ASSUME NEW k \in Key, Exact(k) PROVE Exact(k)'
    <2>1. Out(k)' = Out(k)
      BY <1>1 DEF Out
    <2> QED
      BY <1>1, <1>2, <1>4, <2>1 DEF Exact
  <1>5. ASSUME NEW p \in Push, OnTime(push[p]) PROVE OnTime(push[p])'
    <2>1. push[p].step # "clock" => KeyIn(push[p]) \in Key
      <3>1. push[p].step # "clock" => push[p].stage \in {"instance", "app"}
        BY OfPush DEF InOrder
      <3> QED
        BY <3>1, AtKey, OfPush
    <2> QED
      BY <1>1, <1>2, <1>5, <2>1 DEF OnTime
  <1>6. Alone' <=> Alone
    BY <1>1 DEF Alone, Active
  <1> QED
    BY <1>1, <1>3, <1>4, <1>5, <1>6 DEF SpendInv

LEMMA InitSpend == Init => SpendInv
  <1> SUFFICES ASSUME Init PROVE SpendInv
    OBVIOUS
  <1>1. /\ bucket = [k \in Key |-> None] /\ ideal = [k \in Key |-> None]
        /\ push = [p \in Push |-> NoPush] /\ overlapped = FALSE
    BY DEF Init
  <1>2. \A p \in Push : push[p].step = "clock" /\ ~Active(p)
    BY <1>1 DEF NoPush, Active
  <1> QED
    BY <1>1, <1>2 DEF SpendInv, Alone, Exact, OnTime

LEMMA NextSpend == GateInv /\ SpendInv /\ [Next]_vars => SpendInv'
  <1> SUFFICES ASSUME GateInv, SpendInv, [Next]_vars PROVE SpendInv'
    OBVIOUS
  <1>1. ASSUME NEW p \in Push, Unlimited(p) PROVE SpendInv'
    BY <1>1, UnlimitedMoves, NoBucketSpend DEF Unlimited, At, Active, ghosts
  <1>2. ASSUME NEW p \in Push, ReadClock(p) PROVE SpendInv'
    <2>1. Active(p) /\ UNCHANGED <<clock, overlapped, bucket, ideal>> /\ KeyOf(p) \in Key
      BY <1>2, AtKey DEF ReadClock, At, Active, ghosts
    <2> QED
      BY <1>2, <2>1, ReadClockMoves, NoBucketSpend
  <1>3. ASSUME NEW p \in Push, QuotaDenies(p) PROVE SpendInv'
    BY <1>3, QuotaDeniesMoves, NoBucketSpend DEF QuotaDenies, Active, ghosts
  <1>4. ASSUME NEW p \in Push, PushStep(p) PROVE SpendInv'
    BY <1>1, <1>2, <1>3, <1>4, AdmitSpend, BucketAtSpend, SetBurstSpend, ReserveSpend, CancelDeniedSpend,
       QuotaAdmitsSpend, RefundSpend DEF PushStep
  <1>5. CASE Cleanup(Instance, "instance") \/ Cleanup(App, "app")
    BY <1>5, CleanupSpend
  <1>6. ASSUME UNCHANGED <<bucket, push, overlapped, ideal>> PROVE SpendInv'
    BY <1>6 DEF SpendInv, Alone, Active, Exact, Out, OnTime
  <1>8. CASE Tick
    BY <1>6, <1>8 DEF Tick, ghosts
  <1>9. CASE UNCHANGED vars
    BY <1>6, <1>9 DEF vars, ghosts
  <1> QED
    BY <1>4, <1>5, <1>8, <1>9 DEF Next

\* As long as pushes have come one after another, every bucket stands between them
\* where the admitted ones alone have left it: a denial at any of the four checks
\* costs neither key a token, and no eviction and no change of a limit gives one
\* (limiter.go:78-96, gate.go:36-57).
THEOREM DenialsFree == GateSpec => []OnlyAdmittedSpend
  <1>1. Init => GateInv /\ SpendInv
    BY InitInv, InitSpend
  <1>2. GateInv /\ SpendInv /\ [Next]_vars => GateInv' /\ SpendInv'
    BY NextInv, NextSpend
  <1>3. GateInv /\ SpendInv => OnlyAdmittedSpend
    <2> SUFFICES ASSUME GateInv, SpendInv, AtRest, ~overlapped, NEW k \in Key, bucket[k] # None
                 PROVE  Level(bucket[k]) = Level(ideal[k])
      BY DEF OnlyAdmittedSpend
    <2>1. Out(k) = {}
      <3>1. ASSUME NEW p \in Push PROVE ~Owing(push[p], k)
        BY OfPush DEF AtRest, Active, InOrder, Owing, Holding
      <3> QED
        BY <3>1 DEF Out
    <2>2. Alike(bucket[k], ideal[k])
      BY <2>1 DEF SpendInv, Exact
    <2>3. bucket[k] \in Bucket /\ ideal[k] \in Bucket /\ clock \in Nat /\ bucket[k].last <= clock
      BY Oldest DEF SpendInv, GateInv, BucketsFit, Fits
    <2> QED
      BY <2>2, <2>3, AlikeOnward DEF Level
  <1> QED
    BY <1>1, <1>2, <1>3, PTL DEF GateSpec

-----------------------------------------------------------------------------
\* What a key gains, it gains from pushes that overlap.

Ungained == ~overlapped => \A k \in Key : gained[k] = 0

\* A bucket that is not put back, whose event is the one to be cancelled, gives nothing.
LEMMA GainsNothing ==
    ASSUME GateInv, Ungained, NEW k \in Key, NEW d \in Bucket, bucket' = [bucket EXCEPT ![k] = d],
           NEW n \in Nat, Gains(k, n), overlapped' = overlapped,
           ~overlapped => n = 0 /\ (bucket[k] # None => bucket[k].last <= d.last)
    PROVE  Ungained'
  <1> SUFFICES ASSUME ~overlapped PROVE \A j \in Key : gained'[j] = 0
    BY DEF Ungained
  <1>1. gained'[k] = gained[k] + PutBack(k) + n /\ \A j \in Key \ {k} : gained'[j] = gained[j]
    BY GainsMore
  <1>2. \A j \in Key : gained[j] = 0
    BY DEF Ungained
  <1>3. PutBack(k) = 0
    BY GainsMore DEF PutBack
  <1> QED
    BY <1>1, <1>2, <1>3

LEMMA BucketAtUngained ==
    ASSUME GateInv, SpendInv, Ungained, NEW p \in Push, BucketAt(p), NEW k, k = KeyOf(p)
    PROVE  Ungained'
  <1> DEFINE t == push[p].now
             lim == push[p].lim[k]
  <1>1. /\ k \in Key /\ Recent(t, clock) /\ overlapped' = overlapped /\ lim \in Limits[k] /\ lim.perMin > 0
        /\ bucket'[k] = Synced(bucket[k], t, lim, None) /\ bucket'[k] \in Bucket
        /\ bucket' = [bucket EXCEPT ![k] = bucket'[k]] /\ Gains(k, 0)
    BY BucketAtFinds
  <1>2. KeyIn(push[p]) = k /\ push[p].step = "bucket"
    BY OfPush DEF BucketAt, At
  <1>3. ASSUME ~overlapped, bucket[k] # None PROVE bucket[k].last <= bucket'[k].last
    <2>1. bucket[k].last <= t
      BY <1>2, <1>3 DEF SpendInv, OnTime
    <2>2. bucket[k] \in Bucket /\ bucket[k].last \in Nat /\ t \in Nat /\ lim \in Limit
      BY <1>1, <1>3, Oldest, MostOf, OfBucket DEF GateInv, BucketsFit
    <2> HIDE DEF t, lim
    <2>3. bucket'[k].last \in {bucket[k].last, t}
      BY <1>1, <2>2, SyncedSome
    <2> QED
      BY <2>1, <2>2, <2>3
  <1> QED
    BY <1>1, <1>3, GainsNothing

LEMMA SetBurstUngained ==
    ASSUME GateInv, SpendInv, Ungained, NEW p \in Push, SetBurst(p), NEW k, k = KeyOf(p)
    PROVE  Ungained'
  <1> DEFINE t == push[p].now
             lim == push[p].lim[k]
  <1>1. /\ k \in Key /\ Recent(t, clock) /\ overlapped' = overlapped /\ lim \in Limits[k]
        /\ bucket[k] # None /\ bucket'[k] = SetBurstAt(bucket[k], t, lim) /\ bucket'[k] \in Bucket
        /\ bucket' = [bucket EXCEPT ![k] = bucket'[k]] /\ Gains(k, 0)
    BY SetBurstFinds
  <1>2. KeyIn(push[p]) = k /\ push[p].step = "burst"
    BY OfPush DEF SetBurst, At
  <1>3. bucket'[k].last = t
    <2>1. bucket[k] \in Bucket /\ t \in Nat /\ lim \in Limit
      BY <1>1, Oldest, MostOf DEF GateInv, BucketsFit
    <2> HIDE DEF t, lim
    <2> QED
      BY <1>1, <2>1, SetBurstTo
  <1>4. ~overlapped => bucket[k].last <= bucket'[k].last
    BY <1>1, <1>2, <1>3 DEF SpendInv, OnTime
  <1> QED
    BY <1>1, <1>4, GainsNothing

LEMMA ReserveUngained ==
    ASSUME GateInv, SpendInv, Ungained, NEW p \in Push, Reserve(p), NEW k, k = KeyOf(p)
    PROVE  Ungained'
  <1> DEFINE t == push[p].now
  <1>1. /\ k \in Key /\ Recent(t, clock) /\ bucket[k] # None /\ bucket'[k] = ReserveN(bucket[k], t)
        /\ bucket'[k] \in Bucket /\ overlapped' = overlapped
        /\ bucket' = [bucket EXCEPT ![k] = bucket'[k]]
    BY ReserveFinds
  <1>2. KeyIn(push[p]) = k /\ push[p].step = "reserve" /\ Gains(k, 0)
    BY OfPush DEF Reserve, At
  <1>3. bucket'[k].last = t
    <2>1. bucket[k] \in Bucket /\ t \in Nat
      BY <1>1 DEF GateInv, BucketsFit, Recent
    <2> QED
      BY <1>1, <2>1, Reserved
  <1>4. ~overlapped => bucket[k].last <= bucket'[k].last
    BY <1>1, <1>2, <1>3 DEF SpendInv, OnTime
  <1> QED
    BY <1>1, <1>2, <1>4, GainsNothing

LEMMA ReturnsUngained ==
    ASSUME GateInv, SpendInv, Ungained, NEW p \in Push, NEW k, NEW acts, NEW perMin, NEW t,
           Returns(k, acts, perMin, t),
           Owing(push[p], k), TimeIn(push[p], k) = t, ActsIn(push[p], k) = acts
    PROVE  Ungained'
  <1>1. /\ k \in Key /\ Recent(t, clock) /\ bucket[k] # None
        /\ bucket'[k] = CancelAt(bucket[k], acts, perMin, t)
        /\ bucket'[k] \in Bucket /\ overlapped' = overlapped /\ Gains(k, Overpaid(k, acts, perMin))
        /\ bucket' = [bucket EXCEPT ![k] = bucket'[k]] /\ acts \in Nat /\ acts >= t
        /\ perMin \in Nat \ {0} /\ Overpaid(k, acts, perMin) \in Nat
        /\ Restored(bucket[k], acts, perMin) <= Token => Overpaid(k, acts, perMin) = 0
    BY DEF Returns
  <1>2. bucket[k] \in Bucket /\ t \in Nat /\ bucket[k].last \in Nat /\ Token \in Nat
    BY <1>1, Oldest, OfBucket, Bounds DEF GateInv, BucketsFit
  <1>3. ASSUME ~overlapped PROVE Overpaid(k, acts, perMin) = 0 /\ bucket[k].last <= bucket'[k].last
    <2>1. Taken(bucket[k], ideal[k], t, acts) /\ ideal[k] \in Bucket
      BY <1>1, <1>3 DEF SpendInv, Exact, Out
    <2>2. bucket[k].last = t
      BY <2>1 DEF Taken
    <2>3. Restored(bucket[k], acts, perMin) = Token
      BY <1>1, <1>2, <2>1, CancelledIsAlike
    <2>4. bucket'[k] = bucket[k] \/ bucket'[k].last = t
      BY <1>1, <1>2, Cancelled DEF GivenBack
    <2> QED
      BY <1>1, <1>2, <2>2, <2>3, <2>4
  <1> QED
    BY <1>1, <1>3, GainsNothing

LEMMA NextUngained == GateInv /\ SpendInv /\ Ungained /\ [Next]_vars => Ungained'
  <1> SUFFICES ASSUME GateInv, SpendInv, Ungained, [Next]_vars PROVE Ungained'
    OBVIOUS
  <1>1. ASSUME NEW p \in Push, CancelDenied(p) PROVE Ungained'
    <2>1. /\ Returns(KeyOf(p), push[p].acts, push[p].perMin, push[p].now) /\ TimeIn(push[p], KeyOf(p)) = push[p].now
      BY <1>1, CancelDeniedReturns
    <2>2. /\ push[p].stage \in {"instance", "app"} /\ push[p].step = "cancel" /\ Active(p)
          /\ KeyIn(push[p]) = KeyOf(p) /\ ~Holding(push[p], KeyOf(p))
      BY <1>1, OfPush, AtKey DEF CancelDenied, At, Active
    <2>3. Owing(push[p], KeyOf(p)) /\ ActsIn(push[p], KeyOf(p)) = push[p].acts
      BY <2>2 DEF Owing, ActsIn
    <2> QED
      BY <2>1, <2>2, <2>3, ReturnsUngained
  <1>2. ASSUME NEW p \in Push, NEW k \in Key, Refund(p, k) PROVE Ungained'
    <2>1. Returns(k, push[p].held[k].now, push[p].held[k].perMin, push[p].held[k].now) /\ Active(p)
      BY <1>2, RefundReturns DEF Refund, Active
    <2>2. Holding(push[p], k)
      BY <1>2, RefundMoves
    <2>3. /\ Owing(push[p], k) /\ ActsIn(push[p], k) = push[p].held[k].now
          /\ TimeIn(push[p], k) = push[p].held[k].now
      BY <2>2 DEF Owing, ActsIn, TimeIn
    <2> QED
      BY <2>1, <2>3, ReturnsUngained
  <1>3. ASSUME gained' = gained, overlapped' = overlapped PROVE Ungained'
    BY <1>3 DEF Ungained
  <1>4. ASSUME NEW p \in Push, NEW i \in Instance, Admit(p, i) PROVE Ungained'
    <2>1. gained' = gained /\ (~overlapped' => ~overlapped)
      BY <1>4 DEF Admit
    <2> QED
      BY <2>1 DEF Ungained
  <1>5. ASSUME NEW p \in Push, PushStep(p) PROVE Ungained'
    BY <1>1, <1>2, <1>3, <1>4, <1>5, BucketAtUngained, SetBurstUngained, ReserveUngained
    DEF PushStep, Unlimited, ReadClock, QuotaAdmits, QuotaDenies, ghosts
  <1> QED
    BY <1>3, <1>5 DEF Next, Cleanup, Tick, vars, ghosts

\* However pushes interleave, limits change and idle buckets are evicted, no key gets
\* more of them through than its greatest burst and rate and the time passed allow,
\* but for what is counted: clocks put back and overpaid refunds, which pushes that
\* come one after another never cause, and buckets made anew with more than the
\* evicted ones had (limiter.go:43-124, gate.go:27-57).
THEOREM RatesHold == GateSpec => []AdmittedBound
  <1>1. Init => GateInv /\ CreditInv /\ SpendInv /\ Ungained
    BY InitInv, InitCredit, InitSpend DEF Init, Ungained
  <1>2. GateInv /\ CreditInv /\ SpendInv /\ Ungained /\ [Next]_vars
          => GateInv' /\ CreditInv' /\ SpendInv' /\ Ungained'
    BY NextInv, NextCredit, NextSpend, NextUngained
  <1>3. GateInv /\ CreditInv /\ Ungained => AdmittedBound
    BY CreditBounds DEF AdmittedBound, Ungained
  <1> QED
    BY <1>1, <1>2, <1>3, PTL DEF GateSpec

\* As long as pushes have come one after another, all that AdmittedBound still allows
\* for is a bucket that is evicted before it is full: no key gets more of them through
\* than its greatest burst and rate and the time passed allow, whatever limits change
\* in between (gate.go:27-57).
SequentialBound ==
    ~overlapped =>
        \A k \in Key : Token * admitted[k] <= Token * MaxBurst(k) + MaxRate(k) * clock + renewed[k]

THEOREM SequentialIsStrict == GateSpec => []SequentialBound
  <1>1. GateInv /\ AdmittedBound => SequentialBound
    <2> SUFFICES ASSUME GateInv, AdmittedBound, ~overlapped, NEW k \in Key
                 PROVE  Token * admitted[k] <= Token * MaxBurst(k) + MaxRate(k) * clock + renewed[k]
      BY DEF SequentialBound
    <2>1. /\ Token * admitted[k] <= Token * MaxBurst(k) + MaxRate(k) * clock + gained[k] + renewed[k]
          /\ gained[k] = 0
      BY DEF AdmittedBound
    <2>2. MaxRate(k) * clock \in Nat
      BY Numbers, Rated
    <2> QED
      BY <2>1, <2>2, Numbers
  <1> QED
    BY <1>1, SpecInv, RatesHold, PTL
=============================================================================
