-------------------------- MODULE Throttle_proofs --------------------------
(***************************************************************************)
(* Proofs about Throttle, with the RateBucket and the Settings below it,   *)
(* for any number of requests and updates, any settings and any rates; and *)
(* about ClientAddress, for any headers.                                   *)
(***************************************************************************)
EXTENDS TLAPS, FiniteSetTheorems, Throttle, ClientAddress

Setting == [perMin : Nat, burst : Nat]
Call    == [step : {"idle", "read", "store", "done"}, value : Config \cup {None}]
Bucket  == [perMin : Nat \ {0}, burst : Nat \ {0}, tokens : Int, last : Nat, lastEvent : Nat, seen : Nat]

\* What a call has read is what the row says, unless the call was overtaken.
SettingsInv ==
    /\ row \in Config /\ cached \in Config \cup {None}
    /\ get \in [Request -> Call]
    /\ updates \in 0..MaxUpdates /\ flushes \in 0..updates
    /\ overtaken \subseteq Request /\ tainted \in BOOLEAN
    /\ \A q \in Request :
          /\ get[q].step \in {"store", "done"} => get[q].value \in Config
          /\ get[q].step = "store" /\ q \notin overtaken => get[q].value = row
    /\ SettingsCurrentUnlessOvertaken

\* A request r in order at time t, with its call c of Get and the last failure f: no
\* time that it acts at is older than MaxStall, nor later than the last failure.
Failing   == {"bucket", "burst", "reserve", "cancel"}
AtLimiter == Failing \cup {"look"}
Guard     == [step : AtLimiter \cup {"idle", "get", "handle"}, now : Nat, acts : Nat, perMin : Nat]

Recent(s, t) == s \in Nat /\ s <= t /\ t - s <= MaxStall

InOrder(r, c, t, f) ==
    /\ r \in Guard /\ r.now <= t
    /\ c.step = "idle" <=> r.step = "idle"
    /\ r.step \notin {"idle", "get"} => c.step = "done"
    /\ r.step \in AtLimiter => Recent(r.now, t) /\ c.value.perMin > 0
    /\ r.step = "cancel" => r.acts > r.now /\ r.perMin > 0
    /\ r.step \in Failing => f # None /\ r.now <= f
GuardInOrder ==
    /\ guard \in [Request -> Guard]
    /\ \A q \in Request : InOrder(guard[q], get[q], clock, lastFailure)

\* A bucket in order at time t.
Fits(b, t) ==
    /\ b \in Bucket
    /\ b.perMin <= MaxRate /\ b.perMin >= MinRate /\ b.burst <= MaxBurst
    /\ b.tokens <= Token * MaxBurst
    /\ b.last <= t /\ b.seen <= t
    /\ b.last <= b.seen + MaxStall

\* A bucket that was evicted has been left alone for longer than a request may stall.
BucketFits ==
    /\ bucket # None => Fits(bucket, clock)
    /\ evicted # None => /\ bucket = None /\ Fits(evicted, clock)
                         /\ evicted.last + MaxStall <= clock

\* Whoever uses the bucket finds it, and Cleanup does not evict it.
Stays(r, b) ==
    r.step \in {"burst", "reserve", "cancel"} => b # None /\ r.now <= b.seen + MaxStall
UsedBucketStays == \A q \in Request : Stays(guard[q], bucket)

\* One request at a time has the map locked.
OneResyncs == \A q, o \in Request : guard[q].step = "burst" /\ guard[o].step = "burst" => q = o

Counted ==
    /\ clock \in 0..MaxTime /\ requests \in 0..MaxRequests
    /\ lastFailure \in (0..clock) \cup {None}
    /\ taken \in Nat /\ gained \in Nat /\ renewed \in Nat
    /\ raced \subseteq {q \in Request : Passed(q)}

ThrottleInv == Counted /\ GuardInOrder /\ BucketFits /\ UsedBucketStays /\ OneResyncs

-----------------------------------------------------------------------------
\* The assumptions, each in the form the solver needs.

LEMMA Bounds ==
    /\ IdleFor \in Nat /\ MaxStall \in Nat /\ 2 * MaxStall <= IdleFor
    /\ MaxTime \in Nat /\ MaxRequests \in Nat /\ Token \in Nat \ {0} /\ MaxUpdates \in Nat
  BY ThrottleAssumption, TokenAssumption, SettingsAssumption, Zenon

LEMMA Configs == Config \subseteq Setting /\ Defaults \in Config /\ None \notin Config
  BY ThrottleAssumption, SettingsAssumption, Zenon DEF Setting

LEMMA NoneIsNothing == None \notin Bucket /\ None \notin Nat
  <1>1. None \notin Nat \cup
            [perMin : Int, burst : Int, tokens : Int, last : Int, lastEvent : Int, seen : Int]
    BY ThrottleAssumption, Zenon
  <1> QED
    BY <1>1 DEF Bucket

LEMMA RequestsFinite == IsFiniteSet(Request) /\ Cardinality(Request) \in Nat
  BY ThrottleAssumption, FS_CardinalityType, Zenon

LEMMA MaxOfTwo ==
    ASSUME NEW a \in Int, NEW b \in Int PROVE Max({a, b}) = IF a >= b THEN a ELSE b
  BY DEF Max

LEMMA MinOfTwo ==
    ASSUME NEW a \in Int, NEW b \in Int PROVE Min({a, b}) = IF a <= b THEN a ELSE b
  BY DEF Min

\* A set of numbers that has a greatest one.
LEMMA Greatest ==
    ASSUME NEW S, NEW m \in S, \A n \in S : m >= n
    PROVE  Max(S) \in S /\ \A n \in S : Max(S) >= n
  BY DEF Max

LEMMA Least ==
    ASSUME NEW S, NEW m \in S, \A n \in S : m <= n
    PROVE  Min(S) \in S /\ \A n \in S : Min(S) <= n
  BY DEF Min

\* A burst of at least one token.
LEMMA BurstOf ==
    ASSUME NEW lim \in Setting
    PROVE  Burst(lim) \in Nat \ {0} /\ Burst(lim) = IF lim.burst >= 1 THEN lim.burst ELSE 1
  <1>1. lim.burst \in Nat
    BY DEF Setting
  <1>2. Max({1, lim.burst}) = IF 1 >= lim.burst THEN 1 ELSE lim.burst
    BY <1>1, MaxOfTwo
  <1> QED
    BY <1>1, <1>2 DEF Burst

\* The greatest rate and burst, and the least rate, are those of some settings.
LEMMA MostOf ==
    /\ MaxRate \in Nat /\ MaxBurst \in Nat /\ Token * MaxBurst \in Nat /\ MinRate \in Nat \ {0}
    /\ MinRate <= MaxRate
    /\ \A c \in Config :
          /\ c \in Setting /\ c.perMin \in Nat /\ c.perMin <= MaxRate
          /\ Burst(c) \in Nat \ {0} /\ Burst(c) <= MaxBurst
          /\ c.perMin > 0 => MinRate <= c.perMin
  <1>1. \A c \in Config : c \in Setting /\ c.perMin \in Nat /\ c.burst \in Nat /\ Burst(c) \in Nat \ {0}
    BY Configs, BurstOf DEF Setting
  <1>2. PICK r \in Config, b \in Config : \A c \in Config : c.perMin <= r.perMin /\ c.burst <= b.burst
    BY ThrottleAssumption, Zenon
  <1>3. PICK l \in Config : l.perMin > 0 /\ \A c \in Config : c.perMin > 0 => l.perMin <= c.perMin
    BY ThrottleAssumption, Zenon
  <1>4. MaxRate \in {c.perMin : c \in Config} /\ \A n \in {c.perMin : c \in Config} : MaxRate >= n
    <2> DEFINE S == {c.perMin : c \in Config}
    <2>1. r.perMin \in S /\ \A n \in S : r.perMin >= n
      BY <1>1, <1>2
    <2>2. Max(S) \in S /\ \A n \in S : Max(S) >= n
      <3> HIDE DEF S
      <3> QED
        BY <2>1, Greatest
    <2> QED
      BY <2>2 DEF MaxRate
  <1>5. MaxBurst \in {Burst(c) : c \in Config} /\ \A n \in {Burst(c) : c \in Config} : MaxBurst >= n
    <2> DEFINE S == {Burst(c) : c \in Config}
    <2>1. \A c \in Config : Burst(c) = IF c.burst >= 1 THEN c.burst ELSE 1
      BY Configs, BurstOf
    <2>2. Burst(b) \in S /\ \A n \in S : Burst(b) >= n
      BY <1>1, <1>2, <2>1
    <2>3. Max(S) \in S /\ \A n \in S : Max(S) >= n
      <3> HIDE DEF S
      <3> QED
        BY <2>2, Greatest
    <2> QED
      BY <2>3 DEF MaxBurst
  <1>6. MinRate \in {c.perMin : c \in Config} \ {0} /\ \A n \in {c.perMin : c \in Config} \ {0} : MinRate <= n
    <2> DEFINE S == {c.perMin : c \in Config} \ {0}
    <2>1. l.perMin \in S /\ \A n \in S : l.perMin <= n
      BY <1>1, <1>3
    <2>2. Min(S) \in S /\ \A n \in S : Min(S) <= n
      <3> HIDE DEF S
      <3> QED
        BY <2>1, Least
    <2> QED
      BY <2>2 DEF MinRate
  <1>7. MaxRate \in Nat /\ MaxBurst \in Nat /\ MinRate \in Nat \ {0} /\ MinRate <= MaxRate
    BY <1>1, <1>4, <1>5, <1>6
  <1>8. Token * MaxBurst \in Nat
    BY <1>7, Bounds
  <1> QED
    BY <1>1, <1>4, <1>5, <1>6, <1>7, <1>8

-----------------------------------------------------------------------------
\* Arithmetic of the bucket.

LEMMA Capacity ==
    ASSUME NEW n \in Nat
    PROVE  /\ Token * n \in Nat /\ Token * (n + 1) = Token * n + Token
           /\ \A m \in Nat : m <= n => Token * m <= Token * n
  BY TokenAssumption

\* What is refilled at a rate.
LEMMA Rated ==
    ASSUME NEW r \in Nat
    PROVE  /\ \A n \in Int : r * n \in Int
           /\ \A n \in Nat : r * n \in Nat
           /\ \A s \in Int, t \in Int : r * (t - s) = r * t - r * s
           /\ \A s \in Int, t \in Int : s <= t => r * s <= r * t
           /\ r * 0 = 0
           /\ \A q \in Nat, n \in Nat : q <= r => q * n <= r * n
  OBVIOUS

\* Time that passes between the last access and t, and what is refilled in it.
Since(b, t)  == IF b.last <= t THEN t - b.last ELSE 0
Refill(b, t) == b.perMin * Since(b, t)

LEMMA OfBucket ==
    ASSUME NEW b \in Bucket
    PROVE  /\ b.perMin \in Nat \ {0} /\ b.burst \in Nat \ {0} /\ b.tokens \in Int /\ b.last \in Nat
           /\ b.lastEvent \in Nat /\ b.seen \in Nat /\ Token * b.burst \in Nat
           /\ \A t \in Nat : Since(b, t) \in Nat /\ Refill(b, t) \in Nat
           /\ Since(b, b.last) = 0 /\ Refill(b, b.last) = 0
  <1>1. /\ b.perMin \in Nat \ {0} /\ b.burst \in Nat \ {0} /\ b.tokens \in Int /\ b.last \in Nat
        /\ b.lastEvent \in Nat /\ b.seen \in Nat
    BY DEF Bucket
  <1>2. Token * b.burst \in Nat
    BY <1>1, Capacity
  <1>3. \A t \in Nat : Since(b, t) \in Nat
    BY <1>1 DEF Since
  <1>4. \A t \in Nat : Refill(b, t) \in Nat
    BY <1>1, <1>3, Rated DEF Refill
  <1>5. Since(b, b.last) = 0 /\ Refill(b, b.last) = 0
    BY <1>1, Rated DEF Since, Refill
  <1> QED
    BY <1>1, <1>2, <1>3, <1>4, <1>5

LEMMA Advanced ==
    ASSUME NEW b \in Bucket, NEW t \in Nat
    PROVE  /\ Advance(b, t) = IF Token * b.burst <= b.tokens + Refill(b, t)
                              THEN Token * b.burst ELSE b.tokens + Refill(b, t)
           /\ Advance(b, t) \in Int /\ Advance(b, t) <= Token * b.burst
  <1>1. b.last \in Nat /\ Since(b, t) \in Nat /\ Refill(b, t) \in Nat /\ b.tokens \in Int /\ Token * b.burst \in Int
    BY OfBucket
  <1>2. Max({0, t - b.last}) = Since(b, t)
    BY <1>1, MaxOfTwo DEF Since
  <1>3. b.tokens + Refill(b, t) \in Int
    BY <1>1
  <1>4. Advance(b, t) = Min({Token * b.burst, b.tokens + Refill(b, t)})
    <2>1. Advance(b, t) = Min({Token * b.burst, b.tokens + b.perMin * Max({0, t - b.last})})
      BY Zenon DEF Advance
    <2> QED
      BY <1>2, <2>1, Zenon DEF Refill
  <1>5. Advance(b, t) = IF Token * b.burst <= b.tokens + Refill(b, t)
                        THEN Token * b.burst ELSE b.tokens + Refill(b, t)
    <2>1. Min({Token * b.burst, b.tokens + Refill(b, t)})
            = IF Token * b.burst <= b.tokens + Refill(b, t)
              THEN Token * b.burst ELSE b.tokens + Refill(b, t)
      BY <1>1, <1>3, MinOfTwo, Zenon
    <2> QED
      BY <1>4, <2>1, Zenon
  <1> QED
    BY <1>1, <1>3, <1>5

\* Buckets that differ in when they were seen only advance alike.
LEMMA SameAdvance ==
    ASSUME NEW b, NEW d, NEW t, b.perMin = d.perMin, b.burst = d.burst, b.tokens = d.tokens, b.last = d.last
    PROVE  Advance(b, t) = Advance(d, t)
  BY Zenon DEF Advance

\* A bucket just accessed has what it was left with.
LEMMA JustAccessed ==
    ASSUME NEW b \in Bucket
    PROVE  /\ Advance(b, b.last) = IF Token * b.burst <= b.tokens THEN Token * b.burst ELSE b.tokens
           /\ \A t \in Nat : t <= b.last => Advance(b, t) = Advance(b, b.last)
  <1>1. b.last \in Nat /\ Refill(b, b.last) = 0 /\ b.tokens \in Int /\ Token * b.burst \in Nat
    BY OfBucket
  <1>2. ASSUME NEW t \in Nat, t <= b.last PROVE Refill(b, t) = 0
    <2>1. Since(b, t) = 0
      BY <1>1, <1>2 DEF Since
    <2> QED
      BY <2>1, OfBucket, Rated DEF Refill
  <1> QED
    BY <1>1, <1>2, Advanced

\* A bucket goes on from any time after its last access.
LEMMA Onward ==
    ASSUME NEW b \in Bucket, NEW s \in Nat, NEW t \in Nat, b.last <= s, s <= t
    PROVE  /\ Advance(b, t) = IF Token * b.burst <= Advance(b, s) + b.perMin * (t - s)
                              THEN Token * b.burst ELSE Advance(b, s) + b.perMin * (t - s)
           /\ b.perMin * (t - s) \in Nat
  <1>1. /\ b.perMin \in Nat /\ b.last \in Nat /\ b.tokens \in Int /\ Token * b.burst \in Nat
        /\ Refill(b, s) \in Nat /\ Refill(b, t) \in Nat
    BY OfBucket
  <1>2. Since(b, s) = s - b.last /\ Since(b, t) = t - b.last /\ t - s \in Nat
    BY <1>1 DEF Since
  <1>3. b.perMin * (t - s) \in Nat /\ Refill(b, t) = Refill(b, s) + b.perMin * (t - s)
    <2>1. /\ b.perMin * (t - b.last) = b.perMin * t - b.perMin * b.last
          /\ b.perMin * (s - b.last) = b.perMin * s - b.perMin * b.last
          /\ b.perMin * (t - s) = b.perMin * t - b.perMin * s
          /\ b.perMin * (t - s) \in Nat
          /\ b.perMin * t \in Int /\ b.perMin * s \in Int /\ b.perMin * b.last \in Int
      BY <1>1, <1>2, Rated
    <2> QED
      BY <1>2, <2>1 DEF Refill
  <1> HIDE DEF Refill
  <1> QED
    BY <1>1, <1>3, Advanced

\* The tokens of a bucket less what any bucket could refill, which never grow with the
\* time.
Lead(b, t, rate) == Advance(b, t) - rate * t

\* An access at t is one at the last access or later, or puts the clock back.
LEMMA LeadShrinks ==
    ASSUME NEW b \in Bucket, NEW rate \in Nat, b.perMin <= rate,
           NEW s \in Nat, NEW t \in Nat, s >= b.last
    PROVE  /\ t >= s => Lead(b, t, rate) <= Lead(b, s, rate)
           /\ t < b.last => Lead(b, t, rate) = Lead(b, b.last, rate) + rate * (b.last - t)
           /\ Lead(b, t, rate) \in Int /\ Lead(b, s, rate) \in Int /\ Lead(b, b.last, rate) \in Int
  <1>1. b.last \in Nat /\ b.perMin \in Nat /\ Token * b.burst \in Nat
    BY OfBucket
  <1>2. /\ Advance(b, s) \in Int /\ Advance(b, t) \in Int /\ Advance(b, b.last) \in Int
        /\ Advance(b, s) <= Token * b.burst
    BY <1>1, Advanced
  <1>3. rate * s \in Int /\ rate * t \in Int /\ rate * b.last \in Int
    BY <1>1, Rated
  <1>4. ASSUME t >= s PROVE Lead(b, t, rate) <= Lead(b, s, rate)
    <2>1. t - s \in Nat
      BY <1>4
    <2>2. b.perMin * (t - s) \in Nat /\ b.perMin * (t - s) <= rate * (t - s) /\ rate * (t - s) = rate * t - rate * s
      BY <1>1, <2>1, Rated
    <2>3. Advance(b, t) <= Advance(b, s) + b.perMin * (t - s)
      BY <1>1, <1>2, <1>4, <2>2, Onward
    <2> QED
      BY <1>2, <1>3, <2>2, <2>3 DEF Lead
  <1>5. ASSUME t < b.last PROVE Lead(b, t, rate) = Lead(b, b.last, rate) + rate * (b.last - t)
    <2>1. Advance(b, t) = Advance(b, b.last)
      BY <1>1, <1>5, JustAccessed
    <2>2. rate * (b.last - t) = rate * b.last - rate * t
      BY <1>1, Rated
    <2> QED
      BY <1>2, <1>3, <2>1, <2>2 DEF Lead
  <1> QED
    BY <1>2, <1>3, <1>4, <1>5 DEF Lead

\* Changing the rate of a bucket or its burst gives it nothing.
LEMMA SetLimit ==
    ASSUME NEW b \in Bucket, NEW t \in Nat, NEW lim \in Setting, lim.perMin > 0,
           NEW d, d = SetLimitAt(b, t, lim)
    PROVE  /\ d \in Bucket /\ d.perMin = lim.perMin /\ d.burst = b.burst /\ d.tokens = Advance(b, t)
           /\ d.last = t /\ d.lastEvent = b.lastEvent /\ d.seen = b.seen
           /\ Advance(d, t) = Advance(b, t)
  <1>1. Advance(b, t) \in Int /\ Advance(b, t) <= Token * b.burst /\ lim.perMin \in Nat \ {0}
    BY Advanced DEF Setting
  <1>2. /\ d \in Bucket /\ d.perMin = lim.perMin /\ d.burst = b.burst /\ d.tokens = Advance(b, t)
        /\ d.last = t /\ d.lastEvent = b.lastEvent /\ d.seen = b.seen
    BY <1>1 DEF SetLimitAt, Bucket
  <1>3. Advance(d, d.last) = IF Token * d.burst <= d.tokens THEN Token * d.burst ELSE d.tokens
    BY <1>2, JustAccessed
  <1>4. Token * b.burst \in Nat
    BY OfBucket
  <1>5. Advance(d, t) = IF Token * b.burst <= Advance(b, t) THEN Token * b.burst ELSE Advance(b, t)
    BY <1>2, <1>3, Zenon
  <1>6. Advance(d, t) = Advance(b, t)
    BY <1>1, <1>4, <1>5
  <1> QED
    BY <1>2, <1>6

LEMMA SetBurstTo ==
    ASSUME NEW b \in Bucket, NEW t \in Nat, NEW lim \in Setting, NEW d, d = SetBurstAt(b, t, lim)
    PROVE  /\ d \in Bucket /\ d.perMin = b.perMin /\ d.burst = Burst(lim) /\ d.tokens = Advance(b, t)
           /\ d.last = t /\ d.lastEvent = b.lastEvent /\ d.seen = b.seen
           /\ Advance(d, t) <= Advance(b, t)
  <1>1. Advance(b, t) \in Int /\ Burst(lim) \in Nat \ {0}
    BY Advanced, BurstOf
  <1>2. /\ d \in Bucket /\ d.perMin = b.perMin /\ d.burst = Burst(lim) /\ d.tokens = Advance(b, t)
        /\ d.last = t /\ d.lastEvent = b.lastEvent /\ d.seen = b.seen
    BY <1>1 DEF SetBurstAt, Bucket
  <1> QED
    BY <1>1, <1>2, JustAccessed, OfBucket

\* A wait is none only for nothing.
LEMMA Waits ==
    ASSUME NEW units \in Nat, NEW perMin \in Nat \ {0}
    PROVE  Wait(units, perMin) \in Nat /\ (Wait(units, perMin) = 0 <=> units = 0)
  BY DEF Wait

\* A reservation takes one token, and acts when the bucket has refilled it.
LEMMA Reserved ==
    ASSUME NEW b \in Bucket, NEW t \in Nat, NEW d, d = ReserveN(b, t)
    PROVE  /\ d \in Bucket /\ d.perMin = b.perMin /\ d.burst = b.burst /\ d.last = t /\ d.seen = b.seen
           /\ d.tokens = Advance(b, t) - Token
           /\ d.lastEvent \in Nat /\ d.lastEvent >= t /\ (d.lastEvent = t <=> d.tokens >= 0)
           /\ Advance(d, t) = Advance(b, t) - Token
  <1> DEFINE left  == Advance(b, t) - Token
             short == Max({0, -left})
             event == t + Wait(short, b.perMin)
  <1>1. left \in Int /\ left <= Token * b.burst /\ b.perMin \in Nat \ {0} /\ -left \in Int
    BY Advanced, OfBucket, Bounds
  <1>2. short = (IF 0 >= -left THEN 0 ELSE -left)
    <2>1. 0 \in Int /\ -left \in Int
      BY <1>1
    <2> HIDE DEF left
    <2> QED
      BY <2>1, MaxOfTwo
  <1>3. d = [b EXCEPT !.tokens = left, !.last = t, !.lastEvent = event]
    BY DEF ReserveN
  <1> HIDE DEF left, short
  <1>4. short \in Nat /\ (short = 0 <=> left >= 0)
    BY <1>1, <1>2
  <1>5. Wait(short, b.perMin) \in Nat /\ (Wait(short, b.perMin) = 0 <=> short = 0)
    BY <1>1, <1>4, Waits
  <1>6. event \in Nat /\ event >= t /\ (event = t <=> left >= 0)
    BY <1>4, <1>5
  <1> HIDE DEF event
  <1>7. /\ d \in Bucket /\ d.perMin = b.perMin /\ d.burst = b.burst /\ d.last = t /\ d.seen = b.seen
        /\ d.tokens = left /\ d.lastEvent = event
    BY <1>1, <1>3, <1>6 DEF Bucket
  <1>8. Advance(d, t) = left
    <2>1. Advance(d, d.last) = IF Token * d.burst <= d.tokens THEN Token * d.burst ELSE d.tokens
      BY <1>7, JustAccessed
    <2>2. Advance(d, t) = IF Token * b.burst <= left THEN Token * b.burst ELSE left
      BY <1>7, <2>1, Zenon
    <2>3. Token * b.burst \in Nat
      BY OfBucket
    <2> QED
      BY <1>1, <2>2, <2>3
  <1> QED
    BY <1>6, <1>7, <1>8 DEF left

\* A reservation that is cancelled gives its bucket something back, or leaves it.
GivenBack(b, d, acts, perMin, t) ==
    /\ Restored(b, acts, perMin) > 0
    /\ d \in Bucket /\ d.perMin = b.perMin /\ d.burst = b.burst /\ d.last = t /\ d.seen = b.seen
    /\ d.tokens = IF Token * b.burst <= Advance(b, t) + Restored(b, acts, perMin)
                  THEN Token * b.burst ELSE Advance(b, t) + Restored(b, acts, perMin)
    /\ Advance(d, t) = d.tokens

LEMMA RestoredIsInt ==
    ASSUME NEW b \in Bucket, NEW acts \in Nat, NEW perMin \in Nat
    PROVE  Restored(b, acts, perMin) \in Int
  BY OfBucket, Bounds DEF Restored

LEMMA Cancelled ==
    ASSUME NEW b \in Bucket, NEW t \in Nat, NEW acts \in Nat, acts >= t, NEW perMin \in Nat \ {0},
           NEW d, d = CancelAt(b, acts, perMin, t)
    PROVE  \/ Restored(b, acts, perMin) <= 0 /\ d = b
           \/ GivenBack(b, d, acts, perMin, t)
  <1> DEFINE back   == Restored(b, acts, perMin)
             tokens == Min({Token * b.burst, Advance(b, t) + back})
             before == acts - Wait(Token, perMin)
             event  == IF acts = b.lastEvent /\ before >= t THEN before ELSE b.lastEvent
  <1>1. back \in Int /\ b.lastEvent \in Nat /\ Token \in Nat
    BY RestoredIsInt, OfBucket, Bounds
  <1>2. Advance(b, t) \in Int /\ Token * b.burst \in Nat /\ Wait(Token, perMin) \in Nat
    BY Advanced, OfBucket, Waits, Bounds
  <1>3. Advance(b, t) + back \in Int /\ Token * b.burst \in Int
    BY <1>1, <1>2
  <1>4. tokens = IF Token * b.burst <= Advance(b, t) + back THEN Token * b.burst ELSE Advance(b, t) + back
    <2> HIDE DEF back
    <2> QED
      BY <1>3, MinOfTwo, Zenon
  <1>5. event \in Nat
    BY <1>1, <1>2
  <1>6. d = IF acts < t \/ back <= 0 THEN b
            ELSE [b EXCEPT !.tokens = tokens, !.last = t, !.lastEvent = event]
    BY DEF CancelAt
  <1> HIDE DEF back, tokens, event
  <1>7. CASE back <= 0
    BY <1>6, <1>7 DEF back
  <1>8. CASE back > 0
    <2>1. d = [b EXCEPT !.tokens = tokens, !.last = t, !.lastEvent = event]
      BY <1>1, <1>6, <1>8
    <2>2. tokens \in Int /\ tokens <= Token * b.burst
      BY <1>2, <1>3, <1>4
    <2>3. /\ d \in Bucket /\ d.perMin = b.perMin /\ d.burst = b.burst /\ d.last = t /\ d.seen = b.seen
          /\ d.tokens = tokens
      BY <1>5, <2>1, <2>2 DEF Bucket
    <2>4. Advance(d, t) = d.tokens
      <3>1. Advance(d, d.last) = IF Token * d.burst <= d.tokens THEN Token * d.burst ELSE d.tokens
        BY <2>3, JustAccessed
      <3> QED
        BY <1>2, <2>2, <2>3, <3>1
    <2> QED
      BY <1>4, <1>8, <2>3, <2>4 DEF back, GivenBack
  <1> QED
    BY <1>1, <1>7, <1>8

-----------------------------------------------------------------------------
\* Settings.

LEMMA NoGetFits == NoGet \in Call /\ NoGet.step = "idle"
  BY DEF NoGet, Call

LEMMA InitSettingsInv == ASSUME InitSettings PROVE SettingsInv
  <1>1. tainted \in BOOLEAN
    BY Zenon DEF InitSettings
  <1>2. get \in [Request -> Call] /\ \A q \in Request : get[q].step = "idle"
    BY NoGetFits DEF InitSettings
  <1> QED
    BY <1>1, <1>2, SettingsAssumption DEF InitSettings, SettingsInv, SettingsCurrentUnlessOvertaken

\* A call of Get goes on.
LEMMA GotFits ==
    ASSUME SettingsInv, NEW q \in Request, NEW step \in {"idle", "read", "store", "done"},
           NEW v \in Config \cup {None}, Got(q, step, v)
    PROVE  /\ get' \in [Request -> Call]
           /\ get'[q].step = step /\ get'[q].value = v
           /\ \A p \in Request \ {q} : get'[p] = get[p]
  BY DEF SettingsInv, Got, Call

LEMMA LookupInv ==
    ASSUME SettingsInv, NEW q \in Request, Lookup(q)
    PROVE  /\ SettingsInv' /\ get'[q].step # "idle"
           /\ \A p \in Request \ {q} : get'[p] = get[p]
  <1>1. CASE cached # None
    <2>1. Got(q, "done", cached) /\ cached \in Config
      BY <1>1 DEF Lookup, SettingsInv
    <2> QED
      BY <2>1, GotFits DEF Lookup, Quiet, SettingsInv, SettingsCurrentUnlessOvertaken
  <1>2. CASE cached = None
    <2>1. Got(q, "read", None)
      BY <1>2 DEF Lookup
    <2> QED
      BY <2>1, GotFits DEF Lookup, Quiet, SettingsInv, SettingsCurrentUnlessOvertaken
  <1> QED
    BY <1>1, <1>2

LEMMA FinishInv ==
    ASSUME SettingsInv, NEW q \in Request, Finish(q)
    PROVE  /\ SettingsInv' /\ get'[q].step = "idle"
           /\ \A p \in Request \ {q} : get'[p] = get[p]
  <1>1. /\ get' \in [Request -> Call] /\ get'[q].step = "idle"
        /\ \A p \in Request \ {q} : get'[p] = get[p]
    BY NoGetFits DEF Finish, SettingsInv
  <1> QED
    BY <1>1 DEF Finish, SettingsInv, SettingsCurrentUnlessOvertaken

LEMMA SettingsUnchanged == ASSUME SettingsInv, UNCHANGED settingsVars PROVE SettingsInv'
  BY DEF settingsVars, SettingsInv, SettingsCurrentUnlessOvertaken

\* A call that is done stays so, and one that was not begun stays so too.
LEMMA SettingsStepInv ==
    ASSUME SettingsInv, SettingsStep
    PROVE  /\ SettingsInv'
           /\ \A q \in Request : /\ get[q].step = "done" => get'[q] = get[q]
                                 /\ get[q].step = "idle" <=> get'[q].step = "idle"
  <1> DEFINE Kept == \A q \in Request : /\ get[q].step = "done" => get'[q] = get[q]
                                        /\ get[q].step = "idle" <=> get'[q].step = "idle"
  <1>1. ASSUME NEW q \in Request, ReadRow(q) PROVE SettingsInv' /\ Kept
    <2>1. CASE Got(q, "store", row)
      <3>1. SettingsInv'
        BY <1>1, <2>1, GotFits DEF ReadRow, Quiet, SettingsInv, SettingsCurrentUnlessOvertaken
      <3>2. Kept
        BY <1>1, <2>1, GotFits DEF ReadRow, SettingsInv
      <3> QED
        BY <3>1, <3>2
    <2>2. CASE Got(q, "done", Defaults)
      <3>1. SettingsInv'
        BY <1>1, <2>2, GotFits, SettingsAssumption
        DEF ReadRow, Quiet, SettingsInv, SettingsCurrentUnlessOvertaken
      <3>2. Kept
        BY <1>1, <2>2, GotFits, SettingsAssumption DEF ReadRow, SettingsInv
      <3> QED
        BY <3>1, <3>2
    <2> QED
      BY <1>1, <2>1, <2>2 DEF ReadRow
  <1>2. ASSUME NEW q \in Request, Store(q) PROVE SettingsInv' /\ Kept
    <2>1. /\ Got(q, "done", get[q].value) /\ get[q].value \in Config /\ get[q].step = "store"
          /\ q \notin overtaken => get[q].value = row
      BY <1>2 DEF Store, SettingsInv
    <2>2. /\ get' \in [Request -> Call]
          /\ get'[q].step = "done" /\ get'[q].value = get[q].value
          /\ \A p \in Request \ {q} : get'[p] = get[p]
      BY <2>1, GotFits
    <2>3. tainted' \in BOOLEAN /\ (~tainted' => q \notin overtaken)
      <3>1. tainted' = (q \in overtaken)
        BY <1>2, Zenon DEF Store
      <3>2. CASE q \in overtaken
        BY <3>1, <3>2, Zenon
      <3>3. CASE q \notin overtaken
        <4>1. (q \in overtaken) = FALSE
          BY <3>3
        <4>2. tainted' = FALSE
          BY <3>1, <4>1, Zenon
        <4> QED
          BY <3>3, <4>2, Zenon
      <3> QED
        BY <3>2, <3>3
    <2>4. SettingsCurrentUnlessOvertaken'
      BY <1>2, <2>1, <2>3 DEF Store, Quiet, SettingsCurrentUnlessOvertaken
    <2>5. SettingsInv'
      BY <1>2, <2>1, <2>2, <2>3, <2>4 DEF Store, Quiet, SettingsInv
    <2> QED
      BY <2>1, <2>2, <2>5
  <1>3. ASSUME NEW v \in Config, UpdateSetting(v) PROVE SettingsInv' /\ Kept
    <2>1. SettingsInv'
      BY <1>3, SettingsAssumption DEF UpdateSetting, SettingsInv, SettingsCurrentUnlessOvertaken
    <2> QED
      BY <1>3, <2>1 DEF UpdateSetting
  <1>4. ASSUME Flush PROVE SettingsInv' /\ Kept
    <2>1. tainted' \in BOOLEAN
      BY <1>4, Zenon DEF Flush
    <2>2. SettingsInv'
      BY <1>4, <2>1 DEF Flush, SettingsInv, SettingsCurrentUnlessOvertaken
    <2>3. get' = get
      BY <1>4, Zenon DEF Flush
    <2>4. Kept
      BY <2>3
    <2> HIDE DEF Kept
    <2> QED
      BY <2>2, <2>4
  <1> HIDE DEF Kept
  <1>5. SettingsInv' /\ Kept
    BY <1>1, <1>2, <1>3, <1>4 DEF SettingsStep
  <1> QED
    BY <1>5 DEF Kept

-----------------------------------------------------------------------------
\* The bucket.

LEMMA FitsType ==
    ASSUME NEW b, NEW t \in Nat, Fits(b, t)
    PROVE  /\ b \in Bucket /\ b # None /\ b.perMin \in Nat \ {0} /\ b.burst \in Nat \ {0} /\ b.tokens \in Int
           /\ b.last \in Nat /\ b.seen \in Nat /\ b.lastEvent \in Nat
           /\ Token * b.burst \in Nat /\ Token * b.burst <= Token * MaxBurst
           /\ \A s \in Nat : Advance(b, s) \in Int /\ Advance(b, s) <= Token * MaxBurst
  <1>1. b \in Bucket /\ b # None
    BY NoneIsNothing DEF Fits
  <1>2. /\ b.perMin \in Nat \ {0} /\ b.burst \in Nat \ {0} /\ b.tokens \in Int
        /\ b.last \in Nat /\ b.seen \in Nat /\ b.lastEvent \in Nat
    BY <1>1, OfBucket
  <1>3. MaxBurst \in Nat /\ b.burst <= MaxBurst /\ Token * MaxBurst \in Nat
    BY MostOf DEF Fits
  <1>4. Token * b.burst \in Nat /\ Token * b.burst <= Token * MaxBurst
    BY <1>2, <1>3, Capacity
  <1>5. ASSUME NEW s \in Nat PROVE Advance(b, s) \in Int /\ Advance(b, s) <= Token * MaxBurst
    <2>1. Advance(b, s) \in Int /\ Advance(b, s) <= Token * b.burst
      BY <1>1, Advanced
    <2> QED
      BY <1>3, <1>4, <2>1
  <1> QED
    BY <1>1, <1>2, <1>4, <1>5

\* bucketAt makes a bucket, ...
LEMMA Made ==
    ASSUME NEW t \in Nat, NEW c \in Config, c.perMin > 0, NEW d, d = NewBucket(c, t)
    PROVE  /\ d \in Bucket /\ d.perMin = c.perMin /\ d.burst = Burst(c) /\ d.tokens = Token * Burst(c)
           /\ d.last = 0 /\ d.seen = t
           /\ \A s \in Nat : Advance(d, s) = Token * Burst(c)
           /\ Token * Burst(c) >= Token /\ Token * Burst(c) <= Token * MaxBurst
  <1>1. c.perMin \in Nat \ {0} /\ Burst(c) \in Nat \ {0} /\ Burst(c) <= MaxBurst /\ MaxBurst \in Nat
    BY MostOf
  <1>2. /\ Token * Burst(c) \in Nat /\ Token * Burst(c) <= Token * MaxBurst
        /\ Token * 1 <= Token * Burst(c) /\ Token * 1 = Token
    BY <1>1, Capacity, Bounds
  <1>3. /\ d \in Bucket /\ d.perMin = c.perMin /\ d.burst = Burst(c) /\ d.tokens = Token * Burst(c)
        /\ d.last = 0 /\ d.seen = t
    BY <1>1, <1>2 DEF NewBucket, Bucket
  <1>4. ASSUME NEW s \in Nat PROVE Advance(d, s) = Token * Burst(c)
    <2>1. Refill(d, s) \in Nat
      BY <1>3, OfBucket
    <2>2. Advance(d, s) = IF Token * d.burst <= d.tokens + Refill(d, s)
                          THEN Token * d.burst ELSE d.tokens + Refill(d, s)
      BY <1>3, Advanced
    <2>3. Advance(d, s) = IF Token * Burst(c) <= Token * Burst(c) + Refill(d, s)
                          THEN Token * Burst(c) ELSE Token * Burst(c) + Refill(d, s)
      BY <1>3, <2>2, Zenon
    <2> QED
      BY <1>2, <2>1, <2>3
  <1> QED
    BY <1>2, <1>3, <1>4

\* ... or puts it to another rate and notes when it was seen.
LEMMA SyncedTo ==
    ASSUME NEW b \in Bucket, NEW t \in Nat, NEW c \in Config, c.perMin > 0,
           NEW d, d = Synced(b, t, c, None)
    PROVE  /\ d \in Bucket /\ d.burst = b.burst /\ d.seen = t
           /\ IF Differs(b, c, None)
              THEN d.perMin = c.perMin /\ d.tokens = Advance(b, t) /\ d.last = t
              ELSE d.perMin = b.perMin /\ d.tokens = b.tokens /\ d.last = b.last
  <1> DEFINE e == IF Differs(b, c, None) THEN SetLimitAt(b, t, c) ELSE b
  <1>1. d = [e EXCEPT !.seen = t]
    BY NoneIsNothing DEF Synced
  <1>2. c \in Setting
    BY MostOf
  <1>3. /\ e \in Bucket /\ e.burst = b.burst
        /\ IF Differs(b, c, None)
           THEN e.perMin = c.perMin /\ e.tokens = Advance(b, t) /\ e.last = t
           ELSE e.perMin = b.perMin /\ e.tokens = b.tokens /\ e.last = b.last
    <2>1. CASE Differs(b, c, None)
      <3>1. e = SetLimitAt(b, t, c)
        BY <2>1
      <3> HIDE DEF e
      <3> QED
        BY <1>2, <2>1, <3>1, SetLimit
    <2>2. CASE ~Differs(b, c, None)
      BY <2>2
    <2> QED
      BY <2>1, <2>2
  <1> HIDE DEF e
  <1> QED
    BY <1>1, <1>3 DEF Bucket

LEMMA SyncedFits ==
    ASSUME NEW b, NEW now \in Nat, b = None \/ Fits(b, now), NEW t, Recent(t, now),
           NEW c \in Config, c.perMin > 0, NEW d, d = Synced(b, t, c, None)
    PROVE  Fits(d, now) /\ d.seen = t
  <1>1. MaxStall \in Nat /\ t \in Nat /\ t <= now /\ now <= t + MaxStall
    BY Bounds DEF Recent
  <1>2. c.perMin <= MaxRate /\ MinRate <= c.perMin /\ Burst(c) <= MaxBurst /\ Token * MaxBurst \in Nat
        /\ c.perMin \in Nat /\ Burst(c) \in Nat
    BY MostOf
  <1>3. CASE b = None
    <2>1. d = NewBucket(c, t)
      BY <1>3 DEF Synced
    <2>2. /\ d \in Bucket /\ d.perMin = c.perMin /\ d.burst = Burst(c) /\ d.tokens = Token * Burst(c)
          /\ d.last = 0 /\ d.seen = t /\ Token * Burst(c) <= Token * MaxBurst
      BY <1>1, <2>1, Made
    <2> QED
      BY <1>1, <1>2, <2>2 DEF Fits
  <1>4. CASE b # None
    <2>1. b \in Bucket /\ Advance(b, t) <= Token * MaxBurst /\ b.last \in Nat /\ b.seen \in Nat /\ Fits(b, now)
      BY <1>1, <1>4, FitsType
    <2>2. /\ d \in Bucket /\ d.burst = b.burst /\ d.seen = t
          /\ IF Differs(b, c, None)
             THEN d.perMin = c.perMin /\ d.tokens = Advance(b, t) /\ d.last = t
             ELSE d.perMin = b.perMin /\ d.tokens = b.tokens /\ d.last = b.last
      BY <1>1, <2>1, SyncedTo
    <2> QED
      BY <1>1, <1>2, <2>1, <2>2 DEF Fits
  <1> QED
    BY <1>3, <1>4

LEMMA SetBurstFits ==
    ASSUME NEW b, NEW now \in Nat, Fits(b, now), NEW t, Recent(t, now),
           t <= b.seen + MaxStall, NEW c \in Config, NEW d, d = SetBurstAt(b, t, c)
    PROVE  Fits(d, now) /\ d.seen = b.seen
  <1>1. t \in Nat /\ t <= now
    BY Bounds DEF Recent
  <1>2. b \in Bucket /\ Advance(b, t) <= Token * MaxBurst
    BY <1>1, FitsType
  <1>3. c \in Setting /\ Burst(c) <= MaxBurst
    BY MostOf
  <1>4. /\ d \in Bucket /\ d.perMin = b.perMin /\ d.burst = Burst(c) /\ d.tokens = Advance(b, t)
        /\ d.last = t /\ d.seen = b.seen
    BY <1>1, <1>2, <1>3, SetBurstTo
  <1> QED
    BY <1>1, <1>2, <1>3, <1>4 DEF Fits

LEMMA ReservedFits ==
    ASSUME NEW b, NEW now \in Nat, Fits(b, now), NEW t, Recent(t, now),
           t <= b.seen + MaxStall, NEW d, d = ReserveN(b, t)
    PROVE  Fits(d, now) /\ d.seen = b.seen
  <1>1. t \in Nat /\ t <= now /\ Token \in Nat
    BY Bounds DEF Recent
  <1>2. b \in Bucket /\ Advance(b, t) \in Int /\ Advance(b, t) <= Token * MaxBurst /\ Token * MaxBurst \in Nat
    BY <1>1, FitsType, MostOf
  <1>3. /\ d \in Bucket /\ d.perMin = b.perMin /\ d.burst = b.burst /\ d.last = t /\ d.seen = b.seen
        /\ d.tokens = Advance(b, t) - Token
    <2>1. b \in Bucket /\ t \in Nat
      BY <1>1, <1>2
    <2> QED
      BY <2>1, Reserved
  <1> QED
    BY <1>1, <1>2, <1>3 DEF Fits

LEMMA CancelledFits ==
    ASSUME NEW b, NEW now \in Nat, Fits(b, now), NEW t, Recent(t, now),
           t <= b.seen + MaxStall, NEW acts \in Nat, acts >= t, NEW perMin \in Nat \ {0},
           NEW d, d = CancelAt(b, acts, perMin, t)
    PROVE  Fits(d, now) /\ d.seen = b.seen
  <1>1. t \in Nat /\ t <= now /\ b \in Bucket
    BY Bounds DEF Recent, Fits
  <1>2. CASE d = b
    BY <1>2
  <1>3. CASE GivenBack(b, d, acts, perMin, t)
    <2>1. Token * b.burst <= Token * MaxBurst /\ Token * b.burst \in Nat /\ Token * MaxBurst \in Nat
      BY <1>1, FitsType, MostOf
    <2>2. Advance(b, t) \in Int /\ Restored(b, acts, perMin) \in Int
      BY <1>1, Advanced, RestoredIsInt
    <2>3. d.tokens <= Token * MaxBurst
      BY <1>3, <2>1, <2>2 DEF GivenBack
    <2> QED
      BY <1>1, <1>3, <2>3 DEF Fits, GivenBack
  <1> QED
    BY <1>1, <1>2, <1>3, Cancelled

-----------------------------------------------------------------------------
\* The requests.

Inv == SettingsInv /\ ThrottleInv

LEMMA OfRequest ==
    ASSUME Inv, NEW q \in Request
    PROVE  /\ InOrder(guard[q], get[q], clock, lastFailure) /\ guard \in [Request -> Guard]
           /\ guard[q] \in Guard /\ guard[q].step \in AtLimiter \cup {"idle", "get", "handle"}
           /\ guard[q].now \in Nat /\ guard[q].acts \in Nat /\ guard[q].perMin \in Nat
           /\ clock \in Nat /\ clock # None /\ get[q] \in Call
           /\ get[q].step = "done" => Limit(q) \in Config
  <1>1. guard \in [Request -> Guard] /\ guard[q] \in Guard /\ InOrder(guard[q], get[q], clock, lastFailure)
    BY DEF Inv, ThrottleInv, GuardInOrder
  <1>2. clock \in Nat /\ clock # None
    BY NoneIsNothing, Bounds DEF Inv, ThrottleInv, Counted
  <1>3. get[q] \in Call /\ (get[q].step = "done" => get[q].value \in Config)
    BY DEF Inv, SettingsInv
  <1> QED
    BY <1>1, <1>2, <1>3 DEF Guard, Limit

\* A request at the limiter has a limit, and the clock it has read is recent.
LEMMA AtTheLimiter ==
    ASSUME Inv, NEW q \in Request, guard[q].step \in AtLimiter
    PROVE  /\ Recent(guard[q].now, clock) /\ guard[q].now <= clock /\ clock - guard[q].now <= MaxStall
           /\ Limit(q) \in Config /\ Limit(q).perMin > 0 /\ Limited(q)
           /\ get[q].step = "done" /\ q \in Request
           /\ guard[q].step \in Failing => lastFailure # None /\ guard[q].now <= lastFailure
           /\ guard[q].step \in {"bucket", "burst", "reserve"} => Passed(q)
  BY OfRequest DEF InOrder, Recent, AtLimiter, Failing, Limit, Limited, Passed

\* Only request q becomes another one.
Others(q) == \A o \in Request \ {q} : guard'[o] = guard[o] /\ get'[o] = get[o]

LEMMA OnlyOne ==
    ASSUME Inv, NEW q \in Request, NEW r, Become(q, r), clock' = clock,
           \A o \in Request \ {q} : get'[o] = get[o],
           lastFailure' \in {lastFailure, clock}, InOrder(r, get'[q], clock, lastFailure')
    PROVE  GuardInOrder' /\ guard'[q] = r /\ Others(q)
  <1>1. r \in Guard /\ guard \in [Request -> Guard] /\ guard' = [guard EXCEPT ![q] = r]
    BY OfRequest DEF InOrder, Become
  <1>2. guard' \in [Request -> Guard] /\ guard'[q] = r /\ \A o \in Request \ {q} : guard'[o] = guard[o]
    BY <1>1
  <1>3. ASSUME NEW o \in Request PROVE InOrder(guard'[o], get'[o], clock, lastFailure')
    <2>1. CASE o = q
      BY <1>2, <2>1
    <2>2. CASE o # q
      <3>1. InOrder(guard[o], get[o], clock, lastFailure) /\ clock # None
        BY OfRequest
      <3>2. guard'[o] = guard[o] /\ get'[o] = get[o]
        BY <1>2, <2>2
      <3>3. InOrder(guard[o], get[o], clock, lastFailure')
        BY <3>1 DEF InOrder
      <3> QED
        BY <3>2, <3>3
    <2> QED
      BY <2>1, <2>2
  <1> QED
    BY <1>2, <1>3 DEF GuardInOrder, Others

LEMMA RacedStay ==
    ASSUME Inv, NEW q \in Request, Others(q), raced' \subseteq Request,
           q \in raced' => Passed(q)',
           \A o \in raced' \ {q} : Passed(o)
    PROVE  raced' \subseteq {o \in Request : Passed(o)'}
  BY DEF Others, Passed, Limited, Limit

\* A request that is not at work on the bucket afterwards leaves it as it is.
LEMMA BucketLeft ==
    ASSUME Inv, NEW q \in Request, Others(q), UNCHANGED <<clock, bucket, evicted>>,
           guard'[q].step \notin {"burst", "reserve", "cancel"}
    PROVE  BucketFits' /\ UsedBucketStays' /\ OneResyncs'
  <1>1. BucketFits'
    BY DEF Inv, ThrottleInv, BucketFits
  <1>2. UsedBucketStays'
    BY DEF Inv, ThrottleInv, UsedBucketStays, Stays, Others
  <1>3. OneResyncs'
    BY DEF Inv, ThrottleInv, OneResyncs, Others
  <1> QED
    BY <1>1, <1>2, <1>3

\* One that is finds it there, and leaves one in order.
LEMMA BucketUsed ==
    ASSUME Inv, NEW q \in Request, Others(q), clock' = clock,
           NEW d, Fits(d, clock), bucket' = d, evicted' \in {evicted, None}, bucket = None => evicted' = None,
           guard'[q].step \in {"idle", "burst", "reserve", "cancel"},
           guard'[q].now <= d.seen + MaxStall \/ guard'[q].step = "idle",
           \A o \in Request \ {q} : Stays(guard[o], d),
           guard'[q].step = "burst" => MapFree
    PROVE  BucketFits' /\ UsedBucketStays' /\ OneResyncs'
  <1>1. d # None
    BY OfRequest, FitsType
  <1>2. BucketFits'
    BY <1>1 DEF Inv, ThrottleInv, BucketFits
  <1>3. UsedBucketStays'
    BY <1>1 DEF UsedBucketStays, Stays, Others
  <1>4. OneResyncs'
    BY DEF Inv, ThrottleInv, OneResyncs, Others, MapFree
  <1> QED
    BY <1>2, <1>3, <1>4

LEMMA UsersStay ==
    ASSUME Inv, NEW d, clock <= d.seen + MaxStall \/ (bucket # None /\ d.seen = bucket.seen), d # None, d.seen \in Nat
    PROVE  \A o \in Request : Stays(guard[o], d)
  <1> TAKE o \in Request
  <1>1. Stays(guard[o], bucket) /\ guard[o].now \in Nat /\ guard[o].now <= clock /\ clock \in Nat /\ MaxStall \in Nat
    BY OfRequest, Bounds DEF Inv, ThrottleInv, UsedBucketStays, InOrder
  <1> QED
    BY <1>1 DEF Stays

\* Whoever works on the bucket finds it.
LEMMA InUse ==
    ASSUME Inv, NEW q \in Request, guard[q].step \in {"burst", "reserve", "cancel"}
    PROVE  /\ bucket # None /\ Fits(bucket, clock) /\ guard[q].now <= bucket.seen + MaxStall
           /\ bucket \in Bucket /\ bucket.seen \in Nat
  <1>1. bucket # None /\ guard[q].now <= bucket.seen + MaxStall
    BY DEF Inv, ThrottleInv, UsedBucketStays, Stays
  <1>2. Fits(bucket, clock)
    BY <1>1 DEF Inv, ThrottleInv, BucketFits
  <1> QED
    BY <1>1, <1>2, OfRequest, FitsType

LEMMA BucketInOrder == ASSUME Inv PROVE bucket = None \/ Fits(bucket, clock)
  BY DEF Inv, ThrottleInv, BucketFits

-----------------------------------------------------------------------------
\* Each step keeps the invariant.

LEMMA NoGuardInOrder ==
    ASSUME NEW t \in Nat, NEW f, NEW c \in Call, c.step = "idle" PROVE InOrder(NoGuard, c, t, f)
  BY DEF InOrder, NoGuard, Guard, AtLimiter, Failing

\* A request finishes.
LEMMA Finishes ==
    ASSUME Inv, NEW q \in Request, Finish(q), clock' = clock, lastFailure' \in {lastFailure, clock}
    PROVE  SettingsInv' /\ GuardInOrder' /\ guard'[q] = NoGuard /\ guard'[q].step = "idle" /\ Others(q)
  <1>1. SettingsInv' /\ get'[q].step = "idle" /\ \A p \in Request \ {q} : get'[p] = get[p]
    BY FinishInv DEF Inv
  <1>2. get'[q] \in Call
    BY <1>1 DEF SettingsInv
  <1>3. InOrder(NoGuard, get'[q], clock, lastFailure')
    BY <1>1, <1>2, OfRequest, NoGuardInOrder
  <1>4. Become(q, NoGuard)
    BY DEF Finish
  <1>5. GuardInOrder' /\ guard'[q] = NoGuard /\ Others(q)
    BY <1>1, <1>3, <1>4, OnlyOne
  <1> QED
    BY <1>1, <1>5 DEF NoGuard

LEMMA EnterInv == ASSUME Inv, NEW q \in Request, Enter(q) PROVE Inv'
  <1> DEFINE r == [guard[q] EXCEPT !.step = "get"]
  <1>1. /\ guard[q].step = "idle" /\ Become(q, r) /\ Lookup(q) /\ requests' \in 0..MaxRequests
        /\ UNCHANGED <<clock, bucket, ghosts>>
    BY Bounds DEF Enter, Goto, Inv, ThrottleInv, Counted
  <1>2. SettingsInv' /\ get'[q].step # "idle" /\ \A p \in Request \ {q} : get'[p] = get[p]
    BY <1>1, LookupInv DEF Inv
  <1>3. r \in Guard /\ r.step = "get" /\ r.now = guard[q].now
    BY OfRequest DEF Guard
  <1>4. InOrder(r, get'[q], clock, lastFailure')
    BY <1>2, <1>3, OfRequest DEF InOrder, AtLimiter, Failing
  <1> HIDE DEF r
  <1>5. GuardInOrder' /\ guard'[q] = r /\ Others(q)
    BY <1>1, <1>2, <1>4, OnlyOne DEF ghosts
  <1>6. BucketFits' /\ UsedBucketStays' /\ OneResyncs'
    BY <1>1, <1>3, <1>5, BucketLeft DEF ghosts, counts
  <1>7. Counted'
    <2>1. q \notin raced /\ raced \subseteq Request /\ \A o \in raced : Passed(o)
      BY <1>1 DEF Inv, ThrottleInv, Counted, Passed
    <2>2. raced' = raced
      BY <1>1 DEF ghosts
    <2>3. raced' \subseteq {o \in Request : Passed(o)'}
      BY <1>5, <2>1, <2>2, RacedStay
    <2> QED
      BY <1>1, <2>3 DEF Inv, ThrottleInv, Counted, ghosts, counts
  <1> QED
    BY <1>2, <1>5, <1>6, <1>7 DEF Inv, ThrottleInv

\* A request goes on, and nothing else changes.
LEMMA GoesOn ==
    ASSUME Inv, NEW q \in Request, NEW r, Become(q, r),
           UNCHANGED <<clock, bucket, requests, ghosts, settingsVars>>,
           InOrder(r, get[q], clock, lastFailure), r.step \notin {"burst", "reserve", "cancel"},
           q \notin raced
    PROVE  Inv'
  <1>1. SettingsInv' /\ get' = get
    BY SettingsUnchanged DEF Inv, settingsVars
  <1>2. GuardInOrder' /\ guard'[q] = r /\ Others(q)
    BY <1>1, OnlyOne DEF ghosts
  <1>3. BucketFits' /\ UsedBucketStays' /\ OneResyncs'
    BY <1>2, BucketLeft DEF ghosts, counts
  <1>4. Counted'
    <2>1. raced' = raced /\ raced \subseteq Request /\ \A o \in raced : Passed(o)
      BY DEF Inv, ThrottleInv, Counted, ghosts
    <2>2. raced' \subseteq {o \in Request : Passed(o)'}
      BY <1>2, <2>1, RacedStay
    <2> QED
      BY <2>2 DEF Inv, ThrottleInv, Counted, ghosts, counts
  <1> QED
    BY <1>1, <1>2, <1>3, <1>4 DEF Inv, ThrottleInv

LEMMA ReadPeekInv == ASSUME Inv, NEW q \in Request, ReadPeek(q) PROVE Inv'
  <1>1. /\ guard[q].step = "get" /\ get[q].step = "done"
        /\ UNCHANGED <<clock, bucket, requests, ghosts, settingsVars>>
    BY DEF ReadPeek
  <1>2. q \notin raced
    BY <1>1 DEF Inv, ThrottleInv, Counted, Passed
  <1>3. CASE Limited(q)
    <2> DEFINE r == [guard[q] EXCEPT !.step = "look", !.now = clock]
    <2>1. Become(q, r)
      BY <1>3 DEF ReadPeek, Read
    <2>2. r \in Guard /\ r.step = "look" /\ r.now = clock
      BY OfRequest DEF Guard, AtLimiter
    <2>3. InOrder(r, get[q], clock, lastFailure)
      BY <1>1, <1>3, <2>2, OfRequest, Bounds DEF InOrder, AtLimiter, Failing, Recent, Limited, Limit
    <2> HIDE DEF r
    <2> QED
      BY <1>1, <1>2, <2>1, <2>2, <2>3, GoesOn
  <1>4. CASE ~Limited(q)
    <2> DEFINE r == [guard[q] EXCEPT !.step = "handle"]
    <2>1. Become(q, r)
      BY <1>4 DEF ReadPeek, Goto
    <2>2. r \in Guard /\ r.step = "handle" /\ r.now = guard[q].now
      BY OfRequest DEF Guard, AtLimiter
    <2>3. InOrder(r, get[q], clock, lastFailure)
      BY <1>1, <2>2, OfRequest DEF InOrder, AtLimiter, Failing
    <2> HIDE DEF r
    <2> QED
      BY <1>1, <1>2, <2>1, <2>2, <2>3, GoesOn
  <1> QED
    BY <1>3, <1>4

LEMMA LetInInv == ASSUME Inv, NEW q \in Request, LetIn(q) PROVE Inv'
  <1> DEFINE r == [guard[q] EXCEPT !.step = "handle"]
  <1>1. /\ guard[q].step = "look" /\ Become(q, r)
        /\ UNCHANGED <<clock, bucket, requests, ghosts, settingsVars>>
    BY DEF LetIn, Goto
  <1>2. q \notin raced
    BY <1>1 DEF Inv, ThrottleInv, Counted, Passed
  <1>3. r \in Guard /\ r.step = "handle" /\ r.now = guard[q].now
    BY OfRequest DEF Guard, AtLimiter
  <1>4. InOrder(r, get[q], clock, lastFailure)
    BY <1>1, <1>3, OfRequest DEF InOrder, AtLimiter, Failing
  <1> HIDE DEF r
  <1> QED
    BY <1>1, <1>2, <1>3, <1>4, GoesOn

LEMMA BlockInv == ASSUME Inv, NEW q \in Request, Block(q) PROVE Inv'
  <1>1. guard[q].step = "look" /\ Finish(q) /\ UNCHANGED <<clock, bucket, requests, ghosts>>
    BY DEF Block
  <1>2. SettingsInv' /\ GuardInOrder' /\ guard'[q] = NoGuard /\ guard'[q].step = "idle" /\ Others(q)
    BY <1>1, Finishes DEF ghosts
  <1>3. BucketFits' /\ UsedBucketStays' /\ OneResyncs'
    BY <1>1, <1>2, BucketLeft DEF ghosts, counts
  <1>4. q \notin raced /\ raced' = raced /\ raced \subseteq Request /\ \A o \in raced : Passed(o)
    BY <1>1 DEF Inv, ThrottleInv, Counted, Passed, ghosts
  <1>5. raced' \subseteq {o \in Request : Passed(o)'}
    BY <1>2, <1>4, RacedStay
  <1>6. Counted'
    BY <1>1, <1>5 DEF Inv, ThrottleInv, Counted, ghosts, counts
  <1> QED
    BY <1>2, <1>3, <1>6 DEF Inv, ThrottleInv

LEMMA LeaveInv == ASSUME Inv, NEW q \in Request, NEW u \in BOOLEAN, Leave(q, u) PROVE Inv'
  <1>1. /\ guard[q].step = "handle" /\ UNCHANGED <<clock, bucket, requests, counts>>
        /\ lastFailure' \in {lastFailure, clock}
        /\ raced \subseteq Request /\ \A o \in raced : Passed(o)
        /\ get[q].step = "done"
    BY OfRequest DEF Leave, Inv, ThrottleInv, Counted, InOrder
  <1>2. CASE u /\ Limited(q)
    <2> DEFINE r == [guard[q] EXCEPT !.step = "bucket", !.now = clock]
    <2>1. Become(q, r) /\ lastFailure' = clock /\ raced' = raced /\ UNCHANGED settingsVars
      BY <1>2 DEF Leave, Costs, Read
    <2>2. SettingsInv' /\ get' = get
      BY <2>1, SettingsUnchanged DEF Inv, settingsVars
    <2>3. r \in Guard /\ r.step = "bucket" /\ r.now = clock
      BY OfRequest DEF Guard, AtLimiter, Failing
    <2>4. InOrder(r, get'[q], clock, lastFailure')
      BY <1>1, <1>2, <2>1, <2>2, <2>3, OfRequest, Bounds DEF InOrder, AtLimiter, Failing, Recent, Limited, Limit
    <2> HIDE DEF r
    <2>5. GuardInOrder' /\ guard'[q] = r /\ Others(q)
      BY <1>1, <2>1, <2>2, <2>4, OnlyOne
    <2>6. BucketFits' /\ UsedBucketStays' /\ OneResyncs'
      BY <1>1, <2>3, <2>5, BucketLeft DEF counts
    <2>7. Passed(q)'
      BY <1>2, <2>2, <2>3, <2>5 DEF Passed, Limited, Limit
    <2>8. raced' \subseteq {o \in Request : Passed(o)'}
      BY <1>1, <2>1, <2>5, <2>7, RacedStay
    <2>9. Counted'
      BY <1>1, <2>1, <2>8, OfRequest DEF Inv, ThrottleInv, Counted, counts
    <2> QED
      BY <2>2, <2>5, <2>6, <2>9 DEF Inv, ThrottleInv
  <1>3. CASE ~(u /\ Limited(q))
    <2>1. Finish(q) /\ lastFailure' = lastFailure /\ raced' = raced \ {q}
      BY <1>3 DEF Leave, Costs
    <2>2. SettingsInv' /\ GuardInOrder' /\ guard'[q] = NoGuard /\ guard'[q].step = "idle" /\ Others(q)
      BY <1>1, <2>1, Finishes
    <2>3. BucketFits' /\ UsedBucketStays' /\ OneResyncs'
      BY <1>1, <2>2, BucketLeft DEF counts
    <2>4. raced' \subseteq {o \in Request : Passed(o)'}
      BY <1>1, <2>1, <2>2, RacedStay
    <2>5. Counted'
      BY <1>1, <2>1, <2>4 DEF Inv, ThrottleInv, Counted, counts
    <2> QED
      BY <2>2, <2>3, <2>5 DEF Inv, ThrottleInv
  <1> QED
    BY <1>2, <1>3

\* What the clocks give is counted.
LEMMA GainsType ==
    ASSUME Inv, NEW n \in Nat, Gains(n), bucket' = None \/ bucket' \in Bucket,
           bucket = None \/ bucket \in Bucket, bucket # None => bucket' # None
    PROVE  gained' \in Nat /\ PutBack \in Nat
  <1> DEFINE back == bucket.last - bucket'.last
  <1>1. gained \in Nat /\ MaxRate \in Nat
    BY MostOf DEF Inv, ThrottleInv, Counted
  <1>2. PutBack \in Nat
    <2>1. CASE bucket = None
      BY <2>1 DEF PutBack
    <2>2. CASE bucket # None
      <3>1. back \in Int
        BY <2>2, OfBucket
      <3> HIDE DEF back
      <3>2. Max({0, back}) \in Nat
        BY <3>1, MaxOfTwo
      <3>3. MaxRate * Max({0, back}) \in Nat
        BY <1>1, <3>2, Rated
      <3>4. PutBack = MaxRate * Max({0, back})
        BY <2>2 DEF PutBack, back
      <3> QED
        BY <3>3, <3>4
    <2> QED
      BY <2>1, <2>2
  <1> QED
    BY <1>1, <1>2 DEF Gains

LEMMA BucketAtInv == ASSUME Inv, NEW q \in Request, BucketAt(q) PROVE Inv'
  <1> DEFINE t == guard[q].now
             d == Synced(bucket, t, Limit(q), None)
             step == IF Differs(bucket, Limit(q), None) THEN "burst" ELSE "reserve"
             r == [guard[q] EXCEPT !.step = step]
  <1>1. /\ guard[q].step = "bucket" /\ MapFree /\ bucket' = d /\ Gains(0)
        /\ renewed' = renewed + Renewal /\ evicted' = None
        /\ UNCHANGED <<clock, requests, lastFailure, taken, settingsVars>>
    BY DEF BucketAt
  <1>2. Become(q, r)
    BY DEF BucketAt, Goto
  <1>3. raced' = raced \cup (Ahead(t) \ {q}) \/ raced' = raced
    BY DEF BucketAt
  <1>4. guard[q].step \in AtLimiter /\ guard[q].step \in Failing
    BY <1>1 DEF AtLimiter, Failing
  <1>5. /\ Recent(t, clock) /\ t <= clock /\ Limit(q) \in Config /\ Limit(q).perMin > 0 /\ Limited(q)
        /\ get[q].step = "done" /\ clock - t <= MaxStall /\ t <= lastFailure /\ lastFailure # None
    BY <1>4, AtTheLimiter
  <1>6. SettingsInv' /\ get' = get
    BY <1>1, SettingsUnchanged DEF Inv, settingsVars
  <1>7. Fits(d, clock) /\ d.seen = t /\ d # None /\ d.seen \in Nat /\ d \in Bucket
    <2>1. clock \in Nat /\ (bucket = None \/ Fits(bucket, clock))
      BY OfRequest, BucketInOrder
    <2>2. Fits(d, clock) /\ d.seen = t
      BY <1>5, <2>1, SyncedFits
    <2> HIDE DEF d
    <2> QED
      BY <2>1, <2>2, OfRequest, FitsType
  <1> HIDE DEF d
  <1>8. step \in {"burst", "reserve"}
    OBVIOUS
  <1> HIDE DEF step
  <1>9. r \in Guard /\ r.step = step /\ r.now = t
    BY <1>8, OfRequest DEF Guard, AtLimiter, Failing
  <1>10. InOrder(r, get'[q], clock, lastFailure')
    BY <1>1, <1>5, <1>6, <1>8, <1>9, OfRequest DEF InOrder, AtLimiter, Failing, Limit
  <1> HIDE DEF r
  <1>11. GuardInOrder' /\ guard'[q] = r /\ Others(q)
    BY <1>1, <1>2, <1>6, <1>10, OnlyOne
  <1>12. BucketFits' /\ UsedBucketStays' /\ OneResyncs'
    <2>1. clock <= d.seen + MaxStall /\ t <= d.seen + MaxStall
      BY <1>5, <1>7, OfRequest, Bounds
    <2>2. \A o \in Request : Stays(guard[o], d)
      BY <1>7, <2>1, UsersStay
    <2> HIDE DEF t
    <2> QED
      BY <1>1, <1>7, <1>8, <1>9, <1>11, <2>1, <2>2, BucketUsed
  <1>13. Passed(q)'
    BY <1>5, <1>6, <1>8, <1>9, <1>11 DEF Passed, Limited, Limit
  <1>14. raced' \subseteq {o \in Request : Passed(o)'}
    <2>1. raced \subseteq Request /\ \A o \in raced : Passed(o)
      BY DEF Inv, ThrottleInv, Counted
    <2>2. raced' \subseteq Request /\ \A o \in raced' \ {q} : Passed(o)
      BY <1>3, <2>1 DEF Ahead
    <2> QED
      BY <1>11, <1>13, <2>2, RacedStay
  <1>15. gained' \in Nat
    <2>1. bucket = None \/ bucket \in Bucket
      BY BucketInOrder, OfRequest, FitsType
    <2> QED
      BY <1>1, <1>7, <2>1, GainsType
  <1>16. renewed' \in Nat
    <2>1. renewed \in Nat
      BY DEF Inv, ThrottleInv, Counted
    <2>2. Renewal \in Nat
      <3>1. CASE bucket # None \/ evicted = None
        BY <3>1 DEF Renewal
      <3>2. CASE ~(bucket # None \/ evicted = None)
        <4> DEFINE more == bucket'.tokens - Advance(evicted, Earliest)
        <4>1. Fits(evicted, clock) /\ Earliest \in Nat /\ clock \in Nat
          BY <3>2, OfRequest, Bounds DEF Inv, ThrottleInv, BucketFits, Earliest
        <4>2. Advance(evicted, Earliest) \in Int
          BY <4>1, FitsType
        <4>3. more \in Int
          BY <1>1, <1>7, <4>2, OfBucket
        <4>4. Renewal = Max({0, more})
          BY <3>2 DEF Renewal
        <4> HIDE DEF more
        <4> QED
          BY <4>3, <4>4, MaxOfTwo
      <3> QED
        BY <3>1, <3>2
    <2> QED
      BY <1>1, <2>1, <2>2
  <1>17. Counted'
    BY <1>1, <1>14, <1>15, <1>16 DEF Inv, ThrottleInv, Counted
  <1> QED
    BY <1>6, <1>11, <1>12, <1>17 DEF Inv, ThrottleInv

LEMMA SetBurstInv == ASSUME Inv, NEW q \in Request, SetBurst(q) PROVE Inv'
  <1> DEFINE t == guard[q].now
             d == SetBurstAt(bucket, t, Limit(q))
             r == [guard[q] EXCEPT !.step = "reserve"]
  <1>1. /\ guard[q].step = "burst" /\ bucket' = d /\ Gains(0) /\ Become(q, r)
        /\ UNCHANGED <<clock, requests, lastFailure, raced, taken, evicted, renewed, settingsVars>>
    BY DEF SetBurst, Goto
  <1>2. guard[q].step \in AtLimiter /\ guard[q].step \in Failing
    BY <1>1 DEF AtLimiter, Failing
  <1>3. /\ Recent(t, clock) /\ t <= clock /\ Limit(q) \in Config /\ Limit(q).perMin > 0 /\ Limited(q)
        /\ get[q].step = "done" /\ t <= lastFailure /\ lastFailure # None
    BY <1>2, AtTheLimiter
  <1>4. SettingsInv' /\ get' = get
    BY <1>1, SettingsUnchanged DEF Inv, settingsVars
  <1>5. /\ bucket # None /\ Fits(bucket, clock) /\ t <= bucket.seen + MaxStall
        /\ bucket \in Bucket /\ bucket.seen \in Nat
    BY <1>1, InUse
  <1>6. Fits(d, clock) /\ d.seen = bucket.seen /\ d # None /\ d \in Bucket
    <2>1. Fits(d, clock) /\ d.seen = bucket.seen
      BY <1>3, <1>5, OfRequest, SetBurstFits
    <2> HIDE DEF d
    <2> QED
      BY <2>1, OfRequest, FitsType
  <1> HIDE DEF d
  <1>7. r \in Guard /\ r.step = "reserve" /\ r.now = t
    BY OfRequest DEF Guard, AtLimiter, Failing
  <1>8. InOrder(r, get'[q], clock, lastFailure')
    BY <1>1, <1>3, <1>4, <1>7, OfRequest DEF InOrder, AtLimiter, Failing, Limit
  <1> HIDE DEF r
  <1>9. GuardInOrder' /\ guard'[q] = r /\ Others(q)
    BY <1>1, <1>4, <1>8, OnlyOne
  <1>10. BucketFits' /\ UsedBucketStays' /\ OneResyncs'
    <2>1. \A o \in Request : Stays(guard[o], d)
      BY <1>5, <1>6, UsersStay
    <2> HIDE DEF t
    <2> QED
      BY <1>1, <1>5, <1>6, <1>7, <1>9, <2>1, BucketUsed
  <1>11. Passed(q)'
    BY <1>3, <1>4, <1>7, <1>9 DEF Passed, Limited, Limit
  <1>12. raced' \subseteq {o \in Request : Passed(o)'}
    <2>1. raced \subseteq Request /\ \A o \in raced : Passed(o)
      BY DEF Inv, ThrottleInv, Counted
    <2> QED
      BY <1>1, <1>9, <1>11, <2>1, RacedStay
  <1>13. gained' \in Nat
    BY <1>1, <1>5, <1>6, GainsType
  <1>14. Counted'
    BY <1>1, <1>12, <1>13 DEF Inv, ThrottleInv, Counted
  <1> QED
    BY <1>4, <1>9, <1>10, <1>14 DEF Inv, ThrottleInv

LEMMA ReserveInv == ASSUME Inv, NEW q \in Request, Reserve(q) PROVE Inv'
  <1> DEFINE t == guard[q].now
             d == ReserveN(bucket, t)
  <1>1. /\ guard[q].step = "reserve" /\ bucket' = d /\ Gains(0)
        /\ UNCHANGED <<clock, requests, lastFailure, evicted, renewed>>
    BY DEF Reserve
  <1>2. guard[q].step \in AtLimiter /\ guard[q].step \in Failing
    BY <1>1 DEF AtLimiter, Failing
  <1>3. /\ Recent(t, clock) /\ t <= clock /\ Limit(q) \in Config /\ Limit(q).perMin > 0 /\ Limited(q)
        /\ get[q].step = "done" /\ t <= lastFailure /\ lastFailure # None /\ t \in Nat
    BY <1>2, AtTheLimiter, OfRequest
  <1>4. /\ bucket # None /\ Fits(bucket, clock) /\ t <= bucket.seen + MaxStall
        /\ bucket \in Bucket /\ bucket.seen \in Nat
    BY <1>1, InUse
  <1>5. Fits(d, clock) /\ d.seen = bucket.seen /\ d # None /\ d \in Bucket /\ d.lastEvent \in Nat
        /\ d.perMin \in Nat \ {0}
    <2>1. Fits(d, clock) /\ d.seen = bucket.seen
      BY <1>3, <1>4, OfRequest, ReservedFits
    <2> HIDE DEF d
    <2> QED
      BY <2>1, OfRequest, FitsType
  <1>6. gained' \in Nat
    BY <1>1, <1>4, <1>5, GainsType
  <1>7. \A o \in Request : Stays(guard[o], d)
    BY <1>4, <1>5, UsersStay
  <1>8. raced \subseteq Request /\ \A o \in raced : Passed(o)
    BY DEF Inv, ThrottleInv, Counted
  <1>9. CASE d.lastEvent <= t
    <2>1. Finish(q) /\ taken' = taken + 1 /\ raced' = {o \in Request \ {q} : Passed(o)}
      BY <1>9 DEF Reserve
    <2> HIDE DEF d
    <2>2. SettingsInv' /\ GuardInOrder' /\ guard'[q] = NoGuard /\ guard'[q].step = "idle" /\ Others(q)
      BY <1>1, <2>1, Finishes
    <2>3. BucketFits' /\ UsedBucketStays' /\ OneResyncs'
      BY <1>1, <1>4, <1>5, <1>7, <2>2, BucketUsed
    <2>4. raced' \subseteq {o \in Request : Passed(o)'}
      BY <2>1, <2>2, RacedStay
    <2>5. Counted'
      BY <1>1, <1>6, <2>1, <2>4 DEF Inv, ThrottleInv, Counted
    <2> QED
      BY <2>2, <2>3, <2>5 DEF Inv, ThrottleInv
  <1>10. CASE ~(d.lastEvent <= t)
    <2> DEFINE r == [guard[q] EXCEPT !.step = "cancel", !.acts = d.lastEvent, !.perMin = d.perMin]
    <2>1. /\ Become(q, r) /\ raced' = (raced \cup Ahead(t)) \ {q}
          /\ UNCHANGED <<taken, settingsVars>>
      BY <1>10 DEF Reserve
    <2> HIDE DEF d
    <2>2. SettingsInv' /\ get' = get
      BY <2>1, SettingsUnchanged DEF Inv, settingsVars
    <2>3. r \in Guard /\ r.step = "cancel" /\ r.now = t /\ r.acts = d.lastEvent /\ r.perMin = d.perMin
      BY <1>5, OfRequest DEF Guard, AtLimiter, Failing
    <2>4. InOrder(r, get'[q], clock, lastFailure')
      BY <1>1, <1>3, <1>5, <1>10, <2>2, <2>3, OfRequest DEF InOrder, AtLimiter, Failing, Limit
    <2> HIDE DEF r
    <2>5. GuardInOrder' /\ guard'[q] = r /\ Others(q)
      BY <1>1, <2>1, <2>2, <2>4, OnlyOne
    <2>6. BucketFits' /\ UsedBucketStays' /\ OneResyncs'
      <3> HIDE DEF t
      <3> QED
        BY <1>1, <1>4, <1>5, <1>7, <2>3, <2>5, BucketUsed
    <2>7. raced' \subseteq {o \in Request : Passed(o)'}
      <3>1. raced' \subseteq Request /\ q \notin raced' /\ \A o \in raced' \ {q} : Passed(o)
        BY <1>8, <2>1 DEF Ahead
      <3> QED
        BY <2>5, <3>1, RacedStay
    <2>8. Counted'
      BY <1>1, <1>6, <2>1, <2>7 DEF Inv, ThrottleInv, Counted
    <2> QED
      BY <2>2, <2>5, <2>6, <2>8 DEF Inv, ThrottleInv
  <1> QED
    BY <1>9, <1>10

LEMMA OverpaidType ==
    ASSUME NEW b \in Bucket, bucket = b, NEW acts \in Nat, NEW perMin \in Nat
    PROVE  Overpaid(acts, perMin) \in Nat
  <1> DEFINE more == Restored(b, acts, perMin) - Token
  <1>1. more \in Int
    BY RestoredIsInt, Bounds
  <1>2. Overpaid(acts, perMin) = IF bucket' = bucket THEN 0 ELSE Max({0, more})
    BY DEF Overpaid
  <1> HIDE DEF more
  <1> QED
    BY <1>1, <1>2, MaxOfTwo

LEMMA CancelDeniedInv == ASSUME Inv, NEW q \in Request, CancelDenied(q) PROVE Inv'
  <1> DEFINE g == guard[q]
             d == CancelAt(bucket, g.acts, g.perMin, g.now)
  <1>1. /\ guard[q].step = "cancel" /\ bucket' = d /\ Gains(Overpaid(g.acts, g.perMin)) /\ Finish(q)
        /\ UNCHANGED <<clock, requests, lastFailure, raced, taken, evicted, renewed>>
    BY DEF CancelDenied
  <1>2. guard[q].step \in AtLimiter
    BY <1>1 DEF AtLimiter, Failing
  <1>3. /\ Recent(g.now, clock) /\ g.now <= clock /\ g.now \in Nat
        /\ g.acts \in Nat /\ g.acts >= g.now /\ g.perMin \in Nat \ {0}
    BY <1>1, <1>2, AtTheLimiter, OfRequest DEF InOrder
  <1>4. /\ bucket # None /\ Fits(bucket, clock) /\ g.now <= bucket.seen + MaxStall
        /\ bucket \in Bucket /\ bucket.seen \in Nat
    BY <1>1, InUse
  <1>5. Fits(d, clock) /\ d.seen = bucket.seen /\ d # None /\ d \in Bucket
    <2>1. Fits(d, clock) /\ d.seen = bucket.seen
      BY <1>3, <1>4, OfRequest, CancelledFits
    <2> HIDE DEF d
    <2> QED
      BY <2>1, OfRequest, FitsType
  <1>6. gained' \in Nat
    <2>1. Overpaid(g.acts, g.perMin) \in Nat
      BY <1>3, <1>4, OverpaidType
    <2> HIDE DEF d, g
    <2> QED
      BY <1>1, <1>4, <1>5, <2>1, GainsType
  <1>7. \A o \in Request : Stays(guard[o], d)
    BY <1>4, <1>5, UsersStay
  <1>8. raced \subseteq Request /\ q \notin raced /\ \A o \in raced : Passed(o)
    BY <1>1 DEF Inv, ThrottleInv, Counted, Passed
  <1> HIDE DEF d, g
  <1>9. SettingsInv' /\ GuardInOrder' /\ guard'[q] = NoGuard /\ guard'[q].step = "idle" /\ Others(q)
    BY <1>1, Finishes
  <1>10. BucketFits' /\ UsedBucketStays' /\ OneResyncs'
    BY <1>1, <1>4, <1>5, <1>7, <1>9, BucketUsed
  <1>11. raced' \subseteq {o \in Request : Passed(o)'}
    BY <1>1, <1>8, <1>9, RacedStay
  <1>12. Counted'
    BY <1>1, <1>6, <1>11 DEF Inv, ThrottleInv, Counted
  <1> QED
    BY <1>9, <1>10, <1>12 DEF Inv, ThrottleInv

\* A bucket that Cleanup evicts is used by none.
LEMMA CleanupInv == ASSUME Inv, Cleanup PROVE Inv' /\ Fits(bucket, clock) /\ clock > bucket.seen + 2 * MaxStall
  <1>1. /\ MapFree /\ bucket # None /\ clock - bucket.seen > IdleFor
        /\ bucket' = None /\ evicted' = bucket
        /\ UNCHANGED <<clock, guard, requests, lastFailure, raced, taken, gained, renewed, settingsVars>>
    BY DEF Cleanup, Idle
  <1>2. SettingsInv' /\ get' = get
    BY <1>1, SettingsUnchanged DEF Inv, settingsVars
  <1>3. Fits(bucket, clock) /\ clock \in Nat
    BY <1>1, Bounds DEF Inv, ThrottleInv, BucketFits, Counted
  <1>4. bucket.seen \in Nat /\ bucket.last <= bucket.seen + MaxStall /\ bucket.last \in Nat
    BY <1>3, FitsType DEF Fits
  <1>5. clock > bucket.seen + 2 * MaxStall
    BY <1>1, <1>3, <1>4, Bounds
  <1>6. BucketFits'
    BY <1>1, <1>3, <1>4, <1>5, Bounds DEF BucketFits
  <1>7. ASSUME NEW q \in Request PROVE guard[q].step \notin {"burst", "reserve", "cancel"}
    <2>1. SUFFICES ASSUME guard[q].step \in {"burst", "reserve", "cancel"} PROVE FALSE
      OBVIOUS
    <2>2. guard[q].now <= bucket.seen + MaxStall
      BY <2>1, InUse
    <2>3. guard[q].step \in AtLimiter
      BY <2>1 DEF AtLimiter, Failing
    <2>4. clock - guard[q].now <= MaxStall /\ guard[q].now \in Nat
      BY <2>3, AtTheLimiter, OfRequest
    <2> QED
      BY <1>3, <1>4, <1>5, <2>2, <2>4, Bounds
  <1>8. UsedBucketStays' /\ OneResyncs'
    BY <1>1, <1>7 DEF UsedBucketStays, Stays, OneResyncs
  <1>9. GuardInOrder'
    BY <1>1, <1>2 DEF Inv, ThrottleInv, GuardInOrder
  <1>10. raced' \subseteq {q \in Request : Passed(q)'}
    BY <1>1, <1>2 DEF Inv, ThrottleInv, Counted, Passed, Limited, Limit
  <1>11. Counted'
    BY <1>1, <1>10 DEF Inv, ThrottleInv, Counted
  <1> QED
    BY <1>2, <1>3, <1>5, <1>6, <1>8, <1>9, <1>11 DEF Inv, ThrottleInv

LEMMA FitsLater ==
    ASSUME NEW b, NEW s \in Nat, NEW t \in Nat, s <= t, Fits(b, s) PROVE Fits(b, t)
  <1>1. b.last \in Nat /\ b.seen \in Nat
    BY FitsType
  <1> QED
    BY <1>1 DEF Fits

LEMMA TickInv == ASSUME Inv, Tick PROVE Inv'
  <1>1. /\ clock < MaxTime /\ clock' = clock + 1 /\ \A q \in Request : ~Stalled(q)
        /\ UNCHANGED <<bucket, guard, requests, ghosts, settingsVars>>
    BY DEF Tick
  <1>2. SettingsInv' /\ get' = get
    BY <1>1, SettingsUnchanged DEF Inv, settingsVars
  <1>3. clock \in Nat /\ clock' \in 0..MaxTime /\ clock' \in Nat /\ clock <= clock' /\ MaxStall \in Nat
    BY <1>1, Bounds DEF Inv, ThrottleInv, Counted
  <1>4. ASSUME NEW q \in Request PROVE InOrder(guard'[q], get'[q], clock', lastFailure')
    <2>1. InOrder(guard[q], get[q], clock, lastFailure) /\ guard[q].now \in Nat
      BY OfRequest
    <2>2. guard[q].step \in AtLimiter => clock - guard[q].now < MaxStall
      BY <1>1, <1>3, <2>1 DEF Stalled, AtLimiter, Failing
    <2>3. guard'[q] = guard[q] /\ get'[q] = get[q] /\ lastFailure' = lastFailure
      BY <1>1, <1>2 DEF ghosts
    <2>4. InOrder(guard[q], get[q], clock', lastFailure)
      BY <1>1, <1>3, <2>1, <2>2 DEF InOrder, Recent
    <2> QED
      BY <2>3, <2>4
  <1>5. GuardInOrder'
    BY <1>1, <1>4 DEF Inv, ThrottleInv, GuardInOrder
  <1>6. BucketFits'
    <2>1. bucket # None => Fits(bucket, clock')
      BY <1>3, FitsLater DEF Inv, ThrottleInv, BucketFits
    <2>2. evicted # None => bucket = None /\ Fits(evicted, clock') /\ evicted.last + MaxStall <= clock'
      <3>1. SUFFICES ASSUME evicted # None PROVE bucket = None /\ Fits(evicted, clock') /\ evicted.last + MaxStall <= clock'
        OBVIOUS
      <3>2. bucket = None /\ Fits(evicted, clock) /\ evicted.last + MaxStall <= clock
        BY <3>1 DEF Inv, ThrottleInv, BucketFits
      <3>3. evicted.last \in Nat
        BY <1>3, <3>2, FitsType
      <3> QED
        BY <1>3, <3>2, <3>3, FitsLater
    <2>3. bucket' = bucket /\ evicted' = evicted
      BY <1>1 DEF ghosts, counts
    <2> QED
      BY <2>1, <2>2, <2>3 DEF BucketFits
  <1>7. UsedBucketStays' /\ OneResyncs'
    BY <1>1 DEF Inv, ThrottleInv, UsedBucketStays, Stays, OneResyncs
  <1>8. raced' \subseteq {q \in Request : Passed(q)'}
    BY <1>1, <1>2 DEF Inv, ThrottleInv, Counted, Passed, Limited, Limit, ghosts
  <1>9. lastFailure' \in (0..clock') \cup {None}
    BY <1>1, <1>3 DEF Inv, ThrottleInv, Counted, ghosts
  <1>10. Counted'
    BY <1>1, <1>3, <1>8, <1>9 DEF Inv, ThrottleInv, Counted, ghosts, counts
  <1> QED
    BY <1>2, <1>5, <1>6, <1>7, <1>10 DEF Inv, ThrottleInv

\* While settings are read and updated, and while nothing happens, requests stay.
LEMMA SettingsKeep ==
    ASSUME Inv, SettingsInv', UNCHANGED throttleVars,
           \A q \in Request : /\ get[q].step = "done" => get'[q] = get[q]
                              /\ get[q].step = "idle" <=> get'[q].step = "idle"
    PROVE  Inv'
  <1>1. UNCHANGED <<clock, bucket, guard, requests, ghosts>>
    BY DEF throttleVars
  <1>2. ASSUME NEW q \in Request PROVE InOrder(guard[q], get'[q], clock, lastFailure)
    <2>1. InOrder(guard[q], get[q], clock, lastFailure)
      BY OfRequest
    <2> QED
      BY <2>1 DEF InOrder, AtLimiter, Failing
  <1>3. GuardInOrder'
    BY <1>1, <1>2 DEF Inv, ThrottleInv, GuardInOrder, ghosts
  <1>4. BucketFits' /\ UsedBucketStays' /\ OneResyncs'
    BY <1>1 DEF Inv, ThrottleInv, BucketFits, UsedBucketStays, Stays, OneResyncs, ghosts, counts
  <1>5. ASSUME NEW q \in Request, Passed(q) PROVE Passed(q)'
    <2>1. get[q].step = "done"
      BY <1>5, OfRequest DEF Passed, InOrder
    <2> QED
      BY <1>1, <1>5, <2>1 DEF Passed, Limited, Limit
  <1>6. raced' \subseteq {q \in Request : Passed(q)'}
    BY <1>1, <1>5 DEF Inv, ThrottleInv, Counted, ghosts
  <1>7. Counted'
    BY <1>1, <1>6 DEF Inv, ThrottleInv, Counted, ghosts, counts
  <1> QED
    BY <1>3, <1>4, <1>7 DEF Inv, ThrottleInv

-----------------------------------------------------------------------------
\* The invariant of the specification.

LEMMA InitInv == ASSUME Init PROVE Inv
  <1>1. SettingsInv
    BY InitSettingsInv DEF Init
  <1>2. /\ clock = 0 /\ bucket = None /\ guard = [q \in Request |-> NoGuard] /\ requests = 0
        /\ lastFailure = None /\ raced = {}
        /\ taken = 0 /\ gained = 0 /\ evicted = None /\ renewed = 0
        /\ \A q \in Request : get[q] = NoGet
    BY DEF Init, InitSettings
  <1>3. NoGuard \in Guard /\ NoGuard.step = "idle"
    BY DEF NoGuard, Guard
  <1>4. GuardInOrder
    BY <1>2, <1>3, NoGetFits, NoGuardInOrder DEF GuardInOrder
  <1>5. BucketFits /\ UsedBucketStays /\ OneResyncs
    BY <1>2, <1>3 DEF BucketFits, UsedBucketStays, Stays, OneResyncs
  <1>6. Counted
    BY <1>2, Bounds DEF Counted
  <1> QED
    BY <1>1, <1>4, <1>5, <1>6 DEF Inv, ThrottleInv

LEMMA NextInv == ASSUME Inv, [Next]_vars PROVE Inv'
  <1>1. ASSUME NEW q \in Request, GuardStep(q) PROVE Inv'
    BY <1>1, EnterInv, ReadPeekInv, LetInInv, BlockInv, LeaveInv, BucketAtInv, SetBurstInv, ReserveInv,
       CancelDeniedInv DEF GuardStep
  <1>2. CASE Cleanup
    BY <1>2, CleanupInv
  <1>3. CASE Tick
    BY <1>3, TickInv
  <1>4. CASE SettingsStep /\ UNCHANGED throttleVars
    BY <1>4, SettingsStepInv, SettingsKeep DEF Inv
  <1>5. CASE UNCHANGED vars
    <2>1. UNCHANGED settingsVars /\ UNCHANGED throttleVars /\ get' = get
      BY <1>5 DEF vars, settingsVars
    <2>2. SettingsInv'
      BY <2>1, SettingsUnchanged DEF Inv
    <2> QED
      BY <2>1, <2>2, SettingsKeep
  <1> QED
    BY <1>1, <1>2, <1>3, <1>4, <1>5 DEF Next

LEMMA SpecInv == ThrottleSpec => []Inv
  BY InitInv, NextInv, PTL DEF ThrottleSpec

LEMMA InvTypeOK == ASSUME Inv PROVE TypeOK
  <1>1. /\ row \in Config /\ cached \in Config \cup {None} /\ updates \in 0..MaxUpdates
        /\ flushes \in 0..updates /\ overtaken \subseteq Request /\ tainted \in BOOLEAN
    BY DEF Inv, SettingsInv
  <1>2. /\ clock \in 0..MaxTime /\ requests \in 0..MaxRequests /\ lastFailure \in (0..clock) \cup {None}
        /\ taken \in Nat /\ gained \in Nat /\ renewed \in Nat
        /\ raced \subseteq {q \in Request : Passed(q)} /\ clock \in Nat
    BY Bounds DEF Inv, ThrottleInv, Counted
  <1>3. ASSUME NEW b, Fits(b, clock) PROVE b \in BucketRec /\ b.tokens <= Token * MaxBurst
    <2>1. /\ b \in Bucket /\ b.perMin <= MaxRate /\ b.burst <= MaxBurst /\ b.last <= clock /\ b.seen <= clock
          /\ b.tokens <= Token * MaxBurst
      BY <1>3 DEF Fits
    <2>2. /\ b.perMin \in 1..MaxRate /\ b.burst \in 1..MaxBurst /\ b.tokens \in Int
          /\ b.last \in 0..MaxTime /\ b.lastEvent \in Nat /\ b.seen \in 0..MaxTime
      BY <1>2, <2>1, OfBucket, MostOf, Bounds
    <2>3. b = [perMin |-> b.perMin, burst |-> b.burst, tokens |-> b.tokens,
               last |-> b.last, lastEvent |-> b.lastEvent, seen |-> b.seen]
      BY <2>1 DEF Bucket
    <2> QED
      BY <2>1, <2>2, <2>3 DEF BucketRec
  <1>4. /\ bucket # None => bucket \in BucketRec /\ bucket.tokens <= Token * MaxBurst
        /\ evicted # None => bucket = None /\ evicted \in BucketRec
    BY <1>3 DEF Inv, ThrottleInv, BucketFits
  <1>5. ASSUME NEW q \in Request
        PROVE  /\ guard[q].now \in 0..clock /\ guard[q].acts \in Nat
               /\ get[q].step \in {"idle", "read", "store", "done"}
               /\ get[q].step = "idle" <=> guard[q].step = "idle"
               /\ get[q].step \in {"store", "done"} => get[q].value \in Config
               /\ guard[q].step \notin {"idle", "get"} => get[q].step = "done"
               /\ guard[q].step \in {"burst", "reserve", "cancel"} => bucket # None
               /\ \A o \in Request : guard[q].step = "burst" /\ guard[o].step = "burst" => o = q
    <2>1. /\ InOrder(guard[q], get[q], clock, lastFailure) /\ guard[q].now \in Nat /\ guard[q].acts \in Nat
          /\ get[q] \in Call
      BY OfRequest
    <2>2. guard[q].now \in 0..clock /\ get[q].step \in {"idle", "read", "store", "done"}
      BY <1>2, <2>1 DEF InOrder, Call
    <2>3. get[q].step \in {"store", "done"} => get[q].value \in Config
      BY DEF Inv, SettingsInv
    <2>4. guard[q].step \in {"burst", "reserve", "cancel"} => bucket # None
      BY InUse
    <2>5. \A o \in Request : guard[q].step = "burst" /\ guard[o].step = "burst" => o = q
      BY DEF Inv, ThrottleInv, OneResyncs
    <2> QED
      BY <2>1, <2>2, <2>3, <2>4, <2>5 DEF InOrder
  <1> QED
    BY <1>1, <1>2, <1>4, <1>5 DEF TypeOK

\* Type invariant, with what a request may rely on: its call of Get stands where it
\* does, the bucket it works on is in the map until it is done, whatever Cleanup does
\* (limiter.go:117-124), and no refund fills a bucket above the greatest burst.
THEOREM TypeCorrect == ThrottleSpec => []TypeOK
  <1>1. Inv => TypeOK
    BY InvTypeOK
  <1> QED
    BY <1>1, SpecInv, PTL

\* The cached settings are those of the row, but for the two windows that the property
\* names (settings.go:55-82).
THEOREM CacheIsCurrent == ThrottleSpec => []SettingsCurrentUnlessOvertaken
  <1>1. Inv => SettingsCurrentUnlessOvertaken
    BY DEF Inv, SettingsInv
  <1> QED
    BY <1>1, SpecInv, PTL

-----------------------------------------------------------------------------
\* A request past the peek that no other has raced still finds its token.

RaceInv == \A q \in Request : Passed(q) /\ q \notin raced => Allowed(bucket, guard[q].now)

\* A bucket refills with the time, no faster than its rate.
LEMMA Later ==
    ASSUME NEW b \in Bucket, NEW s \in Nat, NEW t \in Nat, s <= t
    PROVE  /\ Advance(b, s) <= Advance(b, t)
           /\ Advance(b, t) <= Advance(b, s) + b.perMin * (t - s) /\ b.perMin * (t - s) \in Nat
  <1>1. b.last \in Nat /\ b.perMin \in Nat /\ Token * b.burst \in Nat /\ t - s \in Nat
    BY OfBucket
  <1>2. Advance(b, s) \in Int /\ Advance(b, t) \in Int /\ Advance(b, b.last) \in Int
        /\ Advance(b, s) <= Token * b.burst /\ Advance(b, b.last) <= Token * b.burst
    BY <1>1, Advanced
  <1>3. b.perMin * (t - s) \in Nat
    BY <1>1, Rated
  <1>4. CASE b.last <= s
    <2>1. Advance(b, t) = IF Token * b.burst <= Advance(b, s) + b.perMin * (t - s)
                          THEN Token * b.burst ELSE Advance(b, s) + b.perMin * (t - s)
      BY <1>4, Onward
    <2> QED
      BY <1>1, <1>2, <1>3, <2>1
  <1>5. CASE t <= b.last
    <2>1. Advance(b, s) = Advance(b, b.last) /\ Advance(b, t) = Advance(b, b.last)
      BY <1>1, <1>5, JustAccessed
    <2> QED
      BY <1>2, <1>3, <2>1
  <1>6. CASE s < b.last /\ b.last < t
    <2> DEFINE most == b.perMin * (t - b.last)
    <2>1. Advance(b, s) = Advance(b, b.last)
      BY <1>1, <1>6, JustAccessed
    <2>2. Advance(b, t) = (IF Token * b.burst <= Advance(b, b.last) + most
                           THEN Token * b.burst ELSE Advance(b, b.last) + most) /\ most \in Nat
      BY <1>1, <1>6, Onward
    <2>3. most <= b.perMin * (t - s)
      <3>1. t - b.last \in Int /\ t - s \in Int /\ t - b.last <= t - s
        BY <1>1, <1>6
      <3> QED
        BY <1>1, <3>1
    <2> HIDE DEF most
    <2> QED
      BY <1>1, <1>2, <1>3, <2>1, <2>2, <2>3
  <1> QED
    BY <1>1, <1>3, <1>4, <1>5, <1>6

\* A bucket that is reset at t to what it had then, or more, still has a token at any
\* time that it had one at.
LEMMA ResetAllows ==
    ASSUME NEW b \in Bucket, NEW d \in Bucket, NEW t \in Nat, d.perMin = b.perMin, d.last = t,
           d.tokens >= Advance(b, t), NEW s \in Nat, Advance(b, s) >= Token
    PROVE  Advance(d, s) >= Token
  <1>1. /\ d.perMin \in Nat /\ d.burst \in Nat \ {0} /\ d.tokens \in Int /\ Token * d.burst \in Nat
        /\ Token \in Nat /\ Refill(d, s) \in Nat
    BY OfBucket, Bounds
  <1>2. Advance(b, s) \in Int /\ Advance(b, t) \in Int
    BY Advanced
  <1>3. Token <= Token * d.burst
    <2>1. Token * 1 <= Token * d.burst /\ Token * 1 = Token
      BY <1>1, Capacity
    <2> QED
      BY <2>1
  <1>4. Advance(d, s) = IF Token * d.burst <= d.tokens + Refill(d, s)
                        THEN Token * d.burst ELSE d.tokens + Refill(d, s)
    BY Advanced
  <1>5. d.tokens + Refill(d, s) >= Token
    <2>1. CASE s <= t
      <3>1. Advance(b, s) <= Advance(b, t)
        BY <2>1, Later
      <3> QED
        BY <1>1, <1>2, <3>1
    <2>2. CASE t < s
      <3>1. Refill(d, s) = b.perMin * (s - t)
        BY <2>2 DEF Refill, Since
      <3>2. Advance(b, s) <= Advance(b, t) + b.perMin * (s - t) /\ b.perMin * (s - t) \in Nat
        BY <2>2, Later
      <3> HIDE DEF Refill
      <3> QED
        BY <1>1, <1>2, <3>1, <3>2
    <2> QED
      BY <2>1, <2>2
  <1> HIDE DEF Refill
  <1> QED
    BY <1>1, <1>3, <1>4, <1>5

\* Whether a request is past the peek, and what it has read, is its own.
LEMMA RaceKept ==
    ASSUME Inv, NEW q \in Request, Others(q), NEW d, bucket' = d,
           Passed(q)' /\ q \notin raced' => Allowed(d, guard'[q].now),
           \A o \in Request \ {q} : Passed(o) /\ o \notin raced' => Allowed(d, guard[o].now)
    PROVE  RaceInv'
  <1>1. ASSUME NEW o \in Request, Passed(o)', o \notin raced' PROVE Allowed(bucket', guard'[o].now)
    <2>1. CASE o = q
      BY <1>1, <2>1
    <2>2. CASE o # q
      <3>1. guard'[o] = guard[o] /\ get'[o] = get[o]
        BY <2>2 DEF Others
      <3>2. Passed(o)
        BY <1>1, <3>1 DEF Passed, Limited, Limit
      <3> QED
        BY <1>1, <2>2, <3>1, <3>2
    <2> QED
      BY <2>1, <2>2
  <1> QED
    BY <1>1 DEF RaceInv

\* What a step makes of its request.
LEMMA Becomes ==
    ASSUME Inv, NEW q \in Request, NEW r, Become(q, r), \A o \in Request \ {q} : get'[o] = get[o]
    PROVE  guard'[q] = r /\ Others(q)
  BY OfRequest DEF Become, Others

LEMMA BecomesIdle ==
    ASSUME Inv, NEW q \in Request, Finish(q)
    PROVE  guard'[q] = NoGuard /\ guard'[q].step = "idle" /\ Others(q) /\ ~Passed(q)'
  <1>1. Become(q, NoGuard) /\ \A o \in Request \ {q} : get'[o] = get[o]
    BY FinishInv DEF Inv, Finish
  <1>2. guard'[q] = NoGuard /\ Others(q)
    BY <1>1, Becomes
  <1> QED
    BY <1>2 DEF NoGuard, Passed

LEMMA RaceGoesOn ==
    ASSUME Inv, RaceInv, NEW q \in Request, Others(q), bucket' = bucket, raced \subseteq raced' \cup {q},
           Passed(q)' => q \in raced' \/ Allowed(bucket, guard'[q].now)
    PROVE  RaceInv'
  BY RaceKept DEF RaceInv

LEMMA RaceEnter ==
    ASSUME Inv, RaceInv, NEW q \in Request, Enter(q) \/ ReadPeek(q) \/ LetIn(q) \/ Block(q)
    PROVE  RaceInv'
  <1>1. bucket' = bucket /\ raced' = raced
    BY DEF Enter, ReadPeek, LetIn, Block, ghosts
  <1>2. CASE Enter(q)
    <2>1. Become(q, [guard[q] EXCEPT !.step = "get"]) /\ \A o \in Request \ {q} : get'[o] = get[o]
      BY <1>2, LookupInv DEF Enter, Goto, Inv
    <2>2. guard'[q].step = "get" /\ Others(q)
      BY <2>1, Becomes, OfRequest DEF Guard
    <2> QED
      BY <1>1, <2>2, RaceGoesOn DEF Passed
  <1>3. CASE ReadPeek(q)
    <2>1. get' = get
      BY <1>3 DEF ReadPeek, settingsVars
    <2>2. CASE Limited(q)
      <3> DEFINE r == [guard[q] EXCEPT !.step = "look", !.now = clock]
      <3>1. Become(q, r)
        BY <1>3, <2>2 DEF ReadPeek, Read
      <3>3. r.step = "look"
        BY OfRequest DEF Guard
      <3> HIDE DEF r
      <3>2. guard'[q].step = "look" /\ Others(q)
        BY <2>1, <3>1, <3>3, Becomes
      <3> QED
        BY <1>1, <3>2, RaceGoesOn DEF Passed
    <2>3. CASE ~Limited(q)
      <3>1. Become(q, [guard[q] EXCEPT !.step = "handle"])
        BY <1>3, <2>3 DEF ReadPeek, Goto
      <3>2. Others(q) /\ ~Passed(q)'
        BY <2>1, <2>3, <3>1, Becomes DEF Passed, Limited, Limit
      <3> QED
        BY <1>1, <3>2, RaceGoesOn
    <2> QED
      BY <2>2, <2>3
  <1>4. CASE LetIn(q)
    <2>1. Become(q, [guard[q] EXCEPT !.step = "handle"]) /\ get' = get /\ Allowed(bucket, guard[q].now)
      BY <1>4 DEF LetIn, Goto, settingsVars
    <2>2. guard'[q].now = guard[q].now /\ Others(q)
      BY <2>1, Becomes, OfRequest DEF Guard
    <2> QED
      BY <1>1, <2>1, <2>2, RaceGoesOn
  <1>5. CASE Block(q)
    <2>1. Others(q) /\ ~Passed(q)'
      BY <1>5, BecomesIdle DEF Block
    <2> QED
      BY <1>1, <2>1, RaceGoesOn
  <1> QED
    BY <1>2, <1>3, <1>4, <1>5

LEMMA AllowedLater ==
    ASSUME Inv, NEW s \in Nat, NEW t \in Nat, s <= t, Allowed(bucket, s) PROVE Allowed(bucket, t)
  <1>1. SUFFICES ASSUME bucket # None PROVE Advance(bucket, t) >= Token
    BY DEF Allowed
  <1>2. bucket \in Bucket /\ Advance(bucket, s) >= Token
    BY <1>1, BucketInOrder, OfRequest DEF Fits, Allowed
  <1>3. Advance(bucket, s) \in Int /\ Advance(bucket, t) \in Int /\ Token \in Int
    BY <1>2, Advanced, Bounds
  <1> QED
    BY <1>2, <1>3, Later

LEMMA RaceLeave ==
    ASSUME Inv, RaceInv, NEW q \in Request, NEW u \in BOOLEAN, Leave(q, u) PROVE RaceInv'
  <1>1. guard[q].step = "handle" /\ bucket' = bucket
    BY DEF Leave
  <1>2. CASE u /\ Limited(q)
    <2> DEFINE r == [guard[q] EXCEPT !.step = "bucket", !.now = clock]
    <2>1. Become(q, r) /\ get' = get /\ raced' = raced
      BY <1>2 DEF Leave, Costs, Read, settingsVars
    <2>7. r.now = clock
      BY OfRequest DEF Guard
    <2> HIDE DEF r
    <2>2. guard'[q].now = clock /\ Others(q)
      BY <2>1, <2>7, Becomes
    <2>3. Passed(q)
      BY <1>1, <1>2 DEF Passed
    <2>4. q \notin raced => Allowed(bucket, guard[q].now)
      BY <2>3 DEF RaceInv
    <2>5. guard[q].now \in Nat /\ clock \in Nat /\ guard[q].now <= clock
      BY OfRequest DEF InOrder
    <2>6. q \notin raced => Allowed(bucket, clock)
      BY <2>4, <2>5, AllowedLater
    <2> QED
      BY <1>1, <2>1, <2>2, <2>6, RaceGoesOn
  <1>3. CASE ~(u /\ Limited(q))
    <2>1. Finish(q) /\ raced' = raced \ {q}
      BY <1>3 DEF Leave, Costs
    <2>2. Others(q) /\ ~Passed(q)'
      BY <2>1, BecomesIdle
    <2> QED
      BY <1>1, <2>1, <2>2, RaceGoesOn
  <1> QED
    BY <1>2, <1>3

LEMMA RaceBucketAt == ASSUME Inv, RaceInv, NEW q \in Request, BucketAt(q) PROVE RaceInv'
  <1> DEFINE t == guard[q].now
             c == Limit(q)
             d == Synced(bucket, t, c, None)
  <1>1. guard[q].step = "bucket" /\ bucket' = d /\ get' = get
    BY DEF BucketAt, settingsVars
  <1>2. guard[q].step \in AtLimiter
    BY <1>1 DEF AtLimiter, Failing
  <1>3. c \in Config /\ c.perMin > 0 /\ Limited(q) /\ t \in Nat
    BY <1>2, AtTheLimiter, OfRequest
  <1>4. guard'[q].now = t /\ Others(q)
    <2> DEFINE step == IF Differs(bucket, Limit(q), None) THEN "burst" ELSE "reserve"
               r    == [guard[q] EXCEPT !.step = step]
    <2>1. Become(q, r)
      BY DEF BucketAt, Goto
    <2>2. r.now = t
      BY OfRequest DEF Guard
    <2> HIDE DEF r
    <2> QED
      BY <1>1, <2>1, <2>2, Becomes
  <1>5. Passed(q)
    BY <1>1, <1>3 DEF Passed
  <1>6. \A o \in Request : guard[o].now \in Nat
    BY OfRequest
  <1>7. CASE bucket = None
    <2>1. d = NewBucket(c, t)
      BY <1>7 DEF Synced
    <2> HIDE DEF d
    <2>2. \A s \in Nat : Advance(d, s) >= Token
      BY <1>3, <2>1, Made
    <2> HIDE DEF t
    <2> QED
      BY <1>1, <1>3, <1>4, <1>6, <2>2, RaceKept DEF Allowed
  <1>8. CASE bucket # None
    <2>1. bucket \in Bucket
      BY <1>8, BucketInOrder DEF Fits
    <2>2. /\ d \in Bucket /\ d.burst = bucket.burst
          /\ IF Differs(bucket, c, None)
             THEN d.perMin = c.perMin /\ d.tokens = Advance(bucket, t) /\ d.last = t
             ELSE d.perMin = bucket.perMin /\ d.tokens = bucket.tokens /\ d.last = bucket.last
      BY <1>3, <2>1, SyncedTo
    <2>3. CASE ~Differs(bucket, c, None)
      <3>1. raced' = raced
        BY <2>3 DEF BucketAt
      <3> HIDE DEF d
      <3>2. \A s \in Nat : Advance(d, s) = Advance(bucket, s)
        BY <2>2, <2>3, SameAdvance
      <3>3. \A s \in Nat : Allowed(bucket, s) => Allowed(d, s)
        BY <1>8, <3>2 DEF Allowed
      <3> HIDE DEF t
      <3> QED
        BY <1>1, <1>3, <1>4, <1>5, <1>6, <3>1, <3>3, RaceKept DEF RaceInv, t
    <2>4. CASE Differs(bucket, c, None)
      <3>1. raced' = raced \cup (Ahead(t) \ {q})
        BY <2>4 DEF BucketAt
      <3> HIDE DEF d
      <3>2. ASSUME NEW s \in Nat, s <= t, Allowed(bucket, s) PROVE Allowed(d, s)
        <4>1. Advance(bucket, s) >= Token
          BY <1>8, <3>2 DEF Allowed
        <4>2. Advance(bucket, s) <= Advance(bucket, t)
          BY <1>3, <2>1, <3>2, Later
        <4>3. Advance(bucket, s) \in Int /\ Advance(bucket, t) \in Int /\ Token \in Int
              /\ Advance(bucket, t) <= Token * bucket.burst
          BY <1>3, <2>1, Advanced, Bounds
        <4>4. Advance(d, s) = IF Token * d.burst <= d.tokens THEN Token * d.burst ELSE d.tokens
          BY <2>2, <2>4, <3>2, JustAccessed
        <4>5. Token * bucket.burst \in Nat /\ Token * d.burst = Token * bucket.burst
          BY <2>1, <2>2, OfBucket
        <4>6. Advance(d, s) >= Token
          BY <2>2, <2>4, <4>1, <4>2, <4>3, <4>4, <4>5
        <4> QED
          BY <4>6 DEF Allowed
      <3>3. ASSUME NEW o \in Request, Passed(o), o \notin raced' PROVE Allowed(d, guard[o].now)
        <4>1. o \notin raced /\ guard[o].now <= t
          <5>1. CASE o = q
            BY <1>3, <1>5, <3>1, <3>3, <5>1 DEF Inv, ThrottleInv, Counted
          <5>2. CASE o # q
            BY <1>3, <1>6, <3>1, <3>3, <5>2 DEF Ahead
          <5> QED
            BY <5>1, <5>2
        <4>2. Allowed(bucket, guard[o].now)
          BY <3>3, <4>1 DEF RaceInv
        <4> QED
          BY <1>6, <3>2, <4>1, <4>2
      <3> QED
        BY <1>1, <1>4, <1>5, <3>3, RaceKept
    <2> QED
      BY <2>3, <2>4
  <1> QED
    BY <1>7, <1>8

LEMMA RaceSetBurst == ASSUME Inv, RaceInv, NEW q \in Request, SetBurst(q) PROVE RaceInv'
  <1> DEFINE t == guard[q].now
             d == SetBurstAt(bucket, t, Limit(q))
             r == [guard[q] EXCEPT !.step = "reserve"]
  <1>1. guard[q].step = "burst" /\ bucket' = d /\ get' = get /\ Become(q, r) /\ raced' = raced
    BY DEF SetBurst, Goto, settingsVars
  <1>2. guard[q].step \in AtLimiter
    BY <1>1 DEF AtLimiter, Failing
  <1>3. Limit(q) \in Config /\ Limit(q) \in Setting /\ Limited(q) /\ t \in Nat
    BY <1>2, AtTheLimiter, OfRequest, Configs
  <1>4. r.now = t
    BY OfRequest DEF Guard
  <1> HIDE DEF r
  <1>5. guard'[q].now = t /\ Others(q)
    BY <1>1, <1>4, Becomes
  <1>6. Passed(q) /\ \A o \in Request : guard[o].now \in Nat
    BY <1>1, <1>3, OfRequest DEF Passed
  <1>7. bucket # None /\ bucket \in Bucket
    BY <1>1, InUse
  <1>8. d \in Bucket /\ d.perMin = bucket.perMin /\ d.tokens = Advance(bucket, t) /\ d.last = t
    BY <1>3, <1>7, SetBurstTo
  <1> HIDE DEF d
  <1>9. ASSUME NEW s \in Nat, Allowed(bucket, s) PROVE Allowed(d, s)
    <2>1. Advance(bucket, s) >= Token
      BY <1>7, <1>9 DEF Allowed
    <2>2. d.tokens >= Advance(bucket, t)
      BY <1>3, <1>7, <1>8, Advanced
    <2>3. Advance(d, s) >= Token
      BY <1>3, <1>7, <1>8, <2>1, <2>2, ResetAllows
    <2> QED
      BY <2>3 DEF Allowed
  <1>10. \A o \in Request : Passed(o) /\ o \notin raced' => Allowed(d, guard[o].now)
    BY <1>1, <1>6, <1>9 DEF RaceInv
  <1> QED
    BY <1>1, <1>5, <1>6, <1>10, RaceKept

\* A failure that goes without taking a token has been raced.
LEMMA DeniedWasRaced ==
    ASSUME Inv, RaceInv, NEW q \in Request, guard[q].step = "reserve",
           NEW o \in Request, Passed(o), o \notin raced, guard[o].now <= guard[q].now
    PROVE  ReserveN(bucket, guard[q].now).lastEvent = guard[q].now
  <1> DEFINE t == guard[q].now
             d == ReserveN(bucket, t)
  <1>1. bucket # None /\ bucket \in Bucket
    BY InUse
  <1>2. t \in Nat /\ guard[o].now \in Nat
    BY OfRequest
  <1>3. Allowed(bucket, guard[o].now)
    BY DEF RaceInv
  <1>4. Allowed(bucket, t)
    BY <1>2, <1>3, AllowedLater
  <1>5. Advance(bucket, t) >= Token /\ Advance(bucket, t) \in Int /\ Token \in Int
    BY <1>1, <1>2, <1>4, Advanced, Bounds DEF Allowed
  <1>6. d.tokens = Advance(bucket, t) - Token /\ (d.lastEvent = t <=> d.tokens >= 0)
    BY <1>1, <1>2, Reserved
  <1> HIDE DEF d, t
  <1>7. d.lastEvent = t
    BY <1>5, <1>6
  <1> QED
    BY <1>7 DEF d, t

LEMMA Granted ==
    ASSUME NEW q, Reserve(q), ReserveN(bucket, guard[q].now).lastEvent <= guard[q].now PROVE Finish(q)
  BY Zenon DEF Reserve

LEMMA RaceReserve == ASSUME Inv, RaceInv, NEW q \in Request, Reserve(q) PROVE RaceInv'
  <1> DEFINE t == guard[q].now
             d == ReserveN(bucket, t)
  <1>1. guard[q].step = "reserve" /\ bucket' = d
    BY DEF Reserve
  <1>2. t \in Nat /\ \A o \in Request : guard[o].now \in Nat
    BY OfRequest
  <1>3. CASE d.lastEvent <= t
    <2>1. Finish(q) /\ raced' = {o \in Request \ {q} : Passed(o)}
      BY <1>3 DEF Reserve
    <2>2. Others(q) /\ ~Passed(q)'
      BY <2>1, BecomesIdle
    <2> HIDE DEF d
    <2> QED
      BY <1>1, <2>1, <2>2, RaceKept
  <1>4. CASE ~(d.lastEvent <= t)
    <2> DEFINE r == [guard[q] EXCEPT !.step = "cancel", !.acts = d.lastEvent, !.perMin = d.perMin]
    <2>1. Become(q, r) /\ raced' = (raced \cup Ahead(t)) \ {q} /\ get' = get
      BY <1>4 DEF Reserve, settingsVars
    <2>2. r.step = "cancel"
      BY OfRequest DEF Guard
    <2> HIDE DEF r
    <2>3. guard'[q].step = "cancel" /\ Others(q)
      BY <2>1, <2>2, Becomes
    <2>4. ASSUME NEW o \in Request \ {q}, Passed(o), o \notin raced' PROVE FALSE
      <3>1. o \notin raced /\ guard[o].now <= t
        BY <1>2, <2>1, <2>4 DEF Ahead
      <3>2. d.lastEvent = t
        BY <1>1, <2>4, <3>1, DeniedWasRaced
      <3> QED
        BY <1>2, <1>4, <3>2
    <2> HIDE DEF d
    <2> QED
      BY <1>1, <2>3, <2>4, RaceKept DEF Passed
  <1> QED
    BY <1>3, <1>4

LEMMA RaceCancelDenied == ASSUME Inv, RaceInv, NEW q \in Request, CancelDenied(q) PROVE RaceInv'
  <1> DEFINE g == guard[q]
             d == CancelAt(bucket, g.acts, g.perMin, g.now)
  <1>1. g.step = "cancel" /\ bucket' = d /\ Finish(q) /\ raced' = raced
    BY DEF CancelDenied
  <1>2. g.step \in AtLimiter
    BY <1>1 DEF AtLimiter, Failing
  <1>3. g.now \in Nat /\ g.acts \in Nat /\ g.acts >= g.now /\ g.perMin \in Nat \ {0}
    BY <1>1, OfRequest DEF InOrder
  <1>4. bucket # None /\ bucket \in Bucket
    BY <1>1, InUse
  <1>5. Others(q) /\ ~Passed(q)' /\ \A o \in Request : guard[o].now \in Nat
    BY <1>1, BecomesIdle, OfRequest
  <1> HIDE DEF g
  <1>6. ASSUME NEW s \in Nat, Allowed(bucket, s) PROVE Allowed(d, s)
    <2>1. Advance(bucket, s) >= Token
      BY <1>4, <1>6 DEF Allowed
    <2>2. CASE d = bucket
      BY <1>6, <2>2
    <2>3. CASE GivenBack(bucket, d, g.acts, g.perMin, g.now)
      <3> HIDE DEF d
      <3>1. Advance(bucket, g.now) \in Int /\ Advance(bucket, g.now) <= Token * bucket.burst
        BY <1>3, <1>4, Advanced
      <3>2. Restored(bucket, g.acts, g.perMin) \in Int /\ Token * bucket.burst \in Nat
        BY <1>3, <1>4, RestoredIsInt, OfBucket
      <3>3. d \in Bucket /\ d.perMin = bucket.perMin /\ d.last = g.now /\ d.tokens >= Advance(bucket, g.now)
        BY <2>3, <3>1, <3>2 DEF GivenBack
      <3>4. Advance(d, s) >= Token
        BY <1>3, <1>4, <2>1, <3>3, ResetAllows
      <3> QED
        BY <3>4 DEF Allowed
    <2> QED
      BY <1>3, <1>4, <2>2, <2>3, Cancelled
  <1> HIDE DEF d
  <1>7. \A o \in Request : Passed(o) /\ o \notin raced' => Allowed(d, guard[o].now)
    BY <1>1, <1>5, <1>6 DEF RaceInv
  <1> QED
    BY <1>1, <1>5, <1>7, RaceKept

LEMMA RaceNext == ASSUME Inv, RaceInv, [Next]_vars PROVE RaceInv'
  <1>1. ASSUME NEW q \in Request, GuardStep(q) PROVE RaceInv'
    BY <1>1, RaceEnter, RaceLeave, RaceBucketAt, RaceSetBurst, RaceReserve, RaceCancelDenied DEF GuardStep
  <1>2. CASE Cleanup
    BY <1>2 DEF Cleanup, RaceInv, Allowed
  <1>3. CASE Tick
    BY <1>3 DEF Tick, RaceInv, Passed, Limited, Limit, settingsVars, ghosts
  <1>4. ASSUME UNCHANGED throttleVars,
               \A q \in Request : get[q].step = "done" => get'[q] = get[q],
               \A q \in Request : get[q].step = "idle" <=> get'[q].step = "idle"
        PROVE  RaceInv'
    <2>1. bucket' = bucket /\ guard' = guard /\ raced' = raced
      BY <1>4 DEF throttleVars, ghosts
    <2>2. ASSUME NEW q \in Request, Passed(q)' PROVE Passed(q)
      <3>1. get[q].step = "done"
        BY <2>1, <2>2, OfRequest DEF Passed, InOrder
      <3> QED
        BY <1>4, <2>1, <2>2, <3>1 DEF Passed, Limited, Limit
    <2> QED
      BY <2>1, <2>2 DEF RaceInv
  <1>5. CASE SettingsStep /\ UNCHANGED throttleVars
    BY <1>4, <1>5, SettingsStepInv DEF Inv
  <1>6. CASE UNCHANGED vars
    BY <1>4, <1>6 DEF vars, settingsVars
  <1> QED
    BY <1>1, <1>2, <1>3, <1>5, <1>6 DEF Next

\* A failure goes without taking a token only if another one came between its peek and
\* it: as long as none did, the bucket has the token that the peek has seen, however the
\* limits are changed and the bucket is evicted and made anew (throttle.go:48-52).
THEOREM UnpaidIsRaced == ThrottleSpec => UnpaidOnlyIfRaced
  <1>1. Init => RaceInv
    BY DEF Init, RaceInv, Allowed
  <1>2. Inv /\ RaceInv /\ [Next]_vars => RaceInv'
    BY RaceNext
  <1>3. Inv /\ RaceInv /\ [Next]_vars =>
            [\A q \in Request : guard[q].step = "reserve" /\ guard'[q].step = "cancel" => q \in raced]_vars
    <2>1. SUFFICES ASSUME Inv, RaceInv, Next, NEW q \in Request,
                          guard[q].step = "reserve", guard'[q].step = "cancel", q \notin raced
                   PROVE  FALSE
      OBVIOUS
    <2>2. guard' # guard /\ ~(SettingsStep /\ UNCHANGED throttleVars) /\ ~Cleanup /\ ~Tick
      BY <2>1 DEF throttleVars, Cleanup, Tick
    <2>3. PICK o \in Request : GuardStep(o)
      BY <2>1, <2>2 DEF Next
    <2>4. \E r : Become(o, r)
      BY <2>3 DEF GuardStep, Enter, ReadPeek, LetIn, Block, Leave, BucketAt, SetBurst, Reserve, CancelDenied,
                  Goto, Read, Finish
    <2>5. o = q
      BY <2>1, <2>4, OfRequest DEF Become
    <2>6. Reserve(q)
      BY <2>1, <2>3, <2>5 DEF GuardStep, Enter, ReadPeek, LetIn, Block, Leave, BucketAt, SetBurst, CancelDenied
    <2>7. Passed(q)
      <3>1. guard[q].step \in AtLimiter
        BY <2>1 DEF AtLimiter, Failing
      <3> QED
        BY <2>1, <3>1, AtTheLimiter
    <2>8. guard[q].now \in Nat
      BY <2>1, OfRequest
    <2>9. ReserveN(bucket, guard[q].now).lastEvent <= guard[q].now
      BY <2>1, <2>7, <2>8, DeniedWasRaced
    <2>10. Finish(q)
      BY <2>6, <2>9, Granted
    <2>11. guard'[q].step = "idle"
      BY <2>1, <2>10, BecomesIdle
    <2> QED
      BY <2>1, <2>11
  <1> QED
    BY <1>1, <1>2, <1>3, SpecInv, PTL DEF ThrottleSpec, UnpaidOnlyIfRaced

-----------------------------------------------------------------------------
\* How far the bucket may be overdrawn, and for how long.

\* The requests that may still take a token, and what they may overdraw the bucket by:
\* all that are past the peek may have seen the same token, and it may have been there
\* only for the latest of their clock readings.
Ready == {q \in Request : Passed(q)}
Debt  == Cardinality(Request) * Token + MaxRate * MaxStall

\* The bucket has, for whoever comes with the oldest clock reading, a token for every
\* request past the peek, but for the debt; and it was last accessed no later than the
\* last failure.
DebtInv ==
    bucket # None =>
        /\ lastFailure # None /\ bucket.last <= lastFailure
        /\ bucket.tokens + Debt >= Token
        /\ Advance(bucket, Earliest) + Debt >= Token * Cardinality(Ready) + Token

LEMMA DebtIsNat ==
    /\ Debt \in Nat /\ MaxRate * MaxStall \in Nat /\ Cardinality(Request) * Token \in Nat
    /\ Debt = Token * Cardinality(Request) + MaxRate * MaxStall
  <1>1. MaxRate * MaxStall \in Nat /\ Token * Cardinality(Request) \in Nat /\ Token \in Nat
    BY Bounds, MostOf, RequestsFinite, Rated, Capacity
  <1>2. Cardinality(Request) * Token = Token * Cardinality(Request)
    BY <1>1, RequestsFinite
  <1> QED
    BY <1>1, <1>2 DEF Debt

LEMMA ReadyFinite ==
    /\ IsFiniteSet(Ready) /\ Ready \subseteq Request
    /\ \A S \in SUBSET Request : IsFiniteSet(S) /\ Cardinality(S) \in Nat /\ Cardinality(S) <= Cardinality(Request)
    /\ \A S \in SUBSET Ready : Cardinality(S) \in Nat /\ Cardinality(S) <= Cardinality(Ready)
    /\ \A q \in Ready : \A S \in SUBSET (Ready \ {q}) : Cardinality(S) + 1 <= Cardinality(Ready)
  <1>1. Ready \subseteq Request
    BY DEF Ready
  <1>2. \A S \in SUBSET Request : IsFiniteSet(S) /\ Cardinality(S) \in Nat /\ Cardinality(S) <= Cardinality(Request)
    BY RequestsFinite, FS_Subset, FS_CardinalityType
  <1>3. IsFiniteSet(Ready) /\ Cardinality(Ready) \in Nat
    BY <1>1, <1>2
  <1>4. \A S \in SUBSET Ready : Cardinality(S) \in Nat /\ Cardinality(S) <= Cardinality(Ready)
    BY <1>3, FS_Subset, FS_CardinalityType
  <1>5. ASSUME NEW q \in Ready, NEW S \in SUBSET (Ready \ {q}) PROVE Cardinality(S) + 1 <= Cardinality(Ready)
    <2>1. IsFiniteSet(Ready \ {q}) /\ Cardinality(Ready \ {q}) = Cardinality(Ready) - 1
      BY <1>3, <1>5, FS_RemoveElement
    <2>2. Cardinality(S) \in Nat /\ Cardinality(S) <= Cardinality(Ready \ {q})
      BY <2>1, FS_Subset, FS_CardinalityType
    <2> QED
      BY <1>3, <2>1, <2>2
  <1> QED
    BY <1>1, <1>2, <1>3, <1>4, <1>5

LEMMA EarliestIs ==
    ASSUME Inv
    PROVE  /\ Earliest \in Nat /\ Earliest <= clock /\ clock - Earliest <= MaxStall /\ clock \in Nat
           /\ \A t : Recent(t, clock) => t \in Nat /\ Earliest <= t /\ t - Earliest <= MaxStall
  <1>1. clock \in Nat
    BY Bounds DEF Inv, ThrottleInv, Counted
  <1> QED
    BY <1>1, Bounds DEF Earliest, Recent

\* An access at a recent time t leaves the bucket with what it had then.
LEMMA Accessed ==
    ASSUME NEW b \in Bucket, NEW d \in Bucket, NEW e \in Nat, NEW t \in Nat, e <= t, d.last = t,
           NEW n \in Nat, Advance(d, t) >= Token \/ Advance(d, t) + Token * n >= Advance(b, t)
    PROVE  /\ Advance(d, e) >= Token \/ Advance(d, e) + Token * n >= Advance(b, e)
           /\ d.tokens >= Advance(d, e)
  <1>1. Advance(d, e) = Advance(d, t) /\ d.tokens >= Advance(d, e)
    <2>1. Advance(d, d.last) = IF Token * d.burst <= d.tokens THEN Token * d.burst ELSE d.tokens
      BY JustAccessed
    <2>2. Advance(d, e) = Advance(d, d.last) /\ d.tokens \in Int /\ Token * d.burst \in Nat
      BY JustAccessed, OfBucket
    <2> QED
      BY <2>1, <2>2
  <1>2. Advance(b, e) <= Advance(b, t)
    BY Later
  <1>3. /\ Advance(b, e) \in Int /\ Advance(b, t) \in Int /\ Advance(d, e) \in Int /\ Advance(d, t) \in Int
        /\ Token \in Nat /\ Token * n \in Nat
    BY Advanced, Capacity, Bounds
  <1> QED
    BY <1>1, <1>2, <1>3

\* An access leaves a bucket no fewer tokens than it has, or those of its burst.
LEMMA ResetTokens ==
    ASSUME NEW b \in Bucket, NEW d \in Bucket, NEW t \in Nat, d.tokens >= Advance(b, t)
    PROVE  d.tokens >= b.tokens \/ d.tokens >= Token
  <1>1. /\ b.tokens \in Int /\ d.tokens \in Int /\ b.burst \in Nat \ {0} /\ Token * b.burst \in Nat
        /\ Refill(b, t) \in Nat /\ Token \in Nat
    BY OfBucket, Bounds
  <1>2. Token <= Token * b.burst
    <2>1. Token * 1 <= Token * b.burst /\ Token * 1 = Token
      BY <1>1, Capacity
    <2> QED
      BY <2>1
  <1>3. Advance(b, t) = IF Token * b.burst <= b.tokens + Refill(b, t)
                        THEN Token * b.burst ELSE b.tokens + Refill(b, t)
    BY Advanced
  <1> HIDE DEF Refill
  <1> QED
    BY <1>1, <1>2, <1>3

\* Requests past the peek become fewer.
LEMMA OthersReady ==
    ASSUME Inv, NEW q \in Request, Others(q)
    PROVE  /\ Ready' \subseteq Request /\ Ready' \subseteq Ready \cup {q}
           /\ ~Passed(q)' => Ready' \subseteq Ready \ {q}
  BY DEF Others, Ready, Passed, Limited, Limit

\* Some requests are still past the peek, and the bucket is no more overdrawn.
LEMMA DebtKept ==
    ASSUME Inv, DebtInv, Ready' \subseteq Ready, clock' = clock,
           NEW d \in Bucket, bucket' = d, lastFailure' # None, d.last <= lastFailure',
           \/ bucket # None /\ d.tokens >= bucket.tokens
           \/ d.tokens >= Token,
           \/ bucket # None /\ Advance(d, Earliest) >= Advance(bucket, Earliest)
           \/ Advance(d, Earliest) >= Token
    PROVE  DebtInv'
  <1> DEFINE n == Cardinality(Ready)
             m == Cardinality(Ready')
             e == Earliest
             v == Advance(d, e)
  <1>1. /\ n \in Nat /\ m \in Nat /\ m <= n /\ Token * m <= Token * n /\ Token * m \in Nat /\ Token * n \in Nat
        /\ Token * n <= Token * Cardinality(Request)
    BY ReadyFinite, RequestsFinite, Capacity
  <1>2. Earliest' = e /\ e \in Nat
    BY EarliestIs DEF Earliest
  <1>3. Debt \in Nat /\ Debt >= Token * Cardinality(Request) /\ Token \in Nat /\ Token * Cardinality(Request) \in Nat
    BY DebtIsNat, Bounds, RequestsFinite, Capacity
  <1>4. d.tokens \in Int /\ v \in Int
    BY <1>2, OfBucket, Advanced
  <1>5. CASE bucket = None
    <2>1. d.tokens >= Token /\ v >= Token
      BY <1>5
    <2> HIDE DEF n, m, v, e
    <2>2. d.tokens + Debt >= Token /\ v + Debt >= Token * m + Token
      BY <1>1, <1>3, <1>4, <2>1
    <2> QED
      BY <1>2, <2>2 DEF DebtInv, m, v, e
  <1>6. CASE bucket # None
    <2>1. bucket.tokens + Debt >= Token /\ Advance(bucket, e) + Debt >= Token * n + Token
      BY <1>6 DEF DebtInv
    <2>2. bucket.tokens \in Int /\ Advance(bucket, e) \in Int
      BY <1>2, <1>6, BucketInOrder, OfBucket, Advanced DEF Fits
    <2>3. (d.tokens >= bucket.tokens \/ d.tokens >= Token) /\ (v >= Advance(bucket, e) \/ v >= Token)
      OBVIOUS
    <2> HIDE DEF n, m, v, e
    <2>4. d.tokens + Debt >= Token
      BY <1>3, <1>4, <2>1, <2>2, <2>3
    <2>5. v + Debt >= Token * m + Token
      BY <1>1, <1>3, <1>4, <2>1, <2>2, <2>3
    <2> QED
      BY <1>2, <2>4, <2>5 DEF DebtInv, m, v, e
  <1> QED
    BY <1>5, <1>6

LEMMA DebtLeft ==
    ASSUME Inv, DebtInv, Ready' \subseteq Ready, UNCHANGED <<clock, bucket>>,
           lastFailure' = lastFailure \/ lastFailure' = clock
    PROVE  DebtInv'
  <1>1. CASE bucket = None
    BY <1>1 DEF DebtInv
  <1>2. CASE bucket # None
    <2>1. bucket \in Bucket /\ bucket.last <= clock /\ clock # None
      BY <1>2, BucketInOrder, NoneIsNothing, Bounds DEF Fits, Inv, ThrottleInv, Counted
    <2>2. bucket.tokens \in Int /\ Advance(bucket, Earliest) \in Int
      BY <2>1, OfBucket, Advanced, EarliestIs
    <2>3. lastFailure' # None /\ bucket.last <= lastFailure'
      BY <1>2, <2>1 DEF DebtInv
    <2> QED
      BY <1>2, <2>1, <2>2, <2>3, DebtKept
  <1> QED
    BY <1>1, <1>2

LEMMA DebtEnter ==
    ASSUME Inv, DebtInv, NEW q \in Request, Enter(q) \/ ReadPeek(q) \/ Block(q) PROVE DebtInv'
  <1>1. UNCHANGED <<clock, bucket>> /\ lastFailure' = lastFailure
    BY DEF Enter, ReadPeek, Block, ghosts
  <1>2. CASE Enter(q)
    <2>1. Become(q, [guard[q] EXCEPT !.step = "get"]) /\ \A o \in Request \ {q} : get'[o] = get[o]
      BY <1>2, LookupInv DEF Enter, Goto, Inv
    <2>2. guard'[q].step = "get" /\ Others(q)
      BY <2>1, Becomes, OfRequest DEF Guard
    <2> QED
      BY <1>1, <2>2, OthersReady, DebtLeft DEF Passed
  <1>3. CASE ReadPeek(q)
    <2>1. get' = get
      BY <1>3 DEF ReadPeek, settingsVars
    <2>2. Others(q) /\ ~Passed(q)'
      <3>1. CASE Limited(q)
        <4> DEFINE r == [guard[q] EXCEPT !.step = "look", !.now = clock]
        <4>1. Become(q, r)
          BY <1>3, <3>1 DEF ReadPeek, Read
        <4>2. r.step = "look"
          BY OfRequest DEF Guard
        <4> HIDE DEF r
        <4> QED
          BY <2>1, <4>1, <4>2, Becomes DEF Passed
      <3>2. CASE ~Limited(q)
        <4>1. Become(q, [guard[q] EXCEPT !.step = "handle"])
          BY <1>3, <3>2 DEF ReadPeek, Goto
        <4> QED
          BY <2>1, <3>2, <4>1, Becomes DEF Passed, Limited, Limit
      <3> QED
        BY <3>1, <3>2
    <2> QED
      BY <1>1, <2>2, OthersReady, DebtLeft
  <1>4. CASE Block(q)
    <2>1. Others(q) /\ ~Passed(q)'
      BY <1>4, BecomesIdle DEF Block
    <2> QED
      BY <1>1, <2>1, OthersReady, DebtLeft
  <1> QED
    BY <1>2, <1>3, <1>4

LEMMA DebtLetIn == ASSUME Inv, DebtInv, NEW q \in Request, LetIn(q) PROVE DebtInv'
  <1>1. /\ guard[q].step = "look" /\ Become(q, [guard[q] EXCEPT !.step = "handle"]) /\ get' = get
        /\ Allowed(bucket, guard[q].now) /\ UNCHANGED <<clock, bucket>> /\ lastFailure' = lastFailure
    BY DEF LetIn, Goto, settingsVars, ghosts
  <1>2. SUFFICES ASSUME bucket # None PROVE DebtInv'
    BY <1>1 DEF DebtInv
  <1>3. Others(q)
    BY <1>1, Becomes
  <1> DEFINE m == Cardinality(Ready')
             N == Cardinality(Request)
             t == guard[q].now
             e == Earliest
             b == bucket
  <1>4. m \in Nat /\ N \in Nat /\ m <= N /\ Token * m <= Token * N /\ Token * m \in Nat /\ Token * N \in Nat
    BY <1>3, OthersReady, ReadyFinite, RequestsFinite, Capacity
  <1>5. Recent(t, clock)
    BY <1>1, AtTheLimiter DEF AtLimiter
  <1>6. e \in Nat /\ t \in Nat /\ e <= t /\ t - e <= MaxStall /\ MaxStall \in Nat /\ t - e \in Nat
    BY <1>5, EarliestIs, Bounds
  <1>7. b \in Bucket /\ b.perMin <= MaxRate /\ MaxRate \in Nat /\ b.perMin \in Nat
    BY <1>2, BucketInOrder, OfBucket, MostOf DEF Fits
  <1>8. Advance(b, t) >= Token /\ Advance(b, t) \in Int /\ Advance(b, e) \in Int /\ Token \in Nat
    BY <1>1, <1>2, <1>6, <1>7, Advanced, Bounds DEF Allowed
  <1>9. Advance(b, t) <= Advance(b, e) + b.perMin * (t - e) /\ b.perMin * (t - e) \in Nat
    BY <1>6, <1>7, Later
  <1>10. b.perMin * (t - e) <= MaxRate * MaxStall /\ MaxRate * MaxStall \in Nat
    <2>1. b.perMin * (t - e) <= MaxRate * (t - e)
      BY <1>6, <1>7, Rated
    <2>2. MaxRate * (t - e) <= MaxRate * MaxStall /\ MaxRate * (t - e) \in Nat
      BY <1>6, <1>7, Rated
    <2> QED
      BY <1>7, <1>9, <2>1, <2>2, DebtIsNat
  <1>11. Debt = Token * N + MaxRate * MaxStall
    BY DebtIsNat
  <1>12. Earliest' = e /\ bucket' = b
    BY <1>1 DEF Earliest
  <1>13. lastFailure' # None /\ b.last <= lastFailure' /\ b.tokens + Debt >= Token
    BY <1>1, <1>2 DEF DebtInv
  <1> HIDE DEF m, N, t, e, b
  <1>14. Advance(b, e) + Debt >= Token * m + Token
    BY <1>4, <1>8, <1>9, <1>10, <1>11
  <1> QED
    BY <1>12, <1>13, <1>14 DEF DebtInv, m

LEMMA DebtLeave == ASSUME Inv, DebtInv, NEW q \in Request, NEW u \in BOOLEAN, Leave(q, u) PROVE DebtInv'
  <1>1. guard[q].step = "handle" /\ UNCHANGED <<clock, bucket>> /\ (lastFailure' = lastFailure \/ lastFailure' = clock)
    BY DEF Leave
  <1>2. CASE u /\ Limited(q)
    <2> DEFINE r == [guard[q] EXCEPT !.step = "bucket", !.now = clock]
    <2>1. Become(q, r) /\ get' = get
      BY <1>2 DEF Leave, Costs, Read, settingsVars
    <2> HIDE DEF r
    <2>2. Others(q)
      BY <2>1, Becomes
    <2>3. q \in Ready
      BY <1>1, <1>2 DEF Ready, Passed
    <2> QED
      BY <1>1, <2>2, <2>3, OthersReady, DebtLeft
  <1>3. CASE ~(u /\ Limited(q))
    <2>1. Finish(q)
      BY <1>3 DEF Leave, Costs
    <2>2. Others(q) /\ ~Passed(q)'
      BY <2>1, BecomesIdle
    <2> QED
      BY <1>1, <2>2, OthersReady, DebtLeft
  <1> QED
    BY <1>2, <1>3

LEMMA DebtBucketAt == ASSUME Inv, DebtInv, NEW q \in Request, BucketAt(q) PROVE DebtInv'
  <1> DEFINE t == guard[q].now
             c == Limit(q)
             d == Synced(bucket, t, c, None)
  <1>1. guard[q].step = "bucket" /\ bucket' = d /\ get' = get /\ clock' = clock /\ lastFailure' = lastFailure
    BY DEF BucketAt, settingsVars
  <1>2. guard[q].step \in AtLimiter /\ guard[q].step \in Failing
    BY <1>1 DEF AtLimiter, Failing
  <1>3. /\ c \in Config /\ c.perMin > 0 /\ Limited(q) /\ t \in Nat /\ Recent(t, clock) /\ Passed(q)
        /\ lastFailure # None /\ t <= lastFailure
    BY <1>1, <1>2, AtTheLimiter, OfRequest
  <1>4. Ready' \subseteq Ready
    <2> DEFINE step == IF Differs(bucket, Limit(q), None) THEN "burst" ELSE "reserve"
               r    == [guard[q] EXCEPT !.step = step]
    <2>1. Become(q, r)
      BY DEF BucketAt, Goto
    <2> HIDE DEF r
    <2>2. Others(q)
      BY <1>1, <2>1, Becomes
    <2> QED
      BY <1>3, <2>2, OthersReady DEF Ready
  <1>5. Earliest \in Nat /\ Earliest <= t
    BY <1>3, EarliestIs
  <1>6. CASE bucket = None
    <2>1. d = NewBucket(c, t)
      BY <1>6 DEF Synced
    <2> HIDE DEF d
    <2>2. d \in Bucket /\ d.last = 0 /\ d.tokens >= Token /\ Advance(d, Earliest) >= Token
      BY <1>3, <1>5, <2>1, Made
    <2>3. 0 <= lastFailure
      BY <1>3 DEF Inv, ThrottleInv, Counted
    <2> QED
      BY <1>1, <1>3, <1>4, <2>2, <2>3, DebtKept
  <1>7. CASE bucket # None
    <2>1. bucket \in Bucket /\ bucket.last <= lastFailure
      BY <1>7, BucketInOrder DEF Fits, DebtInv
    <2>2. /\ d \in Bucket /\ d.burst = bucket.burst
          /\ IF Differs(bucket, c, None)
             THEN d.perMin = c.perMin /\ d.tokens = Advance(bucket, t) /\ d.last = t
             ELSE d.perMin = bucket.perMin /\ d.tokens = bucket.tokens /\ d.last = bucket.last
      BY <1>3, <2>1, SyncedTo
    <2> HIDE DEF d
    <2>3. CASE ~Differs(bucket, c, None)
      <3>1. Advance(d, Earliest) = Advance(bucket, Earliest)
        BY <2>2, <2>3, SameAdvance
      <3>2. bucket.tokens \in Int /\ Advance(bucket, Earliest) \in Int
        BY <1>5, <2>1, OfBucket, Advanced
      <3> QED
        BY <1>1, <1>3, <1>4, <1>7, <2>1, <2>2, <2>3, <3>1, <3>2, DebtKept
    <2>4. CASE Differs(bucket, c, None)
      <3>1. Advance(d, t) = Advance(bucket, t) /\ Advance(bucket, t) \in Int
        <4>1. Advance(d, d.last) = IF Token * d.burst <= d.tokens THEN Token * d.burst ELSE d.tokens
          BY <2>2, JustAccessed
        <4>2. Advance(bucket, t) \in Int /\ Advance(bucket, t) <= Token * bucket.burst
          BY <1>3, <2>1, Advanced
        <4>3. Token * bucket.burst \in Nat /\ Token * d.burst = Token * bucket.burst
          BY <2>1, <2>2, OfBucket
        <4> QED
          BY <2>2, <2>4, <4>1, <4>2, <4>3
      <3>2. Advance(d, t) + Token * 0 >= Advance(bucket, t)
        BY <3>1, Bounds
      <3>3. /\ Advance(d, Earliest) >= Token \/ Advance(d, Earliest) + Token * 0 >= Advance(bucket, Earliest)
            /\ d.tokens >= Advance(d, Earliest) /\ d.last = t
        BY <1>3, <1>5, <2>1, <2>2, <2>4, <3>2, Accessed
      <3>4. /\ Advance(d, Earliest) \in Int /\ Advance(bucket, Earliest) \in Int
            /\ d.tokens \in Int /\ bucket.tokens \in Int /\ Token \in Nat /\ Token * 0 = 0
        BY <1>5, <2>1, <2>2, OfBucket, Advanced, Bounds
      <3>5. Advance(d, Earliest) >= Token \/ Advance(d, Earliest) >= Advance(bucket, Earliest)
        BY <3>3, <3>4
      <3>6. d.tokens >= bucket.tokens \/ d.tokens >= Token
        <4>1. d.tokens >= Advance(bucket, t)
          BY <2>2, <2>4, <3>1
        <4> QED
          BY <1>3, <2>1, <2>2, <4>1, ResetTokens
      <3> QED
        BY <1>1, <1>3, <1>4, <1>7, <2>2, <3>3, <3>5, <3>6, DebtKept
    <2> QED
      BY <2>3, <2>4
  <1> QED
    BY <1>6, <1>7

LEMMA DebtSetBurst == ASSUME Inv, DebtInv, NEW q \in Request, SetBurst(q) PROVE DebtInv'
  <1> DEFINE t == guard[q].now
             d == SetBurstAt(bucket, t, Limit(q))
             r == [guard[q] EXCEPT !.step = "reserve"]
  <1>1. /\ guard[q].step = "burst" /\ bucket' = d /\ get' = get /\ Become(q, r)
        /\ clock' = clock /\ lastFailure' = lastFailure
    BY DEF SetBurst, Goto, settingsVars
  <1>2. guard[q].step \in AtLimiter /\ guard[q].step \in Failing
    BY <1>1 DEF AtLimiter, Failing
  <1>3. /\ Limit(q) \in Setting /\ t \in Nat /\ Recent(t, clock) /\ Passed(q)
        /\ lastFailure # None /\ t <= lastFailure
    BY <1>1, <1>2, AtTheLimiter, OfRequest, Configs
  <1> HIDE DEF r
  <1>4. Ready' \subseteq Ready
    BY <1>1, <1>3, Becomes, OthersReady DEF Ready
  <1>5. Earliest \in Nat /\ Earliest <= t
    BY <1>3, EarliestIs
  <1>6. bucket # None /\ bucket \in Bucket
    BY <1>1, InUse
  <1>7. /\ d \in Bucket /\ d.burst = Burst(Limit(q)) /\ d.tokens = Advance(bucket, t) /\ d.last = t
    BY <1>3, <1>6, SetBurstTo
  <1> HIDE DEF d
  <1>8. /\ Advance(bucket, t) \in Int /\ Token \in Nat /\ d.burst \in Nat \ {0}
        /\ Advance(d, t) = IF Token * d.burst <= d.tokens THEN Token * d.burst ELSE d.tokens
    BY <1>3, <1>6, <1>7, Advanced, JustAccessed, OfBucket, Bounds
  <1>9. Token * d.burst \in Nat /\ Token <= Token * d.burst
    <2>1. Token * 1 <= Token * d.burst /\ Token * 1 = Token /\ Token * d.burst \in Nat
      BY <1>8, Capacity
    <2> QED
      BY <2>1
  <1>10. Advance(d, t) >= Token \/ Advance(d, t) + Token * 0 >= Advance(bucket, t)
    BY <1>7, <1>8, <1>9
  <1>11. /\ Advance(d, Earliest) >= Token \/ Advance(d, Earliest) + Token * 0 >= Advance(bucket, Earliest)
         /\ d.tokens >= Advance(d, Earliest)
    BY <1>3, <1>5, <1>6, <1>7, <1>10, Accessed
  <1>12. Advance(d, Earliest) \in Int /\ Advance(bucket, Earliest) \in Int /\ Token * 0 = 0
    BY <1>5, <1>6, <1>7, Advanced, Bounds
  <1>13. Advance(d, Earliest) >= Token \/ Advance(d, Earliest) >= Advance(bucket, Earliest)
    BY <1>11, <1>12
  <1>14. d.tokens >= bucket.tokens \/ d.tokens >= Token
    <2>1. d.tokens >= Advance(bucket, t)
      BY <1>7, <1>8
    <2> QED
      BY <1>3, <1>6, <1>7, <2>1, ResetTokens
  <1> QED
    BY <1>1, <1>3, <1>4, <1>6, <1>7, <1>13, <1>14, DebtKept

LEMMA DebtReserve == ASSUME Inv, DebtInv, NEW q \in Request, Reserve(q) PROVE DebtInv'
  <1> DEFINE t == guard[q].now
             b == bucket
             d == ReserveN(b, t)
             e == Earliest
             n == Cardinality(Ready)
             m == Cardinality(Ready')
  <1>1. guard[q].step = "reserve" /\ bucket' = d /\ clock' = clock /\ lastFailure' = lastFailure
    BY DEF Reserve
  <1>2. guard[q].step \in AtLimiter /\ guard[q].step \in Failing
    BY <1>1 DEF AtLimiter, Failing
  <1>3. t \in Nat /\ Recent(t, clock) /\ Passed(q) /\ lastFailure # None /\ t <= lastFailure
    BY <1>1, <1>2, AtTheLimiter, OfRequest
  <1>4. e \in Nat /\ e <= t /\ Earliest' = e
    BY <1>1, <1>3, EarliestIs DEF Earliest
  <1>5. b # None /\ b \in Bucket
    BY <1>1, InUse
  <1>6. d \in Bucket /\ d.last = t /\ d.lastEvent \in Nat /\ Advance(d, t) = Advance(b, t) - Token
    BY <1>3, <1>5, Reserved
  <1>7. Others(q) /\ ~Passed(q)'
    <2>1. CASE d.lastEvent <= t
      BY <2>1, Granted, BecomesIdle
    <2>2. CASE ~(d.lastEvent <= t)
      <3> DEFINE r == [guard[q] EXCEPT !.step = "cancel", !.acts = d.lastEvent, !.perMin = d.perMin]
      <3>1. Become(q, r) /\ get' = get
        BY <2>2 DEF Reserve, settingsVars
      <3>2. r.step = "cancel"
        BY OfRequest DEF Guard
      <3> HIDE DEF r
      <3> QED
        BY <3>1, <3>2, Becomes DEF Passed
    <2> QED
      BY <2>1, <2>2
  <1>8. Ready' \subseteq Ready \ {q} /\ q \in Ready
    BY <1>3, <1>7, OthersReady DEF Ready
  <1>9. n \in Nat /\ m \in Nat /\ m + 1 <= n
    <2>1. Ready' \in SUBSET Ready /\ Ready' \in SUBSET (Ready \ {q})
      BY <1>8
    <2>2. Cardinality(Ready) \in Nat
      BY ReadyFinite
    <2> QED
      BY <1>8, <2>1, <2>2, ReadyFinite
  <1> HIDE DEF d, e, n, m
  <1>10. Token * m \in Nat /\ Token * n \in Nat /\ Token * m + Token <= Token * n /\ Token \in Nat
    BY <1>9, Capacity, Bounds
  <1>11. /\ Advance(b, e) \in Int /\ Advance(d, e) \in Int /\ d.tokens \in Int /\ Debt \in Nat
         /\ Advance(b, t) \in Int
    BY <1>3, <1>4, <1>5, <1>6, Advanced, OfBucket, DebtIsNat
  <1>12. Advance(b, e) + Debt >= Token * n + Token
    BY <1>5 DEF DebtInv, e, n
  <1>13. Token * 1 = Token
    BY Bounds
  <1>14. Advance(d, e) >= Token \/ Advance(d, e) + Token >= Advance(b, e)
    <2>1. Advance(d, t) + Token * 1 >= Advance(b, t)
      BY <1>6, <1>10, <1>11, <1>13
    <2>2. Advance(d, e) >= Token \/ Advance(d, e) + Token * 1 >= Advance(b, e)
      BY <1>3, <1>4, <1>5, <1>6, <2>1, Accessed
    <2> QED
      BY <1>13, <2>2
  <1>15. d.tokens >= Advance(d, e)
    <2>1. Advance(d, t) + Token * 1 >= Advance(b, t)
      BY <1>6, <1>10, <1>11, <1>13
    <2> QED
      BY <1>3, <1>4, <1>5, <1>6, <2>1, Accessed
  <1>16. Debt >= Token * n
    <2>1. Token * n <= Token * Cardinality(Request) /\ Debt = Token * Cardinality(Request) + MaxRate * MaxStall
          /\ MaxRate * MaxStall \in Nat /\ Token * Cardinality(Request) \in Nat
      BY ReadyFinite, RequestsFinite, Capacity, DebtIsNat DEF n
    <2> QED
      BY <1>10, <2>1
  <1>17. Advance(d, e) + Debt >= Token * m + Token
    BY <1>10, <1>11, <1>12, <1>14, <1>16
  <1>18. d.tokens + Debt >= Token
    BY <1>10, <1>11, <1>15, <1>17
  <1> QED
    BY <1>1, <1>3, <1>4, <1>6, <1>17, <1>18 DEF DebtInv, m

LEMMA DebtCancelDenied == ASSUME Inv, DebtInv, NEW q \in Request, CancelDenied(q) PROVE DebtInv'
  <1> DEFINE g == guard[q]
             d == CancelAt(bucket, g.acts, g.perMin, g.now)
  <1>1. g.step = "cancel" /\ bucket' = d /\ Finish(q) /\ clock' = clock /\ lastFailure' = lastFailure
    BY DEF CancelDenied
  <1>2. g.step \in AtLimiter /\ g.step \in Failing
    BY <1>1 DEF AtLimiter, Failing
  <1>3. /\ g.now \in Nat /\ g.acts \in Nat /\ g.acts >= g.now /\ g.perMin \in Nat \ {0}
        /\ Recent(g.now, clock) /\ lastFailure # None /\ g.now <= lastFailure
    BY <1>1, <1>2, AtTheLimiter, OfRequest DEF InOrder
  <1>4. bucket # None /\ bucket \in Bucket /\ bucket.last <= lastFailure
    BY <1>1, InUse DEF DebtInv
  <1>5. Ready' \subseteq Ready
    BY <1>1, BecomesIdle, OthersReady
  <1>6. Earliest \in Nat /\ Earliest <= g.now
    BY <1>3, EarliestIs
  <1>7. bucket.tokens \in Int /\ Advance(bucket, Earliest) \in Int
    BY <1>4, <1>6, OfBucket, Advanced
  <1> HIDE DEF g
  <1>8. CASE d = bucket
    <2> HIDE DEF d
    <2> QED
      BY <1>1, <1>3, <1>4, <1>5, <1>7, <1>8, DebtKept
  <1>9. CASE GivenBack(bucket, d, g.acts, g.perMin, g.now)
    <2> HIDE DEF d
    <2>1. Advance(bucket, g.now) \in Int /\ Advance(bucket, g.now) <= Token * bucket.burst
      BY <1>3, <1>4, Advanced
    <2>2. Restored(bucket, g.acts, g.perMin) \in Int /\ Token * bucket.burst \in Nat
      BY <1>3, <1>4, RestoredIsInt, OfBucket
    <2>3. d \in Bucket /\ d.last = g.now /\ d.tokens >= Advance(bucket, g.now) /\ Advance(d, g.now) = d.tokens
      BY <1>9, <2>1, <2>2 DEF GivenBack
    <2>4. Token * 0 = 0 /\ Advance(d, g.now) \in Int /\ Token \in Nat
      BY <1>3, <2>3, Advanced, Bounds
    <2>5. Advance(d, g.now) + Token * 0 >= Advance(bucket, g.now)
      BY <2>1, <2>3, <2>4
    <2>6. /\ Advance(d, Earliest) >= Token \/ Advance(d, Earliest) + Token * 0 >= Advance(bucket, Earliest)
          /\ Advance(d, Earliest) \in Int
      BY <1>3, <1>4, <1>6, <2>3, <2>5, Accessed, Advanced
    <2>7. Advance(d, Earliest) >= Token \/ Advance(d, Earliest) >= Advance(bucket, Earliest)
      BY <1>7, <2>4, <2>6
    <2>8. d.tokens >= bucket.tokens \/ d.tokens >= Token
      BY <1>3, <1>4, <2>3, ResetTokens
    <2> QED
      BY <1>1, <1>3, <1>4, <1>5, <2>3, <2>7, <2>8, DebtKept
  <1> QED
    BY <1>3, <1>4, <1>8, <1>9, Cancelled

LEMMA DebtTick == ASSUME Inv, DebtInv, Tick PROVE DebtInv'
  <1>1. /\ clock' = clock + 1 /\ bucket' = bucket /\ guard' = guard /\ get' = get
        /\ lastFailure' = lastFailure
    BY DEF Tick, ghosts, settingsVars
  <1>2. Ready' = Ready
    BY <1>1 DEF Ready, Passed, Limited, Limit
  <1>3. SUFFICES ASSUME bucket # None PROVE DebtInv'
    BY <1>1 DEF DebtInv
  <1> DEFINE e == Earliest
             f == Earliest'
             n == Cardinality(Ready)
  <1>4. e \in Nat /\ f \in Nat /\ e <= f
    BY <1>1, EarliestIs, Bounds DEF Earliest
  <1>5. bucket \in Bucket
    BY <1>3, BucketInOrder DEF Fits
  <1>6. n \in Nat /\ Token * n \in Nat /\ Debt \in Nat /\ Token \in Nat
    BY ReadyFinite, Capacity, DebtIsNat, Bounds
  <1>7. /\ Advance(bucket, e) <= Advance(bucket, f)
        /\ Advance(bucket, e) \in Int /\ Advance(bucket, f) \in Int
    BY <1>4, <1>5, Later, Advanced
  <1>8. /\ lastFailure # None /\ bucket.last <= lastFailure
        /\ bucket.tokens + Debt >= Token /\ Advance(bucket, e) + Debt >= Token * n + Token
    BY <1>3 DEF DebtInv
  <1> HIDE DEF e, n
  <1>9. Advance(bucket, f) + Debt >= Token * n + Token
    <2> HIDE DEF f
    <2> QED
      BY <1>6, <1>7, <1>8
  <1> QED
    BY <1>1, <1>2, <1>8, <1>9 DEF DebtInv, n

LEMMA DebtNext == ASSUME Inv, DebtInv, [Next]_vars PROVE DebtInv'
  <1>1. ASSUME NEW q \in Request, GuardStep(q) PROVE DebtInv'
    BY <1>1, DebtEnter, DebtLetIn, DebtLeave, DebtBucketAt, DebtSetBurst, DebtReserve, DebtCancelDenied
    DEF GuardStep
  <1>2. CASE Cleanup
    BY <1>2 DEF Cleanup, DebtInv
  <1>3. CASE Tick
    BY <1>3, DebtTick
  <1>4. ASSUME UNCHANGED throttleVars,
               \A q \in Request : get[q].step = "done" => get'[q] = get[q],
               \A q \in Request : get[q].step = "idle" <=> get'[q].step = "idle"
        PROVE  DebtInv'
    <2>1. UNCHANGED <<clock, bucket>> /\ guard' = guard /\ lastFailure' = lastFailure
      BY <1>4 DEF throttleVars, ghosts
    <2>2. ASSUME NEW q \in Request, Passed(q)' PROVE Passed(q)
      <3>1. get[q].step = "done"
        BY <2>1, <2>2, OfRequest DEF Passed, InOrder
      <3> QED
        BY <1>4, <2>1, <2>2, <3>1 DEF Passed, Limited, Limit
    <2>3. Ready' \subseteq Ready
      BY <2>2 DEF Ready
    <2> QED
      BY <2>1, <2>3, DebtLeft
  <1>5. CASE SettingsStep /\ UNCHANGED throttleVars
    BY <1>4, <1>5, SettingsStepInv DEF Inv
  <1>6. CASE UNCHANGED vars
    BY <1>4, <1>6 DEF vars, settingsVars
  <1> QED
    BY <1>1, <1>2, <1>3, <1>5, <1>6 DEF Next

LEMMA OneOf == ASSUME NEW n \in Nat, n >= 1 PROVE Token <= Token * n
  <1>1. Token * 1 <= Token * n /\ Token * 1 = Token
    BY Capacity, Bounds
  <1> QED
    BY <1>1

\* A bucket without a token was accessed recently.
LEMMA BlockedRecently ==
    ASSUME Inv, DebtInv, NEW q \in Request, guard[q].step = "look", ~Allowed(bucket, guard[q].now)
    PROVE  lastFailure # None /\ MinRate * (guard[q].now - lastFailure) < Debt
  <1> DEFINE t == guard[q].now
             b == bucket
             f == lastFailure
             r == MinRate
  <1>1. b # None /\ Advance(b, t) < Token
    <2>1. b # None /\ ~(Advance(b, t) >= Token)
      BY DEF Allowed
    <2>2. t \in Nat /\ b \in Bucket
      BY <2>1, BucketInOrder, OfRequest DEF Fits
    <2> QED
      BY <2>1, <2>2, Advanced, Bounds
  <1>2. f # None /\ b.last <= f /\ b.tokens + Debt >= Token
    BY <1>1 DEF DebtInv
  <1>3. /\ b \in Bucket /\ b.last \in Nat /\ b.tokens \in Int /\ r <= b.perMin /\ b.perMin \in Nat /\ b.burst \in Nat \ {0}
        /\ t \in Nat /\ f \in Nat /\ r \in Nat /\ r > 0
    <2>1. b \in Bucket /\ r <= b.perMin /\ t \in Nat
      BY <1>1, BucketInOrder, OfRequest DEF Fits
    <2>2. f \in Nat
      BY <1>2, Bounds DEF Inv, ThrottleInv, Counted
    <2> QED
      BY <2>1, <2>2, OfBucket, MostOf
  <1>4. Debt \in Nat /\ Debt > 0 /\ Token \in Nat /\ Token > 0
    <2>1. Cardinality(Request) >= 1
      <3>1. {q} \in SUBSET Request /\ Cardinality({q}) = 1
        BY FS_Singleton
      <3> QED
        BY <3>1, ReadyFinite
    <2> DEFINE k == Token * Cardinality(Request)
               l == MaxRate * MaxStall
    <2>2. Token <= k
      BY <2>1, RequestsFinite, OneOf
    <2>3. Debt = k + l /\ l \in Nat /\ k \in Nat /\ Token \in Nat /\ Token > 0
      BY RequestsFinite, Capacity, DebtIsNat, Bounds
    <2> HIDE DEF k, l
    <2> QED
      BY <2>2, <2>3
  <1> HIDE DEF t, b, f, r
  <1>5. CASE t <= f
    <2>1. t - f \in Int /\ t - f <= 0
      BY <1>3, <1>5
    <2>2. r * (t - f) <= 0
      BY <1>3, <2>1
    <2>3. r * (t - f) \in Int
      BY <1>3, <2>1
    <2> QED
      BY <1>2, <1>4, <2>2, <2>3 DEF t, f, r
  <1>6. CASE f < t
    <2>1. b.last <= t /\ t - f \in Nat /\ t - b.last \in Nat /\ t - f <= t - b.last
      BY <1>2, <1>3, <1>6
    <2>2. /\ Advance(b, t) = IF Token * b.burst <= b.tokens + Refill(b, t)
                             THEN Token * b.burst ELSE b.tokens + Refill(b, t)
          /\ Refill(b, t) = b.perMin * (t - b.last) /\ Refill(b, t) \in Nat /\ Token * b.burst \in Nat
      BY <1>3, <2>1, Advanced, OfBucket DEF Refill, Since
    <2>3. Token <= Token * b.burst
      BY <1>3, OneOf
    <2>4. b.tokens + Refill(b, t) < Token
      <3> HIDE DEF Refill
      <3> QED
        BY <1>1, <1>3, <1>4, <2>2, <2>3
    <2>5. r * (t - f) <= r * (t - b.last) /\ r * (t - b.last) <= Refill(b, t)
          /\ r * (t - f) \in Nat /\ r * (t - b.last) \in Nat
      <3>1. r * (t - f) <= r * (t - b.last) /\ r * (t - f) \in Nat /\ r * (t - b.last) \in Nat
        BY <1>3, <2>1, Rated
      <3>2. r * (t - b.last) <= b.perMin * (t - b.last)
        BY <1>3, <2>1, Rated
      <3> QED
        BY <2>2, <3>1, <3>2
    <2> HIDE DEF Refill
    <2>6. r * (t - f) < Debt
      BY <1>2, <1>3, <1>4, <2>2, <2>4, <2>5
    <2> QED
      BY <1>2, <2>6 DEF t, f, r
  <1> QED
    BY <1>3, <1>5, <1>6

\* A request is blocked only if there was a failure, and no longer after the last one
\* than a token for every request at once takes to refill: the failures past the peek
\* together overdraw the bucket by no more than that, and nothing else takes from it
\* (throttle.go:37-45, limiter.go:60-68).
THEOREM BlockingEnds == ThrottleSpec => BlockedOnlyByFailures
  <1>1. Init => DebtInv
    BY DEF Init, DebtInv
  <1>2. Inv /\ DebtInv /\ [Next]_vars => DebtInv'
    BY DebtNext
  <1>3. Inv /\ DebtInv /\ [Next]_vars =>
            [\A q \in Request : guard[q].step = "look" /\ guard'[q].step = "idle" =>
                /\ lastFailure # None
                /\ MinRate * (guard[q].now - lastFailure) <
                      Cardinality(Request) * Token + MaxRate * MaxStall]_vars
    <2>1. SUFFICES ASSUME Inv, DebtInv, Next, NEW q \in Request,
                          guard[q].step = "look", guard'[q].step = "idle"
                   PROVE  lastFailure # None /\ MinRate * (guard[q].now - lastFailure) < Debt
      BY DEF Debt
    <2>2. guard' # guard /\ ~(SettingsStep /\ UNCHANGED throttleVars) /\ ~Cleanup /\ ~Tick
      BY <2>1 DEF throttleVars, Cleanup, Tick
    <2>3. PICK o \in Request : GuardStep(o)
      BY <2>1, <2>2 DEF Next
    <2>4. \E r : Become(o, r)
      BY <2>3 DEF GuardStep, Enter, ReadPeek, LetIn, Block, Leave, BucketAt, SetBurst, Reserve, CancelDenied,
                  Goto, Read, Finish
    <2>5. o = q
      BY <2>1, <2>4, OfRequest DEF Become
    <2>6. LetIn(q) \/ Block(q)
      BY <2>1, <2>3, <2>5 DEF GuardStep, Enter, ReadPeek, Leave, BucketAt, SetBurst, Reserve, CancelDenied
    <2>7. ~LetIn(q)
      <3>1. SUFFICES ASSUME LetIn(q) PROVE FALSE
        OBVIOUS
      <3>2. Become(q, [guard[q] EXCEPT !.step = "handle"]) /\ get' = get
        BY <3>1 DEF LetIn, Goto, settingsVars
      <3>3. guard'[q] = [guard[q] EXCEPT !.step = "handle"]
        BY <2>1, <3>2, Becomes
      <3>4. guard[q] \in Guard
        BY <2>1, OfRequest
      <3> QED
        BY <2>1, <3>3, <3>4 DEF Guard
    <2>8. ~Allowed(bucket, guard[q].now)
      BY <2>6, <2>7 DEF Block
    <2> QED
      BY <2>1, <2>8, BlockedRecently
  <1> QED
    BY <1>1, <1>2, <1>3, SpecInv, PTL DEF ThrottleSpec, BlockedOnlyByFailures

-----------------------------------------------------------------------------
\* How many failures take a token.  The tokens taken, those still to be given back and
\* those that the bucket has, all together are no more than the greatest burst and rate
\* and the time passed allow, whatever time of the last MaxStall ticks the bucket is
\* accessed at next.  A bucket that was evicted still counts, until it is made anew.

Trail      == IF bucket # None THEN bucket ELSE evicted
Out        == {q \in Request : guard[q].step = "cancel"}
Budget     == Token * MaxBurst + gained + renewed
From(b, e) == IF b.last >= e THEN b.last ELSE e

\* A bucket b, accessed at e or later, once n tokens are taken and m may come back.
Paid(b, e, n, m, a) ==
    /\ Token * (n + m) + Lead(b, From(b, e), MaxRate) <= a
    /\ Token * n <= a + MaxRate * From(b, e)
CreditInv ==
    IF Trail = None THEN taken = 0 ELSE Paid(Trail, Earliest, taken, Cardinality(Out), Budget)

LEMMA CreditKept ==
    ASSUME NEW d, d # None, Trail' = d, NEW e, Earliest' = e, NEW n, taken' = n,
           NEW m, Cardinality(Out)' = m, NEW a, Budget' = a, Paid(d, e, n, m, a)
    PROVE  CreditInv'
  <1>1. From(Trail, Earliest)' = From(d, e)
    BY Zenon DEF From
  <1>2. Lead(Trail, From(Trail, Earliest), MaxRate)' = Lead(d, From(d, e), MaxRate)
    BY <1>1, Zenon DEF Lead
  <1>3. Paid(Trail, Earliest, taken, Cardinality(Out), Budget)'
    BY <1>1, <1>2 DEF Paid
  <1> QED
    BY <1>3 DEF CreditInv

LEMMA Sums ==
    ASSUME Inv
    PROVE  /\ taken \in Nat /\ gained \in Nat /\ renewed \in Nat /\ Budget \in Nat /\ Token \in Nat \ {0}
           /\ Token * MaxBurst \in Nat /\ MaxRate \in Nat /\ clock \in Nat
           /\ IsFiniteSet(Out) /\ Cardinality(Out) \in Nat
  <1>1. /\ taken \in Nat /\ gained \in Nat /\ renewed \in Nat /\ Token * MaxBurst \in Nat
        /\ MaxRate \in Nat /\ Token \in Nat \ {0} /\ clock \in Nat
    BY MostOf, Bounds, EarliestIs DEF Inv, ThrottleInv, Counted
  <1>2. Out \in SUBSET Request
    BY DEF Out
  <1> QED
    BY <1>1, <1>2, ReadyFinite DEF Budget

\* Request q joins those that have a token to give back, or leaves them.
LEMMA OutMoves ==
    ASSUME Inv, NEW q \in Request, Others(q)
    PROVE  /\ guard'[q].step = guard[q].step => Out' = Out
           /\ guard'[q].step # "cancel" /\ guard[q].step # "cancel" => Out' = Out
           /\ guard'[q].step = "cancel" /\ guard[q].step # "cancel" =>
                 Cardinality(Out)' = Cardinality(Out) + 1
           /\ guard'[q].step # "cancel" /\ guard[q].step = "cancel" =>
                 Cardinality(Out)' = Cardinality(Out) - 1 /\ Cardinality(Out) >= 1
  <1>1. \A o \in Request \ {q} : guard'[o] = guard[o]
    BY DEF Others
  <1>2. IsFiniteSet(Out)
    BY Sums
  <1>3. ASSUME guard'[q].step = "cancel", guard[q].step # "cancel"
        PROVE  Cardinality(Out)' = Cardinality(Out) + 1
    <2>1. q \notin Out /\ Out' = Out \cup {q}
      BY <1>1, <1>3 DEF Out
    <2> QED
      BY <1>2, <2>1, FS_AddElement
  <1>4. ASSUME guard'[q].step # "cancel", guard[q].step = "cancel"
        PROVE  Cardinality(Out)' = Cardinality(Out) - 1 /\ Cardinality(Out) >= 1
    <2>1. q \in Out /\ Out' = Out \ {q}
      BY <1>1, <1>4 DEF Out
    <2>2. IsFiniteSet(Out \ {q}) /\ Cardinality(Out \ {q}) = Cardinality(Out) - 1
      BY <1>2, <2>1, FS_RemoveElement
    <2>3. Cardinality(Out \ {q}) \in Nat /\ Cardinality(Out) \in Nat
      BY <1>2, <2>2, FS_CardinalityType
    <2> QED
      BY <2>1, <2>2, <2>3
  <1> QED
    BY <1>1, <1>3, <1>4 DEF Out

\* The bucket that counts, there or evicted.
LEMMA OfTrail ==
    ASSUME Inv, NEW b, b = Trail, b # None
    PROVE  /\ b \in Bucket /\ b.perMin \in Nat /\ b.perMin <= MaxRate
           /\ b.last \in Nat /\ b.last <= clock
           /\ bucket = None => From(b, Earliest) = Earliest
  <1>1. Fits(b, clock) /\ clock \in Nat
    <2>1. b = bucket \/ b = evicted
      BY DEF Trail
    <2> QED
      BY <2>1, EarliestIs DEF Inv, ThrottleInv, BucketFits
  <1>2. /\ b \in Bucket /\ b.perMin \in Nat /\ b.perMin <= MaxRate /\ b.last \in Nat /\ b.last <= clock
    BY <1>1, FitsType DEF Fits
  <1>3. ASSUME bucket = None PROVE From(b, Earliest) = Earliest
    <2>1. b.last + MaxStall <= clock
      BY <1>3 DEF Trail, Inv, ThrottleInv, BucketFits
    <2>2. clock - Earliest <= MaxStall /\ Earliest \in Nat /\ clock \in Nat /\ MaxStall \in Nat
      BY EarliestIs, Bounds
    <2>3. b.last <= Earliest
      BY <1>2, <2>1, <2>2 DEF Earliest
    <2> QED
      BY <1>2, <2>2, <2>3 DEF From
  <1> QED
    BY <1>2, <1>3

LEMMA FromIs ==
    ASSUME NEW b \in Bucket, b.perMin <= MaxRate, NEW e \in Nat
    PROVE  /\ From(b, e) \in Nat /\ From(b, e) >= b.last /\ From(b, e) >= e /\ MaxRate * From(b, e) \in Int
           /\ Lead(b, From(b, e), MaxRate) \in Int
           /\ \A n \in Nat, m \in Nat : Token * (n + m) \in Nat /\ Token * n \in Nat
  <1>1. b.last \in Nat /\ MaxRate \in Nat
    BY OfBucket, MostOf
  <1>2. From(b, e) \in Nat /\ From(b, e) >= b.last /\ From(b, e) >= e
    BY <1>1 DEF From
  <1>3. \A n \in Nat, m \in Nat : Token * (n + m) \in Nat /\ Token * n \in Nat
    <2> TAKE n \in Nat, m \in Nat
    <2>1. n + m \in Nat
      OBVIOUS
    <2> QED
      BY <2>1, Capacity
  <1> QED
    BY <1>1, <1>2, <1>3, LeadShrinks, Rated

\* An access at t finds the bucket paid for, once the clock it puts back is counted.
LEMMA PaidAtAccess ==
    ASSUME NEW b \in Bucket, b.perMin <= MaxRate, NEW e \in Nat, NEW n \in Nat, NEW m \in Nat,
           NEW a \in Nat, Paid(b, e, n, m, a), NEW t \in Nat, t >= e,
           NEW g \in Nat, g >= MaxRate * (b.last - t)
    PROVE  /\ Token * (n + m) + Advance(b, t) <= a + g + MaxRate * t
           /\ Token * n <= a + g + MaxRate * t
           /\ Advance(b, t) \in Int /\ MaxRate * t \in Nat
  <1> DEFINE rate == MaxRate
             s    == From(b, e)
  <1>1. /\ rate \in Nat /\ b.last \in Nat /\ s \in Nat /\ s >= b.last /\ Lead(b, s, rate) \in Int
        /\ rate * s \in Int /\ Token * (n + m) \in Nat /\ Token * n \in Nat
    BY FromIs, MostOf, OfBucket
  <1>2. rate * t \in Nat /\ rate * b.last \in Int /\ rate * (b.last - t) = rate * b.last - rate * t
    BY <1>1, Rated
  <1>3. t < s => s = b.last
    BY <1>1 DEF From
  <1>4. Token * (n + m) + Lead(b, s, rate) <= a /\ Token * n <= a + rate * s
    BY DEF Paid
  <1>5. Advance(b, t) \in Int /\ Lead(b, t, rate) = Advance(b, t) - rate * t
    BY Advanced, Zenon DEF Lead
  <1> HIDE DEF s, rate
  <1>6. /\ t >= s => Lead(b, t, rate) <= Lead(b, s, rate)
        /\ t < b.last => Lead(b, t, rate) = Lead(b, b.last, rate) + rate * (b.last - t)
        /\ Lead(b, t, rate) \in Int
    BY <1>1, LeadShrinks DEF rate
  <1>7. g >= rate * (b.last - t)
    BY DEF rate
  <1>8. Lead(b, t, rate) <= Lead(b, s, rate) + g /\ rate * s <= rate * t + g
    <2>1. CASE t >= s
      <3>1. rate * s <= rate * t
        BY <1>1, <2>1, Rated
      <3> QED
        BY <1>1, <1>2, <1>6, <2>1, <3>1
    <2>2. CASE t < s
      <3>1. s = b.last /\ t < b.last
        BY <1>1, <1>3, <2>2
      <3>2. Lead(b, t, rate) = Lead(b, s, rate) + rate * (b.last - t)
        BY <1>6, <3>1
      <3>3. rate * s = rate * b.last
        BY <3>1
      <3> QED
        BY <1>1, <1>2, <1>7, <3>2, <3>3
    <2> QED
      BY <1>1, <2>1, <2>2
  <1>9. Token * (n + m) + Advance(b, t) <= a + g + rate * t /\ Token * n <= a + g + rate * t
    BY <1>1, <1>2, <1>4, <1>5, <1>6, <1>8
  <1> QED
    BY <1>2, <1>5, <1>9 DEF rate

\* And leaves it so, if it is accessed at t.
LEMMA PaidAfterAccess ==
    ASSUME NEW d \in Bucket, NEW e \in Nat, NEW n \in Nat, NEW m \in Nat, NEW a \in Nat,
           NEW t \in Nat, t >= e, d.last = t,
           Token * (n + m) + Advance(d, t) <= a + MaxRate * t, Token * n <= a + MaxRate * t
    PROVE  Paid(d, e, n, m, a)
  <1>1. From(d, e) = t
    BY DEF From
  <1>2. Lead(d, t, MaxRate) = Advance(d, t) - MaxRate * t
    BY Zenon DEF Lead
  <1>3. Advance(d, t) \in Int /\ MaxRate * t \in Nat /\ Token * (n + m) \in Nat
    <2>1. n + m \in Nat
      OBVIOUS
    <2> QED
      BY <2>1, Advanced, MostOf, Rated, Capacity
  <1>4. Token * (n + m) + Lead(d, t, MaxRate) <= a
    BY <1>2, <1>3
  <1> QED
    BY <1>1, <1>4 DEF Paid

\* More may be gained, and less owed.
LEMMA PaidMore ==
    ASSUME NEW b \in Bucket, b.perMin <= MaxRate, NEW e \in Nat, NEW n \in Nat, NEW m \in Nat,
           NEW a \in Nat, Paid(b, e, n, m, a), NEW k \in Nat, k <= m, NEW c \in Nat, c >= a
    PROVE  Paid(b, e, n, k, c)
  <1>1. Token * (n + k) \in Nat /\ Token * (n + m) \in Nat /\ Token * (n + k) <= Token * (n + m)
    <2>1. n + k \in Nat /\ n + m \in Nat /\ n + k <= n + m
      OBVIOUS
    <2> QED
      BY <2>1, Capacity
  <1>2. Lead(b, From(b, e), MaxRate) \in Int /\ MaxRate * From(b, e) \in Int /\ Token * n \in Nat
    BY FromIs
  <1> QED
    BY <1>1, <1>2 DEF Paid

-----------------------------------------------------------------------------
\* Each step keeps the tokens paid for.

LEMMA GainsMore ==
    ASSUME Inv, NEW n \in Nat, Gains(n), NEW b \in Bucket, bucket = b, NEW d \in Bucket, bucket' = d
    PROVE  /\ gained' = gained + PutBack + n /\ PutBack \in Nat /\ PutBack >= MaxRate * (b.last - d.last)
           /\ renewed' = renewed => Budget' = Budget + PutBack + n
  <1> DEFINE back == b.last - d.last
             rate == MaxRate
  <1>1. back \in Int /\ rate \in Nat /\ b # None /\ d # None
    BY OfBucket, MostOf, NoneIsNothing
  <1>2. PutBack = rate * Max({0, back})
    BY <1>1 DEF PutBack
  <1>3. gained' = gained + PutBack + n
    BY DEF Gains
  <1> HIDE DEF back, rate
  <1>4. Max({0, back}) = IF 0 >= back THEN 0 ELSE back
    BY <1>1, MaxOfTwo
  <1>5. Max({0, back}) \in Nat /\ Max({0, back}) >= back
    BY <1>1, <1>4
  <1>6. PutBack \in Nat /\ PutBack >= rate * back
    <2>1. PICK x \in Nat : x = Max({0, back}) /\ x >= back
      BY <1>5
    <2>2. rate * x \in Nat /\ rate * back <= rate * x
      BY <1>1, <2>1, Rated
    <2> QED
      BY <1>1, <1>2, <2>1, <2>2, Rated
  <1>7. renewed' = renewed => Budget' = Budget + PutBack + n
    BY <1>3, <1>6, Sums DEF Budget
  <1> QED
    BY <1>3, <1>6, <1>7 DEF back, rate

\* A step that leaves the bucket, the counts and what is owed alone.
LEMMA CreditUndisturbed ==
    ASSUME Inv, CreditInv, UNCHANGED <<clock, counts>>, Out' = Out,
           Trail' = Trail
    PROVE  CreditInv'
  <1>1. Earliest' = Earliest /\ taken' = taken /\ Cardinality(Out)' = Cardinality(Out) /\ Budget' = Budget
    BY DEF Earliest, counts, Budget
  <1>2. CASE Trail = None
    BY <1>1, <1>2 DEF CreditInv
  <1>3. CASE Trail # None
    BY <1>1, <1>3, CreditKept DEF CreditInv
  <1> QED
    BY <1>2, <1>3

\* A step that accesses the bucket at t, once f more tokens are taken, if those owed
\* and those left are no more than before, but for what is counted as a gain.
LEMMA CreditAccess ==
    ASSUME Inv, CreditInv, NEW b \in Bucket, bucket = b, NEW d \in Bucket, bucket' = d,
           NEW t, Recent(t, clock), d.last = t, clock' = clock, renewed' = renewed,
           NEW x \in Nat, Gains(x),
           NEW f \in {0, 1}, taken' = taken + f, f = 1 => Advance(d, t) >= 0,
           NEW m \in Nat, Cardinality(Out)' = m,
           Token * (taken + f + m) + Advance(d, t) <= Token * (taken + Cardinality(Out)) + Advance(b, t) + x
    PROVE  CreditInv'
  <1> DEFINE n == taken
             o == Cardinality(Out)
             a == Budget
             g == PutBack
  <1>1. b # None /\ d # None /\ Trail = b /\ Trail' = d
    BY NoneIsNothing DEF Trail
  <1>2. b.perMin <= MaxRate /\ Earliest \in Nat /\ t \in Nat /\ t >= Earliest /\ Earliest' = Earliest
    BY <1>1, OfTrail, EarliestIs DEF Earliest
  <1>3. n \in Nat /\ o \in Nat /\ a \in Nat /\ Token \in Nat
    BY Sums
  <1>4. Budget' = a + g + x /\ g \in Nat /\ g >= MaxRate * (b.last - t)
    BY GainsMore
  <1>5. Paid(b, Earliest, n, o, a)
    BY <1>1 DEF CreditInv
  <1>6. taken' = n + f /\ n + f \in Nat /\ n + f + m \in Nat
    BY <1>3
  <1> HIDE DEF n, o, a, g
  <1>7. /\ Token * (n + o) + Advance(b, t) <= a + g + MaxRate * t
        /\ Token * n <= a + g + MaxRate * t
        /\ Advance(b, t) \in Int /\ MaxRate * t \in Nat
    BY <1>2, <1>3, <1>4, <1>5, PaidAtAccess
  <1>8. /\ Token * (n + f + m) \in Nat /\ Token * (n + f) \in Nat /\ Token * (n + f) <= Token * (n + f + m)
        /\ Token * (n + o) \in Nat /\ Token * n \in Nat /\ Advance(d, t) \in Int
    <2>1. n + o \in Nat /\ n + f <= n + f + m
      BY <1>3, <1>6
    <2> QED
      BY <1>2, <1>3, <1>6, <2>1, Capacity, Advanced
  <1>9. Token * (n + f + m) + Advance(d, t) <= Token * (n + o) + Advance(b, t) + x
    BY DEF n, o
  <1>10. Token * (n + f + m) + Advance(d, t) <= a + g + x + MaxRate * t
    BY <1>3, <1>4, <1>7, <1>8, <1>9
  <1>11. Token * (n + f) <= a + g + x + MaxRate * t
    <2>1. CASE f = 0
      <3>1. n + f = n
        BY <1>3, <2>1
      <3> QED
        BY <1>3, <1>4, <1>7, <1>8, <3>1
    <2>2. CASE f = 1
      <3>1. Advance(d, t) >= 0
        BY <2>2
      <3> QED
        BY <1>3, <1>4, <1>7, <1>8, <1>10, <3>1
    <2> QED
      BY <2>1, <2>2
  <1>12. a + g + x \in Nat
    BY <1>3, <1>4
  <1>13. Paid(d, Earliest, n + f, m, a + g + x)
    BY <1>2, <1>6, <1>10, <1>11, <1>12, PaidAfterAccess
  <1> QED
    BY <1>1, <1>2, <1>4, <1>6, <1>13, CreditKept

LEMMA CreditBucketAt == ASSUME Inv, CreditInv, NEW q \in Request, BucketAt(q) PROVE CreditInv'
  <1> DEFINE t == guard[q].now
             d == Synced(bucket, t, Limit(q), None)
             step == IF Differs(bucket, Limit(q), None) THEN "burst" ELSE "reserve"
             r == [guard[q] EXCEPT !.step = step]
  <1>1. /\ guard[q].step = "bucket" /\ bucket' = d /\ Gains(0) /\ renewed' = renewed + Renewal
        /\ taken' = taken /\ clock' = clock /\ get' = get /\ Become(q, r)
    BY DEF BucketAt, Goto, settingsVars
  <1>2. guard[q].step \in AtLimiter
    BY <1>1 DEF AtLimiter, Failing
  <1>3. /\ Recent(t, clock) /\ t \in Nat /\ Limit(q) \in Config /\ Limit(q).perMin > 0 /\ clock \in Nat
    BY <1>2, AtTheLimiter, OfRequest
  <1>4. d \in Bucket /\ d # None
    BY <1>3, BucketInOrder, SyncedFits, NoneIsNothing DEF Fits
  <1>5. Out' = Out /\ Cardinality(Out)' = Cardinality(Out)
    <2>1. r.step = step /\ step # "cancel"
      BY OfRequest DEF Guard
    <2> HIDE DEF r, step
    <2>2. Others(q) /\ guard'[q] = r
      BY <1>1, Becomes
    <2> QED
      BY <1>1, <2>1, <2>2, OutMoves
  <1>6. CASE bucket # None
    <2> DEFINE b == bucket
    <2>1. b \in Bucket /\ b # None
      BY <1>6, BucketInOrder DEF Fits
    <2>2. Renewal = 0 /\ renewed' = renewed
      BY <1>1, <1>6, Sums DEF Renewal
    <2>3. /\ d.burst = b.burst
          /\ IF Differs(b, Limit(q), None)
             THEN d.perMin = Limit(q).perMin /\ d.tokens = Advance(b, t) /\ d.last = t
             ELSE d.perMin = b.perMin /\ d.tokens = b.tokens /\ d.last = b.last
      BY <1>3, <2>1, SyncedTo
    <2> HIDE DEF d, b
    <2>4. CASE Differs(b, Limit(q), None)
      <3>1. Advance(d, t) <= Advance(b, t) /\ Advance(d, t) \in Int /\ Advance(b, t) \in Int
        <4>1. Advance(d, t) = IF Token * d.burst <= d.tokens THEN Token * d.burst ELSE d.tokens
          BY <1>4, <2>3, <2>4, JustAccessed
        <4>2. Advance(b, t) \in Int /\ Advance(d, t) \in Int
          BY <1>3, <1>4, <2>1, Advanced
        <4>3. Token * d.burst \in Nat
          BY <1>4, OfBucket
        <4> QED
          BY <2>3, <2>4, <4>1, <4>2, <4>3
      <3>2. taken' = taken + 0 /\ Cardinality(Out) \in Nat /\ taken + 0 + Cardinality(Out) = taken + Cardinality(Out)
            /\ Token * (taken + Cardinality(Out)) \in Nat
        <4>1. taken \in Nat /\ Cardinality(Out) \in Nat /\ taken + Cardinality(Out) \in Nat
          BY Sums
        <4> QED
          BY <1>1, <4>1, Capacity
      <3>3. Token * (taken + 0 + Cardinality(Out)) + Advance(d, t)
              <= Token * (taken + Cardinality(Out)) + Advance(b, t) + 0
        BY <3>1, <3>2
      <3> QED
        BY <1>1, <1>3, <1>4, <1>5, <2>1, <2>2, <2>3, <2>4, <3>2, <3>3, CreditAccess DEF b
    <2>5. CASE ~Differs(b, Limit(q), None)
      <3> DEFINE e == Earliest
                 n == taken
                 o == Cardinality(Out)
                 a == Budget
                 g == PutBack
      <3>1. Trail = b /\ Trail' = d /\ Earliest' = e /\ taken' = n /\ Cardinality(Out)' = o
        BY <1>1, <1>4, <1>5, <2>1 DEF Trail, Earliest, b
      <3>2. Budget' = a + g + 0 /\ g \in Nat /\ a \in Nat /\ n \in Nat /\ o \in Nat /\ e \in Nat
        BY <1>1, <1>4, <2>1, <2>2, GainsMore, Sums, EarliestIs DEF b
      <3>3. Paid(b, e, n, o, a) /\ b.perMin <= MaxRate
        BY <2>1, <3>1, OfTrail DEF CreditInv
      <3> HIDE DEF e, n, o, a, g
      <3>4. From(d, e) = From(b, e) /\ Advance(d, From(b, e)) = Advance(b, From(b, e))
        BY <2>3, <2>5, SameAdvance DEF From
      <3>5. Paid(b, e, n, o, a + g + 0)
        BY <2>1, <3>2, <3>3, PaidMore
      <3>6. Paid(d, e, n, o, a + g + 0)
        <4>1. Lead(d, From(d, e), MaxRate) = Lead(b, From(b, e), MaxRate)
          BY <3>4, Zenon DEF Lead
        <4> QED
          BY <3>4, <3>5, <4>1, Zenon DEF Paid
      <3> QED
        BY <1>4, <3>1, <3>2, <3>6, CreditKept
    <2> QED
      BY <2>4, <2>5
  <1>7. CASE bucket = None
    <2> DEFINE e == Earliest
               n == taken
               a == Budget
               w == Token * Burst(Limit(q))
    <2>1. d = NewBucket(Limit(q), t)
      BY <1>7 DEF Synced
    <2>2. /\ d.tokens = w /\ d.last = 0 /\ Advance(d, e) = w /\ w <= Token * MaxBurst /\ w >= Token
          /\ e \in Nat
      BY <1>3, <2>1, Made, EarliestIs
    <2>3. /\ n \in Nat /\ a \in Nat /\ Token * MaxBurst \in Nat /\ Token \in Nat \ {0} /\ renewed \in Nat
          /\ gained \in Nat /\ a = Token * MaxBurst + gained + renewed
      BY Sums DEF Budget
    <2>4. w \in Int
      BY <1>4, <2>2, OfBucket
    <2>5. Cardinality(Out) = 0 /\ Cardinality(Out)' = 0
      <3>1. Out = {}
        BY <1>7, InUse DEF Out
      <3> QED
        BY <1>5, <3>1, FS_EmptySet
    <2>6. Trail' = d /\ Trail = evicted /\ Earliest' = e /\ taken' = n /\ gained' = gained
      <3>1. PutBack = 0
        BY <1>7 DEF PutBack
      <3>2. gained' = gained
        BY <1>1, <2>3, <3>1 DEF Gains
      <3> QED
        BY <1>1, <1>4, <1>7, <3>2 DEF Trail, Earliest
    <2>7. Budget' = a + Renewal
      <3>1. Renewal \in Int
        <4>1. CASE evicted = None
          BY <4>1 DEF Renewal
        <4>2. CASE evicted # None
          <5> DEFINE more == w - Advance(evicted, e)
          <5>1. Renewal = Max({0, more})
            BY <1>1, <1>7, <2>2, <4>2 DEF Renewal
          <5>2. more \in Int
            BY <1>7, <2>2, <2>4, <2>6, <4>2, OfTrail, Advanced
          <5> HIDE DEF more
          <5> QED
            BY <5>1, <5>2, MaxOfTwo
        <4> QED
          BY <4>1, <4>2
      <3> QED
        BY <1>1, <2>3, <2>6, <3>1 DEF Budget
    <2>8. From(d, e) = e /\ MaxRate * e \in Nat /\ Lead(d, e, MaxRate) = w - MaxRate * e
      <3>1. MaxRate * e \in Nat
        BY <2>2, MostOf, Rated
      <3>2. From(d, e) = e
        BY <2>2 DEF From
      <3> QED
        BY <2>2, <3>1, <3>2, Zenon DEF Lead
    <2>9. \A k \in Nat : Token * (k + 0) = Token * k /\ Token * k \in Nat /\ Token * 0 = 0
      BY Capacity, Bounds
    <2>10. CASE evicted = None
      <3>1. n = 0 /\ Renewal = 0
        BY <2>6, <2>10 DEF CreditInv, Renewal
      <3> HIDE DEF d, e, a, w
      <3>2. Token * (n + 0) + Lead(d, e, MaxRate) <= a + Renewal /\ Token * n <= a + Renewal + MaxRate * e
        BY <2>2, <2>3, <2>4, <2>8, <2>9, <3>1
      <3>3. Paid(d, e, n, 0, a + Renewal)
        BY <2>8, <3>2 DEF Paid
      <3> QED
        BY <1>4, <2>5, <2>6, <2>7, <3>3, CreditKept
    <2>11. CASE evicted # None
      <3> DEFINE v == evicted
                 more == w - Advance(v, e)
      <3>1. v \in Bucket /\ From(v, e) = e /\ Paid(v, e, n, 0, a)
        BY <1>7, <2>5, <2>6, <2>11, OfTrail DEF CreditInv
      <3>2. Advance(v, e) \in Int /\ Lead(v, e, MaxRate) = Advance(v, e) - MaxRate * e
        BY <2>2, <3>1, Advanced, Zenon DEF Lead
      <3>3. Renewal = Max({0, more}) /\ more \in Int
        BY <1>1, <1>7, <2>2, <2>4, <2>11, <3>2 DEF Renewal
      <3>4. Renewal \in Nat /\ Renewal >= more
        <4> HIDE DEF more
        <4> QED
          BY <3>3, MaxOfTwo
      <3>5. Token * (n + 0) + Lead(v, e, MaxRate) <= a /\ Token * n <= a + MaxRate * e
        BY <3>1 DEF Paid
      <3>6. Token * (n + 0) \in Nat /\ Token * n \in Nat
        BY <2>3, <2>9
      <3> HIDE DEF d, e, a, w, n, v
      <3>7. Token * (n + 0) + Lead(d, e, MaxRate) <= a + Renewal
        BY <2>3, <2>4, <2>8, <3>2, <3>4, <3>5, <3>6
      <3>8. Token * n <= a + Renewal + MaxRate * e
        BY <2>3, <2>8, <3>4, <3>5, <3>6
      <3>9. Paid(d, e, n, 0, a + Renewal)
        BY <2>8, <3>7, <3>8 DEF Paid
      <3> QED
        BY <1>4, <2>5, <2>6, <2>7, <3>9, CreditKept DEF n
    <2> QED
      BY <2>10, <2>11
  <1> QED
    BY <1>6, <1>7

LEMMA CreditSetBurst == ASSUME Inv, CreditInv, NEW q \in Request, SetBurst(q) PROVE CreditInv'
  <1> DEFINE t == guard[q].now
             d == SetBurstAt(bucket, t, Limit(q))
             r == [guard[q] EXCEPT !.step = "reserve"]
  <1>1. /\ guard[q].step = "burst" /\ bucket' = d /\ Gains(0) /\ Become(q, r)
        /\ clock' = clock /\ taken' = taken /\ renewed' = renewed /\ get' = get
    BY DEF SetBurst, Goto, settingsVars
  <1>2. guard[q].step \in AtLimiter
    BY <1>1 DEF AtLimiter, Failing
  <1>3. t \in Nat /\ Recent(t, clock) /\ Limit(q) \in Setting
    BY <1>2, AtTheLimiter, OfRequest, MostOf
  <1>4. bucket \in Bucket
    BY <1>1, InUse
  <1>5. d \in Bucket /\ d.last = t /\ Advance(d, t) <= Advance(bucket, t)
    BY <1>3, <1>4, SetBurstTo
  <1> HIDE DEF d
  <1>6. Cardinality(Out)' = Cardinality(Out)
    <2>1. r.step = "reserve"
      BY OfRequest DEF Guard
    <2> HIDE DEF r
    <2>2. Others(q) /\ guard'[q] = r
      BY <1>1, Becomes
    <2> QED
      BY <1>1, <2>1, <2>2, OutMoves
  <1>7. /\ taken \in Nat /\ Cardinality(Out) \in Nat /\ taken' = taken + 0
        /\ Token * (taken + 0 + Cardinality(Out)) = Token * (taken + Cardinality(Out))
        /\ Token * (taken + Cardinality(Out)) \in Nat
    <2>1. taken \in Nat /\ Cardinality(Out) \in Nat /\ taken + Cardinality(Out) \in Nat
      BY Sums
    <2>2. taken + 0 = taken
      BY <2>1
    <2> QED
      BY <1>1, <2>1, <2>2, Capacity
  <1>8. Token * (taken + 0 + Cardinality(Out)) + Advance(d, t)
          <= Token * (taken + Cardinality(Out)) + Advance(bucket, t) + 0
    <2>1. Advance(d, t) \in Int /\ Advance(bucket, t) \in Int
      BY <1>3, <1>4, <1>5, Advanced
    <2> QED
      BY <1>5, <1>7, <2>1
  <1> QED
    BY <1>1, <1>3, <1>4, <1>5, <1>6, <1>7, <1>8, CreditAccess

LEMMA CreditReserve == ASSUME Inv, CreditInv, NEW q \in Request, Reserve(q) PROVE CreditInv'
  <1> DEFINE t == guard[q].now
             d == ReserveN(bucket, t)
             n == taken
             o == Cardinality(Out)
  <1>1. guard[q].step = "reserve" /\ bucket' = d /\ Gains(0) /\ clock' = clock /\ renewed' = renewed
    BY DEF Reserve
  <1>2. guard[q].step \in AtLimiter
    BY <1>1 DEF AtLimiter, Failing
  <1>3. t \in Nat /\ Recent(t, clock)
    BY <1>2, AtTheLimiter, OfRequest
  <1>4. bucket \in Bucket
    BY <1>1, InUse
  <1>5. d \in Bucket /\ d.last = t /\ d.lastEvent \in Nat
    BY <1>3, <1>4, Reserved
  <1>6. d.lastEvent >= t /\ (d.lastEvent = t <=> d.tokens >= 0) /\ d.tokens = Advance(bucket, t) - Token
    BY <1>3, <1>4, Reserved
  <1>7. Advance(d, t) = Advance(bucket, t) - Token
    BY <1>3, <1>4, Reserved
  <1>8. /\ n \in Nat /\ o \in Nat /\ Token \in Nat /\ Token * (n + o) \in Nat
        /\ Token * (n + 1 + o) = Token * (n + o) + Token
        /\ Token * (n + 0 + (o + 1)) = Token * (n + o) + Token
    <2>1. n \in Nat /\ o \in Nat /\ n + o \in Nat /\ Token \in Nat
      BY Sums
    <2>2. n + 1 + o = (n + o) + 1 /\ n + 0 + (o + 1) = (n + o) + 1
      BY <2>1
    <2> QED
      BY <2>1, <2>2, Capacity
  <1>9. Advance(bucket, t) \in Int /\ Advance(d, t) \in Int
    BY <1>3, <1>4, <1>5, Advanced
  <1>10. CASE d.lastEvent <= t
    <2>1. Finish(q) /\ taken' = n + 1
      BY <1>10 DEF Reserve
    <2>2. Cardinality(Out)' = o
      <3>1. Others(q) /\ guard'[q].step = "idle"
        BY <2>1, BecomesIdle
      <3> QED
        BY <1>1, <3>1, OutMoves
    <2> HIDE DEF d, n, o
    <2>3. Advance(d, t) >= 0
      BY <1>3, <1>5, <1>6, <1>7, <1>10
    <2>4. Token * (n + 1 + o) + Advance(d, t) <= Token * (n + o) + Advance(bucket, t) + 0
      BY <1>7, <1>8, <1>9
    <2> QED
      BY <1>1, <1>3, <1>4, <1>5, <1>8, <2>1, <2>2, <2>3, <2>4, CreditAccess DEF n, o
  <1>11. CASE ~(d.lastEvent <= t)
    <2> DEFINE r == [guard[q] EXCEPT !.step = "cancel", !.acts = d.lastEvent, !.perMin = d.perMin]
    <2>1. Become(q, r) /\ get' = get /\ taken' = taken
      BY <1>11 DEF Reserve, settingsVars
    <2>2. r.step = "cancel"
      BY OfRequest DEF Guard
    <2> HIDE DEF r, d
    <2>3. Others(q) /\ guard'[q] = r
      BY <2>1, Becomes
    <2>4. Cardinality(Out)' = o + 1
      BY <1>1, <2>2, <2>3, OutMoves
    <2> HIDE DEF n, o
    <2>5. taken' = n + 0 /\ o + 1 \in Nat
      BY <1>8, <2>1 DEF n
    <2>6. Token * (n + 0 + (o + 1)) + Advance(d, t) <= Token * (n + o) + Advance(bucket, t) + 0
      BY <1>7, <1>8, <1>9
    <2> QED
      BY <1>1, <1>3, <1>4, <1>5, <2>4, <2>5, <2>6, CreditAccess DEF n, o
  <1> QED
    BY <1>10, <1>11

\* A cancel gives back what is owed, but for what it is overpaid.
LEMMA CreditCancelDenied == ASSUME Inv, CreditInv, NEW q \in Request, CancelDenied(q) PROVE CreditInv'
  <1> DEFINE t == guard[q].now
             acts == guard[q].acts
             perMin == guard[q].perMin
             b == bucket
             d == CancelAt(bucket, acts, perMin, t)
             x == Overpaid(acts, perMin)
             n == taken
             o == Cardinality(Out)
             a == Budget
             back == Restored(b, acts, perMin)
  <1>1. /\ guard[q].step = "cancel" /\ bucket' = d /\ Gains(x) /\ Finish(q)
        /\ UNCHANGED <<clock, taken, renewed>>
    BY DEF CancelDenied
  <1>2. guard[q].step \in AtLimiter
    BY <1>1 DEF AtLimiter, Failing
  <1>3. t \in Nat /\ Recent(t, clock) /\ acts \in Nat /\ acts >= t /\ perMin \in Nat \ {0}
    BY <1>1, <1>2, AtTheLimiter, OfRequest DEF InOrder
  <1>4. b \in Bucket /\ b # None /\ Trail = b /\ b.perMin <= MaxRate
    <2>1. b \in Bucket /\ b # None /\ Trail = b
      BY <1>1, InUse DEF Trail
    <2> QED
      BY <2>1, OfTrail
  <1>5. Cardinality(Out)' = o - 1 /\ o \in Nat /\ o - 1 \in Nat
    <2>1. Others(q) /\ guard'[q].step = "idle"
      BY <1>1, BecomesIdle
    <2>2. Cardinality(Out)' = o - 1 /\ o >= 1
      BY <1>1, <2>1, OutMoves
    <2> QED
      BY <2>2, Sums
  <1>6. n \in Nat /\ a \in Nat /\ Token \in Nat
    BY Sums
  <1>7. x \in Nat /\ (bucket' # b => x >= back - Token) /\ back \in Int
    <2>1. back \in Int /\ Token \in Nat
      BY <1>3, <1>4, RestoredIsInt, Bounds
    <2>2. x = IF bucket' = bucket THEN 0 ELSE Max({0, back - Token})
      BY DEF Overpaid
    <2>3. back - Token \in Int
      BY <2>1
    <2>4. x \in Nat
      BY <1>3, <1>4, OverpaidType
    <2> HIDE DEF back, x
    <2> QED
      BY <2>1, <2>2, <2>3, <2>4, MaxOfTwo
  <1>8. (back <= 0 /\ d = b) \/ GivenBack(b, d, acts, perMin, t)
    BY <1>3, <1>4, Cancelled
  <1> HIDE DEF d, x
  <1>9. CASE d = b
    <2>1. Trail' = b /\ Earliest' = Earliest /\ taken' = n
      BY <1>1, <1>4, <1>9 DEF Trail, Earliest
    <2>2. Budget' = a + PutBack + x /\ PutBack \in Nat
      BY <1>1, <1>4, <1>7, <1>9, GainsMore
    <2>3. a + PutBack + x \in Nat /\ a + PutBack + x >= a /\ o - 1 <= o
      BY <1>5, <1>6, <1>7, <2>2
    <2>4. Paid(b, Earliest, n, o, a) /\ Earliest \in Nat
      BY <1>4, EarliestIs DEF CreditInv
    <2> HIDE DEF a, n, o, b
    <2>5. Paid(b, Earliest, n, o - 1, a + PutBack + x)
      BY <1>4, <1>5, <1>6, <2>3, <2>4, PaidMore
    <2> QED
      BY <1>4, <1>5, <2>1, <2>2, <2>5, CreditKept
  <1>10. CASE d # b /\ GivenBack(b, d, acts, perMin, t)
    <2>1. /\ d \in Bucket /\ d.last = t
          /\ d.tokens = IF Token * b.burst <= Advance(b, t) + back THEN Token * b.burst ELSE Advance(b, t) + back
          /\ Advance(d, t) = d.tokens
      BY <1>10 DEF GivenBack
    <2>2. Advance(b, t) \in Int /\ Token * b.burst \in Nat /\ Advance(d, t) \in Int
      BY <1>3, <1>4, <2>1, Advanced, OfBucket
    <2>3. back <= Token + x
      BY <1>1, <1>6, <1>7, <1>10
    <2>4. /\ Token * (n + o) = Token * (n + 0 + (o - 1)) + Token
          /\ Token * (n + 0 + (o - 1)) \in Nat /\ taken' = n + 0
      <3>1. n + 0 + (o - 1) \in Nat /\ n + o = (n + 0 + (o - 1)) + 1 /\ n + 0 = n
        BY <1>5, <1>6
      <3> QED
        BY <1>1, <3>1, Capacity
    <2> HIDE DEF n, o, b, back
    <2>5. Advance(d, t) <= Advance(b, t) + Token + x
      BY <1>6, <1>7, <2>1, <2>2, <2>3
    <2>6. Token * (n + 0 + (o - 1)) + Advance(d, t) <= Token * (n + o) + Advance(b, t) + x
      BY <1>6, <1>7, <2>2, <2>4, <2>5
    <2> QED
      BY <1>1, <1>3, <1>4, <1>5, <1>7, <2>1, <2>4, <2>6, CreditAccess DEF n, o, b
  <1> QED
    BY <1>8, <1>9, <1>10

LEMMA CreditTick == ASSUME Inv, CreditInv, Tick PROVE CreditInv'
  <1> DEFINE b == Trail
             e == Earliest
             f == Earliest'
             n == taken
             m == Cardinality(Out)
             a == Budget
  <1>1. /\ clock' = clock + 1 /\ bucket' = bucket /\ guard' = guard
        /\ taken' = taken /\ gained' = gained /\ evicted' = evicted /\ renewed' = renewed
    BY DEF Tick, ghosts, counts
  <1>2. Trail' = b /\ taken' = n /\ Cardinality(Out)' = m /\ Budget' = a
    BY <1>1 DEF Trail, Out, Budget
  <1>3. CASE b = None
    BY <1>2, <1>3 DEF CreditInv
  <1>4. CASE b # None
    <2>1. e \in Nat /\ f \in Nat /\ e <= f
      BY <1>1, EarliestIs, Bounds DEF Earliest
    <2>2. b \in Bucket /\ b.perMin <= MaxRate /\ Paid(b, e, n, m, a) /\ n \in Nat /\ m \in Nat /\ a \in Nat
      BY <1>4, OfTrail, Sums DEF CreditInv
    <2>3. PICK k : k = f
      OBVIOUS
    <2> DEFINE s == From(b, e)
               u == From(b, k)
    <2> HIDE DEF b, e, f, n, m, a
    <2>4. s \in Nat /\ u \in Nat /\ s <= u /\ s >= b.last
      BY <2>1, <2>2, <2>3, OfBucket DEF From
    <2>5. /\ Lead(b, u, MaxRate) <= Lead(b, s, MaxRate) /\ Lead(b, u, MaxRate) \in Int
          /\ Lead(b, s, MaxRate) \in Int /\ MaxRate * s <= MaxRate * u /\ MaxRate * s \in Int
          /\ MaxRate * u \in Int
      BY <2>2, <2>4, LeadShrinks, MostOf, Rated
    <2>6. Token * (n + m) + Lead(b, s, MaxRate) <= a /\ Token * n <= a + MaxRate * s
      BY <2>2 DEF Paid
    <2>7. Token * (n + m) \in Nat /\ Token * n \in Nat
      BY <2>1, <2>2, FromIs
    <2> HIDE DEF s, u
    <2>8. Token * (n + m) + Lead(b, u, MaxRate) <= a /\ Token * n <= a + MaxRate * u
      BY <2>2, <2>5, <2>6, <2>7
    <2>9. Paid(b, k, n, m, a)
      BY <2>8 DEF Paid, u
    <2> QED
      BY <1>2, <1>4, <2>3, <2>9, CreditKept DEF f
  <1> QED
    BY <1>3, <1>4

\* The other steps of a request do not come to the bucket.
LEMMA CreditElsewhere ==
    ASSUME Inv, CreditInv, NEW q \in Request,
           Enter(q) \/ ReadPeek(q) \/ LetIn(q) \/ Block(q) \/ \E u \in BOOLEAN : Leave(q, u)
    PROVE  CreditInv'
  <1>1. UNCHANGED <<clock, bucket, evicted, counts>>
    BY DEF Enter, ReadPeek, LetIn, Block, Leave, ghosts, counts
  <1>2. guard[q].step # "cancel"
    BY DEF Enter, ReadPeek, LetIn, Block, Leave
  <1>3. \E r : guard' = [guard EXCEPT ![q] = r] /\ r.step # "cancel"
    <2>1. guard[q] \in Guard
      BY OfRequest
    <2>2. \A step \in {"get", "look", "handle"} : [guard[q] EXCEPT !.step = step].step = step
      BY <2>1 DEF Guard
    <2>3. NoGuard.step # "cancel"
      BY DEF NoGuard
    <2>4. ASSUME NEW step \in {"look", "bucket"}, Read(q, step)
          PROVE  \E r : guard' = [guard EXCEPT ![q] = r] /\ r.step # "cancel"
      <3> DEFINE r == [guard[q] EXCEPT !.step = step, !.now = clock]
      <3>1. r.step = step /\ guard' = [guard EXCEPT ![q] = r]
        BY <2>1, <2>4 DEF Guard, Read, Become
      <3> HIDE DEF r
      <3> QED
        BY <3>1
    <2>5. CASE Enter(q)
      <3>1. Goto(q, "get")
        BY <2>5, Zenon DEF Enter
      <3> QED
        BY <2>1, <2>2, <3>1 DEF Goto, Become
    <2>6. CASE ReadPeek(q)
      <3>1. Read(q, "look") \/ Goto(q, "handle")
        BY <2>6, Zenon DEF ReadPeek
      <3> QED
        BY <2>2, <2>4, <3>1 DEF Goto, Become
    <2>7. CASE LetIn(q)
      BY <2>2, <2>7 DEF LetIn, Goto, Become
    <2>8. CASE Block(q)
      <3>1. Become(q, NoGuard)
        BY <2>8, Zenon DEF Block, Finish
      <3> QED
        BY <2>3, <3>1 DEF Become
    <2>9. ASSUME NEW u \in BOOLEAN, Leave(q, u) PROVE \E r : guard' = [guard EXCEPT ![q] = r] /\ r.step # "cancel"
      <3>1. Read(q, "bucket") \/ Become(q, NoGuard)
        BY <2>9, Zenon DEF Leave, Finish
      <3> QED
        BY <2>3, <2>4, <3>1 DEF Become
    <2> QED
      BY <2>5, <2>6, <2>7, <2>8, <2>9
  <1>4. Out' = Out
    BY <1>2, <1>3, OfRequest DEF Out
  <1>5. Trail' = Trail
    BY <1>1 DEF Trail
  <1> QED
    BY <1>1, <1>4, <1>5, CreditUndisturbed

LEMMA CreditNext == ASSUME Inv, CreditInv, [Next]_vars PROVE CreditInv'
  <1>1. ASSUME NEW q \in Request, GuardStep(q) PROVE CreditInv'
    BY <1>1, CreditElsewhere, CreditBucketAt, CreditSetBurst, CreditReserve, CreditCancelDenied
    DEF GuardStep
  <1>2. CASE Cleanup
    <2>1. UNCHANGED <<clock, guard, taken, gained, renewed>> /\ bucket # None /\ bucket' = None /\ evicted' = bucket
      BY <1>2 DEF Cleanup
    <2>2. Trail' = Trail /\ Out' = Out /\ Earliest' = Earliest /\ Budget' = Budget /\ taken' = taken
      BY <2>1 DEF Trail, Out, Earliest, Budget
    <2>3. Trail # None
      BY <2>1 DEF Trail
    <2>4. Paid(Trail, Earliest, taken, Cardinality(Out), Budget) /\ Cardinality(Out)' = Cardinality(Out)
      BY <2>2, <2>3 DEF CreditInv
    <2> QED
      BY <2>2, <2>3, <2>4, CreditKept
  <1>3. CASE Tick
    BY <1>3, CreditTick
  <1>4. CASE UNCHANGED throttleVars
    <2>1. UNCHANGED <<clock, counts>> /\ Trail' = Trail /\ Out' = Out
      BY <1>4 DEF throttleVars, ghosts, counts, Trail, Out
    <2> QED
      BY <2>1, CreditUndisturbed
  <1>5. CASE UNCHANGED vars
    BY <1>4, <1>5 DEF vars
  <1> QED
    BY <1>1, <1>2, <1>3, <1>4, <1>5 DEF Next

\* What CreditInv says of the failures that took a token.
LEMMA CreditBounds == ASSUME Inv, CreditInv PROVE FailuresBounded
  <1>1. MaxRate * clock \in Nat /\ Token * 0 = 0
    BY Sums, Rated
  <1>2. CASE Trail = None
    BY <1>1, <1>2, Sums DEF CreditInv, FailuresBounded
  <1>3. CASE Trail # None
    <2> DEFINE b == Trail
               s == From(b, Earliest)
               n == taken
    <2>1. b \in Bucket /\ b.last \in Nat /\ b.last <= clock /\ Earliest \in Nat /\ Earliest <= clock
      BY <1>3, OfTrail, EarliestIs
    <2>2. s \in Nat /\ s <= clock
      BY <2>1 DEF From
    <2>3. Token * n <= Budget + MaxRate * s
      BY <1>3 DEF CreditInv, Paid
    <2>4. MaxRate \in Nat /\ clock \in Nat /\ n \in Nat
      BY Sums
    <2> HIDE DEF s, n
    <2>5. MaxRate * s \in Nat /\ MaxRate * s <= MaxRate * clock /\ Token * n \in Nat
      BY <2>2, <2>4, Rated, Capacity
    <2> QED
      BY <1>1, <2>3, <2>5, Sums DEF Budget, FailuresBounded, n
  <1> QED
    BY <1>2, <1>3

\* However requests interleave, settings change and the bucket is evicted, failures
\* take no more tokens than the greatest burst and rate and the time passed allow, and
\* what clocks, refunds and new buckets give.
THEOREM FailuresAreBounded == ThrottleSpec => []FailuresBounded
  <1>1. Init => CreditInv
    BY NoneIsNothing DEF Init, CreditInv, Trail
  <1>2. Inv /\ CreditInv /\ [Next]_vars => CreditInv'
    BY CreditNext
  <1>3. Inv /\ CreditInv => FailuresBounded
    BY CreditBounds
  <1> QED
    BY <1>1, <1>2, <1>3, SpecInv, PTL DEF ThrottleSpec

-----------------------------------------------------------------------------
\* The address.

\* What the closest proxy has added last is the last entry.
LEMMA LastIsAppended ==
    ASSUME NEW claims, claims \in Seq(Address \cup {Blank, NoAddress}), NEW c \in Address
    PROVE  RightmostIP(Append(claims, c)) = c
  <1> DEFINE line == Append(claims, c)
             n    == Len(claims) + 1
  <1>1. n \in DOMAIN line /\ line[n] = c /\ \A i \in DOMAIN line : i \in Nat /\ i <= n
    OBVIOUS
  <1>2. n \in Entries(line) /\ \A j \in Entries(line) : j \in Nat /\ j <= n
    BY <1>1, AddressAssumption DEF Entries
  <1>3. LastEntry(line) = n
    <2>1. PICK last \in Entries(line) : \A j \in Entries(line) : j <= last
      BY <1>2
    <2>2. \A i \in Entries(line) : (\A j \in Entries(line) : j <= i) => i = n
      BY <1>1, <1>2 DEF Entries
    <2> QED
      BY <2>1, <2>2 DEF LastEntry
  <1> QED
    BY <1>1, <1>2, <1>3 DEF RightmostIP

\* The line that Header.Get returns is the one the proxy has appended to.
LEMMA FirstIsCounted ==
    ASSUME NEW line, NEW more, more \in Seq(Seq(Address \cup {Blank, NoAddress})),
           line \in Seq(Address \cup {Blank, NoAddress})
    PROVE  FirstLine(<<line>> \o more) = line
  <1> DEFINE lines == <<line>> \o more
  <1>1. Len(lines) = 1 + Len(more) /\ lines[1] = line /\ Len(more) \in Nat
    OBVIOUS
  <1>2. lines # <<>> /\ Head(lines) = line
    BY <1>1
  <1> QED
    BY <1>2 DEF FirstLine

\* A client is counted under the address that its proxy has seen and appended to the
\* first line of the header, or its own if there is no proxy, whatever it sends in that
\* line itself and in others (ip.go:40-42 "a client cannot forge by prepending its own
\* entries").
THEOREM AddressNotForged ==
    ASSUME NEW claims, claims \in Seq(Address \cup {Blank, NoAddress}),
           NEW more, more \in Seq(Seq(Address \cup {Blank, NoAddress})),
           NEW client \in Address, NEW proxy \in Address
    PROVE  /\ ClientIP(TRUE, proxy, <<Append(claims, client)>> \o more) = client
           /\ proxy \in Inside =>
                 ClientIP(FALSE, proxy, <<Append(claims, client)>> \o more) = client
           /\ client \notin Inside => ClientIP(FALSE, client, <<claims>> \o more) = client
  <1>1. Append(claims, client) \in Seq(Address \cup {Blank, NoAddress})
    OBVIOUS
  <1>2. FirstLine(<<Append(claims, client)>> \o more) = Append(claims, client)
    BY <1>1, FirstIsCounted, Zenon
  <1>3. RightmostIP(Append(claims, client)) = client /\ client # NoAddress
    BY LastIsAppended, AddressAssumption
  <1> QED
    BY <1>2, <1>3, Zenon DEF ClientIP
=============================================================================
