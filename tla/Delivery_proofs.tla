-------------------------- MODULE Delivery_proofs --------------------------
(***************************************************************************)
(* Proofs about Delivery, for any number of pushes and credential          *)
(* requests, any settings and any width of a duration.                     *)
(***************************************************************************)
EXTENDS TLAPS, FiniteSetTheorems, Delivery

PushRec == [step : Step, client : Client \cup {None}, limit : Nat, attempt : Nat,
            bundle : Bundle \cup {0}, expired : BOOLEAN, status : Nat, wait : Int]
HeapRec == [rows : [Transport -> Cred \cup {None}], jwt : [APNsClient -> BOOLEAN],
            given : [APNsClient -> SUBSET Push]]

Holding == {"store", "use", "request", "drop"}
Resting == {"idle", "answered"}

\* A push is within its budget, holds a bundle while it works with one, and sleeps
\* only after an attempt that may have a different outcome next time.
InOrder(r) ==
    /\ r.bundle # 0 <=> r.step \in Holding
    /\ r.attempt <= r.limit
    /\ r.step \notin Resting => r.attempt > 0 /\ r.client \in Client
    /\ r.step = "sleep" => r.attempt < r.limit /\ r.wait \in 1 .. MaxWait /\ r.status # 202

PushesInOrder == \A p \in Push : InOrder(push[p])

\* What a push has built and not stored yet is what the rows say, unless they have
\* changed meanwhile.
BuiltFromRows ==
    \A p \in Push : At(p, "store") /\ p \notin overtaken => heap[push[p].bundle].rows = creds

DeliveryInv ==
    TypeOK /\ PushesInOrder /\ ConfirmedIsFinal /\ BuiltFromRows /\ BundleCurrentUnlessOvertaken

-----------------------------------------------------------------------------
\* The wait before another attempt, also where the shift overflows.

LEMMA DelayBounded == ASSUME NEW n \in Nat \ {0} PROVE Delay(n) \in 1 .. MaxWait
  <1> DEFINE x == Base * 2 ^ (n - 1)
             w == 2 ^ Bits
             h == 2 ^ (Bits - 1)
             m == x % w
             d == IF m >= h THEN m - w ELSE m
  <1>1. Base \in Nat /\ MaxWait \in Nat \ {0} /\ Bits \in Nat \ {0}
    BY DeliveryAssumption
  <1>2. n - 1 \in Nat /\ Bits - 1 \in Nat
    BY <1>1
  <1>3. \A k \in Nat : 2 ^ k \in Int
    OBVIOUS
  <1>4. x \in Int /\ w \in Int /\ h \in Int
    BY <1>1, <1>2, <1>3
  <1>5. w > 0
    BY <1>1, <1>4, DeliveryAssumption
  <1>6. m \in 0 .. (w - 1)
    <2> HIDE DEF x, w
    <2> QED
      BY <1>4, <1>5
  <1>7. d \in Int
    BY <1>4, <1>6
  <1>8. Delay(n) = IF d <= 0 \/ d > MaxWait THEN MaxWait ELSE d
    BY DEF Delay
  <1> HIDE DEF d
  <1> QED
    BY <1>1, <1>7, <1>8

LEMMA BackoffBounded == ASSUME NEW n \in Nat \ {0} PROVE Backoff(n) \subseteq 1 .. MaxWait
  <1> DEFINE d == Delay(n)
  <1>1. d \in 1 .. MaxWait /\ MaxWait \in Nat
    BY DelayBounded, DeliveryAssumption
  <1>2. Backoff(n) = IF d <= 1 THEN {d} ELSE (d \div 2) .. 2 * (d \div 2)
    BY DEF Backoff
  <1> HIDE DEF d
  <1> QED
    BY <1>1, <1>2

-----------------------------------------------------------------------------
\* What becomes of a push after an attempt.

LEMMA StatusFits ==
    ASSUME NEW out \in Outcome
    PROVE  Status(out) \in Nat /\ (Status(out) = 202 <=> out = "delivered")
  BY DEF Status, Outcome

LEMMA NoPushFits == NoPush \in PushRec /\ InOrder(NoPush) /\ NoPush.step = "idle"
  BY DEF NoPush, PushRec, InOrder, Step, Holding, Resting

LEMMA AnsweredFits ==
    ASSUME NEW n \in Nat
    PROVE  /\ Answered(n) \in PushRec /\ InOrder(Answered(n))
           /\ Answered(n).step = "answered" /\ Answered(n).status = n
  <1> DEFINE r == [NoPush EXCEPT !.step = "answered", !.status = n]
  <1>1. NoPush \in PushRec /\ NoPush.bundle = 0 /\ NoPush.attempt = 0 /\ NoPush.limit = 1
    BY NoPushFits DEF NoPush
  <1>2. /\ r \in PushRec /\ r.step = "answered" /\ r.status = n
        /\ r.bundle = 0 /\ r.attempt = 0 /\ r.limit = 1
    BY <1>1 DEF PushRec, Step
  <1> HIDE DEF r
  <1>3. InOrder(r)
    BY <1>2 DEF InOrder, Holding, Resting
  <1> QED
    BY <1>2, <1>3 DEF Answered, r

LEMMA DecidedFits ==
    ASSUME NEW r \in PushRec, InOrder(r), r.step \notin Resting, NEW out \in Outcome,
           NEW after \in RetryAfters, NEW d \in Decided(r, out, after)
    PROVE  /\ d \in PushRec /\ InOrder(d) /\ d.step \in {"answered", "sleep"}
           /\ d.step = "answered" => (d.status = 202 <=> out = "delivered")
           /\ out = "delivered" => d.step = "answered"
  <1>1. Status(out) \in Nat /\ (Status(out) = 202 <=> out = "delivered")
    BY StatusFits
  <1>2. CASE ~Transient(out) \/ r.attempt = r.limit \/ after > MaxWait
    <2>1. d = Answered(Status(out))
      BY <1>2 DEF Decided
    <2>2. d \in PushRec /\ InOrder(d) /\ d.step = "answered" /\ d.status = Status(out)
      BY <1>1, <2>1, AnsweredFits
    <2> QED
      BY <1>1, <2>2
  <1>3. CASE ~(~Transient(out) \/ r.attempt = r.limit \/ after > MaxWait)
    <2>1. PICK w \in Backoff(r.attempt) :
             d = [r EXCEPT !.step = "sleep", !.bundle = 0, !.status = Status(out),
                           !.wait = Max(w, after)]
      BY <1>3 DEF Decided
    <2>2. r.attempt \in Nat \ {0} /\ r.limit \in Nat /\ r.attempt < r.limit
      BY <1>3 DEF InOrder, PushRec
    <2>3. w \in 1 .. MaxWait
      BY <2>1, <2>2, BackoffBounded
    <2>4. Max(w, after) \in 1 .. MaxWait
      BY <1>3, <2>3, DeliveryAssumption DEF Max
    <2>5. out # "delivered"
      BY <1>3 DEF Transient
    <2> DEFINE x == Max(w, after)
    <2> HIDE DEF x
    <2>6. d = [r EXCEPT !.step = "sleep", !.bundle = 0, !.status = Status(out), !.wait = x]
      BY <2>1 DEF x
    <2>7. x \in Int /\ MaxWait \in Nat
      BY <2>4, DeliveryAssumption DEF x
    <2>8. /\ d \in PushRec /\ d.step = "sleep" /\ d.bundle = 0 /\ d.status = Status(out)
          /\ d.wait = x /\ d.attempt = r.attempt /\ d.limit = r.limit /\ d.client = r.client
      BY <1>1, <2>6, <2>7 DEF PushRec, Step
    <2>9. r.client \in Client
      BY DEF InOrder
    <2> QED
      BY <1>1, <2>2, <2>4, <2>5, <2>8, <2>9 DEF InOrder, Holding, Resting, x
  <1> QED
    BY <1>2, <1>3

-----------------------------------------------------------------------------
\* Bundles.

LEMMA BuiltFits ==
    ASSUME NEW rows \in [Transport -> Cred \cup {None}]
    PROVE  Built(rows) \in HeapRec /\ Built(rows).rows = rows
  <1>1. [c \in APNsClient |-> FALSE] \in [APNsClient -> BOOLEAN]
    OBVIOUS
  <1>2. [c \in APNsClient |-> {}] \in [APNsClient -> SUBSET Push]
    OBVIOUS
  <1> QED
    BY <1>1, <1>2 DEF Built, HeapRec

LEMMA NoBundleFits == NoBundle \in HeapRec
  BY BuiltFits DEF NoBundle

\* There is a number for another bundle: a push that is about to build one holds none.
LEMMA RoomForOne ==
    ASSUME TypeOK, NEW p \in Push, push[p].bundle = 0
    PROVE  NewBundle \in Bundle \ InUse
  <1> DEFINE f == [q \in Push |-> IF q = p THEN cache ELSE push[q].bundle]
             T == {f[q] : q \in Push}
  <1>1. f \in Surjection(Push, T)
    BY DEF Surjection
  <1>2. IsFiniteSet(T) /\ Cardinality(T) <= Cardinality(Push)
    BY <1>1, FS_Surjection, DeliveryAssumption
  <1>3. InUse \subseteq T
    BY DEF InUse
  <1>4. ASSUME Bundle \subseteq T PROVE FALSE
    <2> HIDE DEF T
    <2>1. Cardinality(Bundle) <= Cardinality(T)
      BY <1>2, <1>4, FS_Subset
    <2>2. Cardinality(Bundle) \in Nat /\ Cardinality(T) \in Nat /\ Cardinality(Push) \in Nat
      BY <1>2, FS_CardinalityType, DeliveryAssumption
    <2> QED
      BY <1>2, <2>1, <2>2, DeliveryAssumption
  <1>5. Bundle \ InUse # {}
    BY <1>3, <1>4
  <1> QED
    BY <1>5 DEF NewBundle

\* A step leaves the rows of every bundle that is in use after it.
HeapKept ==
    /\ heap' \in [Bundle -> HeapRec]
    /\ \A b \in Bundle \cap InUse' : heap'[b].rows = heap[b].rows

\* A heap in which what one bundle says of its token has changed.
WithJwt(hp, b, c, jwt)     == [hp EXCEPT ![b].jwt[c] = jwt]
WithGiven(hp, b, c, given) == [hp EXCEPT ![b].given[c] = given]

LEMMA WithJwtFits ==
    ASSUME NEW hp \in [Bundle -> HeapRec], NEW b \in Bundle, NEW c, NEW jwt \in BOOLEAN
    PROVE  /\ WithJwt(hp, b, c, jwt) \in [Bundle -> HeapRec]
           /\ \A d \in Bundle : /\ WithJwt(hp, b, c, jwt)[d].rows = hp[d].rows
                                /\ WithJwt(hp, b, c, jwt)[d].given = hp[d].given
  <1> DEFINE j == [hp[b].jwt EXCEPT ![c] = jwt]
             x == [hp[b] EXCEPT !.jwt = j]
  <1>1. hp[b] \in HeapRec /\ hp[b].jwt \in [APNsClient -> BOOLEAN]
    BY DEF HeapRec
  <1>2. j \in [APNsClient -> BOOLEAN]
    BY <1>1
  <1>3. WithJwt(hp, b, c, jwt) = [hp EXCEPT ![b] = x]
    BY DEF WithJwt
  <1> HIDE DEF j
  <1>4. x \in HeapRec /\ x.rows = hp[b].rows /\ x.given = hp[b].given
    BY <1>1, <1>2 DEF HeapRec
  <1> HIDE DEF x
  <1> QED
    BY <1>3, <1>4

LEMMA WithGivenFits ==
    ASSUME NEW hp \in [Bundle -> HeapRec], NEW b \in Bundle, NEW c, NEW given \in SUBSET Push
    PROVE  /\ WithGiven(hp, b, c, given) \in [Bundle -> HeapRec]
           /\ \A d \in Bundle : WithGiven(hp, b, c, given)[d].rows = hp[d].rows
           /\ \A d \in Bundle, e \in APNsClient :
                 WithGiven(hp, b, c, given)[d].given[e] =
                     IF d = b /\ e = c THEN given ELSE hp[d].given[e]
  <1> DEFINE g == [hp[b].given EXCEPT ![c] = given]
             x == [hp[b] EXCEPT !.given = g]
  <1>1. hp[b] \in HeapRec /\ hp[b].given \in [APNsClient -> SUBSET Push]
    BY DEF HeapRec
  <1>2. /\ g \in [APNsClient -> SUBSET Push]
        /\ \A e \in APNsClient : g[e] = IF e = c THEN given ELSE hp[b].given[e]
    BY <1>1
  <1>3. WithGiven(hp, b, c, given) = [hp EXCEPT ![b] = x]
    BY DEF WithGiven
  <1> HIDE DEF g
  <1>4. x \in HeapRec /\ x.rows = hp[b].rows /\ x.given = g
    BY <1>1, <1>2 DEF HeapRec
  <1> HIDE DEF x
  <1> QED
    BY <1>2, <1>3, <1>4

LEMMA HeapTyped == ASSUME TypeOK PROVE heap \in [Bundle -> HeapRec]
  BY DEF TypeOK, HeapRec

LEMMA SignedFits ==
    ASSUME TypeOK, NEW b \in Bundle, NEW c, NEW jwt \in BOOLEAN, NEW given \in SUBSET Push,
           NEW hp, hp = WithGiven(WithJwt(heap, b, c, jwt), b, c, given)
    PROVE  /\ hp \in [Bundle -> HeapRec]
           /\ \A d \in Bundle : hp[d].rows = heap[d].rows
           /\ \A d \in Bundle, e \in APNsClient :
                 hp[d].given[e] = IF d = b /\ e = c THEN given ELSE heap[d].given[e]
  <1> DEFINE hq == WithJwt(heap, b, c, jwt)
  <1>1. /\ hq \in [Bundle -> HeapRec]
        /\ \A d \in Bundle : hq[d].rows = heap[d].rows /\ hq[d].given = heap[d].given
    BY HeapTyped, WithJwtFits
  <1> HIDE DEF hq
  <1>2. hp = WithGiven(hq, b, c, given)
    BY DEF hq
  <1> QED
    BY <1>1, <1>2, WithGivenFits

LEMMA CollectKeeps ==
    ASSUME TypeOK, NEW hp \in [Bundle -> HeapRec], Collect(hp),
           \A b \in Bundle : hp[b].rows = heap[b].rows
    PROVE  HeapKept
  <1> DEFINE given(b) == [c \in APNsClient |-> hp[b].given[c] \cap Presenting']
             kept(b)  == [hp[b] EXCEPT !.given = given(b)]
  <1>1. heap' = [b \in Bundle |-> IF b \in InUse' THEN kept(b) ELSE NoBundle]
    BY DEF Collect
  <1>2. ASSUME NEW b \in Bundle PROVE kept(b) \in HeapRec /\ kept(b).rows = hp[b].rows
    <2>1. hp[b] \in HeapRec
      OBVIOUS
    <2>2. given(b) \in [APNsClient -> SUBSET Push]
      BY <2>1 DEF HeapRec
    <2> HIDE DEF given
    <2> QED
      BY <2>1, <2>2 DEF HeapRec
  <1> HIDE DEF kept
  <1> QED
    BY <1>1, <1>2, NoBundleFits DEF HeapKept

-----------------------------------------------------------------------------
LEMMA InitInv == Init => DeliveryInv
  <1>1. SUFFICES ASSUME Init PROVE DeliveryInv
    OBVIOUS
  <1>2. stale \in BOOLEAN
    BY <1>1, Zenon DEF Init
  <1>3. creds \in [Transport -> Cred \cup {None}] /\ cache = 0
        /\ change \in [Change -> {"idle", "invalidate"}]
        /\ confirmed = {} /\ overtaken = {}
    BY <1>1 DEF Init
  <1>4. push \in [Push -> PushRec] /\ \A p \in Push : InOrder(push[p]) /\ push[p].step = "idle"
    BY <1>1, NoPushFits DEF Init
  <1>5. heap \in [Bundle -> HeapRec]
    BY <1>1, NoBundleFits DEF Init
  <1>6. TypeOK
    BY <1>2, <1>3, <1>4, <1>5 DEF TypeOK, PushRec, HeapRec
  <1> QED
    BY <1>3, <1>4, <1>6
    DEF DeliveryInv, PushesInOrder, ConfirmedIsFinal, BuiltFromRows,
        BundleCurrentUnlessOvertaken, At

\* A step of a push that builds and stores no bundle.
LEMMA OrdinaryStep ==
    ASSUME DeliveryInv, NEW p \in Push, NEW r \in PushRec, InOrder(r), r.step # "store",
           Go(p, r), UNCHANGED <<creds, cache, change, overtaken, stale>>, HeapKept,
           confirmed' \subseteq Push,
           \A q \in Push \ {p} : q \in confirmed' <=> q \in confirmed,
           p \in confirmed' <=> r.step = "answered" /\ r.status = 202
    PROVE  DeliveryInv'
  <1>1. /\ push' \in [Push -> PushRec] /\ push'[p] = r
        /\ \A q \in Push \ {p} : push'[q] = push[q]
    BY DEF Go, DeliveryInv, TypeOK, PushRec
  <1>2. TypeOK'
    BY <1>1 DEF DeliveryInv, TypeOK, HeapKept, PushRec, HeapRec
  <1>3. PushesInOrder' /\ ConfirmedIsFinal'
    BY <1>1 DEF DeliveryInv, PushesInOrder, ConfirmedIsFinal, At
  <1>4. BuiltFromRows'
    <2>1. SUFFICES ASSUME NEW q \in Push, push'[q].step = "store", q \notin overtaken
                   PROVE  heap'[push'[q].bundle].rows = creds
      BY DEF BuiltFromRows, At
    <2>2. q # p /\ push'[q] = push[q]
      BY <1>1, <2>1
    <2>3. heap[push[q].bundle].rows = creds
      BY <2>1, <2>2 DEF DeliveryInv, BuiltFromRows, At
    <2>4. push[q].bundle # 0 /\ push[q].bundle \in Bundle
      BY <2>1, <2>2 DEF DeliveryInv, TypeOK, PushesInOrder, InOrder, Holding
    <2>5. push[q].bundle \in InUse'
      BY <2>2, <2>4 DEF InUse
    <2> QED
      BY <2>2, <2>3, <2>4, <2>5 DEF HeapKept
  <1>5. BundleCurrentUnlessOvertaken'
    <2>1. SUFFICES ASSUME \A h \in Change : change[h] = "idle", cache # 0, ~stale
                   PROVE  heap'[cache].rows = creds
      BY DEF BundleCurrentUnlessOvertaken
    <2>2. cache \in Bundle /\ cache \in InUse'
      BY <2>1 DEF DeliveryInv, TypeOK, InUse
    <2> QED
      BY <2>1, <2>2 DEF HeapKept, DeliveryInv, BundleCurrentUnlessOvertaken
  <1> QED
    BY <1>2, <1>3, <1>4, <1>5 DEF DeliveryInv

\* The step of a push that tells its outcome, or none.
LEMMA UnconfirmedStep ==
    ASSUME DeliveryInv, NEW p \in Push, ~At(p, "answered"), NEW r \in PushRec, InOrder(r),
           r.step # "store", r.step = "answered" => r.status # 202,
           Go(p, r), UNCHANGED <<creds, cache, change, ghosts>>, HeapKept
    PROVE  DeliveryInv'
  <1>1. confirmed \subseteq Push /\ p \notin confirmed
    BY DEF DeliveryInv, TypeOK, ConfirmedIsFinal
  <1>2. UNCHANGED <<confirmed, overtaken, stale>>
    BY DEF ghosts
  <1> QED
    BY <1>1, <1>2, OrdinaryStep

\* What is known of a push at a step.
LEMMA PushFits ==
    ASSUME DeliveryInv, NEW p \in Push
    PROVE  /\ push[p] \in PushRec /\ InOrder(push[p])
           /\ (p \in confirmed <=> push[p].step = "answered" /\ push[p].status = 202)
  BY DEF DeliveryInv, TypeOK, PushRec, PushesInOrder, ConfirmedIsFinal, At

LEMMA FailedStep ==
    ASSUME DeliveryInv, NEW p \in Push, push[p].step \notin Resting,
           NEW out \in Outcome \ {"delivered"}, NEW after \in RetryAfters,
           After(p, out, after), UNCHANGED <<creds, cache, change, ghosts>>, HeapKept
    PROVE  DeliveryInv'
  <1>1. PICK r \in Decided(push[p], out, after) : Go(p, r)
    BY DEF After
  <1>2. push[p] \in PushRec /\ InOrder(push[p])
    BY PushFits
  <1>3. /\ r \in PushRec /\ InOrder(r) /\ r.step \in {"answered", "sleep"}
        /\ r.step = "answered" => r.status # 202
    BY <1>1, <1>2, DecidedFits
  <1>4. ~At(p, "answered")
    BY DEF At, Resting
  <1> QED
    BY <1>1, <1>3, <1>4, UnconfirmedStep

LEMMA HeapUnchanged == ASSUME DeliveryInv, UNCHANGED heap PROVE HeapKept
  BY DEF HeapKept, DeliveryInv, TypeOK, HeapRec

LEMMA HeapCollected == ASSUME DeliveryInv, Collect(heap) PROVE HeapKept
  <1>1. heap \in [Bundle -> HeapRec]
    BY DEF DeliveryInv, TypeOK, HeapRec
  <1> QED
    BY <1>1, CollectKeeps DEF DeliveryInv

-----------------------------------------------------------------------------
\* Step by step.

LEMMA StartInv ==
    ASSUME DeliveryInv, NEW p \in Push, NEW c \in Client, NEW n \in Attempts, Start(p, c, n)
    PROVE  DeliveryInv'
  <1> DEFINE limit == Max(1, n)
             r     == [NoPush EXCEPT !.step = "lookup", !.client = c, !.limit = limit,
                                     !.attempt = 1]
  <1>1. limit \in Nat /\ limit >= 1
    BY DeliveryAssumption DEF Max
  <1>2. Go(p, r) /\ At(p, "idle") /\ UNCHANGED <<creds, cache, change, ghosts>> /\ HeapKept
    BY HeapUnchanged DEF Start, memory
  <1> HIDE DEF limit
  <1>3. /\ r \in PushRec /\ r.step = "lookup" /\ r.client = c /\ r.limit = limit
        /\ r.attempt = 1 /\ r.bundle = 0
    BY <1>1, NoPushFits DEF PushRec, Step, NoPush
  <1> HIDE DEF r
  <1>4. InOrder(r)
    BY <1>1, <1>3 DEF InOrder, Holding
  <1> QED
    BY <1>2, <1>3, <1>4, UnconfirmedStep DEF At

\* A push goes on with a bundle, or without one.
LEMMA BundleFits ==
    ASSUME NEW r \in PushRec, InOrder(r), r.step \notin Resting,
           NEW step \in {"read", "lookup", "use", "store"}, NEW b \in Bundle \cup {0},
           b # 0 <=> step \in Holding
    PROVE  LET d == [r EXCEPT !.step = step, !.bundle = b]
           IN  d \in PushRec /\ InOrder(d) /\ d.step = step /\ d.bundle = b
  <1> DEFINE d == [r EXCEPT !.step = step, !.bundle = b]
  <1>1. /\ d \in PushRec /\ d.step = step /\ d.bundle = b
        /\ d.limit = r.limit /\ d.attempt = r.attempt /\ d.client = r.client
    BY DEF PushRec, Step
  <1> HIDE DEF d
  <1>2. InOrder(d)
    BY <1>1 DEF InOrder, Resting
  <1> QED
    BY <1>1, <1>2 DEF d

LEMMA StepFits ==
    ASSUME NEW r \in PushRec, InOrder(r), r.step \notin Resting,
           NEW step \in Step \ (Resting \cup {"sleep"}), r.step \in Holding <=> step \in Holding,
           NEW expired \in BOOLEAN
    PROVE  LET d == [r EXCEPT !.step = step]
               e == [r EXCEPT !.step = step, !.expired = expired]
           IN  /\ d \in PushRec /\ InOrder(d) /\ d.step = step /\ d.bundle = r.bundle
               /\ e \in PushRec /\ InOrder(e) /\ e.step = step
  <1> DEFINE d == [r EXCEPT !.step = step]
             e == [r EXCEPT !.step = step, !.expired = expired]
  <1>1. /\ d \in PushRec /\ d.step = step /\ d.bundle = r.bundle
        /\ d.limit = r.limit /\ d.attempt = r.attempt /\ d.client = r.client
    BY DEF PushRec
  <1>2. /\ e \in PushRec /\ e.step = step /\ e.bundle = r.bundle
        /\ e.limit = r.limit /\ e.attempt = r.attempt /\ e.client = r.client
    BY DEF PushRec
  <1> HIDE DEF d, e
  <1>3. InOrder(d) /\ InOrder(e)
    BY <1>1, <1>2 DEF InOrder
  <1> QED
    BY <1>1, <1>2, <1>3 DEF d, e

LEMMA LookupInv == ASSUME DeliveryInv, NEW p \in Push, Lookup(p) PROVE DeliveryInv'
  <1> DEFINE r == push[p]
  <1>1. /\ r.step = "lookup" /\ ~At(p, "answered")
        /\ UNCHANGED <<creds, cache, change, ghosts>> /\ HeapKept
    BY HeapUnchanged DEF Lookup, At, memory
  <1>2. r \in PushRec /\ InOrder(r) /\ r.step \notin Resting
    BY <1>1, PushFits DEF Resting
  <1> HIDE DEF r
  <1>3. CASE cache # 0
    <2> DEFINE d == [r EXCEPT !.step = "use", !.bundle = cache]
    <2>1. cache \in Bundle
      BY <1>3 DEF DeliveryInv, TypeOK
    <2>2. d \in PushRec /\ InOrder(d) /\ d.step = "use"
      BY <1>2, <1>3, <2>1, BundleFits DEF Holding
    <2>3. Go(p, d)
      BY <1>3 DEF Lookup, r
    <2> HIDE DEF d
    <2> QED
      BY <1>1, <2>2, <2>3, UnconfirmedStep
  <1>4. CASE cache = 0
    <2> DEFINE d == [r EXCEPT !.step = "read"]
    <2>1. d \in PushRec /\ InOrder(d) /\ d.step = "read"
      BY <1>1, <1>2, StepFits DEF Holding, Resting, Step
    <2>2. Go(p, d)
      BY <1>4 DEF Lookup, To, r
    <2> HIDE DEF d
    <2> QED
      BY <1>1, <2>1, <2>2, UnconfirmedStep
  <1> QED
    BY <1>3, <1>4

\* A new bundle is of the rows, and nobody else's.
LEMMA ReadCredsInv == ASSUME DeliveryInv, NEW p \in Push, ReadCreds(p) PROVE DeliveryInv'
  <1> DEFINE b == NewBundle
             r == [push[p] EXCEPT !.step = "store", !.bundle = b]
  <1>1. push[p] \in PushRec /\ InOrder(push[p]) /\ push[p].step = "read" /\ p \notin confirmed
    BY PushFits DEF ReadCreds, At
  <1>2. b \in Bundle \ InUse
    <2>1. push[p].bundle = 0
      BY <1>1 DEF InOrder, Holding, PushRec
    <2> QED
      BY <2>1, RoomForOne DEF DeliveryInv
  <1>3. b # 0
    BY <1>2, DeliveryAssumption
  <1>4. Built(creds) \in HeapRec /\ Built(creds).rows = creds
    BY BuiltFits DEF DeliveryInv, TypeOK
  <1>5. /\ heap' = [heap EXCEPT ![b] = Built(creds)] /\ Go(p, r)
        /\ UNCHANGED <<creds, cache, change, confirmed, overtaken, stale>>
    BY DEF ReadCreds, ghosts
  <1> HIDE DEF b
  <1>6. r \in PushRec /\ InOrder(r) /\ r.step = "store" /\ r.bundle = b
    BY <1>1, <1>2, <1>3, BundleFits DEF Holding, Resting
  <1> HIDE DEF r
  <1>7. /\ push' \in [Push -> PushRec] /\ push'[p] = r
        /\ \A q \in Push \ {p} : push'[q] = push[q]
    BY <1>5, <1>6 DEF Go, DeliveryInv, TypeOK, PushRec
  <1>8. /\ heap' \in [Bundle -> HeapRec] /\ heap'[b].rows = creds
        /\ \A d \in Bundle \ {b} : heap'[d] = heap[d]
    BY <1>2, <1>4, <1>5 DEF DeliveryInv, TypeOK, HeapRec
  <1>9. TypeOK'
    BY <1>5, <1>7, <1>8 DEF DeliveryInv, TypeOK, PushRec, HeapRec
  <1>10. PushesInOrder' /\ ConfirmedIsFinal'
    BY <1>1, <1>5, <1>6, <1>7 DEF DeliveryInv, PushesInOrder, ConfirmedIsFinal, At
  <1>11. BuiltFromRows'
    <2>1. SUFFICES ASSUME NEW q \in Push, push'[q].step = "store", q \notin overtaken, q # p
                   PROVE  heap'[push'[q].bundle].rows = creds
      BY <1>5, <1>6, <1>7, <1>8 DEF BuiltFromRows, At
    <2>2. push'[q] = push[q] /\ heap[push[q].bundle].rows = creds
      BY <1>7, <2>1 DEF DeliveryInv, BuiltFromRows, At
    <2>3. push[q].bundle \in Bundle /\ push[q].bundle \in InUse
      BY <2>1, <2>2 DEF DeliveryInv, TypeOK, PushesInOrder, InOrder, Holding, InUse
    <2> QED
      BY <1>2, <1>8, <2>2, <2>3
  <1>12. BundleCurrentUnlessOvertaken'
    <2>1. cache # 0 => cache \in Bundle /\ cache # b
      BY <1>2 DEF DeliveryInv, TypeOK, InUse
    <2> QED
      BY <1>5, <1>8, <2>1 DEF DeliveryInv, BundleCurrentUnlessOvertaken
  <1> QED
    BY <1>9, <1>10, <1>11, <1>12 DEF DeliveryInv

LEMMA StoreBundleInv == ASSUME DeliveryInv, NEW p \in Push, StoreBundle(p) PROVE DeliveryInv'
  <1> DEFINE b == push[p].bundle
             r == [push[p] EXCEPT !.step = "use"]
  <1>1. push[p] \in PushRec /\ InOrder(push[p]) /\ push[p].step = "store" /\ p \notin confirmed
    BY PushFits DEF StoreBundle, At
  <1>2. b \in Bundle /\ b # 0 /\ (p \notin overtaken => heap[b].rows = creds)
    BY <1>1 DEF InOrder, Holding, PushRec, DeliveryInv, BuiltFromRows, At
  <1>3. /\ cache' = b /\ Go(p, r) /\ UNCHANGED <<creds, change, confirmed>>
        /\ overtaken' = overtaken \ {p}
    BY DEF StoreBundle, To
  <1>4. stale' \in BOOLEAN /\ (~stale' => p \notin overtaken)
    <2>1. stale' = (p \in overtaken)
      BY Zenon DEF StoreBundle
    <2>2. CASE p \in overtaken
      BY <2>1, <2>2, Zenon
    <2>3. CASE p \notin overtaken
      <3>1. (p \in overtaken) = FALSE
        BY <2>3
      <3>2. stale' = FALSE
        BY <2>1, <3>1, Zenon
      <3> QED
        BY <2>3, <3>2, Zenon
    <2> QED
      BY <2>2, <2>3
  <1>5. HeapKept
    BY HeapCollected DEF StoreBundle
  <1>6. r \in PushRec /\ InOrder(r) /\ r.step = "use" /\ r.bundle = b
    BY <1>1, StepFits DEF Holding, Resting, Step
  <1> HIDE DEF r, b
  <1>7. /\ push' \in [Push -> PushRec] /\ push'[p] = r
        /\ \A q \in Push \ {p} : push'[q] = push[q]
    BY <1>3, <1>6 DEF Go, DeliveryInv, TypeOK, PushRec
  <1>8. TypeOK'
    BY <1>2, <1>3, <1>4, <1>5, <1>7 DEF DeliveryInv, TypeOK, PushRec, HeapRec, HeapKept
  <1>9. PushesInOrder' /\ ConfirmedIsFinal'
    BY <1>1, <1>3, <1>6, <1>7 DEF DeliveryInv, PushesInOrder, ConfirmedIsFinal, At
  <1>10. BuiltFromRows'
    <2>1. SUFFICES ASSUME NEW q \in Push, push'[q].step = "store", q \notin overtaken', q # p
                   PROVE  heap'[push'[q].bundle].rows = creds
      BY <1>3, <1>6, <1>7 DEF BuiltFromRows, At
    <2>2. push'[q] = push[q] /\ heap[push[q].bundle].rows = creds
      BY <1>3, <1>7, <2>1 DEF DeliveryInv, BuiltFromRows, At
    <2>3. push[q].bundle \in Bundle /\ push[q].bundle \in InUse'
      BY <2>1, <2>2 DEF DeliveryInv, TypeOK, PushesInOrder, InOrder, Holding, InUse
    <2> QED
      BY <1>5, <2>2, <2>3 DEF HeapKept
  <1>11. BundleCurrentUnlessOvertaken'
    <2>1. b \in InUse'
      BY <1>2, <1>3 DEF InUse
    <2> QED
      BY <1>2, <1>3, <1>4, <1>5, <2>1 DEF BundleCurrentUnlessOvertaken, HeapKept
  <1> QED
    BY <1>8, <1>9, <1>10, <1>11 DEF DeliveryInv

\* The steps that fail, and those that tell a push that it has failed.
LEMMA FailuresInv ==
    ASSUME DeliveryInv, NEW p \in Push,
           ReadFails(p) \/ NoClient(p) \/ ExchangeFails(p) \/ RequestFails(p)
    PROVE  DeliveryInv'
  <1>1. 0 \in RetryAfters
    BY DeliveryAssumption
  <1>2. push[p].step \notin Resting /\ UNCHANGED <<creds, cache, change, ghosts>>
    BY DEF ReadFails, NoClient, ExchangeFails, RequestFails, At, Resting, memory
  <1>3. HeapKept
    BY HeapUnchanged, HeapCollected
    DEF ReadFails, NoClient, ExchangeFails, RequestFails, memory
  <1>4. PICK out \in {"error", "notConfigured", "badCreds"} : After(p, out, 0)
    BY DEF ReadFails, NoClient, ExchangeFails, RequestFails
  <1>5. out \in Outcome \ {"delivered"}
    BY DEF Outcome
  <1> QED
    BY <1>1, <1>2, <1>3, <1>4, <1>5, FailedStep

LEMMA SignInv ==
    ASSUME DeliveryInv, NEW p \in Push, Sign(p) \/ CachedToken(p) \/ SignToken(p)
    PROVE  DeliveryInv'
  <1> DEFINE b == push[p].bundle
             c == push[p].client
             d == [push[p] EXCEPT !.step = "request"]
             e == [push[p] EXCEPT !.step = "request", !.expired = FALSE]
  <1>1. push[p].step = "use" /\ UNCHANGED <<creds, cache, change, ghosts>>
    BY DEF Sign, CachedToken, SignToken, At, memory
  <1>2. push[p] \in PushRec /\ InOrder(push[p])
    BY PushFits
  <1>3. b \in Bundle
    BY <1>1, <1>2 DEF PushRec, InOrder, Holding
  <1>4. HeapKept
    <2>1. CASE Sign(p)
      BY <2>1, HeapUnchanged DEF Sign, memory
    <2>2. CASE CachedToken(p)
      <3> DEFINE given == heap[b].given[c] \cup {p}
      <3>1. c \in APNsClient /\ heap' = WithGiven(heap, b, c, given)
        BY <2>2 DEF CachedToken, WithGiven
      <3>2. given \in SUBSET Push
        BY <1>3, <3>1 DEF DeliveryInv, TypeOK
      <3> HIDE DEF given
      <3> QED
        BY <1>3, <3>1, <3>2, HeapTyped, WithGivenFits DEF HeapKept, DeliveryInv
    <2>3. CASE SignToken(p)
      <3> DEFINE jwt == TRUE
      <3>1. heap' = WithGiven(WithJwt(heap, b, c, jwt), b, c, {p})
        BY <2>3 DEF SignToken, WithGiven, WithJwt
      <3>2. jwt \in BOOLEAN /\ {p} \in SUBSET Push
        BY Zenon
      <3> HIDE DEF jwt
      <3> QED
        BY <1>3, <3>1, <3>2, SignedFits DEF HeapKept, DeliveryInv
    <2> QED
      BY <2>1, <2>2, <2>3
  <1>5. Go(p, d) \/ Go(p, e)
    BY DEF Sign, CachedToken, SignToken, To
  <1>6. /\ d \in PushRec /\ InOrder(d) /\ d.step = "request"
        /\ e \in PushRec /\ InOrder(e) /\ e.step = "request"
    BY <1>1, <1>2, StepFits DEF Holding, Resting, Step
  <1> HIDE DEF d, e
  <1> QED
    BY <1>1, <1>4, <1>5, <1>6, UnconfirmedStep DEF At

LEMMA DroppedFits ==
    ASSUME TypeOK, NEW b \in Bundle, NEW c
    PROVE  /\ Dropped(b, c) \in [Bundle -> HeapRec]
           /\ \A d \in Bundle : Dropped(b, c)[d].rows = heap[d].rows
           /\ \A d \in Bundle, e \in APNsClient :
                 Dropped(b, c)[d].given[e] = IF d = b /\ e = c THEN {} ELSE heap[d].given[e]
  <1> DEFINE jwt == FALSE
  <1>1. Dropped(b, c) = WithGiven(WithJwt(heap, b, c, jwt), b, c, {})
    BY DEF Dropped, WithGiven, WithJwt
  <1>2. jwt \in BOOLEAN /\ {} \in SUBSET Push
    BY Zenon
  <1> HIDE DEF jwt
  <1> QED
    BY <1>1, <1>2, SignedFits

LEMMA DropTokenInv == ASSUME DeliveryInv, NEW p \in Push, DropToken(p) PROVE DeliveryInv'
  <1> DEFINE b == push[p].bundle
             c == push[p].client
  <1>1. /\ push[p].step = "drop" /\ UNCHANGED <<creds, cache, change, ghosts>>
        /\ Collect(Dropped(b, c))
    BY DEF DropToken, At
  <1>2. b \in Bundle /\ c \in Client
    BY <1>1, PushFits DEF PushRec, InOrder, Holding, Resting
  <1>3. /\ Dropped(b, c) \in [Bundle -> HeapRec]
        /\ \A x \in Bundle : Dropped(b, c)[x].rows = heap[x].rows
    BY <1>2, DroppedFits DEF DeliveryInv
  <1>4. HeapKept
    BY <1>1, <1>3, CollectKeeps DEF DeliveryInv
  <1>5. PICK out \in {"expired", "badToken"} : After(p, out, 0)
    BY DEF DropToken
  <1>6. out \in Outcome \ {"delivered"} /\ 0 \in RetryAfters /\ push[p].step \notin Resting
    BY <1>1, DeliveryAssumption DEF Outcome, Resting
  <1> QED
    BY <1>1, <1>4, <1>5, <1>6, FailedStep

LEMMA PlatformAnswersInv ==
    ASSUME DeliveryInv, NEW p \in Push, NEW out \in Outcome, NEW after \in RetryAfters,
           PlatformAnswers(p, out, after)
    PROVE  DeliveryInv'
  <1>1. /\ push[p].step = "request" /\ UNCHANGED <<creds, cache, change, overtaken, stale>>
        /\ confirmed' = IF out = "delivered" THEN confirmed \cup {p} ELSE confirmed
    BY DEF PlatformAnswers, At
  <1>2. push[p] \in PushRec /\ InOrder(push[p]) /\ p \notin confirmed
    BY <1>1, PushFits
  <1>3. HeapKept
    BY HeapCollected DEF PlatformAnswers
  <1>4. confirmed \subseteq Push
    BY DEF DeliveryInv, TypeOK
  <1>5. CASE out \in {"expired", "badToken"}
    <2> DEFINE expired == (out = "expired")
               r == [push[p] EXCEPT !.step = "drop", !.expired = expired]
    <2>1. Go(p, r)
      BY <1>5 DEF PlatformAnswers
    <2>2. expired \in BOOLEAN
      BY Zenon
    <2> HIDE DEF expired
    <2>3. /\ r \in PushRec /\ r.step = "drop" /\ r.bundle = push[p].bundle
          /\ r.attempt = push[p].attempt /\ r.limit = push[p].limit /\ r.client = push[p].client
      BY <1>2, <2>2 DEF PushRec, Step
    <2> HIDE DEF r
    <2>4. InOrder(r)
      BY <1>1, <1>2, <2>3 DEF InOrder, Holding, Resting
    <2> QED
      BY <1>1, <1>2, <1>3, <1>4, <1>5, <2>1, <2>3, <2>4, OrdinaryStep
  <1>6. CASE out \notin {"expired", "badToken"}
    <2>1. PICK r \in Decided(push[p], out, after) : Go(p, r)
      BY <1>6 DEF PlatformAnswers, After
    <2>2. /\ r \in PushRec /\ InOrder(r) /\ r.step \in {"answered", "sleep"}
          /\ r.step = "answered" => (r.status = 202 <=> out = "delivered")
          /\ out = "delivered" => r.step = "answered"
      BY <1>1, <1>2, <2>1, DecidedFits DEF Resting
    <2>3. p \in confirmed' <=> r.step = "answered" /\ r.status = 202
      BY <1>1, <1>2, <2>2
    <2> QED
      BY <1>1, <1>3, <1>4, <2>1, <2>2, <2>3, OrdinaryStep
  <1> QED
    BY <1>5, <1>6

LEMMA WakeInv == ASSUME DeliveryInv, NEW p \in Push, Wake(p) PROVE DeliveryInv'
  <1> DEFINE next == push[p].attempt + 1
             r    == [push[p] EXCEPT !.step = "lookup", !.attempt = next, !.status = 0,
                                     !.wait = 0]
  <1>1. push[p] \in PushRec /\ InOrder(push[p]) /\ push[p].step = "sleep"
    BY PushFits DEF Wake, At
  <1>2. next \in Nat /\ next > 0 /\ push[p].limit \in Nat /\ next <= push[p].limit
    BY <1>1 DEF PushRec, InOrder
  <1>3. Go(p, r) /\ UNCHANGED <<creds, cache, change, ghosts>> /\ HeapKept
    BY HeapUnchanged DEF Wake, memory
  <1> HIDE DEF next
  <1>4. /\ r \in PushRec /\ r.step = "lookup" /\ r.bundle = push[p].bundle
        /\ r.attempt = next /\ r.limit = push[p].limit /\ r.client = push[p].client
    <2> DEFINE q == [push[p] EXCEPT !.step = "lookup", !.attempt = next]
    <2>1. /\ q \in PushRec /\ q.step = "lookup" /\ q.bundle = push[p].bundle
          /\ q.attempt = next /\ q.limit = push[p].limit /\ q.client = push[p].client
      BY <1>1, <1>2 DEF PushRec, Step
    <2> DEFINE s == [q EXCEPT !.status = 0]
    <2>2. r = [s EXCEPT !.wait = 0]
      OBVIOUS
    <2> HIDE DEF q, r
    <2>3. /\ s \in PushRec /\ s.step = q.step /\ s.bundle = q.bundle
          /\ s.attempt = q.attempt /\ s.limit = q.limit /\ s.client = q.client
      BY <2>1 DEF PushRec
    <2> HIDE DEF s
    <2>4. /\ r \in PushRec /\ r.step = s.step /\ r.bundle = s.bundle
          /\ r.attempt = s.attempt /\ r.limit = s.limit /\ r.client = s.client
      BY <2>2, <2>3 DEF PushRec
    <2> QED
      BY <2>1, <2>3, <2>4
  <1> HIDE DEF r
  <1>5. InOrder(r)
    <2>1. push[p].bundle = 0 /\ push[p].client \in Client
      BY <1>1 DEF InOrder, Holding, Resting
    <2> QED
      BY <1>2, <1>4, <2>1 DEF InOrder, Holding
  <1> QED
    BY <1>1, <1>3, <1>4, <1>5, UnconfirmedStep DEF At

LEMMA ClientGoneInv == ASSUME DeliveryInv, NEW p \in Push, ClientGone(p) PROVE DeliveryInv'
  <1> DEFINE r == Answered(push[p].status)
  <1>1. /\ push[p].step = "sleep" /\ Go(p, r) /\ UNCHANGED <<creds, cache, change, ghosts>>
        /\ HeapKept
    BY HeapCollected DEF ClientGone, At
  <1>2. push[p].status \in Nat /\ push[p].status # 202
    BY <1>1, PushFits DEF PushRec, InOrder
  <1>3. r \in PushRec /\ InOrder(r) /\ r.step = "answered" /\ r.status # 202
    BY <1>2, AnsweredFits
  <1> HIDE DEF r
  <1> QED
    BY <1>1, <1>3, UnconfirmedStep DEF At

LEMMA FinishInv == ASSUME DeliveryInv, NEW p \in Push, Finish(p) PROVE DeliveryInv'
  <1>1. /\ Go(p, NoPush) /\ UNCHANGED <<creds, cache, change, overtaken, stale>> /\ HeapKept
        /\ confirmed' = confirmed \ {p}
    BY HeapUnchanged DEF Finish, memory
  <1>2. confirmed \subseteq Push
    BY DEF DeliveryInv, TypeOK
  <1> QED
    BY <1>1, <1>2, NoPushFits, OrdinaryStep

LEMMA PushStepInv == ASSUME DeliveryInv, NEW p \in Push, PushStep(p) PROVE DeliveryInv'
  BY StartInv, LookupInv, ReadCredsInv, StoreBundleInv, FailuresInv, SignInv, DropTokenInv,
     PlatformAnswersInv, WakeInv, ClientGoneInv, FinishInv DEF PushStep

-----------------------------------------------------------------------------
\* The credential requests, and a restart.

LEMMA SetCredInv ==
    ASSUME DeliveryInv, NEW h \in Change, NEW t \in Transport, NEW c \in Offers[t],
           SetCred(h, t, c)
    PROVE  DeliveryInv'
  <1>1. c \in Cred \cup {None}
    BY DeliveryAssumption
  <1>2. /\ UNCHANGED <<cache, heap, push, confirmed, stale>>
        /\ change' = [change EXCEPT ![h] = "invalidate"]
        /\ creds' = [creds EXCEPT ![t] = c]
        /\ overtaken' = IF creds' # creds THEN overtaken \cup {p \in Push : At(p, "store")}
                        ELSE overtaken
    BY DEF SetCred, memory
  <1>3. TypeOK'
    BY <1>1, <1>2 DEF DeliveryInv, TypeOK
  <1>4. BuiltFromRows'
    BY <1>2 DEF DeliveryInv, BuiltFromRows, At
  <1>5. change'[h] = "invalidate"
    BY <1>2 DEF DeliveryInv, TypeOK
  <1> QED
    BY <1>2, <1>3, <1>4, <1>5
    DEF DeliveryInv, PushesInOrder, ConfirmedIsFinal, At, BundleCurrentUnlessOvertaken

LEMMA InvalidateInv ==
    ASSUME DeliveryInv, NEW h \in Change, Invalidate(h) PROVE DeliveryInv'
  <1>1. /\ cache' = 0 /\ change' = [change EXCEPT ![h] = "idle"]
        /\ UNCHANGED <<creds, push, confirmed, overtaken>> /\ HeapKept
    BY HeapCollected DEF Invalidate
  <1>2. stale' \in BOOLEAN
    BY Zenon DEF Invalidate
  <1>3. TypeOK'
    BY <1>1, <1>2 DEF DeliveryInv, TypeOK, HeapKept, HeapRec
  <1>4. BuiltFromRows'
    <2>1. ASSUME NEW q \in Push, push[q].step = "store"
          PROVE  heap'[push[q].bundle].rows = heap[push[q].bundle].rows
      <3>1. push[q].bundle \in Bundle /\ push[q].bundle # 0
        BY <2>1 DEF DeliveryInv, TypeOK, PushesInOrder, InOrder, Holding
      <3>2. push[q].bundle \in InUse'
        BY <1>1, <3>1 DEF InUse
      <3> QED
        BY <1>1, <3>1, <3>2 DEF HeapKept
    <2> QED
      BY <1>1, <2>1 DEF DeliveryInv, BuiltFromRows, At
  <1> QED
    BY <1>1, <1>3, <1>4
    DEF DeliveryInv, PushesInOrder, ConfirmedIsFinal, At, BundleCurrentUnlessOvertaken

LEMMA RestartInv == ASSUME DeliveryInv, Restart PROVE DeliveryInv'
  <1>1. /\ cache' = 0 /\ heap' = [b \in Bundle |-> NoBundle]
        /\ push' = [p \in Push |-> NoPush] /\ change' = [h \in Change |-> "idle"]
        /\ confirmed' = {} /\ overtaken' = {} /\ creds' = creds
    BY DEF Restart
  <1>2. stale' \in BOOLEAN
    BY Zenon DEF Restart
  <1>3. push' \in [Push -> PushRec] /\ \A p \in Push : InOrder(push'[p]) /\ push'[p].step = "idle"
    BY <1>1, NoPushFits
  <1>4. heap' \in [Bundle -> HeapRec]
    BY <1>1, NoBundleFits
  <1>5. TypeOK'
    BY <1>1, <1>2, <1>3, <1>4 DEF DeliveryInv, TypeOK, PushRec, HeapRec
  <1> QED
    BY <1>1, <1>3, <1>5
    DEF DeliveryInv, PushesInOrder, ConfirmedIsFinal, BuiltFromRows, At,
        BundleCurrentUnlessOvertaken

LEMMA NextInv == DeliveryInv /\ [Next]_vars => DeliveryInv'
  <1>1. SUFFICES ASSUME DeliveryInv, [Next]_vars PROVE DeliveryInv'
    OBVIOUS
  <1>2. CASE UNCHANGED vars
    BY <1>1, <1>2
    DEF vars, memory, ghosts, DeliveryInv, TypeOK, PushesInOrder, ConfirmedIsFinal,
        BuiltFromRows, At, BundleCurrentUnlessOvertaken
  <1> QED
    BY <1>1, <1>2, PushStepInv, SetCredInv, InvalidateInv, RestartInv DEF Next

LEMMA SpecInv == Spec => []DeliveryInv
  BY InitInv, NextInv, PTL DEF Spec

-----------------------------------------------------------------------------
\* Whose token is whose: a push is among those a token was given to only while its
\* request is under way, or until the token it was refused with is dropped.

OwnToken ==
    \A b \in Bundle, c \in APNsClient : \A p \in heap[b].given[c] :
        /\ push[p].step \in {"request", "drop"} /\ push[p].bundle = b /\ push[p].client = c
        /\ push[p].step = "request" => ~push[p].expired

GivenTo(p) == \E b \in Bundle, c \in APNsClient : p \in heap[b].given[c]

GivenShrinks ==
    \A b \in Bundle, c \in APNsClient : heap'[b].given[c] \subseteq heap[b].given[c]

LEMMA CollectShrinks ==
    ASSUME NEW hp \in [Bundle -> HeapRec], Collect(hp), NEW b \in Bundle, NEW c \in APNsClient
    PROVE  heap'[b].given[c] \subseteq hp[b].given[c] \cap Presenting'
  <1> DEFINE given == [d \in APNsClient |-> hp[b].given[d] \cap Presenting']
             kept  == [hp[b] EXCEPT !.given = given]
  <1>1. heap'[b] = IF b \in InUse' THEN kept ELSE NoBundle
    BY DEF Collect
  <1>2. kept.given = given
    BY DEF HeapRec
  <1>3. given[c] = hp[b].given[c] \cap Presenting'
    OBVIOUS
  <1>4. NoBundle.given[c] = {}
    BY DEF NoBundle, Built
  <1> HIDE DEF given, kept
  <1> QED
    BY <1>1, <1>2, <1>3, <1>4

LEMMA CollectedShrinks == ASSUME DeliveryInv, Collect(heap) PROVE GivenShrinks
  BY HeapTyped, CollectShrinks DEF GivenShrinks, DeliveryInv

LEMMA UnchangedShrinks == ASSUME UNCHANGED heap PROVE GivenShrinks
  BY DEF GivenShrinks

\* One push moves, and has no token then.
LEMMA OthersKeepTokens ==
    ASSUME OwnToken, GivenShrinks, NEW p \in Push, ~GivenTo(p)',
           \A q \in Push \ {p} : push'[q] = push[q], DeliveryInv
    PROVE  OwnToken'
  <1>1. SUFFICES ASSUME NEW b \in Bundle, NEW c \in APNsClient, NEW q \in heap'[b].given[c]
                 PROVE  /\ push'[q].step \in {"request", "drop"}
                        /\ push'[q].bundle = b /\ push'[q].client = c
                        /\ push'[q].step = "request" => ~push'[q].expired
    BY DEF OwnToken
  <1>2. q \in heap[b].given[c] /\ q # p
    BY <1>1 DEF GivenShrinks, GivenTo
  <1>3. q \in Push
    BY <1>2, HeapTyped DEF DeliveryInv, HeapRec
  <1> QED
    BY <1>2, <1>3 DEF OwnToken

LEMMA Moves ==
    ASSUME NEW p \in Push, NEW r, Go(p, r), DeliveryInv
    PROVE  push'[p] = r /\ \A q \in Push \ {p} : push'[q] = push[q]
  BY DEF Go, DeliveryInv, TypeOK

\* A push without a token moves and gets none.
LEMMA NoTokenKept ==
    ASSUME DeliveryInv, OwnToken, NEW p \in Push, push[p].step \notin {"request", "drop"},
           GivenShrinks, \E r : Go(p, r)
    PROVE  OwnToken'
  <1>1. ~GivenTo(p)'
    BY DEF GivenShrinks, GivenTo, OwnToken
  <1> QED
    BY <1>1, Moves, OthersKeepTokens

LEMMA ReadCredsShrinks ==
    ASSUME DeliveryInv, NEW p \in Push, ReadCreds(p) PROVE GivenShrinks
  <1>1. heap' = [heap EXCEPT ![NewBundle] = Built(creds)]
    BY DEF ReadCreds
  <1>2. \A c \in APNsClient : Built(creds).given[c] = {}
    BY DEF Built
  <1> QED
    BY <1>1, <1>2, HeapTyped DEF DeliveryInv, GivenShrinks

LEMMA WithoutToken ==
    ASSUME DeliveryInv, OwnToken, NEW p \in Push,
           \/ \E c \in Client, n \in Attempts : Start(p, c, n)
           \/ Lookup(p) \/ ReadCreds(p) \/ ReadFails(p) \/ StoreBundle(p) \/ NoClient(p)
           \/ Sign(p) \/ ExchangeFails(p) \/ Wake(p) \/ ClientGone(p) \/ Finish(p)
    PROVE  OwnToken'
  <1>1. push[p].step \notin {"request", "drop"}
    BY DEF Start, Lookup, ReadCreds, ReadFails, StoreBundle, NoClient, Sign, ExchangeFails,
           Wake, ClientGone, Finish, At
  <1>2. UNCHANGED heap \/ Collect(heap) \/ ReadCreds(p)
    BY DEF Start, Lookup, ReadFails, StoreBundle, NoClient, Sign, ExchangeFails, Wake,
           ClientGone, Finish, memory
  <1>3. GivenShrinks
    BY <1>2, CollectedShrinks, UnchangedShrinks, ReadCredsShrinks
  <1>4. \E r : Go(p, r)
    BY DEF Start, Lookup, ReadCreds, ReadFails, StoreBundle, NoClient, Sign, ExchangeFails,
           Wake, ClientGone, Finish, After, To
  <1> QED
    BY <1>1, <1>3, <1>4, NoTokenKept

LEMMA DecidedKeepsExpired ==
    ASSUME NEW r \in PushRec, NEW out, NEW after, NEW d \in Decided(r, out, after)
    PROVE  d.step \in {"answered", "sleep"} /\ (d.expired => r.expired)
  <1>1. CASE d = Answered(Status(out))
    <2>1. NoPush \in PushRec /\ ~NoPush.expired
      BY NoPushFits DEF NoPush
    <2>2. d.step = "answered" /\ d.expired = NoPush.expired
      BY <1>1, <2>1 DEF Answered, PushRec
    <2> QED
      BY <2>1, <2>2
  <1>2. ASSUME NEW w, d = [r EXCEPT !.step = "sleep", !.bundle = 0, !.status = Status(out),
                                    !.wait = Max(w, after)]
        PROVE  d.step = "sleep" /\ d.expired = r.expired
    BY <1>2 DEF PushRec
  <1> QED
    BY <1>1, <1>2 DEF Decided

LEMMA RequestKeepsTokens ==
    ASSUME DeliveryInv, OwnToken, NEW p \in Push,
           \/ RequestFails(p)
           \/ \E out \in Outcome, after \in RetryAfters : PlatformAnswers(p, out, after)
    PROVE  OwnToken'
  <1>1. push[p].step = "request" /\ push[p] \in PushRec /\ Collect(heap)
    BY PushFits DEF RequestFails, PlatformAnswers, At
  <1>2. GivenShrinks
    BY <1>1, CollectedShrinks
  <1>3. ASSUME NEW out, NEW after, After(p, out, after) PROVE OwnToken'
    <2>1. PICK r \in Decided(push[p], out, after) : Go(p, r)
      BY <1>3 DEF After
    <2>2. push'[p] = r /\ \A q \in Push \ {p} : push'[q] = push[q]
      BY <2>1, Moves
    <2>3. r.step \in {"answered", "sleep"} /\ (r.expired => push[p].expired)
      BY <1>1, <2>1, DecidedKeepsExpired
    <2>4. ~GivenTo(p)'
      <3>1. SUFFICES ASSUME NEW b \in Bundle, NEW c \in APNsClient, p \in heap'[b].given[c]
                     PROVE  FALSE
        BY DEF GivenTo
      <3>2. p \in heap[b].given[c] /\ p \in Presenting'
        BY <1>1, <3>1, HeapTyped, CollectShrinks DEF DeliveryInv
      <3>3. ~push[p].expired
        BY <1>1, <3>2 DEF OwnToken
      <3> QED
        BY <2>2, <2>3, <3>2, <3>3 DEF Presenting
    <2> QED
      BY <1>2, <2>2, <2>4, OthersKeepTokens
  <1>4. ASSUME NEW expired \in BOOLEAN,
               Go(p, [push[p] EXCEPT !.step = "drop", !.expired = expired])
        PROVE  OwnToken'
    <2> DEFINE r == [push[p] EXCEPT !.step = "drop", !.expired = expired]
    <2>1. r.step = "drop" /\ r.bundle = push[p].bundle /\ r.client = push[p].client
      BY <1>1 DEF PushRec
    <2>2. push'[p] = r /\ \A q \in Push \ {p} : push'[q] = push[q]
      BY <1>4, Moves
    <2> HIDE DEF r
    <2>3. SUFFICES ASSUME NEW b \in Bundle, NEW c \in APNsClient, NEW q \in heap'[b].given[c]
                   PROVE  /\ push'[q].step \in {"request", "drop"}
                          /\ push'[q].bundle = b /\ push'[q].client = c
                          /\ push'[q].step = "request" => ~push'[q].expired
      BY DEF OwnToken
    <2>4. q \in heap[b].given[c] /\ q \in Push
      BY <1>2, <2>3, HeapTyped DEF DeliveryInv, GivenShrinks, HeapRec
    <2> QED
      BY <2>1, <2>2, <2>4 DEF OwnToken
  <1>5. ASSUME NEW out \in Outcome, NEW after \in RetryAfters, PlatformAnswers(p, out, after)
        PROVE  OwnToken'
    <2>1. (out = "expired") \in BOOLEAN
      BY Zenon
    <2>2. \/ Go(p, [push[p] EXCEPT !.step = "drop", !.expired = (out = "expired")])
          \/ After(p, out, after)
      BY <1>5 DEF PlatformAnswers
    <2> QED
      BY <1>3, <1>4, <2>1, <2>2
  <1> QED
    BY <1>3, <1>5 DEF RequestFails

\* Dropping the token takes it from the push that was refused with it.
LEMMA DropKeepsTokens ==
    ASSUME DeliveryInv, OwnToken, NEW p \in Push, DropToken(p) PROVE OwnToken'
  <1> DEFINE b == push[p].bundle
             c == push[p].client
  <1>1. push[p].step = "drop" /\ Collect(Dropped(b, c))
    BY DEF DropToken, At
  <1>2. b \in Bundle
    BY <1>1, PushFits DEF PushRec, InOrder, Holding
  <1>3. /\ Dropped(b, c) \in [Bundle -> HeapRec]
        /\ \A d \in Bundle, e \in APNsClient :
              Dropped(b, c)[d].given[e] = IF d = b /\ e = c THEN {} ELSE heap[d].given[e]
    BY <1>2, DroppedFits DEF DeliveryInv
  <1>4. ASSUME NEW d \in Bundle, NEW e \in APNsClient
        PROVE  /\ heap'[d].given[e] \subseteq heap[d].given[e]
               /\ d = b /\ e = c => heap'[d].given[e] = {}
    BY <1>1, <1>3, CollectShrinks
  <1>5. GivenShrinks
    BY <1>4 DEF GivenShrinks
  <1>6. ~GivenTo(p)'
    BY <1>4 DEF GivenTo, OwnToken
  <1>7. \E r : Go(p, r)
    BY DEF DropToken, After
  <1> QED
    BY <1>5, <1>6, <1>7, Moves, OthersKeepTokens

\* A push presents a token of its own bundle and client, and is no longer expired.
LEMMA PresentKeepsTokens ==
    ASSUME DeliveryInv, OwnToken, NEW p \in Push, CachedToken(p) \/ SignToken(p) PROVE OwnToken'
  <1> DEFINE b == push[p].bundle
             c == push[p].client
             expired == FALSE
             r == [push[p] EXCEPT !.step = "request", !.expired = expired]
  <1>1. push[p].step = "use" /\ c \in APNsClient /\ push[p] \in PushRec /\ Go(p, r)
    BY PushFits DEF CachedToken, SignToken, At
  <1>2. b \in Bundle
    BY <1>1, PushFits DEF PushRec, InOrder, Holding
  <1>3. \A d \in Bundle, e \in APNsClient :
           heap'[d].given[e] \subseteq IF d = b /\ e = c THEN heap[d].given[e] \cup {p}
                                     ELSE heap[d].given[e]
    <2>1. CASE CachedToken(p)
      <3> DEFINE given == heap[b].given[c] \cup {p}
      <3>1. heap' = WithGiven(heap, b, c, given)
        BY <2>1 DEF CachedToken, WithGiven
      <3>2. given \in SUBSET Push
        BY <1>1, <1>2 DEF DeliveryInv, TypeOK
      <3> HIDE DEF given
      <3>3. \A d \in Bundle, e \in APNsClient :
               heap'[d].given[e] = IF d = b /\ e = c THEN given ELSE heap[d].given[e]
        BY <1>2, <3>1, <3>2, HeapTyped, WithGivenFits DEF DeliveryInv
      <3> QED
        BY <3>3 DEF given
    <2>2. CASE SignToken(p)
      <3> DEFINE jwt == TRUE
      <3>1. heap' = WithGiven(WithJwt(heap, b, c, jwt), b, c, {p})
        BY <2>2 DEF SignToken, WithGiven, WithJwt
      <3>2. jwt \in BOOLEAN /\ {p} \in SUBSET Push
        BY Zenon
      <3> HIDE DEF jwt
      <3>3. \A d \in Bundle, e \in APNsClient :
               heap'[d].given[e] = IF d = b /\ e = c THEN {p} ELSE heap[d].given[e]
        BY <1>2, <3>1, <3>2, SignedFits DEF DeliveryInv
      <3> QED
        BY <3>3
    <2> QED
      BY <2>1, <2>2
  <1>4. expired \in BOOLEAN /\ ~expired
    BY Zenon
  <1> HIDE DEF expired
  <1>5. r.step = "request" /\ r.bundle = b /\ r.client = c /\ r.expired = expired
    BY <1>1 DEF PushRec
  <1>6. push'[p] = r /\ \A q \in Push \ {p} : push'[q] = push[q]
    BY <1>1, Moves
  <1> HIDE DEF r
  <1>7. SUFFICES ASSUME NEW d \in Bundle, NEW e \in APNsClient, NEW q \in heap'[d].given[e]
                 PROVE  /\ push'[q].step \in {"request", "drop"}
                        /\ push'[q].bundle = d /\ push'[q].client = e
                        /\ push'[q].step = "request" => ~push'[q].expired
    BY DEF OwnToken
  <1>8. CASE q = p
    <2>1. p \notin heap[d].given[e]
      BY <1>1 DEF OwnToken
    <2>2. d = b /\ e = c
      BY <1>3, <1>7, <1>8, <2>1
    <2> QED
      BY <1>4, <1>5, <1>6, <1>8, <2>2
  <1>9. CASE q # p
    <2>1. q \in heap[d].given[e] /\ q \in Push
      BY <1>3, <1>7, <1>9, HeapTyped DEF DeliveryInv, HeapRec
    <2> QED
      BY <1>6, <1>9, <2>1 DEF OwnToken
  <1> QED
    BY <1>8, <1>9

LEMMA InitOwnToken == Init => OwnToken
  <1>1. \A c \in APNsClient : NoBundle.given[c] = {}
    BY DEF NoBundle, Built
  <1> QED
    BY <1>1 DEF Init, OwnToken

LEMMA NextOwnToken == DeliveryInv /\ OwnToken /\ [Next]_vars => OwnToken'
  <1>1. SUFFICES ASSUME DeliveryInv, OwnToken, [Next]_vars PROVE OwnToken'
    OBVIOUS
  <1>2. ASSUME GivenShrinks, push' = push PROVE OwnToken'
    BY <1>1, <1>2 DEF OwnToken, GivenShrinks
  <1>3. ASSUME NEW p \in Push, PushStep(p) PROVE OwnToken'
    BY <1>1, <1>3, WithoutToken, RequestKeepsTokens, DropKeepsTokens, PresentKeepsTokens
    DEF PushStep
  <1>4. ASSUME NEW h \in Change, NEW t \in Transport, NEW c \in Offers[t], SetCred(h, t, c)
        PROVE  OwnToken'
    BY <1>2, <1>4, UnchangedShrinks DEF SetCred, memory
  <1>5. ASSUME NEW h \in Change, Invalidate(h) PROVE OwnToken'
    BY <1>1, <1>2, <1>5, CollectedShrinks DEF Invalidate
  <1>6. CASE Restart
    <2>1. \A c \in APNsClient : NoBundle.given[c] = {}
      BY DEF NoBundle, Built
    <2> QED
      BY <1>6, <2>1 DEF Restart, OwnToken
  <1>7. CASE UNCHANGED vars
    BY <1>2, <1>7, UnchangedShrinks DEF vars, memory
  <1> QED
    BY <1>1, <1>3, <1>4, <1>5, <1>6, <1>7 DEF Next

-----------------------------------------------------------------------------
\* The types of rows, bundles and pushes; there is always a number for a new bundle.
THEOREM TypeCorrect == Spec => []TypeOK
  <1>1. DeliveryInv => TypeOK
    BY DEF DeliveryInv
  <1> QED
    BY <1>1, SpecInv, PTL

\* Cached clients are those of the credentials, but for a change in progress and a push
\* that one has overtaken (dispatcher.go:55-113).
THEOREM BundleIsCurrent == Spec => []BundleCurrentUnlessOvertaken
  <1>1. DeliveryInv => BundleCurrentUnlessOvertaken
    BY DEF DeliveryInv
  <1> QED
    BY <1>1, SpecInv, PTL

\* A push is answered 202 if and only if the platform has confirmed it, and is not sent
\* again then (retry.go:60, send.go:136).
THEOREM ConfirmedOnce == Spec => []ConfirmedIsFinal
  <1>1. DeliveryInv => ConfirmedIsFinal
    BY DEF DeliveryInv
  <1> QED
    BY <1>1, SpecInv, PTL

\* No push is tried more often than its settings allow or waits longer between two
\* attempts, for any width of a duration and any number of attempts (retry.go:54-98).
THEOREM BudgetKept == Spec => []RetriesInBudget
  <1>1. DeliveryInv => RetriesInBudget
    BY DEF DeliveryInv, PushesInOrder, InOrder, RetriesInBudget, At
  <1> QED
    BY <1>1, SpecInv, PTL

\* A push whose provider token had expired presents another one when it is tried again,
\* whichever pushes have renewed or dropped the cached token meanwhile (apns.go:108-112).
THEOREM NewTokenOnRetry == Spec => RetryUsesNewToken
  <1>1. ASSUME DeliveryInv, OwnToken, NEW p \in Push, CachedToken(p)
        PROVE  p \notin heap[push[p].bundle].given[push[p].client]
    <2>1. push[p].step = "use" /\ push[p].client \in APNsClient
      BY <1>1 DEF CachedToken, At
    <2>2. push[p].bundle \in Bundle
      BY <1>1, <2>1, PushFits DEF PushRec, InOrder, Holding
    <2> QED
      BY <1>1, <2>1, <2>2 DEF OwnToken
  <1>2. DeliveryInv /\ OwnToken /\ [Next]_vars =>
          [\A p \in Push : CachedToken(p) /\ push[p].expired =>
              p \notin heap[push[p].bundle].given[push[p].client]]_vars
    BY <1>1
  <1> QED
    BY <1>2, InitOwnToken, NextOwnToken, SpecInv, PTL DEF Spec, RetryUsesNewToken
=============================================================================
