------------------------------ MODULE Delivery ------------------------------
(***************************************************************************)
(* Forwarding a push to its platform (internal/transport): the retry loop  *)
(* of RetryingSender around Dispatcher.Send, which caches a bundle of      *)
(* clients per app, while management requests change the app's             *)
(* credentials and invalidate the bundle (internal/api/creds.go).  Bundles *)
(* of different apps share nothing, so this is about one app.              *)
(*                                                                         *)
(* Bundles are objects on the heap: they are numbered, 0 for none, and are *)
(* collected once nothing refers to them.                                  *)
(***************************************************************************)
EXTENDS Integers, FiniteSets

CONSTANTS
    Push,           \* pushes that can be under way at once
    Change,         \* credential requests that can be served at once
    Client,         \* the clients of a bundle that are used
    Cred, Broken,   \* what a credential row can say; what builds no client
    None,           \* no row
    Offers,         \* what requests set each transport's row to
    Bundle,         \* numbers for bundles
    Attempts,       \* the values of retry_max_attempts
    Base, MaxWait,  \* retry_base_backoff and retry_max_backoff, in ticks
    Bits,           \* width of a time.Duration
    RetryAfters     \* the waits platforms ask for, 0 for none

Transport  == {"apns", "fcm", "webpush"}
APNsClient == Client \cap {"apns", "apnsSandbox"}
RowOf(c)   == IF c \in APNsClient THEN "apns" ELSE c

ASSUME DeliveryAssumption ==
    /\ Client \subseteq {"apns", "apnsSandbox", "fcm", "webpush"}
    /\ Broken \subseteq Cred /\ None \notin Cred
    /\ Offers \in [Transport -> SUBSET (Cred \cup {None})]
    /\ Bundle \subseteq Nat \ {0} /\ IsFiniteSet(Push) /\ IsFiniteSet(Bundle)
    /\ Cardinality(Bundle) > Cardinality(Push)
    /\ Attempts \subseteq Nat
    /\ Base \in Nat \ {0} /\ MaxWait \in Nat \ {0} /\ Bits \in Nat \ {0}
    /\ Base < 2 ^ (Bits - 1) /\ MaxWait < 2 ^ (Bits - 1) /\ 2 ^ (Bits - 1) < 2 ^ Bits
    /\ RetryAfters \subseteq Nat /\ 0 \in RetryAfters

VARIABLES
    creds,      \* the app's rows of app_credential
    cache,      \* the app's entry of Dispatcher.cache
    heap,       \* each bundle: the rows it was built from; whether an APNs client
                \* of it has a provider token cached (jwt) and, history, the
                \* pushes that have presented that token last (given)
    push,       \* where each push is
    change,     \* what each credential request does next
    \* History, read by the properties only:
    confirmed,  \* pushes the platform has confirmed
    overtaken,  \* pushes that have read rows which were changed since
    stale       \* whether the cache was filled by such a push

memory == <<cache, heap>>
ghosts == <<confirmed, overtaken, stale>>
vars   == <<creds, memory, push, change, ghosts>>

Step    == {"idle", "lookup", "read", "store", "use", "request", "drop", "sleep", "answered"}
Outcome == {"delivered", "gone", "busy", "expired", "badToken", "rejected", "down",
            "error", "notConfigured", "badCreds"}
Max(a, b) == IF a > b THEN a ELSE b

NoPush == [step |-> "idle", client |-> None, limit |-> 1, attempt |-> 0, bundle |-> 0,
           expired |-> FALSE, status |-> 0, wait |-> 0]

Built(rows) == [rows |-> rows, jwt |-> [c \in APNsClient |-> FALSE],
                given |-> [c \in APNsClient |-> {}]]
NoBundle    == Built([t \in Transport |-> None])

Init ==
    /\ creds = [t \in Transport |-> None]
    /\ cache = 0
    /\ heap = [b \in Bundle |-> NoBundle]
    /\ push = [p \in Push |-> NoPush]
    /\ change = [h \in Change |-> "idle"]
    /\ confirmed = {} /\ overtaken = {} /\ stale = FALSE

InUse       == ({cache} \cup {push[p].bundle : p \in Push}) \ {0}
NewBundle   == CHOOSE b \in Bundle \ InUse : TRUE
Presenting  == {p \in Push : push[p].step \in {"request", "drop"} \/ push[p].expired}
Collect(hp) ==
    heap' = [b \in Bundle |->
               IF b \in InUse'
               THEN [hp[b] EXCEPT !.given = [c \in APNsClient |-> @[c] \cap Presenting']]
               ELSE NoBundle]

-----------------------------------------------------------------------------
\* The wait before another attempt.

\* The shift of backoff, in two's complement, and its cap.
Delay(attempt) ==
    LET m == (Base * 2 ^ (attempt - 1)) % 2 ^ Bits
        d == IF m >= 2 ^ (Bits - 1) THEN m - 2 ^ Bits ELSE m
    IN IF d <= 0 \/ d > MaxWait THEN MaxWait ELSE d

\* backoff: what the jitter can make of the delay.
Backoff(attempt) ==
    LET half == Delay(attempt) \div 2
    IN IF Delay(attempt) <= 1 THEN {Delay(attempt)} ELSE half .. 2 * half

\* Faulty variant, for mutation runs: some results have no answer.
Status_NoDefault(out) ==
    CASE out = "delivered"                  -> 202
      [] out = "gone"                       -> 410
      [] out \in {"busy", "notConfigured"}  -> 503
      [] out = "badCreds"                   -> 500
      [] OTHER                              -> None

\* SendHandler.send: the status a result is answered with.
Status(out) ==
    CASE out = "delivered"                  -> 202
      [] out = "gone"                       -> 410
      [] out \in {"busy", "notConfigured"}  -> 503
      [] out = "badCreds"                   -> 500
      [] OTHER                              -> 502

\* Faulty variant, for mutation runs: only a dead endpoint ends the attempts.
Transient_NotGone(out) == out # "gone"

\* transient.
Transient(out) == out \in {"busy", "expired", "down", "error", "notConfigured", "badCreds"}

Answered(status) == [NoPush EXCEPT !.step = "answered", !.status = status]

\* Faulty variant, for mutation runs: one attempt too many.
Decided_OneMore(r, out, after) ==
    IF ~Transient(out) \/ r.attempt = r.limit + 1 \/ after > MaxWait
    THEN {Answered(Status(out))}
    ELSE {[r EXCEPT !.step = "sleep", !.bundle = 0, !.status = Status(out),
                    !.wait = Max(w, after)] : w \in Backoff(r.attempt)}

\* RetryingSender.Send: what a push does after an attempt.
Decided(r, out, after) ==
    IF ~Transient(out) \/ r.attempt = r.limit \/ after > MaxWait
    THEN {Answered(Status(out))}
    ELSE {[r EXCEPT !.step = "sleep", !.bundle = 0, !.status = Status(out),
                    !.wait = Max(w, after)] : w \in Backoff(r.attempt)}

-----------------------------------------------------------------------------
\* The steps of a push.

At(p, step) == push[p].step = step
Go(p, r)    == push' = [push EXCEPT ![p] = r]
To(p, step) == Go(p, [push[p] EXCEPT !.step = step])
After(p, out, after) == \E r \in Decided(push[p], out, after) : Go(p, r)

\* The settings are read once; less than one attempt is one.
Start(p, c, n) ==
    /\ At(p, "idle")
    /\ Go(p, [NoPush EXCEPT !.step = "lookup", !.client = c, !.limit = Max(1, n), !.attempt = 1])
    /\ UNCHANGED <<creds, memory, change, ghosts>>

\* bundleFor: the first critical section.
Lookup(p) ==
    /\ At(p, "lookup")
    /\ IF cache # 0
       THEN Go(p, [push[p] EXCEPT !.step = "use", !.bundle = cache])
       ELSE To(p, "read")
    /\ UNCHANGED <<creds, memory, change, ghosts>>

\* GetCredentials, one SELECT, and the clients that are built from it.
ReadCreds(p) ==
    /\ At(p, "read")
    /\ heap' = [heap EXCEPT ![NewBundle] = Built(creds)]
    /\ Go(p, [push[p] EXCEPT !.step = "store", !.bundle = NewBundle])
    /\ UNCHANGED <<creds, cache, change, ghosts>>

ReadFails(p) ==
    /\ At(p, "read")
    /\ After(p, "error", 0)
    /\ UNCHANGED <<creds, memory, change, ghosts>>

\* bundleFor: the second critical section.
StoreBundle(p) ==
    /\ At(p, "store")
    /\ cache' = push[p].bundle
    /\ To(p, "use")
    /\ stale' = (p \in overtaken)
    /\ overtaken' = overtaken \ {p}
    /\ UNCHANGED <<creds, change, confirmed>>
    /\ Collect(heap)

Row(p) == heap[push[p].bundle].rows[RowOf(push[p].client)]

\* Dispatcher.Send: the bundle has no such client.
NoClient(p) ==
    /\ At(p, "use")
    /\ Row(p) \in Broken \cup {None}
    /\ After(p, IF Row(p) = None THEN "notConfigured" ELSE "badCreds", 0)
    /\ UNCHANGED <<creds, cache, change, ghosts>>
    /\ Collect(heap)

\* FCM has an access token, cached or exchanged; Web Push signs each request.
Sign(p) ==
    /\ At(p, "use")
    /\ Row(p) \in Cred \ Broken /\ push[p].client \notin APNsClient
    /\ To(p, "request")
    /\ UNCHANGED <<creds, memory, change, ghosts>>

\* The exchange of FCM's token fails.
ExchangeFails(p) ==
    /\ At(p, "use")
    /\ Row(p) \in Cred \ Broken /\ push[p].client = "fcm"
    /\ After(p, "error", 0)
    /\ UNCHANGED <<creds, cache, change, ghosts>>
    /\ Collect(heap)

\* providerToken: the cached token.
CachedToken(p) ==
    LET b == push[p].bundle
        c == push[p].client
    IN /\ At(p, "use")
       /\ Row(p) \in Cred \ Broken /\ c \in APNsClient
       /\ heap[b].jwt[c]
       /\ Go(p, [push[p] EXCEPT !.step = "request", !.expired = FALSE])
       /\ heap' = [heap EXCEPT ![b].given[c] = @ \cup {p}]
       /\ UNCHANGED <<creds, cache, change, ghosts>>

\* providerToken: there is none, or it is 40 minutes old, which it may be by now.
SignToken(p) ==
    LET b == push[p].bundle
        c == push[p].client
    IN /\ At(p, "use")
       /\ Row(p) \in Cred \ Broken /\ c \in APNsClient
       /\ heap' = [heap EXCEPT ![b].jwt[c] = TRUE, ![b].given[c] = {p}]
       /\ Go(p, [push[p] EXCEPT !.step = "request", !.expired = FALSE])
       /\ UNCHANGED <<creds, cache, change, ghosts>>

\* No answer comes; whether the platform has the message is not known.
RequestFails(p) ==
    /\ At(p, "request")
    /\ After(p, "error", 0)
    /\ UNCHANGED <<creds, cache, change, ghosts>>
    /\ Collect(heap)

\* What is made of an answer: its status and what its body gives as the reason.
Code   == {200, 201, 400, 403, 404, 410, 429, 500, 503}
Reason == {"none", "BadDeviceToken", "ExpiredProviderToken", "InvalidProviderToken",
           "UNREGISTERED"}
Other(code) == IF code \in {429, 503} THEN "busy" ELSE IF code >= 500 THEN "down" ELSE "rejected"

APNsResult(code, reason) ==
    CASE code = 200                                              -> "delivered"
      [] code = 410 \/ (code = 400 /\ reason = "BadDeviceToken") -> "gone"
      [] code = 403 /\ reason = "ExpiredProviderToken"           -> "expired"
      [] code = 403 /\ reason = "InvalidProviderToken"           -> "badToken"
      [] OTHER                                                   -> Other(code)

FCMResult(code, reason) ==
    CASE code = 200                                            -> "delivered"
      [] code = 404 \/ (code # 200 /\ reason = "UNREGISTERED") -> "gone"
      [] OTHER                                                 -> Other(code)

WebPushResult(code) ==
    CASE code \in {200, 201} -> "delivered"
      [] code \in {404, 410} -> "gone"
      [] OTHER               -> Other(code)

Says ==
    [c \in Client |->
        CASE c \in APNsClient -> {APNsResult(k, r) : k \in Code, r \in Reason}
          [] c = "fcm"        -> {FCMResult(k, r) : k \in Code, r \in Reason}
          [] c = "webpush"    -> {WebPushResult(k) : k \in Code}]

PlatformAnswers(p, out, after) ==
    /\ At(p, "request")
    /\ out \in Says[push[p].client]
    /\ after # 0 => out = "busy"
    /\ IF out \in {"expired", "badToken"}
       THEN Go(p, [push[p] EXCEPT !.step = "drop", !.expired = (out = "expired")])
       ELSE After(p, out, after)
    /\ confirmed' = IF out = "delivered" THEN confirmed \cup {p} ELSE confirmed
    /\ UNCHANGED <<creds, cache, change, overtaken, stale>>
    /\ Collect(heap)

Dropped(b, c) == [heap EXCEPT ![b].jwt[c] = FALSE, ![b].given[c] = {}]

\* Faulty variant, for mutation runs: a token that has expired is kept.
DropToken_OnlyInvalid(p) ==
    LET b == push[p].bundle
        c == push[p].client
    IN /\ At(p, "drop")
       /\ After(p, IF push[p].expired THEN "expired" ELSE "badToken", 0)
       /\ UNCHANGED <<creds, cache, change, ghosts>>
       /\ Collect(IF push[p].expired THEN heap ELSE Dropped(b, c))

\* invalidateToken: whichever token is cached by now.
DropToken(p) ==
    LET b == push[p].bundle
        c == push[p].client
    IN /\ At(p, "drop")
       /\ After(p, IF push[p].expired THEN "expired" ELSE "badToken", 0)
       /\ UNCHANGED <<creds, cache, change, ghosts>>
       /\ Collect(Dropped(b, c))

\* The sleep is over.
Wake(p) ==
    /\ At(p, "sleep")
    /\ Go(p, [push[p] EXCEPT !.step = "lookup", !.attempt = @ + 1, !.status = 0,
                             !.wait = 0])
    /\ UNCHANGED <<creds, memory, change, ghosts>>

\* The client has gone away: the last result is the push's.
ClientGone(p) ==
    /\ At(p, "sleep")
    /\ Go(p, Answered(push[p].status))
    /\ UNCHANGED <<creds, cache, change, ghosts>>
    /\ Collect(heap)

\* SendHandler.send is done.
Finish(p) ==
    /\ At(p, "answered")
    /\ Go(p, NoPush)
    /\ confirmed' = confirmed \ {p}
    /\ UNCHANGED <<creds, memory, change, overtaken, stale>>
-----------------------------------------------------------------------------
\* The credential requests.

\* Faulty variant, for mutation runs: a row that is new invalidates nothing.
SetCred_NewRow(h, t, c) ==
    /\ change[h] = "idle"
    /\ creds' = [creds EXCEPT ![t] = c]
    /\ change' = IF creds[t] = None THEN change ELSE [change EXCEPT ![h] = "invalidate"]
    /\ overtaken' = IF creds' # creds THEN overtaken \cup {p \in Push : At(p, "store")}
                    ELSE overtaken
    /\ UNCHANGED <<memory, push, confirmed, stale>>

\* setCred and DeleteCredentials: the statement that writes the row.
SetCred(h, t, c) ==
    /\ change[h] = "idle"
    /\ creds' = [creds EXCEPT ![t] = c]
    /\ change' = [change EXCEPT ![h] = "invalidate"]
    /\ overtaken' = IF creds' # creds THEN overtaken \cup {p \in Push : At(p, "store")}
                    ELSE overtaken
    /\ UNCHANGED <<memory, push, confirmed, stale>>

\* onCredsChange.
Invalidate(h) ==
    /\ change[h] = "invalidate"
    /\ cache' = 0
    /\ change' = [change EXCEPT ![h] = "idle"]
    /\ stale' = FALSE
    /\ UNCHANGED <<creds, push, confirmed, overtaken>>
    /\ Collect(heap)

\* The process stops and starts again: only the rows are left.
Restart ==
    /\ cache' = 0
    /\ heap' = [b \in Bundle |-> NoBundle]
    /\ push' = [p \in Push |-> NoPush]
    /\ change' = [h \in Change |-> "idle"]
    /\ confirmed' = {} /\ overtaken' = {} /\ stale' = FALSE
    /\ UNCHANGED creds

-----------------------------------------------------------------------------
PushStep(p) ==
    \/ \E c \in Client, n \in Attempts : Start(p, c, n)
    \/ Lookup(p) \/ ReadCreds(p) \/ ReadFails(p) \/ StoreBundle(p)
    \/ NoClient(p) \/ Sign(p) \/ ExchangeFails(p) \/ CachedToken(p) \/ SignToken(p)
    \/ RequestFails(p) \/ DropToken(p)
    \/ \E out \in Outcome, after \in RetryAfters : PlatformAnswers(p, out, after)
    \/ Wake(p) \/ ClientGone(p) \/ Finish(p)

Next ==
    \/ \E p \in Push : PushStep(p)
    \/ \E h \in Change :
         \/ \E t \in Transport : \E c \in Offers[t] : SetCred(h, t, c)
         \/ Invalidate(h)
    \/ Restart

Spec == Init /\ [][Next]_vars

-----------------------------------------------------------------------------
\* Properties.

\* Every variable has its type.
TypeOK ==
    /\ creds \in [Transport -> Cred \cup {None}]
    /\ cache \in Bundle \cup {0}
    /\ heap \in [Bundle -> [rows : [Transport -> Cred \cup {None}],
                            jwt : [APNsClient -> BOOLEAN],
                            given : [APNsClient -> SUBSET Push]]]
    /\ push \in [Push -> [step : Step, client : Client \cup {None}, limit : Nat, attempt : Nat,
                          bundle : Bundle \cup {0}, expired : BOOLEAN, status : Nat,
                          wait : Int]]
    /\ change \in [Change -> {"idle", "invalidate"}]
    /\ confirmed \subseteq Push /\ overtaken \subseteq Push /\ stale \in BOOLEAN

\* The cached clients are those of the rows but for the time a change needs to
\* reach its Invalidate, unless the push that has built them had read the rows
\* before a change (dispatcher.go:55-113, creds.go:71, 89).
BundleCurrentUnlessOvertaken ==
    (\A h \in Change : change[h] = "idle") /\ cache # 0 /\ ~stale => heap[cache].rows = creds

\* A push is tried at most as often as the settings allow, however results and
\* invalidations fall, and sleeps in between for no longer than the maximum, an
\* answer that asks for more ending it (retry.go:54-98).
RetriesInBudget ==
    \A p \in Push :
        /\ push[p].attempt <= push[p].limit
        /\ At(p, "sleep") => push[p].wait \in 1 .. MaxWait

\* A push the platform has confirmed is not sent to it again, and its sender is
\* told so; no other push is answered 202 (retry.go:60, send.go:136).
ConfirmedIsFinal ==
    \A p \in Push : p \in confirmed <=> At(p, "answered") /\ push[p].status = 202

\* The retry of a push whose provider token had expired presents another one,
\* whichever pushes have taken, renewed or dropped the cached token meanwhile
\* (apns.go:108-112).
RetryUsesNewToken ==
    [][\A p \in Push : CachedToken(p) /\ push[p].expired =>
         p \notin heap[push[p].bundle].given[push[p].client]]_vars
=============================================================================
