# Pushport: a verification development

[Pushport](../src/README.md) is a push relay. Self-hosted *instances* of an *app* POST
encrypted messages to endpoint URLs; the relay authenticates the instance, opens the
endpoint token, charges the limits of the app's and the instance's *usage plans*, and
forwards the message to APNs, FCM or Web Push. It is one Go process over one SQLite file.

This directory holds TLA+ modules of the parts of the relay whose correctness depends on
interleavings, crashes and arithmetic at a limit, TLC configurations that check them on
small instances, and TLAPS proofs. `PROJECT.json` maps every definition to the lines it
models and lists the runs, the mutations each property is tested against, the hazards and
the theorems.

## 1. The system

| component | state | operations | talks to | modelled by |
|---|---|---|---|---|
| daily quota `ratelimit/quota.go`, `persist.go`, `cli/serve.go` | counts of one UTC day, the dirty tenants, counts set aside over midnight; table `usage_counter` | `Admit`, `Snapshot`, `Restore`, `Load`; flush, cleanup; startup, shutdown | called by the gate; a janitor goroutine flushes | `Quota`, `QuotaStore` |
| usage plans `api/usageplan.go`, `apps.go`, `instances.go`, the schema | plan rows, `usage_plan_id` of apps and instances | create, update, delete, assign; foreign keys and unique indexes | flush the resolver after a write | `UsagePlans` |
| limit resolution `ratelimit/resolver.go` | `cache`, `lastGood` per (app, plan) | `Limits`, `Flush` | reads the plan tables; called by pushes, registrations, subscriptions | `Resolver` |
| rate limiters and gate `ratelimit/limiter.go`, `gate.go` | a token bucket per key, in a map | `Reserve` and its cancel, `Cleanup`, `Gate.Admit` | resolver, quota, x/time/rate | `RateBucket`, `Gate` |
| transport `transport/*.go` | a bundle of clients per app, APNs' signed token | `Send`, `Invalidate`, retries | the platforms; invalidated by credential changes | `Delivery` |
| app credentials `app/credentials.go`, `api/creds.go` | a sealed row per app and transport | set, delete, read | invalidate the app's bundle after a write | `Delivery` |
| send pipeline `api/send.go` | none of its own | `POST /push/{token}` | all of the above and below | `Push`; its limits in `Gate`, its forward in `Delivery` |
| endpoint keys, sealed tokens `app/app.go`, `seal`, `crypto`, `api/device.go` | `key_version`, `min_key_version`; the keyring of the process | seal, open, rotate, revoke | subscriptions, pushes | `Endpoints`, `Tokens` |
| bearer tokens `instance/instance.go`, `app/app.go` | a sealed verifier per app and instance | issue, authenticate, rotate, delete | every request | `Tokens`, `Push`; those of apps in `Registration` |
| registration `api/register.go`, `turnstile` | none of its own | the page, three ways to register | the app's row, Turnstile, limiter, resolver | `Registration` |
| auth throttle `api/throttle.go`, `ip.go` | a token bucket per address | peek before a request, consume after a 401 | limiter, settings | `Throttle`, `ClientAddress` |
| server settings `settings/settings.go` | a row, and a cached copy of it | `Get`, `Flush`, update | retry loop, throttle | `Settings` |
| self-upgrade `cli/upgrade.go` | a file beside the binary | download, verify, rename | the release host | not modelled, see 6 |

Left aside: the generated queries, the command line and the browser console (clients of the
management endpoints), configuration parsing and the formatting of answers. They keep no
state that changes.

### What is hard, and what correct means

*Concurrency.* Every HTTP request is a goroutine. The quota is one mutex, but the clock is
read before it is taken and the rows of a flush are written after it is released. A rate
reservation takes the map's mutex, then the bucket's, and takes the latter once more to
cancel. Three caches, of limits, of clients and of the settings, are filled from reads made
outside their mutex while requests change the rows and flush them. A management request is
several SQL statements, only some in a transaction; a push and a registration read the rows
of their app and instance in several steps while these are changed.

*Failure.* Any statement can fail, and the handlers differ in what they make of it: a flush
puts its rows back, the resolver falls back to the last limits it knew or to none, a failing
load starts the process with empty counts. The process can be killed at any point; a
graceful shutdown gives the handlers 30 seconds and then runs a final flush.

*Time.* Midnight can fall between any two steps. Buckets see clock readings out of order.

Correct then means:

- **quota**: no counter, in memory or on disk, passes its limit; a push is neither counted
  twice nor forgotten by a flush, a failed flush, a rollover or a restart, but for what had
  not been flushed when the process died; the table never goes back; the janitor gets
  everything done in the end;
- **plans**: nothing is ever assigned a plan of another app, kind or scope; defaults stay;
  an app's owner reaches only rows of that app;
- **resolver**: the limits in the cache are those in the tables, but for a change in
  progress; an error never opens the gate for a key that was known;
- **gate**: no key gets more through than its burst, its rate and the time passed allow, but
  for what late clock readings, refunds and evictions give it; a denial is free;
- **delivery**: a push is sent with the credentials the app has, but for a change in
  progress; it is tried a bounded number of times, never again once the platform has
  confirmed it, and its sender learns which it was;
- **tokens and pushes**: what is rotated, revoked, deleted or expired is of no use from the
  next request on, and never works again, however rotations overlap; what is good is never
  refused as bad, whatever fails in the relay; a push is charged if and only if it is handed to the
  dispatcher;
- **registration**: an instance is issued only if its app let it be while the request ran;
- **throttle and settings**: an address is blocked only by its own failures and only as long
  as a token for each of its requests at once takes to refill; a failure costs a token unless
  another one has raced it; what is cached is what the row says, but for a change in
  progress.

## 2. The modules

```
Quota, Meter <- QuotaStore <- QuotaStore_proofs    UsagePlans <- UsagePlans_proofs
                           <- MCQuotaStore                    <- MCUsagePlans
RateBucket <- Gate <- Gate_proofs                             <- Resolver <- MCResolver
                   <- MCGate                       UsagePlans_proofs, Resolver <- Resolver_proofs
Delivery <- Delivery_proofs
         <- MCDelivery
Endpoints <- Tokens <- Push <- Push_proofs         Settings, RateBucket <- Throttle <- MCThrottle
                            <- MCPush              Throttle, ClientAddress <- Throttle_proofs
                                                   ClientAddress <- MCThrottle
Registration <- Registration_proofs
             <- MCRegistration
```

An arrow is EXTENDS, but for `Endpoints <- Tokens` and `Meter <- QuotaStore`, which are INSTANCE with a
refinement mapping.

Definitions keep the names of the code. One action is one critical section, SQL statement
or clock reading: the smallest thing another goroutine can see whole. A definition named
`X_Something` just before `X` is a faulty variant of it, the way a plausible slip would
make it; no specification uses it. Each property is checked against one of them
(`PROJECT.json`, "mutants"), and must be violated by it.

**Quota** is `quota.go`, one action per method. A map entry that is absent is a 0. A tenant
is a counter key, `Limit` its limit, 0 for none. Day 0 is "never used".

**QuotaStore** composes it with one process life after another: `runServe` (`phase`: `down`,
`loading`, `booting`, `up`, `draining`, then `closing` when the handlers were done or
`forced` when the 30 seconds ran out), the janitor (one select loop, so a flush never meets
another one, nor a cleanup), the batch of a flush and the rows of it still to be written
(`batch`, `todo`), the table (`db`), and requests between their clock reading and the lock
(`clock`). `used`, `lost`, `rolledBack` and `loadFailed` are history that no action reads:
how many pushes were ever admitted per day, how many of them no counter knows any more,
whether an `Admit` has moved the counters to an earlier day, whether a load has failed.

**Meter** is the promise of a daily quota without the goroutines: a push is counted for all of its
tenants or none, within their quotas; what is saved is at most what was counted and does not go back
today; all that is ever forgotten is what was not saved. With pushes kept for counted and
the table for saved, `QuotaStore` implements it as long as it is `Clear`: no clock reading overtaken by
midnight has moved the counters back, no startup load has failed. Both are then for good, so
`MeterKept` speaks of the steps up to there.

**UsagePlans** is the plan tables and the management requests that change them. The rows of
all four tables are one set of ids (`live`), with what was deleted in `gone`: ids are random
and are not used again. A plan's limit columns are one number. `req[h]` is what request `h`
does next; between two of its steps other requests, failures and a restart may come. What
the requests ask for is bounded by `Offers`. The app that is created when there is no global default
plan makes one (`NewDefault`), unless a shared plan has taken its name: the insert is then refused, and
the app is created without.

**Resolver** extends it with the callers of `Limits`, each read a step of its own, and with
the flushes. `overlap` and `tainted` are history: the callers that a change has overtaken
between their first read and their store, and the cache entries such a caller has filled.

**RateBucket** is the token bucket of golang.org/x/time/rate as far as the limiter uses it; the library
is not part of the repository. A minute is `Token` ticks and a token `Token` units, so that a bucket
of `perMin` tokens a minute is refilled `perMin` units a tick. Only a wait divides, and is rounded up
to ticks. A bucket has its rate and its burst, set one after the other (`SetLimitAt`, `SetBurstAt`).

**Gate** takes pushes through `Gate.Admit` lock by lock: clock reading, map lock, bucket lock, and a
denied push's cancel under the bucket lock taken anew. A bucket with other limits than the push was
resolved to gets their rate under the bucket's lock and their burst under the lock taken anew, with the
map's held all along (`BucketAt`, `SetBurst`): other pushes reserve and cancel in between, but nobody
enters the map. A reservation remembers the rate it was made at. The quota answers either way. Plans
change at any time, rate and burst (an app's burst is its rate): a push is resolved to any limits its
keys may have, and keeps them. The rest is history. `ideal` is the bucket that only admitted pushes have
taken from. `gained` is what a key has got beyond its rate, from accesses that put its bucket's clock
back and from cancels that give back more than the token they undo. `evicted` is the bucket that was
evicted and not made anew yet, and `renewed` what the new one had that this would not have had.

**Delivery** is `RetryingSender.Send` around `Dispatcher.Send`, for the pushes of one app, with
the credential requests and their `Invalidate`. Bundles of different apps share nothing.
`push[p].step` is where a push is: the cache lookup, the read of the rows, the store, the
client, the request, the drop of a refused APNs token, the sleep. A push holds on to its
bundle while others replace the cached one, so bundles are numbered objects that are
collected when nothing refers to them (`Collect`). An answer is a status code and the reason in
its body; `APNsResult`, `FCMResult` and `WebPushResult` are what the three `map*Result` functions
take it for. A request without an answer is an error of which nobody knows whether it arrived.
The 40 minutes after which a token is signed anew may have passed at any time; FCM's exchange of a
token may fail. The `time.Duration` of the backoff wraps around at `Bits` bits. `given`,
`confirmed`, `overtaken` and `stale` are history: the pushes that have presented a bundle's
current token, those the platform has confirmed, those that have built a bundle from rows
changed since, and whether one of these has filled the cache.

**Endpoints** is the promise of endpoint tokens without a mechanism: a token works from its
first use until its app revokes all of its tokens at once, and never again.

**Tokens** is the mechanism: an app's `key_version` and `min_key_version`, changed by rotations in
transactions that take SQLite's write lock when they begin; subscriptions, which read the clock,
then the version, and hand out a token sealed with it; the bearer tokens of instances and the
verifiers in their rows, rotated and deleted; and the keyring, which may change whenever the
process starts. A sealed blob opens with the secret it was sealed with and no other. Under the
mapping at its end (usable: sealed with a version that is not below the minimum; dead: the others)
it implements `Endpoints`. `revoked` is history, the count of revocations the abstract
specification speaks of.

**Push** is `SendHandler.send` over it, one action per check, read or charge: `Authenticate`,
`OpenKey`, `OpenExpiry`, `ReadBody`, `Admit`, `Send`. A failed read is answered 500. `Admit` and
`Send` answer either way: they are `Gate` and `Delivery`. A token under an old secret is 404 and one
that names a key version the app revoked is 410, without being opened (`OpenKey`). `good` is history:
whether the request would have passed every check at the moment it came. `charged` and `result` say
what was done for it: whether the limits were charged, and what the dispatcher made of it (`Asked`: a
platform was asked; `Unasked`: there were no usable credentials to ask one with).

**Registration** is `register.go` for the four kinds of request (the page, a form, an app's bearer
token, the admin's), one action per limit, read, check or write, with the creation of the app in
its three writes and the later changes of its owner in between. Turnstile keys are numbered, as the owner
may put new ones in the place of the old while a request holds these. `seen` is history: whether the
app was public while a request ran, and which keys it has had (none being one of them).

**Settings** is the row, its cached copy, and the calls of `Get` among updates and flushes;
`overtaken` and `tainted` are history like those of the resolver. **Throttle** extends it with
`Wrap` of the auth throttle for one address, lock by lock like the gate: the settings (`Enter`), the
clock reading of the peek and the peek (`ReadPeek`, `LetIn`, `Block`), which consumes nothing, the
handler (`Leave`, which reads the clock anew on a 401), and `Limiter.Allow` (`BucketAt`, `SetBurst`,
`Reserve`, `CancelDenied`). History are `lastFailure`, `taken` (the tokens that failures have taken), `gained`,
`evicted` and `renewed` as in the gate, and `raced`: the requests past the peek whose token another
one may have taken meanwhile.

**ClientAddress** is the pure part of it: which entry of a forwarded header a client is counted
under. A header is a sequence of lines, of which `Header.Get` sees the first. `MCThrottle` evaluates its
assumptions and checks (`OneBucket`) that what a client writes into the header, in the line that its
proxy appends to or in later ones, does not get it another bucket in the modelled network.

## 3. The runs

| run | instance | properties | shows |
|---|---|---|---|
| `quota_interleaving` | an instance (limit 2), its app (3), two requests, two days, one life | `TypeOK` `NoCounterAboveLimit` `QuotaEnforced` `HeldRowsFinal` `NothingForgotten` | whatever the order of requests, flushes, failed flushes and midnight |
| `quota_restart` | two instances (1 and none), their app (2), one request, two days, two lives | `CountsExact` `MemoryAuthoritative` `GracefulShutdownSavesAll` `OnlyUnflushedLost` `MeterKept` | over crashes, failing loads and shutdowns, and `QuotaStore` implements `Meter` |
| `quota_live` | one request, one life, under fairness | `BackupCatchesUp` `OldRowsDeleted` `ShutdownCompletes` | the janitor gets everything done |
| `quota_stale_clock` | as `quota_interleaving` | `DailyQuota` | **violated**, see 5 |
| `plans` | two apps, two instances of the first; a global, an own, two default and one instance's own plan; two requests | `TypeOK` `AssignmentsInScope` | whatever requests overlap, fail or are cut off |
| `plans_default_lost` | one app, one instance, the global and the app's default plan, one request | `GlobalDefaultStays` | **violated**, see 5 |
| `resolver` | an app with an instance, two app plans, two instance plans, one request, one caller | `ResolverTypeOK` `CacheCurrentUnlessOvertaken` `CachedIsLastGood` `FailsOpenOnlyUnknown` | no write forgets to flush; only a caller overtaken by a change leaves a stale entry; errors fall back to what is known |
| `gate` | an instance that changes between 4 a minute, burst 1, and 2 a minute, burst 2, its app between no limit and 1 a minute; two pushes at a time, three in all, four ticks | `TypeOK` `AdmittedBound` `OnlyAdmittedSpend` `EvictedWhenFull` | rates hold under every interleaving, with late readings, changes of rate and burst, and evictions before a bucket is full |
| `delivery` | APNs and FCM credentials that are set, broken and (FCM) deleted; two pushes of two attempts, one request | `TypeOK` `BundleCurrentUnlessOvertaken` `RetriesInBudget` `ConfirmedIsFinal` `RetryUsesNewToken` | whatever each lookup, fill, token, answer and sleep meets |
| `push` | two apps, an instance, one endpoint token at a time, two rotations at once, three keyrings, two restarts | `TypeOK` `OnlyGoodSent` `GoodNeverRefused` `ChargedWhenHandedOn` `RevocationsFinal` | only what is good is sent, only what is bad is refused, and `Tokens` implements `Endpoints` |
| `throttle` | three requests of one address at once, four in all; 5 a minute, burst 1, and 6 a minute, burst 2; one update, four ticks | `TypeOK` `SettingsCurrentUnlessOvertaken` `FailuresBounded` `UnpaidOnlyIfRaced` `BlockedOnlyByFailures` | the limit holds, costs what it says and blocks nobody else, while failures reserve over one another and the settings and their cached copy change |
| `registration` | a request at a time, six changes of the app | `TypeOK` `RegistrationGuarded` | nobody passes an app's guards between two reads of its row |

### Bounds, and why they are enough

Two days are one rollover, which is all the code can tell apart: it compares days for
equality, but for the cleanup, which compares with today. Two lives are one restart with
what the first has left. Limits of 1, 2 and 3 let one, two or three pushes meet the limit
from both sides of a midnight, and let a tenant be full while the one beside it is not. With
`Limit` 0 a tenant is unlimited. Two requests are enough for one to enter with a clock
reading the other has outdated; the janitor is a third party to them.

Two management requests are enough for one to change a row between two statements of the
other, and with a restart or a failure to be cut off there. Two apps are needed for one to
reach the other's rows; the second has a default plan, since that is a row with limits of its
own. In the resolver one request changes rows while a caller reads: two writers between two
reads of a caller are the same as one that acts twice. `OneKey` keeps the entries of one key at a
time, and looks at those of a second only for a step: entries of different keys share nothing but
the flush, which drops them all.

In `gate` a minute is four ticks. The instance's bucket is one token that refills in a tick or two
that refill in two each, the app's one that takes four, so that a bucket is empty, partly full and full
within the four ticks, and one that is evicted was full or was not: two idle ticks do not refill the
app's. Two pushes at a time are what one needs to come with a reading the other has outdated, to
reserve over the other's reservation and to change the rate between the other's reserve and its
cancel; the third comes after both, to a bucket they have left below zero, or that was made anew.
`MaxStall` is an assumption, not a bound: a push that has read the clock is done with that reading
within one tick, and `Cleanup` evicts a bucket only when it has been idle for at least twice as long,
as 30 minutes are against the lifetime of a request.

Two pushes are enough for one to replace, renew or drop what the other has in hand, and two
attempts for a retry to meet it; with one client that has a token to renew and one that has
none, every step of the code is taken. Each push and the cache hold at most one bundle, so three
numbers are enough (`DeliveryAssumption`; that they never run out is proved). A platform asks for no wait, for the longest
that is waited for, or for more. That the backoff is within its bounds, also once the shift
overflows, which with three bits it does at the second attempt, `BackoffBounded` says of eight
attempts. The two pushes are alike, so the run is symmetric in them.

In `push` one minted token at a time is enough, since what becomes of it depends on its own version
and its app's minimum only, and one request, since requests share nothing but the rows. The first app's key is
rotated twice, so that a token is behind the version by less or by more than the minimum is; the
second's never, its tokens are there to be presented by the wrong instance. Two rotations at once
are what can clobber each other. Of the keyrings one has the old secret, one both and one the new;
two restarts go from the first to the last by way of the other. A token that lives one tick has
expired at the end of the second.

In `throttle` three requests pass the peek together on one token: the first takes it, the others reserve
over one another, and the cancel of the one that reserved first gives nothing back, so that the bucket
is left owing a token. A token takes less than a tick to refill and two take longer, so that the two
reservations act at different ticks. The fourth request finds what the three have left (`LastComesLate`: at
most one of them is still there). The update
changes rate and burst both, while a caller's copy is behind. Buckets are evicted in the last tick. In
`registration` requests share nothing but the app's row, which none of them writes, so that one at a time
is enough. Six changes open an app, protect it, exchange its keys or its token, and undo that while a
request is between its two reads; the three of the app's creation come on top.

### Fairness

`quota_live` is the only run with fairness (`LiveSpec`). Go's `select` chooses at random
among the ready channels, so a janitor that keeps returning to it does not pass over a tick
for ever: strong fairness of `FlushTick`, `FinalFlush` and `Cleanup`. A database call returns
(weak fairness of the upserts). `server.Shutdown` returns after 30 seconds (`DrainTimeout`)
and `main` goes on to its end (`Exit`). No request, signal, restart, midnight or crash is
assumed to come. The table may fail any finite number of times; that it stops failing is
assumed (`<>[][~UpsertFails]_vars`), as nothing is ever saved otherwise.

Deadlock is not checked where the bounds stop the model: the days, starts and pushes of quota and
gate and the requests of the throttle run out. All other runs check it.

## 4. What is proved

`QuotaStore_proofs` proves, for every set of tenants, limits, requests, days and starts:

- type correctness, and every safety invariant and action property the quota's runs check:
  `NoCounterAboveLimit`, `QuotaEnforced`, `CountsExact`, `HeldRowsFinal`, `NothingForgotten`,
  `MemoryAuthoritative`, `GracefulShutdownSavesAll`, `OnlyUnflushedLost`; and
  `BackupNeverRegresses`, which no run checks, as `MeterKept` implies it;
- the refinement `MeterKept`, and from it that a run that stays clear keeps `Meter!Promise`.

The assumptions are those of `Quota` and `QuotaStore` on their constants: limits are natural
numbers, checks are sets of tenants, there is at least one day.

None of these is inductive. The argument is one invariant, `IInv`, the conjunction of

- `TypeOK`; `Bounded`: every copy of a counter, in memory, set aside, in a batch or in the
  table, is at most its limit;
- `NoFutureDays`: no counter, row, batch or reading belongs to a day after today;
- `Control`: which states of the janitor, the batch and the request go with which phase;
- and, as long as no `Admit` has moved the day back: `KeptExact` (memory and set-aside rows
  are exactly the pushes kept of their day), `RowsExact` (a row of a batch is at most what
  memory has, and a held row is exactly the final count) and `TableCurrent` (the table is
  never ahead of what is kept, and where it is behind the difference is dirty, set aside or
  still to be written).

It is needed in this strength because a failed flush merges an old batch into counters that
have moved on: that the larger of two counts is the right one follows only from knowing that
each copy is a value the same growing count once had, and that a copy set aside over a
rollover is its last. Each action is shown to preserve each conjunct it can disturb; the
properties follow from `IInv` at a state or, for the two action properties, at a step. So does the
refinement: an admission is a `Count` because the counters have room where what is kept has
(`KeptExact`), an upsert or a cleanup is a `Save` (`RowsExact`, `TableCurrent`), the end of the process is a
`Forget`; all other steps are stutters of the meter but midnight.

`UsagePlans_proofs` proves, for every set of apps, instances, plans and concurrent requests:
`TypeOK`, `AssignmentsInScope`, and three that no run checks: `OwnDefaultsStay`, the action property
`OtherAppsUntouched`, and `InstancesDeletable`, that deleting an instance never fails on its plan. The
assumption is `PlansAssumption`: the ids of the four tables are
apart, and each plan's app, scope and default mark are as the schema and the inserts make
them. The invariant is `PlansInv`: what these say of the rows, that nothing is assigned to
a row that is not there (`NothingLeftBehind`), and `AllAllowed`: what a request is about to do
was found allowed by a statement before, and is so for good. The last is the heart of it. A
request acts on a SELECT that may be outdated, and that is harmless because all that the SELECT
compares (app, scope, kind, default mark) never changes for an id and ids do not come back; what
does change, that the plan is there, is compared again by the foreign key.

`Push_proofs` proves, for every set of apps, instances, keyrings, rotations, subscriptions and
requests: `TypeOK`, `OnlyGoodSent`, `GoodNeverRefused`, `ChargedWhenHandedOn` and the refinement
`RevocationsFinal`. The assumption is `TokensAssumption`: a keyring holds its primary secret, bounds are
numbers, and `None` is no rotation. The argument has two invariants.

- `TokensInv`: types; `Keys`: a minimum is at most its version, and above 1 only after a revocation;
  `Locked`: the rotation that holds the write lock, and no other, is under way, and what it has read
  is still what the row says; `NotAhead`: no token, and no subscription under way, has a version or
  secret that its row has not reached yet. With it a commit that revokes is a `Revoke` of `Endpoints`
  (every token of the app was sealed with a version the new minimum exceeds), one that does not is
  a stutter, and the answer of a subscription is a `HandOut` or a `Stillborn`.
- `RequestsInv`: a request that has the checks of `Authenticate`, `OpenKey` and `OpenExpiry` before
  it and would pass those now was good when it came. It is inductive because what fails a check
  once fails it for good (`ChecksOnlyFail`, from `RowsGrow`: secrets, minima and the clock only grow,
  and deleted instances do not come back) as long as the process, and with it the keyring, lives; a
  restart ends all requests. The same lemma keeps a refusal justified.

`Registration_proofs` proves, for any number of requests and changes, `TypeOK` and `RegistrationGuarded`.
The invariant says what a request knows at each step (`Justified`) and that what it has seen of
the app includes the app as it is now (`UpToDate`); an app's tokens are never given out twice, so
one that is current now was so when the request came. The challenge a request was solved for is one
that the app had while it ran, and none only if the app had none.

`Gate_proofs` proves, for any instances, apps, rates and bursts and any number of pushes at once,
`TypeOK`, `AdmittedBound`, `OnlyAdmittedSpend` and the action property `EvictedWhenFull`. The assumptions
are `GateAssumption` (each key has a greatest rate and burst, no push acts on a clock reading older
than `MaxStall`, and buckets are evicted after twice that at the earliest) and that a token is at least
one unit. Nothing is assumed of how long a bucket takes to refill. There are three invariants.

- `GateInv`: every push is `InOrder` (what it holds, and what it was resolved to, go with where it
  is), every bucket `Fits` its key, the bucket a push is at work on, or has a token of, stays in
  the map (it was seen at most `MaxStall` before the time the push acts at, so it is not idle), and one
  push at a time puts the buckets of a limiter to other limits.
- `CreditInv`, for `AdmittedBound`. `Covered`: the tokens given to pushes that were admitted or still
  owe theirs, and those in the bucket, less what the greatest rate refills (`Lead`), are no more than
  the greatest burst, what was `gained` and what was `renewed`, whenever the bucket is accessed next.
  `Backed` says the same of the tokens alone, since a bucket that owes has less than none. Both speak
  of the bucket or, while there is none, of the one that was evicted (`Trail`): it goes on to count
  until it is made anew, and what the new one has over it is `renewed`.
- `SpendInv`, for `OnlyAdmittedSpend`: while pushes come one after another, a bucket is `Alike` to
  the ideal one unless the push holds a token of it, and then it is that bucket less this token, with
  its event last (`Taken`), so that the cancel gives back exactly one; and no push has a reading older
  than the bucket's (`OnTime`).

The bound of `AdmittedBound` has its terms `gained` and `renewed` because it is false without them:
readings out of order, refunds and evictions before a bucket is full let more through than burst, rate
and time allow. They count these gains exactly, and the theorem says that there are no others. While
pushes come one after another `gained` is nothing (`SequentialIsStrict`, from `SpendInv`): no access is
then older than the last, and a cancel finds the event its reservation has left. And a bucket that
refills within the idle time is evicted full (`EvictionsLoseNothing`), so that what is renewed is
what a plan with a burst above thirty times its rate gives away, or one whose burst was raised since.

`Throttle_proofs` proves, for any number of callers and updates and any rates and bursts, `TypeOK`,
`SettingsCurrentUnlessOvertaken`, `FailuresBounded` and the action properties `UnpaidOnlyIfRaced` and
`BlockedOnlyByFailures`. Nothing is assumed of how long a bucket takes to refill here either. Besides
type correctness `SettingsInv` says that a caller between its read and its store has what the row says,
unless it is overtaken, and `ThrottleInv` says of requests and bucket what `GateInv` does, and that no
request acts at a time after the last failure. On top of them,

- `RaceInv`, for `UnpaidOnlyIfRaced`: a request past the peek that has not been raced would pass it
  still. What can take that away is another request that takes the token, or one with an older
  reading that puts the bucket's clock back: those are what `raced` records;
- `DebtInv`, for `BlockedOnlyByFailures`: at the oldest reading a request can still come with, the
  bucket has a token for every request past the peek and one more, but for a debt of a token for each
  request there is and what a stall refills. A failure that finds no token cannot deepen the debt by
  more than the token it was let in for, even if its cancel gives nothing back;
- `CreditInv`, for `FailuresBounded`: the account of the gate (`Paid`), with the cancels still to come.

`Throttle_proofs` also proves `AddressNotForged` of `ClientAddress`: behind a proxy the relay believes, a client is
counted under the address that proxy saw and appended, whatever the client wrote into that line of
the header and into others. A proxy that adds a line of its own after the client's is another matter,
since only the first line is read (`ip.go`).

`Resolver_proofs` proves, for any number of apps, plans, requests and callers, `ResolverTypeOK`,
`CachedIsLastGood`, `FailsOpenOnlyUnknown`, and that `ResolverSpec` implements `PlansSpec`: callers
change no row, so that all that is proved of the plans holds beside them. `ResolverInv` says
that a key is in `known` only with limits to fall back to, that what is cached is what it would fall back
to, and that a caller asks for limits of an app. The middle one needs the cache and `lastGood` to be
written under one lock, and the flush not to touch the latter.

It also proves `CacheCurrentUnlessOvertaken`, by `CacheInv`: besides the property itself, that rows which
are not there limit nothing and there is at most one global default (`RowsInOrder`), that what is cached or
being read is of an app that exists (`AppsLive`), and `CurrentSoFar`: what a caller has put together
of the rows it has read by now is what they say still, unless a change has overtaken it. Every step on
the rows either leaves them alone, or has its flush still ahead, or is `Quiet`: the limits of every
key in use are what they were, as when an app is created, an instance issued or deleted, or a plan
made that nobody is under yet (`RowsMove`). That there is no fourth kind is what the property claims
of the eight paths that write.

`Delivery_proofs` proves, for any number of pushes, requests and attempts and any width of a duration,
`TypeOK`, `BundleCurrentUnlessOvertaken`, `ConfirmedIsFinal`, `RetriesInBudget` and the action
property `RetryUsesNewToken`. The parts of `DeliveryInv` are

- `InOrder` of every push: its attempts are within its limit, it holds a bundle exactly while it works
  with one, and it sleeps only while it has attempts left;
- `BuiltFromRows`: a bundle built and not yet stored is that of the rows, unless the push is
  overtaken; with it a store keeps the cache current;
- `OwnToken`: a push counts as given a bundle's token only while it works with that bundle, from its
  request to the drop, and never when it asks again after the token was found expired.

The lemmas it rests on are `RoomForOne` (pushes and cache hold fewer bundles than there are numbers, so one
is free) and `DelayBounded` and `BackoffBounded` (whatever the shift leaves of the delay at `Bits` bits,
the wait is between nothing and the maximum).

So every safety invariant and action property of a passing run is proved. Only model-checked are the
three liveness properties of `quota_live`: liveness under fairness, and what ENABLED says, are out
of the prover's reach, as is induction over data. What the two violated runs show are
counterexamples. No module declares a RECURSIVE operator.

## 5. Where the code and its documentation disagree

Two runs state a sentence of the documentation or of a comment and find it violated; the
details are under "findings".

- `quota_stale_clock`: a request that reads the clock before midnight and takes the lock
  after another has rolled the day moves the counters back; the new day then starts from
  zero once more. `QuotaEnforced` is the guarantee that remains.
- `plans_default_lost`: when the read that guards the global default plan fails, its delete
  goes through.

Met on the way, and not given a run.

*Caches.* Limits read before a change and stored after its flush stay cached (`resolver.go:67`,
against `resolver.go:139`), and so do clients (`dispatcher.go:108`) and settings
(`settings.go:64`, against `api/settings.go:90`); the properties named `...UnlessOvertaken` are the
guarantees that remain. An app moved between two plans, the first of which is deleted, can resolve
to the default plan it never was under (`resolver.go:100`).

*Rates.* Two pushes over the rate that both reserve before either cancels leave the bucket owing a
token (`limiter.go:89`, against `limiter.go:76`); a refund after readings out of order, or after a
change of the rate, can restore more than a token (`limiter.go:95`, against "always conservative" at
`gate.go:29`), and the reading itself refills the time between twice (`limiter.go:82`): `AdmittedBound`
counts these, as `gained`. With a burst above thirty times the rate per minute, which plans may give
an instance and the settings the failures of an address, the burst is there again after 30 idle
minutes (`limiter.go:122`): `renewed`. `Allowed` does not put a bucket to a new limit, so a changed
limit on failures takes effect at an address with its next failure (`limiter.go:101`). Of failures in
flight together only the first may pay: the others get their token back when the bucket is empty, which
the comment at `throttle.go:48` accepts (`UnpaidOnlyIfRaced`). But they may get less than they took, like
the pushes above: three failures on one token leave the bucket owing one, and the address is blocked
for longer than the "time for one failure token to refill" that it is told (`throttle.go:63`). That it
is at most a token for each request at once, and what a stall refills, is what `BlockedOnlyByFailures` guarantees.

*Charges.* A push for which the app has no usable credentials is charged to its instance and app
(`send.go:104`) before the dispatcher finds that there is no platform to ask (`dispatcher.go:131`), and
is answered 503 or 500 (`send.go:122`). `ChargedWhenHandedOn` is the guarantee that remains.

*Plans.* The insert of a global default plan that runs into a shared plan named "default" is taken for
one that another creation has won (`app.go:83`), and the app is created without a default to fall back
to: `NewDefault` leaves it so. It is a second way to what `plans_default_lost` shows.

*Registration.* The guide answers 503 when Cloudflare cannot be reached (`docs/guide/instances.md:128`),
the code 502 (`register.go:182`). Either refuses, which is all that `RegistrationGuarded` asks.

*Failures.* A failing startup load makes flushed counts of the day forgotten (`serve.go:91`, against
`config.go:36`); a handler that outlives the 30 seconds of `Shutdown` is counted after the final
flush (`serve.go:208`, against `serve.go:106`); a plan deleted after its validation leaves an app
renamed and not reassigned (`apps.go:134`, against `apps.go:130`); a push is tried again after any
error, missing or broken credentials included (`retry.go:48`), where the guide has transient
upstream errors (`docs/guide/sending.md:40`). A failed read of an app's token is answered 401
(`middleware.go:36`), where pushes answer 500 (`send.go:57`), and takes a token of the address's
failure budget. When the answer to a rotation of a bearer token is lost, its owner has none that
works. Upgrades that run at once write one temporary file (`upgrade.go:175`).

*Counts.* An app without a daily limit is not counted (`quota.go:49`, against `stats.go:73`).

## 6. What is not modelled, and the plan

Abstracted within the modelled parts: the names, labels and timestamps of rows, the
seven limit columns as one number, the wording and the retry time of answers, the encoding of
day and tenant in `usage_counter`, ciphers and hashes. A failed SQL statement is taken as not
applied; a commit that is reported as failed would need a model of the driver. SQLite runs one
statement at a time. Admission and delivery answer either way in `Push`, limits in
`Registration`: their own modules say what they answer.

Not modelled: the use of an app's bearer token by the management endpoints, which is a guard in
front of each; the counters endpoint, which reads the rows `QuotaStore` writes; self-upgrade,
a command that works on files of the host and shares no state with the relay; the command
line, the configuration, the console, the formatting of answers, migrations.

What comes next, the most important first:

1. **Abstract specifications**: a register of limits implemented by `Resolver`, and one of
   credentials by `Delivery`, but for overtaken callers.
2. **Self-upgrade**: concurrent and interrupted upgrades of one binary.

## 7. Running it

```
tlc -workers 2 -config QuotaInterleaving.cfg MCQuotaStore     # and so on, see PROJECT.json
tlapm QuotaStore_proofs.tla                                   # and the other modules with theorems
```

The modules with theorems are `QuotaStore_proofs`, `UsagePlans_proofs`, `Push_proofs`,
`Registration_proofs`, `Throttle_proofs`, `Resolver_proofs`, `Delivery_proofs` and `Gate_proofs`. The
longest run takes less than three minutes with two workers.
