# TLA+ verification of cloud-gpu-shopper

cloud-gpu-shopper is a service that rents GPU instances from several providers
(Vast.ai, TensorDock, Blue Lobster) on behalf of consumers and promises that
nothing it rents is forgotten: "zero orphaned instances". This directory holds
TLA+ models of the code that keeps that promise, the TLC runs that check them on
small instances, and TLAPS proofs of all the invariants for any number of
sessions and callers. Around that core it models what the promise stands on: the
provider clients, the offers a request can be given, the retries over them, and the
bill.

All paths below are relative to the repository's root.

## 1. Inventory of the system

| Component | Code | State | Operations |
|---|---|---|---|
| Session store | `internal/storage/sessions.go`, `db.go`, `pkg/models/session.go` | table `sessions`, partial UNIQUE index on (consumer, offer) over active rows | Create, Get, Update (whole row), queries by status, provider, expiry |
| Provisioner | `internal/service/provisioner/service.go` | one goroutine per creating request, one per verification, map of per-session destroy mutexes | CreateSession, waitFor{SSH,API}VerifyAsync, failSession, DestroySession |
| Lifecycle manager | `internal/service/lifecycle/manager.go` | one ticker goroutine | checkHardMax, checkReservationExpiry, checkStuckSessions, checkFailedDestroys; SignalDone, ExtendSession |
| Reconciler | `internal/service/lifecycle/reconciler.go` | one ticker goroutine | RunReconciliation (orphans, ghosts), RecoverStuckSessions |
| Startup and shutdown | `internal/service/lifecycle/startup.go`, `cmd/server/main.go` | ready flag | RunStartupSweep, GracefulShutdown |
| API | `internal/api/` | none | create, delete, done, extend, queries |
| Provider clients | `internal/provider/` | circuit breaker, rate limiter, template cache | CreateInstance, DestroyInstance, GetInstanceStatus, ListAllInstances, ListOffers, ListTemplates, GetAccountBalance |
| Inventory | `internal/service/inventory/service.go` | offer cache per provider and filter, background refreshes | ListOffers, GetOffer, EvictOffer, InvalidateCache, FindComparableOffers |
| Failure tracker | `internal/service/inventory/failure_tracker.go`, `internal/storage/failures.go` | failures and suppressions per offer, in memory and in two tables | RecordFailure, IsSuppressed, cleanup, LoadFromStore |
| Automatic retry | `internal/service/provisioner/service.go` | the chain of sessions of one request: `failed_offers`, parent and child ids | createSessionWithRetry's recursion, triggerAsyncRetry |
| Cost tracker | `internal/service/cost/tracker.go`, `internal/storage/costs.go` | cost rows per session and hour | runAggregation, RecordFinalCost, summaries, budgets |
| Benchmarks | `internal/service/benchmark/`, `internal/benchmark/` | runs in memory, manifest rows | StartRun, processRun, CancelRun, scheduler |
| CLI, config, logging, metrics, file transfer, SSH | `cmd/cli`, `internal/...` | none the services read back | I/O |

How they interact: every service component holds pointers to the same session
store and the same provider registry; there are no messages between them. The
API handlers and the manager's and reconciler's tickers call the provisioner, the
verification goroutine is started by CreateSession and outlives the request, and
everything else is shared rows. `Update` writes every mutable column of the row
its caller read earlier and looks neither at the stored status nor at a version,
so each component must tolerate that its knowledge is stale and that its own
writes are undone.

What is hard here:

- *interleaving*: creators, verifiers, destroyers (user, manager), reconciler,
  ExtendSession and shutdown act on one session at the same time;
- *failure*: each database or provider call may fail, and a failed CreateInstance
  may have created the instance;
- *crash and restart*: goroutines vanish between any two calls, rows and instances stay;
- *cancellation*: a benchmark run is cancelled at any moment, and from then on every
  call with the context of the run fails, the ones that record the outcome included;
- *unreliable providers*: a request is lost, refused, answered with an error inside a
  success, throttled and sent again, or refused by a circuit breaker that all calls share;
- *stale data served on purpose*: offers are handed out of a cache while a goroutine
  refreshes it, and are evicted and invalidated under its feet;
- *write-behind*: the failure tracker's goroutines reach the database in any order, or
  after a crash not at all;
- *two ways to retry and two ways to bill*, which meet in the rows only;
- *time*: reservation, hard maximum, stuck timeout and ghost grace period all count
  from `CreatedAt`; a reconciliation pass compares a list and rows of different moments.

What makes the components correct: an instance always has a row (two-phase
provisioning); a running row can be destroyed (it has the instance id); one
active session per consumer and offer; the reconciler stops only sessions that
are gone; every session and every billed instance ends; the hard maximum wins. A
benchmark run provisions one entry at a time, destroys every session that
CreateSession returned to it, keeps the results it has, and ends with a status that
agrees with its manifest. A client's
answer is justified by what the provider had at some moment of the call, and nothing
is created twice. A cache entry is never stuck in a refresh. Failures count until they
decay, over restarts, and an offer is hidden only with cause. A request never tries an
offer twice nor goes on after a session that runs. No hour is billed twice, and the
summaries agree with the rows.
`PROJECT.json` lists the hazards with the line where each bites and the property
that would catch it.

## 2. Modules

| Module | Models | Composes |
|---|---|---|
| `SessionStore` | the table, its index, the provider's instances, the clock, the fault budget | |
| `Provisioner` | CreateSession, verification, DestroySession | `SessionStore` |
| `Lifecycle` | manager, reconciler, API operations, crash, restart, shutdown | `Provisioner` |
| `LifecycleTypes` | proof of the type invariant, action by action | `Lifecycle` |
| `LifecycleProofs` | proofs of the safety invariants | `LifecycleTypes` |
| `BenchmarkRunner` | one benchmark run: StartRun, CancelRun, processRun, the workers, the manifest | |
| `BenchmarkProofs` | its type and safety theorems | `BenchmarkRunner` |
| `ProviderErrors` | the error sentinels, what callers read off an error, the circuit breaker | |
| `ProviderAdapters` | what each operation of the three clients makes of each reply | `ProviderErrors` |
| `ProviderClient` | calls, requests, resends, polls, the breaker, and the provider serving them | `ProviderAdapters` |
| `ProviderContract` | the abstract specification: what the services rely on from `provider.Provider` | implemented by `ProviderClient` |
| `ProviderProofs` | its type theorem and the proof of the refinement | `ProviderClient`, `ProviderContract` |
| `OfferCache` | the inventory's cache with its background refreshes | |
| `OfferCacheProofs` | its type and safety theorems | `OfferCache` |
| `FailureTracker` | failures, suppressions, their goroutines and tables, crash and reload | |
| `FailureTrackerProofs` | its type and safety theorems | `FailureTracker` |
| `AutoRetry` | the sessions of one request with `auto_retry`, and a DELETE among them | |
| `AutoRetryProofs` | its type and safety theorems | `AutoRetry` |
| `CostTracker` | the costs table, its writers and its queries | |
| `CostTrackerProofs` | its type and safety theorems | `CostTracker` |
| `MC...` | instances for TLC | |

**State.** `row[s]` is the stored row, reduced to `status`, `pid` (does
`provider_instance_id` hold the id?), `ssh` (is the SSH host known?) and `exp`
(`expires_at` from `created_at`). A session makes at most one CreateInstance call
(`InstanceOnceAlways`, section 4), so its instance is named by the session: `inst[s]` is
none, boot, up, down or gone. `age[s]` is the time since creation. A goroutine is a
program counter and the copy of the row it read: `crPc/crRow` (creator),
`vfPc/vfRow/vfErr` (verifier), `dcPc/dcSess/dcRow/dcLock/dcTry` (calls of
DestroySession), `mgStage/mgTodo/mgRow/mgCur` (manager),
`rcPc/rcSeen/rcRow/rcTodo/rcAge` (reconciler), `edPc/edSess/edRow` (ExtendSession),
`phase/bootTodo/sdTodo` (the process itself).

In `BenchmarkRunner`, `man[e]` is the manifest row of an entry (its status, the
attempt whose session id it holds, whether it has a cost), `sess[e][a]` the session of
an attempt, the one that CreateSession returned, as `GetSession` reports it, `gate` the
tokens in the channel `provisionSem`, `run` and `ctx` the status and the context of the
run. processRun is `prPc/prTodo/prCur`, the goroutine of an entry `wPc/wTry/wSess`,
CancelRun `cnPc`. The provisioner and the lifecycle manager appear as what they do to a
session: it is verified (`SessionVerified`), fails its verification (`SessionFails`), is
destroyed, or ends by itself (`SessionEnds`). The runner asks for AutoRetry with
MaxRetries 2 (`runner.go:591`), so a session that fails may be followed by others, made
in the background, whose ids the run never learns; a session may also be given up inside
CreateSession while the statement that says so fails (`SessionLost`). `stray` is set
when there is such a session. A new attempt has a consumer id of its own,
`bench-<entry>-<attempt>`, so the duplicate-session branch (`runner.go:607-611`) cannot
be taken and is left out. The manifest status timeout is folded into failed: nothing in
a run tells them apart.

In `ProviderClient`, `vendor` says which client is looked at, `inst[s]` the provider's
instance of a session, `call[c]` the call a goroutine is making: operation, stage
(Vast.ai attaches a key after it creates, Blue Lobster polls a task and then reads the
instance), how often it resent or polled, the reply, the answer. A request goes from
`check` (the breaker) to `sent`, is served or fails, and the reply is interpreted by
the operator of `ProviderAdapters` with the name of the method. `ProviderContract`
keeps only `inst` and `ask[c]`: it has actions for an instance that appears, is refused
or vanishes at any moment, and it lets a call return an answer only when it was true
at some moment between call and return. The refinement mapping forgets the breaker,
stages and replies and takes a launch task for an instance that was asked for.

In `OfferCache`, `cache[k]` is the entry of provider and filter `k` with its age
(fresh, stale, expired), error and refreshing flag; `call[c].at[k]` and `refr[g]` are
the goroutines of a request and of a refresh, with a step per use of the mutex. In
`FailureTracker`, `mem/supp` are in memory, `db/dbSupp` in the tables, `jobs` the
goroutines between them; `log` and `lost` are history variables the properties speak
of. In `AutoRetry`, `rows` is the chain of sessions made for one request, `chain` the
goroutine that works on it, `stack` and `links` the frames of the recursion that still
hold copies of older rows, `del` a DELETE. In `CostTracker`, `costs[s, h]` is the number
of rows for an hour, `pass` and `final` what the hourly pass and RecordFinalCost still
have to write. `ses` is what billing sees of the rows, with every writer that ends a
session: failSession (`vf` says whether the goroutine polls or is calling the provider
to fail the session), DestroySession (`stopping`, between its two writes), handleGhost,
checkStuckSessions and, after a crash, RecoverStuckSessions (`recovering`).

**Atomicity.** A step is one database or one provider call with the computation
around it. SQLite serialises statements; provider calls take effect at one moment.
Between two steps of a goroutine any other goroutine may run. The exceptions, each
named in a comment, are pairs of calls in a row by one goroutine, such as the double
DestroyInstance of a stopped instance and the status call and row write of startup
recovery, which runs alone (`Alone`, section 4).

**Faults.** `Fault` is any call that fails, a lost CreateInstance reply, a host that
stops or reclaims an instance, a reconciliation pass that takes longer than `PassMax`, a
crash or a SIGTERM. `MaxFaults` bounds how many
happen in one behaviour; the proofs hold for every bound. A fault that happens is
always a nondeterministic alternative of the action, never a replacement.

**External parts.** The lifecycle modules take the provider clients by what
`ProviderClient` shows of them. `ListAllInstances` is exact at the moment it is called,
or fails; for the sessions in `HidesErrors`, those of TensorDock, whose client makes an
empty list of most failures (`tensordock/client.go:847-855`), the reconciler goes on with
an empty list instead. A DestroyInstance call that reports success has destroyed the
instance. The code itself defends against a lagging list only with the ghost grace
period. `ProviderClient` looks behind these assumptions: its provider serves requests at
one moment, and refuses, throttles, fails or loses them. It shows that a successful
DestroyInstance means that the instance is gone, for all three clients, and that the
list is exact, except TensorDock's (section 3).

**Abstractions that lose something.** `vfErr` is "the last SSH attempt failed"; the code
counts three permanent errors in a row, so the model may fail a session earlier. Circuit
breaker timeouts, cache expiry and verification timeouts are events that may happen at
any moment after their start. The breakers of the three clients are copies of one
another and modelled once. What the inventory lists and holds comparable is, to
`AutoRetry`, any set of offers. Amounts are counted in hours at a session's price.
`AutoRetry` leaves out the Update of the SSH address in mid-poll (`service.go:1034`),
which changes no column the chain looks at, and takes DestroySession's first read and
write (`service.go:1182, 1226`) as one step. `CostTracker` reads and writes a row in one
step, unless a provider call that a bill depends on lies between: stale copies are the
matter of `Lifecycle`, and a checkStuckSessions listing that straddles an hour is not
covered. Of GetSummary it has the total; the breakdowns by provider and GPU type are not
modelled. The verification timeout and ctx.Done may happen at any poll. The time in a
transitional state is, as in the code, the age of the session. SSH keys, prices, tags,
diagnostics, metrics and log lines are left out.

## 3. Runs

| Run | Config | Checks | Shows |
|---|---|---|---|
| `lifecycle_safety` | `MCLifecycleSafety.cfg` | TypeOK, InstanceHasRecord, RunningHasInstanceID, GhostsAreGone, StoppedIsGone, RecoverySelects | all processes, one user and the manager destroying, one fault anywhere |
| `lifecycle_liveness` | `MCLiveness.cfg` | InstancesReclaimed, SessionsEnd, FailedIdCleared | everything ends, with one fault anywhere |
| `lifecycle_extend` | `MCExtend.cfg` | SessionsEnd, HardMaxEnforced | extensions, stored from old copies, against everybody else; no faults, as both together are beyond TLC |
| `provisioner_twins` | `MCTwins.cfg` | UniqueActive | two requests for one offer, an entrypoint session, an unregistered provider |
| `benchmark_run` | `MCBenchmark.cfg` | TypeOK, GateExclusive, NoSessionLeft, StraysAreRetries, EndedMeansDone, SuccessIsFinal, RunEnds | 1.2 million states; two entries, two attempts, one failed call, cancellation at any moment |
| `provider_clients` | `MCProviders.cfg` | TypeOK, KeepsContract, BreakerRecovers, CallsReturn | each client implements `ProviderContract` with two failures anywhere; every call returns, the circuit closes again |
| `offer_cache` | `MCOfferCache.cfg` | TypeOK, FlagHasRefresh | no refresh flag outlives its refresh, whatever is evicted, invalidated or expired meanwhile |
| `failure_tracker` | `MCFailureTracker.cfg` | TypeOK, HistoryKept, SuppressionEarned | what was stored counts until it decays, over crashes; nothing is hidden without cause |
| `auto_retry` | `MCAutoRetry.cfg` | TypeOK, OfferOnce, RetryLimit, RunningIsLast | the retries in the request and after it keep one limit and one list of failed offers |
| `billing` | `MCBilling.cfg` | TypeOK, NeverOverbilled, FailedSessionBilled, MonthsAddUp | the two writers of costs never bill an hour twice, what failSession fails is billed in full, the months add up |
| `legitimate_orphan` | `MCOrphan.cfg` | LegitimateNotOrphan, violated | finding 1 |
| `billing_unrecorded` | `MCBillingEnded.cfg` | EndedSessionBilled, violated | finding 2 |

**Bounds.** One session is enough for the lifecycle runs because processes of
different sessions share only the unique index, which `provisioner_twins` covers
with three sessions. Timers are 1 or 2 ticks and `MaxAge` lies beyond all of them,
so every timer can fire in every order; `Aged` stops counting at `MaxAge` and the
order of ages above all limits does not matter. `DestroyRetries` = 2 exercises both
branches of the retry. One fault is the smallest number that breaks each of the
protections in turn: the liveness properties need a bound, because a provider that
fails for ever is never cleaned up. A slow pass uses up the fault. `HidesErrors` is the
session in `lifecycle_liveness`, so that the fault may be an empty list, and empty in the
other runs. Two mutexes suffice for two callers (three for
three): a mutex that nobody refers to is allocated again. Two entries are the fewest
that compete for the gate, and `MaxAttempts` = 2 is the code's constant. A fetch of
pending entries is limited to 1000 in the code; `FetchLimits` = {1, 2} lets the two
entries come in one batch or in two, and a budget of one entry may be spent between them.

The newer runs:

- `provider_clients`: a caller and the reconciler share a client, so requests meet at
  the breaker; a threshold of 2 with 2 faults opens it, one resend and two polls reach
  both ends of each loop. One session: calls for different sessions share the breaker
  only, and a list of one instance can already be short.
- `offer_cache`: an unfiltered and a filtered key of one provider (the two kinds of
  entries GetOffer and EvictOffer tell apart), requests for either, two refreshes, so
  that the second starts while the first is out, one failed fetch, which starts a backoff.
- `failure_tracker`: a threshold of 2 and four failures make two suppressions possible;
  window and cooldown 2, decay 4, time up to 6, so each expires within a behaviour and
  one failure decays; `StoreDelay` 1, so a goroutine may date its row a tick late; one
  failed statement and any number of crashes.
- `auto_retry`: three offers on two machines, `max_retries` 0 and 3 against limits of 1
  and 2, so that the default and the cap both bite and a request can retry once on each
  side; one other request of the consumer, one failed call, one DELETE at a time.
- `billing`: two ticks in an hour, one hour in a month, time up to 3: a session can begin
  and end in one hour or cross the bound of an hour and a month; `Grace` 0, so ghosts are
  found at once and stuck sessions after a tick; one failed statement, one crash.
  `billing_unrecorded` has the code's proportions, twelve ticks in an hour and a grace
  period of two.

**Deadlock** is checked in the lifecycle, provider and cache runs (tickers and requests
never stop) and switched off where requests, time or failures run out: `ProvSpec`, a
benchmark run, the tracker, the chain of one request, billing.

**Fairness** (`Lifecycle!Fairness`). Weak fairness for goroutines that can go on:
Go's scheduler runs them and every call has a timeout. Strong fairness for giving
up a verification (its timeout channel is ready in each `select` from some moment
on, and `select` chooses fairly among ready channels), for callers of DestroySession
(Go's mutex is starvation-free) and for time. Weak fairness for the manager, the
reconciler and the start of the process (tickers, and a supervisor that restarts
the server). Users, hosts and failures have none. `BenchmarkRunner!Fairness` is weak
for processRun and strong for a worker: a goroutine blocked on a send to
the gate is queued first in, first out, so it gets its turn. `ProviderClient!Fairness`
is weak for the steps of a call (every HTTP client has a timeout, so a request that is
sent is answered or fails), for the reconciler's next listing (its ticker; without it
nobody might ever probe a half open circuit) and for the reset timeout. That the launch
task of Blue Lobster ends is not assumed.

**Findings**, each with a run:

1. The reconciler destroys the instance of a legitimate session that was created
   before the provider was listed and recorded after the rows were read. Ghosts
   have a grace period, orphans have none.
2. RecordFinalCost, documented to record a session that has terminated, is called by
   failSession only. A session that is stopped, by a DELETE, the manager or the reconciler,
   is billed for what the hourly passes saw: nothing, when it was short. The same goes for
   one that checkStuckSessions (`manager.go:441-459`) or RecoverStuckSessions stores as
   failed: FailedSessionBilled speaks of the sessions that failSession failed.

**Known disagreements without a run.** These properties are stated in the modules, in
the words of the documentation, and the code violates them:

- `Lifecycle!PendingEnds`: a request refused by ValidateDiskSpace, or a crash between
  the INSERT and the next Update, leaves the row `pending` for ever; no sweep selects
  pending rows and the unique index refuses the offer to that consumer from then on.
  An extension that was read while the session was pending throws it back there, too
  (the exception in SessionsEnd): if the server crashes before the creator's next
  Update, the session never ends. TLC found this with an editor and one crash.
- `Provisioner!DestructionVerified`: destroyWithVerification accepts any status that is
  not Running: a destroy call that fails while the instance boots counts as verified.
  What holds is StoppedIsGone: as long as nothing fails, stopped means gone.
- `Provisioner!OneDestroyPerSession`: cleanupDestroyLock takes a mutex out of the map
  while others wait on it, so two destroy operations of one session can run at once.
  StoppedIsGone and RunningHasInstanceID hold for any number of them.
- `ProviderClient!ListShowsOurs`: TensorDock's ListAllInstances makes an empty list
  without an error of every status but 200, 401 and 403; the reconciler then stops all
  older sessions of the provider as ghosts while their instances run. `Lifecycle` has this
  list (`HidesErrors`): GhostsAreGone excepts it, and `lifecycle_liveness` shows that the
  instances are reclaimed nevertheless, as orphans of a later pass.
- `BenchmarkRunner!BudgetRespected`: MaxBudget, the "Total $ budget for the run", is
  compared with the cost once, before all fetched entries are dispatched. When it is
  found spent and rows beyond the limit of the fetch are pending, the loop ends and the
  run is shown as running for ever: this is the last alternative of RunEnds.
- `BenchmarkRunner!RunSessionsGone`: cleanupRunSessions "destroys any sessions still active
  from a completed/cancelled run" (`runner.go:911`). The manifest does not name the
  sessions that automatic retries make, so they outlive a run, without any failure, until
  the lifecycle manager ends them. What holds is StraysAreRetries.

**Observed while modelling**, behaviour of the code that no property forbids:

- EvictOffer removes the offer from the first cache entry that has it; entries of other
  filters and a refresh that is under way keep or bring back the offer.
- The machines a request has excluded are not known to triggerAsyncRetry, and GetOffer
  no longer finds the evicted offer, so a second offer of a failed machine may be tried.
- The timeout of a verification, failSession and the link to a retry store copies: a
  DELETE in between is overwritten, and a session shown as stopped becomes failed.
- EvictOffer moves the last offer of a cache entry into the place of the evicted one, in
  the array that a request which has just been answered from the cache may be reading.
- The inventory's Shutdown has no caller: shutdownCh is never closed, and the graceful
  shutdown of main does not wait for refreshes. Shutdown is left out of `OfferCache`.
- GetSummary is three statements without a transaction (`costs.go:114, 124, 130`): a row
  written in between shows in one only. The filter of the breakdowns (`costs.go:174-194`)
  drops the session and provider conditions that the total's has (`costs.go:149-157`); no
  caller sets them (`handlers.go:881-927`, `tracker.go:426-458`).
- A row of offer_failures has the time of its INSERT (`failures.go:44`), not of the
  failure. After a restart failures that were a little more than SuppressionWindow apart
  may suppress an offer together; SuppressionEarned allows for it with StoreDelay.
- A suppression can be lost: the goroutine that deletes an expired one may run after
  the one that stores its successor.
- A pass of the cost tracker that listed a session before its end may bill it for the
  hour after.
- TensorDock reports a stale offer only when the error comes in the body of a success.

## 4. Proofs

`LifecycleTypes` and `LifecycleProofs` prove, for every set of sessions, callers,
editors and mutexes, every fault bound and every timer setting that the ASSUMEs of
the modules allow:

| Theorem | Statement | Inductive invariant |
|---|---|---|
| `TypeCorrect` | Spec => []TypeOK | TypeOK itself |
| `RunningHasInstanceIDAlways` | Spec => []RunningHasInstanceID | `CopiesOK`: every stored row and every copy a goroutine holds is running only with an instance id, and the copies that are about to be stored as running have it. The stored rows alone are not inductive, because six components write copies |
| `InstanceHasRecordAlways` | Spec => []InstanceHasRecord | `RecordInv`: whoever may still call the provider or write a row works on a session whose row exists; rows are never removed (`RowsStay`) |
| `GhostsAreGoneAlways` | Spec => []GhostsAreGone | `GhostInv`: a request before PHASE 3 has age at most CreateMax, and an instance that was not in the list was created during the pass (`UnseenAge`), if the list can be relied on (`Reliable`: nothing failed so far, or the provider's failed list is an error and the pass took at most PassMax). With CreateMax + PassMax < GhostGrace such a session is younger than the grace period |
| `UniqueActiveAlways` | Spec => []UniqueActive | UniqueActive, with the lemma `EveryWrite`: each step of the whole system writes at most one row, and writes it past the index |
| `InstanceOnceAlways` | Spec => InstanceOnce (a session makes at most one instance, and one that is gone stays gone) | `IdInv`: a request that has not made its call has no instance (`OnceInv`), and an instance id, in a row or in any copy, belongs to an instance that was made. No copy of an older process can name one that was not |
| `StoppedIsGoneAlways` | Spec => []StoppedIsGone | `StopInv` with `GhostInv` and `IdInv`: until a fault, a slow pass included, the process is up (`UpInv`), a stopped row that names an instance has one that is gone (`RowGone`), and so has a call of DestroySession past its DestroyInstance (`DcGone`); the copies that creator, verifier, manager and ExtendSession may still store are not stopped ones. A ghost is stopped by the reconciler without a call, so `GhostInv` is part of it. Nothing is said of stopped rows without an id: a DELETE during the provisioning leaves one, and InstancesReclaimed covers its instance |
| `RecoverySelectsAlways` | Spec => []RecoverySelects | `Alone`: from the crash to the end of the sweep no request, verification, destroy call, pass or extension is under way, so nobody else writes a row |

`BenchmarkProofs` proves, for every set of entries, every number of attempts, budget
and fault bound:

| Theorem | Statement | Inductive invariant |
|---|---|---|
| `BenchmarkTypeCorrect` | Spec => []TypeOK | TypeOK; no attempt beyond the last is made |
| `StraysAreRetriesAlways` | Spec => []StraysAreRetries | `LeftInv` (below) with `StrayInv`: as long as the run is undisturbed, the session in hand is the one of this attempt (`Aligned`), a worker goes on only with a verified session, which is not retried any more (`Started`), and once a stray session exists some entry has left its first attempt (`Untidy`). That a failing session is in somebody's hands is `Accounted` |
| `GateExclusiveAlways` | Spec => []GateExclusive | GateExclusive with `BenchInv`: a worker is only started for a claimed row that has none (`ClaimedIdle`), so no worker is thrown out of the gate |
| `EndedMeansDoneAlways` | Spec => []EndedMeansDone | `BenchInv`: completed or failed is set after the workers have returned (`EndedIdle`), so that nobody is left to change a row |
| `SuccessIsFinalAlways` | Spec => SuccessIsFinal | `BenchInv`: the worker of a successful row only cleans up (`SuccessIdle`), and nobody else writes its row (lemmas `WorkerFrame`, `RunFrame`) |
| `NoSessionLeftAlways` | Spec => []NoSessionLeft | `LeftInv`: a live session is in the hands of a worker (`Held`), or its destroy call was the one that failed and the row that names it has still to be swept (`Owed`). `Recorded` (without failures the manifest names the session in hand) and `Fresh` (a row without a worker names none) are what makes the sweep find it |

`ProviderProofs` proves, for each of the three clients, every set of callers and
sessions, every threshold and every bound on resends, polls and failures:

| Theorem | Statement | Inductive invariant |
|---|---|---|
| `ProviderTypeCorrect` | Spec => []TypeOK | `Inv`, because the bound on polls needs to know the stage of a call |
| `KeepsContractAlways` | Spec => KeepsContract | `Inv`: for each call, what its operation, stage and reply say about the instance (`CreateInv`, `DestroyInv`, `StatusInv`, `ListInv`), that instances only move forward from what the call saw at its start (`Progress`), and that one call only asks for a session's instance (`OneCreator`) |

The refinement is the heart: initial states map to initial states of
`ProviderContract`, and each action to one of its steps or to a stutter. `Begin` is
`Invoke`, serving a request is `Appear`, `Refuse` or `Vanish`, the step that ends a call
with an answer is `Answer`, `Return` is `Return`, and everything between (breaker,
resends, polls, stages) stutters. That a create is
never resent after it may have been served is a conjunct of `CreateInv`: while the
request is unserved the instance is still only asked for. The answer is compared with
`before`, the instances at the start of the call, because an answer need be true at
one moment of the call and not when it arrives. The contract lets TensorDock's list
leave instances out (`Lossy`), because the code does (section 3).

`OfferCacheProofs` proves, for all sets of keys, offers, clients and refreshes:

| Theorem | Statement | Inductive invariant |
|---|---|---|
| `OfferCacheTypeCorrect` | Spec => []TypeOK | TypeOK, which also says that an entry in backoff is empty and never stale |
| `FlagHasRefreshAlways` | Spec => []FlagHasRefresh | FlagHasRefresh with TypeOK: it is inductive, as each write of an entry either takes the flag down or leaves it to the refresh that is still out |

`FailureTrackerProofs` proves, for all offers, thresholds and periods with
SuppressionWindow <= FailureDecayPeriod (half an hour and an hour in the code), and any
number of failures, failed statements and crashes:

| Theorem | Statement | Inductive invariant |
|---|---|---|
| `FailureTrackerTypeCorrect` | Spec => []TypeOK | `Base`: ids are numbered by the log, so the log must be finite, and what tracker, tables and goroutines hold has been recorded (`Recorded`) |
| `HistoryKeptAlways` | Spec => []HistoryKept | `Base`, HistoryKept and `OnDisk`: a failure that counts and is not lost is in the table, dated no earlier than it happened, or in a goroutine on its way there. A clean-up goroutine that comes late deletes by the time of its start (`CleanPast`), so nothing that still counts |
| `SuppressionEarnedAlways` | Spec => []SuppressionEarned | `AllEarned`: every suppression in memory, in the table or carried by a goroutine has its failures in the log, within SuppressionWindow and StoreDelay. Rows are dated by their INSERT, so an event in memory may, after a reload, be up to StoreDelay later than its failure. Memory alone is not inductive, since LoadFromStore brings back what the table has |

`AutoRetryProofs` proves, for all offers, machines, limits and numbers of failed calls:

| Theorem | Statement | Inductive invariant |
|---|---|---|
| `AutoRetryTypeCorrect` | Spec => []TypeOK | `Inv` |
| `OfferOnceAlways` | Spec => []OfferOnce | `Inv`: `Traces` holds of every stored row, of the goroutine's copy, of the frames that still return (`StackInv`), the links (`LinksInv`) and a DELETE's copy (`DelInv`): it has the offer of its place in the chain, and its failed_offers holds all offers before. Any of these copies may be the one stored last and read by triggerAsyncRetry |
| `RetryLimitAlways` | Spec => []RetryLimit | `Inv`: where another session is looked for or inserted there is room for it (`Excludes`) |
| `RunningIsLastAlways` | Spec => []RunningIsLast | `Inv`: a session runs only once its goroutine is through (`OnlyLastRuns`), and the copies of older sessions that may still be stored are failed ones |

`CostTrackerProofs` proves, for all sessions, consumers, lengths of hour, month and run:

| Theorem | Statement | Inductive invariant |
|---|---|---|
| `CostTrackerTypeCorrect` | Spec => []TypeOK | TypeOK |
| `NeverOverbilledAlways` | Spec => []NeverOverbilled | `Base` (`RowInv`: a row's times are in order, and only a session that ran is in a pass) and `Bounded` (`BillInv`): as long as no statement failed, an hour has at most one row and the hours with a row lie in the session's life, but for one late hour of a pass that listed the session while it ran. The cost of a session is then bounded by the cardinality of an interval |
| `FailedSessionBilledAlways` | Spec => []FailedSessionBilled | `Paid` (`PaidInv`): an hour of a session that failSession failed and that has no row is one RecordFinalCost still has to write |
| `MonthsAddUpAlways` | Spec => []MonthsAddUp | TypeOK: the rest is arithmetic on any table of costs |

The sums are folds of the library (`SumFunction`), and the prover has no induction
over data. The argument goes around it. `SumByFold`: any function that satisfies the
fold's recursion on the subsets of a finite set is the fold, for in a smallest set where
the two differ they agree on the set less one element (the library's well-foundedness of
strict subsets). `SumOfParts` gives such a function: the cardinality of the union of the
disjoint sets of row items counted so far. Months and sessions are then two ways to split one
finite set of row items: the lemma `MonthsSplitRows` shows that every row of a
consumer is in exactly one month.

**Assumptions.** `TimesAssumption` (`Lifecycle`) is the one about time: CreateMax, the
time from the INSERT to the reply of CreateInstance, and PassMax together are less than
the ghost grace period. The grace period is 10 minutes; TensorDock's create has a
timeout of 60 seconds, and the launch task of Blue Lobster is polled "for up to 3min"
(`server.go:211`, which sets the server's write timeout to 300 seconds for it). The code
does not bound a pass and neither does the model: PassMax is only where a pass begins to
count as a slow one, a fault that GhostsAreGone and StoppedIsGone except.
`FailureTrackerAssumption` orders two constants of the code as the code has them, and
requires a threshold and periods above zero. `KeysAssumption` and `AutoRetryAssumption`
ask for a provider and an offer at all, `CostAssumption` for finitely many sessions, as
sums need. The others give constants their types. Every ASSUME is evaluated by TLC in a
run.

**Only model-checked**, and why:

- the liveness properties InstancesReclaimed, SessionsEnd, FailedIdCleared,
  HardMaxEnforced, RunEnds, BreakerRecovers and CallsReturn: the prover has no
  reasoning about fairness;
- LegitimateNotOrphan and EndedSessionBilled, which the code violates.

## 5. Not modelled, and the plan

Modelled: sessions from request to end (`Lifecycle`), a benchmark run, the provider
clients and their contract, offers, failures, retries and billing.

What the models leave out, and why:

- *benchmark scheduler and result store*: a loop over cron rows that shares nothing with
  the modelled components but StartRun; storing and parsing results is I/O;
- *budget alerts*: main.go gives the cost tracker no ConsumerStore, so the code returns
  before it does anything;
- *order and filters of offers*: confidence multipliers, failures per GPU type, price
  limits and location statistics only order or drop offers, and the models allow every
  order and every listing;
- *several benchmark runs at once*: they share only the gate;
- *deployment ids*: the models hold one deployment with an empty id, the default. With
  DEPLOYMENT_ID set, IsOurs compares it with a tag that two of the listings do not carry;
- *disk estimation*: arithmetic; its effect on control is `CreateDiskRejected`;
- *request bodies and rate limiters of the clients, validation of HTTP requests, CLI,
  configuration, logging, metrics, file transfer, SSH dialogue*: I/O without control
  that the services depend on.

Every invariant that a passing run checks is proved, and so are the action properties
SuccessIsFinal and InstanceOnce and the refinement of `ProviderContract`. What is left
is more of the code, first of all the scheduler's loop with the edits of schedules it
may undo, and, with a prover that reasons about fairness, the liveness properties.
