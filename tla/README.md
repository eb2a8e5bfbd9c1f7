# A TLA+ model of tsserve

tsserve discovers workloads (Docker containers, ECS tasks, Lambda functions),
advertises each as a Tailscale Service, and reverse-proxies the requests of a
service to the pool of its backends. This directory holds TLA+ models of it,
TLC configurations that check them on small instances, and TLAPS proofs of
their safety for every instance.

Run a check with `tlc -config ManagerOneService.cfg MCManager`, and the proofs of a
module with `tlapm ManagerTheorems.tla`. `PROJECT.json` lists the runs, the source
lines each definition stands for, the hazards the properties are aimed at, and for
each property a mutation of the code that it detects (the definitions commented
`Mutant of ...`).

## The system

| Component | State | Operations | Hard because |
|---|---|---|---|
| Service manager, `proxy/manager.go` | index of records by name, `byKey`, `shutdown`, per record `ready`, two channels, the pool; gauges; `serveMu` | Register, Deregister, Close, Snapshot; a Serve goroutine per record | several watchers and Close interleave at every unlock; tsnet's edits must not overlap; waiting on channels without timeout |
| Pool and reverse proxy, `proxy/pool.go`, `reverseproxy.go` | members slice and position, two atomics | add, remove, rotation, RoundTrip's walk, ErrorHandler | lock-free reads; retries that must not replay; cancellation |
| Function invoker, `proxy/invoker.go` | none | RoundTrip by `Invoke` | which failures mean the function never ran |
| Request metrics, `metrics/metrics.go` | gauges and counters | Middleware, Hijack | panics unwind past what is not deferred |
| Docker watcher, `docker/watcher.go` | `active`, `failed`, the event stream | scan, subscribe, events, periodic sweep | the world moves between listing and registering; events are lost |
| ECS watcher, `ecs/watcher.go`, `cache.go`, `resolve.go` | `active`, `failed`, two caches, health | a polling cycle of many calls | any call may fail half way; an outage must not look like a removal |
| Lambda watcher, `lambda/watcher.go` | `active`, `failed`, health | a polling cycle | live functions are retagged at any time |
| Accounts and readers, `ecs/account.go`, `lambda/account.go`, `main.go` | the plan, identity claims | Plan, buildECSWatchers, buildLambdaWatchers | identities are resolved at start-up or later, on goroutines of their own |
| Reader status, `ecs/registry.go` | health and last error | PollSucceeded, PollFailed | |
| Process, `main.go` | channels of two levels of fan-in, deferred functions | run, startModes, runAll, awaitTerminal | returns early with goroutines running; one receiver for many senders; order of closing |
| Certificate mirror, `certsync/certsync.go` | the directory, the bucket, `pending`, a timer | Hydrate, Watch, Run, syncAll | events during sweeps, failed uploads, crashes, ordering with shutdown |
| Local server, `local/server.go` | two listeners, an error channel | Run | either server may fail first |
| Labels, `labels/labels.go` | none | parsing and validation | pure |
| Status page, `local/status.go` | none | rendering of snapshots | |

The watchers run one goroutine each and call the manager through
`registrarAdapter` (`main.go`). The manager opens and closes listeners on the tsnet
server, whose serve config is edited by read-modify-write, and hands each listener
to `http.Server.Serve`, whose handler is metrics middleware around a reverse proxy
over the record's pool. Requests and the manager share only the pool's atomics.
`run` opens the store, the mirror, tsnet and the manager in turn, starts the modes
and the local server, waits for the first thing that ends the process, and closes
what it opened.

## Modules

| Module | Models |
|---|---|
| `Manager` | `proxy.Manager`: state, one action per critical section or call outside the lock, the properties |
| `ServiceRegistry` | what the manager promises, without locks, records or channels |
| `ManagerRefinement` | the mapping from `Manager` to `ServiceRegistry` |
| `ManagerInvariant` | the inductive invariant |
| `ManagerProofs`, `ManagerTheorems` | its proof; the theorems that follow from it |
| `RequestPath` | one service's requests, its pool, HTTP and function backends, the error handler and the request metrics |
| `DockerWatcher`, `EcsWatcher`, `LambdaWatcher` | the three watchers with the worlds they watch |
| `CertSync` | the certificate mirror, the process around it and the bucket that outlives it |
| `Readers` | from configured accounts to watchers with identities |
| `Lifecycle` | the process; composes `Readers` with the fan-in, the local server and the shutdown |
| `...Proofs` | the inductive invariant of the module named, and its theorems |
| `MC...` | instances for TLC |

### Manager

Each stretch of code under `mu` is one action. What runs outside it is separate:
`ListenLock`, `ListenOpens`/`ListenFails` (ListenService under `serveMu`),
`SrvClose`, `CloseLock`, `SrvClosed`, `LnClosed` (closeFn: the server closes the
listener it tracks, then the listener is closed again), and the Serve goroutine
(`ServeStart`, `ServeReturns`, `AcceptFails`, `ServeLock`, `ServeClosed`).
`register`'s loop body has six outcomes, one action each: `RegisterShutdown`,
`RegisterKnown`, `RegisterClaim`, `RegisterWait`, `RegisterConflict`,
`RegisterJoin`; `Awake` is the receive on the channel. `advertise` ends in
`Publish`, `PublishShutdown` or `Abandon`. `Deregister` begins in
`DeregisterUnknown`, `Deregister` or `DeregisterLast` and ends in `Withdrawn`.
`Close` collects the records under the lock; `CloseNext` tears them down in turn.
Go channels are "nil", "open" or "closed"; a record has an identity that is never
reused, like a Go pointer that is still referenced.

Taken from how the code uses its libraries, and marked external in the map: tsnet
refuses ListenService while a handler of that service is in the config
(manager.go:117-120); an edit is a read-modify-write that fails when another
overlaps it, which is why edits are two steps with `serveMu` around them; a
listener's second Close changes nothing; a Serve started after Server.Close
returns at once and closes its listener. A close whose config edit fails is not
modelled.

`holds` and `offered` record what callers were told; only the properties read them.

### RequestPath

`LoadMembers` and `TakePosition` are the two atomics of `rotation`. An attempt
succeeds with a response or an upgrade, or fails for one of `Causes`. Over HTTP
the connection fails (`dial`) or what follows does (`broken`). A function backend
adds the codes of the Lambda API, an error the function returned and a result that
is no response. With either kind an attempt may fail in tsserve before anything is
sent (`local`): the client's body or the client itself, the proxy setting, the
credentials or the signing of an Invoke. The code does not know such an error for
what it is and ends the walk. `isConnectError` and
`functionDidNotRun` are the code's classification of causes, by which it retries;
`MayHaveRun` is the model's own, by which `NeverReplayed` judges it. `BodyTooLarge`
answers 413 before any Invoke. `CopyFails` leads to the panic with which
ReverseProxy aborts the handler, and `Unwind` runs the deferred calls only. The
64-bit position is the constant `Wrap`. Go's Transport may itself resend an
idempotent request on a stale keep-alive connection, to the same backend and inside
one attempt; that is below this model.

### The watchers

Each call to an API is a step, and the world (containers, tasks, tags) may move
between any two. The registrar is the manager's contract: Register of a key it has
is a no-op, Deregister always works. `active` and `pool` are therefore two views of
one fact, the watcher's and the registrar's, which `BooksMatchRegistrar` compares.
In Docker a container gets a new address at each start, and `missed` records
whether any event failed to reach the watcher; `stop` and `destroy` events are
handled like `die` and add nothing. In ECS a task's `where` is its network
attachment or port binding; tasks told to stop are no longer listed although they
still run. In Lambda a tag set is disabled, invalid or valid, and its caps are a
list with order and repetition; `registrationOf` is the sorted copy the watcher
compares.

### CertSync

A certificate is a version number, so that "newer" can be said of a file and its
object. `Start`, `ListPage`, `Download` and their failures are Hydrate; `Watch` ends
setupCertSync and starts Run. `ReadEvent`, `Tick` and `FinalSweep` are the cases of
Run's select; `Read`, `Put`, `PutFails` and `SweepDone` are syncAll file by file, so
that a certificate may be issued during its own upload. `Return`, `Cancel` and
`Exit` are run's way out, with its bounded wait for the syncer; `Signal` may come
before. `Crash` may happen anywhere, and the next process finds the bucket, a put in
flight completed or not, and the directory or an empty one. `unsaved`, `unread` and
`due` record which uploads and downloads failed and what was on disk when ctx was
cancelled; no action reads them.

### Readers and Lifecycle

`Readers` goes from the list of accounts through `PlanValid` and `Plan` to one
reader after another: `BuildDisabled`, `BuildNamed`, `BuildResolved`, `BuildLazy`,
and later `ResolveLazily` on the watcher's goroutine, each with its identity claim.

In `Lifecycle`, `step` is where run is: `Auth`, then the steps of `Follows` (store,
mirror, start, up, client), each of which may fail (`Fail`), opens something
(`Opens`) and defers what closes it (`Defers`), then `ParseModes`, `StartLocal`, the modes one by one, `FanIn` and
`awaitTerminal`. Each reader's goroutine sends its result to its mode's runAll, whose
coordinator (`Coordinate`) reports to the mode's channel; `ModeReports` passes that
to the runAll of all modes. `Listen`, `ServeReturns`, `Select` and `Shutdown` are
local.Server.Run with its two servers. `deferred` is Go's stack of deferred
functions: `RunDeferred` takes the last one deferred, `Flush` ends the wait of the
mirror's, `Exit` finds the stack empty. What is closed before what is a consequence
of the order in which run defers, not a guard. Channels are sequences without a bound:
`SendsFindRoom` says that the capacities of the code are enough.

## The runs

| Run | Instance | Shows |
|---|---|---|
| `manager_one_service` | 2 callers, 3 keys, 1 name, 3 label sets, 2 records | everything that can happen to one name, with conflicting labels: `WaiterHasWaker`, `ChannelsClosedOnce`, `TeardownOnce`, `PoolsHomogeneous`, `GaugesMatchIndex`, `SnapshotIsTheRegistry` |
| `manager_two_services` | 2 callers, 2 keys, 2 names, 3 records, Accept may fail | edits of different services (`SerialEdits`), `NoOrphanBackend`, `ListenNeverRefused`, `NothingLeftBehind`, `ShutdownIsFinal`, late Serve goroutines included |
| `manager_progress` | 2 callers, 2 names, 2 records, fair | `RegisteredIsServed`, `EveryCallReturns`, refinement of `ServiceRegistry` (`RegistrySpec`) and of its fairness (`RegistryFairness`: services without members are withdrawn, also when a shutdown overtakes a claim) |
| `request_walk` | 2 requests, HTTP pools of 1 or 2 and function pools of 2 of 3 backends, 1 change, `Wrap` 2, fair | `NeverReplayed`, `NoMemberTwice`, `GivesUpOnlyWhenExhausted` (failures in tsserve itself excepted), `MetersAreTrue`, `EvenlySpread`, `AbandonedRequestsEnd` (a request whose client has gone ends, with the attempt that was in flight and no other) |
| `docker_sweep` | 1 container, 3 starts, 1 harmless signal, lossy stream, fair | `BooksMatchRegistrar`, `CaughtUpIsCurrent`, `Converges`: the sweep alone brings the watcher to what runs |
| `ecs_outage` | 2 tasks (awsvpc and host), batches of 1, 2 addresses | `OutageDropsNothing`, `SuccessMeansSwept`, `BooksMatchRegistrar` |
| `ecs_recovery` | 1 bridge task with 2 containers, fair | `Converges`: once the cluster rests, what is served is what runs |
| `lambda_retag` | 2 functions, 3 valid tag sets of 2 services, 2 retags, fair | `DroppedOnlyWhenRetagged`, `BooksMatchRegistrar`, `ServedAsTagged` |
| `cert_mirror` | 2 files, 2 issues, 2 processes, every fault, fair | `DirtyIsNoticed`, `SweptBeforeExit`, `RestoredWhatCouldBe`, `IssuedIsUploaded` |
| `lifecycle` | 15 configurations, 4 of them accepted throughout, every fault, fair | `SendsFindRoom`, `NoSilentReader`, `ResultIsTrue`, `UnwoundInOrder`, `FailureEndsProcess` |

Two runs state what the repository says of the code, and TLC refutes it:

* `manager_shared_keys`: RegisterHostPort's comment calls repeated calls for a key
  "a no-op". Two goroutines that register one key for two services at the same time
  both pass the check and put it into both pools. The watchers never do that with
  keys of their own, but two readers of one account share keys (main.go:742 warns).
* `docker_missed_restart`: reconcile's comment says a container "that restarts
  arrives as a start event". One that restarts between the initial scan and the
  subscription does not, and since sweeps skip active containers it is proxied to
  its old address for good.

More disagreements are visible in the models without a run of their own:

* After an Accept error the record stays ready with its listener closed, and later
  registrations return nil (manager.go:393; the comment at 201 promises an open
  listener). `RegisteredIsServed` and the refinement exclude it by `AcceptMayFail`.
* An Invoke that fails before it is sent, for want of credentials or a signature,
  comes back unclassified (invoker.go:94-99) and ends the walk with a 502 although
  members are left, which may be of another reader. SPEC.md:817 promises a retry
  after "any failure that means the function did not run"; the catch-all row of its
  table (SPEC.md:690) says there is none. `GivesUpOnlyWhenExhausted` leaves such walks
  out (`lastErr` is "local").
* A walk goes on through the slice it loaded, so a backend removed meanwhile may
  still get the request (SPEC.md:816, "no further requests").
* A request whose response breaks off is not counted (`counted`; SPEC.md:1036, "one
  increment per proxied HTTP request").
* The Docker watcher drops a container on every `kill` event, signals it survives
  included, until the next sweep (SPEC.md:731 names only start, die and stop).
* Lambda caps are "a set" (lambda/watcher.go:82), but repetition survives the sort:
  a retag from "a" to "a,a" drops and re-registers the function.
* On a signal the final sweep starts while tsnet still runs, so a certificate issued
  after the sweep has read the directory and before srv.Close is not uploaded
  (certsync.go:191-194, main.go:112-115 and SPEC.md:970 say one issued just before
  the end is). `SweptBeforeExit` promises what was on disk when ctx was cancelled.
* A duplicate identity does not disable a reader, as buildECSWatchers' comment says
  (main.go:668-670): it is logged. A named reader claims its name and not
  its account, so with an unnamed reader of the same account it double-registers
  in silence (main.go:682-684); `NoSilentReader` speaks of unnamed readers.
* `TSSERVE_METRICS_ADDR=""` does not disable the listener (SPEC.md:242, 1028):
  envDefault replaces the empty value.
* AccessDenied or a missing cluster is "Fatal error. Exit" in SPEC.md:885-886; the
  ECS watcher logs it and polls again.

### Bounds

Two callers, Main and the Serve goroutines give every pair and triple of roles at
one record: advertiser, waiter, withdrawer, closer, late server. `Recs` bounds the
number of advertisements of a behaviour: two show a withdrawal and its successor,
three also a third record at another name meanwhile. `RecordLeft` keeps a
registration from starting when no record is left to claim. In `RequestPath` a
change of the pool may fall anywhere in a walk; one change empties a pool of one,
shrinks a pool of two or grows it to three. The Docker watcher treats containers
one by one, and what it does with others only takes time, which the interleaving
already allows: one container suffices. For the pollers two tasks or functions
give pages and batches that differ, and `MaxMoves`, `MaxRetags` allow a change and
a change of the change. Two issues of two files give a renewal during an upload and
a file that waits behind another; two processes give a crash and what it left. The
configurations of `lifecycle` hold two modes at once, two readers in one mode with
identities that collide, a reader without a watcher, and each way of being rejected.
Records are interchangeable, so the safety runs of the manager use symmetry; runs
with liveness use none.

Deadlock is checked for the manager, whose callers may always call again. The other
models may stop: requests come to an end, a watcher's Run returns, a process exits.

### Fairness

* Manager: weak fairness of each started call, of Close once called and of each
  Serve goroutine. Go runs every runnable goroutine, and its mutex is
  starvation-free; ListenService and Close of a listener are local calls that
  return. No watcher has to call, and nobody has to shut down.
* Requests: weak fairness of tsserve's own steps, and of backend steps only once the
  client has gone, because the cancelled context ends the wait; backends have no
  deadline.
* Watchers: the goroutine runs, Docker's select picks each ready case sooner or
  later (Go chooses at random), and a call that is repeated for ever succeeds at
  last (strong fairness of its success). Nothing is claimed for an API that is down
  for good.
* CertSync: Run's steps, its timer, run's Cancel and its Exit; calls to S3 return,
  with an error or without. No certificate has to be issued and nobody has to stop.
* Lifecycle: run, the local server, the coordinators and modeResult.Run. Only srv.Up
  may wait for ever, and returns once ctx is cancelled; readers need not return.

## The proofs

### Manager

`ManagerProofs!InductiveInvariant` proves `Spec => []IInv` for any sets of callers,
services and records and any finite set of keys, from the named assumptions on the
constants and one more, `ExclusiveKeys`: each key is driven by one goroutine. That
is how the watchers use the manager; without it the theorem is false, as
`manager_shared_keys` shows.

None of the properties is inductive. `RegisteredIsServed` depends on who may be
closing a record, which depends on who owns its transition, and so on. The parts
of `IInv`:

* `LockInv`: `serveMu` is held by exactly the goroutine whose edit is in flight.
* `StepInv`: callers and Main keep to their own steps; Close is what shuts down.
* `UnusedInv`: an unclaimed record is untouched.
* `RecordInv`: `advertised` is open exactly while a caller advertises the record,
  `withdrawing` exactly while one withdraws it; what may be said at each stage.
* `OwnerInv`: a transition has one owner, and what its owner may rely on after each
  unlock.
* `OccupancyInv`: at most one record occupies a name (claimed, or with its listener
  open), and until shutdown it is the one in the index. This is the heart: it is
  why a withdrawing record stays in the index until its listener has closed.
* `ListenerInv`: every open listener is being published, serving and not forgotten
  by Close, or about to be closed.
* `KeyInv`, `PoolInv`: the key map and the pools agree through the index.
* `ProgressInv`: a registration in progress has not been recorded; the only part
  that needs `ExclusiveKeys`.

Each part has a lemma with one step per action. `ManagerTheorems` derives from it
`TypeOK`, `SerialEdits`, `ListenNeverRefused`, `TeardownOnce`,
`ChannelsClosedOnce`, `RegisteredIsServed`, `NoOrphanBackend`, `NothingLeftBehind`,
`SnapshotIsTheRegistry` and the action property `ShutdownIsFinal`, and with small
additions `WaiterHasWaker` (`WaiterInv`), `PoolsHomogeneous` (`ClaimInv`: a claimed
record carries the labels of the registration that claimed it) and
`GaugesMatchIndex` (`GaugeInv`: the gauges counted out, for finitely many services).

`ImplementsRegistry` is the refinement: `Spec => RegistrySpec` where Accept does not
fail by itself. `OneListener` says that the handler of a name is that of the one
record that occupies it; from it each action is shown to stutter, to light or darken
one service, or to change one member, by the classes `Stutters`, `SameOpening`,
`Darkens` and `Withdraws`.

Four more theorems of `ManagerTheorems` say what the manager promises to those who
use it, each with one driver per key:

* `PoolsKeepTheirContract`: a pool changes by one backend at a time, holds a key
  that no other pool holds, is never filled again once it was emptied, and the
  labels of a claimed record are fixed. `RequestPath` lets its pool change in these
  ways only, so this theorem is what licenses its environment.
* `CallersKnowTheRegistry`: until shutdown `byKey` has a key exactly if the last call
  made for it was a registration that returned nil. The watcher modules let their
  registrar answer so, and their `BooksMatchRegistrar` rests on it.
* `RepeatsAreNoOps`: the property `manager_shared_keys` violates holds when each key
  has one driver. The run and the theorem together say exactly what it needs.
* `WaitsEnd`: freedom from deadlock, stated without ENABLED. A goroutine that waits
  for a transition channel or for `serveMu` waits for one that waits for nobody, or
  that itself only waits for `serveMu`, whose holder waits for nobody.

### The other modules

* `RequestPathProofs`: `PoolsDistinct` (no backend twice in a slice) and
  `WalkInOrder` (position and attempts stay in the slice) carry `NeverReplayed`,
  `NoMemberTwice` and `GivesUpOnlyWhenExhausted` (which leaves out walks that ended on
  a failure in tsserve itself); `ErrorsSoFar` and `GaugesSoFar`
  say at every step what `MetersAreTrue` says at the end, for finitely many requests.
  `EvenlySpread` rests on `SpreadSoFar`: while the pool has not changed, every slice
  loaded is the pool, the counter is the number of requests that were given a
  position, and the assignments are complete rounds of the pool and the first few
  members of the next one. The bound alone is not inductive: it does not say which
  member is next. `RequestsMoveOn` is the safety half of `AbandonedRequestsEnd`: every
  step of a request lowers its stage or, if its client is still there, leaves fewer
  members untried.
* `DockerWatcherProofs`: `RightOrTold`: if no event was missed, whatever the watcher
  holds or has in hand is right, or an event still in the stream will correct it.
  `SweepsSetRight` needs no such condition: whatever was missed, a sweep ends with
  what its listing had served or on record as failing and all else forgotten, since
  each container it has passed is accounted for (`SweptSoFar`).
* `EcsWatcherProofs`: `Covered`: a served key of a task that has not ended is ahead
  of the cycle or seen by it, which is why an outage drops nothing; `GoneIsGone`: a
  task that had ended before the cycle is nowhere in it, which is why success means
  swept; `NoNewer`: addresses only grow, which tells a move from an outage. From
  the last two `RegistersForward`: no overtaken description brings back an address
  that was replaced or a task that was swept.
* `LambdaWatcherProofs`: `Explained`: all that the cycle knows of a function was true
  at some moment of the cycle. `SuccessfulCyclesSettle` is the safety half of
  `ServedAsTagged`: after a cycle that reported success each function is as some tags
  it had during that cycle say, or its failure is on record.
* `CertSyncProofs`: `HydratedSoFar`, `RenewalIsNoticed` (a file renewed during its
  upload has its event unread) and `FinalSoFar`, with `NoNewer` on the versions.
  `MirrorIsMonotone`: no object is overwritten by an older one, since a file on disk
  is never older than its object (`FilesNotOlder`), not even in a directory that
  survived a restart or after a restore that failed. It assumes what the module does:
  one process at a time, whose last put takes effect by the time it has ended.
* `LifecycleProofs`: `ReadersInOrder` (the readers are a prefix of the plan, and a
  known account is claimed) for `NoSilentReader`; `StackInOrder` (what run has deferred
  at each step, and that what is open is what the stack will close, or the mirror
  while run waits for it) for `UnwoundInOrder`, which says that nothing is left open,
  that the manager is closed while tsnet runs and that a run that ends without a
  signal cancels ctx only when at most the mirror is open; and for `SendsFindRoom` and `ResultIsTrue` `FanInv`, which has a
  part for each goroutine that receives. `AllInOrder` says that what the outer runAll
  has yet to take is what the waiting modes will send and what is already sent;
  `ModeInOrder` that an inner one was sent one result by each reader that returned;
  `LocalInOrder` that `errCh` was sent one by each server that returned, and that an
  error of the local server is one it received or a listener that failed;
  `DockerInOrder` that the watcher sends once. Each also says which values its
  channels may hold and when, so that an error at the end is Docker's, and a nil
  means that ctx was cancelled or all modes have ended. Counting alone is not
  inductive: a coordinator would have to be kept from reporting a second time.

They hold for any values of the constants that satisfy the named assumptions of the
module; the bounds on counters are arbitrary numbers.

Only model-checked: the liveness properties (`EveryCallReturns`, `RegistryFairness`,
`AbandonedRequestsEnd`, `Converges`, `ServedAsTagged`, `IssuedIsUploaded`,
`FailureEndsProcess`), since TLAPS as used here proves nothing about fairness or
ENABLED. Every invariant and every action property of the passing runs is proved. No
module uses a RECURSIVE operator.

## Not modelled

* The parsing of label strings and the JSON of account files: pure functions with
  unit tests. Labels enter by their outcomes, accounts as decoded records.
* The encoding of Lambda events and responses, header rewriting and node identity
  headers, histograms and byte counts, the status page: no state, and nothing that
  the order of steps can change.
* tsnet, AWS and Docker beyond what the code sees of them; the construction of their
  clients and of loggers. A close whose config edit fails: what tsnet leaves behind
  is not visible from this code.
* Two tasks that share a certificate prefix and overlap in time, where a Hydrate may
  replace a newer local certificate by an older object.
* A function backend without an Invoker, a configuration error that returns before
  the registry is touched.

## Plan

Done: all components with state, the abstract registry and its refinement, theorems
for every module, a proof of every safety property of the runs. Left: `Labels` and
`Accounts` as pure operators against reference definitions.
