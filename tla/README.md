# Game Fleet Director in TLA+

TLA+ models, TLC runs and TLAPS proofs for the two programs of this repository:
the **controller** (`cmd/controller`), which keeps fleets of game-server pods at
the size their players need, and the **allocation API server** (`cmd/apiserver`),
which hands warm servers to a matchmaker. The modules are translated from the Go
code; the README and the comments of the code are only quoted where a property
states what they promise. Paths below are relative to the repository.

## The system

```
 matchmaker --- GameServerAllocation ---+        REST allocate / release
                                        v                  v
   controller                       Kubernetes API        API server
   +- FleetReconciler  ----------->  pods with the  <---- +- AllocationReconciler
   +- AllocationReconciler ------->  label `phase`  <---- +- Handler -> Allocator
   +- PoolManager (its own)          allocations          +- PoolManager (its own)
                                        |
                                     game servers: /sessions, /metrics
```

The two processes share nothing but the API, read through informer caches that
lag behind it: the label `director.gamefleet.io/phase` of each pod (`warm`,
`allocated`, `draining`) and the status of each GameServerAllocation.

| Component | State | Operations | Talks to | What is hard | What makes it correct |
|---|---|---|---|---|---|
| Pool manager, `pkg/pool/pool.go` | per fleet: entries with Allocated, Healthy, AllocationCount, LastUsedAt; round-robin index; configuration; one mutex | Register, Allocate(WithFilter), Release, MarkAllocated, MarkAvailable, MarkUnhealthy, Remove, IdleServers | called by both reconcilers, the REST handler, both syncs | any order of calls; repeated Registers | nothing handed out is a candidate; a match is not idle time; fair rotation |
| Scheduler, `pkg/pool/scheduler.go` | none | RankAndSelect, SelectForDrain | pool | ties, changing candidates | one well-defined choice |
| Allocation reconciler, `pkg/controller/alloc_controller.go` | none of its own | Reconcile of a request, REST Allocate and Release, patchPodLabel | pool, API | two processes, stale reads, conflicts, lost replies, rollback, TTL | a decision is made once; a server has one client; no server is lost; a request with a TTL ends |
| Fleet reconciler, `pkg/controller/fleet_controller.go` | drain records, cooldowns, failure counts, circuit | sync from labels, metrics, scaling, advancing drains | pool, scaler, drainer, scraper, API | restarts, partial failures, stale lists, allocations in between | no match lost; drains end; replica bounds; breaker pauses |
| Scaler, `pkg/controller/scaler.go` | none | Evaluate | node filter | boundaries, rounding, draining pods | bounds are kept, load is met |
| Drainer, `pkg/drainer` | one record per drain | StartDrain, Advance, ShouldCheck | game servers | a deadline against an answer | minimum time, deadline |
| Scraper, `pkg/metrics/scraper.go` | none | ScrapeFleet | game servers | servers that do not answer, counts that age meanwhile | bounds hold and the load is met all the same |
| REST handler, `pkg/api/handler.go` | none | Allocate, Release, status | allocator, pool | lost replies, timeouts | see the allocator |
| Rate limiter, `pkg/api/middleware.go` | tokens, last fill | Allow | wraps every endpoint | rounding, calls that crowd around a fill | a window admits a bucket and its refill, no more; nobody is shut out |
| Node health, `pkg/health` | none | HealthyNodes | Node Health Watcher | missing answers | scale-up only on healthy nodes |
| Processes, `cmd/*` | wiring | start, periodic sync, shutdown | all | start-up order | serve only on a synced pool |
| Warmer, notifier, collector, HTTP server, API types | none that is read back | - | - | - | - |

## Modules

| Module | Models | State ↔ code |
|---|---|---|
| `Scheduler` | RankAndSelect, SelectForDrain and the round-robin choice | `load[s]` is AllocationCount, which the pool passes as PlayerCount |
| `PoolState` | effect of each PoolManager method on the entries of one fleet | `tracked`: has an entry; `allocated`: Allocated; `unhealthy`: not Healthy |
| `PoolManager` | the whole pool manager, one action per method | `count`, `idle`, `roundRobinIdx`, `idleTimeout` are the fields of those names (idle: time since LastUsedAt); `lease`, `rest` are histories of who holds what |
| `RoundRobin` | PoolManager with a history of the RoundRobin requests | `ring[f]`: over which candidates, who was served, how often |
| `Decisions` | abstract: what a GameServerAllocation promises | one decision per request |
| `Loans` | abstract: what clients may rely on when servers are handed out | which servers are free, and who plays on which; no labels, caches, statuses or calls |
| `Allocation` | both processes, requests, REST calls, label syncs, caches, restarts | `worker[p][r]` and `call[c]` are the local variables of a Reconcile and a REST call; `podCache`, `reqCache` the informers; `syncer` the sync in progress; `holder` is who plays where; `Draining` are the servers that drain all along |
| `Drainer` | the drain record and its transitions | ages instead of times; `recovered` stands for a zero ForcedDeadline, `reachable` for an endpoint that answers |
| `FleetDrain` | sync, scale-down, advanceDraining, with allocations by both processes and the Reconcile of a second fleet around them | `rec[w]` is the Reconcile in progress of the fleet (`own`) or of the other one, `drain` is drainStates, `MayLock` is drainMu; `joining` are the allocations under way, with their process, server and next call; `apiPool` is the pool of the API server; `cordoned`, `since` and `reopened` are histories |
| `GracefulDrain` | abstract: what the three-phase drain promises clients | one phase and age per server, who is invited, who plays and which drains were reopened; no pods, labels, pools or Reconciles |
| `Scaler` | Evaluate | auxiliary metrics as a number of servers |
| `FleetScaling` | a Reconcile as far as it changes the number of pods, cooldowns, breaker | `fleet` counts pods by phase, `listed` is the cache, `reopened` those labelled warm or allocated again that will be deleted all the same, `seen` the status snapshot and metrics a Reconcile goes on with, `failures`/`openFor`, `sinceUp`/`sinceDown` the maps of the reconciler |
| `TokenBucket` | abstract: what a rate limiter promises | credit in parts of a request |
| `RateLimiter` | NewRateLimiter and Allow | `tokens`, `age` (since lastFill); `elapsed`, `admitted` are the history of one window |
| `PoolStateProofs`, `PoolManagerProofs`, `AllocationProofs`, `LendingProofs`, `RateLimiterProofs`, `FleetDrainProofs`, `MatchKeptProofs`, `FleetScalingProofs` | lemmas and theorems | |
| `MC*` | the small instances TLC checks | |

A call that holds PoolManager's mutex is one step; a call to the API or to a game
server is one step, which may fail. Between two steps of a thread every other
thread may move. `FleetDrain` and `FleetScaling` split one Reconcile by concern:
the first keeps identities, labels and the pool and lets the scaler decide
anything (a dry run is a scaler that holds); the second keeps the counts and lets
drains and allocations take any course, those included that make a pod warm or
allocated again while its drain goes on. An allocation in `FleetDrain` is a pick, the
reading and labelling of the pod, the status update, and the rollback of the label
when that fails; a REST allocation ends with the label. `Allocation` has these steps
call by call, with requests, versions and lagging caches of their own.

Operators marked "Seeded fault" stand beside the definition they distort; they are
variants with a plausible mistake, and each property fails when one of them takes
the place of the original. No specification uses them.

### Abstractions worth knowing

- Patches carry the difference to the pod that was read, so a patch from a stale
  copy may write nothing. `PatchLabel` keeps that.
- Status updates carry a resourceVersion and are refused when it is old. Label
  patches carry none.
- Time is counted in ticks. In `FleetDrain` no tick falls inside an allocation, and
  inside a Reconcile only while it waits for metrics (`SlowScrape`). In
  `FleetScaling` a tick is longer than a Reconcile and than the lag of the cache.
  cooldownRemaining truncates to seconds, which is less than a tick.
- `Allocation` starts when both pools are synced. Syncs run again only in the
  processes of `Syncing`, so that a run can look at the time between two syncs.
- A pod that was deleted is listed as running until its grace period is over.
- In `FleetDrain` two allocations of one process that stand at the same call for the
  same server count as one; and when a cache lags, the API server may read the label
  the controller's cache has or the current one.

## Runs

All passing runs are exhaustive. CHECK_DEADLOCK is off in the `Alloc*` runs alone:
there each request is decided once and each REST client calls once, so the modelled
system comes to rest.

| Run | Shows |
|---|---|
| `MCPoolManager` | NotReturnedAgain, IdleMeansUnused, AlwaysServed, DrainsLeastUsed, RoundRobinRotates over every order of pool calls |
| `AllocBetweenSyncs` | ExclusiveUse, EveryLendAccounted and LentAsPromised (Allocation implements Loans) in one process between two syncs |
| `AllocDecides` | DecidedOnce (Allocation implements Decisions) and EventuallyDecided: both processes on one request, a failure, a lost reply, a restart |
| `AllocComesBack` | ReleasedComesBack in the process that did not see the release, without failing calls, while a second server drains |
| `DrainTime` | DrainTimeGiven with force on, any call failing, restart, both processes, lagging cache, a fleet of another namespace reconciled at the same time |
| `DrainKeeps` | NoMatchLost and DeadlineKept with one pool, a current cache and draining labels that are written; DrainsAsPromised (FleetDrain implements GracefulDrain); DrainingIsReclaimed; all across a restart, two failing queries, lists, scrapes or calls of an allocation, and a second fleet of the namespace |
| `ScaleBounds` | NeverAboveMax with a current cache, while pods and players move during the collection of metrics; BreakerPauses; freezes and dry runs |
| `ScaleLoadMet` | LoadIsMet with failures, missed scrapes and a lagging cache; BreakerCountsConsecutive without freezes |
| `RateLimits` | WindowBound; RefinesBucket (RateLimiter implements TokenBucket); StillServed |

The conditions in the right column matter: without them the property fails, as the
next table and the section after it say. Each of these runs checks one sentence of
the documentation, and TLC finds a behaviour of the code that contradicts it.

| Run | Property | What happens |
|---|---|---|
| `AllocSyncRace` | ExclusiveUse | a sync applies labels listed before an allocation and frees its server |
| `DrainRestartForce` | ForcedOnlyLate | a rebuilt record has no deadline, and is overdue at once |
| `DrainNeverIdle` | UnusedIsDrained | each sync makes every warm server freshly used |

### Other divergences met while modelling

The models contain these behaviours as well; no run is kept for them. They are why
the passing runs have the conditions they have.

- Both processes can hand out one server, each from its own pool: neither looks at
  the label before it patches it (`cmd/apiserver/main.go:82`). So `AllocBetweenSyncs`
  has one process. For the same reason the API server assigns a draining server
  until its next sync, and a REST release makes a draining server warm again
  (`alloc_controller.go:179`), against "Allocator stops assigning this server to new
  matches" (`README.md:944`). So `DrainKeeps` has one pool.
- With one pool a drain can be undone as well. An allocation picks and labels a server
  that executeScaleDown has found idle, the drain starts, and the status update of the
  allocation fails: the rollback makes the label warm whatever it is by then
  (`alloc_controller.go:130`). The next sync makes the server available
  (`fleet_controller.go:249`) while its record goes on, new clients are sent to it, and
  it may be deleted between the answer "no sessions" and their arrival, against "Ensures
  no active match is ever lost during scale-down" (`README.md:939`). TLC finds this as
  soon as NoMatchLost is stated without `s \in reopened`. So the servers that a
  rollback has reopened are the exception of NoMatchLost and of GracefulDrain, where
  Withdraw reopens a server; they are until the server is cordoned again or the
  controller restarts. DrainTimeGiven and DeadlineKept hold of them too.
- After a failed Delete the record is in DECOMMISSION or FORCED, which
  advanceDraining never looks at again (`fleet_controller.go:406`, 425): the pod
  stays, against "Rebuild drain state so draining Pods are not stuck forever" (line
  232). The same happens without any failure when a fleet of another namespace is
  reconciled first: it advances this fleet's record, and deletes in its own
  namespace (line 423), where there is no such pod. So `DrainKeeps` has no failing
  Delete, and its second fleet is of the same namespace.
- A dry run holds back scaling but not advanceDraining (line 151), which deletes,
  against "skip actual Pod creation/deletion" (`README.md:1108`).
- The API server never removes a server from its pool (`cmd/apiserver/main.go:173`).
  A pod that is gone while warm stays a candidate; a request that picks it fails and
  picks again. FewestPlayers gets past it, as each attempt counts as an allocation;
  LowestLatency does not when its name is first, and StrictBinPack never.
- AllocationCount grows with every sync of an allocated server as well
  (`pool.go:172`, from `fleet_controller.go:229` and `cmd/apiserver/main.go:189`), so
  FewestPlayers and the order of drains follow the time a server was in use rather
  than the number of its matches or players.
- The regions of a request are passed on and read by nobody, and LatencyMs is never
  filled in: LowestLatency is the order of names (`scheduler.go:22`, 45).
- "Max allocation requests per second" (`README.md:1162`): after a pause a full bucket
  and its refill admit nearly twice the rate within a second, and as each fill drops
  what is left of a token, clients that call all the time get somewhat less than
  the rate. `WindowBound` says how many exactly.
- A drain starts although its label could not be written
  (`fleet_controller.go:377`); the next sync makes the server available while its
  record goes on, and it may be deleted with a match on it. So `DrainKeeps` has no
  failing label.
- After a restart a labelled server is a candidate between Register and
  MarkAllocated of the first sync (`fleet_controller.go:226`).
- The patch is the difference to a pod read from the cache, so after a stale read it
  is empty and a server in use stays warm (`alloc_controller.go:189`).
- A selector that matches no pod restricts nothing (`pool.go:344`), nor does one
  whose List failed.
- A pod that terminates is listed as running, so a sync after its Remove registers
  it again, and nothing removes it then (`fleet_controller.go:217`).
- Replicas are counted in a cache that may miss pods of a scale-up that failed half
  way. Such a scale-up also leaves no cooldown (`fleet_controller.go:327`). So
  `ScaleBounds` has a current cache.
- Draining pods count as replicas: a scale-down may leave fewer than MinReplicas
  that serve (`scaler.go:108`). Its guard looks at the buffer and its size at the
  replicas, so it may drain the buffer away (`scaler.go:143`).
- A frozen fleet keeps its count of failures although Reconcile ends well
  (`fleet_controller.go:142`), so `ScaleLoadMet` has no freezes. A Reconcile that
  cannot list the pods fails without being counted (line 98).
- The scraper drops errors, so servers that do not answer have no players
  (`scraper.go:66`) and the fleet may shrink; the breaker, which "prevents faulty
  metrics" from doing that (`README.md:1112`), is not told.
- The round-robin index counts positions in a list that changes between requests and
  can pass over an available server again and again (`pool.go:357`).
- TimeoutSeconds is a minimum drain time in the code (`drainer.go:101`), where
  `autoscalerpolicy_types.go:91` calls it "the max wait time for active sessions to end"
  and `README.md:949-954` says "Max wait" and "Active sessions = 0 or timeout reached".
  DrainTimeGiven is about what the code does; the maximum is ForceAfterSeconds. A record
  that was rebuilt is overdue at once (see `DrainRestartForce`), so forced deletions are
  no part of DrainTimeGiven.

### Bounds

- *Pool*: one fleet (fleets do not touch each other's entries) of two servers; an
  idle timeout of one with ages up to two, so a server is below, at and above it;
  every server is allocated or marked at most twice, enough for a round and the
  start of the next.
- *Allocation*: one or two servers, two requests or one, one or two REST clients:
  enough for a contested server, a loser and a third party. One fault and one
  restart can fall on every step. A cache holds at most two labels of a pod
  (`MaxLag`), which makes every read current or stale. `AllocComesBack` has a second
  server, which drains, so that a sync makes all three marks; in exchange no call fails
  there, and a rollback comes from two processes that conflict.
- *Drain*: one server, a minimum time of two ticks, a check every tick, a force
  deadline of three, or of two in `DrainTime`, where a record may be overdue and old
  enough at once. `DrainKeeps` has two allocations under way at a time (`MaxJoining`),
  so that one may be rolled back while another joins; `DrainTime` has one, of either
  process. Two faults in `DrainKeeps` let a rollback reopen a drain and one more call
  fail. A second fleet is one more Reconcile that advances the drains (`OtherFleet`);
  five are more of the same, as drainMu lets one at a time into the map. Drains of
  different servers meet only in the order in which Reconcile takes them, which a
  single server with allocations, releases, faults and restarts around it cannot show;
  two servers with all of that are more than TLC explores in the time a run is given.
  Ages stop at `MaxAge`, past every comparison.
- *Scaling*: up to three pods and two players in `ScaleBounds`; two pods, more with a
  stale cache, and two players in `ScaleLoadMet`, so that the load reaches the upper
  bound; one player per server, one drain at a time that was reopened (`MaxReopened`),
  a breaker that opens after two failures for two ticks, or for one, cooldowns of one.
  Two faults reach the threshold, or hit a scale-up half way, or hide the players of
  one Reconcile; the third of `ScaleBounds` reopens the circuit while it probes.
- *Rate limiter*: three requests per second on a clock of fifths of a second, so that
  a fill brings none, one or several tokens and always loses a fraction; windows of
  two seconds, in which a bucket fills up from empty. The proofs have no bounds.

### Fairness

Liveness is checked under these assumptions, and no others:

- controller-runtime queues a failed Reconcile again, an allocation without a
  server after 2 seconds, a fleet every 15 seconds, and the API server syncs every
  30: weak fairness of each Reconcile and sync. In `FleetDrain` it is strong fairness,
  for a Reconcile may wait for drainMu while the other one takes it again and again, and
  a mutex of Go does not let a goroutine starve.
- Informers catch up, kubelets start and stop pods: weak fairness of Deliver*,
  PodRuns, PodGone. An allocation that was begun ends (AllocStep), and so does a REST
  release.
- Time passes. A tick needs a lull, a moment between two Reconciles without an
  allocation under way. Both are short against a tick, so a lull comes again and
  again, and Tick is strongly fair. This is assumed only as long as every Reconcile
  comes to its end again and again: one that waits for drainMu for ever is a
  counterexample to DrainingIsReclaimed, and not assumed away.
- Drains end, in `FleetScaling`: that is DrainingIsReclaimed of `FleetDrain`, with its
  conditions.
- Clients of the rate limiter go on calling, and its clock goes on, in `RateLimits`.
- Nothing else is assumed of players, matchmakers or the scaler. `DrainNeverIdle` adds
  that the scaler asks for fewer servers whenever it can, which makes its
  counterexample stronger.
- Failures and restarts are bounded in number, so they end; that is what "after
  finitely many failures" means for the liveness properties.

## Proofs

TLAPS checks these for every value of the constants.

- **Pool** (`PoolManagerProofs`). `PoolInv` is inductive: TypeOK, LeaseAllocated
  (what is handed out is marked allocated) and RestCoversIdle (a server that is
  free has been idle no longer than it has been out of clients' hands).
  NotReturnedAgain follows from the second, as candidates are not allocated.
  IdleMeansUnused needs the third: neither property is inductive alone, since a
  step may see a server that is leased, not allocated, and not yet a candidate.
  SelectionDeterministic says that the ranking leaves no tie, so the order in which
  Go iterates over the map of servers is of no consequence. From it,
  `RankBijection` (a pigeonhole argument, no induction) makes the ranks of n servers
  exactly 0 .. n-1: there is one server at each place of the list. That gives
  AlwaysServed, for the round-robin index is brought into the list before it is used;
  DrainSize, that the list of servers to drain has the length asked for; and with
  LeastUsedFirst, that it can be cut anywhere, DrainsLeastUsed.
- **Round robin** (`PoolManagerProofs`). RoundRobinRotates is about the servers served
  since the candidates last changed, which says nothing about whom the next request
  chooses. `RoundInv` relates it to the index: those served are the ones at the
  last `turns` places before the index, cyclically, or everybody. A request takes the
  next place; every other step keeps the index, and starts the count again when it
  changes the candidates. RoundRobinImplements (RRSpec => Spec) brings in
  the typing of the pool.
- **Allocation** (`AllocationProofs`). `AllocInv` adds to TypeOK that a status is
  written once: its version is 1 exactly while it is pending, and whoever is past
  reading a request read it at version 1 and has a server. From that, every step
  either leaves all decisions alone or makes one that was open: DecidedOnce, the
  refinement of `Decisions`, with any number of processes, stale caches, lost
  replies and restarts. The resourceVersion check is what the proof rests on.
- **Lending** (`LendingProofs`). ExclusiveUse and EveryLendAccounted under the
  conditions of `AllocBetweenSyncs`, here called `OneProcess`: one process, no sync or
  restart in between, writes that are answered. Neither is inductive, for a server is
  with a worker or in a REST call before and after it is with a client. `Lending`
  keeps a ledger of all of them: no server on two lines, and the pool's allocated
  servers are exactly those in the ledger. Every step takes a server that is in no
  line, gives one back, hands one over from a worker to its client, or leaves the
  ledger alone. The handing over finds the client without a server, because a status
  is written only at version 1, which is where `AllocInv` comes in. Each condition is
  used: the proof of one of the steps fails without it. With the ledger every step is
  one of `Loans` or a stutter (LoansAreKept): a pick keeps a server aside, the status
  or the REST reply hands it over, a release ends the match, and each Release of the
  pool, on whichever of the failure paths, puts back a server that was aside and that
  nobody plays on. So no path releases twice what it took once.
- **Rate limiter** (`RateLimiterProofs`). The argument is about `Credit`, what tokens
  and age together are worth, capped at a full bucket and the rest of a token. A
  tick earns Rate of it, an admission costs a whole Unit at least and less than two,
  a refusal finds less than a Unit. From this follow both the refinement of
  `TokenBucket` and `WindowInv`: the credit that is left and what was admitted
  never exceed a full bucket and what the window earned. WindowBound alone is not
  inductive, for it does not see the tokens.
- **Fleet drain** (`FleetDrainProofs`). `DrainInv` is inductive: a label `draining` and
  a drain record exist only for servers whose drain was begun, a record is never
  older than that drain, one Reconcile at a time is in the map of records, and what
  it deletes was ready to be deleted when it said so and has only become older.
  Allocations are covered by their types alone: whatever they do to labels and pools,
  no record grows older by it. DrainTimeGiven, for every force deadline, and
  DeadlineKept follow; alone they say nothing about the records that the next step
  deletes by.
- **Matches** (`MatchKeptProofs`). NoMatchLost under the four conditions `Alone`: the API
  server does not allocate, the cache is current, draining labels can be written, and
  the minimum drain time is not zero. `KeptInv` says that nobody joins an `Undisturbed`
  server, one that drains and that no rollback has reopened (it is unavailable in the
  pool, its label is not warm, and no sync in progress has listed it as warm), so that
  an answer "no sessions" stays true until the Delete. The rollback of an allocation is
  one of the steps: it makes the label warm, and what it does to a drain is in
  `reopened`. The minimum time is what lets an allocation under way when the drain began
  arrive before anybody asks. TLC loses a match without any one of the four.
- **The drain as clients see it** (`MatchKeptProofs`). DrainsGracefully: under `Alone`
  the fleet implements `GracefulDrain`, every step of it a step of that module or a
  stutter. A server's phase is read off its pod, its record and whether its drain was
  begun: `gone` from the Delete on, `leaving` with a record, `resumed` with a rebuilt
  one, `forgotten` when its drain was begun and a restart lost the record, `serving`
  otherwise. What goes beyond NoMatchLost: a server that drains is never invited to
  unless it was reopened, it goes without players and invitations once its time is
  over (a reopened one with whoever came back) or by force once its deadline has
  passed, only a restart takes a drain back, and only a drain lost that way is
  resumed. One more invariant is needed, PickedServe: a server that executeScaleDown
  picked does not drain yet, also when it has to wait for drainMu, so that StartDrain
  never starts a drain over.
- **Fleet scaling** (`FleetScalingProofs`). `ScaleInv` is inductive: the pods that exist
  and those still to be created fit into MaxReplicas, a snapshot has no fewer pods
  than there are, a Reconcile collects or creates with the circuit closed, no failure
  in a row is left uncounted, and what is left of the opening time and what has passed
  of it make up OpenTime at least. NeverAboveMax (current cache) and BreakerPauses
  follow, and BreakerCountsConsecutive without freezes. `EvaluateIs` has the bound
  of a decision: a scale-up ends at MaxReplicas at most.
- **Pool lemmas** (`PoolStateProofs`) say what each method does to the three sets
  and that it keeps a pool well formed; the other proofs cite them.

The assumptions are those of the modules (`ServersAssumption`, `BoundsAssumption`,
`AllocationAssumption`, `DrainConfigAssumption`, `FleetDrainAssumption`,
`PolicyAssumption`, `FleetScalingAssumption`, `RateLimiterAssumption`), which TLC
evaluates in the runs, and the conditions a theorem states before PROVE, which are
those of the run of the same property.

Only model-checked: liveness under fairness (EventuallyDecided, ReleasedComesBack,
DrainingIsReclaimed, LoadIsMet, StillServed), which is outside what TLAPS can prove
here, and the three violations. Every invariant and every action property or
refinement that a passing run checks is a theorem as well.

## Not modelled

- Stats, NeedsRefill, RefillCount (read only; the last two are called by tests alone),
  FilterNodesByHealth and the Warmer (nobody calls them).
- The case of Advance that leads to DONE: advanceDraining skips those records.
- The status and conditions of a fleet: nothing reads them back, apart from the
  counts within one Reconcile.
- The policy's drain and circuit-breaker settings: the code uses fixed values
  (`cmd/controller/main.go:136-142`, `fleet_controller.go:557-561`). The models
  take them as constants.
- Two fleets of one name in two namespaces, which share pools, breakers and
  cooldowns as well, and fleets that are deleted.
- Pods that go away while they are warm, in `Allocation`; retried REST releases and
  lost REST replies: no property survives them, see the hazards in `PROJECT.json`.
- How node health is classified: it has no state, and Evaluate only asks whether
  too few nodes are healthy.
- Notifier, Prometheus collector, HTTP server, flags, shutdown: no state that
  anything reads back.

## Plan

Order of work, the most important behaviour first. Done: 1-8 and 10.

1. PoolManager with Scheduler, RoundRobin; its theorems.
2. Allocation with its abstract specification Decisions; the refinement proved.
3. FleetDrain over Drainer: what a drain may and must do.
4. FleetScaling over Scaler: bounds, breaker, load; dry run, missed scrapes, counts
   that age while they are collected.
5. Two fleets in one controller over one map of drain records.
6. The rate limiter with its abstract specification TokenBucket; its theorems.
7. SelectForDrain and the order of drains.
8. Theorems on FleetDrain, FleetScaling and the lending of Allocation; bounds of
   Evaluate.
9. Fleets of one name, which share a pool; pods that go away while they are in a pool.
10. RoundRobinRotates for every number of servers; GracefulDrain, and the fleet
   shown to implement it.
