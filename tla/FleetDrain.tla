----------------------------- MODULE FleetDrain ------------------------------
(***************************************************************************)
(* How FleetReconciler (fleet_controller.go) retires the game servers of    *)
(* one fleet.  Each Reconcile syncs the pool with the pod labels, may start *)
(* to drain idle servers, and advances the drains, which ends in a Delete.  *)
(* Meanwhile the AllocationReconciler of the same process hands servers out *)
(* of the same pool, and the API server hands them out of another.  Each    *)
(* allocation picks a server, labels it and updates its status, and rolls   *)
(* back when that fails; Allocation has these steps for many requests.      *)
(* Fleets of one controller are reconciled at the same time and share the   *)
(* map of drain records, so a Reconcile of another fleet advances the       *)
(* drains of this one as well: drainMu is all that keeps them apart.        *)
(***************************************************************************)
EXTENDS Drainer, PoolState, FiniteSets

CONSTANTS
    Servers,    \* pods created by executeScaleUp
    None,
    ApiServer,  \* whether the API server runs: it allocates and releases, too
    CacheLag,   \* whether the informer cache may lag behind the API
    OtherFleet, \* a second fleet of the controller: in the "same" namespace,
                \* "elsewhere" in another, or "none"
    SlowScrape, \* whether collecting metrics may outlast IdleTimeout
    MayFail,    \* calls that may fail: "list", "query" and "delete", "label" when a
                \* drain starts, "assign" in an allocation or a release
    MaxJoining, \* bound on allocations under way
    MaxFaults,  \* bound on failing calls
    MaxCrashes  \* bound on restarts of the controller

ASSUME FleetDrainAssumption ==
    /\ None \notin Servers
    /\ OtherFleet \in {"none", "same", "elsewhere"}
    /\ ApiServer \in BOOLEAN /\ CacheLag \in BOOLEAN /\ SlowScrape \in BOOLEAN
    /\ MayFail \subseteq {"list", "label", "query", "delete", "assign"}
    /\ MaxJoining \in Nat /\ MaxFaults \in Nat /\ MaxCrashes \in Nat

VARIABLES
    pod,        \* pod[s]: what the API knows of the pod of s
    label,      \* label[s]: its phase label
    cached,     \* cached[s]: the label the controller reads
    playing,    \* servers with clients on them
    pool,       \* the pool of the controller, see PoolState
    rested,     \* servers of the pool with LastUsedAt before IdleTimeout
    apiPool,    \* the pool of the API server
    joining,    \* allocations under way, see Allocations
    rec,        \* rec[w]: the Reconcile in progress of w, one of Workers
    drain,      \* drain[s]: drainStates[s]
    cordoned,   \* history: servers whose drain was started
    since,      \* history: since[s], ticks from there while the pod lives
    reopened,   \* history: servers that a rollback made warm while they drain
    faults, crashes

podVars == <<pod, label, cached, playing>>
poolVars == <<pool, rested>>
requestVars == <<apiPool, joining>>
historyVars == <<cordoned, since, reopened>>
vars == <<podVars, poolVars, requestVars, rec, drain, historyVars, faults, crashes>>

Labels == {"warm", "allocated", "draining"}
PodPhases == {"pending", "running", "terminating", "gone"}
\* The Reconciles of this fleet and of the other one.
Workers == IF OtherFleet = "none" THEN {"own"} ELSE {"own", "other"}
\* The controller and the API server.
Processes == {"ctl", "api"}
\* base is the label in the copy of the pod that the allocation holds.
Allocations == [proc : Processes, server : Servers, pc : {"label", "status", "undo"},
                base : Labels]
Resting == [pc |-> "rest", todo |-> {}, cur |-> None, snap |-> [s \in Servers |-> "warm"]]

TypeOK ==
    /\ pod \in [Servers -> PodPhases]
    /\ label \in [Servers -> Labels]
    /\ cached \in [Servers -> Labels]
    /\ playing \in SUBSET Servers
    /\ pool \in Pools(Servers) /\ WellFormed(pool)
    /\ rested \in SUBSET Servers
    /\ apiPool \in Pools(Servers) /\ WellFormed(apiPool)
    /\ joining \in SUBSET Allocations
    /\ rec \in [Workers -> [pc : {"rest", "sync", "scale", "picked", "drain", "ready", "advance"},
                            todo : SUBSET Servers, cur : Servers \cup {None},
                            snap : [Servers -> Labels]]]
    /\ drain \in [Servers -> ServerStates]
    /\ cordoned \in SUBSET Servers
    /\ since \in [Servers -> 0 .. MaxAge]
    /\ reopened \in SUBSET Servers
    /\ faults \in 0 .. MaxFaults
    /\ crashes \in 0 .. MaxCrashes

\* executeScaleUp has created and registered the pods; some run already.
Init ==
    /\ pod \in [Servers -> {"pending", "running"}]
    /\ label = [s \in Servers |-> "warm"]
    /\ cached = label
    /\ playing = {}
    /\ pool = [EmptyPool EXCEPT !.tracked = Servers]
    /\ rested = {} /\ apiPool = EmptyPool /\ joining = {}
    /\ rec = [w \in Workers |-> Resting]
    /\ drain = [s \in Servers |-> NoDrain]
    /\ cordoned = {} /\ since = [s \in Servers |-> 0] /\ reopened = {}
    /\ faults = 0 /\ crashes = 0

------------------------------------------------------------------------------
\* The API, the kubelet and the cache.
Fault(call) == call \in MayFail /\ faults < MaxFaults /\ faults' = faults + 1
NoFault == UNCHANGED faults

Exists(s) == pod[s] # "gone"
Alive(s) == pod[s] \in {"pending", "running"}

\* A patch is the difference to the pod that was read, base.
PatchLabel(s, base, phase) ==
    LET written == IF base = phase THEN label[s] ELSE phase IN
    /\ label' = [label EXCEPT ![s] = written]
    /\ cached' = IF CacheLag THEN cached ELSE [cached EXCEPT ![s] = written]

Deliver(s) ==
    /\ cached[s] # label[s]
    /\ cached' = [cached EXCEPT ![s] = label[s]]
    /\ UNCHANGED <<pod, label, playing, poolVars, requestVars, rec, drain,
                   historyVars, faults, crashes>>

PodRuns(s) ==
    /\ pod[s] = "pending"
    /\ pod' = [pod EXCEPT ![s] = "running"]
    /\ UNCHANGED <<label, cached, playing, poolVars, requestVars, rec, drain,
                   historyVars, faults, crashes>>

\* A deleted pod is listed as running until its grace period is over.
PodGone(s) ==
    /\ pod[s] = "terminating"
    /\ pod' = [pod EXCEPT ![s] = "gone"]
    /\ playing' = playing \ {s}
    /\ UNCHANGED <<label, cached, poolVars, requestVars, rec, drain,
                   historyVars, faults, crashes>>

\* Time passes between two Reconciles, or in one that waits for metrics; the
\* rest of a Reconcile and an allocation take less than a tick.
Tick ==
    /\ rec["own"].pc = "rest" \/ (SlowScrape /\ rec["own"].pc = "scale")
    /\ \A w \in Workers \ {"own"} : rec[w].pc = "rest"
    /\ joining = {}
    /\ rested' = pool.tracked
    /\ drain' = [s \in Servers |-> Older(drain[s])]
    /\ since' = [s \in Servers |->
                   IF s \in cordoned /\ Alive(s) /\ since[s] < MaxAge
                     THEN since[s] + 1 ELSE since[s]]
    /\ UNCHANGED <<podVars, pool, requestVars, rec, cordoned, reopened, faults, crashes>>

------------------------------------------------------------------------------
\* Allocations, by the controller from its pool and by the API server from its own.
PoolOf(p) == IF p = "ctl" THEN pool ELSE apiPool

\* Process p has changed the entry of s, and LastUsedAt with it.
SetPool(p, s, q) ==
    IF p = "ctl" THEN pool' = q /\ rested' = rested \ {s} /\ UNCHANGED apiPool
                 ELSE apiPool' = q /\ UNCHANGED poolVars

\* The label that process p reads; a cache that lags may, or may not, have it yet.
Reads(p, s) == IF p = "ctl" THEN {cached[s]} ELSE {cached[s], label[s]}

\* A client that was told of s joins it, if it is still there.
Joined(s) == IF Exists(s) THEN playing \cup {s} ELSE playing

AllocPick(p, s) ==
    /\ p = "ctl" \/ ApiServer
    /\ s \in Candidates(PoolOf(p)) /\ Cardinality(joining) < MaxJoining
    /\ SetPool(p, s, SetAllocated(PoolOf(p), s))
    /\ joining' = joining \cup {[proc |-> p, server |-> s, pc |-> "label", base |-> "warm"]}
    /\ UNCHANGED <<podVars, rec, drain, historyVars, faults, crashes>>

\* A label that failed may have been written all the same.  A request at the REST
\* interface of the API server is answered now and has no status.
AllocLabel(a) ==
    LET s == a.server
        labels == \E base \in Reads(a.proc, s) : PatchLabel(s, base, "allocated")
    IN
    /\ a.pc = "label"
    /\ \/ /\ Exists(s) /\ NoFault /\ labels
          /\ \/ /\ joining' = (joining \ {a})
                               \cup {[a EXCEPT !.pc = "status", !.base = label'[s]]}
                /\ UNCHANGED playing
             \/ /\ a.proc = "api"
                /\ joining' = joining \ {a} /\ playing' = Joined(s)
          /\ UNCHANGED <<poolVars, apiPool>>
       \/ /\ \/ Fault("assign") /\ UNCHANGED <<label, cached>>
             \/ Fault("assign") /\ Exists(s) /\ labels
             \/ ~Exists(s) /\ NoFault /\ UNCHANGED <<label, cached>>
          /\ SetPool(a.proc, s, Released(PoolOf(a.proc), s))
          /\ joining' = joining \ {a}
          /\ UNCHANGED playing
    /\ UNCHANGED <<pod, rec, drain, historyVars, crashes>>

\* An update that failed may have been written all the same.
AllocStatus(a) ==
    LET s == a.server IN
    /\ a.pc = "status"
    /\ \/ /\ NoFault
          /\ joining' = joining \ {a} /\ playing' = Joined(s)
          /\ UNCHANGED <<poolVars, apiPool>>
       \/ /\ Fault("assign")
          /\ SetPool(a.proc, s, Released(PoolOf(a.proc), s))
          /\ joining' = (joining \ {a}) \cup {[a EXCEPT !.pc = "undo"]}
          /\ playing' \in {playing, Joined(s)}
    /\ UNCHANGED <<pod, label, cached, rec, drain, historyVars, crashes>>

\* The drain of s has begun, or the sync under way takes it up again.
DrainBegun(s) == drain[s].phase # "none" \/ rec["own"].snap[s] = "draining"

\* The rollback makes the label warm, whatever it is by now, and ignores failures.
AllocUndo(a) ==
    LET s == a.server IN
    /\ a.pc = "undo"
    /\ joining' = joining \ {a}
    /\ \/ /\ Exists(s) /\ NoFault
          /\ PatchLabel(s, a.base, "warm")
          /\ reopened' = IF DrainBegun(s) /\ label'[s] = "warm" THEN reopened \cup {s}
                                                               ELSE reopened
       \/ /\ Fault("assign") \/ (~Exists(s) /\ NoFault)
          /\ UNCHANGED <<label, cached, reopened>>
    /\ UNCHANGED <<pod, playing, poolVars, apiPool, rec, drain, cordoned, since, crashes>>

AllocStep(a) == AllocLabel(a) \/ AllocStatus(a) \/ AllocUndo(a)

\* syncPoolsFromLabels: the API server marks each pod that runs by its label.
ApiSync ==
    LET listed == {s \in Servers : pod[s] \in {"running", "terminating"}}
        phased(phase) == {s \in listed : label[s] = phase}
    IN
    /\ ApiServer
    /\ apiPool' = [tracked   |-> apiPool.tracked \cup listed,
                   allocated |-> (apiPool.allocated \ phased("warm")) \cup phased("allocated"),
                   unhealthy |-> (apiPool.unhealthy \ phased("warm")) \cup phased("draining")]
    /\ UNCHANGED <<podVars, poolVars, joining, rec, drain, historyVars, faults, crashes>>

\* The match on s is over.  A release through the API server makes s warm, also
\* when it drains, and returns it to the pool of that process only.
MatchEnds(s) ==
    /\ s \in playing
    /\ playing' = playing \ {s}
    /\ \/ UNCHANGED <<label, cached, apiPool, faults>>
       \/ /\ ApiServer
          /\ \/ \E base \in Reads("api", s) : PatchLabel(s, base, "warm") /\ NoFault
             \/ UNCHANGED <<label, cached>> /\ Fault("assign")
          /\ apiPool' = Released(apiPool, s)
    /\ UNCHANGED <<pod, poolVars, joining, rec, drain, historyVars, crashes>>

------------------------------------------------------------------------------
\* FleetReconciler.Reconcile; only the steps that touch pods, pool or drains.
Goes(w, r) == rec' = [rec EXCEPT ![w] = r]

\* Whoever starts or advances drains holds drainMu.
MayLock(w) == \A v \in Workers \ {w} : rec[v].pc \notin {"drain", "advance"}

\* A sync that cannot list the pods is skipped.
BeginSync ==
    LET listed == {s \in Servers : pod[s] \in {"running", "terminating"}} IN
    /\ rec["own"].pc = "rest"
    /\ \/ /\ listed # {} /\ NoFault
          /\ Goes("own", [Resting EXCEPT !.pc = "sync", !.todo = listed, !.snap = cached])
       \/ /\ (listed = {} /\ NoFault) \/ Fault("list")
          /\ Goes("own", [Resting EXCEPT !.pc = "scale"])
    /\ UNCHANGED <<podVars, poolVars, requestVars, drain, historyVars, crashes>>

SyncRegister(s) ==
    LET r == rec["own"] IN
    /\ r.pc = "sync" /\ s \in r.todo /\ r.cur = None
    /\ pool' = Registered(pool, s)
    /\ Goes("own", [r EXCEPT !.cur = s])
    /\ UNCHANGED <<podVars, rested, requestVars, drain, historyVars, faults, crashes>>

\* Seeded fault: the drain record of a labelled pod is not rebuilt.
RecoveredNever(s) == drain

\* A restarted controller has no record of the drain of a labelled pod.
Recovered(s) ==
    IF drain[s].phase = "none" THEN [drain EXCEPT ![s] = DrainRecovered] ELSE drain

SyncMark ==
    LET r == rec["own"]
        s == r.cur
        left == r.todo \ {s}
    IN
    /\ r.pc = "sync" /\ s # None
    /\ \/ /\ r.snap[s] = "allocated"
          /\ pool' = SetAllocated(pool, s) /\ rested' = rested \ {s}
          /\ UNCHANGED drain
       \/ /\ r.snap[s] = "draining" /\ MayLock("own")
          /\ pool' = MadeUnhealthy(pool, s)
          /\ drain' = Recovered(s)
          /\ UNCHANGED rested
       \/ /\ r.snap[s] = "warm"
          /\ pool' = MadeAvailable(pool, s) /\ rested' = rested \ {s}
          /\ UNCHANGED drain
    /\ Goes("own", IF left = {} THEN [Resting EXCEPT !.pc = "scale"]
                   ELSE [r EXCEPT !.cur = None, !.todo = left])
    /\ UNCHANGED <<podVars, requestVars, historyVars, faults, crashes>>

\* Without metrics, or when a pod cannot be created, Reconcile returns at once and
\* no drain advances.
GiveUp ==
    /\ rec["own"].pc = "scale"
    /\ Fault("list")
    /\ Goes("own", Resting)
    /\ UNCHANGED <<podVars, poolVars, requestVars, drain, historyVars, crashes>>

\* executeScaleDown takes some of the idle servers, and drains them one by one once
\* it has the lock.
ScaleDown ==
    /\ rec["own"].pc = "scale"
    /\ \E idle \in (SUBSET (Candidates(pool) \cap rested)) \ {{}} :
          Goes("own", [Resting EXCEPT !.pc = "picked", !.todo = idle])
    /\ UNCHANGED <<podVars, poolVars, requestVars, drain, historyVars, faults, crashes>>

LockDrains ==
    /\ rec["own"].pc = "picked" /\ MayLock("own")
    /\ Goes("own", [rec["own"] EXCEPT !.pc = "drain"])
    /\ UNCHANGED <<podVars, poolVars, requestVars, drain, historyVars, faults, crashes>>

\* Whether or not the pod was read and the label written, the drain begins; without
\* the pod its endpoint is only the name of the server.
StartDrain(s) ==
    LET left == rec["own"].todo \ {s}
        runs == pod[s] \in {"running", "terminating"}
    IN
    /\ rec["own"].pc = "drain" /\ s \in rec["own"].todo
    /\ \E reachable \in {runs, FALSE} :
          /\ drain' = [drain EXCEPT ![s] = DrainStarted(reachable)]
          /\ \/ /\ Exists(s) /\ reachable = runs
                /\ PatchLabel(s, cached[s], "draining") /\ NoFault
             \/ Fault("label") /\ UNCHANGED <<label, cached>>
             \/ ~Exists(s) /\ NoFault /\ UNCHANGED <<label, cached>>
    /\ pool' = MadeUnhealthy(pool, s)
    /\ Goes("own", IF left = {} THEN [Resting EXCEPT !.pc = "ready"]
                   ELSE [rec["own"] EXCEPT !.todo = left])
    /\ cordoned' = cordoned \cup {s}
    /\ reopened' = reopened \ {s}
    /\ UNCHANGED <<pod, playing, rested, requestVars, since, crashes>>

------------------------------------------------------------------------------
\* advanceDraining, one record at a time; a record that is ready is deleted next.
\* Drains that advanceDraining looks at now, see its first condition.
Due == {s \in Servers : ShouldCheck(drain[s]) \/ drain[s].phase = "CORDON"}

\* This fleet has scaled down, or the scaler holds, is paused or frozen, or has
\* created pods; the other fleet gets there at any time.
BeginAdvance(w) ==
    /\ rec[w].pc \in IF w = "own" THEN {"scale", "ready"} ELSE {"rest"}
    /\ MayLock(w)
    /\ Goes(w, IF Due = {} THEN Resting ELSE [Resting EXCEPT !.pc = "advance", !.todo = Due])
    /\ UNCHANGED <<podVars, poolVars, requestVars, drain, historyVars, faults, crashes>>

Turn(w, s) == rec[w].pc = "advance" /\ s \in rec[w].todo /\ rec[w].cur = None

Finished(w, s) ==
    Goes(w, IF rec[w].todo = {s} THEN Resting
            ELSE [rec[w] EXCEPT !.cur = None, !.todo = @ \ {s}])

SetDrain(s, d) == drain' = [drain EXCEPT ![s] = d]

Cordon(w, s) ==
    /\ Turn(w, s) /\ drain[s].phase = "CORDON"
    /\ SetDrain(s, CordonDone(drain[s]))
    /\ Finished(w, s)
    /\ UNCHANGED <<podVars, poolVars, requestVars, historyVars, faults, crashes>>

ForceServer(w, s) ==
    /\ Turn(w, s) /\ drain[s].phase = "DRAIN" /\ Overdue(drain[s])
    /\ SetDrain(s, Forced(drain[s]))
    /\ Goes(w, [rec[w] EXCEPT !.cur = s])
    /\ UNCHANGED <<podVars, poolVars, requestVars, historyVars, faults, crashes>>

\* Whether the endpoint in the record answers; a pod that terminates may.
Answers(s) == drain[s].reachable /\ pod[s] \in {"running", "terminating"}
MayBeSilent(s) == ~drain[s].reachable \/ pod[s] # "running"

\* Without an answer the record waits for the next round.
QueryServer(w, s) ==
    LET answered == Answered(drain[s], s \in playing) IN
    /\ Turn(w, s) /\ drain[s].phase = "DRAIN" /\ ~Overdue(drain[s])
    /\ \/ /\ Answers(s) /\ NoFault
          /\ SetDrain(s, answered)
          /\ IF answered.phase = "DECOMMISSION" THEN Goes(w, [rec[w] EXCEPT !.cur = s])
                                                ELSE Finished(w, s)
       \/ /\ Fault("query") \/ (MayBeSilent(s) /\ NoFault)
          /\ Finished(w, s)
          /\ UNCHANGED drain
    /\ UNCHANGED <<podVars, poolVars, requestVars, historyVars, crashes>>

\* Delete looks for the pod in the namespace of the fleet that is reconciled; a pod
\* that is gone or not there is not found, an error like any other.  Remove, too,
\* goes to the pool of that fleet.
DeletePod(w, s) ==
    LET inReach == w = "own" \/ OtherFleet = "same" IN
    /\ rec[w].pc = "advance" /\ rec[w].cur = s
    /\ Finished(w, s)
    /\ \/ /\ Exists(s) /\ inReach /\ NoFault
          /\ pod' = [pod EXCEPT ![s] = "terminating"]
          /\ since' = [since EXCEPT ![s] = 0] /\ reopened' = reopened \ {s}
          /\ IF w = "own" THEN pool' = Removed(pool, s) /\ rested' = rested \ {s}
                          ELSE UNCHANGED poolVars
          /\ SetDrain(s, NoDrain)
       \/ /\ \/ Fault("delete")
             \/ (pod[s] \in {"terminating", "gone"} \/ ~inReach) /\ NoFault
          /\ UNCHANGED <<pod, since, reopened, poolVars, drain>>
    /\ UNCHANGED <<label, cached, playing, requestVars, cordoned, crashes>>

\* The controller restarts with an empty pool and no drains.
Crash ==
    /\ crashes < MaxCrashes
    /\ crashes' = crashes + 1
    /\ pool' = EmptyPool /\ rested' = {} /\ joining' = {a \in joining : a.proc = "api"}
    /\ drain' = [s \in Servers |-> NoDrain]
    /\ rec' = [w \in Workers |-> Resting]
    /\ cached' = label
    /\ reopened' = {}
    /\ UNCHANGED <<pod, label, playing, apiPool, cordoned, since, faults>>

------------------------------------------------------------------------------
Advance(w) ==
    \/ BeginAdvance(w)
    \/ \E s \in Servers :
          Cordon(w, s) \/ ForceServer(w, s) \/ QueryServer(w, s) \/ DeletePod(w, s)

Reconcile(w) ==
    \/ Advance(w)
    \/ /\ w = "own"
       /\ \/ BeginSync \/ SyncMark \/ GiveUp \/ ScaleDown \/ LockDrains
          \/ \E s \in Servers : SyncRegister(s) \/ StartDrain(s)

Next ==
    \/ \E w \in Workers : Reconcile(w)
    \/ \E s \in Servers :
          \/ Deliver(s) \/ PodRuns(s) \/ PodGone(s)
          \/ MatchEnds(s)
          \/ \E p \in Processes : AllocPick(p, s)
    \/ \E a \in joining : AllocStep(a)
    \/ ApiSync \/ Tick \/ Crash

Spec == Init /\ [][Next]_vars

\* Time passes when neither a Reconcile nor an allocation is under way.
Lull == joining = {} /\ \A w \in Workers : rec[w].pc = "rest"

\* Reconcile runs again and again, and gets the lock in its turn; caches and pods
\* catch up, and an allocation that was begun ends.  Time passes: all of them are
\* short, so as long as Reconciles end a lull comes again and again.  Nothing is
\* said of players or of the scaler.
Fairness ==
    /\ \A w \in Workers : SF_vars(Reconcile(w))
    /\ SF_vars(Tick)
    /\ (\A w \in Workers : []<>(rec[w].pc = "rest")) => []<>Lull
    /\ \A s \in Servers : WF_vars(Deliver(s)) /\ WF_vars(PodRuns(s)) /\ WF_vars(PodGone(s))
    /\ WF_vars(\E a \in joining : AllocStep(a))

FairSpec == Spec /\ Fairness

\* The scaler asks again and again for fewer servers.
ShrinkingSpec == FairSpec /\ SF_vars(ScaleDown)

------------------------------------------------------------------------------
\* A Delete ends the pod of s.
Deleted(s) == Alive(s) /\ ~Alive(s)'

\* "Ensures no active match is ever lost during scale-down" (README.md:939): only
\* the force deadline takes a pod from its clients, never an answer that is out
\* of date, a scrape that failed or a record that was rebuilt.  The exception is
\* the code's: a drain that a rollback reopened goes on beside new matches.
NoMatchLost ==
    [][\A s \in playing :
          Deleted(s) => drain[s].phase = "FORCED" \/ s \in reopened]_vars

\* A pod that is deleted, but not by force, had its minimum drain time since its
\* drain began, however often records are lost, rebuilt or started again
\* (drainer.go:101-108).
DrainTimeGiven ==
    [][\A s \in Servers :
          Deleted(s) => drain[s].phase = "FORCED" \/ since[s] >= Timeout]_vars

\* Force comes late: a step that takes a pod from its clients by force.
ForcesLate ==
    \A s \in playing : Deleted(s) /\ drain[s].phase = "FORCED" => since[s] > ForceTime

\* Clients only lose their server by force once the force deadline has passed:
\* "never kill a pod with active players" (README.md:802) but for ForceAfterSeconds.
ForcedOnlyLate == [][ForcesLate]_vars

\* As long as the controller does not restart, that is how it is.
DeadlineKept == [][crashes = 0 => ForcesLate]_vars

\* "Rebuild drain state so draining Pods are not stuck forever"
\* (fleet_controller.go:232): a pod labelled draining goes, or loses the label.
DrainingIsReclaimed ==
    \A s \in Servers : label[s] = "draining" ~> (label[s] # "draining" \/ pod[s] = "gone")

\* "Game server idle timeout -> auto-drain and reclaim" (README.md:972): a server
\* that nobody uses does not stay warm while the scaler wants fewer.
UnusedIsDrained ==
    \A s \in Servers : ~<>[](pod[s] = "running" /\ label[s] = "warm" /\ s \notin playing)

------------------------------------------------------------------------------
\* What the fleet is to its clients: a pod that was deleted is gone at once.
Phase ==
    [s \in Servers |-> IF ~Alive(s) THEN "gone"
                       ELSE IF drain[s].phase = "none"
                              THEN IF s \in cordoned THEN "forgotten" ELSE "serving"
                       ELSE IF drain[s].recovered THEN "resumed" ELSE "leaving"]
Age ==
    [s \in Servers |-> IF Alive(s) /\ drain[s].phase # "none" THEN drain[s].entered ELSE 0]
Invited == {s \in Servers : Alive(s) /\ \E a \in joining : a.server = s}
Players == {s \in playing : Alive(s)}
Reopened == {s \in reopened : Alive(s)}

Promise == INSTANCE GracefulDrain WITH
    phase <- Phase, age <- Age, invited <- Invited, playing <- Players,
    reopened <- Reopened

\* Cordon, Drain, Decommission (README.md:937-950): nobody is sent to a server that
\* drains, it goes when it is empty and had its time, or by force, and a drain that
\* was begun does not start over unless a restart forgot it, whatever fails and
\* however Reconciles interleave.
DrainsAsPromised == Promise!Spec
==============================================================================
