----------------------------- MODULE Allocation ------------------------------
(***************************************************************************)
(* How game servers of one fleet are handed out and taken back.  The        *)
(* controller and the API server each run an AllocationReconciler over a    *)
(* PoolManager of their own (cmd/controller/main.go, cmd/apiserver/main.go);*)
(* the API server also answers REST calls.  What they share is the          *)
(* Kubernetes API: the phase label of every pod and the status of every     *)
(* GameServerAllocation.  Both are read through an informer cache that lags *)
(* behind.  Every call to the API or to a pool is a step of its own.        *)
(***************************************************************************)
EXTENDS PoolState, Integers, Sequences

CONSTANTS
    Procs,          \* processes that run an AllocationReconciler
    RestProc,       \* the one that serves REST calls, or None
    Servers,        \* running pods of the fleet
    Draining,       \* those labelled draining when the time modelled begins
    Requests,       \* GameServerAllocation objects
    Expiring,       \* those with spec.ttlSeconds > 0
    Selector,       \* Selector[r]: pods that match r's selector, None without one
    Calls,          \* REST clients, each allocates at most one server
    None,
    LostReplies,    \* whether a write may take effect and still return an error
    MaxLag,         \* bound on the labels of one pod a cache holds, the current
                    \* one included: a write waits for the caches to catch up
    MaxFaults,      \* bound on failing API calls
    Syncing,        \* processes whose label sync falls into the time modelled
    MaxCrashes      \* bound on process restarts

Clients == Requests \cup Calls

ASSUME AllocationAssumption ==
    /\ RestProc \in Procs \cup {None}
    /\ Draining \subseteq Servers
    /\ Expiring \subseteq Requests
    /\ \A r \in Requests : Selector[r] = None \/ Selector[r] \subseteq Servers
    /\ Requests \cap Calls = {}
    /\ None \notin Servers \cup Procs
    /\ LostReplies \in BOOLEAN
    /\ MaxLag \in Nat \ {0, 1}
    /\ Syncing \subseteq Procs
    /\ MaxFaults \in Nat /\ MaxCrashes \in Nat

VARIABLES
    label,      \* label[s]: the phase label of pod s in the API
    podCache,   \* podCache[p][s]: labels of s that p reads now and will read next
    request,    \* request[r]: status and resourceVersion of r in the API
    reqCache,   \* reqCache[p][r]: request[r] as p reads it
    expired,    \* requests older than their TTL
    pool,       \* pool[p]: the pool of process p
    worker,     \* worker[p][r]: p's Reconcile of r
    call,       \* call[c]: the REST call of client c
    syncer,     \* syncer[p]: p's label sync
    ready,      \* processes that accept work
    holder,     \* history: holder[c], the server client c plays on
    faults, crashes

labelVars == <<label, podCache>>
requestVars == <<request, reqCache, expired>>
syncVars == <<syncer, ready, crashes>>
vars == <<labelVars, requestVars, pool, worker, call, syncVars, holder, faults>>

Labels == {"warm", "allocated", "draining"}
Phases == {"Pending", "Allocated", "Failed"}
Statuses == [phase : Phases, server : Servers \cup {None}, version : Nat]
Idle == [pc |-> "idle", server |-> None, base |-> "warm", version |-> 0]
Steps == {"idle", "get", "label", "status", "undo", "unlabel", "return", "done"}
Threads == [pc : Steps, server : Servers \cup {None}, base : Labels, version : Nat]
NotSyncing == [todo |-> {}, cur |-> None, snap |-> [s \in Servers |-> "warm"]]

TypeOK ==
    /\ label \in [Servers -> Labels]
    /\ podCache \in [Procs -> [Servers -> Seq(Labels)]]
    /\ \A p \in Procs : \A s \in Servers :
          /\ podCache[p][s] # <<>>
          /\ podCache[p][s][Len(podCache[p][s])] = label[s]
    /\ request \in [Requests -> Statuses]
    /\ reqCache \in [Procs -> [Requests -> Statuses]]
    /\ expired \in SUBSET Expiring
    /\ pool \in [Procs -> Pools(Servers)]
    /\ \A p \in Procs : WellFormed(pool[p])
    /\ worker \in [Procs -> [Requests -> Threads]]
    /\ call \in [Clients -> Threads]
    /\ syncer \in [Procs -> [todo : SUBSET Servers, cur : Servers \cup {None},
                             snap : [Servers -> Labels]]]
    /\ ready \in SUBSET Procs
    /\ holder \in [Clients -> Servers \cup {None}]
    /\ faults \in 0 .. MaxFaults
    /\ crashes \in 0 .. MaxCrashes

\* Every process has synced its pool; a server is warm or draining.
Init ==
    /\ label = [s \in Servers |-> IF s \in Draining THEN "draining" ELSE "warm"]
    /\ podCache = [p \in Procs |-> [s \in Servers |-> <<label[s]>>]]
    /\ request = [r \in Requests |-> [phase |-> "Pending", server |-> None, version |-> 1]]
    /\ reqCache = [p \in Procs |-> request]
    /\ expired = {}
    /\ pool = [p \in Procs |->
                 [EmptyPool EXCEPT !.tracked = Servers, !.unhealthy = Draining]]
    /\ worker = [p \in Procs |-> [r \in Requests |-> Idle]]
    /\ call = [c \in Clients |-> Idle]
    /\ syncer = [p \in Procs |-> NotSyncing]
    /\ ready = Procs
    /\ holder = [c \in Clients |-> None]
    /\ faults = 0 /\ crashes = 0

------------------------------------------------------------------------------
\* The API.  A failing call is counted, a successful one is not.
Fault == faults < MaxFaults /\ faults' = faults + 1
NoFault == UNCHANGED faults

Cached(p, s) == Head(podCache[p][s])

\* Seeded fault: the caches miss the event of a write.
PatchLabelUnseen(s, base, phase) ==
    IF base = phase \/ label[s] = phase
      THEN UNCHANGED <<label, podCache>>
      ELSE /\ label' = [label EXCEPT ![s] = phase]
           /\ UNCHANGED podCache

\* patchPodLabel sends the difference between the pod as it was read, base, and
\* the pod with the label set: nothing at all when base has that label already.
\* A change reaches every cache later, see DeliverLabel.
PatchLabel(s, base, phase) ==
    IF base = phase \/ label[s] = phase
      THEN UNCHANGED <<label, podCache>>
      ELSE /\ \A p \in Procs : Len(podCache[p][s]) < MaxLag
           /\ label' = [label EXCEPT ![s] = phase]
           /\ podCache' = [p \in Procs |->
                             [podCache[p] EXCEPT ![s] = Append(@, phase)]]

DeliverLabel(p, s) ==
    /\ Len(podCache[p][s]) > 1
    /\ podCache' = [podCache EXCEPT ![p][s] = Tail(@)]
    /\ UNCHANGED <<label, requestVars, pool, worker, call, syncVars, holder, faults>>

DeliverRequest(p, r) ==
    /\ reqCache[p][r] # request[r]
    /\ reqCache' = [reqCache EXCEPT ![p][r] = request[r]]
    /\ UNCHANGED <<labelVars, request, expired, pool, worker, call, syncVars,
                   holder, faults>>

Age(r) ==
    /\ r \in Expiring \ expired
    /\ expired' = expired \cup {r}
    /\ UNCHANGED <<labelVars, request, reqCache, pool, worker, call, syncVars,
                   holder, faults>>

\* Seeded fault: a status write that overwrites whatever it finds.
VersionIgnored(r, version) == TRUE

\* Status().Update is refused unless it carries the version in the API.
VersionCurrent(r, version) == request[r].version = version

SetStatus(r, phase, s) ==
    request' = [request EXCEPT ![r] =
                  [phase |-> phase, server |-> s, version |-> @.version + 1]]

------------------------------------------------------------------------------
\* AllocationReconciler.Reconcile of request r in process p.  A worker that
\* returns is idle again and, while it reads r as pending, starts over.
SetPool(p, q) == pool' = [pool EXCEPT ![p] = q]
SetWorker(p, r, w) == worker' = [worker EXCEPT ![p][r] = w]

StillPending(p, r) ==
    /\ p \in ready
    /\ worker[p][r].pc = "idle"
    /\ reqCache[p][r].phase = "Pending"

\* Seeded fault: the failure is set on the object that was read, never written.
FailExpiredUnwritten(p, r) ==
    /\ StillPending(p, r)
    /\ r \in expired
    /\ UNCHANGED vars

FailExpired(p, r) ==
    /\ StillPending(p, r)
    /\ r \in expired
    /\ VersionCurrent(r, reqCache[p][r].version)
    /\ SetStatus(r, "Failed", None)
    /\ UNCHANGED <<labelVars, reqCache, expired, pool, worker, call, syncVars,
                   holder, faults>>

\* A selector that matches no pod restricts nothing (pool.go:344), and neither
\* does one whose List failed, which is only logged.
Pick(p, r) ==
    /\ StillPending(p, r)
    /\ r \notin expired
    /\ \E s \in Candidates(pool[p]) :
          /\ \/ Selector[r] \in {None, {}} /\ NoFault
             \/ Selector[r] # None /\ s \in Selector[r] /\ NoFault
             \/ Selector[r] # None /\ Fault
          /\ SetPool(p, SetAllocated(pool[p], s))
          /\ SetWorker(p, r, [Idle EXCEPT !.pc = "get", !.server = s,
                                         !.version = reqCache[p][r].version])
    /\ UNCHANGED <<labelVars, requestVars, call, syncVars, holder>>

\* Seeded fault: the server stays allocated when the pod cannot be read.
GetPodKeepingServer(p, r) ==
    /\ worker[p][r].pc = "get"
    /\ \/ /\ NoFault
          /\ SetWorker(p, r, [worker[p][r] EXCEPT !.pc = "label",
                                 !.base = Cached(p, worker[p][r].server)])
       \/ /\ Fault
          /\ SetWorker(p, r, Idle)
    /\ UNCHANGED <<labelVars, requestVars, pool, call, syncVars, holder>>

GetPod(p, r) ==
    LET s == worker[p][r].server IN
    /\ worker[p][r].pc = "get"
    /\ \/ /\ NoFault
          /\ SetWorker(p, r, [worker[p][r] EXCEPT !.pc = "label", !.base = Cached(p, s)])
          /\ UNCHANGED pool
       \/ /\ Fault
          /\ SetWorker(p, r, Idle)
          /\ SetPool(p, Released(pool[p], s))
    /\ UNCHANGED <<labelVars, requestVars, call, syncVars, holder>>

\* The reply carries the pod as it is then; the rollback starts from that.
LabelPod(p, r) ==
    LET w == worker[p][r] IN
    /\ w.pc = "label"
    /\ \/ /\ NoFault
          /\ PatchLabel(w.server, w.base, "allocated")
          /\ SetWorker(p, r, [w EXCEPT !.pc = "status", !.base = label'[w.server]])
          /\ UNCHANGED pool
       \/ /\ Fault
          /\ \/ LostReplies /\ PatchLabel(w.server, w.base, "allocated")
             \/ UNCHANGED labelVars
          /\ SetWorker(p, r, Idle)
          /\ SetPool(p, Released(pool[p], w.server))
    /\ UNCHANGED <<requestVars, call, syncVars, holder>>

\* The matchmaker learns of the server from the status, whether or not the
\* worker learns that its write took effect.
WriteAllocated(p, r) ==
    LET w == worker[p][r] IN
    /\ VersionCurrent(r, w.version)
    /\ SetStatus(r, "Allocated", w.server)
    /\ holder' = [holder EXCEPT ![r] = w.server]
    /\ UNCHANGED <<reqCache, expired>>

UpdateStatus(p, r) ==
    LET w == worker[p][r] IN
    /\ w.pc = "status"
    /\ \/ /\ NoFault
          /\ WriteAllocated(p, r)
          /\ SetWorker(p, r, Idle)
          /\ UNCHANGED pool
       \/ /\ \/ NoFault /\ ~VersionCurrent(r, w.version)
                /\ UNCHANGED <<requestVars, holder>>
             \/ Fault /\ UNCHANGED <<requestVars, holder>>
             \/ Fault /\ LostReplies /\ WriteAllocated(p, r)
          /\ SetWorker(p, r, [w EXCEPT !.pc = "undo"])
          /\ SetPool(p, Released(pool[p], w.server))
    /\ UNCHANGED <<labelVars, call, syncVars>>

\* Seeded fault: the server is released once more after its label.
UndoReleasingAgain(p, r) ==
    LET w == worker[p][r] IN
    /\ w.pc = "undo"
    /\ \/ NoFault /\ PatchLabel(w.server, w.base, "warm")
       \/ Fault /\ UNCHANGED labelVars
    /\ SetWorker(p, r, Idle)
    /\ SetPool(p, Released(pool[p], w.server))
    /\ UNCHANGED <<requestVars, call, syncVars, holder>>

\* The label goes back to warm, whoever allocated the server in the meantime;
\* an error is ignored.
Undo(p, r) ==
    LET w == worker[p][r] IN
    /\ w.pc = "undo"
    /\ \/ NoFault /\ PatchLabel(w.server, w.base, "warm")
       \/ Fault /\ UNCHANGED labelVars
    /\ SetWorker(p, r, Idle)
    /\ UNCHANGED <<requestVars, pool, call, syncVars, holder>>

------------------------------------------------------------------------------
\* The REST calls of client c, served by RestProc.
SetCall(c, w) == call' = [call EXCEPT ![c] = w]

RestPick(c) ==
    /\ RestProc \in ready
    /\ call[c].pc = "idle" /\ holder[c] = None
    /\ \E s \in Candidates(pool[RestProc]) :
          /\ SetPool(RestProc, SetAllocated(pool[RestProc], s))
          /\ SetCall(c, [Idle EXCEPT !.pc = "get", !.server = s])
    /\ UNCHANGED <<labelVars, requestVars, worker, syncVars, holder, faults>>

RestGetPod(c) ==
    LET s == call[c].server IN
    /\ call[c].pc = "get"
    /\ \/ /\ NoFault
          /\ SetCall(c, [call[c] EXCEPT !.pc = "label", !.base = Cached(RestProc, s)])
          /\ UNCHANGED pool
       \/ /\ Fault
          /\ SetCall(c, Idle)
          /\ SetPool(RestProc, Released(pool[RestProc], s))
    /\ UNCHANGED <<labelVars, requestVars, worker, syncVars, holder>>

RestLabelPod(c) ==
    LET w == call[c] IN
    /\ w.pc = "label"
    /\ SetCall(c, Idle)
    /\ \/ /\ NoFault
          /\ PatchLabel(w.server, w.base, "allocated")
          /\ holder' = [holder EXCEPT ![c] = w.server]
          /\ UNCHANGED pool
       \/ /\ Fault
          /\ \/ LostReplies /\ PatchLabel(w.server, w.base, "allocated")
             \/ UNCHANGED labelVars
          /\ SetPool(RestProc, Released(pool[RestProc], w.server))
          /\ UNCHANGED holder
    /\ UNCHANGED <<requestVars, worker, syncVars>>

\* The match of client c is over: it stops playing and releases its server,
\* whichever way it was allocated.  A pod that cannot be read keeps its label.
RestRelease(c) ==
    LET s == holder[c] IN
    /\ RestProc \in ready
    /\ call[c].pc = "idle" /\ s # None
    /\ holder' = [holder EXCEPT ![c] = None]
    /\ \/ /\ NoFault
          /\ SetCall(c, [Idle EXCEPT !.pc = "unlabel", !.server = s,
                                    !.base = Cached(RestProc, s)])
       \/ /\ Fault
          /\ SetCall(c, [Idle EXCEPT !.pc = "return", !.server = s])
    /\ UNCHANGED <<labelVars, requestVars, pool, worker, syncVars>>

RestUnlabel(c) ==
    LET w == call[c] IN
    /\ w.pc = "unlabel"
    /\ \/ NoFault /\ PatchLabel(w.server, w.base, "warm")
       \/ Fault /\ UNCHANGED labelVars
    /\ SetCall(c, [w EXCEPT !.pc = "return"])
    /\ UNCHANGED <<requestVars, pool, worker, syncVars, holder>>

RestReturn(c) ==
    /\ call[c].pc = "return"
    /\ SetPool(RestProc, Released(pool[RestProc], call[c].server))
    /\ SetCall(c, [Idle EXCEPT !.pc = "done"])
    /\ UNCHANGED <<labelVars, requestVars, worker, syncVars, holder, faults>>

------------------------------------------------------------------------------
\* syncPoolFromLabels and syncPoolsFromLabels: one List from the cache, then for
\* each pod Register and a mark, two critical sections of the pool.
BeginSync(p) ==
    /\ p \in Syncing
    /\ syncer[p].todo = {}
    /\ syncer' = [syncer EXCEPT ![p] =
                    [todo |-> Servers, cur |-> None,
                     snap |-> [s \in Servers |-> Cached(p, s)]]]
    /\ UNCHANGED <<labelVars, requestVars, pool, worker, call, ready, crashes,
                   holder, faults>>

SyncRegister(p, s) ==
    /\ s \in syncer[p].todo /\ syncer[p].cur = None
    /\ SetPool(p, Registered(pool[p], s))
    /\ syncer' = [syncer EXCEPT ![p].cur = s]
    /\ UNCHANGED <<labelVars, requestVars, worker, call, ready, crashes,
                   holder, faults>>

\* The mark for a server that was listed with the given label.
Marked(q, s, phase) ==
    CASE phase = "allocated" -> SetAllocated(q, s)
      [] phase = "draining"  -> MadeUnhealthy(q, s)
      [] phase = "warm"      -> MadeAvailable(q, s)

SyncMark(p) ==
    LET s == syncer[p].cur IN
    /\ s # None
    /\ SetPool(p, Marked(pool[p], s, syncer[p].snap[s]))
    /\ syncer' = [syncer EXCEPT ![p].cur = None, ![p].todo = @ \ {s}]
    /\ ready' = IF syncer[p].todo = {s} THEN ready \cup {p} ELSE ready
    /\ UNCHANGED <<labelVars, requestVars, worker, call, crashes,
                   holder, faults>>

\* p restarts: its pool and its threads are gone, its caches are listed afresh.
\* The API server syncs its pool before it serves; the controller does not, and
\* its reconcilers start on an empty pool.
Crash(p) ==
    /\ crashes < MaxCrashes
    /\ crashes' = crashes + 1
    /\ SetPool(p, EmptyPool)
    /\ worker' = [worker EXCEPT ![p] = [r \in Requests |-> Idle]]
    /\ call' = IF p # RestProc THEN call
               ELSE [c \in Clients |->
                       IF call[c].pc \in {"unlabel", "return", "done"}
                         THEN [Idle EXCEPT !.pc = "done"] ELSE Idle]
    /\ syncer' = [syncer EXCEPT ![p] = NotSyncing]
    /\ ready' = IF p = RestProc THEN ready \ {p} ELSE ready
    /\ podCache' = [podCache EXCEPT ![p] = [s \in Servers |-> <<label[s]>>]]
    /\ reqCache' = [reqCache EXCEPT ![p] = request]
    /\ UNCHANGED <<label, request, expired, holder, faults>>

------------------------------------------------------------------------------
Reconcile(p, r) ==
    FailExpired(p, r) \/ Pick(p, r) \/ GetPod(p, r) \/ LabelPod(p, r)
        \/ UpdateStatus(p, r) \/ Undo(p, r)

Rest(c) ==
    \/ RestGetPod(c) \/ RestLabelPod(c) \/ RestRelease(c) \/ RestUnlabel(c)
    \/ RestReturn(c)

Sync(p) == BeginSync(p) \/ SyncMark(p) \/ \E s \in Servers : SyncRegister(p, s)

Next ==
    \/ \E p \in Procs : \E r \in Requests : Reconcile(p, r) \/ DeliverRequest(p, r)
    \/ \E c \in Calls : RestPick(c)
    \/ \E c \in Clients : Rest(c)
    \/ \E p \in Procs : \E s \in Servers : DeliverLabel(p, s)
    \/ \E p \in Procs : Sync(p) \/ Crash(p)
    \/ \E r \in Requests : Age(r)

Spec == Init /\ [][Next]_vars

\* Reconcilers and informers keep running: a failed Reconcile is queued again, and
\* one that finds no server returns every two seconds.  The syncs are periodic, 15
\* seconds in the controller and 30 in the API server.
Fairness ==
    /\ \A p \in Procs : \A r \in Requests :
          WF_vars(Reconcile(p, r)) /\ WF_vars(DeliverRequest(p, r))
    /\ \A p \in Procs : \A s \in Servers : WF_vars(DeliverLabel(p, s))
    /\ \A p \in Procs : WF_vars(Sync(p))
    /\ \A r \in Requests : WF_vars(Age(r))
    /\ \A c \in Clients : WF_vars(RestUnlabel(c)) /\ WF_vars(RestReturn(c))

FairSpec == Spec /\ Fairness

------------------------------------------------------------------------------
Decision == [r \in Requests |->
    IF request[r].phase = "Allocated" THEN request[r].server ELSE request[r].phase]

Promise == INSTANCE Decisions WITH
    Pending <- "Pending", Failed <- "Failed", decision <- Decision

\* Two processes reconcile every request, each from its own stale copy; still
\* the status the matchmaker reads is decided once (alloc_controller.go:51-54
\* and the resourceVersion of Status().Update).
DecidedOnce == Promise!Spec

\* A request with a TTL does not stay pending for ever (alloc_controller.go:56-68).
EventuallyDecided == \A r \in Expiring : <>(request[r].phase # "Pending")

\* A server whose label stays warm comes back to the pool of every process that
\* syncs, a process that did not see its release included.
ReleasedComesBack ==
    \A p \in Syncing : \A s \in Servers :
        <>[](label[s] = "warm") => []<>(s \in Candidates(pool[p]))

\* No two clients play on the same server: "Mark game server as Allocated, remove
\* from buffer pool" (README.md:923).
ExclusiveUse ==
    \A c, d \in Clients : c # d /\ holder[c] # None => holder[c] # holder[d]

\* Every server the pool counts as allocated is with a client or with a thread
\* that will give it to one or back: no failure path loses a server.
EveryLendAccounted ==
    \A p \in Procs : \A s \in pool[p].allocated :
        \/ \E r \in Requests : worker[p][r].server = s
        \/ \E c \in Clients : holder[c] = s
        \/ \E c \in Clients : call[c].server = s

Free == Servers \ UNION {pool[p].allocated : p \in Procs}

Loan == INSTANCE Loans WITH free <- Free, player <- holder

\* A client learns of a server only while it is allocated, and it is released once
\* for each time it was allocated and never while somebody plays on it, whichever
\* call fails on the way (alloc_controller.go:107-130, 157-182).
LentAsPromised == Loan!Spec
==============================================================================
