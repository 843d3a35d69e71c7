-------------------------- MODULE AllocationProofs ---------------------------
(***************************************************************************)
(* For any number of processes, servers, requests and clients, with label   *)
(* syncs, faults, lost replies and restarts: the types of Allocation, and   *)
(* that the status of a request is decided once.                            *)
(***************************************************************************)
EXTENDS Allocation, PoolStateProofs, SequenceTheorems

\* A status is written at most once: version 1 is the pending one.  Whoever is
\* past reading a request read it at version 1, and owns a server to write.
StatusOnce(st) ==
    /\ st.version # 0
    /\ st.phase = "Pending" <=> st.version = 1
    /\ st.phase = "Allocated" => st.server \in Servers

Versions ==
    /\ \A r \in Requests : StatusOnce(request[r])
    /\ \A p \in Procs : \A r \in Requests : StatusOnce(reqCache[p][r])
    /\ \A p \in Procs : \A r \in Requests : worker[p][r].pc # "idle" =>
          worker[p][r].version = 1 /\ worker[p][r].server \in Servers
    /\ \A c \in Clients : call[c].pc \notin {"idle", "done"} => call[c].server \in Servers
    /\ \A c \in Clients : call[c].pc # "idle" => RestProc \in Procs

AllocInv == TypeOK /\ Versions

------------------------------------------------------------------------------
LEMMA IdleIs ==
    /\ Idle \in Threads
    /\ Idle.pc = "idle" /\ Idle.server = None /\ Idle.base = "warm" /\ Idle.version = 0
  BY DEF Idle, Threads, Steps, Labels

CacheTypeOK ==
    /\ label \in [Servers -> Labels]
    /\ podCache \in [Procs -> [Servers -> Seq(Labels)]]
    /\ \A p \in Procs : \A s \in Servers :
          /\ podCache[p][s] # <<>>
          /\ podCache[p][s][Len(podCache[p][s])] = label[s]

\* A write appends to every cache what it writes to the API.
LEMMA PatchLabelType ==
    ASSUME CacheTypeOK, NEW s \in Servers, NEW base, NEW phase \in Labels,
           PatchLabel(s, base, phase)
    PROVE  CacheTypeOK'
  <1>1. CASE UNCHANGED <<label, podCache>>
    BY <1>1 DEF CacheTypeOK
  <1>2. CASE /\ label' = [label EXCEPT ![s] = phase]
             /\ podCache' = [p \in Procs |->
                               [podCache[p] EXCEPT ![s] = Append(@, phase)]]
    <2>1. label' \in [Servers -> Labels]
      BY <1>2 DEF CacheTypeOK
    <2>2. ASSUME NEW p \in Procs, NEW t \in Servers
          PROVE  /\ podCache'[p][t] \in Seq(Labels)
                 /\ podCache'[p][t] # <<>>
                 /\ podCache'[p][t][Len(podCache'[p][t])] = label'[t]
      <3>1. podCache[p][t] \in Seq(Labels)
        BY DEF CacheTypeOK
      <3>2. CASE t = s
        <4>1. podCache'[p][t] = Append(podCache[p][t], phase)
          BY <1>2, <3>2 DEF CacheTypeOK
        <4>2. label'[t] = phase
          BY <1>2, <3>2 DEF CacheTypeOK
        <4> QED
          BY <3>1, <4>1, <4>2, AppendProperties
      <3>3. CASE t # s
        BY <1>2, <3>3 DEF CacheTypeOK
      <3> QED
        BY <3>2, <3>3
    <2>3. podCache' \in [Procs -> [Servers -> Seq(Labels)]]
      BY <1>2, <2>2 DEF CacheTypeOK
    <2> QED
      BY <2>1, <2>2, <2>3 DEF CacheTypeOK
  <1> QED
    BY <1>1, <1>2 DEF PatchLabel

LEMMA CachedType ==
    ASSUME CacheTypeOK, NEW p \in Procs, NEW s \in Servers
    PROVE  Cached(p, s) \in Labels
  <1>1. podCache[p][s] \in Seq(Labels) /\ podCache[p][s] # <<>>
    BY DEF CacheTypeOK
  <1> QED
    BY <1>1, HeadTailProperties DEF Cached

------------------------------------------------------------------------------
\* The invariant by the variables it is about.
RequestsOK ==
    /\ request \in [Requests -> Statuses]
    /\ reqCache \in [Procs -> [Requests -> Statuses]]
    /\ \A r \in Requests : StatusOnce(request[r])
    /\ \A p \in Procs : \A r \in Requests : StatusOnce(reqCache[p][r])

PoolsOK == pool \in [Procs -> Pools(Servers)] /\ \A p \in Procs : WellFormed(pool[p])

WorkersOK ==
    /\ worker \in [Procs -> [Requests -> Threads]]
    /\ \A p \in Procs : \A r \in Requests : worker[p][r].pc # "idle" =>
          worker[p][r].version = 1 /\ worker[p][r].server \in Servers

CallsOK ==
    /\ call \in [Clients -> Threads]
    /\ \A c \in Clients : call[c].pc \notin {"idle", "done"} => call[c].server \in Servers
    /\ \A c \in Clients : call[c].pc # "idle" => RestProc \in Procs

SyncsOK ==
    /\ syncer \in [Procs -> [todo : SUBSET Servers, cur : Servers \cup {None},
                             snap : [Servers -> Labels]]]
    /\ ready \in SUBSET Procs

OthersOK ==
    /\ expired \in SUBSET Expiring
    /\ holder \in [Clients -> Servers \cup {None}]
    /\ faults \in 0 .. MaxFaults
    /\ crashes \in 0 .. MaxCrashes

LEMMA AllocInvParts ==
    AllocInv <=> /\ CacheTypeOK /\ RequestsOK /\ PoolsOK /\ WorkersOK
                 /\ CallsOK /\ SyncsOK /\ OthersOK
  BY DEF AllocInv, TypeOK, Versions, CacheTypeOK, RequestsOK, PoolsOK, WorkersOK,
         CallsOK, SyncsOK, OthersOK

LEMMA SetPoolOK ==
    ASSUME PoolsOK, NEW p \in Procs, NEW q, IsPool(Servers, q), SetPool(p, q)
    PROVE  PoolsOK'
  BY DEF PoolsOK, IsPool, SetPool

LEMMA SetWorkerOK ==
    ASSUME WorkersOK, NEW p \in Procs, NEW r \in Requests, NEW w \in Threads,
           w.pc # "idle" => w.version = 1 /\ w.server \in Servers, SetWorker(p, r, w)
    PROVE  WorkersOK'
  BY DEF WorkersOK, SetWorker

LEMMA SetCallOK ==
    ASSUME CallsOK, NEW c \in Clients, NEW w \in Threads,
           w.pc \notin {"idle", "done"} => w.server \in Servers,
           w.pc # "idle" => RestProc \in Procs, SetCall(c, w)
    PROVE  CallsOK'
  BY DEF CallsOK, SetCall

\* The write of a decision finds version 1 and leaves version 2.
LEMMA SetStatusOK ==
    ASSUME RequestsOK, NEW r \in Requests, NEW phase \in {"Allocated", "Failed"},
           NEW s \in Servers \cup {None}, phase = "Allocated" => s \in Servers,
           VersionCurrent(r, 1), SetStatus(r, phase, s), UNCHANGED reqCache
    PROVE  /\ RequestsOK'
           /\ request[r].phase = "Pending"
           /\ request' = [request EXCEPT ![r] = [phase |-> phase, server |-> s, version |-> 2]]
  <1>1. request[r].version = 1
    BY DEF VersionCurrent
  <1>2. request' = [request EXCEPT ![r] = [phase |-> phase, server |-> s, version |-> 2]]
    BY <1>1 DEF SetStatus
  <1>3. request[r].phase = "Pending"
    BY <1>1 DEF RequestsOK, StatusOnce
  <1>4. [phase |-> phase, server |-> s, version |-> 2] \in Statuses
    BY DEF Statuses, Phases
  <1>5. request' \in [Requests -> Statuses]
    BY <1>2, <1>4 DEF RequestsOK
  <1>6. \A q \in Requests : StatusOnce(request'[q])
    BY <1>2 DEF RequestsOK, StatusOnce
  <1> QED
    BY <1>2, <1>3, <1>5, <1>6 DEF RequestsOK

LEMMA AllocInvInit == Init => AllocInv
  <1> SUFFICES ASSUME Init PROVE AllocInv
    OBVIOUS
  <1>1. CacheTypeOK
    BY DEF Init, CacheTypeOK, Labels
  <1>2. RequestsOK
    BY DEF Init, RequestsOK, Statuses, Phases, StatusOnce
  <1>3. PoolsOK
    <2> DEFINE synced == [EmptyPool EXCEPT !.tracked = Servers, !.unhealthy = Draining]
    <2>1. synced \in Pools(Servers)
      BY AllocationAssumption DEF EmptyPool, Pools
    <2>2. WellFormed(synced)
      BY AllocationAssumption DEF EmptyPool, WellFormed
    <2> QED
      BY <2>1, <2>2 DEF Init, PoolsOK
  <1>4. WorkersOK /\ CallsOK
    BY IdleIs DEF Init, WorkersOK, CallsOK
  <1>5. SyncsOK
    BY DEF Init, SyncsOK, NotSyncing, Labels
  <1>6. OthersOK
    BY AllocationAssumption DEF Init, OthersOK
  <1> QED
    BY <1>1, <1>2, <1>3, <1>4, <1>5, <1>6, AllocInvParts

------------------------------------------------------------------------------
Parts == /\ CacheTypeOK /\ RequestsOK /\ PoolsOK /\ WorkersOK /\ CallsOK
         /\ SyncsOK /\ OthersOK

LEMMA FaultOK == ASSUME OthersOK, Fault \/ NoFault PROVE faults' \in 0 .. MaxFaults
  BY AllocationAssumption DEF OthersOK, Fault, NoFault

\* Reconcile of one request in one process.
LEMMA ReconcileStep ==
    ASSUME Parts, NEW p \in Procs, NEW r \in Requests, Reconcile(p, r)
    PROVE  Parts'
  <1> DEFINE w == worker[p][r]
  <1> USE DEF Parts
  <1>w. w \in Threads /\ (w.pc # "idle" => w.version = 1 /\ w.server \in Servers)
    BY DEF WorkersOK
  <1>p. IsPool(Servers, pool[p])
    BY DEF PoolsOK, IsPool
  <1>1. CASE FailExpired(p, r)
    <2>1. reqCache[p][r].version = 1
      BY <1>1 DEF FailExpired, StillPending, RequestsOK, StatusOnce
    <2>2. RequestsOK'
      BY <1>1, <2>1, SetStatusOK DEF FailExpired
    <2> QED
      BY <1>1, <2>2
         DEF FailExpired, CacheTypeOK, PoolsOK, WorkersOK, CallsOK, SyncsOK, OthersOK,
             labelVars, syncVars
  <1>2. CASE Pick(p, r)
    <2>1. PICK s \in Candidates(pool[p]) :
            /\ Fault \/ NoFault
            /\ SetPool(p, SetAllocated(pool[p], s))
            /\ SetWorker(p, r, [Idle EXCEPT !.pc = "get", !.server = s,
                                           !.version = reqCache[p][r].version])
      BY <1>2 DEF Pick
    <2>2. s \in pool[p].tracked /\ s \in Servers
      BY <1>p DEF Candidates, IsPool, Pools
    <2>3. PoolsOK'
      BY <1>p, <2>1, <2>2, SetAllocatedIs, SetPoolOK
    <2>4. reqCache[p][r].version = 1
      BY <1>2 DEF Pick, StillPending, RequestsOK, StatusOnce
    <2>5. [Idle EXCEPT !.pc = "get", !.server = s, !.version = 1] \in Threads
      BY <2>2 DEF Idle, Threads, Steps, Labels
    <2>6. WorkersOK'
      BY <2>1, <2>2, <2>4, <2>5, IdleIs, SetWorkerOK DEF Idle
    <2> QED
      BY <1>2, <2>1, <2>3, <2>6, FaultOK
         DEF Pick, CacheTypeOK, RequestsOK, CallsOK, SyncsOK, OthersOK,
             labelVars, requestVars, syncVars
  <1>3. CASE GetPod(p, r)
    <2>1. w.version = 1 /\ w.server \in Servers /\ (Fault \/ NoFault)
      BY <1>3, <1>w DEF GetPod
    <2>2. WorkersOK' /\ PoolsOK'
      <3>1. CASE /\ SetWorker(p, r, [w EXCEPT !.pc = "label", !.base = Cached(p, w.server)])
                 /\ UNCHANGED pool
        <4>1. [w EXCEPT !.pc = "label", !.base = Cached(p, w.server)] \in Threads
          BY <1>w, <2>1, CachedType DEF Threads, Steps
        <4> QED
          BY <1>w, <2>1, <3>1, <4>1, SetWorkerOK DEF PoolsOK, Threads
      <3>2. CASE SetWorker(p, r, Idle) /\ SetPool(p, Released(pool[p], w.server))
        BY <1>p, <2>1, <3>2, IdleIs, SetWorkerOK, SetPoolOK, ReleasedIs
      <3> QED
        BY <1>3, <3>1, <3>2 DEF GetPod
    <2> QED
      BY <1>3, <2>1, <2>2, FaultOK
         DEF GetPod, CacheTypeOK, RequestsOK, CallsOK, SyncsOK, OthersOK,
             labelVars, requestVars, syncVars
  <1>4. CASE LabelPod(p, r)
    <2>1. w.version = 1 /\ w.server \in Servers /\ (Fault \/ NoFault)
      BY <1>4, <1>w DEF LabelPod
    <2>2. CacheTypeOK'
      <3>1. PatchLabel(w.server, w.base, "allocated") \/ UNCHANGED <<label, podCache>>
        BY <1>4 DEF LabelPod, labelVars
      <3>2. CASE UNCHANGED <<label, podCache>>
        BY <3>2 DEF CacheTypeOK
      <3>3. CASE PatchLabel(w.server, w.base, "allocated")
        BY <2>1, <3>3, PatchLabelType DEF Labels
      <3> QED
        BY <3>1, <3>2, <3>3
    <2>3. WorkersOK' /\ PoolsOK'
      <3>1. CASE /\ SetWorker(p, r, [w EXCEPT !.pc = "status", !.base = label'[w.server]])
                 /\ UNCHANGED pool
        <4>1. [w EXCEPT !.pc = "status", !.base = label'[w.server]] \in Threads
          BY <1>w, <2>1, <2>2 DEF Threads, Steps, CacheTypeOK
        <4> QED
          BY <1>w, <2>1, <3>1, <4>1, SetWorkerOK DEF PoolsOK, Threads
      <3>2. CASE SetWorker(p, r, Idle) /\ SetPool(p, Released(pool[p], w.server))
        BY <1>p, <2>1, <3>2, IdleIs, SetWorkerOK, SetPoolOK, ReleasedIs
      <3> QED
        BY <1>4, <3>1, <3>2 DEF LabelPod
    <2> QED
      BY <1>4, <2>1, <2>2, <2>3, FaultOK
         DEF LabelPod, RequestsOK, CallsOK, SyncsOK, OthersOK,
             requestVars, syncVars
  <1>5. CASE UpdateStatus(p, r)
    <2>1. w.version = 1 /\ w.server \in Servers /\ (Fault \/ NoFault)
      BY <1>5, <1>w DEF UpdateStatus
    <2>2. ASSUME WriteAllocated(p, r)
          PROVE  RequestsOK' /\ holder' \in [Clients -> Servers \cup {None}]
                 /\ UNCHANGED expired
      BY <2>1, <2>2, SetStatusOK DEF WriteAllocated, OthersOK, Clients
    <2>3. /\ RequestsOK' /\ holder' \in [Clients -> Servers \cup {None}]
          /\ UNCHANGED expired
      BY <1>5, <2>2 DEF UpdateStatus, RequestsOK, OthersOK, requestVars
    <2>4. WorkersOK' /\ PoolsOK'
      <3>1. CASE SetWorker(p, r, Idle) /\ UNCHANGED pool
        BY <3>1, IdleIs, SetWorkerOK DEF PoolsOK
      <3>2. CASE /\ SetWorker(p, r, [w EXCEPT !.pc = "undo"])
                 /\ SetPool(p, Released(pool[p], w.server))
        <4>1. [w EXCEPT !.pc = "undo"] \in Threads
          BY <1>w DEF Threads, Steps
        <4>2. WorkersOK'
          BY <1>w, <2>1, <3>2, <4>1, SetWorkerOK DEF Threads
        <4> QED
          BY <1>p, <2>1, <3>2, <4>2, SetPoolOK, ReleasedIs
      <3> QED
        BY <1>5, <3>1, <3>2 DEF UpdateStatus
    <2> QED
      BY <1>5, <2>1, <2>3, <2>4, FaultOK
         DEF UpdateStatus, CacheTypeOK, CallsOK, SyncsOK, OthersOK,
             labelVars, syncVars
  <1>6. CASE Undo(p, r)
    <2>1. w.server \in Servers /\ (Fault \/ NoFault)
      BY <1>6, <1>w DEF Undo
    <2>2. CacheTypeOK'
      <3>1. PatchLabel(w.server, w.base, "warm") \/ UNCHANGED <<label, podCache>>
        BY <1>6 DEF Undo, labelVars
      <3>2. CASE UNCHANGED <<label, podCache>>
        BY <3>2 DEF CacheTypeOK
      <3>3. CASE PatchLabel(w.server, w.base, "warm")
        BY <2>1, <3>3, PatchLabelType DEF Labels
      <3> QED
        BY <3>1, <3>2, <3>3
    <2>3. WorkersOK'
      BY <1>6, IdleIs, SetWorkerOK DEF Undo
    <2> QED
      BY <1>6, <2>1, <2>2, <2>3, FaultOK
         DEF Undo, RequestsOK, PoolsOK, CallsOK, SyncsOK, OthersOK,
             requestVars, syncVars
  <1> QED
    BY <1>1, <1>2, <1>3, <1>4, <1>5, <1>6 DEF Reconcile

\* The REST calls of one client.
LEMMA RestStep ==
    ASSUME Parts, NEW c \in Clients, RestPick(c) \/ Rest(c)
    PROVE  Parts'
  <1> DEFINE w == call[c]
  <1> USE DEF Parts
  <1>r. RestProc \in Procs
    <2>1. RestPick(c) \/ RestRelease(c) => RestProc \in ready
      BY DEF RestPick, RestRelease
    <2>2. RestGetPod(c) \/ RestLabelPod(c) \/ RestUnlabel(c) \/ RestReturn(c)
            => call[c].pc # "idle"
      BY DEF RestGetPod, RestLabelPod, RestUnlabel, RestReturn
    <2> QED
      BY <2>1, <2>2 DEF Rest, SyncsOK, CallsOK
  <1>w. w \in Threads /\ (w.pc \notin {"idle", "done"} => w.server \in Servers)
    BY DEF CallsOK
  <1>p. IsPool(Servers, pool[RestProc])
    BY <1>r DEF PoolsOK, IsPool
  <1>1. CASE RestPick(c)
    <2>1. PICK s \in Candidates(pool[RestProc]) :
            /\ SetPool(RestProc, SetAllocated(pool[RestProc], s))
            /\ SetCall(c, [Idle EXCEPT !.pc = "get", !.server = s])
      BY <1>1 DEF RestPick
    <2>2. s \in pool[RestProc].tracked /\ s \in Servers
      BY <1>p DEF Candidates, IsPool, Pools
    <2>3. PoolsOK'
      BY <1>p, <2>1, <2>2, <1>r, SetAllocatedIs, SetPoolOK
    <2>4. [Idle EXCEPT !.pc = "get", !.server = s] \in Threads
      BY <2>2 DEF Idle, Threads, Steps, Labels
    <2>5. CallsOK'
      BY <2>1, <2>2, <2>4, <1>r, SetCallOK DEF Idle
    <2> QED
      BY <1>1, <2>3, <2>5
         DEF RestPick, CacheTypeOK, RequestsOK, WorkersOK, SyncsOK, OthersOK,
             labelVars, requestVars, syncVars
  <1>2. CASE RestGetPod(c)
    <2>1. w.server \in Servers /\ (Fault \/ NoFault)
      BY <1>2, <1>w DEF RestGetPod
    <2>2. CallsOK' /\ PoolsOK'
      <3>1. CASE /\ SetCall(c, [w EXCEPT !.pc = "label", !.base = Cached(RestProc, w.server)])
                 /\ UNCHANGED pool
        <4>1. [w EXCEPT !.pc = "label", !.base = Cached(RestProc, w.server)] \in Threads
          BY <1>w, <2>1, CachedType, <1>r DEF Threads, Steps
        <4> QED
          BY <1>w, <2>1, <3>1, <4>1, <1>r, SetCallOK DEF PoolsOK, Threads
      <3>2. CASE SetCall(c, Idle) /\ SetPool(RestProc, Released(pool[RestProc], w.server))
        BY <1>p, <2>1, <3>2, IdleIs, <1>r, SetCallOK, SetPoolOK, ReleasedIs
      <3> QED
        BY <1>2, <3>1, <3>2 DEF RestGetPod
    <2> QED
      BY <1>2, <2>1, <2>2, FaultOK
         DEF RestGetPod, CacheTypeOK, RequestsOK, WorkersOK, SyncsOK, OthersOK,
             labelVars, requestVars, syncVars
  <1>3. CASE RestLabelPod(c)
    <2>1. w.server \in Servers /\ (Fault \/ NoFault)
      BY <1>3, <1>w DEF RestLabelPod
    <2>2. CacheTypeOK'
      <3>1. PatchLabel(w.server, w.base, "allocated") \/ UNCHANGED <<label, podCache>>
        BY <1>3 DEF RestLabelPod, labelVars
      <3>2. CASE UNCHANGED <<label, podCache>>
        BY <3>2 DEF CacheTypeOK
      <3>3. CASE PatchLabel(w.server, w.base, "allocated")
        BY <2>1, <3>3, PatchLabelType DEF Labels
      <3> QED
        BY <3>1, <3>2, <3>3
    <2>3. CallsOK'
      BY <1>3, IdleIs, <1>r, SetCallOK DEF RestLabelPod
    <2>4. PoolsOK'
      BY <1>3, <1>p, <2>1, <1>r, SetPoolOK, ReleasedIs DEF RestLabelPod, PoolsOK
    <2>5. holder' \in [Clients -> Servers \cup {None}]
      BY <1>3, <2>1 DEF RestLabelPod, OthersOK
    <2> QED
      BY <1>3, <2>1, <2>2, <2>3, <2>4, <2>5, FaultOK
         DEF RestLabelPod, RequestsOK, WorkersOK, SyncsOK, OthersOK,
             requestVars, syncVars
  <1>4. CASE RestRelease(c)
    <2>1. holder[c] \in Servers /\ (Fault \/ NoFault)
      BY <1>4 DEF RestRelease, OthersOK
    <2>2. CallsOK'
      <3>1. CASE SetCall(c, [Idle EXCEPT !.pc = "unlabel", !.server = holder[c],
                                       !.base = Cached(RestProc, holder[c])])
        <4>1. [Idle EXCEPT !.pc = "unlabel", !.server = holder[c],
                         !.base = Cached(RestProc, holder[c])] \in Threads
          BY <2>1, CachedType, <1>r DEF Idle, Threads, Steps
        <4> QED
          BY <2>1, <3>1, <4>1, <1>r, SetCallOK DEF Idle
      <3>2. CASE SetCall(c, [Idle EXCEPT !.pc = "return", !.server = holder[c]])
        <4>1. [Idle EXCEPT !.pc = "return", !.server = holder[c]] \in Threads
          BY <2>1 DEF Idle, Threads, Steps, Labels
        <4> QED
          BY <2>1, <3>2, <4>1, <1>r, SetCallOK DEF Idle
      <3> QED
        BY <1>4, <3>1, <3>2 DEF RestRelease
    <2>3. /\ holder' \in [Clients -> Servers \cup {None}]
      BY <1>4 DEF RestRelease, OthersOK
    <2> QED
      BY <1>4, <2>1, <2>2, <2>3, FaultOK
         DEF RestRelease, CacheTypeOK, RequestsOK, PoolsOK, WorkersOK, SyncsOK, OthersOK,
             labelVars, requestVars, syncVars
  <1>5. CASE RestUnlabel(c)
    <2>1. w.server \in Servers /\ (Fault \/ NoFault)
      BY <1>5, <1>w DEF RestUnlabel
    <2>2. CacheTypeOK'
      <3>1. CASE PatchLabel(w.server, w.base, "warm")
        BY <2>1, <3>1, PatchLabelType DEF Labels
      <3>2. CASE UNCHANGED labelVars
        BY <3>2 DEF CacheTypeOK, labelVars
      <3> QED
        BY <1>5, <3>1, <3>2 DEF RestUnlabel
    <2>3. [w EXCEPT !.pc = "return"] \in Threads
      BY <1>w DEF Threads, Steps
    <2>4. CallsOK'
      BY <1>5, <1>w, <2>1, <2>3, <1>r, SetCallOK DEF RestUnlabel, Threads
    <2> QED
      BY <1>5, <2>1, <2>2, <2>4, FaultOK
         DEF RestUnlabel, RequestsOK, PoolsOK, WorkersOK, SyncsOK, OthersOK,
             requestVars, syncVars
  <1>6. CASE RestReturn(c)
    <2>1. w.server \in Servers
      BY <1>6, <1>w DEF RestReturn
    <2>2. PoolsOK'
      BY <1>6, <1>p, <2>1, <1>r, SetPoolOK, ReleasedIs DEF RestReturn
    <2>3. [Idle EXCEPT !.pc = "done"] \in Threads
      BY DEF Idle, Threads, Steps, Labels
    <2>4. CallsOK'
      BY <1>6, <2>3, <1>r, SetCallOK DEF RestReturn, Idle
    <2> QED
      BY <1>6, <2>2, <2>4
         DEF RestReturn, CacheTypeOK, RequestsOK, WorkersOK, SyncsOK, OthersOK,
             labelVars, requestVars, syncVars
  <1> QED
    BY <1>1, <1>2, <1>3, <1>4, <1>5, <1>6 DEF Rest

\* Syncs, caches, time and restarts.
LEMMA SyncStep ==
    ASSUME Parts, NEW p \in Procs, Sync(p)
    PROVE  Parts'
  <1> USE DEF Parts
  <1>p. IsPool(Servers, pool[p])
    BY DEF PoolsOK, IsPool
  <1>1. CASE BeginSync(p)
    <2>1. [todo |-> Servers, cur |-> None, snap |-> [s \in Servers |-> Cached(p, s)]]
            \in [todo : SUBSET Servers, cur : Servers \cup {None}, snap : [Servers -> Labels]]
      BY CachedType
    <2>2. SyncsOK'
      BY <1>1, <2>1 DEF BeginSync, SyncsOK
    <2> QED
      BY <1>1, <2>2
         DEF BeginSync, CacheTypeOK, RequestsOK, PoolsOK, WorkersOK, CallsOK, OthersOK,
             labelVars, requestVars
  <1>2. ASSUME NEW s \in Servers, SyncRegister(p, s) PROVE Parts'
    <2>1. PoolsOK'
      BY <1>2, <1>p, RegisteredIs, SetPoolOK DEF SyncRegister
    <2>2. SyncsOK'
      BY <1>2 DEF SyncRegister, SyncsOK
    <2> QED
      BY <1>2, <2>1, <2>2
         DEF SyncRegister, CacheTypeOK, RequestsOK, WorkersOK, CallsOK, OthersOK,
             labelVars, requestVars
  <1>3. CASE SyncMark(p)
    <2> DEFINE s == syncer[p].cur
    <2>1. s \in Servers
      BY <1>3 DEF SyncMark, SyncsOK
    <2>2. IsPool(Servers, Marked(pool[p], s, syncer[p].snap[s]))
      <3>1. syncer[p].snap[s] \in Labels
        BY <2>1 DEF SyncsOK
      <3>2. IsPool(Servers, SetAllocated(pool[p], s))
        <4>1. CASE s \in pool[p].tracked
          BY <1>p, <2>1, <4>1, SetAllocatedIs
        <4>2. CASE s \notin pool[p].tracked
          BY <1>p, <4>2 DEF SetAllocated
        <4> QED
          BY <4>1, <4>2
      <3> QED
        BY <1>p, <2>1, <3>1, <3>2, MadeAvailableIs, MadeUnhealthyIs DEF Marked, Labels
    <2>3. PoolsOK'
      BY <1>3, <2>2, SetPoolOK DEF SyncMark
    <2>4. SyncsOK'
      BY <1>3 DEF SyncMark, SyncsOK
    <2> QED
      BY <1>3, <2>3, <2>4
         DEF SyncMark, CacheTypeOK, RequestsOK, WorkersOK, CallsOK, OthersOK,
             labelVars, requestVars
  <1> QED
    BY <1>1, <1>2, <1>3 DEF Sync

LEMMA EnvironmentStep ==
    ASSUME Parts,
           \/ \E p \in Procs : \E r \in Requests : DeliverRequest(p, r)
           \/ \E p \in Procs : \E s \in Servers : DeliverLabel(p, s)
           \/ \E p \in Procs : Crash(p)
           \/ \E r \in Requests : Age(r)
    PROVE  Parts'
  <1> USE DEF Parts
  <1>1. ASSUME NEW p \in Procs, NEW r \in Requests, DeliverRequest(p, r) PROVE Parts'
    <2>1. RequestsOK'
      BY <1>1 DEF DeliverRequest, RequestsOK, StatusOnce
    <2> QED
      BY <1>1, <2>1
         DEF DeliverRequest, CacheTypeOK, PoolsOK, WorkersOK, CallsOK, SyncsOK, OthersOK,
             labelVars, syncVars
  <1>2. ASSUME NEW p \in Procs, NEW s \in Servers, DeliverLabel(p, s) PROVE Parts'
    <2> DEFINE old == podCache[p][s]
    <2>1. old \in Seq(Labels) /\ Len(old) > 1 /\ old[Len(old)] = label[s]
      BY <1>2 DEF DeliverLabel, CacheTypeOK
    <2>2. /\ Tail(old) \in Seq(Labels) /\ Tail(old) # <<>>
          /\ Tail(old)[Len(Tail(old))] = old[Len(old)]
      <3>1. old # <<>>
        BY <2>1
      <3>2. /\ Tail(old) \in Seq(Labels) /\ Len(Tail(old)) = Len(old) - 1
            /\ \A i \in 1 .. Len(Tail(old)) : Tail(old)[i] = old[i + 1]
        BY <2>1, <3>1, HeadTailProperties
      <3>3. Len(old) \in Nat /\ Len(Tail(old)) \in 1 .. Len(Tail(old))
        BY <2>1, <3>2, LenProperties
      <3>4. Tail(old)[Len(Tail(old))] = old[Len(Tail(old)) + 1]
        BY <3>2, <3>3
      <3>5. Len(Tail(old)) + 1 = Len(old) /\ Len(Tail(old)) # 0
        BY <2>1, <3>2, <3>3
      <3>6. Tail(old) # <<>>
        BY <3>2, <3>5, EmptySeq
      <3> QED
        BY <3>2, <3>4, <3>5, <3>6
    <2>3. podCache' = [podCache EXCEPT ![p][s] = Tail(old)] /\ label' = label
      BY <1>2 DEF DeliverLabel
    <2>4. CacheTypeOK'
      BY <2>1, <2>2, <2>3 DEF CacheTypeOK
    <2> QED
      BY <1>2, <2>4
         DEF DeliverLabel, RequestsOK, PoolsOK, WorkersOK, CallsOK, SyncsOK, OthersOK,
             requestVars, syncVars
  <1>3. ASSUME NEW p \in Procs, Crash(p) PROVE Parts'
    <2>1. CacheTypeOK'
      <3>1. \A s \in Servers : /\ <<label[s]>> \in Seq(Labels) /\ <<label[s]>> # <<>>
                               /\ <<label[s]>>[Len(<<label[s]>>)] = label[s]
        BY DEF CacheTypeOK
      <3> QED
        BY <1>3, <3>1 DEF Crash, CacheTypeOK
    <2>2. RequestsOK'
      BY <1>3 DEF Crash, RequestsOK
    <2>3. PoolsOK'
      BY <1>3, EmptyPoolIs, SetPoolOK DEF Crash
    <2>4. WorkersOK'
      BY <1>3, IdleIs DEF Crash, WorkersOK
    <2>5. CallsOK'
      <3>1. [Idle EXCEPT !.pc = "done"] \in Threads
        BY DEF Idle, Threads, Steps, Labels
      <3> QED
        BY <1>3, <3>1, IdleIs DEF Crash, CallsOK, Idle
    <2>6. SyncsOK'
      BY <1>3 DEF Crash, SyncsOK, NotSyncing, Labels
    <2>7. OthersOK'
      BY <1>3, AllocationAssumption DEF Crash, OthersOK
    <2> QED
      BY <2>1, <2>2, <2>3, <2>4, <2>5, <2>6, <2>7
  <1>4. ASSUME NEW r \in Requests, Age(r) PROVE Parts'
    BY <1>4
       DEF Age, CacheTypeOK, RequestsOK, PoolsOK, WorkersOK, CallsOK, SyncsOK, OthersOK,
           labelVars, syncVars
  <1> QED
    BY <1>1, <1>2, <1>3, <1>4

LEMMA AllocInvStep == AllocInv /\ [Next]_vars => AllocInv'
  <1> SUFFICES ASSUME Parts, [Next]_vars PROVE Parts'
    BY AllocInvParts DEF Parts, AllocInv, TypeOK, Versions, CacheTypeOK, RequestsOK,
       PoolsOK, WorkersOK, CallsOK, SyncsOK, OthersOK
  <1>1. CASE \E p \in Procs : \E r \in Requests : Reconcile(p, r)
    BY <1>1, ReconcileStep
  <1>2. CASE \E c \in Clients : RestPick(c) \/ Rest(c)
    BY <1>2, RestStep
  <1>3. CASE \E p \in Procs : Sync(p)
    BY <1>3, SyncStep
  <1>4. CASE \/ \E p \in Procs : \E r \in Requests : DeliverRequest(p, r)
             \/ \E p \in Procs : \E s \in Servers : DeliverLabel(p, s)
             \/ \E p \in Procs : Crash(p)
             \/ \E r \in Requests : Age(r)
    BY <1>4, EnvironmentStep
  <1>5. CASE UNCHANGED vars
    BY <1>5 DEF Parts, CacheTypeOK, RequestsOK, PoolsOK, WorkersOK, CallsOK, SyncsOK,
       OthersOK, vars, labelVars, requestVars, syncVars
  <1>6. Calls \subseteq Clients
    BY DEF Clients
  <1> QED
    BY <1>1, <1>2, <1>3, <1>4, <1>5, <1>6 DEF Next

\* The invariant the theorems below rest on: the types, and that whoever is past
\* reading a request has read its version 1.
THEOREM AllocInvariant == Spec => []AllocInv
  BY AllocInvInit, AllocInvStep, PTL DEF Spec

\* Every variable keeps its type, every cache ends in the label of the API and
\* every pool is well formed, whatever fails or restarts (alloc_controller.go:41-195).
THEOREM AllocTyping == Spec => []TypeOK
  BY AllocInvariant, PTL DEF AllocInv

------------------------------------------------------------------------------
\* A step writes the status of at most one request, and only a pending one.
LEMMA StatusStep ==
    ASSUME AllocInv, Next
    PROVE  \/ request' = request
           \/ \E r \in Requests :
                 /\ request[r].phase = "Pending"
                 /\ \E st \in Statuses :
                       /\ st.phase = "Failed" \/ (st.phase = "Allocated" /\ st.server \in Servers)
                       /\ request' = [request EXCEPT ![r] = st]
  <1> DEFINE Goal == \/ request' = request
                    \/ \E r \in Requests :
                          /\ request[r].phase = "Pending"
                          /\ \E st \in Statuses :
                                /\ \/ st.phase = "Failed"
                                   \/ st.phase = "Allocated" /\ st.server \in Servers
                                /\ request' = [request EXCEPT ![r] = st]
  <1>0. RequestsOK /\ WorkersOK
    BY AllocInvParts
  <1>1. ASSUME NEW p \in Procs, NEW r \in Requests, FailExpired(p, r) PROVE Goal
    <2>1. reqCache[p][r].version = 1
      BY <1>0, <1>1 DEF FailExpired, StillPending, RequestsOK, StatusOnce
    <2>2. /\ request[r].phase = "Pending"
          /\ request' = [request EXCEPT ![r] =
                           [phase |-> "Failed", server |-> None, version |-> 2]]
      BY <1>0, <1>1, <2>1, SetStatusOK DEF FailExpired
    <2>3. [phase |-> "Failed", server |-> None, version |-> 2] \in Statuses
      BY DEF Statuses, Phases
    <2> QED
      BY <2>2, <2>3
  <1>2. ASSUME NEW p \in Procs, NEW r \in Requests, UpdateStatus(p, r) PROVE Goal
    <2> DEFINE w == worker[p][r]
    <2>1. CASE WriteAllocated(p, r)
      <3>1. w.version = 1 /\ w.server \in Servers
        BY <1>0, <1>2 DEF UpdateStatus, WorkersOK
      <3>2. /\ request[r].phase = "Pending"
            /\ request' = [request EXCEPT ![r] =
                             [phase |-> "Allocated", server |-> w.server, version |-> 2]]
        BY <1>0, <2>1, <3>1, SetStatusOK DEF WriteAllocated
      <3>3. [phase |-> "Allocated", server |-> w.server, version |-> 2] \in Statuses
        BY <3>1 DEF Statuses, Phases
      <3> QED
        BY <3>1, <3>2, <3>3
    <2>2. CASE UNCHANGED <<requestVars, holder>>
      BY <2>2 DEF requestVars
    <2> QED
      BY <1>2, <2>1, <2>2 DEF UpdateStatus
  <1>3. ASSUME NEW p \in Procs, NEW r \in Requests,
               Pick(p, r) \/ GetPod(p, r) \/ LabelPod(p, r) \/ Undo(p, r)
                 \/ DeliverRequest(p, r)
        PROVE  Goal
    BY <1>3 DEF Pick, GetPod, LabelPod, Undo, DeliverRequest, requestVars
  <1>4. ASSUME NEW c, RestPick(c) \/ Rest(c) PROVE Goal
    BY <1>4 DEF RestPick, Rest, RestGetPod, RestLabelPod, RestRelease, RestUnlabel,
                RestReturn, requestVars
  <1>5. ASSUME NEW p, Sync(p) \/ Crash(p) PROVE Goal
    BY <1>5 DEF Sync, BeginSync, SyncRegister, SyncMark, Crash, requestVars
  <1>6. ASSUME NEW p, NEW s, DeliverLabel(p, s) PROVE Goal
    BY <1>6 DEF DeliverLabel, requestVars
  <1>7. ASSUME NEW r, Age(r) PROVE Goal
    BY <1>7 DEF Age
  <1> HIDE DEF Goal
  <1>8. Goal
    BY <1>1, <1>2, <1>3, <1>4, <1>5, <1>6, <1>7 DEF Next, Reconcile
  <1> QED
    BY <1>8 DEF Goal

LEMMA DecisionInit == Init => Promise!Init
  BY DEF Init, Promise!Init, Decision

LEMMA DecisionStep ==
    ASSUME AllocInv, [Next]_vars
    PROVE  [Promise!Next]_Decision
  <1>1. CASE request' = request
    BY <1>1 DEF Decision
  <1>2. ASSUME NEW r \in Requests, request[r].phase = "Pending",
               NEW st \in Statuses,
               st.phase = "Failed" \/ (st.phase = "Allocated" /\ st.server \in Servers),
               request' = [request EXCEPT ![r] = st]
        PROVE  Promise!Next
    <2> DEFINE d == IF st.phase = "Allocated" THEN st.server ELSE "Failed"
    <2>1. d \in Servers \cup {"Failed"}
      BY <1>2
    <2>2. Decision[r] = "Pending"
      BY <1>2 DEF Decision
    <2>3. request \in [Requests -> Statuses]
      BY DEF AllocInv, TypeOK
    <2>4. Decision' = [Decision EXCEPT ![r] = d]
      BY <1>2, <2>3 DEF Decision
    <2> QED
      BY <2>1, <2>2, <2>4 DEF Promise!Next, Promise!Decide
  <1>3. CASE UNCHANGED vars
    BY <1>3, <1>1 DEF vars, requestVars
  <1>4. CASE Next
    BY <1>1, <1>2, <1>4, StatusStep
  <1> QED
    BY <1>3, <1>4

\* The allocations implement Decisions: however many processes reconcile a request,
\* from copies however stale, with conflicts, lost replies and restarts, what its
\* status tells the matchmaker is decided once (alloc_controller.go:51-68, 118-132).
THEOREM AllocationDecidesOnce == Spec => DecidedOnce
  BY AllocInvariant, DecisionInit, DecisionStep, PTL DEF Spec, DecidedOnce, Promise!Spec
==============================================================================
