---------------------------- MODULE LendingProofs ----------------------------
(***************************************************************************)
(* What Allocation promises of one process between two syncs, for any       *)
(* number of servers, requests, clients and failing calls: no two clients   *)
(* play on one server, and no server is lost.  The argument is a ledger: at *)
(* any time a worker of the process has a server or none, and so has every  *)
(* client, in a match or in a REST call; no server is on two lines, and the *)
(* pool counts as allocated what the ledger holds, no more and no less.     *)
(***************************************************************************)
EXTENDS AllocationProofs

\* One process, no sync or restart in the time looked at, and every write that takes
\* effect is answered.
OneProcess(p) ==
    /\ p \in Procs /\ Procs = {p}
    /\ Syncing = {} /\ MaxCrashes = 0 /\ ~LostReplies

Known == Servers \cup {None}

\* The server a worker has: from its pick until it has written the status or given
\* the server back to the pool.
WorkerHas(w) == IF w.pc \in {"get", "label", "status"} THEN w.server ELSE None
WorkerServer(p) == [r \in Requests |-> WorkerHas(worker[p][r])]

\* The server a client has: the one it plays on, or that of its REST call.
ClientHas(h, w) ==
    IF h # None THEN h
    ELSE IF w.pc \in {"get", "label", "unlabel", "return"} THEN w.server ELSE None
ClientServer == [c \in Clients |-> ClientHas(holder[c], call[c])]

\* The ledger of workers w and clients u against the allocated servers a.
Ledger(w, u, a) ==
    /\ \A r, q \in Requests : r # q /\ w[r] # None => w[r] # w[q]
    /\ \A c, d \in Clients : c # d /\ u[c] # None => u[c] # u[d]
    /\ \A r \in Requests : \A c \in Clients : w[r] # None => w[r] # u[c]
    /\ \A s \in Servers :
          s \in a <=> (\E r \in Requests : w[r] = s) \/ (\E c \in Clients : u[c] = s)

\* Whoever plays makes no call; a request that is pending has given nothing yet.
PlayersRest == \A c \in Clients : holder[c] # None => call[c].pc = "idle"
NothingGiven == \A r \in Requests :
    request[r].phase = "Pending" => holder[r] = None /\ call[r].pc = "idle"
NoSync(p) == syncer[p].todo = {} /\ syncer[p].cur = None

Lending(p) ==
    /\ PlayersRest /\ NothingGiven /\ NoSync(p)
    /\ Ledger(WorkerServer(p), ClientServer, pool[p].allocated)

------------------------------------------------------------------------------
\* How a ledger may change.
LEMMA LedgerTyped ==
    ASSUME WorkersOK, CallsOK, OthersOK, NEW p \in Procs
    PROVE  WorkerServer(p) \in [Requests -> Known] /\ ClientServer \in [Clients -> Known]
  <1>1. \A r \in Requests : WorkerHas(worker[p][r]) \in Known
    BY DEF WorkersOK, WorkerHas, Known
  <1>2. \A c \in Clients : ClientHas(holder[c], call[c]) \in Known
    BY DEF CallsOK, OthersOK, ClientHas, Known
  <1> QED
    BY <1>1, <1>2 DEF WorkerServer, ClientServer

LEMMA WorkerTakes ==
    ASSUME NEW w \in [Requests -> Known], NEW u \in [Clients -> Known], NEW a,
           Ledger(w, u, a), NEW r \in Requests, w[r] = None,
           NEW s \in Servers, s \notin a
    PROVE  Ledger([w EXCEPT ![r] = s], u, a \cup {s})
  BY AllocationAssumption DEF Ledger, Known

LEMMA ClientTakes ==
    ASSUME NEW w \in [Requests -> Known], NEW u \in [Clients -> Known], NEW a,
           Ledger(w, u, a), NEW c \in Clients, u[c] = None,
           NEW s \in Servers, s \notin a
    PROVE  Ledger(w, [u EXCEPT ![c] = s], a \cup {s})
  BY AllocationAssumption DEF Ledger, Known

LEMMA WorkerGives ==
    ASSUME NEW w \in [Requests -> Known], NEW u \in [Clients -> Known], NEW a,
           Ledger(w, u, a), NEW r \in Requests, w[r] \in Servers
    PROVE  Ledger([w EXCEPT ![r] = None], u, a \ {w[r]})
  BY AllocationAssumption DEF Ledger, Known

LEMMA ClientGives ==
    ASSUME NEW w \in [Requests -> Known], NEW u \in [Clients -> Known], NEW a,
           Ledger(w, u, a), NEW c \in Clients, u[c] \in Servers
    PROVE  Ledger(w, [u EXCEPT ![c] = None], a \ {u[c]})
  BY AllocationAssumption DEF Ledger, Known

LEMMA WorkerHandsOver ==
    ASSUME NEW w \in [Requests -> Known], NEW u \in [Clients -> Known], NEW a,
           Ledger(w, u, a), NEW r \in Requests, w[r] \in Servers,
           NEW c \in Clients, u[c] = None
    PROVE  Ledger([w EXCEPT ![r] = None], [u EXCEPT ![c] = w[r]], a)
  BY AllocationAssumption DEF Ledger, Known

------------------------------------------------------------------------------
\* What the steps write, as entries of the ledger.
LEMMA WorkerLine ==
    ASSUME WorkersOK, NEW p \in Procs, NEW r \in Requests, NEW w, SetWorker(p, r, w)
    PROVE  WorkerServer(p)' = [WorkerServer(p) EXCEPT ![r] = WorkerHas(w)]
  BY DEF WorkersOK, SetWorker, WorkerServer

LEMMA ClientLine ==
    ASSUME CallsOK, OthersOK, NEW c \in Clients, NEW w, NEW h,
           call' = [call EXCEPT ![c] = w], holder' = [holder EXCEPT ![c] = h]
    PROVE  ClientServer' = [ClientServer EXCEPT ![c] = ClientHas(h, w)]
  BY DEF CallsOK, OthersOK, ClientServer

LEMMA PoolLine ==
    ASSUME PoolsOK, NEW p \in Procs, NEW q, SetPool(p, q)
    PROVE  pool'[p] = q
  BY DEF PoolsOK, SetPool

\* A pool lends only what it does not count as allocated.
LEMMA CandidateIs ==
    ASSUME PoolsOK, NEW p \in Procs, NEW s \in Candidates(pool[p])
    PROVE  /\ s \in Servers /\ s \notin pool[p].allocated
           /\ SetAllocated(pool[p], s).allocated = pool[p].allocated \cup {s}
  BY DEF PoolsOK, Pools, Candidates, SetAllocated

LEMMA ReleasedAt ==
    ASSUME PoolsOK, NEW p \in Procs, NEW s
    PROVE  Released(pool[p], s).allocated = pool[p].allocated \ {s}
  BY DEF PoolsOK, Pools, Released

------------------------------------------------------------------------------
\* Reconcile of one request.
LEMMA WorkerStep ==
    ASSUME Parts, NEW p, OneProcess(p), Lending(p), NEW r \in Requests, Reconcile(p, r)
    PROVE  Lending(p)'
  <1> DEFINE w == worker[p][r]
  <1> USE DEF Parts
  <1>p. p \in Procs /\ r \in Clients
    BY DEF OneProcess, Clients
  <1>w. w \in Threads /\ (w.pc # "idle" => w.version = 1 /\ w.server \in Servers)
    BY <1>p DEF WorkersOK
  <1>l. Ledger(WorkerServer(p), ClientServer, pool[p].allocated)
    BY DEF Lending
  <1>t. WorkerServer(p) \in [Requests -> Known] /\ ClientServer \in [Clients -> Known]
    BY <1>p, LedgerTyped
  <1>h. WorkerServer(p)[r] = WorkerHas(w)
    BY DEF WorkerServer
  <1>k. ASSUME WorkerHas(w) \in Servers, SetWorker(p, r, Idle) \/ SetWorker(p, r, [w EXCEPT !.pc = "undo"]),
               SetPool(p, Released(pool[p], WorkerHas(w))), UNCHANGED <<call, holder>>
        PROVE  Ledger(WorkerServer(p)', ClientServer', pool'[p].allocated)
    <2>1. WorkerServer(p)' = [WorkerServer(p) EXCEPT ![r] = None]
      <3>1. WorkerHas(Idle) = None /\ WorkerHas([w EXCEPT !.pc = "undo"]) = None
        BY <1>w, IdleIs DEF WorkerHas, Threads
      <3> QED
        BY <1>k, <1>p, <3>1, WorkerLine
    <2>2. ClientServer' = ClientServer
      BY <1>k DEF ClientServer
    <2>3. pool'[p].allocated = pool[p].allocated \ {WorkerHas(w)}
      BY <1>k, <1>p, PoolLine, ReleasedAt
    <2>4. Ledger([WorkerServer(p) EXCEPT ![r] = None], ClientServer,
                 pool[p].allocated \ {WorkerServer(p)[r]})
      BY <1>k, <1>l, <1>t, <1>h, WorkerGives
    <2> QED
      BY <1>h, <2>1, <2>2, <2>3, <2>4
  <1>m. ASSUME NEW v, SetWorker(p, r, v), WorkerHas(v) = WorkerHas(w), UNCHANGED <<pool, call, holder>>
        PROVE  Ledger(WorkerServer(p)', ClientServer', pool'[p].allocated)
    <2>1. WorkerServer(p)' = WorkerServer(p)
      BY <1>m, <1>p, <1>t, <1>h, WorkerLine
    <2> QED
      BY <1>m, <1>l, <2>1 DEF ClientServer
  <1>n. ASSUME UNCHANGED <<request, call, holder, syncer>>,
               Ledger(WorkerServer(p)', ClientServer', pool'[p].allocated)
        PROVE  Lending(p)'
    BY <1>n DEF Lending, Ledger, PlayersRest, NothingGiven, NoSync
  <1>1. CASE FailExpired(p, r)
    <2>1. reqCache[p][r].version = 1
      BY <1>1, <1>p DEF FailExpired, StillPending, RequestsOK, StatusOnce
    <2>2. request' = [request EXCEPT ![r] = [phase |-> "Failed", server |-> None, version |-> 2]]
      BY <1>1, <2>1, SetStatusOK DEF FailExpired
    <2>3. NothingGiven'
      BY <1>1, <2>2 DEF Lending, NothingGiven, FailExpired, RequestsOK
    <2> QED
      BY <1>1, <1>l, <2>3 DEF FailExpired, Lending, PlayersRest, NoSync, WorkerServer,
         ClientServer, syncVars
  <1>2. CASE Pick(p, r)
    <2>1. PICK s \in Candidates(pool[p]) :
            /\ SetPool(p, SetAllocated(pool[p], s))
            /\ SetWorker(p, r, [Idle EXCEPT !.pc = "get", !.server = s,
                                           !.version = reqCache[p][r].version])
      BY <1>2 DEF Pick
    <2>2. /\ s \in Servers /\ s \notin pool[p].allocated
          /\ pool'[p].allocated = pool[p].allocated \cup {s}
      BY <1>p, <2>1, CandidateIs, PoolLine
    <2>3. WorkerServer(p)' = [WorkerServer(p) EXCEPT ![r] = s]
      <3>1. WorkerHas([Idle EXCEPT !.pc = "get", !.server = s,
                                  !.version = reqCache[p][r].version]) = s
        BY DEF WorkerHas, Idle
      <3> QED
        BY <1>p, <2>1, <3>1, WorkerLine
    <2>4. WorkerServer(p)[r] = None
      BY <1>2, <1>h DEF Pick, StillPending, WorkerHas
    <2>5. ClientServer' = ClientServer
      BY <1>2 DEF Pick, ClientServer
    <2>6. Ledger(WorkerServer(p)', ClientServer', pool'[p].allocated)
      <3>1. Ledger([WorkerServer(p) EXCEPT ![r] = s], ClientServer,
                   pool[p].allocated \cup {s})
        BY <1>l, <1>t, <2>2, <2>4, WorkerTakes
      <3> QED
        BY <2>2, <2>3, <2>5, <3>1
    <2> QED
      BY <1>2, <1>n, <2>6 DEF Pick, requestVars, syncVars
  <1>3. CASE GetPod(p, r)
    <2>1. WorkerHas(w) = w.server /\ w.server \in Servers
      BY <1>3, <1>w DEF GetPod, WorkerHas
    <2>2. WorkerHas([w EXCEPT !.pc = "label", !.base = Cached(p, w.server)]) = w.server
      BY <1>w DEF WorkerHas, Threads
    <2>3. Ledger(WorkerServer(p)', ClientServer', pool'[p].allocated)
      BY <1>3, <1>k, <1>m, <2>1, <2>2 DEF GetPod
    <2> QED
      BY <1>3, <1>n, <2>3 DEF GetPod, requestVars, syncVars
  <1>4. CASE LabelPod(p, r)
    <2>1. WorkerHas(w) = w.server /\ w.server \in Servers
      BY <1>4, <1>w DEF LabelPod, WorkerHas
    <2>2. WorkerHas([w EXCEPT !.pc = "status", !.base = label'[w.server]]) = w.server
      BY <1>w DEF WorkerHas, Threads
    <2>3. Ledger(WorkerServer(p)', ClientServer', pool'[p].allocated)
      BY <1>4, <1>k, <1>m, <2>1, <2>2 DEF LabelPod
    <2> QED
      BY <1>4, <1>n, <2>3 DEF LabelPod, requestVars, syncVars
  <1>5. CASE UpdateStatus(p, r)
    <2>1. WorkerHas(w) = w.server /\ w.server \in Servers /\ w.version = 1
      BY <1>5, <1>w DEF UpdateStatus, WorkerHas
    <2>2. CASE WriteAllocated(p, r) /\ SetWorker(p, r, Idle) /\ UNCHANGED pool
      <3>1. /\ request[r].phase = "Pending"
            /\ request' = [request EXCEPT ![r] =
                             [phase |-> "Allocated", server |-> w.server, version |-> 2]]
        BY <2>1, <2>2, SetStatusOK DEF WriteAllocated
      <3>2. holder[r] = None /\ call[r].pc = "idle"
        BY <3>1 DEF Lending, NothingGiven
      <3>3. ClientServer[r] = None
        BY <1>p, <3>2 DEF ClientServer, ClientHas
      <3>4. /\ call' = [call EXCEPT ![r] = call[r]]
            /\ holder' = [holder EXCEPT ![r] = w.server]
        BY <1>5, <2>2 DEF UpdateStatus, WriteAllocated, CallsOK
      <3>5. ClientServer' = [ClientServer EXCEPT ![r] = w.server]
        <4>1. ClientHas(w.server, call[r]) = w.server
          BY <2>1, AllocationAssumption DEF ClientHas
        <4> QED
          BY <1>p, <3>4, <4>1, ClientLine
      <3>6. WorkerServer(p)' = [WorkerServer(p) EXCEPT ![r] = None]
        <4>1. WorkerHas(Idle) = None
          BY IdleIs DEF WorkerHas
        <4> QED
          BY <1>p, <2>2, <4>1, WorkerLine
      <3>7. Ledger(WorkerServer(p)', ClientServer', pool'[p].allocated)
        <4>1. Ledger([WorkerServer(p) EXCEPT ![r] = None],
                     [ClientServer EXCEPT ![r] = WorkerServer(p)[r]], pool[p].allocated)
          BY <1>p, <1>l, <1>t, <1>h, <2>1, <3>3, WorkerHandsOver
        <4> QED
          BY <1>h, <2>1, <2>2, <3>5, <3>6, <4>1
      <3>8. PlayersRest' /\ NothingGiven'
        BY <1>5, <1>p, <3>1, <3>2, <3>4
           DEF Lending, PlayersRest, NothingGiven, UpdateStatus, CallsOK, OthersOK, RequestsOK
      <3> QED
        BY <1>5, <3>7, <3>8 DEF Lending, Ledger, UpdateStatus, NoSync, syncVars
    <2>3. CASE /\ UNCHANGED <<requestVars, holder>>
               /\ SetWorker(p, r, [w EXCEPT !.pc = "undo"])
               /\ SetPool(p, Released(pool[p], w.server))
      <3>1. Ledger(WorkerServer(p)', ClientServer', pool'[p].allocated)
        BY <1>5, <1>k, <2>1, <2>3 DEF UpdateStatus
      <3> QED
        BY <1>5, <1>n, <2>3, <3>1 DEF UpdateStatus, requestVars, syncVars
    <2> QED
      BY <1>5, <2>2, <2>3 DEF UpdateStatus, OneProcess
  <1>6. CASE Undo(p, r)
    <2>1. WorkerHas(w) = None /\ WorkerHas(Idle) = None
      BY <1>6, IdleIs DEF Undo, WorkerHas
    <2>2. Ledger(WorkerServer(p)', ClientServer', pool'[p].allocated)
      BY <1>6, <1>m, <2>1 DEF Undo
    <2> QED
      BY <1>6, <1>n, <2>2 DEF Undo, requestVars, syncVars
  <1> QED
    BY <1>1, <1>2, <1>3, <1>4, <1>5, <1>6 DEF Reconcile

------------------------------------------------------------------------------
\* The REST calls of one client, which the only process serves.
LEMMA RestServes ==
    ASSUME Parts, NEW p, OneProcess(p), NEW c \in Clients, RestPick(c) \/ Rest(c)
    PROVE  RestProc = p /\ p \in Procs
  <1>1. RestPick(c) \/ RestRelease(c) => RestProc \in ready
    BY DEF RestPick, RestRelease
  <1>2. RestGetPod(c) \/ RestLabelPod(c) \/ RestUnlabel(c) \/ RestReturn(c)
          => call[c].pc # "idle"
    BY DEF RestGetPod, RestLabelPod, RestUnlabel, RestReturn
  <1> QED
    BY <1>1, <1>2 DEF Parts, Rest, SyncsOK, CallsOK, OneProcess

LEMMA ClientStep ==
    ASSUME Parts, NEW p, OneProcess(p), Lending(p), NEW c \in Clients,
           (c \in Calls /\ RestPick(c)) \/ Rest(c)
    PROVE  Lending(p)'
  <1> DEFINE w == call[c]
  <1> USE DEF Parts
  <1>p. RestProc = p /\ p \in Procs
    BY RestServes
  <1>w. w \in Threads /\ (w.pc \notin {"idle", "done"} => w.server \in Servers)
    BY DEF CallsOK
  <1>l. Ledger(WorkerServer(p), ClientServer, pool[p].allocated)
    BY DEF Lending
  <1>t. WorkerServer(p) \in [Requests -> Known] /\ ClientServer \in [Clients -> Known]
    BY <1>p, LedgerTyped
  <1>h. ClientServer[c] = ClientHas(holder[c], w)
    BY DEF ClientServer
  <1>r. holder[c] # None => w.pc = "idle"
    BY DEF Lending, PlayersRest
  <1>s. UNCHANGED <<request, worker, syncer>>
    BY DEF Rest, RestPick, RestGetPod, RestLabelPod, RestRelease, RestUnlabel, RestReturn,
       requestVars, syncVars
  <1>n. ASSUME NEW v, NEW h, call' = [call EXCEPT ![c] = v], holder' = [holder EXCEPT ![c] = h],
               h # None => v.pc = "idle",
               c \in Calls \/ w.pc # "idle" \/ holder[c] # None,
               Ledger(WorkerServer(p)', ClientServer', pool'[p].allocated)
        PROVE  Lending(p)'
    <2>1. PlayersRest'
      BY <1>n DEF Lending, PlayersRest, CallsOK, OthersOK
    <2>2. ASSUME NEW q \in Requests, request'[q].phase = "Pending"
          PROVE  holder'[q] = None /\ call'[q].pc = "idle"
      <3>1. holder[q] = None /\ call[q].pc = "idle"
        BY <1>s, <2>2 DEF Lending, NothingGiven
      <3>2. q # c
        BY <1>n, <3>1, AllocationAssumption
      <3> QED
        BY <1>n, <3>1, <3>2 DEF CallsOK, OthersOK, Clients
    <2> QED
      BY <1>s, <1>n, <2>1, <2>2 DEF Lending, Ledger, NothingGiven, NoSync
  <1>k. ASSUME w.pc \in {"get", "label", "return"}, NEW v, SetCall(c, v), UNCHANGED holder,
               v.pc \in {"idle", "done"}, SetPool(p, Released(pool[p], w.server))
        PROVE  Ledger(WorkerServer(p)', ClientServer', pool'[p].allocated)
    <2>1. holder[c] = None /\ ClientServer[c] = w.server /\ w.server \in Servers
      BY <1>k, <1>r, <1>h, <1>w DEF ClientHas
    <2>2. holder' = [holder EXCEPT ![c] = None]
      BY <1>k, <2>1 DEF OthersOK
    <2>3. ClientHas(None, v) = None
      BY <1>k DEF ClientHas
    <2>4. ClientServer' = [ClientServer EXCEPT ![c] = None]
      <3>1. call' = [call EXCEPT ![c] = v]
        BY <1>k DEF SetCall
      <3>2. ClientServer' = [ClientServer EXCEPT ![c] = ClientHas(None, v)]
        BY <2>2, <3>1, ClientLine
      <3> QED
        BY <2>3, <3>2
    <2>5. pool'[p].allocated = pool[p].allocated \ {w.server}
      BY <1>k, <1>p, PoolLine, ReleasedAt
    <2>6. WorkerServer(p)' = WorkerServer(p)
      BY <1>s DEF WorkerServer
    <2> QED
      <3>1. Ledger(WorkerServer(p), [ClientServer EXCEPT ![c] = None],
                   pool[p].allocated \ {ClientServer[c]})
        BY <1>l, <1>t, <2>1, ClientGives
      <3> QED
        BY <2>1, <2>4, <2>5, <2>6, <3>1
  <1>m. ASSUME NEW v, NEW h, call' = [call EXCEPT ![c] = v], holder' = [holder EXCEPT ![c] = h],
               ClientHas(h, v) = ClientServer[c], UNCHANGED pool
        PROVE  Ledger(WorkerServer(p)', ClientServer', pool'[p].allocated)
    <2>1. ClientServer' = ClientServer
      <3>1. ClientServer' = [ClientServer EXCEPT ![c] = ClientHas(h, v)]
        BY <1>m, ClientLine
      <3> QED
        BY <1>m, <1>t, <3>1
    <2> QED
      BY <1>m, <1>s, <1>l, <2>1 DEF WorkerServer
  <1>i. holder = [holder EXCEPT ![c] = holder[c]]
    BY DEF OthersOK
  <1>d. Idle.pc = "idle" /\ [Idle EXCEPT !.pc = "done"].pc = "done"
    BY DEF Idle
  <1>1. CASE c \in Calls /\ RestPick(c)
    <2>1. PICK s \in Candidates(pool[p]) :
            /\ SetPool(p, SetAllocated(pool[p], s))
            /\ SetCall(c, [Idle EXCEPT !.pc = "get", !.server = s])
      BY <1>1, <1>p DEF RestPick
    <2>2. /\ s \in Servers /\ s \notin pool[p].allocated
          /\ pool'[p].allocated = pool[p].allocated \cup {s}
      BY <1>p, <2>1, CandidateIs, PoolLine
    <2>3. holder[c] = None /\ w.pc = "idle" /\ UNCHANGED holder
      BY <1>1 DEF RestPick
    <2>4. ClientServer' = [ClientServer EXCEPT ![c] = s]
      <3>1. ClientHas(None, [Idle EXCEPT !.pc = "get", !.server = s]) = s
        BY DEF ClientHas, Idle
      <3>2. /\ call' = [call EXCEPT ![c] = [Idle EXCEPT !.pc = "get", !.server = s]]
            /\ holder' = [holder EXCEPT ![c] = None]
        BY <1>i, <2>1, <2>3 DEF SetCall
      <3>3. ClientServer' = [ClientServer EXCEPT ![c] =
                               ClientHas(None, [Idle EXCEPT !.pc = "get", !.server = s])]
        BY <3>2, ClientLine
      <3> QED
        BY <3>1, <3>3
    <2>5. ClientServer[c] = None
      BY <1>h, <2>3 DEF ClientHas
    <2>6. WorkerServer(p)' = WorkerServer(p)
      BY <1>s DEF WorkerServer
    <2>7. Ledger(WorkerServer(p)', ClientServer', pool'[p].allocated)
      <3>1. Ledger(WorkerServer(p), [ClientServer EXCEPT ![c] = s],
                   pool[p].allocated \cup {s})
        BY <1>l, <1>t, <2>2, <2>5, ClientTakes
      <3> QED
        BY <2>2, <2>4, <2>5, <2>6, <3>1
    <2> QED
      BY <1>1, <1>i, <1>n, <2>1, <2>3, <2>7 DEF SetCall
  <1>2. CASE RestGetPod(c)
    <2>1. w.pc = "get" /\ holder[c] = None /\ UNCHANGED holder
      BY <1>2, <1>r DEF RestGetPod
    <2>2. CASE /\ SetCall(c, [w EXCEPT !.pc = "label", !.base = Cached(p, w.server)])
               /\ UNCHANGED pool
      <3>1. ClientHas(None, [w EXCEPT !.pc = "label", !.base = Cached(p, w.server)]) = ClientServer[c]
        BY <1>w, <1>h, <2>1 DEF ClientHas, Threads
      <3>2. Ledger(WorkerServer(p)', ClientServer', pool'[p].allocated)
        BY <1>i, <1>m, <2>1, <2>2, <3>1 DEF SetCall
      <3> QED
        BY <1>i, <1>n, <2>1, <2>2, <3>2 DEF SetCall
    <2>3. CASE SetCall(c, Idle) /\ SetPool(p, Released(pool[p], w.server))
      <3>1. Ledger(WorkerServer(p)', ClientServer', pool'[p].allocated)
        BY <1>k, <1>d, <2>1, <2>3
      <3> QED
        BY <1>i, <1>n, <2>1, <2>3, <3>1 DEF SetCall
    <2> QED
      BY <1>2, <1>p, <2>2, <2>3 DEF RestGetPod
  <1>3. CASE RestLabelPod(c)
    <2>1. w.pc = "label" /\ holder[c] = None /\ SetCall(c, Idle) /\ w.server \in Servers
      BY <1>3, <1>r, <1>w DEF RestLabelPod
    <2>2. CASE holder' = [holder EXCEPT ![c] = w.server] /\ UNCHANGED pool
      <3>1. ClientHas(w.server, Idle) = ClientServer[c]
        BY <1>h, <2>1, AllocationAssumption DEF ClientHas
      <3>2. Ledger(WorkerServer(p)', ClientServer', pool'[p].allocated)
        BY <1>m, <2>1, <2>2, <3>1 DEF SetCall
      <3> QED
        BY <1>n, <1>d, <2>1, <2>2, <3>2 DEF SetCall
    <2>3. CASE SetPool(p, Released(pool[p], w.server)) /\ UNCHANGED holder
      <3>1. Ledger(WorkerServer(p)', ClientServer', pool'[p].allocated)
        BY <1>k, <1>d, <2>1, <2>3
      <3> QED
        BY <1>i, <1>n, <2>1, <2>3, <3>1 DEF SetCall
    <2> QED
      BY <1>3, <1>p, <2>2, <2>3 DEF RestLabelPod
  <1>4. CASE RestRelease(c)
    <2>1. /\ w.pc = "idle" /\ holder[c] # None
          /\ holder' = [holder EXCEPT ![c] = None] /\ UNCHANGED pool
      BY <1>4 DEF RestRelease
    <2>2. PICK v : SetCall(c, v) /\ v.pc \in {"unlabel", "return"} /\ v.server = holder[c]
      <3>1. ASSUME SetCall(c, [Idle EXCEPT !.pc = "unlabel", !.server = holder[c],
                                          !.base = Cached(RestProc, holder[c])])
            PROVE  \E v : SetCall(c, v) /\ v.pc \in {"unlabel", "return"} /\ v.server = holder[c]
        <4>1. [Idle EXCEPT !.pc = "unlabel", !.server = holder[c],
                           !.base = Cached(RestProc, holder[c])].pc = "unlabel"
          BY DEF Idle
        <4>2. [Idle EXCEPT !.pc = "unlabel", !.server = holder[c],
                           !.base = Cached(RestProc, holder[c])].server = holder[c]
          BY DEF Idle
        <4> QED
          BY <3>1, <4>1, <4>2
      <3>2. ASSUME SetCall(c, [Idle EXCEPT !.pc = "return", !.server = holder[c]])
            PROVE  \E v : SetCall(c, v) /\ v.pc \in {"unlabel", "return"} /\ v.server = holder[c]
        <4>1. /\ [Idle EXCEPT !.pc = "return", !.server = holder[c]].pc = "return"
              /\ [Idle EXCEPT !.pc = "return", !.server = holder[c]].server = holder[c]
          BY DEF Idle
        <4> QED
          BY <3>2, <4>1
      <3> QED
        BY <1>4, <3>1, <3>2 DEF RestRelease
    <2>3. ClientHas(None, v) = ClientServer[c]
      BY <1>h, <2>1, <2>2 DEF ClientHas
    <2>4. Ledger(WorkerServer(p)', ClientServer', pool'[p].allocated)
      BY <1>m, <2>1, <2>2, <2>3 DEF SetCall
    <2> QED
      BY <1>n, <2>1, <2>2, <2>4 DEF SetCall
  <1>5. CASE RestUnlabel(c)
    <2>1. /\ w.pc = "unlabel" /\ holder[c] = None /\ SetCall(c, [w EXCEPT !.pc = "return"])
          /\ UNCHANGED <<holder, pool>>
      BY <1>5, <1>r DEF RestUnlabel
    <2>2. ClientHas(None, [w EXCEPT !.pc = "return"]) = ClientServer[c]
      BY <1>w, <1>h, <2>1 DEF ClientHas, Threads
    <2>3. Ledger(WorkerServer(p)', ClientServer', pool'[p].allocated)
      BY <1>i, <1>m, <2>1, <2>2 DEF SetCall
    <2> QED
      BY <1>i, <1>n, <2>1, <2>3 DEF SetCall
  <1>6. CASE RestReturn(c)
    <2>1. /\ w.pc = "return" /\ holder[c] = None /\ UNCHANGED holder
          /\ SetCall(c, [Idle EXCEPT !.pc = "done"])
          /\ SetPool(p, Released(pool[p], w.server))
      BY <1>6, <1>p, <1>r DEF RestReturn
    <2>2. Ledger(WorkerServer(p)', ClientServer', pool'[p].allocated)
      BY <1>k, <1>d, <2>1
    <2> QED
      BY <1>i, <1>n, <2>1, <2>2 DEF SetCall
  <1> QED
    BY <1>1, <1>2, <1>3, <1>4, <1>5, <1>6 DEF Rest

------------------------------------------------------------------------------
LEMMA LendingInit ==
    ASSUME NEW p, OneProcess(p), Init
    PROVE  Lending(p)
  <1>1. /\ WorkerServer(p) = [r \in Requests |-> None]
        /\ ClientServer = [c \in Clients |-> None]
    BY IdleIs DEF Init, WorkerServer, ClientServer, WorkerHas, ClientHas, OneProcess
  <1>2. pool[p].allocated = {}
    BY DEF Init, OneProcess, EmptyPool
  <1>3. Ledger(WorkerServer(p), ClientServer, pool[p].allocated)
    BY <1>1, <1>2, AllocationAssumption DEF Ledger
  <1>4. PlayersRest /\ NothingGiven /\ NoSync(p)
    BY IdleIs DEF Init, PlayersRest, NothingGiven, NoSync, NotSyncing, OneProcess, Clients
  <1> QED
    BY <1>3, <1>4 DEF Lending

LEMMA NoSyncNoCrash ==
    ASSUME Parts, NEW p, OneProcess(p), Lending(p)
    PROVE  ~Sync(p) /\ ~Crash(p)
  <1>1. ~Sync(p)
    BY AllocationAssumption
      DEF Sync, BeginSync, SyncMark, SyncRegister, Lending, NoSync, OneProcess
  <1>2. ~Crash(p)
    BY DEF Crash, OneProcess, Parts, OthersOK
  <1> QED
    BY <1>1, <1>2

LEMMA LendingStep ==
    ASSUME AllocInv, NEW p, OneProcess(p), Lending(p), [Next]_vars
    PROVE  Lending(p)'
  <1>0. Parts /\ p \in Procs /\ Procs = {p}
    BY AllocInvParts DEF Parts, OneProcess
  <1>1. CASE \E r \in Requests : Reconcile(p, r)
    BY <1>0, <1>1, WorkerStep
  <1>2. CASE (\E c \in Calls : RestPick(c)) \/ (\E c \in Clients : Rest(c))
    BY <1>0, <1>2, ClientStep DEF Clients
  <1>3. CASE \/ \E r \in Requests : DeliverRequest(p, r) \/ Age(r)
             \/ \E s \in Servers : DeliverLabel(p, s)
             \/ UNCHANGED vars
    <2>1. UNCHANGED <<request, pool, worker, call, syncer, holder>>
      BY <1>3 DEF DeliverRequest, Age, DeliverLabel, vars, labelVars, requestVars, syncVars
    <2> QED
      BY <2>1 DEF Lending, PlayersRest, NothingGiven, NoSync, WorkerServer, ClientServer
  <1> QED
    BY <1>0, <1>1, <1>2, <1>3, NoSyncNoCrash DEF Next

LEMMA LendingSafety ==
    ASSUME NEW p, OneProcess(p)
    PROVE  Spec => [](AllocInv /\ Lending(p))
  <1>1. Init => AllocInv /\ Lending(p)
    BY AllocInvInit, LendingInit
  <1>2. AllocInv /\ Lending(p) /\ [Next]_vars => (AllocInv /\ Lending(p))'
    BY AllocInvStep, LendingStep
  <1> QED
    BY <1>1, <1>2, PTL DEF Spec

\* Between two syncs of the only process no two clients are given the same server,
\* however many requests, REST clients, stale reads, failures and rollbacks there
\* are (alloc_controller.go:41-195).
THEOREM ServersAreExclusive ==
    ASSUME NEW p, OneProcess(p)
    PROVE  Spec => []ExclusiveUse
  <1>1. Lending(p) => ExclusiveUse
    <2> SUFFICES ASSUME Lending(p), NEW c \in Clients, NEW d \in Clients, c # d, holder[c] # None
                 PROVE  holder[c] # holder[d]
      BY DEF ExclusiveUse
    <2>1. ClientServer[c] = holder[c] /\ (holder[d] # None => ClientServer[d] = holder[d])
      BY DEF ClientServer, ClientHas
    <2> QED
      BY <2>1 DEF Lending, Ledger
  <1> QED
    BY <1>1, LendingSafety, PTL

\* And whatever the pool counts as allocated is with a client or a thread that will
\* give it to one or back: no failure path of Reconcile, Allocate and Release loses a
\* server.
THEOREM NoServerIsLost ==
    ASSUME NEW p, OneProcess(p)
    PROVE  Spec => []EveryLendAccounted
  <1>1. AllocInv /\ Lending(p) => EveryLendAccounted
    <2> SUFFICES ASSUME AllocInv, Lending(p), NEW s \in pool[p].allocated
                 PROVE  \/ \E r \in Requests : worker[p][r].server = s
                        \/ \E c \in Clients : holder[c] = s
                        \/ \E c \in Clients : call[c].server = s
      BY DEF EveryLendAccounted, OneProcess
    <2>1. s \in Servers /\ s # None
      BY AllocInvParts, AllocationAssumption DEF PoolsOK, Pools, OneProcess
    <2>2. CASE \E r \in Requests : WorkerServer(p)[r] = s
      BY <2>1, <2>2 DEF WorkerServer, WorkerHas
    <2>3. CASE \E c \in Clients : ClientServer[c] = s
      BY <2>1, <2>3 DEF ClientServer, ClientHas
    <2> QED
      BY <2>1, <2>2, <2>3 DEF Lending, Ledger
  <1> QED
    BY <1>1, LendingSafety, PTL
------------------------------------------------------------------------------
\* The promise of Loans, step by step.
LoanView == <<Free, holder>>

LEMMA FreeIs ==
    ASSUME NEW p, OneProcess(p)
    PROVE  /\ Free = Servers \ pool[p].allocated
           /\ Free' = Servers \ pool'[p].allocated
  BY DEF Free, OneProcess

\* What a worker or a call has is allocated, and nobody plays on it.
LEMMA KeptByWorker ==
    ASSUME NEW p, Lending(p), NEW r \in Requests, WorkerHas(worker[p][r]) \in Servers
    PROVE  /\ WorkerHas(worker[p][r]) \in pool[p].allocated
           /\ \A c \in Clients : holder[c] # WorkerHas(worker[p][r])
  <1>1. WorkerServer(p)[r] = WorkerHas(worker[p][r])
    BY DEF WorkerServer
  <1>2. \A c \in Clients : holder[c] # None => ClientServer[c] = holder[c]
    BY DEF ClientServer, ClientHas
  <1> QED
    BY <1>1, <1>2, AllocationAssumption DEF Lending, Ledger

LEMMA KeptByCall ==
    ASSUME NEW p, Lending(p), NEW c \in Clients, holder[c] = None,
           call[c].pc \in {"get", "label", "unlabel", "return"}, call[c].server \in Servers
    PROVE  /\ call[c].server \in pool[p].allocated
           /\ \A d \in Clients : holder[d] # call[c].server
  <1>1. ClientServer[c] = call[c].server
    BY DEF ClientServer, ClientHas
  <1>2. \A d \in Clients : holder[d] # None => ClientServer[d] = holder[d]
    BY DEF ClientServer, ClientHas
  <1> QED
    BY <1>1, <1>2, AllocationAssumption DEF Lending, Ledger

LEMMA LoanKeepsAside ==
    ASSUME PoolsOK, NEW p, OneProcess(p), NEW s \in Candidates(pool[p]),
           SetPool(p, SetAllocated(pool[p], s)), UNCHANGED holder
    PROVE  Loan!Next
  <1>0. p \in Procs
    BY DEF OneProcess
  <1>1. /\ s \in Servers /\ s \notin pool[p].allocated
        /\ pool'[p].allocated = pool[p].allocated \cup {s}
    BY <1>0, CandidateIs, PoolLine
  <1>2. Loan!KeepAside(s)
    BY <1>1, FreeIs DEF Loan!KeepAside
  <1> QED
    BY <1>1, <1>2 DEF Loan!Next

LEMMA LoanPutsBack ==
    ASSUME PoolsOK, NEW p, OneProcess(p), NEW s \in Servers, s \in pool[p].allocated,
           \A c \in Clients : holder[c] # s,
           SetPool(p, Released(pool[p], s)), UNCHANGED holder
    PROVE  Loan!Next
  <1>0. p \in Procs
    BY DEF OneProcess
  <1>1. pool'[p].allocated = pool[p].allocated \ {s}
    BY <1>0, ReleasedAt, PoolLine
  <1>2. Loan!PutBack(s)
    BY <1>1, FreeIs DEF Loan!PutBack, Loan!InUse
  <1> QED
    BY <1>2 DEF Loan!Next

LEMMA LoanHandsOver ==
    ASSUME NEW p, OneProcess(p), NEW c \in Clients, NEW s \in Servers,
           s \in pool[p].allocated, \A d \in Clients : holder[d] # s, holder[c] = None,
           holder' = [holder EXCEPT ![c] = s], UNCHANGED pool
    PROVE  Loan!Next
  <1>1. Loan!HandOver(c, s)
    BY FreeIs DEF Loan!HandOver, Loan!InUse
  <1> QED
    BY <1>1 DEF Loan!Next

LEMMA LoanWorker ==
    ASSUME Parts, NEW p, OneProcess(p), Lending(p), NEW r \in Requests, Reconcile(p, r)
    PROVE  Loan!Next \/ UNCHANGED LoanView
  <1> DEFINE w == worker[p][r]
  <1> USE DEF Parts
  <1>p. p \in Procs /\ r \in Clients
    BY DEF OneProcess, Clients
  <1>w. w.pc # "idle" => w.version = 1 /\ w.server \in Servers
    BY <1>p DEF WorkersOK
  <1>s. UNCHANGED <<pool, holder>> => UNCHANGED LoanView
    BY DEF LoanView, Free
  <1>k. w.pc \in {"get", "label", "status"}
          => /\ w.server \in Servers /\ w.server \in pool[p].allocated
             /\ \A c \in Clients : holder[c] # w.server
    BY <1>w, KeptByWorker DEF WorkerHas
  <1>1. CASE FailExpired(p, r) \/ Undo(p, r)
    BY <1>1, <1>s DEF FailExpired, Undo
  <1>2. CASE Pick(p, r)
    BY <1>2, LoanKeepsAside DEF Pick
  <1>3. CASE GetPod(p, r)
    BY <1>3, <1>k, <1>s, LoanPutsBack DEF GetPod
  <1>4. CASE LabelPod(p, r)
    BY <1>4, <1>k, <1>s, LoanPutsBack DEF LabelPod
  <1>5. CASE UpdateStatus(p, r)
    <2>1. w.pc = "status" /\ w.version = 1 /\ w.server \in Servers
      BY <1>5, <1>w DEF UpdateStatus
    <2>2. CASE WriteAllocated(p, r) /\ UNCHANGED pool
      <3>1. /\ request[r].phase = "Pending"
            /\ request' = [request EXCEPT ![r] =
                             [phase |-> "Allocated", server |-> w.server, version |-> 2]]
        BY <2>1, <2>2, SetStatusOK DEF WriteAllocated
      <3>2. holder[r] = None /\ holder' = [holder EXCEPT ![r] = w.server]
        BY <2>2, <3>1 DEF Lending, NothingGiven, WriteAllocated
      <3> QED
        BY <1>k, <1>p, <2>1, <2>2, <3>2, LoanHandsOver
    <2>3. CASE UNCHANGED holder /\ SetPool(p, Released(pool[p], w.server))
      BY <1>k, <2>1, <2>3, LoanPutsBack
    <2> QED
      BY <1>5, <2>2, <2>3 DEF UpdateStatus, OneProcess
  <1> QED
    BY <1>1, <1>2, <1>3, <1>4, <1>5 DEF Reconcile

LEMMA LoanClient ==
    ASSUME Parts, NEW p, OneProcess(p), Lending(p), NEW c \in Clients,
           (c \in Calls /\ RestPick(c)) \/ Rest(c)
    PROVE  Loan!Next \/ UNCHANGED LoanView
  <1> DEFINE w == call[c]
  <1> USE DEF Parts
  <1>p. RestProc = p /\ p \in Procs
    BY RestServes
  <1>w. w.pc \notin {"idle", "done"} => w.server \in Servers /\ holder[c] = None
    BY DEF CallsOK, Lending, PlayersRest
  <1>s. UNCHANGED <<pool, holder>> => UNCHANGED LoanView
    BY DEF LoanView, Free
  <1>k. w.pc \in {"get", "label", "unlabel", "return"}
          => /\ w.server \in Servers /\ w.server \in pool[p].allocated
             /\ holder[c] = None /\ \A d \in Clients : holder[d] # w.server
    BY <1>w, KeptByCall
  <1>1. CASE RestPick(c)
    BY <1>1, <1>p, LoanKeepsAside DEF RestPick
  <1>2. CASE RestGetPod(c)
    BY <1>2, <1>k, <1>p, <1>s, LoanPutsBack DEF RestGetPod
  <1>3. CASE RestLabelPod(c)
    <2>1. w.pc = "label"
      BY <1>3 DEF RestLabelPod
    <2>2. CASE holder' = [holder EXCEPT ![c] = w.server] /\ UNCHANGED pool
      BY <1>k, <2>1, <2>2, LoanHandsOver
    <2>3. CASE SetPool(p, Released(pool[p], w.server)) /\ UNCHANGED holder
      BY <1>k, <2>1, <2>3, LoanPutsBack
    <2> QED
      BY <1>3, <1>p, <2>2, <2>3 DEF RestLabelPod
  <1>4. CASE RestRelease(c)
    <2>1. Loan!EndMatch(c)
      BY <1>4 DEF RestRelease, Loan!EndMatch, Free
    <2> QED
      BY <2>1 DEF Loan!Next
  <1>5. CASE RestUnlabel(c)
    BY <1>5, <1>s DEF RestUnlabel
  <1>6. CASE RestReturn(c)
    BY <1>6, <1>k, <1>p, LoanPutsBack DEF RestReturn
  <1> QED
    BY <1>1, <1>2, <1>3, <1>4, <1>5, <1>6 DEF Rest

\* Clients of the only process get their servers as Loans promises, between two
\* syncs: one server is never two loans, and every loan is returned once, after its
\* match (alloc_controller.go:41-195).
THEOREM LoansAreKept ==
    ASSUME NEW p, OneProcess(p)
    PROVE  Spec => LentAsPromised
  <1>1. Init => Loan!Init
    <2>1. Init => pool[p].allocated = {} /\ holder = [c \in Clients |-> None]
      <3>1. ASSUME Init PROVE pool[p].allocated = {}
        BY <3>1 DEF Init, OneProcess, EmptyPool
      <3>2. Init => holder = [c \in Clients |-> None]
        BY DEF Init
      <3> QED
        BY <3>1, <3>2
    <2> QED
      BY <2>1, FreeIs DEF Loan!Init
  <1>2. AllocInv /\ Lending(p) /\ [Next]_vars => [Loan!Next]_(Loan!vars)
    <2> SUFFICES ASSUME AllocInv, Lending(p), [Next]_vars
                 PROVE  Loan!Next \/ UNCHANGED LoanView
      BY DEF LoanView, Loan!vars
    <2>0. Parts /\ p \in Procs /\ Procs = {p}
      BY AllocInvParts DEF Parts, OneProcess
    <2>1. CASE \E r \in Requests : Reconcile(p, r)
      BY <2>0, <2>1, LoanWorker
    <2>2. CASE (\E c \in Calls : RestPick(c)) \/ (\E c \in Clients : Rest(c))
      BY <2>0, <2>2, LoanClient DEF Clients
    <2>3. CASE \/ \E r \in Requests : DeliverRequest(p, r) \/ Age(r)
               \/ \E s \in Servers : DeliverLabel(p, s)
               \/ UNCHANGED vars
      BY <2>3 DEF DeliverRequest, Age, DeliverLabel, vars, LoanView, Free
    <2> QED
      BY <2>0, <2>1, <2>2, <2>3, NoSyncNoCrash DEF Next
  <1> QED
    BY <1>1, <1>2, LendingSafety, PTL DEF Spec, LentAsPromised, Loan!Spec
==============================================================================
