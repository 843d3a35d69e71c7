--------------------------- MODULE MatchKeptProofs ---------------------------
(***************************************************************************)
(* No drain takes a server from its players (NoMatchLost of FleetDrain), for *)
(* every set of servers, any restarts, any second fleet and any failures of *)
(* listing, querying, deleting and allocating.  It takes a controller that  *)
(* allocates alone, reads its own writes and writes the labels of the       *)
(* drains that it starts, and a minimum drain time that is not zero:        *)
(* without any of these TLC finds a match lost.  Under the same conditions  *)
(* the fleet implements GracefulDrain.  A drain that a rollback reopened is *)
(* excepted in both, and in each part of the invariant.                     *)
(***************************************************************************)
EXTENDS FleetDrainProofs

Alone == ~ApiServer /\ ~CacheLag /\ "label" \notin MayFail /\ Timeout > 0

Drains(s) == drain[s].phase # "none" /\ Alive(s)
\* No rollback has interfered with the drain of s.
Undisturbed(s) == Drains(s) /\ s \notin reopened

\* The controller reads the labels there are, and no other process allocates.
OneReader == cached = label /\ \A a \in joining : a.proc = "ctl"

\* A server that drains is no candidate, and no sync will make it one: its label is
\* not warm, and was not when the sync in progress read it.
Unavailable ==
    \A s \in Servers : Undisturbed(s) => s \in pool.unhealthy /\ label[s] # "warm"
SnapshotTrue ==
    rec["own"].pc = "sync" =>
        \A s \in Servers :
            /\ rec["own"].snap[s] = "warm" => ~Undisturbed(s)
            /\ rec["own"].snap[s] = "draining" /\ Alive(s)
                  => label[s] # "warm" \/ s \in reopened

\* Whoever is about to be marked unhealthy is in the pool.
InPool ==
    /\ rec["own"].pc \in {"picked", "drain"} => rec["own"].todo \subseteq pool.tracked
    /\ rec["own"].pc = "sync" /\ rec["own"].cur # None => rec["own"].cur \in pool.tracked

\* An allocation that was under way when the drain began is over by the first tick.
NoneJoins ==
    \A s \in Servers : Undisturbed(s) /\ drain[s].entered > 0
        => \A a \in joining : a.server # s
EmptyWhenReady ==
    \A s \in Servers : Undisturbed(s) /\ drain[s].phase = "DECOMMISSION" => s \notin playing

KeptInv ==
    OneReader /\ Unavailable /\ SnapshotTrue /\ InPool /\ NoneJoins /\ EmptyWhenReady

Inv == Typed /\ DrainInv /\ KeptInv

------------------------------------------------------------------------------
\* A label that is written is the label that is read.
LEMMA PatchLabelKept ==
    ASSUME Typed, Alone, OneReader, NEW s \in Servers, NEW phase \in Labels,
           PatchLabel(s, cached[s], phase)
    PROVE  label' = [label EXCEPT ![s] = phase] /\ cached' = label'
  BY DEF Typed, Alone, OneReader, PatchLabel

\* The steps of players and pods leave the Reconcile and the records.
LEMMA AroundKeeps ==
    ASSUME Inv, Alone,
           \/ ApiSync
           \/ \E s \in Servers : Deliver(s) \/ PodRuns(s) \/ PodGone(s) \/ MatchEnds(s)
    PROVE  KeptInv'
  <1>1. ASSUME NEW s \in Servers, PodRuns(s) \/ PodGone(s) \/ MatchEnds(s) PROVE KeptInv'
    <2>1. /\ UNCHANGED <<label, cached, pool, joining, rec, drain, reopened>>
          /\ playing' \subseteq playing
      BY <1>1 DEF Alone, PodRuns, PodGone, MatchEnds, poolVars, requestVars, historyVars
    <2>2. \A u \in Servers : Alive(u)' => Alive(u)
      BY <1>1 DEF PodRuns, PodGone, MatchEnds, Alive, Inv, Typed
    <2>3. \A u \in Servers : Undisturbed(u)' => Undisturbed(u)
      BY <2>1, <2>2 DEF Undisturbed, Drains
    <2>4. (OneReader /\ Unavailable /\ SnapshotTrue /\ InPool)'
      BY <2>1, <2>2, <2>3 DEF Inv, KeptInv, OneReader, Unavailable, SnapshotTrue, InPool
    <2>5. (NoneJoins /\ EmptyWhenReady)'
      BY <2>1, <2>3 DEF Inv, KeptInv, NoneJoins, EmptyWhenReady
    <2> QED
      BY <2>4, <2>5 DEF KeptInv
  <1>2. ASSUME NEW s \in Servers, Deliver(s) PROVE FALSE
    BY <1>2 DEF Deliver, Inv, KeptInv, OneReader
  <1>3. ASSUME ApiSync PROVE FALSE
    BY <1>3 DEF Alone, ApiSync
  <1> QED
    BY <1>1, <1>2, <1>3

\* The server that is picked does not drain, or was reopened.
LEMMA CandidateServes ==
    ASSUME Inv, NEW s \in Candidates(pool)
    PROVE  s \in Servers /\ s \in pool.tracked /\ ~Undisturbed(s)
  <1>1. s \in pool.tracked /\ s \notin pool.unhealthy
    BY DEF Candidates
  <1>2. pool.tracked \subseteq Servers
    BY DEF Inv, Typed, IsPool, Pools
  <1> QED
    BY <1>1, <1>2 DEF Inv, KeptInv, Unavailable

\* What AllocPick writes: under the conditions the controller alone picks.
LEMMA AllocPickWrites ==
    ASSUME Inv, Alone, NEW p \in Processes, NEW s \in Servers, AllocPick(p, s)
    PROVE  /\ UNCHANGED <<podVars, rec, drain, historyVars>>
           /\ s \in Candidates(pool) /\ pool' = SetAllocated(pool, s)
           /\ \E a \in Allocations : /\ a.server = s /\ a.proc = "ctl"
                                     /\ joining' = joining \cup {a}
  <1>1. p = "ctl"
    BY DEF AllocPick, Alone
  <1>2. [proc |-> p, server |-> s, pc |-> "label", base |-> "warm"] \in Allocations
    BY DEF Allocations, Labels
  <1> QED
    BY <1>1, <1>2 DEF AllocPick, PoolOf, SetPool

LEMMA AllocPickKeeps ==
    ASSUME Inv, Alone, NEW p \in Processes, NEW s \in Servers, AllocPick(p, s)
    PROVE  KeptInv'
  <1>1. /\ UNCHANGED <<pod, label, cached, playing, rec, drain, reopened>>
        /\ s \in Candidates(pool) /\ pool' = SetAllocated(pool, s)
    BY AllocPickWrites DEF podVars, requestVars, historyVars
  <1>2. PICK a \in Allocations :
            a.server = s /\ a.proc = "ctl" /\ joining' = joining \cup {a}
    BY AllocPickWrites
  <1>3. \A u \in Servers : Alive(u)' = Alive(u) /\ Undisturbed(u)' = Undisturbed(u)
    BY <1>1 DEF Undisturbed, Drains, Alive
  <1>4. s \in pool.tracked /\ ~Undisturbed(s)
    BY <1>1, CandidateServes
  <1>5. pool'.tracked = pool.tracked /\ pool'.unhealthy = pool.unhealthy
    BY <1>1, <1>4, SetAllocatedIs DEF Inv, Typed
  <1>6. (OneReader /\ Unavailable /\ SnapshotTrue /\ InPool)'
    BY <1>1, <1>2, <1>3, <1>5
      DEF Inv, KeptInv, OneReader, Unavailable, SnapshotTrue, InPool
  <1>7. (NoneJoins /\ EmptyWhenReady)'
    BY <1>1, <1>2, <1>3, <1>4 DEF Inv, KeptInv, NoneJoins, EmptyWhenReady
  <1> QED
    BY <1>6, <1>7 DEF KeptInv

\* What an allocation may do to the label of its server: allocated, or warm again in a
\* rollback, which reopens a drain that was begun.
LEMMA AllocLabels ==
    ASSUME Inv, Alone, NEW a \in joining, AllocStep(a)
    PROVE  /\ cached' = label'
           /\ \A u \in Servers : \/ label'[u] \in {label[u], "allocated"}
                                 \/ /\ u = a.server /\ label'[u] = "warm"
                                    /\ DrainBegun(u) => u \in reopened'
           /\ reopened \subseteq reopened'
  <1> DEFINE s == a.server
  <1>0. s \in Servers /\ a.proc = "ctl" /\ cached = label /\ label \in [Servers -> Labels]
    BY AllocRecord DEF Inv, Typed, KeptInv, OneReader
  <1>1. ASSUME UNCHANGED <<label, cached>>
        PROVE  cached' = label' /\ \A u \in Servers : label'[u] = label[u]
    BY <1>0, <1>1
  <1>2. ASSUME NEW base, NEW phase, PatchLabel(s, base, phase)
        PROVE  /\ cached' = label' /\ \A u \in Servers \ {s} : label'[u] = label[u]
               /\ label'[s] \in {label[s], phase}
    BY <1>0, <1>2 DEF PatchLabel, Alone
  <1> HIDE DEF s
  <1>3. CASE AllocLabel(a)
    <2>1. /\ reopened' = reopened
          /\ \/ UNCHANGED <<label, cached>>
             \/ \E base : PatchLabel(s, base, "allocated")
      BY <1>3 DEF AllocLabel, historyVars, s
    <2> QED
      BY <1>1, <1>2, <2>1
  <1>4. CASE AllocStatus(a)
    BY <1>1, <1>4 DEF AllocStatus, historyVars
  <1>5. CASE AllocUndo(a)
    <2>1. CASE UNCHANGED <<label, cached, reopened>>
      BY <1>1, <2>1
    <2>2. CASE /\ PatchLabel(s, a.base, "warm")
               /\ reopened' = IF DrainBegun(s) /\ label'[s] = "warm" THEN reopened \cup {s}
                                                                   ELSE reopened
      BY <1>2, <2>2 DEF s
    <2> QED
      BY <1>5, <2>1, <2>2 DEF AllocUndo, s
  <1> QED
    BY <1>3, <1>4, <1>5 DEF AllocStep

\* Nobody joins a server that is ready to go.
LEMMA AllocLateJoin ==
    ASSUME Inv, Alone, NEW a \in joining, Undisturbed(a.server)
    PROVE  drain[a.server].phase # "DECOMMISSION"
  <1> SUFFICES ASSUME drain[a.server].phase = "DECOMMISSION" PROVE FALSE
    OBVIOUS
  <1>1. a.server \in Servers
    BY AllocRecord DEF Inv
  <1>2. drain[a.server].entered >= Timeout /\ drain[a.server].entered \in 0 .. MaxAge
    BY <1>1 DEF Inv, DrainInv, RecordInv, ReadyLate, Typed, ServerStates
  <1>3. drain[a.server].entered > 0
    BY <1>2, MaxAgeIs DEF Alone
  <1> QED
    BY <1>1, <1>3 DEF Inv, KeptInv, NoneJoins

LEMMA AllocPools ==
    ASSUME Inv, Alone, NEW a \in joining, AllocStep(a)
    PROVE  pool'.tracked = pool.tracked /\ pool'.unhealthy = pool.unhealthy
  <1>1. a.proc = "ctl" /\ a.server \in Servers /\ IsPool(Servers, pool)
    BY AllocRecord DEF Inv, Typed, KeptInv, OneReader
  <1>2. pool' = pool \/ pool' = Released(pool, a.server)
    BY <1>1, AllocWrites DEF Inv, SetPool, PoolOf, poolVars
  <1> QED
    BY <1>1, <1>2, ReleasedIs

LEMMA AllocStepKeeps ==
    ASSUME Inv, Alone, NEW a \in joining, AllocStep(a)
    PROVE  KeptInv'
  <1>1. /\ UNCHANGED <<pod, rec, drain>>
        /\ playing' \in {playing, playing \cup {a.server}}
    BY AllocWrites DEF Inv, Joined
  <1>2. /\ cached' = label' /\ reopened \subseteq reopened'
        /\ \A u \in Servers : \/ label'[u] \in {label[u], "allocated"}
                              \/ DrainBegun(u) => u \in reopened'
    BY AllocLabels
  <1>3. \A u \in Servers : /\ Alive(u)' = Alive(u)
                           /\ Undisturbed(u)' => Undisturbed(u) /\ DrainBegun(u)
    BY <1>1, <1>2 DEF Undisturbed, Drains, Alive, DrainBegun
  <1>4. \A b \in joining' : /\ b.proc = "ctl"
                            /\ \E c \in joining : c.server = b.server
    <2>1. CASE joining' = joining \ {a}
      BY <2>1 DEF Inv, KeptInv, OneReader
    <2>2. CASE \E b \in Allocations :
                  b.server = a.server /\ b.proc = a.proc /\ joining' = (joining \ {a}) \cup {b}
      BY <2>2 DEF Inv, KeptInv, OneReader
    <2> QED
      BY <2>1, <2>2, AllocGoesOn DEF Inv
  <1>5. (OneReader /\ Unavailable /\ InPool)'
    BY <1>1, <1>2, <1>3, <1>4, AllocPools
      DEF Inv, KeptInv, OneReader, Unavailable, Undisturbed, InPool
  <1>6. SnapshotTrue'
    <2> SUFFICES ASSUME rec["own"].pc = "sync", NEW u \in Servers,
                        rec["own"].snap[u] = "draining", Alive(u)
                 PROVE  label'[u] # "warm" \/ u \in reopened'
      BY <1>1, <1>3 DEF SnapshotTrue, Inv, KeptInv
    <2>1. DrainBegun(u) /\ (label[u] # "warm" \/ u \in reopened)
      BY DEF DrainBegun, Inv, KeptInv, SnapshotTrue
    <2> QED
      BY <1>2, <2>1
  <1>7. NoneJoins'
    BY <1>1, <1>3, <1>4 DEF Inv, KeptInv, NoneJoins
  <1>8. EmptyWhenReady'
    BY <1>1, <1>3, AllocLateJoin DEF Inv, KeptInv, EmptyWhenReady
  <1> QED
    BY <1>5, <1>6, <1>7, <1>8 DEF KeptInv

LEMMA TickKept ==
    ASSUME Inv, Tick
    PROVE  KeptInv'
  <1>1. /\ UNCHANGED <<pod, label, cached, playing, pool, rec, reopened>>
        /\ joining = {} /\ joining' = {}
    BY DEF Tick, podVars, requestVars
  <1>2. \A s \in Servers : /\ drain'[s].phase = drain[s].phase /\ Alive(s)' = Alive(s)
                           /\ Undisturbed(s)' = Undisturbed(s)
    BY <1>1, OlderIs DEF Tick, Inv, Typed, Undisturbed, Drains, Alive
  <1>3. (OneReader /\ Unavailable /\ SnapshotTrue /\ InPool)'
    BY <1>1, <1>2 DEF Inv, KeptInv, OneReader, Unavailable, SnapshotTrue, InPool
  <1>4. (NoneJoins /\ EmptyWhenReady)'
    BY <1>1, <1>2 DEF Inv, KeptInv, NoneJoins, EmptyWhenReady
  <1> QED
    BY <1>3, <1>4 DEF KeptInv

\* A controller that restarts forgets drains, pool and allocations together.
LEMMA CrashKept ==
    ASSUME Inv, Crash
    PROVE  KeptInv'
  <1>1. /\ cached' = label' /\ joining' \subseteq joining
        /\ \A s \in Servers : ~Undisturbed(s)'
        /\ rec'["own"] = Resting
    BY NoDrainIs, WorkersAre DEF Crash, Undisturbed, Drains
  <1>2. (OneReader /\ Unavailable /\ SnapshotTrue /\ InPool)'
    BY <1>1, RestingIs DEF Inv, KeptInv, OneReader, Unavailable, SnapshotTrue, InPool
  <1>3. (NoneJoins /\ EmptyWhenReady)'
    BY <1>1 DEF NoneJoins, EmptyWhenReady
  <1> QED
    BY <1>2, <1>3 DEF KeptInv

------------------------------------------------------------------------------
\* The steps of a Reconcile that leave labels and records.
Elsewhere ==
    UNCHANGED <<pod, label, cached, playing, joining, drain, reopened>>

LEMMA ElsewhereKeeps ==
    ASSUME Inv, Elsewhere,
           \A s \in Servers : Undisturbed(s) /\ s \in pool.unhealthy => s \in pool'.unhealthy
    PROVE  /\ (OneReader /\ Unavailable /\ NoneJoins /\ EmptyWhenReady)'
           /\ \A s \in Servers : /\ Alive(s)' = Alive(s)
                                 /\ Undisturbed(s)' = Undisturbed(s)
  <1>1. \A s \in Servers : Alive(s)' = Alive(s) /\ Undisturbed(s)' = Undisturbed(s)
    BY DEF Elsewhere, Undisturbed, Drains, Alive
  <1>2. (OneReader /\ Unavailable)'
    BY <1>1 DEF Elsewhere, Inv, KeptInv, OneReader, Unavailable
  <1>3. (NoneJoins /\ EmptyWhenReady)'
    BY <1>1 DEF Elsewhere, Inv, KeptInv, NoneJoins, EmptyWhenReady
  <1> QED
    BY <1>1, <1>2, <1>3

LEMMA BeginSyncKeeps ==
    ASSUME Inv, BeginSync
    PROVE  KeptInv'
  <1>1. Elsewhere /\ pool' = pool
    BY DEF BeginSync, Elsewhere, podVars, poolVars, requestVars, historyVars
  <1>2. rec'["own"].pc \in {"sync", "scale"} /\ rec'["own"].cur = None
    BY BeginSyncMoves DEF Inv, Moves
  <1>3. InPool'
    BY <1>2 DEF InPool
  <1>4. SnapshotTrue'
    <2> SUFFICES ASSUME rec'["own"].pc = "sync", NEW s \in Servers
                 PROVE  /\ rec'["own"].snap[s] = "warm" => ~Undisturbed(s)'
                        /\ rec'["own"].snap[s] = "draining" => label'[s] # "warm"
      BY DEF SnapshotTrue
    <2>1. rec'["own"].snap = cached /\ cached = label /\ label' = label
      BY <1>1, BeginSyncReads DEF Inv, KeptInv, OneReader, Elsewhere
    <2>2. Undisturbed(s)' => label[s] # "warm"
      BY <1>1, ElsewhereKeeps DEF Inv, KeptInv, Unavailable
    <2> QED
      BY <2>1, <2>2
  <1> QED
    BY <1>1, <1>3, <1>4, ElsewhereKeeps DEF KeptInv

LEMMA SyncRegisterKeeps ==
    ASSUME Inv, NEW s \in Servers, SyncRegister(s)
    PROVE  KeptInv'
  <1>1. Elsewhere
    BY DEF SyncRegister, Elsewhere, podVars, requestVars, historyVars
  <1>2. /\ pool'.tracked = pool.tracked \cup {s}
        /\ pool'.unhealthy = pool.unhealthy
    BY RegisteredIs DEF SyncRegister, Inv, Typed
  <1>3. /\ rec["own"].pc = "sync" /\ rec'["own"].pc = "sync"
        /\ rec'["own"].cur = s /\ rec'["own"].snap = rec["own"].snap
    BY WorkersAre DEF SyncRegister, Goes, Inv, Typed, Reconciles
  <1>4. InPool'
    BY <1>2, <1>3 DEF InPool
  <1>5. SnapshotTrue'
    BY <1>1, <1>2, <1>3, ElsewhereKeeps DEF Inv, KeptInv, SnapshotTrue, Elsewhere
  <1> QED
    BY <1>1, <1>2, <1>4, <1>5, ElsewhereKeeps DEF KeptInv

\* What SyncMark may make of a server: a drain is rebuilt only for one that it marks
\* unhealthy, and only one that does not drain is made available.
LEMMA SyncMarkKept ==
    ASSUME Inv, SyncMark
    PROVE  KeptInv'
  <1>0. PICK s \in Servers : s = rec["own"].cur
    BY WorkersAre DEF SyncMark, Inv, Typed, Reconciles
  <1>1. s \in pool.tracked /\ rec["own"].pc = "sync"
    BY <1>0, FleetDrainAssumption DEF SyncMark, Inv, KeptInv, InPool
  <1>2. UNCHANGED <<pod, label, cached, playing, joining, reopened>>
    BY DEF SyncMark, podVars, requestVars, historyVars
  <1>3. \/ rec'["own"].pc = "scale"
        \/ /\ rec'["own"].pc = "sync" /\ rec'["own"].cur = None
           /\ rec'["own"].snap = rec["own"].snap
    <2>1. rec["own"] \in Reconciles
      BY WorkersAre DEF Inv, Typed
    <2>2. \/ rec'["own"] = [Resting EXCEPT !.pc = "scale"]
          \/ rec'["own"] = [rec["own"] EXCEPT !.cur = None, !.todo = rec["own"].todo \ {s}]
      BY <1>0, WorkersAre DEF SyncMark, Goes, Inv, Typed
    <2>3. CASE rec'["own"] = [Resting EXCEPT !.pc = "scale"]
      BY <2>3, RestingIs DEF Reconciles
    <2>4. CASE rec'["own"] = [rec["own"] EXCEPT !.cur = None, !.todo = rec["own"].todo \ {s}]
      BY <1>1, <2>1, <2>4 DEF Reconciles
    <2> QED
      BY <2>2, <2>3, <2>4
  <1>4. InPool'
    BY <1>3 DEF InPool
  <1>5. CASE rec["own"].snap[s] = "draining"
    <2>1. pool' = MadeUnhealthy(pool, s) /\ (drain' = drain \/ drain' = [drain EXCEPT ![s] = DrainRecovered])
      BY <1>5, <1>0 DEF SyncMark, Recovered
    <2>2. pool'.unhealthy = pool.unhealthy \cup {s}
      BY <1>1, <2>1, MadeUnhealthyIs DEF Inv, Typed
    <2>3. \A u \in Servers : /\ Alive(u)' = Alive(u)
                             /\ Undisturbed(u)' => Undisturbed(u) \/ u = s
      BY <1>2, <2>1 DEF Undisturbed, Drains, Alive, Inv, Typed
    <2>4. \A u \in Servers : \/ drain'[u] = drain[u]
                             \/ drain'[u].phase = "DRAIN" /\ drain'[u].entered = 0
      BY <2>1, DrainRecoveredIs DEF Inv, Typed
    <2>5. Undisturbed(s)' => label[s] # "warm"
      BY <1>1, <1>2, <1>5 DEF Inv, KeptInv, SnapshotTrue, Undisturbed, Drains, Alive
    <2>6. (OneReader /\ Unavailable)'
      BY <1>2, <2>2, <2>3, <2>5 DEF Inv, KeptInv, OneReader, Unavailable
    <2>7. SnapshotTrue'
      BY <1>1, <1>2, <1>3, <1>5, <2>3 DEF Inv, KeptInv, SnapshotTrue
    <2>8. (NoneJoins /\ EmptyWhenReady)'
      BY <1>2, <2>4
        DEF Inv, KeptInv, NoneJoins, EmptyWhenReady, Undisturbed, Drains, Alive
    <2> QED
      BY <1>4, <2>6, <2>7, <2>8 DEF KeptInv
  <1>6. CASE rec["own"].snap[s] # "draining"
    <2>1. /\ drain' = drain
          /\ \/ pool' = SetAllocated(pool, s)
             \/ pool' = MadeAvailable(pool, s) /\ rec["own"].snap[s] = "warm"
      BY <1>6, <1>0 DEF SyncMark
    <2>2. \/ pool'.unhealthy = pool.unhealthy
          \/ pool'.unhealthy = pool.unhealthy \ {s} /\ rec["own"].snap[s] = "warm"
      BY <1>1, <2>1, SetAllocatedIs, MadeAvailableIs DEF Inv, Typed
    <2>3. rec["own"].snap[s] = "warm" => ~Undisturbed(s)
      BY <1>1 DEF Inv, KeptInv, SnapshotTrue
    <2>4. Elsewhere
      BY <1>2, <2>1 DEF Elsewhere
    <2>5. \A u \in Servers : Undisturbed(u) /\ u \in pool.unhealthy => u \in pool'.unhealthy
      BY <2>2, <2>3
    <2>6. SnapshotTrue'
      BY <1>2, <1>3, <1>1, <2>4, <2>5, ElsewhereKeeps DEF Inv, KeptInv, SnapshotTrue
    <2> QED
      BY <1>4, <2>4, <2>5, <2>6, ElsewhereKeeps DEF KeptInv
  <1> QED
    BY <1>5, <1>6

LEMMA ScaleKeeps ==
    ASSUME Inv,
           \/ GiveUp \/ ScaleDown \/ LockDrains
           \/ \E w \in Workers : BeginAdvance(w)
    PROVE  KeptInv'
  <1>1. Elsewhere /\ pool' = pool
    BY DEF GiveUp, ScaleDown, LockDrains, BeginAdvance, Elsewhere,
           podVars, poolVars, requestVars, historyVars
  <1>2. /\ rec'["own"].pc \in {"picked", "drain"} => rec'["own"].todo \subseteq pool.tracked
        /\ rec'["own"].pc # "sync" \/ rec'["own"] = rec["own"]
    <2>1. CASE GiveUp
      BY <2>1, GiveUpMoves DEF Inv, Moves
    <2>2. CASE ScaleDown
      <3>1. PICK idle \in (SUBSET (Candidates(pool) \cap rested)) \ {{}} :
                rec'["own"] = [Resting EXCEPT !.pc = "picked", !.todo = idle]
        BY <2>2, WorkersAre DEF ScaleDown, Goes, Inv, Typed
      <3>2. rec'["own"].todo = idle /\ rec'["own"].pc = "picked"
        BY <3>1, RestingIs DEF Reconciles
      <3> QED
        BY <3>2 DEF Candidates
    <2>3. CASE LockDrains
      <3>1. rec["own"] \in Reconciles
        BY WorkersAre DEF Inv, Typed
      <3>2. /\ rec["own"].pc = "picked"
            /\ rec'["own"] = [rec["own"] EXCEPT !.pc = "drain"]
        BY <2>3, WorkersAre DEF LockDrains, Goes, Inv, Typed
      <3>3. rec'["own"].pc = "drain" /\ rec'["own"].todo = rec["own"].todo
        BY <3>1, <3>2 DEF Reconciles
      <3> QED
        BY <3>2, <3>3 DEF Inv, KeptInv, InPool
    <2>4. ASSUME NEW w \in Workers, BeginAdvance(w)
          PROVE  rec'["own"] = rec["own"] \/ rec'["own"].pc \in {"rest", "advance"}
      BY <2>4, BeginAdvanceMoves, WorkersAre DEF Inv, Moves
    <2> QED
      BY <2>1, <2>2, <2>3, <2>4 DEF Inv, KeptInv, InPool
  <1>3. (InPool /\ SnapshotTrue)'
    BY <1>1, <1>2, ElsewhereKeeps DEF Inv, KeptInv, InPool, SnapshotTrue, Elsewhere
  <1> QED
    BY <1>1, <1>3, ElsewhereKeeps DEF KeptInv

\* A drain begins with the server marked unhealthy and its label written, if the pod is
\* still there.
LEMMA StartDrainKept ==
    ASSUME Inv, Alone, NEW s \in Servers, StartDrain(s)
    PROVE  KeptInv'
  <1>0. PICK reachable \in BOOLEAN : drain' = [drain EXCEPT ![s] = DrainStarted(reachable)]
    BY StartDrainRecord
  <1>1. /\ UNCHANGED <<pod, playing, joining>>
        /\ rec["own"].pc = "drain" /\ s \in rec["own"].todo
        /\ pool' = MadeUnhealthy(pool, s)
        /\ reopened' = reopened \ {s}
    BY DEF StartDrain, requestVars
  <1>2. s \in pool.tracked
    BY <1>1 DEF Inv, KeptInv, InPool
  <1>3. pool'.tracked = pool.tracked /\ pool'.unhealthy = pool.unhealthy \cup {s}
    BY <1>1, <1>2, MadeUnhealthyIs DEF Inv, Typed
  <1>4. /\ cached' = label' /\ \A u \in Servers \ {s} : label'[u] = label[u]
        /\ Alive(s) => label'[s] = "draining"
    <2>1. CASE Exists(s) /\ PatchLabel(s, cached[s], "draining")
      BY <2>1, PatchLabelKept DEF Inv, KeptInv, Typed, Labels
    <2>2. CASE ~Exists(s) /\ UNCHANGED <<label, cached>>
      BY <2>2 DEF Inv, KeptInv, OneReader, Exists, Alive
    <2> QED
      BY <2>1, <2>2 DEF StartDrain, Fault, Alone
  <1>5. /\ \A u \in Servers \ {s} :
              drain'[u] = drain[u] /\ Undisturbed(u)' = Undisturbed(u)
        /\ drain'[s].phase = "CORDON" /\ drain'[s].entered = 0
        /\ Alive(s)' = Alive(s)
    BY <1>0, <1>1, DrainStartedIs DEF Inv, Typed, Undisturbed, Drains, Alive
  <1>6. (OneReader /\ Unavailable)'
    BY <1>1, <1>3, <1>4, <1>5 DEF Inv, KeptInv, OneReader, Unavailable, Undisturbed, Drains
  <1>7. (NoneJoins /\ EmptyWhenReady)'
    BY <1>1, <1>5 DEF Inv, KeptInv, NoneJoins, EmptyWhenReady
  <1>8. (InPool /\ SnapshotTrue)'
    <2>1. rec["own"] \in Reconciles
      BY WorkersAre DEF Inv, Typed
    <2>2. \/ rec'["own"] = [Resting EXCEPT !.pc = "ready"]
          \/ rec'["own"] = [rec["own"] EXCEPT !.todo = rec["own"].todo \ {s}]
      BY WorkersAre DEF StartDrain, Goes, Inv, Typed
    <2>3. CASE rec'["own"] = [Resting EXCEPT !.pc = "ready"]
      <3>1. rec'["own"].pc = "ready"
        BY <2>3, RestingIs DEF Reconciles
      <3> QED
        BY <3>1 DEF InPool, SnapshotTrue
    <2>4. CASE rec'["own"] = [rec["own"] EXCEPT !.todo = rec["own"].todo \ {s}]
      <3>1. rec'["own"].pc = "drain" /\ rec'["own"].todo = rec["own"].todo \ {s}
        BY <1>1, <2>1, <2>4 DEF Reconciles
      <3> QED
        BY <1>1, <1>3, <3>1 DEF Inv, KeptInv, InPool, SnapshotTrue
    <2> QED
      BY <2>2, <2>3, <2>4
  <1> QED
    BY <1>6, <1>7, <1>8 DEF KeptInv

\* The Reconcile of this fleet neither syncs nor drains after an advance of its own.
LEMMA AdvanceMoves ==
    ASSUME Inv, NEW w \in Workers, NEW s \in Servers, rec[w].pc = "advance",
           Finished(w, s) \/ Goes(w, [rec[w] EXCEPT !.cur = s])
    PROVE  rec'["own"] = rec["own"] \/ rec'["own"].pc \in {"rest", "advance"}
  BY FinishedMoves, PicksMoves, WorkersAre DEF Inv, Moves

\* A record that goes on keeps its age, and is ready only without players.
LEMMA AdvanceKept ==
    ASSUME Inv, NEW w \in Workers, NEW s \in Servers, NEW d, Turn(w, s),
           Finished(w, s) \/ Goes(w, [rec[w] EXCEPT !.cur = s]),
           drain[s].phase # "none", SetDrain(s, d),
           d.phase # "none", d.entered = drain[s].entered,
           d.phase = "DECOMMISSION" => s \notin playing,
           UNCHANGED <<podVars, poolVars, requestVars, historyVars>>
    PROVE  KeptInv'
  <1>1. UNCHANGED <<pod, label, cached, playing, pool, joining, reopened>>
    BY DEF podVars, poolVars, requestVars, historyVars
  <1>2. /\ drain'[s] = d /\ \A u \in Servers \ {s} : drain'[u] = drain[u]
        /\ \A u \in Servers : Alive(u)' = Alive(u) /\ Undisturbed(u)' = Undisturbed(u)
    BY <1>1 DEF SetDrain, Inv, Typed, Undisturbed, Drains, Alive
  <1>3. (OneReader /\ Unavailable)'
    BY <1>1, <1>2 DEF Inv, KeptInv, OneReader, Unavailable
  <1>4. (NoneJoins /\ EmptyWhenReady)'
    BY <1>1, <1>2 DEF Inv, KeptInv, NoneJoins, EmptyWhenReady
  <1>5. (InPool /\ SnapshotTrue)'
    BY <1>1, <1>2, AdvanceMoves DEF Turn, Inv, KeptInv, InPool, SnapshotTrue
  <1> QED
    BY <1>3, <1>4, <1>5 DEF KeptInv

LEMMA TurnsKeep ==
    ASSUME Inv, NEW w \in Workers, NEW s \in Servers,
           Cordon(w, s) \/ ForceServer(w, s) \/ QueryServer(w, s)
    PROVE  KeptInv'
  <1>1. drain[s] \in ServerStates
    BY DEF Inv, Typed
  <1>2. CASE Cordon(w, s)
    BY <1>1, <1>2, CordonDoneIs, AdvanceKept DEF Cordon
  <1>3. CASE ForceServer(w, s)
    BY <1>1, <1>3, ForcedIs, AdvanceKept DEF ForceServer
  <1>4. CASE QueryServer(w, s)
    <2> DEFINE active == s \in playing
    <2> DEFINE d == Answered(drain[s], active)
    <2>1. /\ Turn(w, s) /\ drain[s].phase = "DRAIN"
          /\ Finished(w, s) \/ Goes(w, [rec[w] EXCEPT !.cur = s])
          /\ SetDrain(s, d) \/ drain' = drain
          /\ active \in BOOLEAN
          /\ UNCHANGED <<podVars, poolVars, requestVars, historyVars>>
      BY <1>4 DEF QueryServer
    <2>2. active <=> s \in playing
      OBVIOUS
    <2> HIDE DEF active
    <2>3. /\ d.phase \in {"DRAIN", "DECOMMISSION"} /\ d.entered = drain[s].entered
          /\ d.phase = "DECOMMISSION" => ~active
      BY <1>1, <2>1, AnsweredIs
    <2> HIDE DEF d
    <2>4. CASE SetDrain(s, d)
      BY <2>1, <2>2, <2>3, <2>4, AdvanceKept
    <2>5. CASE drain' = drain
      <3>1. SetDrain(s, drain[s])
        BY <2>5 DEF SetDrain, Inv, Typed
      <3> QED
        BY <2>1, <3>1, AdvanceKept
    <2> QED
      BY <2>1, <2>4, <2>5
  <1> QED
    BY <1>2, <1>3, <1>4

LEMMA DeletePodKept ==
    ASSUME Inv, NEW w \in Workers, NEW s \in Servers, DeletePod(w, s)
    PROVE  KeptInv'
  <1>1. /\ rec[w].pc = "advance" /\ rec[w].cur = s /\ Finished(w, s)
        /\ UNCHANGED <<label, cached, playing, joining>>
    BY DEF DeletePod, requestVars
  <1>2. rec'["own"] = rec["own"] \/ rec'["own"].pc \in {"rest", "advance"}
    BY <1>1, AdvanceMoves
  <1>3. CASE UNCHANGED <<pod, reopened, poolVars, drain>>
    <2>1. Elsewhere /\ pool' = pool
      BY <1>1, <1>3 DEF Elsewhere, poolVars
    <2>2. (InPool /\ SnapshotTrue)'
      BY <1>2, <2>1, ElsewhereKeeps DEF Inv, KeptInv, InPool, SnapshotTrue, Elsewhere
    <2> QED
      BY <2>1, <2>2, ElsewhereKeeps DEF KeptInv
  <1>4. CASE /\ pod' = [pod EXCEPT ![s] = "terminating"] /\ reopened' = reopened \ {s}
             /\ SetDrain(s, NoDrain)
             /\ pool' = pool \/ (w = "own" /\ pool' = Removed(pool, s))
    <2>1. /\ \A u \in Servers \ {s} : /\ drain'[u] = drain[u] /\ Alive(u)' = Alive(u)
                                      /\ Undisturbed(u)' = Undisturbed(u)
                                      /\ u \in reopened' <=> u \in reopened
          /\ ~Alive(s)' /\ ~Undisturbed(s)'
      BY <1>4, NoDrainIs DEF Inv, Typed, SetDrain, Undisturbed, Drains, Alive
    <2>2. \A u \in Servers \ {s} : u \in pool.unhealthy => u \in pool'.unhealthy
      BY <1>4, RemovedIs DEF Inv, Typed
    <2>3. (OneReader /\ Unavailable)'
      BY <1>1, <2>1, <2>2 DEF Inv, KeptInv, OneReader, Unavailable
    <2>4. (NoneJoins /\ EmptyWhenReady)'
      BY <1>1, <2>1 DEF Inv, KeptInv, NoneJoins, EmptyWhenReady
    <2>5. SnapshotTrue'
      BY <1>1, <1>2, <2>1 DEF Inv, KeptInv, SnapshotTrue
    <2>6. InPool'
      <3>1. CASE w = "own"
        BY <1>1, <1>2, <3>1 DEF InPool
      <3>2. CASE pool' = pool
        BY <1>2, <3>2 DEF Inv, KeptInv, InPool
      <3> QED
        BY <1>4, <3>1, <3>2
    <2> QED
      BY <2>3, <2>4, <2>5, <2>6 DEF KeptInv
  <1> QED
    BY <1>3, <1>4 DEF DeletePod, poolVars

------------------------------------------------------------------------------
LEMMA KeptInvInit == Init => KeptInv
  <1> SUFFICES ASSUME Init PROVE KeptInv
    OBVIOUS
  <1>1. /\ cached = label /\ joining = {}
        /\ rec["own"] = Resting /\ \A s \in Servers : drain[s] = NoDrain
    BY WorkersAre DEF Init
  <1> QED
    BY <1>1, NoDrainIs, RestingIs
      DEF KeptInv, OneReader, Unavailable, SnapshotTrue, InPool, NoneJoins, EmptyWhenReady,
          Undisturbed, Drains

LEMMA KeptInvStep == Alone /\ Inv /\ [Next]_vars => KeptInv'
  <1> SUFFICES ASSUME Alone, Inv, [Next]_vars PROVE KeptInv'
    OBVIOUS
  <1>1. CASE UNCHANGED vars
    <2>1. Elsewhere /\ pool' = pool /\ rec' = rec
      BY <1>1 DEF vars, podVars, poolVars, requestVars, historyVars, Elsewhere
    <2> QED
      BY <2>1, ElsewhereKeeps DEF Inv, KeptInv, InPool, SnapshotTrue, Elsewhere
  <1>2. CASE Next
    BY <1>2, StepsOfNext, AroundKeeps, AllocPickKeeps, AllocStepKeeps, TickKept, CrashKept,
       BeginSyncKeeps, SyncRegisterKeeps, SyncMarkKept, ScaleKeeps, StartDrainKept,
       TurnsKeep, DeletePodKept
  <1> QED
    BY <1>1, <1>2

LEMMA KeptSafety == ASSUME Alone PROVE Spec => []Inv
  <1>1. Init => Inv
    BY TypedInit, DrainInvInit, KeptInvInit DEF Inv
  <1>2. Inv /\ [Next]_vars => Inv'
    BY TypedStep, DrainInvStep, KeptInvStep DEF Inv
  <1> QED
    BY <1>1, <1>2, PTL DEF Spec

\* "Ensures no active match is ever lost during scale-down" (README.md:939), for a
\* controller that allocates alone, reads its own writes and labels the servers that it
\* drains, with a minimum drain time: whatever restarts, races and fails, only the force
\* deadline takes a server from its players, unless a rollback reopened its drain.
THEOREM NoMatchIsLost ==
    ASSUME Alone
    PROVE  Spec => NoMatchLost
  <1>1. ASSUME Inv, [Next]_vars, NEW s \in playing, Deleted(s)
        PROVE  drain[s].phase = "FORCED" \/ s \in reopened
    <2>1. s \in Servers /\ Alive(s)
      BY <1>1 DEF Inv, Typed, Deleted
    <2>2. drain[s].phase \in {"DECOMMISSION", "FORCED"}
      BY <1>1, <2>1, DeletedWhenReady DEF Inv
    <2>3. CASE drain[s].phase = "DECOMMISSION"
      <3>1. Drains(s)
        BY <2>1, <2>3 DEF Drains
      <3> QED
        BY <1>1, <2>1, <2>3, <3>1 DEF Inv, KeptInv, EmptyWhenReady, Undisturbed
    <2> QED
      BY <2>2, <2>3
  <1>2. Inv /\ [Next]_vars
           => [\A s \in playing :
                  Deleted(s) => drain[s].phase = "FORCED" \/ s \in reopened]_vars
    BY <1>1
  <1> QED
    BY <1>2, KeptSafety, PTL DEF Spec, NoMatchLost
------------------------------------------------------------------------------
\* The promise of GracefulDrain.  A server that executeScaleDown has picked does not
\* drain yet, also while another fleet holds the lock: no drain starts over, but one
\* that a rollback reopened.
PickedServe ==
    rec["own"].pc \in {"picked", "drain"} => \A s \in rec["own"].todo : ~Undisturbed(s)

LEMMA PickedServeKept ==
    ASSUME Typed, PickedServe, \A s \in Servers : Undisturbed(s)' => Undisturbed(s),
           rec'["own"] = rec["own"] \/ rec'["own"].pc \notin {"picked", "drain"}
    PROVE  PickedServe'
  <1>1. rec["own"].todo \subseteq Servers
    BY WorkersAre DEF Typed, Reconciles
  <1> QED
    BY <1>1 DEF PickedServe

LEMMA PickedServeStep ==
    ASSUME Inv, Alone, PickedServe, Next
    PROVE  PickedServe'
  <1> USE DEF Inv
  <1>1. ASSUME \/ ApiSync
               \/ \E s \in Servers : Deliver(s) \/ PodRuns(s) \/ PodGone(s) \/ MatchEnds(s)
               \/ \E p \in Processes, s \in Servers : AllocPick(p, s)
               \/ \E a \in joining : AllocStep(a)
        PROVE  PickedServe'
    <2>1. rec' = rec /\ drain' = drain /\ reopened \subseteq reopened'
      BY <1>1, AllocWrites, AllocLabels
        DEF ApiSync, Deliver, PodRuns, PodGone, MatchEnds, AllocPick, historyVars
    <2>2. pod' = pod \/ \E s \in Servers : PodRuns(s) \/ PodGone(s)
      BY <1>1, AllocWrites DEF ApiSync, Deliver, MatchEnds, AllocPick, podVars
    <2>3. \A s \in Servers : Alive(s)' => Alive(s)
      BY <2>2 DEF PodRuns, PodGone, Alive, Typed
    <2> QED
      BY <2>1, <2>3, PickedServeKept DEF Undisturbed, Drains
  <1>2. CASE Tick
    <2>1. /\ UNCHANGED <<pod, rec, reopened>>
          /\ \A s \in Servers : drain'[s].phase = drain[s].phase
      BY <1>2, OlderIs DEF Tick, Typed, podVars
    <2> QED
      BY <2>1, PickedServeKept DEF Undisturbed, Drains, Alive
  <1>3. CASE Crash
    BY <1>3, WorkersAre, RestingIs DEF Crash, PickedServe
  <1>4. CASE BeginSync \/ SyncMark \/ GiveUp \/ \E s \in Servers : SyncRegister(s)
    BY <1>4, BeginSyncMoves, SyncMarkMoves, GiveUpMoves, SyncRegisterMoves
      DEF Moves, PickedServe
  <1>5. CASE ScaleDown
    <2>1. PICK idle \in (SUBSET (Candidates(pool) \cap rested)) \ {{}} :
            rec'["own"] = [Resting EXCEPT !.pc = "picked", !.todo = idle]
      BY <1>5, WorkersAre DEF ScaleDown, Goes, Typed
    <2>2. rec'["own"].todo = idle
      BY <2>1, RestingIs DEF Reconciles
    <2>3. \A s \in idle : s \in Servers /\ ~Undisturbed(s)
      BY <2>1, CandidateServes
    <2>4. UNCHANGED <<pod, drain, reopened>>
      BY <1>5 DEF ScaleDown, podVars, historyVars
    <2> QED
      BY <2>2, <2>3, <2>4 DEF PickedServe, Undisturbed, Drains, Alive
  <1>6. CASE LockDrains
    <2>1. /\ rec["own"].pc = "picked" /\ UNCHANGED <<pod, drain, reopened>>
          /\ rec'["own"] = [rec["own"] EXCEPT !.pc = "drain"]
      BY <1>6, WorkersAre DEF LockDrains, Goes, Typed, podVars, historyVars
    <2>2. rec["own"] \in Reconciles
      BY WorkersAre DEF Typed
    <2>3. rec'["own"].todo = rec["own"].todo
      BY <2>1, <2>2 DEF Reconciles
    <2> QED
      BY <2>1, <2>3 DEF PickedServe, Undisturbed, Drains, Alive
  <1>7. ASSUME NEW s \in Servers, StartDrain(s)
        PROVE  PickedServe'
    <2>0. drain' = drain \/ \E d : drain' = [drain EXCEPT ![s] = d]
      BY <1>7, StartDrainRecord
    <2>1. /\ rec["own"].pc = "drain" /\ pod' = pod /\ reopened' = reopened \ {s}
          /\ \A u \in Servers \ {s} : drain'[u] = drain[u]
      BY <1>7, <2>0 DEF StartDrain, Typed
    <2>2. \/ rec'["own"] = [Resting EXCEPT !.pc = "ready"]
          \/ rec'["own"] = [rec["own"] EXCEPT !.todo = rec["own"].todo \ {s}]
      BY <1>7, WorkersAre DEF StartDrain, Goes, Typed
    <2>3. rec["own"] \in Reconciles
      BY WorkersAre DEF Typed
    <2>4. \/ rec'["own"].pc = "ready"
          \/ rec'["own"].todo = rec["own"].todo \ {s}
      BY <2>2, <2>3, RestingIs DEF Reconciles
    <2>5. rec["own"].todo \subseteq Servers
      BY <2>3 DEF Reconciles
    <2> QED
      BY <2>1, <2>4, <2>5 DEF PickedServe, Undisturbed, Drains, Alive
  <1>8. ASSUME NEW w \in Workers, BeginAdvance(w)
        PROVE  PickedServe'
    <2>1. rec'["own"] = rec["own"] \/ rec'["own"].pc \in {"rest", "advance"}
      BY <1>8, BeginAdvanceMoves, WorkersAre DEF Moves
    <2>2. UNCHANGED <<pod, drain, reopened>>
      BY <1>8 DEF BeginAdvance, podVars, historyVars
    <2> QED
      BY <2>1, <2>2, PickedServeKept DEF Undisturbed, Drains, Alive
  <1>9. ASSUME NEW w \in Workers, NEW s \in Servers,
               Cordon(w, s) \/ ForceServer(w, s) \/ QueryServer(w, s) \/ DeletePod(w, s)
        PROVE  PickedServe'
    <2>1. /\ rec[w].pc = "advance"
          /\ Finished(w, s) \/ Goes(w, [rec[w] EXCEPT !.cur = s])
      BY <1>9 DEF Cordon, ForceServer, QueryServer, DeletePod, Turn
    <2>2. rec'["own"] = rec["own"] \/ rec'["own"].pc \in {"rest", "advance"}
      BY <2>1, AdvanceMoves
    <2>3. /\ \A u \in Servers \ {s} : drain'[u] = drain[u]
          /\ drain'[s].phase # "none" => drain[s].phase # "none"
      BY <1>9, NoDrainIs DEF Cordon, ForceServer, QueryServer, DeletePod, SetDrain, Typed
    <2>4. \A u \in Servers : Alive(u)' => Alive(u)
      BY <1>9 DEF Cordon, ForceServer, QueryServer, DeletePod, podVars, Alive, Typed
    <2>5. reopened' = reopened \/ (reopened' = reopened \ {s} /\ ~Alive(s)')
      BY <1>9 DEF Cordon, ForceServer, QueryServer, DeletePod, historyVars, Alive, Typed
    <2> QED
      BY <2>2, <2>3, <2>4, <2>5, PickedServeKept DEF Undisturbed, Drains
  <1> QED
    BY <1>1, <1>2, <1>3, <1>4, <1>5, <1>6, <1>7, <1>8, <1>9, StepsOfNext

\* What clients see of a step: nothing, or a change of one server.
View == <<Phase, Age, Invited, Players, Reopened>>

SameRecord(u) ==
    /\ drain'[u].phase = "none" <=> drain[u].phase = "none"
    /\ drain'[u].entered = drain[u].entered /\ drain'[u].recovered = drain[u].recovered
    /\ u \in cordoned' <=> u \in cordoned

LEMMA PhasesKept ==
    ASSUME \A u \in Servers : Alive(u)' = Alive(u) /\ (Alive(u) => SameRecord(u))
    PROVE  Phase' = Phase /\ Age' = Age
  BY DEF Phase, Age, SameRecord

LEMMA OnePhaseChanges ==
    ASSUME NEW s \in Servers,
           \A u \in Servers \ {s} :
              Alive(u)' = Alive(u) /\ (Alive(u) => SameRecord(u))
    PROVE  /\ Phase' = [Phase EXCEPT ![s] = Phase'[s]]
           /\ Age' = [Age EXCEPT ![s] = Age'[s]]
  BY DEF Phase, Age, SameRecord

LEMMA PeopleKept ==
    ASSUME Typed, \A u \in Servers : Alive(u)' = Alive(u)
    PROVE  /\ joining' = joining => Invited' = Invited
           /\ playing' = playing => Players' = Players
           /\ reopened' = reopened => Reopened' = Reopened
  <1>1. playing \subseteq Servers /\ reopened \subseteq Servers
    BY DEF Typed
  <1> QED
    BY <1>1 DEF Invited, Players, Reopened

LEMMA PromiseAround ==
    ASSUME Inv, Alone,
           \/ ApiSync
           \/ \E s \in Servers : Deliver(s) \/ PodRuns(s) \/ PodGone(s) \/ MatchEnds(s)
    PROVE  Promise!Next \/ UNCHANGED View
  <1> USE DEF Inv
  <1>1. ASSUME NEW s \in Servers, PodRuns(s) \/ PodGone(s)
        PROVE  UNCHANGED View
    <2>1. /\ UNCHANGED <<drain, cordoned, joining, reopened>>
          /\ playing' = playing \/ (playing' = playing \ {s} /\ ~Alive(s))
          /\ \A u \in Servers : Alive(u)' = Alive(u)
      BY <1>1 DEF PodRuns, PodGone, Alive, Typed, requestVars, historyVars
    <2>2. Phase' = Phase /\ Age' = Age
      BY <2>1, PhasesKept DEF SameRecord
    <2>3. Invited' = Invited /\ Reopened' = Reopened
      BY <2>1, PeopleKept
    <2>4. Players' = Players
      BY <2>1 DEF Players, Typed
    <2> QED
      BY <2>2, <2>3, <2>4 DEF View
  <1>2. ASSUME NEW s \in Servers, MatchEnds(s)
        PROVE  Promise!EndMatch(s) \/ UNCHANGED View
    <2>1. /\ UNCHANGED <<pod, drain, cordoned, joining, reopened>>
          /\ s \in playing /\ playing' = playing \ {s}
      BY <1>2 DEF MatchEnds, historyVars
    <2>2. /\ Phase' = Phase /\ Age' = Age
          /\ Invited' = Invited /\ Reopened' = Reopened
      BY <2>1 DEF Phase, Age, Invited, Reopened, Alive
    <2>3. Players' = Players \ {s} /\ (Alive(s) => s \in Players)
      BY <2>1 DEF Players, Alive
    <2>4. ~Alive(s) => Players' = Players
      BY <2>1, <2>3 DEF Players
    <2> QED
      BY <2>2, <2>3, <2>4 DEF Promise!EndMatch, View
  <1>3. ASSUME ApiSync PROVE FALSE
    BY <1>3 DEF Alone, ApiSync
  <1>4. ASSUME NEW s \in Servers, Deliver(s) PROVE FALSE
    BY <1>4 DEF Deliver, KeptInv, OneReader
  <1> QED
    BY <1>1, <1>2, <1>3, <1>4 DEF Promise!Next

\* A candidate serves or was reopened, or its pod was deleted before.
LEMMA PromisePick ==
    ASSUME Inv, Alone, NEW p \in Processes, NEW s \in Servers, AllocPick(p, s)
    PROVE  Promise!Next \/ UNCHANGED View
  <1> USE DEF Inv
  <1>1. UNCHANGED <<pod, drain, cordoned, playing, reopened>> /\ s \in Candidates(pool)
    BY AllocPickWrites DEF podVars, historyVars
  <1>2. PICK a \in Allocations : a.server = s /\ joining' = joining \cup {a}
    BY AllocPickWrites
  <1>3. Phase' = Phase /\ Age' = Age /\ Players' = Players /\ Reopened' = Reopened
    BY <1>1 DEF Phase, Age, Players, Reopened, Alive
  <1>4. CASE Alive(s)
    <2>1. Promise!Serves(s) \/ s \in Reopened
      BY <1>1, <1>4, CandidateServes
        DEF Promise!Serves, Phase, Undisturbed, Drains, Reopened
    <2>2. Invited' = Invited \cup {s}
      BY <1>1, <1>2, <1>4 DEF Invited, Alive
    <2> QED
      BY <1>3, <2>1, <2>2 DEF Promise!Next, Promise!Invite
  <1>5. CASE ~Alive(s)
    <2>1. Invited' = Invited
      BY <1>1, <1>2, <1>5 DEF Invited, Alive
    <2> QED
      BY <1>3, <2>1 DEF View
  <1> QED
    BY <1>4, <1>5

\* Who is invited after a step of an allocation: as before, but for its server.
LEMMA InvitedAfter ==
    ASSUME Inv, NEW a \in joining, AllocStep(a), Alive(a.server)
    PROVE  /\ a.server \in Invited
           /\ Invited' \in Promise!InvitedLess(a.server)
           /\ joining' # joining \ {a} => Invited' = Invited
  <1> DEFINE s == a.server
  <1>1. s \in Servers /\ \A u \in Servers : Alive(u)' = Alive(u)
    BY AllocRecord, AllocWrites DEF Inv, Alive
  <1>2. s \in Invited
    BY <1>1 DEF Invited
  <1>3. CASE \E b \in Allocations :
                b.server = a.server /\ b.proc = a.proc /\ joining' = (joining \ {a}) \cup {b}
    <2>1. Invited' = Invited
      BY <1>1, <1>3 DEF Invited
    <2> QED
      BY <1>2, <2>1 DEF Promise!InvitedLess
  <1>4. CASE joining' = joining \ {a}
    <2>1. Invited' = Invited \/ Invited' = Invited \ {s}
      BY <1>1, <1>4 DEF Invited
    <2> QED
      BY <1>2, <1>4, <2>1 DEF Promise!InvitedLess
  <1> QED
    BY <1>3, <1>4, AllocGoesOn DEF Inv

\* A step of an allocation leaves invitations, or the server joins or is given back.
LEMMA PromiseAlloc ==
    ASSUME Inv, Alone, NEW a \in joining, AllocStep(a)
    PROVE  Promise!Next \/ UNCHANGED View
  <1> USE DEF Inv
  <1> DEFINE s == a.server
  <1>1. /\ UNCHANGED <<pod, drain, cordoned>> /\ s \in Servers
        /\ \A u \in Servers : Alive(u)' = Alive(u)
    BY AllocWrites, AllocRecord DEF Alive
  <1>2. Phase' = Phase /\ Age' = Age
    BY <1>1, PhasesKept DEF SameRecord
  <1>3. /\ playing' = playing \/ playing' = playing \cup {s}
        /\ reopened' = reopened \/ (reopened' = reopened \cup {s} /\ DrainBegun(s))
        /\ playing' = playing \/ reopened' = reopened
    BY DEF AllocStep, AllocLabel, AllocStatus, AllocUndo, Joined, historyVars
  <1>4. CASE ~Alive(s)
    <2>1. Players' = Players /\ Reopened' = Reopened
      BY <1>1, <1>3, <1>4 DEF Players, Reopened, Typed
    <2>2. Invited' = Invited
      <3>1. \A u \in Servers : (\E b \in joining' : b.server = u) /\ u # s
                                  <=> (\E b \in joining : b.server = u) /\ u # s
        BY AllocGoesOn
      <3> HIDE DEF s
      <3> QED
        BY <1>1, <1>4, <3>1 DEF Invited
    <2> QED
      BY <1>2, <2>1, <2>2 DEF View
  <1>5. CASE Alive(s)
    <2>1. /\ s \in Invited /\ Invited' \in Promise!InvitedLess(s)
          /\ joining' # joining \ {a} => Invited' = Invited
      BY <1>5, InvitedAfter
    <2>2. CASE playing' = playing \cup {s} /\ reopened' = reopened
      <3>1. Players' = Players \cup {s} /\ Reopened' = Reopened
        BY <1>1, <1>5, <2>2 DEF Players, Reopened, Typed
      <3>2. Promise!Join(s)
        BY <1>2, <2>1, <3>1 DEF Promise!Join
      <3> QED
        BY <1>1, <3>2 DEF Promise!Next
    <2>3. CASE playing' = playing
      <3>1. Players' = Players
        BY <1>1, <2>3, PeopleKept
      <3>2. \/ Reopened' = Reopened
            \/ Phase[s] # "serving" /\ Reopened' = Reopened \cup {s}
        <4>1. CASE reopened' = reopened
          BY <1>1, <4>1, PeopleKept
        <4>2. CASE reopened' = reopened \cup {s} /\ DrainBegun(s)
          <5>1. drain[s].phase # "none" \/ s \in cordoned
            BY <1>1, <4>2, WorkersAre DEF DrainBegun, DrainInv, LabelsCordoned
          <5>2. Phase[s] # "serving"
            BY <1>1, <1>5, <5>1 DEF Phase
          <5>3. Reopened' = Reopened \cup {s}
            BY <1>1, <1>5, <4>2 DEF Reopened, Typed
          <5> QED
            BY <5>2, <5>3
        <4> QED
          BY <1>3, <4>1, <4>2
      <3>3. Promise!Withdraw(s)
        BY <1>2, <2>1, <3>1, <3>2 DEF Promise!Withdraw
      <3> QED
        BY <1>1, <3>3 DEF Promise!Next
    <2> QED
      BY <1>3, <2>2, <2>3
  <1> QED
    BY <1>4, <1>5

LEMMA PromiseTick ==
    ASSUME Inv, Tick
    PROVE  Promise!Next
  <1>1. /\ UNCHANGED <<pod, playing, cordoned, reopened>> /\ joining = {} /\ joining' = {}
        /\ drain' = [s \in Servers |-> Older(drain[s])]
    BY DEF Tick, podVars, requestVars
  <1>2. /\ Invited = {} /\ Invited' = {}
        /\ Players' = Players /\ Reopened' = Reopened
    BY <1>1 DEF Invited, Players, Reopened, Alive
  <1>3. ASSUME NEW s \in Servers
        PROVE  /\ Alive(s)' = Alive(s) /\ drain'[s].phase = drain[s].phase
               /\ drain'[s].recovered = drain[s].recovered
               /\ drain[s].phase # "none" => drain'[s].entered =
                     IF drain[s].entered < MaxAge THEN drain[s].entered + 1 ELSE drain[s].entered
    BY <1>1, OlderIs DEF Inv, Typed, Alive
  <1>4. Phase' = Phase
    BY <1>1, <1>3 DEF Phase
  <1>5. \A s \in Servers : Promise!Drains(s) <=> Alive(s) /\ drain[s].phase # "none"
    BY DEF Promise!Drains, Phase
  <1>6. Age' = [s \in Servers |-> IF Promise!Drains(s) /\ Age[s] < MaxAge THEN Age[s] + 1
                                                                        ELSE Age[s]]
    BY <1>3, <1>5 DEF Age
  <1> QED
    BY <1>2, <1>4, <1>6 DEF Promise!Next, Promise!Tick

LEMMA PromiseCrash ==
    ASSUME Inv, Crash
    PROVE  Promise!Next
  <1>1. /\ UNCHANGED <<pod, playing, cordoned>> /\ joining' = {} /\ reopened' = {}
        /\ \A s \in Servers : drain'[s].phase = "none"
    BY NoDrainIs DEF Crash, Inv, KeptInv, OneReader
  <1>2. Invited' = {} /\ Players' = Players /\ Reopened' = {}
    BY <1>1 DEF Invited, Players, Reopened, Alive
  <1>3. Age' = [s \in Servers |-> 0]
    BY <1>1 DEF Age
  <1>4. Phase' = [s \in Servers |-> IF Promise!Drains(s) THEN "forgotten" ELSE Phase[s]]
    BY <1>1 DEF Phase, Promise!Drains, Alive, Inv, DrainInv, RecordInv, RecordsCordoned
  <1> QED
    BY <1>2, <1>3, <1>4 DEF Promise!Next, Promise!Restart

\* A drain begins, of a server that serves or was reopened, or one that was forgotten is
\* resumed.
LEMMA PromiseDrain ==
    ASSUME Inv, Alone, PickedServe, SyncMark \/ \E s \in Servers : StartDrain(s)
    PROVE  Promise!Next \/ UNCHANGED View
  <1> USE DEF Inv
  <1>1. ASSUME NEW s \in Servers, NEW d \in ServerStates, d.phase # "none", d.entered = 0,
               UNCHANGED <<pod, playing, joining>>, drain' = [drain EXCEPT ![s] = d],
               \A u \in Servers \ {s} : u \in cordoned' <=> u \in cordoned
        PROVE  /\ Invited' = Invited /\ Players' = Players
               /\ ~Alive(s) => Phase' = Phase /\ Age' = Age
               /\ Alive(s) => Promise!Enter(s, IF d.recovered THEN "resumed" ELSE "leaving")
    <2>1. /\ \A u \in Servers : Alive(u)' = Alive(u)
          /\ \A u \in Servers \ {s} : SameRecord(u)
          /\ drain'[s] = d
      BY <1>1 DEF Alive, Typed, SameRecord
    <2>2. Invited' = Invited /\ Players' = Players
      BY <1>1, <2>1, PeopleKept
    <2>3. ~Alive(s) => Phase' = Phase /\ Age' = Age
      BY <2>1, PhasesKept
    <2>4. CASE Alive(s)
      <3>1. Age'[s] = 0 /\ Phase'[s] = IF d.recovered THEN "resumed" ELSE "leaving"
        BY <1>1, <2>1, <2>4 DEF Phase, Age
      <3> QED
        BY <2>1, <2>2, <2>4, <3>1, OnePhaseChanges DEF Promise!Enter
    <2> QED
      BY <2>2, <2>3, <2>4
  <1>2. CASE SyncMark
    <2> DEFINE s == rec["own"].cur
    <2>1. /\ UNCHANGED <<pod, playing, joining, cordoned, reopened>> /\ s \in Servers
          /\ \/ drain' = drain
             \/ /\ drain[s].phase = "none" /\ rec["own"].snap[s] = "draining"
                /\ drain' = [drain EXCEPT ![s] = DrainRecovered]
      BY <1>2, WorkersAre
        DEF SyncMark, Recovered, podVars, requestVars, historyVars, Typed, Reconciles
    <2>2. rec["own"].snap[s] = "draining" => s \in cordoned
      BY <2>1, WorkersAre DEF DrainInv, LabelsCordoned
    <2>3. CASE drain' = drain
      <3>1. /\ Phase' = Phase /\ Age' = Age /\ Invited' = Invited
            /\ Players' = Players /\ Reopened' = Reopened
        BY <2>1, <2>3 DEF Phase, Age, Invited, Players, Reopened, Alive
      <3> QED
        BY <3>1 DEF View
    <2>4. Reopened' = Reopened
      BY <2>1 DEF Reopened, Alive
    <2> HIDE DEF s
    <2>5. CASE /\ drain[s].phase = "none" /\ rec["own"].snap[s] = "draining"
               /\ drain' = [drain EXCEPT ![s] = DrainRecovered]
      <3>1. /\ Invited' = Invited /\ Players' = Players
            /\ ~Alive(s) => Phase' = Phase /\ Age' = Age
            /\ Alive(s) => Promise!Enter(s, "resumed")
        <4>1. DrainRecovered.recovered
          BY NoDrainIs DEF DrainRecovered, ServerStates
        <4> QED
          BY <1>1, <2>1, <2>5, <4>1, DrainRecoveredIs
      <3>2. Alive(s) => Phase[s] = "forgotten"
        BY <2>1, <2>2, <2>5 DEF Phase
      <3> QED
        BY <2>1, <2>4, <3>1, <3>2 DEF View, Promise!Next, Promise!Resume
    <2> QED
      BY <2>1, <2>3, <2>5
  <1>3. ASSUME NEW s \in Servers, StartDrain(s)
        PROVE  Promise!Next \/ UNCHANGED View
    <2>0. PICK reachable \in BOOLEAN : drain' = [drain EXCEPT ![s] = DrainStarted(reachable)]
      BY <1>3, StartDrainRecord
    <2>1. /\ UNCHANGED <<pod, playing, joining>>
          /\ rec["own"].pc = "drain" /\ s \in rec["own"].todo
          /\ cordoned' = cordoned \cup {s} /\ reopened' = reopened \ {s}
      BY <1>3 DEF StartDrain, requestVars
    <2>2. /\ Invited' = Invited /\ Players' = Players
          /\ ~Alive(s) => Phase' = Phase /\ Age' = Age
          /\ Alive(s) => Promise!Enter(s, "leaving")
      BY <1>1, <2>0, <2>1, DrainStartedIs
    <2>3. Reopened' = Reopened \ {s} /\ (~Alive(s) => Reopened' = Reopened)
      BY <2>1 DEF Reopened, Alive
    <2>4. Alive(s) => Promise!Serves(s) \/ (Promise!Drains(s) /\ s \in Reopened)
      BY <2>1 DEF PickedServe, Undisturbed, Drains, Phase, Promise!Serves, Promise!Drains,
                  Reopened
    <2> QED
      BY <2>2, <2>3, <2>4 DEF View, Promise!Next, Promise!Cordon
  <1> QED
    BY <1>2, <1>3

LEMMA PromiseStutters ==
    ASSUME Inv,
           \/ BeginSync \/ GiveUp \/ ScaleDown \/ LockDrains
           \/ \E s \in Servers : SyncRegister(s)
           \/ \E w \in Workers : \/ BeginAdvance(w)
                                 \/ \E s \in Servers : \/ Cordon(w, s) \/ ForceServer(w, s)
                                                       \/ QueryServer(w, s)
    PROVE  UNCHANGED View
  <1>1. UNCHANGED <<pod, playing, joining, cordoned, reopened>>
    BY DEF BeginSync, GiveUp, ScaleDown, LockDrains, SyncRegister, BeginAdvance,
           Cordon, ForceServer, QueryServer, podVars, requestVars, historyVars
  <1>2. \A u \in Servers : SameRecord(u)
    <2>1. CASE drain' = drain
      BY <1>1, <2>1 DEF SameRecord
    <2>2. ASSUME NEW s \in Servers, NEW d \in ServerStates, SetDrain(s, d),
                 d.phase # "none", drain[s].phase # "none",
                 d.entered = drain[s].entered, d.recovered = drain[s].recovered
          PROVE  \A u \in Servers : SameRecord(u)
      BY <1>1, <2>2 DEF SetDrain, SameRecord, Inv, Typed
    <2>3. ASSUME NEW w \in Workers, NEW s \in Servers,
                 Cordon(w, s) \/ ForceServer(w, s) \/ QueryServer(w, s)
          PROVE  \A u \in Servers : SameRecord(u)
      <3> DEFINE active == s \in playing
      <3>1. /\ drain[s].phase # "none" /\ drain[s] \in ServerStates /\ active \in BOOLEAN
            /\ \/ drain' = drain
               \/ SetDrain(s, CordonDone(drain[s]))
               \/ SetDrain(s, Forced(drain[s]))
               \/ SetDrain(s, Answered(drain[s], active))
        BY <2>3 DEF Cordon, ForceServer, QueryServer, Inv, Typed
      <3> HIDE DEF active
      <3> QED
        BY <2>1, <2>2, <3>1, CordonDoneIs, ForcedIs, AnsweredIs
    <2> QED
      BY <2>1, <2>3 DEF BeginSync, GiveUp, ScaleDown, LockDrains, SyncRegister, BeginAdvance
  <1>3. \A u \in Servers : Alive(u)' = Alive(u)
    BY <1>1 DEF Alive
  <1> QED
    BY <1>1, <1>2, <1>3, PhasesKept, PeopleKept DEF View, Inv

\* A server that is deleted was empty and had its time, or its drain was overdue.
LEMMA PromiseDelete ==
    ASSUME Inv, Alone, NEW w \in Workers, NEW s \in Servers, DeletePod(w, s)
    PROVE  Promise!Next \/ UNCHANGED View
  <1> USE DEF Inv
  <1>1. rec[w].pc = "advance" /\ rec[w].cur = s /\ UNCHANGED <<playing, joining, cordoned>>
    BY DEF DeletePod, requestVars
  <1>2. CASE UNCHANGED <<pod, drain, reopened>>
    <2>1. /\ Phase' = Phase /\ Age' = Age /\ Invited' = Invited
          /\ Players' = Players /\ Reopened' = Reopened
      BY <1>1, <1>2 DEF Phase, Age, Invited, Players, Reopened, Alive
    <2> QED
      BY <2>1 DEF View
  <1>3. CASE /\ Exists(s) /\ pod' = [pod EXCEPT ![s] = "terminating"]
             /\ SetDrain(s, NoDrain) /\ reopened' = reopened \ {s}
    <2>1. /\ \A u \in Servers \ {s} : Alive(u)' = Alive(u) /\ SameRecord(u)
          /\ Alive(s)' = FALSE
      BY <1>1, <1>3 DEF Alive, SetDrain, Typed, SameRecord
    <2>2. /\ Invited' = Invited \ {s} /\ Players' = Players \ {s}
          /\ Reopened' = Reopened \ {s}
      BY <1>1, <1>3, <2>1 DEF Invited, Players, Reopened, Typed
    <2>3. Promise!Enter(s, "gone")
      <3>1. Phase'[s] = "gone" /\ Age'[s] = 0
        BY <2>1 DEF Phase, Age
      <3> QED
        BY <2>1, <3>1, OnePhaseChanges DEF Promise!Enter
    <2>4. CASE ~Alive(s)
      <3>1. s \notin Invited /\ s \notin Players /\ s \notin Reopened
        BY <2>4 DEF Invited, Players, Reopened
      <3>2. Phase' = Phase /\ Age' = Age
        <4>1. \A u \in Servers : Alive(u)' = Alive(u)
          BY <1>3, <2>4 DEF Alive, Typed
        <4> QED
          BY <2>1, <2>4, <4>1, PhasesKept
      <3> QED
        BY <2>2, <3>1, <3>2 DEF View
    <2>5. CASE Alive(s)
      <3>1. drain[s].phase \in {"DECOMMISSION", "FORCED"}
        BY <1>1, FleetDrainAssumption DEF DrainInv, RecordInv, DeletesReady
      <3>2. /\ Drains(s) /\ Age[s] = drain[s].entered
            /\ Phase[s] = IF drain[s].recovered THEN "resumed" ELSE "leaving"
        BY <2>5, <3>1 DEF Phase, Age, Drains
      <3>3. CASE drain[s].phase = "FORCED"
        <4>1. ForceTime > 0 /\ (drain[s].recovered \/ drain[s].entered > ForceTime)
          BY <3>3 DEF DrainInv, RecordInv, ReadyLate, Overdue
        <4>2. Promise!Force(s)
          BY <2>2, <2>3, <3>2, <4>1 DEF Promise!Force, Promise!Leave
        <4> QED
          BY <4>2 DEF Promise!Next
      <3>4. CASE drain[s].phase = "DECOMMISSION"
        <4>1. drain[s].entered >= Timeout
          BY <3>4 DEF DrainInv, RecordInv, ReadyLate
        <4>2. drain[s].entered > 0
          <5>1. drain[s].entered \in 0 .. MaxAge
            BY DEF Typed, ServerStates
          <5> QED
            BY <4>1, <5>1, MaxAgeIs DEF Alone
        <4>3. Promise!Decommission(s)
          <5>1. Promise!Drains(s) /\ Age[s] >= Timeout
            BY <3>2, <4>1 DEF Promise!Drains
          <5>2. s \notin Players \cup Invited \/ s \in Reopened
            <6>1. Undisturbed(s) => s \notin Players \cup Invited
              BY <3>4, <4>2 DEF KeptInv, NoneJoins, EmptyWhenReady, Players, Invited
            <6> QED
              BY <2>5, <3>2, <6>1 DEF Undisturbed, Reopened
          <5> QED
            BY <2>2, <2>3, <5>1, <5>2 DEF Promise!Decommission, Promise!Leave
        <4> QED
          BY <4>3 DEF Promise!Next
      <3> QED
        BY <3>1, <3>3, <3>4
    <2> QED
      BY <2>4, <2>5
  <1> QED
    BY <1>2, <1>3 DEF DeletePod

\* The fleet keeps the promise of GracefulDrain, for a controller that allocates alone,
\* reads its own writes and labels the servers that it drains, with a minimum drain time:
\* whatever restarts, races and fails, a failing allocation and its rollback included.
THEOREM DrainsGracefully ==
    ASSUME Alone
    PROVE  Spec => DrainsAsPromised
  <1>1. Init => Inv /\ PickedServe
    <2>1. Init => PickedServe
      BY WorkersAre, RestingIs DEF Init, PickedServe
    <2> QED
      BY <2>1, TypedInit, DrainInvInit, KeptInvInit DEF Inv
  <1>2. Inv /\ PickedServe /\ [Next]_vars => (Inv /\ PickedServe)'
    <2>1. Inv /\ PickedServe /\ UNCHANGED vars => PickedServe'
      BY DEF vars, podVars, historyVars, PickedServe, Undisturbed, Drains, Alive
    <2> QED
      BY <2>1, TypedStep, DrainInvStep, KeptInvStep, PickedServeStep DEF Inv
  <1>3. Init => Promise!Init
    <2> SUFFICES ASSUME Init PROVE Promise!Init
      OBVIOUS
    <2>1. /\ \A s \in Servers : Alive(s) /\ drain[s].phase = "none"
          /\ joining = {} /\ playing = {} /\ cordoned = {} /\ reopened = {}
      BY NoDrainIs DEF Init, Alive
    <2> QED
      BY <2>1 DEF Promise!Init, Phase, Age, Invited, Players, Reopened
  <1>4. Inv /\ PickedServe /\ [Next]_vars => [Promise!Next]_(Promise!vars)
    <2> SUFFICES ASSUME Inv, PickedServe, [Next]_vars
                 PROVE  Promise!Next \/ UNCHANGED View
      BY DEF View, Promise!vars
    <2>1. CASE UNCHANGED vars
      BY <2>1 DEF vars, podVars, View, Phase, Age, Invited, Players, Reopened, Alive,
                  requestVars, historyVars
    <2>2. CASE Next
      BY <2>2, StepsOfNext, PromiseAround, PromisePick, PromiseAlloc, PromiseTick,
         PromiseCrash, PromiseDrain, PromiseStutters, PromiseDelete
    <2> QED
      BY <2>1, <2>2
  <1> QED
    BY <1>1, <1>2, <1>3, <1>4, PTL DEF Spec, DrainsAsPromised, Promise!Spec
==============================================================================
