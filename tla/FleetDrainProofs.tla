-------------------------- MODULE FleetDrainProofs ---------------------------
(***************************************************************************)
(* Theorems about FleetDrain for every set of servers, any configuration,   *)
(* either process, any second fleet and any number of failures and          *)
(* restarts.                                                                *)
(***************************************************************************)
EXTENDS FleetDrain, PoolStateProofs

Reconciles == [pc : {"rest", "sync", "scale", "picked", "drain", "ready", "advance"},
               todo : SUBSET Servers, cur : Servers \cup {None},
               snap : [Servers -> Labels]]

\* Whoever reads that a server drains reads of a drain that was begun.
LabelsCordoned ==
    \A s \in Servers :
        \/ label[s] = "draining" \/ cached[s] = "draining"
        \/ \E w \in Workers : rec[w].snap[s] = "draining"
        => s \in cordoned

\* A record is of a drain that was begun, and not older than that drain.
RecordsCordoned == \A s \in Servers : drain[s].phase # "none" => s \in cordoned
RecordsYounger ==
    \A s \in Servers : drain[s].phase # "none" /\ Alive(s) => drain[s].entered <= since[s]

\* A record is ready only after the minimum wait, forced only past a deadline.
ReadyLate ==
    \A s \in Servers :
        /\ drain[s].phase = "DECOMMISSION" => drain[s].entered >= Timeout
        /\ drain[s].phase = "FORCED" => Overdue(drain[s])

\* One Reconcile at a time is in the map, and it deletes what is ready.
Holds(w) == rec[w].pc \in {"drain", "advance"}
OneHolder == \A v, w \in Workers : Holds(v) /\ Holds(w) => v = w
DeletesReady ==
    \A w \in Workers : rec[w].pc = "advance" /\ rec[w].cur # None
        => drain[rec[w].cur].phase \in {"DECOMMISSION", "FORCED"}

\* Without a restart the record of a server that still runs is never lost or rebuilt.
RecordsKept ==
    crashes = 0 => \A s \in cordoned :
        Alive(s) => drain[s].phase # "none" /\ ~drain[s].recovered

RecordInv ==
    /\ RecordsCordoned /\ RecordsYounger /\ ReadyLate /\ DeletesReady /\ RecordsKept

DrainInv == LabelsCordoned /\ OneHolder /\ RecordInv

------------------------------------------------------------------------------
\* Records.
LEMMA MaxAgeIs ==
    /\ MaxAge \in Nat /\ Timeout \in Nat /\ Interval \in Nat /\ ForceTime \in Nat
    /\ Timeout <= MaxAge /\ ForceTime < MaxAge
  BY DrainConfigAssumption DEF MaxAge

LEMMA NoDrainIs ==
    /\ NoDrain \in ServerStates /\ NoDrain.phase = "none"
    /\ NoDrain.entered = 0 /\ NoDrain.checked = 0
    /\ NoDrain.recovered = FALSE /\ NoDrain.reachable = FALSE
  BY MaxAgeIs DEF NoDrain, ServerStates, DrainPhases

LEMMA DrainStartedIs ==
    ASSUME NEW r \in BOOLEAN
    PROVE  /\ DrainStarted(r) \in ServerStates /\ DrainStarted(r).phase = "CORDON"
           /\ DrainStarted(r).entered = 0 /\ DrainStarted(r).recovered = FALSE
  <1>0. DrainStarted(r) = [NoDrain EXCEPT !.phase = "CORDON", !.reachable = r]
    BY DEF DrainStarted
  <1>1. DrainStarted(r) = [phase |-> "CORDON", entered |-> 0, checked |-> 0,
                           recovered |-> FALSE, reachable |-> r]
    BY <1>0, NoDrainIs DEF ServerStates
  <1> QED
    BY <1>1, MaxAgeIs DEF ServerStates, DrainPhases

LEMMA DrainRecoveredIs ==
    /\ DrainRecovered \in ServerStates
    /\ DrainRecovered.phase = "DRAIN" /\ DrainRecovered.entered = 0
  <1>0. DrainRecovered = [NoDrain EXCEPT !.phase = "DRAIN", !.recovered = TRUE,
                                         !.reachable = TRUE]
    BY DEF DrainRecovered
  <1>1. DrainRecovered = [phase |-> "DRAIN", entered |-> 0, checked |-> 0,
                          recovered |-> TRUE, reachable |-> TRUE]
    BY <1>0, NoDrainIs DEF ServerStates
  <1> QED
    BY <1>1, MaxAgeIs DEF ServerStates, DrainPhases

LEMMA CordonDoneIs ==
    ASSUME NEW d \in ServerStates
    PROVE  /\ CordonDone(d) \in ServerStates /\ CordonDone(d).phase = "DRAIN"
           /\ CordonDone(d).entered = d.entered /\ CordonDone(d).recovered = d.recovered
  <1>0. CordonDone(d) = [d EXCEPT !.phase = "DRAIN", !.checked = 0]
    BY DEF CordonDone
  <1>1. CordonDone(d) = [phase |-> "DRAIN", entered |-> d.entered, checked |-> 0,
                         recovered |-> d.recovered, reachable |-> d.reachable]
    BY <1>0 DEF ServerStates
  <1> QED
    BY <1>1, MaxAgeIs DEF ServerStates, DrainPhases

LEMMA ForcedIs ==
    ASSUME NEW d \in ServerStates
    PROVE  /\ Forced(d) \in ServerStates /\ Forced(d).phase = "FORCED"
           /\ Forced(d).entered = d.entered /\ Forced(d).recovered = d.recovered
  BY DEF Forced, ServerStates, DrainPhases

LEMMA AnsweredIs ==
    ASSUME NEW d \in ServerStates, NEW active \in BOOLEAN
    PROVE  /\ Answered(d, active) \in ServerStates
           /\ Answered(d, active).phase \in {"DRAIN", "DECOMMISSION"}
           /\ Answered(d, active).phase = "DECOMMISSION" => d.entered >= Timeout /\ ~active
           /\ Answered(d, active).entered = d.entered
           /\ Answered(d, active).recovered = d.recovered
  <1> DEFINE next == IF ~active /\ d.entered >= Timeout THEN "DECOMMISSION" ELSE "DRAIN"
  <1>1. /\ next \in {"DRAIN", "DECOMMISSION"}
        /\ next = "DECOMMISSION" => d.entered >= Timeout /\ ~active
    OBVIOUS
  <1>2. Answered(d, active) = [d EXCEPT !.checked = 0, !.phase = next]
    BY DEF Answered
  <1> HIDE DEF next
  <1>3. Answered(d, active) = [phase |-> next, entered |-> d.entered, checked |-> 0,
                               recovered |-> d.recovered, reachable |-> d.reachable]
    BY <1>2 DEF ServerStates
  <1> QED
    BY <1>1, <1>3, MaxAgeIs DEF ServerStates, DrainPhases

\* An age grows by a tick until it is no longer counted.
LEMMA OlderIs ==
    ASSUME NEW d \in ServerStates
    PROVE  /\ Older(d) \in ServerStates
           /\ Older(d).phase = d.phase /\ Older(d).recovered = d.recovered
           /\ d.phase = "none" => Older(d) = d
           /\ d.phase # "none" => Older(d).entered = IF d.entered < MaxAge THEN d.entered + 1
                                                                          ELSE d.entered
  <1> DEFINE later(age, max) == IF age < max THEN age + 1 ELSE age
  <1>1. \A max \in Nat : \A age \in 0 .. max : later(age, max) \in 0 .. max
    OBVIOUS
  <1>2. CASE d.phase = "none"
    BY <1>2 DEF Older
  <1>3. CASE d.phase # "none"
    <2>1. Older(d) = [d EXCEPT !.entered = later(@, MaxAge), !.checked = later(@, Interval)]
      BY <1>3 DEF Older
    <2>2. d.entered \in 0 .. MaxAge /\ d.checked \in 0 .. Interval
      BY DEF ServerStates
    <2>3. later(d.entered, MaxAge) \in 0 .. MaxAge /\ later(d.checked, Interval) \in 0 .. Interval
      BY <1>1, <2>2, MaxAgeIs
    <2> HIDE DEF later
    <2>4. /\ Older(d) \in ServerStates
          /\ Older(d).phase = d.phase /\ Older(d).recovered = d.recovered
          /\ Older(d).entered = later(d.entered, MaxAge)
      BY <2>1, <2>3 DEF ServerStates
    <2> QED
      BY <1>3, <2>4 DEF later
  <1> QED
    BY <1>2, <1>3

------------------------------------------------------------------------------
\* Reconciles.
\* TypeOK with the names that the lemmas use.
Typed ==
    /\ pod \in [Servers -> PodPhases]
    /\ label \in [Servers -> Labels] /\ cached \in [Servers -> Labels]
    /\ playing \in SUBSET Servers
    /\ IsPool(Servers, pool) /\ rested \in SUBSET Servers
    /\ IsPool(Servers, apiPool) /\ joining \in SUBSET Allocations
    /\ rec \in [Workers -> Reconciles]
    /\ drain \in [Servers -> ServerStates]
    /\ cordoned \in SUBSET Servers /\ since \in [Servers -> 0 .. MaxAge]
    /\ reopened \in SUBSET Servers
    /\ faults \in 0 .. MaxFaults /\ crashes \in 0 .. MaxCrashes

LEMMA TypedIs == (TypeOK <=> Typed) /\ (TypeOK' <=> Typed')
  BY DEF TypeOK, Typed, IsPool, Reconciles

LEMMA WorkersAre == "own" \in Workers /\ \A w \in Workers : w = "own" \/ w = "other"
  BY DEF Workers

LEMMA RestingIs ==
    /\ Resting \in Reconciles /\ Resting.pc = "rest" /\ Resting.cur = None
    /\ Resting.todo = {} /\ Resting.snap \in [Servers -> Labels]
    /\ \A s \in Servers : Resting.snap[s] = "warm"
  BY DEF Resting, Reconciles, Labels

LEMMA RestingBut ==
    ASSUME NEW p, NEW T, NEW c, NEW r,
           \/ r = [Resting EXCEPT !.pc = p, !.todo = T] /\ c = Resting.snap
           \/ r = [Resting EXCEPT !.pc = p, !.todo = T, !.snap = c]
           \/ r = [Resting EXCEPT !.pc = p] /\ T = {} /\ c = Resting.snap
    PROVE  r = [pc |-> p, todo |-> T, cur |-> None, snap |-> c]
  <1>1. CASE r = [Resting EXCEPT !.pc = p, !.todo = T] /\ c = Resting.snap
    BY <1>1, RestingIs DEF Reconciles
  <1>2. CASE r = [Resting EXCEPT !.pc = p, !.todo = T, !.snap = c]
    BY <1>2, RestingIs DEF Reconciles
  <1>3. CASE r = [Resting EXCEPT !.pc = p] /\ T = {} /\ c = Resting.snap
    BY <1>3, RestingIs DEF Reconciles
  <1> QED
    BY <1>1, <1>2, <1>3

LEMMA GoesTo ==
    ASSUME rec \in [Workers -> Reconciles], NEW w \in Workers, NEW r \in Reconciles,
           Goes(w, r)
    PROVE  /\ rec' \in [Workers -> Reconciles]
           /\ rec'[w] = r
           /\ \A v \in Workers \ {w} : rec'[v] = rec[v]
  BY DEF Goes

LEMMA FaultIs ==
    ASSUME faults \in 0 .. MaxFaults, NEW call, Fault(call) \/ NoFault
    PROVE  faults' \in 0 .. MaxFaults
  BY FleetDrainAssumption DEF Fault, NoFault

LEMMA FinishedIs ==
    ASSUME rec \in [Workers -> Reconciles], NEW w \in Workers, NEW s \in Servers,
           Finished(w, s)
    PROVE  /\ rec' \in [Workers -> Reconciles]
           /\ rec'[w].pc \in {"rest", rec[w].pc} /\ rec'[w].cur = None
           /\ rec'[w].snap \in {rec[w].snap, Resting.snap}
           /\ \A v \in Workers \ {w} : rec'[v] = rec[v]
  <1> DEFINE next == [rec[w] EXCEPT !.cur = None, !.todo = @ \ {s}]
  <1>1. rec[w] \in Reconciles
    OBVIOUS
  <1>2. /\ next \in Reconciles /\ next.pc = rec[w].pc
        /\ next.cur = None /\ next.snap = rec[w].snap
    BY <1>1 DEF Reconciles
  <1> HIDE DEF next
  <1>3. Goes(w, Resting) \/ Goes(w, next)
    BY DEF Finished, next
  <1> QED
    BY <1>2, <1>3, GoesTo, RestingIs

LEMMA PatchLabelIs ==
    ASSUME label \in [Servers -> Labels], cached \in [Servers -> Labels],
           NEW s \in Servers, NEW base, NEW phase \in Labels, PatchLabel(s, base, phase)
    PROVE  /\ label' \in [Servers -> Labels] /\ cached' \in [Servers -> Labels]
           /\ \A u \in Servers \ {s} : label'[u] = label[u] /\ cached'[u] = cached[u]
           /\ label'[s] \in {label[s], phase}
           /\ cached'[s] \in {cached[s], label[s], phase}
  BY DEF PatchLabel

\* The Reconcile of w goes on at one of the points next, with one of the records at.
Moves(w, next, at) ==
    /\ rec' \in [Workers -> Reconciles]
    /\ \A v \in Workers \ {w} : rec'[v] = rec[v]
    /\ rec'[w].pc \in next /\ rec'[w].cur \in at
    /\ rec'[w].snap \in {cached, rec[w].snap, Resting.snap}

LEMMA BeginSyncMoves == Typed /\ BeginSync => Moves("own", {"sync", "scale"}, {None})
  <1> SUFFICES ASSUME Typed, BeginSync PROVE Moves("own", {"sync", "scale"}, {None})
    OBVIOUS
  <1> DEFINE listed == {s \in Servers : pod[s] \in {"running", "terminating"}}
  <1>1. listed \in SUBSET Servers /\ cached \in [Servers -> Labels]
    BY DEF Typed
  <1>2. PICK next :
            /\ Goes("own", next)
            /\ \/ next = [Resting EXCEPT !.pc = "sync", !.todo = listed, !.snap = cached]
               \/ next = [Resting EXCEPT !.pc = "scale"]
    BY DEF BeginSync
  <1> HIDE DEF listed
  <1>3. CASE next = [Resting EXCEPT !.pc = "sync", !.todo = listed, !.snap = cached]
    <2>1. /\ next \in Reconciles
          /\ next.pc = "sync" /\ next.cur = None /\ next.snap = cached
      BY <1>1, <1>3, RestingIs DEF Reconciles
    <2> QED
      BY <1>2, <2>1, GoesTo, WorkersAre DEF Typed, Moves
  <1>4. CASE next = [Resting EXCEPT !.pc = "scale"]
    <2>1. /\ next \in Reconciles
          /\ next.pc = "scale" /\ next.cur = None /\ next.snap = Resting.snap
      BY <1>4, RestingIs DEF Reconciles
    <2> QED
      BY <1>2, <2>1, GoesTo, WorkersAre DEF Typed, Moves
  <1> QED
    BY <1>2, <1>3, <1>4

\* A sync works on the labels as the controller reads them when it begins.
LEMMA BeginSyncReads ==
    ASSUME Typed, BeginSync, rec'["own"].pc = "sync"
    PROVE  rec'["own"].snap = cached
  <1> DEFINE listed == {s \in Servers : pod[s] \in {"running", "terminating"}}
  <1>1. PICK next :
            /\ rec'["own"] = next
            /\ \/ next = [Resting EXCEPT !.pc = "sync", !.todo = listed, !.snap = cached]
               \/ next = [Resting EXCEPT !.pc = "scale"]
    BY WorkersAre DEF Typed, BeginSync, Goes
  <1> HIDE DEF listed
  <1>2. CASE next = [Resting EXCEPT !.pc = "sync", !.todo = listed, !.snap = cached]
    <2>1. next.snap = cached
      BY <1>2, RestingIs DEF Reconciles
    <2> QED
      BY <1>1, <2>1
  <1>3. CASE next = [Resting EXCEPT !.pc = "scale"]
    <2>1. next.pc = "scale"
      BY <1>3, RestingIs DEF Reconciles
    <2> QED
      BY <1>1, <2>1
  <1> QED
    BY <1>1, <1>2, <1>3

LEMMA SyncRegisterMoves ==
    ASSUME Typed, NEW s \in Servers, SyncRegister(s)
    PROVE  Moves("own", {"sync"}, Servers)
  <1> DEFINE r == [rec["own"] EXCEPT !.cur = s]
  <1>1. rec["own"] \in Reconciles /\ rec["own"].pc = "sync"
    BY WorkersAre DEF Typed, SyncRegister
  <1>2. r \in Reconciles /\ r.pc = "sync" /\ r.cur = s /\ r.snap = rec["own"].snap
    BY <1>1 DEF Reconciles
  <1>3. Goes("own", r)
    BY DEF SyncRegister
  <1> QED
    BY <1>2, <1>3, GoesTo, WorkersAre DEF Typed, Moves

LEMMA SyncMarkMoves == Typed /\ SyncMark => Moves("own", {"sync", "scale"}, {None})
  <1> SUFFICES ASSUME Typed, SyncMark PROVE Moves("own", {"sync", "scale"}, {None})
    OBVIOUS
  <1> DEFINE left == rec["own"].todo \ {rec["own"].cur}
  <1> DEFINE r == [rec["own"] EXCEPT !.cur = None, !.todo = left]
  <1> DEFINE q == [pc |-> "scale", todo |-> {}, cur |-> None, snap |-> Resting.snap]
  <1>1. rec["own"] \in Reconciles /\ rec["own"].pc = "sync"
    BY WorkersAre DEF Typed, SyncMark
  <1>2. r \in Reconciles /\ r.pc = "sync" /\ r.cur = None /\ r.snap = rec["own"].snap
    BY <1>1 DEF Reconciles
  <1>3. q \in Reconciles /\ q.pc = "scale" /\ q.cur = None /\ q.snap = Resting.snap
    BY RestingIs DEF Reconciles
  <1>4. [Resting EXCEPT !.pc = "scale"] = q
    BY RestingBut
  <1>5. Goes("own", r) \/ Goes("own", q)
    BY <1>4 DEF SyncMark
  <1> QED
    BY <1>2, <1>3, <1>5, GoesTo, WorkersAre DEF Typed, Moves

LEMMA ScaleDownMoves == Typed /\ ScaleDown => Moves("own", {"picked"}, {None})
  <1> SUFFICES ASSUME Typed, ScaleDown PROVE Moves("own", {"picked"}, {None})
    OBVIOUS
  <1>1. PICK idle \in (SUBSET (Candidates(pool) \cap rested)) \ {{}} :
            Goes("own", [Resting EXCEPT !.pc = "picked", !.todo = idle])
    BY DEF ScaleDown
  <1> DEFINE r == [pc |-> "picked", todo |-> idle, cur |-> None, snap |-> Resting.snap]
  <1>2. r \in Reconciles /\ r.pc = "picked" /\ r.cur = None /\ r.snap = Resting.snap
    BY RestingIs DEF Typed, Reconciles
  <1>3. [Resting EXCEPT !.pc = "picked", !.todo = idle] = r
    BY RestingBut
  <1> QED
    BY <1>1, <1>2, <1>3, GoesTo, WorkersAre DEF Typed, Moves

LEMMA LockDrainsMoves == Typed /\ LockDrains => Moves("own", {"drain"}, Servers \cup {None})
  <1> SUFFICES ASSUME Typed, LockDrains PROVE Moves("own", {"drain"}, Servers \cup {None})
    OBVIOUS
  <1> DEFINE r == [rec["own"] EXCEPT !.pc = "drain"]
  <1>1. r \in Reconciles /\ r.pc = "drain" /\ r.snap = rec["own"].snap
    BY WorkersAre DEF Typed, Reconciles
  <1>2. r.cur \in Servers \cup {None}
    BY <1>1 DEF Reconciles
  <1>3. Goes("own", r)
    BY DEF LockDrains
  <1> QED
    BY <1>1, <1>2, <1>3, GoesTo, WorkersAre DEF Typed, Moves

LEMMA StartDrainMoves ==
    ASSUME Typed, NEW s \in Servers, StartDrain(s)
    PROVE  Moves("own", {"ready", "drain"}, Servers \cup {None})
  <1> DEFINE left == rec["own"].todo \ {s}
  <1> DEFINE r == [rec["own"] EXCEPT !.todo = left]
  <1> DEFINE q == [pc |-> "ready", todo |-> {}, cur |-> None, snap |-> Resting.snap]
  <1>1. rec["own"] \in Reconciles /\ rec["own"].pc = "drain"
    BY WorkersAre DEF Typed, StartDrain
  <1>2. /\ r \in Reconciles /\ r.pc = "drain" /\ r.cur \in Servers \cup {None}
        /\ r.snap = rec["own"].snap
    BY <1>1 DEF Reconciles
  <1>3. q \in Reconciles /\ q.pc = "ready" /\ q.cur = None /\ q.snap = Resting.snap
    BY RestingIs DEF Reconciles
  <1>4. [Resting EXCEPT !.pc = "ready"] = q
    BY RestingBut
  <1>5. Goes("own", r) \/ Goes("own", q)
    BY <1>4 DEF StartDrain
  <1> HIDE DEF r, q
  <1>6. CASE Goes("own", r)
    BY <1>2, <1>6, GoesTo, WorkersAre DEF Typed, Moves
  <1>7. CASE Goes("own", q)
    BY <1>3, <1>7, GoesTo, WorkersAre DEF Typed, Moves
  <1> QED
    BY <1>5, <1>6, <1>7

LEMMA BeginAdvanceMoves ==
    ASSUME Typed, NEW w \in Workers, BeginAdvance(w)
    PROVE  Moves(w, {"rest", "advance"}, {None})
  <1> DEFINE r == [pc |-> "advance", todo |-> Due, cur |-> None, snap |-> Resting.snap]
  <1>1. r \in Reconciles /\ r.pc = "advance" /\ r.cur = None /\ r.snap = Resting.snap
    BY RestingIs DEF Reconciles, Due
  <1>2. [Resting EXCEPT !.pc = "advance", !.todo = Due] = r
    BY RestingBut
  <1>3. Goes(w, r) \/ Goes(w, Resting)
    BY <1>2 DEF BeginAdvance
  <1> QED
    BY <1>1, <1>3, GoesTo, RestingIs DEF Typed, Moves

LEMMA FinishedMoves ==
    ASSUME Typed, NEW w \in Workers, NEW s \in Servers, rec[w].pc = "advance", Finished(w, s)
    PROVE  Moves(w, {"rest", "advance"}, {None})
  BY FinishedIs DEF Typed, Moves

\* A record that is ready is deleted next.
LEMMA PicksMoves ==
    ASSUME Typed, NEW w \in Workers, NEW s \in Servers, rec[w].pc = "advance",
           Goes(w, [rec[w] EXCEPT !.cur = s])
    PROVE  Moves(w, {"advance"}, {s})
  <1> DEFINE r == [rec[w] EXCEPT !.cur = s]
  <1>1. r \in Reconciles /\ r.pc = "advance" /\ r.cur = s /\ r.snap = rec[w].snap
    BY DEF Typed, Reconciles
  <1> QED
    BY <1>1, GoesTo DEF Typed, Moves

------------------------------------------------------------------------------
\* Every action keeps the types.
LEMMA StepsOfNext ==
    ASSUME Next
    PROVE  \/ \E w \in Workers :
                 \/ BeginAdvance(w)
                 \/ \E s \in Servers : \/ Cordon(w, s) \/ ForceServer(w, s)
                                       \/ QueryServer(w, s) \/ DeletePod(w, s)
           \/ BeginSync \/ SyncMark \/ GiveUp \/ ScaleDown \/ LockDrains
           \/ \E s \in Servers :
                 \/ SyncRegister(s) \/ StartDrain(s)
                 \/ Deliver(s) \/ PodRuns(s) \/ PodGone(s)
                 \/ MatchEnds(s)
           \/ \E p \in Processes, s \in Servers : AllocPick(p, s)
           \/ \E a \in joining : AllocStep(a)
           \/ ApiSync \/ Tick \/ Crash
  BY DEF Next, Reconcile, Advance

LEMMA GiveUpMoves == Typed /\ GiveUp => Moves("own", {"rest"}, {None})
  BY GoesTo, RestingIs, WorkersAre DEF Typed, GiveUp, Moves

LEMMA TypedInit == Init => Typed
  <1> SUFFICES ASSUME Init PROVE Typed
    OBVIOUS
  <1>1. pod \in [Servers -> PodPhases] /\ label \in [Servers -> Labels]
        /\ cached \in [Servers -> Labels]
    BY DEF Init, PodPhases, Labels
  <1>2. IsPool(Servers, pool) /\ IsPool(Servers, apiPool)
    BY EmptyPoolIs DEF Init, IsPool, Pools, WellFormed
  <1>3. rec \in [Workers -> Reconciles] /\ drain \in [Servers -> ServerStates]
    BY RestingIs, NoDrainIs DEF Init
  <1>4. since \in [Servers -> 0 .. MaxAge] /\ faults \in 0 .. MaxFaults
        /\ crashes \in 0 .. MaxCrashes
    BY MaxAgeIs, FleetDrainAssumption DEF Init
  <1> QED
    BY <1>1, <1>2, <1>3, <1>4 DEF Init, Typed

LEMMA TypedAround ==
    ASSUME Typed,
           \/ ApiSync
           \/ \E s \in Servers : Deliver(s) \/ PodRuns(s) \/ PodGone(s) \/ MatchEnds(s)
    PROVE  Typed'
  <1>1. ASSUME NEW s \in Servers, Deliver(s) PROVE Typed'
    BY <1>1 DEF Typed, Deliver, poolVars, requestVars, historyVars
  <1>2. ASSUME NEW s \in Servers, PodRuns(s) PROVE Typed'
    BY <1>2 DEF Typed, PodRuns, poolVars, requestVars, historyVars, PodPhases
  <1>3. ASSUME NEW s \in Servers, PodGone(s) PROVE Typed'
    BY <1>3 DEF Typed, PodGone, poolVars, requestVars, historyVars, PodPhases
  <1>4. ASSUME NEW s \in Servers, MatchEnds(s) PROVE Typed'
    <2>1. label' \in [Servers -> Labels] /\ cached' \in [Servers -> Labels]
      BY <1>4, PatchLabelIs DEF Typed, MatchEnds, Labels
    <2>2. IsPool(Servers, apiPool')
      BY <1>4, ReleasedIs DEF Typed, MatchEnds
    <2>3. faults' \in 0 .. MaxFaults
      BY <1>4, FaultIs DEF Typed, MatchEnds
    <2> QED
      BY <1>4, <2>1, <2>2, <2>3 DEF Typed, MatchEnds, poolVars, historyVars
  <1>5. CASE ApiSync
    <2>1. IsPool(Servers, apiPool')
      BY <1>5 DEF Typed, ApiSync, IsPool, Pools, WellFormed
    <2> QED
      BY <1>5, <2>1 DEF Typed, ApiSync, podVars, poolVars, historyVars
  <1> QED
    BY <1>1, <1>2, <1>3, <1>4, <1>5

LEMMA TypedTick == Typed /\ Tick => Typed'
  <1> SUFFICES ASSUME Typed, Tick PROVE Typed'
    OBVIOUS
  <1>1. drain' \in [Servers -> ServerStates]
    BY OlderIs DEF Typed, Tick
  <1>2. since' \in [Servers -> 0 .. MaxAge]
    BY MaxAgeIs DEF Typed, Tick
  <1>3. rested' \in SUBSET Servers
    BY DEF Typed, Tick, IsPool, Pools
  <1> QED
    BY <1>1, <1>2, <1>3 DEF Typed, Tick, podVars, requestVars

LEMMA TypedCrash == Typed /\ Crash => Typed'
  <1> SUFFICES ASSUME Typed, Crash PROVE Typed'
    OBVIOUS
  <1>1. /\ drain' \in [Servers -> ServerStates] /\ rec' \in [Workers -> Reconciles]
        /\ IsPool(Servers, pool')
    BY NoDrainIs, RestingIs, EmptyPoolIs DEF Crash
  <1>2. crashes' \in 0 .. MaxCrashes
    BY FleetDrainAssumption DEF Typed, Crash
  <1> QED
    BY <1>1, <1>2 DEF Typed, Crash, historyVars

LEMMA PoolsTyped ==
    ASSUME Typed, NEW p \in Processes, NEW s \in Servers, NEW q, IsPool(Servers, q),
           SetPool(p, s, q)
    PROVE  /\ IsPool(Servers, pool') /\ IsPool(Servers, apiPool')
           /\ rested' \in SUBSET Servers
  BY DEF Typed, SetPool, poolVars

LEMMA PoolOfIs == ASSUME Typed, NEW p PROVE IsPool(Servers, PoolOf(p))
  BY DEF Typed, PoolOf

LEMMA AllocPickTyped ==
    ASSUME Typed, NEW p \in Processes, NEW s \in Servers, AllocPick(p, s)
    PROVE  Typed'
  <1>1. IsPool(Servers, SetAllocated(PoolOf(p), s))
    BY PoolOfIs, SetAllocatedIs DEF AllocPick, Candidates
  <1>2. /\ IsPool(Servers, pool') /\ IsPool(Servers, apiPool')
        /\ rested' \in SUBSET Servers
    BY <1>1, PoolsTyped DEF AllocPick
  <1>3. joining' \in SUBSET Allocations
    BY DEF Typed, AllocPick, Allocations, Labels
  <1> QED
    BY <1>2, <1>3 DEF Typed, AllocPick, podVars, historyVars

\* An allocation goes on with the pod it picked, or ends.
LEMMA AllocRecord ==
    ASSUME Typed, NEW a \in joining
    PROVE  /\ a.server \in Servers /\ a.proc \in Processes /\ a \in Allocations
           /\ \A b \in Labels : [a EXCEPT !.pc = "status", !.base = b] \in Allocations
           /\ [a EXCEPT !.pc = "undo"] \in Allocations
           /\ \A b \in Labels : /\ [a EXCEPT !.pc = "status", !.base = b].server = a.server
                                /\ [a EXCEPT !.pc = "status", !.base = b].proc = a.proc
           /\ [a EXCEPT !.pc = "undo"].server = a.server
           /\ [a EXCEPT !.pc = "undo"].proc = a.proc
  BY DEF Typed, Allocations

\* What each step of an allocation leaves alone, and what it may write.
LEMMA AllocWrites ==
    ASSUME Typed, NEW a \in joining, AllocStep(a)
    PROVE  /\ UNCHANGED <<pod, rec, drain, cordoned, since, crashes>>
           /\ \/ UNCHANGED <<label, cached>>
              \/ \E base : PatchLabel(a.server, base, "allocated")
              \/ PatchLabel(a.server, a.base, "warm")
           /\ playing' \in {playing, Joined(a.server)}
           /\ \/ UNCHANGED <<poolVars, apiPool>>
              \/ SetPool(a.proc, a.server, Released(PoolOf(a.proc), a.server))
           /\ reopened' \in {reopened, reopened \cup {a.server}}
           /\ NoFault \/ Fault("assign")
  BY DEF AllocStep, AllocLabel, AllocStatus, AllocUndo, historyVars

LEMMA AllocGoesOn ==
    ASSUME Typed, NEW a \in joining, AllocStep(a)
    PROVE  \/ joining' = joining \ {a}
           \/ \E b \in Allocations :
                 /\ b.server = a.server /\ b.proc = a.proc
                 /\ joining' = (joining \ {a}) \cup {b}
  <1>1. CASE AllocLabel(a)
    <2>1. label' \in [Servers -> Labels]
      BY <1>1, AllocRecord, PatchLabelIs DEF Typed, AllocLabel, Labels
    <2> QED
      BY <1>1, <2>1, AllocRecord DEF AllocLabel
  <1>2. CASE AllocStatus(a) \/ AllocUndo(a)
    BY <1>2, AllocRecord DEF AllocStatus, AllocUndo
  <1> QED
    BY <1>1, <1>2 DEF AllocStep

LEMMA AllocStepTyped ==
    ASSUME Typed, NEW a \in joining, AllocStep(a)
    PROVE  Typed'
  <1>1. label' \in [Servers -> Labels] /\ cached' \in [Servers -> Labels]
    BY AllocWrites, AllocRecord, PatchLabelIs DEF Typed, Labels
  <1>2. /\ IsPool(Servers, pool') /\ IsPool(Servers, apiPool')
        /\ rested' \in SUBSET Servers
    <2>1. IsPool(Servers, Released(PoolOf(a.proc), a.server))
      BY PoolOfIs, AllocRecord, ReleasedIs
    <2>2. CASE UNCHANGED <<poolVars, apiPool>>
      BY <2>2 DEF Typed, poolVars
    <2> QED
      BY <2>1, <2>2, PoolsTyped, AllocWrites, AllocRecord
  <1>3. joining' \in SUBSET Allocations
    BY AllocGoesOn DEF Typed
  <1>4. playing' \in SUBSET Servers /\ reopened' \in SUBSET Servers
    <2>1. a.server \in Servers
      BY AllocRecord
    <2>2. playing' \in {playing, Joined(a.server)} /\ reopened' \in {reopened, reopened \cup {a.server}}
      BY AllocWrites
    <2>3. Joined(a.server) \in {playing, playing \cup {a.server}}
      BY DEF Joined
    <2> QED
      BY <2>1, <2>2, <2>3 DEF Typed
  <1>5. faults' \in 0 .. MaxFaults
    BY AllocWrites, FaultIs DEF Typed
  <1> QED
    BY <1>1, <1>2, <1>3, <1>4, <1>5, AllocWrites DEF Typed

LEMMA TypedSync ==
    ASSUME Typed,
           \/ BeginSync \/ SyncMark \/ GiveUp \/ ScaleDown \/ LockDrains
           \/ \E s \in Servers : SyncRegister(s)
    PROVE  Typed'
  <1>1. CASE BeginSync
    <2>1. faults' \in 0 .. MaxFaults
      BY <1>1, FaultIs DEF Typed, BeginSync
    <2> QED
      BY <1>1, <2>1, BeginSyncMoves DEF Typed, Moves, BeginSync, podVars, poolVars, requestVars, historyVars
  <1>2. CASE SyncMark
    <2> DEFINE s == rec["own"].cur
    <2>1. s \in Servers
      BY <1>2, WorkersAre DEF Typed, SyncMark, Reconciles
    <2>2. drain' \in [Servers -> ServerStates]
      BY <1>2, <2>1, DrainRecoveredIs DEF Typed, SyncMark, Recovered
    <2>3. IsPool(Servers, SetAllocated(pool, s))
      BY <2>1, SetAllocatedIs DEF Typed, SetAllocated
    <2>4. IsPool(Servers, pool') /\ rested' \in SUBSET Servers
      BY <1>2, <2>1, <2>3, MadeUnhealthyIs, MadeAvailableIs DEF Typed, SyncMark
    <2> QED
      BY <1>2, <2>2, <2>4, SyncMarkMoves DEF Typed, Moves, SyncMark, podVars, requestVars, historyVars
  <1>3. CASE GiveUp
    <2>1. faults' \in 0 .. MaxFaults
      BY <1>3, FaultIs DEF Typed, GiveUp
    <2> QED
      BY <1>3, <2>1, GiveUpMoves DEF Typed, Moves, GiveUp, podVars, poolVars, requestVars, historyVars
  <1>4. CASE ScaleDown
    BY <1>4, ScaleDownMoves DEF Typed, Moves, ScaleDown, podVars, poolVars, requestVars, historyVars
  <1>5. CASE LockDrains
    BY <1>5, LockDrainsMoves DEF Typed, Moves, LockDrains, podVars, poolVars, requestVars, historyVars
  <1>6. CASE \E s \in Servers : SyncRegister(s)
    <2>1. PICK s \in Servers : SyncRegister(s)
      BY <1>6
    <2>2. IsPool(Servers, pool')
      BY <2>1, RegisteredIs DEF Typed, SyncRegister
    <2> QED
      BY <2>1, <2>2, SyncRegisterMoves DEF Typed, Moves, SyncRegister, podVars, requestVars, historyVars
  <1> QED
    BY <1>1, <1>2, <1>3, <1>4, <1>5, <1>6

LEMMA StartDrainRecord ==
    ASSUME NEW s \in Servers, StartDrain(s)
    PROVE  \E reachable \in BOOLEAN : drain' = [drain EXCEPT ![s] = DrainStarted(reachable)]
  <1> DEFINE runs == pod[s] \in {"running", "terminating"}
  <1>1. PICK reachable \in {runs, FALSE} : drain' = [drain EXCEPT ![s] = DrainStarted(reachable)]
    BY DEF StartDrain
  <1>2. runs \in BOOLEAN
    OBVIOUS
  <1> HIDE DEF runs
  <1> QED
    BY <1>1, <1>2

LEMMA TypedStartDrain ==
    ASSUME Typed, NEW s \in Servers, StartDrain(s)
    PROVE  Typed'
  <1>1. faults' \in 0 .. MaxFaults
    BY FaultIs DEF Typed, StartDrain
  <1>2. label' \in [Servers -> Labels] /\ cached' \in [Servers -> Labels]
    BY PatchLabelIs DEF Typed, StartDrain, Labels
  <1>3. IsPool(Servers, pool')
    BY MadeUnhealthyIs DEF Typed, StartDrain
  <1>4. drain' \in [Servers -> ServerStates]
    <2>1. PICK reachable \in BOOLEAN : drain' = [drain EXCEPT ![s] = DrainStarted(reachable)]
      BY StartDrainRecord
    <2> QED
      BY <2>1, DrainStartedIs DEF Typed
  <1> QED
    BY <1>1, <1>2, <1>3, <1>4, StartDrainMoves DEF Typed, Moves, StartDrain, requestVars

LEMMA TypedAdvance ==
    ASSUME Typed, NEW w \in Workers,
           \/ BeginAdvance(w)
           \/ \E s \in Servers : \/ Cordon(w, s) \/ ForceServer(w, s)
                                 \/ QueryServer(w, s) \/ DeletePod(w, s)
    PROVE  Typed'
  <1>1. CASE BeginAdvance(w)
    BY <1>1, BeginAdvanceMoves DEF Typed, Moves, BeginAdvance, podVars, poolVars, requestVars, historyVars
  <1>2. ASSUME NEW s \in Servers, Cordon(w, s) PROVE Typed'
    <2>1. drain' \in [Servers -> ServerStates]
      BY <1>2, CordonDoneIs DEF Typed, Cordon, SetDrain
    <2> QED
      BY <1>2, <2>1, FinishedIs DEF Typed, Cordon, podVars, poolVars, requestVars, historyVars
  <1>3. ASSUME NEW s \in Servers, ForceServer(w, s) PROVE Typed'
    <2>1. drain' \in [Servers -> ServerStates]
      BY <1>3, ForcedIs DEF Typed, ForceServer, SetDrain
    <2> QED
      BY <1>3, <2>1, PicksMoves
        DEF Typed, Moves, ForceServer, Turn, podVars, poolVars, requestVars, historyVars
  <1>4. ASSUME NEW s \in Servers, QueryServer(w, s) PROVE Typed'
    <2>1. drain' \in [Servers -> ServerStates]
      <3> DEFINE active == s \in playing
      <3>1. /\ active \in BOOLEAN
            /\ drain' = drain \/ drain' = [drain EXCEPT ![s] = Answered(drain[s], active)]
        BY <1>4 DEF QueryServer, SetDrain
      <3> HIDE DEF active
      <3> QED
        BY <3>1, AnsweredIs DEF Typed
    <2>2. rec' \in [Workers -> Reconciles]
      BY <1>4, PicksMoves, FinishedIs DEF Typed, Moves, QueryServer, Turn
    <2>3. faults' \in 0 .. MaxFaults
      BY <1>4, FaultIs DEF Typed, QueryServer
    <2> QED
      BY <1>4, <2>1, <2>2, <2>3 DEF Typed, QueryServer, podVars, poolVars, requestVars, historyVars
  <1>5. ASSUME NEW s \in Servers, DeletePod(w, s) PROVE Typed'
    <2>1. drain' \in [Servers -> ServerStates]
      BY <1>5, NoDrainIs DEF Typed, DeletePod, SetDrain
    <2>2. rec' \in [Workers -> Reconciles] /\ faults' \in 0 .. MaxFaults
      BY <1>5, FinishedIs, FaultIs DEF Typed, DeletePod
    <2>3. IsPool(Servers, pool') /\ rested' \in SUBSET Servers
      BY <1>5, RemovedIs DEF Typed, DeletePod, poolVars
    <2>4. pod' \in [Servers -> PodPhases]
      BY <1>5 DEF Typed, DeletePod, PodPhases
    <2>5. since' \in [Servers -> 0 .. MaxAge] /\ reopened' \in SUBSET Servers
      BY <1>5, MaxAgeIs DEF Typed, DeletePod
    <2> QED
      BY <1>5, <2>1, <2>2, <2>3, <2>4, <2>5 DEF Typed, DeletePod, requestVars
  <1> QED
    BY <1>1, <1>2, <1>3, <1>4, <1>5

LEMMA TypedStep == Typed /\ [Next]_vars => Typed'
  <1> SUFFICES ASSUME Typed, [Next]_vars PROVE Typed'
    OBVIOUS
  <1>1. CASE Next
    BY <1>1, StepsOfNext, TypedAround, TypedTick, TypedCrash, AllocPickTyped,
       AllocStepTyped, TypedSync, TypedStartDrain, TypedAdvance
  <1>2. CASE UNCHANGED vars
    BY <1>2 DEF Typed, vars, podVars, poolVars, requestVars, historyVars
  <1> QED
    BY <1>1, <1>2

------------------------------------------------------------------------------
\* What every step does to labels, to snapshots and to the lock.
LEMMA LabelsStep ==
    ASSUME Typed, [Next]_vars
    PROVE  /\ cordoned \subseteq cordoned'
           /\ \A s \in Servers : label'[s] \in {label[s], "warm", "allocated"} \/ s \in cordoned'
           /\ \A s \in Servers :
                 cached'[s] \in {cached[s], label[s], "warm", "allocated"} \/ s \in cordoned'
  <1> DEFINE Written ==
        \A s \in Servers :
            /\ label'[s] \in {label[s], "warm", "allocated"} \/ s \in cordoned'
            /\ cached'[s] \in {cached[s], label[s], "warm", "allocated"} \/ s \in cordoned'
  <1>1. ASSUME NEW s \in Servers, Deliver(s) PROVE Written /\ cordoned' = cordoned
    BY <1>1 DEF Typed, Deliver, requestVars, historyVars
  <1>2. ASSUME NEW a \in joining, AllocStep(a) PROVE Written /\ cordoned' = cordoned
    <2>1. ASSUME NEW base, NEW phase \in {"warm", "allocated"},
                 PatchLabel(a.server, base, phase)
          PROVE  Written
      <3>1. a.server \in Servers /\ phase \in Labels
        BY AllocRecord DEF Labels
      <3>2. /\ \A u \in Servers \ {a.server} : label'[u] = label[u] /\ cached'[u] = cached[u]
            /\ label'[a.server] \in {label[a.server], phase}
            /\ cached'[a.server] \in {cached[a.server], label[a.server], phase}
        BY <2>1, <3>1, PatchLabelIs DEF Typed
      <3> QED
        BY <3>2
    <2>2. UNCHANGED <<label, cached>> => Written
      OBVIOUS
    <2> HIDE DEF Written
    <2>3. /\ cordoned' = cordoned
          /\ \/ UNCHANGED <<label, cached>>
             \/ \E base : PatchLabel(a.server, base, "allocated")
             \/ PatchLabel(a.server, a.base, "warm")
      BY <1>2, AllocWrites
    <2> QED
      BY <2>1, <2>2, <2>3
  <1>3. ASSUME NEW p \in Processes, NEW s \in Servers, AllocPick(p, s)
        PROVE  Written /\ cordoned' = cordoned
    BY <1>3 DEF AllocPick, podVars, historyVars
  <1>4. ASSUME NEW s \in Servers, MatchEnds(s) PROVE Written /\ cordoned' = cordoned
    BY <1>4, PatchLabelIs DEF Typed, MatchEnds, requestVars, historyVars, Labels
  <1>5. ASSUME NEW s \in Servers, StartDrain(s)
        PROVE  Written /\ cordoned' = cordoned \cup {s}
    <2>1. \A u \in Servers \ {s} : label'[u] = label[u] /\ cached'[u] = cached[u]
      BY <1>5, PatchLabelIs DEF Typed, StartDrain, Labels
    <2> QED
      BY <1>5, <2>1 DEF StartDrain
  <1>6. Crash => Written /\ cordoned' = cordoned
    BY DEF Crash, requestVars, historyVars
  <1>7. ASSUME NEW w \in Workers, NEW s \in Servers,
               \/ Cordon(w, s) \/ ForceServer(w, s) \/ QueryServer(w, s) \/ DeletePod(w, s)
               \/ SyncRegister(s) \/ PodRuns(s) \/ PodGone(s)
        PROVE  Written /\ cordoned' = cordoned
    BY <1>7 DEF Cordon, ForceServer, QueryServer, DeletePod, SyncRegister, PodRuns, PodGone,
                podVars, requestVars, historyVars
  <1>8. ASSUME \/ \E w \in Workers : BeginAdvance(w)
               \/ BeginSync \/ SyncMark \/ GiveUp \/ ScaleDown \/ LockDrains
               \/ ApiSync \/ Tick \/ UNCHANGED vars
        PROVE  Written /\ cordoned' = cordoned
    BY <1>8 DEF BeginAdvance, BeginSync, SyncMark, GiveUp, ScaleDown, LockDrains, ApiSync,
                Tick, vars, podVars, requestVars, historyVars
  <1> HIDE DEF Written
  <1>9. Written /\ cordoned \subseteq cordoned'
    BY <1>1, <1>2, <1>3, <1>4, <1>5, <1>6, <1>7, <1>8, StepsOfNext, WorkersAre
  <1> QED
    BY <1>9 DEF Written

\* A Reconcile takes the lock when no other has it.
LEMMA ReconcilesStep ==
    ASSUME Typed, [Next]_vars
    PROVE  /\ \A w \in Workers : rec'[w].snap \in {cached, rec[w].snap, Resting.snap}
           /\ \/ rec' = rec
              \/ \A w \in Workers : rec'[w] = Resting
              \/ \E w \in Workers :
                    /\ \A v \in Workers \ {w} : rec'[v] = rec[v]
                    /\ Holds(w)' => Holds(w) \/ MayLock(w)
  <1> DEFINE Taken(w) == Holds(w)' => Holds(w) \/ MayLock(w)
  <1> DEFINE Goal ==
        /\ \A w \in Workers : rec'[w].snap \in {cached, rec[w].snap, Resting.snap}
        /\ \/ rec' = rec
           \/ \A w \in Workers : rec'[w] = Resting
           \/ \E w \in Workers :
                 (\A v \in Workers \ {w} : rec'[v] = rec[v]) /\ Taken(w)
  <1>0. ASSUME NEW w \in Workers, NEW next, NEW at, Moves(w, next, at), Taken(w)
        PROVE  Goal
    BY <1>0 DEF Moves
  <1>1. ASSUME \/ BeginSync \/ SyncMark \/ GiveUp \/ ScaleDown \/ LockDrains
               \/ \E s \in Servers : SyncRegister(s) \/ StartDrain(s)
        PROVE  Goal
    <2> USE WorkersAre
    <2>1. CASE BeginSync
      BY <2>1, <1>0, BeginSyncMoves DEF Moves, Holds
    <2>2. CASE SyncMark
      BY <2>2, <1>0, SyncMarkMoves DEF Moves, Holds
    <2>3. CASE GiveUp
      BY <2>3, <1>0, GiveUpMoves DEF Moves, Holds
    <2>4. CASE ScaleDown
      BY <2>4, <1>0, ScaleDownMoves DEF Moves, Holds
    <2>5. CASE LockDrains
      <3>1. MayLock("own")
        BY <2>5 DEF LockDrains
      <3> QED
        BY <2>5, <3>1, <1>0, LockDrainsMoves
    <2>6. ASSUME NEW s \in Servers, SyncRegister(s) PROVE Goal
      BY <2>6, <1>0, SyncRegisterMoves DEF Moves, Holds
    <2>7. ASSUME NEW s \in Servers, StartDrain(s) PROVE Goal
      <3>1. Holds("own")
        BY <2>7 DEF StartDrain, Holds
      <3> QED
        BY <2>7, <3>1, <1>0, StartDrainMoves
    <2> HIDE DEF Goal
    <2> QED
      BY <1>1, <2>1, <2>2, <2>3, <2>4, <2>5, <2>6, <2>7
  <1>2. ASSUME NEW w \in Workers, BeginAdvance(w) PROVE Goal
    <2>1. MayLock(w)
      BY <1>2 DEF BeginAdvance
    <2> QED
      BY <1>2, <2>1, <1>0, BeginAdvanceMoves
  <1>3. ASSUME NEW w \in Workers, NEW s \in Servers,
               Cordon(w, s) \/ ForceServer(w, s) \/ QueryServer(w, s) \/ DeletePod(w, s)
        PROVE  Goal
    <2>1. rec[w].pc = "advance" /\ Holds(w)
      BY <1>3 DEF Cordon, ForceServer, QueryServer, DeletePod, Turn, Holds
    <2>2. \/ Finished(w, s) \/ Goes(w, [rec[w] EXCEPT !.cur = s])
      BY <1>3 DEF Cordon, ForceServer, QueryServer, DeletePod
    <2> QED
      BY <2>1, <2>2, <1>0, FinishedMoves, PicksMoves
  <1>4. Crash => Goal
    BY DEF Crash
  <1>5. ASSUME \/ \E s \in Servers : Deliver(s) \/ PodRuns(s) \/ PodGone(s) \/ MatchEnds(s)
               \/ \E p \in Processes, s \in Servers : AllocPick(p, s)
               \/ \E a \in joining : AllocStep(a)
               \/ ApiSync \/ Tick \/ UNCHANGED vars
        PROVE  rec' = rec
    BY <1>5, AllocWrites DEF Deliver, PodRuns, PodGone, AllocPick, MatchEnds, ApiSync, Tick,
                             vars
  <1>6. rec' = rec => Goal
    OBVIOUS
  <1> HIDE DEF Goal
  <1>7. Goal
    BY <1>1, <1>2, <1>3, <1>4, <1>5, <1>6, StepsOfNext
  <1> QED
    BY <1>7 DEF Goal

LEMMA LabelsCordonedStep ==
    ASSUME Typed, LabelsCordoned, [Next]_vars
    PROVE  LabelsCordoned'
  BY LabelsStep, ReconcilesStep, RestingIs DEF LabelsCordoned

LEMMA OneHolderStep ==
    ASSUME Typed, OneHolder, [Next]_vars
    PROVE  OneHolder'
  <1>1. CASE rec' = rec
    BY <1>1 DEF OneHolder, Holds
  <1>2. CASE \A w \in Workers : rec'[w] = Resting
    BY <1>2, RestingIs DEF OneHolder, Holds
  <1>3. ASSUME NEW w \in Workers, \A v \in Workers \ {w} : rec'[v] = rec[v],
               Holds(w)' => Holds(w) \/ MayLock(w)
        PROVE  OneHolder'
    BY <1>3 DEF OneHolder, Holds, MayLock
  <1> QED
    BY <1>1, <1>2, <1>3, ReconcilesStep

------------------------------------------------------------------------------
\* Steps that leave the records alone: no pod of a server that runs is taken away.
Calm ==
    /\ UNCHANGED <<drain, cordoned, since, crashes>>
    /\ \A s \in Servers : \/ pod'[s] = pod[s]
                          \/ Alive(s) /\ pod'[s] = "running"
                          \/ pod[s] = "terminating" /\ pod'[s] = "gone"
    /\ \A w \in Workers :
          rec'[w] = rec[w] \/ rec'[w].pc # "advance" \/ rec'[w].cur = None

LEMMA CalmSteps ==
    ASSUME Typed,
           \/ \E w \in Workers : BeginAdvance(w)
           \/ BeginSync \/ GiveUp \/ ScaleDown \/ LockDrains
           \/ \E s \in Servers :
                 \/ SyncRegister(s) \/ Deliver(s) \/ PodRuns(s) \/ PodGone(s)
                 \/ MatchEnds(s)
           \/ \E p \in Processes, s \in Servers : AllocPick(p, s)
           \/ \E a \in joining : AllocStep(a)
           \/ ApiSync \/ UNCHANGED vars
    PROVE  Calm
  <1>1. CASE \E w \in Workers : BeginAdvance(w)
    <2>1. PICK w \in Workers : BeginAdvance(w)
      BY <1>1
    <2> QED
      BY <2>1, BeginAdvanceMoves DEF Moves, BeginAdvance, Calm, podVars, requestVars, historyVars
  <1>2. CASE BeginSync
    BY <1>2, BeginSyncMoves, WorkersAre DEF Moves, BeginSync, Calm, podVars, requestVars, historyVars
  <1>3. CASE GiveUp
    BY <1>3, GiveUpMoves, WorkersAre DEF Moves, GiveUp, Calm, podVars, requestVars, historyVars
  <1>4. CASE ScaleDown
    BY <1>4, ScaleDownMoves, WorkersAre DEF Moves, ScaleDown, Calm, podVars, requestVars, historyVars
  <1>5. CASE LockDrains
    BY <1>5, LockDrainsMoves, WorkersAre DEF Moves, LockDrains, Calm, podVars, requestVars, historyVars
  <1>6. ASSUME NEW s \in Servers, SyncRegister(s) PROVE Calm
    BY <1>6, SyncRegisterMoves, WorkersAre DEF Moves, SyncRegister, Calm, podVars, requestVars, historyVars
  <1>7. ASSUME NEW s \in Servers, PodRuns(s) \/ PodGone(s) PROVE Calm
    BY <1>7 DEF Typed, PodRuns, PodGone, Calm, Alive, requestVars, historyVars
  <1>8. ASSUME \/ \E s \in Servers : Deliver(s) \/ MatchEnds(s)
               \/ \E p \in Processes, s \in Servers : AllocPick(p, s)
               \/ ApiSync \/ UNCHANGED vars
        PROVE  Calm
    BY <1>8 DEF Deliver, AllocPick, MatchEnds, ApiSync, vars, Calm, podVars, historyVars
  <1>9. ASSUME NEW a \in joining, AllocStep(a) PROVE Calm
    BY <1>9, AllocWrites DEF Calm
  <1> QED
    BY <1>1, <1>2, <1>3, <1>4, <1>5, <1>6, <1>7, <1>8, <1>9

LEMMA CalmKeeps ==
    ASSUME Typed, RecordInv, Calm
    PROVE  RecordInv'
  <1>1. drain' = drain /\ cordoned' = cordoned /\ since' = since /\ crashes' = crashes
    BY DEF Calm
  <1>2. \A s \in Servers : Alive(s)' => Alive(s)
    BY DEF Calm, Alive, Typed
  <1>3. (RecordsCordoned /\ RecordsYounger /\ ReadyLate)'
    BY <1>1, <1>2 DEF RecordInv, RecordsCordoned, RecordsYounger, ReadyLate, Overdue
  <1>4. DeletesReady'
    BY <1>1 DEF Calm, RecordInv, DeletesReady
  <1>5. RecordsKept'
    BY <1>1, <1>2 DEF Typed, RecordInv, RecordsKept
  <1> QED
    BY <1>3, <1>4, <1>5 DEF RecordInv

\* Steps that write one record, d for s.
Rewrites(s, d) ==
    /\ drain' = [drain EXCEPT ![s] = d]
    /\ cordoned' = cordoned \cup {s}
    /\ UNCHANGED <<pod, since, crashes>>

\* The record has an age that the drain has, too, and is ready only when it may be.
Sound(s, d) ==
    /\ d \in ServerStates /\ d.phase # "none"
    /\ Alive(s) => d.entered <= since[s]
    /\ d.phase = "DECOMMISSION" => d.entered >= Timeout
    /\ d.phase = "FORCED" => Overdue(d)
    /\ crashes = 0 /\ Alive(s) => ~d.recovered

LEMMA RewriteKeeps ==
    ASSUME Typed, RecordInv, NEW s \in Servers, NEW d, Sound(s, d), Rewrites(s, d), DeletesReady'
    PROVE  RecordInv'
  <1>1. /\ drain'[s] = d /\ \A u \in Servers \ {s} : drain'[u] = drain[u]
        /\ cordoned' = cordoned \cup {s}
        /\ pod' = pod /\ since' = since /\ crashes' = crashes
    BY DEF Typed, Rewrites
  <1>2. RecordsCordoned'
    BY <1>1 DEF RecordInv, RecordsCordoned
  <1>3. RecordsYounger'
    BY <1>1 DEF RecordInv, RecordsYounger, Sound, Alive
  <1>4. ReadyLate'
    BY <1>1 DEF RecordInv, ReadyLate, Sound, Overdue
  <1>5. RecordsKept'
    BY <1>1 DEF Typed, RecordInv, RecordsKept, Sound, Alive
  <1> QED
    BY <1>2, <1>3, <1>4, <1>5 DEF RecordInv

LEMMA TickKeeps ==
    ASSUME Typed, RecordInv, Tick
    PROVE  RecordInv'
  <1>1. pod' = pod /\ rec' = rec /\ cordoned' = cordoned /\ crashes' = crashes
    BY DEF Tick, podVars
  <1>2. \A s \in Servers : /\ drain'[s] = Older(drain[s]) /\ drain[s] \in ServerStates
                           /\ drain'[s].phase = drain[s].phase
                           /\ drain'[s].recovered = drain[s].recovered
    BY OlderIs DEF Typed, Tick
  <1>3. \A s \in Servers : /\ drain[s].entered \in 0 .. MaxAge
                           /\ drain'[s].entered >= drain[s].entered
                           /\ drain'[s].entered \in 0 .. MaxAge
    BY <1>2, OlderIs, MaxAgeIs DEF ServerStates
  <1>4. \A s \in Servers : /\ since[s] \in 0 .. MaxAge /\ since'[s] \in 0 .. MaxAge
                           /\ since'[s] >= since[s]
    BY MaxAgeIs DEF Typed, Tick
  <1>5. RecordsYounger'
    <2> SUFFICES ASSUME NEW s \in Servers, drain'[s].phase # "none", Alive(s)'
                 PROVE  drain'[s].entered <= since'[s]
      BY DEF RecordsYounger
    <2>1. drain[s].phase # "none" /\ Alive(s) /\ s \in cordoned
      BY <1>1, <1>2 DEF Alive, RecordInv, RecordsCordoned
    <2>2. drain[s].entered <= since[s]
      BY <2>1 DEF RecordInv, RecordsYounger
    <2>3. since'[s] = IF since[s] < MaxAge THEN since[s] + 1 ELSE since[s]
      BY <2>1 DEF Typed, Tick, Alive
    <2>4. drain'[s].entered = IF drain[s].entered < MaxAge THEN drain[s].entered + 1
                                                           ELSE drain[s].entered
      BY <1>2, <2>1, OlderIs
    <2> QED
      BY <1>3, <1>4, <2>2, <2>3, <2>4, MaxAgeIs
  <1>6. ReadyLate'
    BY <1>2, <1>3, MaxAgeIs DEF RecordInv, ReadyLate, Overdue
  <1>7. (RecordsCordoned /\ DeletesReady /\ RecordsKept)'
    <2>1. DeletesReady'
      BY <1>1, <1>2 DEF RecordInv, DeletesReady, Typed, Reconciles
    <2>2. RecordsCordoned' /\ RecordsKept'
      BY <1>1, <1>2 DEF RecordInv, RecordsCordoned, RecordsKept, Alive, Typed
    <2> QED
      BY <2>1, <2>2
  <1> QED
    BY <1>5, <1>6, <1>7 DEF RecordInv

LEMMA CrashKeeps ==
    ASSUME Typed, RecordInv, Crash
    PROVE  RecordInv'
  <1>1. /\ \A s \in Servers : drain'[s] = NoDrain
        /\ \A w \in Workers : rec'[w] = Resting
        /\ crashes' # 0 /\ pod' = pod /\ since' = since
    BY DEF Typed, Crash, requestVars, historyVars
  <1>2. (RecordsCordoned /\ RecordsYounger /\ ReadyLate /\ DeletesReady)'
    BY <1>1, NoDrainIs, RestingIs
      DEF RecordsCordoned, RecordsYounger, ReadyLate, DeletesReady
  <1>3. RecordsKept'
    BY <1>1 DEF RecordsKept
  <1> QED
    BY <1>2, <1>3 DEF RecordInv

LEMMA SyncMarkKeeps ==
    ASSUME Typed, DrainInv, SyncMark
    PROVE  RecordInv'
  <1> DEFINE s == rec["own"].cur
  <1>1. s \in Servers
    BY WorkersAre DEF Typed, SyncMark, Reconciles
  <1>2. /\ UNCHANGED <<pod, cordoned, since, crashes>>
        /\ \A w \in Workers :
              rec'[w] = rec[w] \/ rec'[w].pc # "advance" \/ rec'[w].cur = None
    BY SyncMarkMoves, WorkersAre DEF Moves, SyncMark, podVars, requestVars, historyVars
  <1>3. CASE drain' = drain
    <2>1. Calm
      BY <1>2, <1>3 DEF Calm
    <2> QED
      BY <2>1, CalmKeeps DEF DrainInv
  <1>4. CASE drain' # drain
    <2>1. /\ rec["own"].snap[s] = "draining" /\ drain[s].phase = "none"
          /\ drain' = [drain EXCEPT ![s] = DrainRecovered]
      BY <1>4 DEF SyncMark, Recovered
    <2>2. s \in cordoned
      BY <1>1, <2>1, WorkersAre DEF DrainInv, LabelsCordoned
    <2>3. Rewrites(s, DrainRecovered)
      BY <1>2, <2>1, <2>2 DEF Rewrites
    <2>4. Sound(s, DrainRecovered)
      <3>1. crashes = 0 => ~Alive(s)
        BY <2>1, <2>2 DEF DrainInv, RecordInv, RecordsKept
      <3>2. since[s] \in Nat
        BY <1>1, MaxAgeIs DEF Typed
      <3> QED
        BY <3>1, <3>2, DrainRecoveredIs DEF Sound
    <2>5. DeletesReady'
      <3>1. \A w \in Workers : rec[w].pc = "advance" /\ rec[w].cur # None => rec[w].cur # s
        BY <2>1 DEF DrainInv, RecordInv, DeletesReady
      <3>2. \A u \in Servers \ {s} : drain'[u] = drain[u]
        BY <2>1 DEF Typed
      <3> HIDE DEF s
      <3> QED
        BY <1>2, <3>1, <3>2 DEF Typed, Reconciles, DrainInv, RecordInv, DeletesReady
    <2> HIDE DEF s
    <2> QED
      BY <1>1, <2>3, <2>4, <2>5, RewriteKeeps DEF DrainInv
  <1> QED
    BY <1>3, <1>4

\* While w is in the map, no other Reconcile is about to delete.
LEMMA AloneInMap ==
    ASSUME OneHolder, NEW w \in Workers, Holds(w)
    PROVE  \A v \in Workers \ {w} : rec[v].pc # "advance"
  BY DEF OneHolder, Holds

LEMMA StartDrainKeeps ==
    ASSUME Typed, DrainInv, NEW s \in Servers, StartDrain(s)
    PROVE  RecordInv'
  <1>1. PICK reachable \in BOOLEAN : drain' = [drain EXCEPT ![s] = DrainStarted(reachable)]
    BY StartDrainRecord
  <1>4. Rewrites(s, DrainStarted(reachable))
    BY <1>1 DEF StartDrain, Rewrites
  <1>2. Sound(s, DrainStarted(reachable))
    <2>1. since[s] \in Nat
      BY MaxAgeIs DEF Typed
    <2>2. /\ DrainStarted(reachable) \in ServerStates
          /\ DrainStarted(reachable).phase = "CORDON"
          /\ DrainStarted(reachable).entered = 0
          /\ ~DrainStarted(reachable).recovered
      BY <1>1, DrainStartedIs
    <2> QED
      BY <2>1, <2>2 DEF Sound
  <1>3. DeletesReady'
    <2>1. Holds("own")
      BY DEF StartDrain, Holds
    <2>2. \A v \in Workers : rec'[v].pc # "advance"
      BY <2>1, StartDrainMoves, AloneInMap, WorkersAre DEF Moves, DrainInv
    <2> QED
      BY <2>2 DEF DeletesReady
  <1> QED
    BY <1>2, <1>3, <1>4, RewriteKeeps DEF DrainInv

\* A worker in the map is through with s, or about to delete it.
LEMMA AdvanceKeeps ==
    ASSUME Typed, DrainInv, NEW w \in Workers, NEW s \in Servers,
           Turn(w, s), NEW d, Sound(s, d), SetDrain(s, d),
           drain[s].phase # "none", UNCHANGED <<pod, historyVars, crashes>>,
           \/ Finished(w, s)
           \/ /\ d.phase \in {"DECOMMISSION", "FORCED"}
              /\ Goes(w, [rec[w] EXCEPT !.cur = s])
    PROVE  RecordInv'
  <1>1. rec[w].pc = "advance" /\ Holds(w)
    BY DEF Turn, Holds
  <1>2. s \in cordoned
    BY DEF DrainInv, RecordInv, RecordsCordoned
  <1>3. Rewrites(s, d)
    BY <1>2 DEF SetDrain, Rewrites, requestVars, historyVars
  <1>4. \A v \in Workers \ {w} : rec'[v].pc # "advance"
    BY <1>1, AloneInMap, FinishedMoves, PicksMoves DEF Moves, DrainInv
  <1>5. \/ rec'[w].cur = None
        \/ rec'[w].cur = s /\ d.phase \in {"DECOMMISSION", "FORCED"}
    BY <1>1, FinishedMoves, PicksMoves DEF Moves
  <1>6. DeletesReady'
    BY <1>4, <1>5 DEF DeletesReady, SetDrain, Typed
  <1> QED
    BY <1>3, <1>6, RewriteKeeps DEF DrainInv

\* What is known of the record that a worker in the map has its turn with.
LEMMA DueRecord ==
    ASSUME Typed, DrainInv, NEW s \in Servers, drain[s].phase # "none"
    PROVE  /\ drain[s] \in ServerStates
           /\ Alive(s) => drain[s].entered <= since[s]
           /\ crashes = 0 /\ Alive(s) => ~drain[s].recovered
  BY DEF Typed, DrainInv, RecordInv, RecordsCordoned, RecordsYounger, RecordsKept

LEMMA CordonKeeps ==
    ASSUME Typed, DrainInv, NEW w \in Workers, NEW s \in Servers, Cordon(w, s)
    PROVE  RecordInv'
  <1>1. drain[s].phase # "none" /\ SetDrain(s, CordonDone(drain[s]))
    BY DEF Cordon
  <1>2. Sound(s, CordonDone(drain[s]))
    BY <1>1, DueRecord, CordonDoneIs DEF Sound
  <1> QED
    BY <1>1, <1>2, AdvanceKeeps DEF Cordon, podVars

LEMMA ForceServerKeeps ==
    ASSUME Typed, DrainInv, NEW w \in Workers, NEW s \in Servers, ForceServer(w, s)
    PROVE  RecordInv'
  <1>1. /\ drain[s].phase # "none" /\ Overdue(drain[s])
        /\ SetDrain(s, Forced(drain[s])) /\ Goes(w, [rec[w] EXCEPT !.cur = s])
    BY DEF ForceServer
  <1>2. Overdue(Forced(drain[s])) /\ Forced(drain[s]).phase = "FORCED"
    BY <1>1, DueRecord, ForcedIs DEF Overdue
  <1>3. Sound(s, Forced(drain[s]))
    BY <1>1, <1>2, DueRecord, ForcedIs DEF Sound
  <1> QED
    BY <1>1, <1>2, <1>3, AdvanceKeeps DEF ForceServer, podVars

LEMMA QueryServerKeeps ==
    ASSUME Typed, DrainInv, NEW w \in Workers, NEW s \in Servers, QueryServer(w, s)
    PROVE  RecordInv'
  <1> DEFINE active == s \in playing
  <1> DEFINE d == Answered(drain[s], active)
  <1>1. /\ active \in BOOLEAN /\ Turn(w, s) /\ drain[s].phase = "DRAIN"
        /\ UNCHANGED <<pod, historyVars, crashes>>
        /\ \/ /\ SetDrain(s, d)
              /\ IF d.phase = "DECOMMISSION" THEN Goes(w, [rec[w] EXCEPT !.cur = s])
                                             ELSE Finished(w, s)
           \/ drain' = drain /\ Finished(w, s)
    BY DEF QueryServer, podVars
  <1> HIDE DEF active
  <1>2. Sound(s, d)
    BY <1>1, DueRecord, AnsweredIs DEF Sound
  <1> HIDE DEF d
  <1>3. CASE drain' = drain /\ Finished(w, s)
    <2>1. SetDrain(s, drain[s])
      BY <1>3 DEF SetDrain, Typed
    <2>2. Sound(s, drain[s])
      BY <1>1, DueRecord DEF Sound
    <2> QED
      BY <1>1, <1>3, <2>1, <2>2, AdvanceKeeps
  <1>4. CASE /\ SetDrain(s, d)
             /\ IF d.phase = "DECOMMISSION" THEN Goes(w, [rec[w] EXCEPT !.cur = s])
                                            ELSE Finished(w, s)
    BY <1>1, <1>2, <1>4, AdvanceKeeps
  <1> QED
    BY <1>1, <1>3, <1>4

LEMMA DeletePodKeeps ==
    ASSUME Typed, DrainInv, NEW w \in Workers, NEW s \in Servers, DeletePod(w, s)
    PROVE  RecordInv'
  <1>1. /\ rec[w].pc = "advance" /\ rec[w].cur = s /\ Finished(w, s)
        /\ UNCHANGED <<cordoned, crashes>>
    BY DEF DeletePod
  <1>2. /\ \A v \in Workers \ {w} : rec'[v] = rec[v] /\ rec[v].pc # "advance"
        /\ rec'[w].cur = None
    BY <1>1, FinishedMoves, AloneInMap DEF Moves, Holds, DrainInv
  <1>3. DeletesReady'
    BY <1>2 DEF DeletesReady
  <1>4. CASE UNCHANGED <<pod, since, drain>>
    <2>1. Calm
      BY <1>1, <1>2, <1>4 DEF Calm
    <2> QED
      BY <2>1, CalmKeeps DEF DrainInv
  <1>5. CASE /\ pod' = [pod EXCEPT ![s] = "terminating"]
             /\ since' = [since EXCEPT ![s] = 0]
             /\ SetDrain(s, NoDrain)
    <2>1. /\ \A u \in Servers \ {s} :
                drain'[u] = drain[u] /\ pod'[u] = pod[u] /\ since'[u] = since[u]
          /\ drain'[s].phase = "none" /\ pod'[s] = "terminating"
      BY <1>5, NoDrainIs DEF Typed, SetDrain
    <2>2. (RecordsCordoned /\ RecordsYounger /\ ReadyLate)'
      BY <1>1, <2>1
        DEF DrainInv, RecordInv, RecordsCordoned, RecordsYounger, ReadyLate, Alive, Overdue
    <2>3. RecordsKept'
      BY <1>1, <2>1 DEF Typed, DrainInv, RecordInv, RecordsKept, Alive
    <2> QED
      BY <1>3, <2>2, <2>3 DEF RecordInv
  <1> QED
    BY <1>4, <1>5 DEF DeletePod

------------------------------------------------------------------------------
LEMMA DrainInvInit == Init => DrainInv
  <1> SUFFICES ASSUME Init PROVE DrainInv
    OBVIOUS
  <1>1. /\ \A s \in Servers : /\ label[s] = "warm" /\ cached[s] = "warm"
                              /\ drain[s] = NoDrain /\ pod[s] \in {"pending", "running"}
        /\ \A w \in Workers : rec[w] = Resting
        /\ cordoned = {}
    BY DEF Init
  <1>2. LabelsCordoned /\ OneHolder /\ DeletesReady
    BY <1>1, RestingIs DEF LabelsCordoned, OneHolder, Holds, DeletesReady
  <1>3. RecordsCordoned /\ RecordsYounger /\ ReadyLate /\ RecordsKept
    BY <1>1, NoDrainIs DEF RecordsCordoned, RecordsYounger, ReadyLate, RecordsKept
  <1> QED
    BY <1>2, <1>3 DEF DrainInv, RecordInv

LEMMA DrainInvStep == Typed /\ DrainInv /\ [Next]_vars => DrainInv'
  <1> SUFFICES ASSUME Typed, DrainInv, [Next]_vars PROVE DrainInv'
    OBVIOUS
  <1>1. LabelsCordoned' /\ OneHolder'
    BY LabelsCordonedStep, OneHolderStep DEF DrainInv
  <1>2. RecordInv
    BY DEF DrainInv
  <1>3. RecordInv'
    <2>1. ASSUME Calm PROVE RecordInv'
      BY <1>2, <2>1, CalmKeeps
    <2>2. CASE Tick \/ Crash
      BY <1>2, <2>2, TickKeeps, CrashKeeps
    <2>3. CASE SyncMark \/ \E s \in Servers : StartDrain(s)
      BY <2>3, SyncMarkKeeps, StartDrainKeeps
    <2>4. CASE \E w \in Workers, s \in Servers :
                  Cordon(w, s) \/ ForceServer(w, s) \/ QueryServer(w, s) \/ DeletePod(w, s)
      BY <2>4, CordonKeeps, ForceServerKeeps, QueryServerKeeps, DeletePodKeeps
    <2> QED
      BY <2>1, <2>2, <2>3, <2>4, CalmSteps, StepsOfNext
  <1> QED
    BY <1>1, <1>3 DEF DrainInv

LEMMA DrainSafety == Spec => [](Typed /\ DrainInv)
  <1>1. Init => Typed /\ DrainInv
    BY TypedInit, DrainInvInit
  <1>2. Typed /\ DrainInv /\ [Next]_vars => (Typed /\ DrainInv)'
    BY TypedStep, DrainInvStep
  <1> QED
    BY <1>1, <1>2, PTL DEF Spec

\* Pods, labels, pool, Reconciles and drain records keep their types, and no pool has
\* an entry for a server it does not track.
THEOREM FleetDrainTyping == Spec => []TypeOK
  <1>1. Typed => TypeOK
    BY TypedIs
  <1> QED
    BY <1>1, DrainSafety, PTL

------------------------------------------------------------------------------
\* No step but a Delete takes a pod away.
LEMMA PodsStay ==
    ASSUME Typed, [Next]_vars, NEW s \in Servers, Deleted(s)
    PROVE  \E w \in Workers : DeletePod(w, s)
  <1> DEFINE Stays == Alive(s) => Alive(s)'
  <1>1. ASSUME pod' = pod PROVE Stays
    BY <1>1 DEF Alive
  <1>2. ASSUME Calm PROVE Stays
    BY <1>2 DEF Calm, Alive
  <1>3. CASE Tick \/ Crash \/ SyncMark \/ \E u \in Servers : StartDrain(u)
    BY <1>1, <1>3 DEF Tick, Crash, SyncMark, StartDrain, podVars, Deleted
  <1>4. CASE \E w \in Workers, u \in Servers :
                Cordon(w, u) \/ ForceServer(w, u) \/ QueryServer(w, u)
    BY <1>1, <1>4 DEF Cordon, ForceServer, QueryServer, podVars, Deleted
  <1>5. ASSUME NEW w \in Workers, NEW u \in Servers, DeletePod(w, u), u # s PROVE FALSE
    <2>1. pod'[s] = pod[s]
      BY <1>5 DEF Typed, DeletePod
    <2> QED
      BY <2>1 DEF Alive, Deleted
  <1>6. CASE Calm
    BY <1>2, <1>6 DEF Deleted
  <1> QED
    BY <1>3, <1>4, <1>5, <1>6, CalmSteps, StepsOfNext

\* The record of a pod that is taken away was ready, and had the age of a drain that
\* had lasted long enough.
LEMMA DeletedWhenReady ==
    ASSUME Typed, DrainInv, [Next]_vars, NEW s \in Servers, Deleted(s)
    PROVE  /\ drain[s].phase \in {"DECOMMISSION", "FORCED"}
           /\ drain[s].phase = "DECOMMISSION" => since[s] >= Timeout
           /\ drain[s].phase = "FORCED" /\ crashes = 0 => since[s] > ForceTime
  <1>1. PICK w \in Workers : DeletePod(w, s)
    BY PodsStay
  <1>2. rec[w].pc = "advance" /\ rec[w].cur = s /\ Alive(s)
    BY <1>1 DEF DeletePod, Deleted
  <1>3. drain[s].phase \in {"DECOMMISSION", "FORCED"} /\ drain[s].phase # "none"
    BY <1>2, FleetDrainAssumption DEF DrainInv, RecordInv, DeletesReady
  <1>4. /\ drain[s].entered \in Nat /\ since[s] \in Nat
        /\ drain[s].entered <= since[s]
        /\ crashes = 0 => ~drain[s].recovered
    BY <1>2, <1>3, DueRecord, MaxAgeIs DEF Typed, ServerStates
  <1>5. /\ drain[s].phase = "DECOMMISSION" => drain[s].entered >= Timeout
        /\ drain[s].phase = "FORCED" => drain[s].recovered \/ drain[s].entered > ForceTime
    BY DEF DrainInv, RecordInv, ReadyLate, Overdue
  <1> QED
    BY <1>3, <1>4, <1>5, MaxAgeIs

\* A pod that goes, but not by force, had its minimum drain time since its drain began,
\* for any force deadline, any number of servers, failures and restarts, and Reconciles
\* that race over the records (advanceDraining, drainer.Advance).
THEOREM DrainTimeIsGiven == Spec => DrainTimeGiven
  <1>1. ASSUME Typed, DrainInv, [Next]_vars
        PROVE  \A s \in Servers :
                  Deleted(s) => drain[s].phase = "FORCED" \/ since[s] >= Timeout
    BY <1>1, DeletedWhenReady
  <1> QED
    BY <1>1, DrainSafety, PTL DEF Spec, DrainTimeGiven

\* As long as the controller was not restarted, players lose their server to the force
\* deadline only once that deadline has passed since the drain began.
THEOREM DeadlineIsKept == Spec => DeadlineKept
  <1>1. ASSUME Typed, DrainInv, [Next]_vars PROVE crashes = 0 => ForcesLate
    BY <1>1, DeletedWhenReady DEF Typed, ForcesLate
  <1> QED
    BY <1>1, DrainSafety, PTL DEF Spec, DeadlineKept
==============================================================================
