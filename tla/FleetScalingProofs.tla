-------------------------- MODULE FleetScalingProofs -------------------------
(***************************************************************************)
(* Theorems about FleetScaling for every policy, cooldown, threshold and    *)
(* duration of the circuit breaker, and any number of players and failures. *)
(***************************************************************************)
EXTENDS FleetScaling, FiniteSetTheorems, TLAPS

\* TypeOK, with the snapshot of a Reconcile as none or one.
Typed ==
    /\ fleet \in Counts /\ listed \in Counts /\ reopened \in 0 .. MaxReopened
    /\ players \in 0 .. MaxPlayers
    /\ seen = {} \/ \E v \in Snapshots : seen = {v}
    /\ todo \in 0 .. MaxReplicas
    /\ failures \in 0 .. Threshold /\ openFor \in 0 .. OpenTime
    /\ sinceUp \in Ages /\ sinceDown \in Ages
    /\ faults \in 0 .. MaxFaults
    /\ streak \in 0 .. Threshold /\ tripped \in Ages

\* A Reconcile collects or creates, never both, and only with the circuit closed.
OneStage == seen = {} \/ todo = 0
ClosedWhileBusy == seen # {} \/ todo > 0 => openFor = 0

\* The breaker has counted every failure in a row, and keeps the circuit open for
\* OpenTime after they became too many.
CountsFailures == streak <= failures
OpensLongEnough == tripped + openFor >= OpenTime

\* A fleet that is never frozen has its failures counted exactly.
CountsExactly ==
    ~MayFreeze => failures = streak /\ BreakerCountsConsecutive

\* With a cache that is up to date a snapshot never has fewer pods than there are, and
\* those that are yet to be created fit in.
FitsIn ==
    ~CacheLag => /\ listed = fleet
                 /\ Total(fleet) + todo <= MaxReplicas
                 /\ \A v \in seen : Total(fleet) <= v.replicas

ScaleInv ==
    /\ Typed /\ OneStage /\ ClosedWhileBusy /\ CountsFailures /\ OpensLongEnough
    /\ CountsExactly /\ FitsIn

------------------------------------------------------------------------------
\* Numbers.
LEMMA ConstantsAre ==
    /\ MinReplicas \in Nat /\ MaxReplicas \in Nat /\ TargetValue \in Nat
    /\ MaxPlayers \in Nat /\ MaxReopened \in Nat /\ MaxFaults \in Nat
    /\ Threshold \in Nat /\ Threshold > 0
    /\ OpenTime \in Nat /\ OpenTime > 0 /\ MaxAge \in Nat /\ OpenTime <= MaxAge
  BY PolicyAssumption, FleetScalingAssumption DEF MaxAge

LEMMA ClampedIs ==
    ASSUME NEW n \in Int
    PROVE  Clamped(n) \in 0 .. MaxReplicas
  BY ConstantsAre DEF Clamped

LEMMA DesiredIs ==
    ASSUME NEW p \in Nat, NEW aux \in Nat
    PROVE  Desired(p, aux) \in 0 .. MaxReplicas
  <1>1. ServersForPlayers(p) \in Int
    BY ConstantsAre DEF ServersForPlayers
  <1>2. BufferSize \in Int
    BY PolicyAssumption DEF BufferSize
  <1> QED
    BY <1>1, <1>2, ClampedIs DEF Desired

\* A decision to scale up fits under MaxReplicas, on top of what was counted.
LEMMA EvaluateIs ==
    ASSUME NEW m, m.replicas \in Nat, m.players \in Nat, m.aux \in Nat
    PROVE  /\ Evaluate(m).decision = "SCALE_UP" =>
                 /\ Evaluate(m).delta \in 1 .. MaxReplicas
                 /\ m.replicas + Evaluate(m).delta <= MaxReplicas
           /\ Evaluate(m).decision = "FROZEN" => m.paused \/ m.degraded
           /\ Evaluate(m).delta \in Int
  <1> DEFINE delta == Desired(m.players, m.aux) - m.replicas
  <1>0. Desired(m.players, m.aux) \in 0 .. MaxReplicas
    BY DesiredIs
  <1>1. delta \in Int /\ m.replicas + delta <= MaxReplicas /\ delta <= MaxReplicas
    BY <1>0, ConstantsAre
  <1>2. \/ Evaluate(m) = [decision |-> "FROZEN", delta |-> 0] /\ (m.paused \/ m.degraded)
        \/ Evaluate(m) = [decision |-> "SCALE_UP", delta |-> delta] /\ delta > 0
        \/ Evaluate(m) = [decision |-> "SCALE_DOWN", delta |-> delta]
        \/ Evaluate(m) = [decision |-> "HOLD", delta |-> 0]
    BY DEF Evaluate
  <1> HIDE DEF delta
  <1> QED
    BY <1>1, <1>2, ConstantsAre

LEMMA InputsAre ==
    ASSUME Typed, NEW m \in Inputs
    PROVE  \E v \in Snapshots :
              /\ seen = {v}
              /\ m.replicas = v.replicas /\ m.replicas \in Nat
              /\ m.players \in Nat /\ m.aux \in Nat
              /\ ~MayFreeze => ~(m.paused \/ m.degraded)
  <1>1. PICK v \in seen, aux \in AuxValues, paused \in Freezing, degraded \in Freezing :
            m = Input(v, aux, paused, degraded)
    BY DEF Inputs
  <1>2. v \in Snapshots /\ seen = {v}
    BY DEF Typed
  <1>3. v.replicas \in Nat /\ v.players \in Nat /\ aux \in Nat
    BY <1>2, FleetScalingAssumption DEF Snapshots
  <1>4. ~MayFreeze => ~(m.paused \/ m.degraded)
    BY <1>1 DEF Input, Freezing
  <1>5. m.replicas = v.replicas /\ m.players = v.players /\ m.aux = aux
    BY <1>1 DEF Input
  <1> QED
    BY <1>2, <1>3, <1>4, <1>5

LEMMA TotalIs ==
    ASSUME NEW n \in Counts
    PROVE  /\ Total(n) \in Nat /\ n.draining \in Nat /\ n.warm \in Nat
           /\ n.pending \in Nat /\ n.allocated \in Nat
  BY DEF Counts, Total

LEMMA TypingIs == Typed => TypeOK
  <1> SUFFICES ASSUME Typed PROVE TypeOK
    OBVIOUS
  <1>1. seen \subseteq Snapshots /\ Cardinality(seen) <= 1
    BY FS_EmptySet, FS_Singleton DEF Typed
  <1> QED
    BY <1>1 DEF Typed, TypeOK

\* A change of the counts, which leaves no more pods reopened than there may be.
LEMMA SetFleetIs ==
    ASSUME Typed, NEW n \in Counts, NEW open \in 0 .. MaxReopened, SetFleet(n, open)
    PROVE  /\ fleet' = n /\ listed' = IF CacheLag THEN listed ELSE n
           /\ listed' \in Counts /\ reopened' \in 0 .. MaxReopened
  <1>1. n.warm \in Nat /\ n.allocated \in Nat
    BY TotalIs
  <1>2. reopened' \in 0 .. MaxReopened
    BY <1>1, ConstantsAre DEF SetFleet
  <1> QED
    BY <1>2 DEF SetFleet, Typed

LEMMA ScaleInvInit == Init => ScaleInv
  <1> SUFFICES ASSUME Init PROVE ScaleInv
    OBVIOUS
  <1>1. fleet \in Counts /\ Total(fleet) = 0
    BY DEF Init, Counts, Total
  <1> QED
    BY <1>1, ConstantsAre
      DEF Init, ScaleInv, Typed, Ages, OneStage, ClosedWhileBusy, CountsFailures,
          OpensLongEnough, CountsExactly, BreakerCountsConsecutive, FitsIn

------------------------------------------------------------------------------
\* A step of pods or players: no pod is added, and no Reconcile goes on.
Moved ==
    /\ fleet' \in Counts /\ listed' \in Counts /\ reopened' \in 0 .. MaxReopened
    /\ players' \in 0 .. MaxPlayers
    /\ Total(fleet') <= Total(fleet)
    /\ ~CacheLag /\ listed = fleet => listed' = fleet'
    /\ UNCHANGED <<seen, todo, circuitVars, cooldownVars, faults, historyVars>>

LEMMA MovedKeeps == ScaleInv /\ Moved => ScaleInv'
  <1> SUFFICES ASSUME ScaleInv, Moved PROVE ScaleInv'
    OBVIOUS
  <1>1. UNCHANGED <<seen, todo, failures, openFor, sinceUp, sinceDown, faults, streak, tripped>>
    BY DEF Moved, circuitVars, cooldownVars, historyVars
  <1>2. (Typed /\ OneStage /\ ClosedWhileBusy /\ CountsFailures /\ OpensLongEnough /\ CountsExactly)'
    BY <1>1 DEF ScaleInv, Moved, Typed, OneStage, ClosedWhileBusy, CountsFailures,
                OpensLongEnough, CountsExactly, BreakerCountsConsecutive
  <1>3. FitsIn'
    <2>1. Total(fleet) \in Nat /\ Total(fleet') \in Nat /\ todo \in Nat
      BY TotalIs, ConstantsAre DEF ScaleInv, Typed, Moved
    <2>2. \A v \in seen : v.replicas \in Nat
      BY DEF ScaleInv, Typed, Snapshots
    <2> QED
      BY <1>1, <2>1, <2>2, ConstantsAre DEF ScaleInv, FitsIn, Moved
  <1> QED
    BY <1>2, <1>3 DEF ScaleInv

LEMMA PodMovesIs ==
    ASSUME ScaleInv, PodRuns \/ Allocated \/ Returned \/ Reopens
    PROVE  Moved /\ fleet'.draining <= fleet.draining
  <1>1. fleet \in Counts /\ reopened \in 0 .. MaxReopened /\ Typed
    BY DEF ScaleInv, Typed
  <1>2. PICK from \in {"pending", "warm", "allocated", "draining"},
             to \in {"warm", "allocated"}, open \in 0 .. MaxReopened :
            from # to /\ PodMoves(from, to, open)
    BY <1>1, ConstantsAre DEF PodRuns, Allocated, Returned, Reopens
  <1> DEFINE n == [fleet EXCEPT ![from] = @ - 1, ![to] = @ + 1]
  <1>3. n \in Counts /\ Total(n) = Total(fleet) /\ n.draining <= fleet.draining
    <2>1. fleet[from] > 0
      BY <1>2 DEF PodMoves
    <2>2. CASE to = "warm"
      BY <1>1, <1>2, <2>1, <2>2 DEF Counts, Total
    <2>3. CASE to = "allocated"
      BY <1>1, <1>2, <2>1, <2>3 DEF Counts, Total
    <2> QED
      BY <1>2, <2>2, <2>3
  <1>4. /\ SetFleet(n, open)
        /\ UNCHANGED <<players, seen, todo, circuitVars, cooldownVars, faults, historyVars>>
    BY <1>2 DEF PodMoves
  <1> HIDE DEF n
  <1>5. /\ fleet' = n /\ listed' = IF CacheLag THEN listed ELSE n
        /\ listed' \in Counts /\ reopened' \in 0 .. MaxReopened
    BY <1>1, <1>3, <1>4, SetFleetIs
  <1> QED
    BY <1>1, <1>3, <1>4, <1>5, TotalIs DEF Moved, Typed

LEMMA OthersMove ==
    ASSUME ScaleInv, (\E phase \in Drained : DrainEnds(phase)) \/ PlayersChange \/ Deliver \/ UNCHANGED vars
    PROVE  Moved /\ fleet'.draining <= fleet.draining
  <1>0. /\ Typed /\ fleet \in Counts /\ listed \in Counts
        /\ reopened \in 0 .. MaxReopened /\ players \in 0 .. MaxPlayers
        /\ Total(fleet) \in Nat /\ fleet.draining \in Nat
    BY TotalIs DEF ScaleInv, Typed
  <1>1. ASSUME NEW phase \in Drained, DrainEnds(phase)
        PROVE  Moved /\ fleet'.draining <= fleet.draining
    <2> DEFINE n == [fleet EXCEPT ![phase] = @ - 1]
               open == IF phase = "draining" THEN reopened ELSE reopened - 1
    <2>1. /\ fleet[phase] > 0 /\ SetFleet(n, open)
          /\ UNCHANGED <<players, seen, todo, circuitVars, cooldownVars, faults, historyVars>>
      BY <1>1 DEF DrainEnds
    <2>2. n \in Counts /\ Total(n) <= Total(fleet) /\ n.draining <= fleet.draining
      <3>1. phase \in {"draining", "warm", "allocated"}
        BY DEF Drained
      <3> QED
        BY <1>0, <2>1, <3>1 DEF Counts, Total
    <2>3. open \in 0 .. MaxReopened
      BY <1>0, <1>1, ConstantsAre DEF DrainEnds
    <2> HIDE DEF n, open
    <2>4. /\ fleet' = n /\ listed' = IF CacheLag THEN listed ELSE n
          /\ listed' \in Counts /\ reopened' \in 0 .. MaxReopened
      BY <1>0, <2>1, <2>2, <2>3, SetFleetIs
    <2> QED
      BY <1>0, <2>1, <2>2, <2>4 DEF Moved
  <1>2. CASE PlayersChange
    <2>1. players' \in 0 .. MaxPlayers
      BY <1>0, <1>2, ConstantsAre DEF PlayersChange
    <2> QED
      BY <1>0, <1>2, <2>1 DEF PlayersChange, Moved
  <1>3. CASE Deliver
    BY <1>0, <1>3 DEF Deliver, Moved
  <1>4. CASE UNCHANGED vars
    BY <1>0, <1>4 DEF vars, Moved
  <1> QED
    BY <1>1, <1>2, <1>3, <1>4

------------------------------------------------------------------------------
\* The part of the invariant that is about the circuit breaker.
Breaker ==
    /\ failures \in 0 .. Threshold /\ openFor \in 0 .. OpenTime
    /\ streak \in 0 .. Threshold /\ tripped \in Ages /\ faults \in 0 .. MaxFaults
    /\ CountsFailures /\ OpensLongEnough /\ CountsExactly

\* The circuit opens when the streak of failures does, at the latest.
LEMMA FailsKeeps ==
    ASSUME ScaleInv, openFor = 0, Fails
    PROVE  Breaker'
  <1>1. /\ failures \in Nat /\ failures <= Threshold /\ streak \in Nat /\ streak <= Threshold
        /\ tripped \in Nat /\ streak <= failures /\ tripped <= MaxAge /\ faults \in Nat
        /\ tripped >= OpenTime
    BY ConstantsAre DEF ScaleInv, Typed, Ages, CountsFailures, OpensLongEnough
  <1>2. /\ failures' = IF failures < Threshold THEN failures + 1 ELSE failures
        /\ openFor' = IF failures + 1 >= Threshold THEN OpenTime ELSE 0
        /\ streak' = IF streak < Threshold THEN streak + 1 ELSE streak
        /\ tripped' = IF streak + 1 >= Threshold THEN 0 ELSE tripped
        /\ faults < MaxFaults /\ faults' = faults + 1
    BY DEF Fails, Fault, recordFailure
  <1>3. /\ failures' \in 0 .. Threshold /\ openFor' \in 0 .. OpenTime
        /\ streak' \in 0 .. Threshold /\ tripped' \in Ages /\ faults' \in 0 .. MaxFaults
    BY <1>1, <1>2, ConstantsAre DEF Ages
  <1>4. CountsFailures' /\ OpensLongEnough'
    BY <1>1, <1>2, ConstantsAre DEF CountsFailures, OpensLongEnough
  <1>5. CountsExactly'
    <2>1. ~MayFreeze => failures = streak
      BY DEF ScaleInv, CountsExactly
    <2> QED
      BY <1>1, <1>2, <2>1, ConstantsAre DEF CountsExactly, BreakerCountsConsecutive
  <1> QED
    BY <1>3, <1>4, <1>5 DEF Breaker

LEMMA EndsWellKeeps ==
    ASSUME ScaleInv, openFor = 0, EndsWell,
           resetCircuit \/ (MayFreeze /\ UNCHANGED circuitVars)
    PROVE  Breaker' /\ openFor' = 0
  <1>1. /\ openFor' = 0 /\ streak' = 0 /\ tripped' = tripped /\ faults' = faults
        /\ failures' = 0 \/ (MayFreeze /\ failures' = failures)
    BY DEF EndsWell, resetCircuit, circuitVars
  <1>2. failures \in 0 .. Threshold /\ tripped \in Ages /\ tripped >= OpenTime
        /\ faults \in 0 .. MaxFaults
    BY ConstantsAre DEF ScaleInv, Typed, Ages, OpensLongEnough
  <1> QED
    BY <1>1, <1>2, ConstantsAre
      DEF Breaker, CountsFailures, OpensLongEnough, CountsExactly, BreakerCountsConsecutive, Ages

LEMMA TickKeeps == ScaleInv /\ Tick => ScaleInv'
  <1> SUFFICES ASSUME ScaleInv, Tick PROVE ScaleInv'
    OBVIOUS
  <1> DEFINE later(age) == IF age < MaxAge THEN age + 1 ELSE age
  <1>1. /\ seen = {} /\ todo = 0
        /\ UNCHANGED <<fleet, listed, reopened, players, seen, todo, failures, faults, streak>>
        /\ openFor' = IF openFor > 0 THEN openFor - 1 ELSE 0
        /\ sinceUp' = later(sinceUp) /\ sinceDown' = later(sinceDown)
        /\ tripped' = later(tripped)
    BY DEF Tick
  <1>2. \A age \in Ages : later(age) \in Ages
    BY ConstantsAre DEF Ages
  <1>3. /\ openFor \in Nat /\ openFor <= OpenTime /\ tripped \in Nat /\ tripped <= MaxAge
        /\ tripped + openFor >= OpenTime
    BY ConstantsAre DEF ScaleInv, Typed, Ages, OpensLongEnough
  <1>4. Typed'
    <2>1. openFor' \in 0 .. OpenTime
      BY <1>1, <1>3, ConstantsAre
    <2> HIDE DEF later
    <2> QED
      BY <1>1, <1>2, <2>1 DEF ScaleInv, Typed
  <1>5. OpensLongEnough'
    BY <1>1, <1>3, ConstantsAre DEF OpensLongEnough
  <1>6. CountsExactly'
    BY <1>1, <1>3, ConstantsAre DEF ScaleInv, CountsExactly, BreakerCountsConsecutive
  <1>7. (OneStage /\ ClosedWhileBusy /\ CountsFailures /\ FitsIn)'
    BY <1>1 DEF ScaleInv, OneStage, ClosedWhileBusy, CountsFailures, FitsIn
  <1> QED
    BY <1>4, <1>5, <1>6, <1>7 DEF ScaleInv

------------------------------------------------------------------------------
\* The steps of a Reconcile.
LEMMA CollectKeeps ==
    ASSUME ScaleInv, PolicyMissing \/ MetricsMissing \/ Collect
    PROVE  ScaleInv' /\ fleet' = fleet
  <1>1. /\ Ready /\ UNCHANGED <<fleet, listed, reopened, players, todo, cooldownVars>>
        /\ seen = {} /\ todo = 0 /\ openFor = 0
    BY ConstantsAre
      DEF PolicyMissing, MetricsMissing, Collect, Ready, isCircuitOpen, ScaleInv, Typed
  <1>2. CASE PolicyMissing
    <2>1. Breaker' /\ seen' = seen
      BY <1>1, <1>2, FailsKeeps DEF PolicyMissing
    <2> QED
      BY <1>1, <2>1 DEF Breaker, ScaleInv, Typed, OneStage, ClosedWhileBusy, FitsIn, cooldownVars
  <1>3. CASE MetricsMissing
    <2>1. /\ UNCHANGED <<seen, failures, openFor, streak, tripped>>
          /\ faults' = faults + 1 /\ faults < MaxFaults
      BY <1>3 DEF MetricsMissing, Fault, circuitVars, historyVars
    <2>2. faults' \in 0 .. MaxFaults
      BY <2>1, ConstantsAre DEF ScaleInv, Typed
    <2> QED
      BY <1>1, <2>1, <2>2
        DEF ScaleInv, Typed, OneStage, ClosedWhileBusy, FitsIn, cooldownVars, CountsFailures,
            OpensLongEnough, CountsExactly, BreakerCountsConsecutive
  <1>4. CASE Collect
    <2>1. PICK reported \in 0 .. players :
              /\ ScrapeFleet(reported)
              /\ seen' = {[replicas |-> Total(listed), buffer |-> listed.warm,
                           players |-> reported]}
      BY <1>4 DEF Collect
    <2> DEFINE v == [replicas |-> Total(listed), buffer |-> listed.warm, players |-> reported]
    <2>2. v \in Snapshots /\ v.replicas = Total(listed)
      BY TotalIs, ConstantsAre DEF Snapshots, ScaleInv, Typed
    <2> HIDE DEF v
    <2>3. seen' = {v}
      BY <2>1 DEF v
    <2>4. UNCHANGED <<failures, openFor, streak, tripped>>
      BY <1>4 DEF Collect, circuitVars, historyVars
    <2>5. faults' \in 0 .. MaxFaults
      BY <2>1, ConstantsAre DEF ScrapeFleet, Fault, NoFault, ScaleInv, Typed
    <2>6. Typed'
      BY <1>1, <2>2, <2>3, <2>4, <2>5 DEF ScaleInv, Typed, cooldownVars
    <2>7. FitsIn'
      BY <1>1, <2>2, <2>3, TotalIs DEF ScaleInv, Typed, FitsIn
    <2> QED
      BY <1>1, <2>4, <2>6, <2>7
        DEF ScaleInv, OneStage, ClosedWhileBusy, CountsFailures, OpensLongEnough,
            CountsExactly, BreakerCountsConsecutive
  <1> QED
    BY <1>1, <1>2, <1>3, <1>4

LEMMA HoldKeeps ==
    ASSUME ScaleInv, NEW m \in Inputs, Hold(m) \/ Freeze(m)
    PROVE  ScaleInv' /\ fleet' = fleet
  <1>1. seen # {} /\ todo = 0 /\ openFor = 0
    BY InputsAre DEF ScaleInv, OneStage, ClosedWhileBusy
  <1>2. /\ UNCHANGED <<fleet, listed, reopened, players, todo, cooldownVars>> /\ seen' = {}
        /\ EndsWell
    BY DEF Hold, Freeze
  <1>3. resetCircuit \/ (MayFreeze /\ UNCHANGED circuitVars)
    <2>1. CASE Hold(m)
      BY <2>1 DEF Hold
    <2>2. CASE Freeze(m)
      <3>1. MayFreeze
        BY <2>2, InputsAre, EvaluateIs DEF Freeze, ScaleInv
      <3> QED
        BY <2>2, <3>1 DEF Freeze
    <2> QED
      BY <2>1, <2>2
  <1>4. Breaker'
    BY <1>1, <1>2, <1>3, EndsWellKeeps
  <1> QED
    BY <1>1, <1>2, <1>4
      DEF Breaker, ScaleInv, Typed, OneStage, ClosedWhileBusy, FitsIn, cooldownVars

LEMMA ScaleUpKeeps ==
    ASSUME ScaleInv, NEW m \in Inputs, ScaleUp(m)
    PROVE  ScaleInv' /\ fleet' = fleet
  <1>1. seen # {} /\ todo = 0 /\ openFor = 0
    BY InputsAre DEF ScaleInv, OneStage, ClosedWhileBusy
  <1>2. /\ seen' = {} /\ todo' = Evaluate(m).delta
        /\ UNCHANGED <<fleet, listed, reopened, players, failures, openFor, sinceUp, sinceDown, faults,
                       streak, tripped>>
    BY DEF ScaleUp, circuitVars, cooldownVars, historyVars
  <1>3. /\ Evaluate(m).delta \in 1 .. MaxReplicas
        /\ m.replicas + Evaluate(m).delta <= MaxReplicas
        /\ m.replicas \in Nat /\ \E v \in Snapshots : seen = {v} /\ m.replicas = v.replicas
    BY InputsAre, EvaluateIs DEF ScaleUp, ScaleInv
  <1>4. Typed'
    BY <1>2, <1>3, ConstantsAre DEF ScaleInv, Typed
  <1>5. FitsIn'
    BY <1>2, <1>3, TotalIs, ConstantsAre DEF ScaleInv, Typed, FitsIn
  <1> QED
    BY <1>1, <1>2, <1>4, <1>5
      DEF ScaleInv, OneStage, ClosedWhileBusy, CountsFailures, OpensLongEnough, CountsExactly,
          BreakerCountsConsecutive

LEMMA CreatePodKeeps ==
    ASSUME ScaleInv, CreatePod
    PROVE  ScaleInv' /\ fleet'.draining = fleet.draining
  <1>1. /\ todo > 0 /\ todo \in Nat /\ todo <= MaxReplicas /\ seen = {} /\ openFor = 0
        /\ UNCHANGED <<players, seen, sinceDown>>
    BY ConstantsAre DEF CreatePod, ScaleInv, Typed, OneStage, ClosedWhileBusy
  <1>2. CASE /\ SetFleet([fleet EXCEPT !.pending = @ + 1], reopened) /\ todo' = todo - 1
             /\ IF todo = 1 THEN sinceUp' = 0 /\ resetCircuit /\ EndsWell
                            ELSE UNCHANGED <<sinceUp, circuitVars, faults, streak, tripped>>
    <2>1. /\ fleet' = [fleet EXCEPT !.pending = @ + 1] /\ fleet \in Counts
          /\ listed' = IF CacheLag THEN listed ELSE fleet'
          /\ listed' \in Counts /\ reopened' \in 0 .. MaxReopened
      <3>1. fleet \in Counts /\ reopened \in 0 .. MaxReopened /\ Typed
        BY DEF ScaleInv, Typed
      <3>2. [fleet EXCEPT !.pending = @ + 1] \in Counts
        BY <3>1 DEF Counts
      <3> QED
        BY <1>2, <3>1, <3>2, SetFleetIs
    <2>2. /\ fleet' \in Counts /\ Total(fleet') = Total(fleet) + 1
          /\ fleet'.draining = fleet.draining
      BY <2>1 DEF Counts, Total
    <2>3. Breaker' /\ openFor' = 0 /\ sinceUp' \in Ages
      <3>1. CASE todo = 1
        BY <1>1, <1>2, <3>1, EndsWellKeeps, ConstantsAre DEF Ages
      <3>2. CASE todo # 1
        BY <1>1, <1>2, <3>2
          DEF ScaleInv, Typed, Breaker, circuitVars, CountsFailures, OpensLongEnough,
              CountsExactly, BreakerCountsConsecutive
      <3> QED
        BY <3>1, <3>2
    <2>4. Typed'
      BY <1>1, <1>2, <2>1, <2>2, <2>3, ConstantsAre DEF ScaleInv, Typed, Breaker
    <2>5. FitsIn'
      BY <1>1, <1>2, <2>1, <2>2, TotalIs, ConstantsAre DEF ScaleInv, FitsIn, Typed
    <2> QED
      BY <1>1, <2>2, <2>3, <2>4, <2>5 DEF ScaleInv, Breaker, OneStage, ClosedWhileBusy
  <1>3. CASE Fails /\ todo' = 0 /\ UNCHANGED <<fleet, listed, reopened, sinceUp>>
    <2>1. Breaker'
      BY <1>1, <1>3, FailsKeeps
    <2>2. FitsIn'
      BY <1>1, <1>3, TotalIs, ConstantsAre DEF ScaleInv, Typed, FitsIn
    <2> QED
      BY <1>1, <1>3, <2>1, <2>2, ConstantsAre
        DEF Breaker, ScaleInv, Typed, OneStage, ClosedWhileBusy
  <1> QED
    BY <1>2, <1>3 DEF CreatePod

LEMMA ScaleDownKeeps ==
    ASSUME ScaleInv, NEW m \in Inputs, ScaleDown(m)
    PROVE  ScaleInv' /\ Total(fleet') = Total(fleet)
  <1>1. seen # {} /\ todo = 0 /\ openFor = 0
    BY InputsAre DEF ScaleInv, OneStage, ClosedWhileBusy
  <1>2. PICK warm \in 0 .. fleet.warm, pending \in 0 .. fleet.pending,
             allocated \in 0 .. fleet.allocated :
            SetFleet([fleet EXCEPT !.warm = @ - warm, !.pending = @ - pending,
                                   !.allocated = @ - allocated,
                                   !.draining = @ + warm + pending + allocated], reopened)
    BY DEF ScaleDown
  <1>3. /\ seen' = {} /\ sinceDown' = 0 /\ resetCircuit /\ EndsWell
        /\ UNCHANGED <<players, todo, sinceUp>>
    BY DEF ScaleDown
  <1>4. /\ fleet \in Counts /\ fleet.warm \in Nat /\ fleet.pending \in Nat
        /\ fleet.allocated \in Nat /\ reopened \in 0 .. MaxReopened /\ Typed
    BY TotalIs DEF ScaleInv, Typed
  <1> DEFINE n == [fleet EXCEPT !.warm = @ - warm, !.pending = @ - pending,
                               !.allocated = @ - allocated,
                               !.draining = @ + warm + pending + allocated]
  <1>5. SetFleet(n, reopened)
    BY <1>2
  <1>6. n \in Counts /\ Total(n) = Total(fleet)
    <2>1. /\ n.warm = fleet.warm - warm /\ n.pending = fleet.pending - pending
          /\ n.allocated = fleet.allocated - allocated
          /\ n.draining = fleet.draining + warm + pending + allocated
      BY <1>4 DEF Counts
    <2>2. n \in Counts
      <3>1. /\ fleet.warm - warm \in Nat /\ fleet.pending - pending \in Nat
            /\ fleet.allocated - allocated \in Nat
            /\ fleet.draining + warm + pending + allocated \in Nat
        BY <1>4, TotalIs
      <3> QED
        BY <1>4, <3>1 DEF Counts
    <2> HIDE DEF n
    <2> QED
      BY <1>4, <2>1, <2>2, TotalIs DEF Total
  <1> HIDE DEF n
  <1>7. /\ fleet' = n /\ listed' \in Counts /\ (~CacheLag => listed' = fleet')
        /\ reopened' \in 0 .. MaxReopened
    BY <1>4, <1>5, <1>6, SetFleetIs
  <1>8. Breaker' /\ openFor' = 0
    BY <1>1, <1>3, EndsWellKeeps
  <1>9. Typed'
    BY <1>3, <1>6, <1>7, <1>8, ConstantsAre DEF Breaker, ScaleInv, Typed, Ages
  <1>10. FitsIn'
    BY <1>1, <1>3, <1>6, <1>7 DEF ScaleInv, FitsIn
  <1> QED
    BY <1>3, <1>6, <1>7, <1>8, <1>9, <1>10 DEF Breaker, ScaleInv, OneStage, ClosedWhileBusy

------------------------------------------------------------------------------
LEMMA StepsOfNext ==
    ASSUME Next
    PROVE  \/ PolicyMissing \/ MetricsMissing \/ Collect \/ CreatePod
           \/ \E m \in Inputs : Hold(m) \/ Freeze(m) \/ ScaleUp(m) \/ ScaleDown(m)
           \/ PodRuns \/ Allocated \/ Returned \/ Reopens
           \/ \E phase \in Drained : DrainEnds(phase)
           \/ PlayersChange \/ Deliver \/ Tick
  BY DEF Next, Reconcile

LEMMA ScaleInvStep == ScaleInv /\ [Next]_vars => ScaleInv'
  BY StepsOfNext, PodMovesIs, OthersMove, MovedKeeps, TickKeeps, CollectKeeps, HoldKeeps,
     ScaleUpKeeps, CreatePodKeeps, ScaleDownKeeps

LEMMA ScaleSafety == Spec => []ScaleInv
  BY ScaleInvInit, ScaleInvStep, PTL DEF Spec

\* Counts, snapshot, circuit and cooldowns keep their types for every policy.
THEOREM FleetScalingTyping == Spec => []TypeOK
  <1>1. ScaleInv => TypeOK
    BY TypingIs DEF ScaleInv
  <1> QED
    BY <1>1, ScaleSafety, PTL

\* With a cache that is up to date no fleet has more pods than MaxReplicas, draining
\* ones included, whatever fails between the counting and the creation of pods
\* (Scaler.Evaluate, executeScaleUp).
THEOREM MaxIsKept ==
    ASSUME ~CacheLag
    PROVE  Spec => []NeverAboveMax
  <1>1. ScaleInv => NeverAboveMax
    <2> SUFFICES ASSUME ScaleInv PROVE Total(fleet) <= MaxReplicas
      BY DEF NeverAboveMax
    <2>1. Total(fleet) \in Nat /\ todo \in Nat /\ Total(fleet) + todo <= MaxReplicas
      BY TotalIs, ConstantsAre DEF ScaleInv, Typed, FitsIn
    <2> QED
      BY <2>1, ConstantsAre
  <1> QED
    BY <1>1, ScaleSafety, PTL

\* A circuit that has just opened was opened by Threshold failures in a row, in a fleet
\* that is never frozen (recordFailure, resetCircuit).
THEOREM BreakerIsExact ==
    ASSUME ~MayFreeze
    PROVE  Spec => []BreakerCountsConsecutive
  <1>1. ScaleInv => BreakerCountsConsecutive
    BY DEF ScaleInv, CountsExactly
  <1> QED
    BY <1>1, ScaleSafety, PTL

\* For OpenTime after Threshold failures in a row no pod is created or drained, for
\* every threshold, duration, cooldown and policy (isCircuitOpen).
THEOREM BreakerDoesPause == Spec => BreakerPauses
  <1> DEFINE Paused == Total(fleet') > Total(fleet) \/ fleet'.draining > fleet.draining
                         => tripped >= OpenTime
  <1>1. ScaleInv /\ [Next]_vars => [Paused]_vars
    <2> SUFFICES ASSUME ScaleInv, [Next]_vars PROVE Paused
      OBVIOUS
    <2>1. Total(fleet) \in Nat /\ fleet.draining \in Nat
      BY TotalIs DEF ScaleInv, Typed
    <2>2. openFor = 0 => tripped >= OpenTime
      BY ConstantsAre DEF ScaleInv, Typed, Ages, OpensLongEnough
    <2>3. CASE Moved /\ fleet'.draining <= fleet.draining
      <3>1. Total(fleet') \in Nat /\ fleet'.draining \in Nat /\ Total(fleet') <= Total(fleet)
        BY <2>3, TotalIs DEF Moved
      <3> QED
        BY <2>1, <2>3, <3>1
    <2>4. CASE fleet' = fleet
      BY <2>1, <2>4
    <2>5. CASE CreatePod \/ \E m \in Inputs : ScaleDown(m)
      <3>1. openFor = 0
        BY <2>5, InputsAre DEF CreatePod, ScaleInv, ClosedWhileBusy
      <3> QED
        BY <2>2, <3>1
    <2>6. PodRuns \/ Allocated \/ Returned \/ Reopens => Moved /\ fleet'.draining <= fleet.draining
      BY <2>1, PodMovesIs
    <2> HIDE DEF Paused
    <2> QED
      BY <2>3, <2>4, <2>5, <2>6, StepsOfNext, OthersMove, CollectKeeps, HoldKeeps, ScaleUpKeeps
        DEF Tick
  <1> QED
    BY <1>1, ScaleSafety, PTL DEF BreakerPauses, Spec
==============================================================================
