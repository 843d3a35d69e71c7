---------------------------- MODULE FleetScaling -----------------------------
(***************************************************************************)
(* How FleetReconciler (fleet_controller.go) changes the number of pods of  *)
(* one fleet: the counts it collects, the decision of the scaler, cooldowns *)
(* and circuit breaker, and the creation of pods one by one.  Collecting    *)
(* asks every game server for its players and takes a while, in which pods  *)
(* and players move.  Pods are counted by their phase; FleetDrain has the   *)
(* drains in detail.                                                        *)
(***************************************************************************)
EXTENDS Scaler, FiniteSets

CONSTANTS
    MaxPlayers,     \* bound on players
    AuxValues,      \* what auxiliary metrics may add
    Threshold,      \* failures that open the circuit: 5 in the code
    OpenTime,       \* ticks the circuit stays open: 5 minutes
    ScaleUpTicks,   \* Cooldown.ScaleUpSeconds
    ScaleDownTicks, \* Cooldown.ScaleDownSeconds
    CacheLag,       \* whether the informer cache may lag behind the API
    MayFreeze,      \* whether at times the fleet is paused, on a dry run, or short
                    \* of healthy nodes
    MaxReopened,    \* bound on pods relabelled while their drain goes on
    MaxFaults       \* bound on failing API calls and scrapes

ASSUME FleetScalingAssumption ==
    /\ MaxPlayers \in Nat /\ AuxValues \subseteq Nat /\ AuxValues # {}
    /\ Threshold \in Nat \ {0} /\ OpenTime \in Nat \ {0}
    /\ ScaleUpTicks \in Nat /\ ScaleDownTicks \in Nat
    /\ CacheLag \in BOOLEAN /\ MayFreeze \in BOOLEAN
    /\ MaxReopened \in Nat /\ MaxFaults \in Nat

VARIABLES
    fleet,      \* pods of the fleet by phase
    listed,     \* the same as the cache has it
    reopened,   \* how many pods at most are labelled warm or allocated again while
                \* their drain goes on
    players,
    seen,       \* what the Reconcile in progress has collected, none or one
    todo,       \* pods the Reconcile in progress has yet to create
    failures,   \* consecutiveFailures, counted up to Threshold
    openFor,    \* ticks until circuitOpenUntil
    sinceUp,    \* ticks since lastScaleUpAt
    sinceDown,  \* ticks since lastScaleDownAt
    faults,
    streak,     \* history: failures in a row the breaker was told of,
                \* up to Threshold
    tripped     \* history: ticks since a failure that made streak Threshold

circuitVars == <<failures, openFor>>
cooldownVars == <<sinceUp, sinceDown>>
historyVars == <<streak, tripped>>
vars == <<fleet, listed, reopened, players, seen, todo, circuitVars, cooldownVars, faults,
          historyVars>>

Counts == [pending : Nat, warm : Nat, allocated : Nat, draining : Nat]
Snapshots == [replicas : Nat, buffer : Nat, players : Nat]
Total(n) == n.pending + n.warm + n.allocated + n.draining

\* Ages are not counted beyond this; a first scaling has no cooldown.
MaxAge == ScaleUpTicks + ScaleDownTicks + OpenTime
Ages == 0 .. MaxAge

TypeOK ==
    /\ fleet \in Counts
    /\ listed \in Counts
    /\ reopened \in 0 .. MaxReopened
    /\ players \in 0 .. MaxPlayers
    /\ seen \subseteq Snapshots /\ Cardinality(seen) <= 1
    /\ todo \in 0 .. MaxReplicas
    /\ failures \in 0 .. Threshold /\ openFor \in 0 .. OpenTime
    /\ sinceUp \in Ages /\ sinceDown \in Ages
    /\ faults \in 0 .. MaxFaults
    /\ streak \in 0 .. Threshold
    /\ tripped \in Ages

Init ==
    /\ fleet = [pending |-> 0, warm |-> 0, allocated |-> 0, draining |-> 0]
    /\ listed = fleet /\ reopened = 0
    /\ players = 0 /\ seen = {} /\ todo = 0
    /\ failures = 0 /\ openFor = 0
    /\ sinceUp = MaxAge /\ sinceDown = MaxAge
    /\ faults = 0
    /\ streak = 0 /\ tripped = MaxAge

------------------------------------------------------------------------------
Fault == faults < MaxFaults /\ faults' = faults + 1
NoFault == UNCHANGED faults

SetFleet(n, open) ==
    /\ fleet' = n
    /\ listed' = IF CacheLag THEN listed ELSE n
    /\ reopened' = IF open > n.warm + n.allocated THEN n.warm + n.allocated ELSE open

\* What else happens to the fleet: kubelet, allocations, players, finished drains.
PodMoves(from, to, open) ==
    /\ fleet[from] > 0
    /\ SetFleet([fleet EXCEPT ![from] = @ - 1, ![to] = @ + 1], open)
    /\ UNCHANGED <<players, seen, todo, circuitVars, cooldownVars, faults, historyVars>>

PodRuns == PodMoves("pending", "warm", reopened)
Allocated == PodMoves("warm", "allocated", reopened)
Returned ==
    /\ players <= TargetValue * (fleet.allocated - 1)
    /\ PodMoves("allocated", "warm", reopened)

\* An allocation that picked the server before its drain began labels it allocated,
\* and its rollback or the release of the server labels it warm; the drain goes on.
Reopens ==
    /\ reopened < MaxReopened
    /\ \E label \in {"allocated", "warm"} : PodMoves("draining", label, reopened + 1)

\* The pod is deleted, whatever its label is by then.  Players leave in steps of
\* their own.
DrainEnds(phase) ==
    /\ fleet[phase] > 0
    /\ phase = "draining" \/ reopened > 0
    /\ SetFleet([fleet EXCEPT ![phase] = @ - 1],
                IF phase = "draining" THEN reopened ELSE reopened - 1)
    /\ UNCHANGED <<players, seen, todo, circuitVars, cooldownVars, faults, historyVars>>

Drained == {"draining", "warm", "allocated"}

PlayersChange ==
    /\ \/ players < MaxPlayers /\ players < TargetValue * fleet.allocated /\ players' = players + 1
       \/ players > 0 /\ players' = players - 1
    /\ UNCHANGED <<fleet, listed, reopened, seen, todo, circuitVars, cooldownVars, faults, historyVars>>

Deliver ==
    /\ listed # fleet
    /\ listed' = fleet
    /\ UNCHANGED <<fleet, reopened, players, seen, todo, circuitVars, cooldownVars, faults, historyVars>>

\* A tick is longer than a Reconcile and than the lag of the cache.
Tick ==
    LET later(age) == IF age < MaxAge THEN age + 1 ELSE age IN
    /\ seen = {} /\ todo = 0 /\ listed = fleet
    /\ openFor' = IF openFor > 0 THEN openFor - 1 ELSE 0
    /\ sinceUp' = later(sinceUp) /\ sinceDown' = later(sinceDown)
    /\ tripped' = later(tripped)
    /\ UNCHANGED <<fleet, listed, reopened, players, seen, todo, failures, faults, streak>>

------------------------------------------------------------------------------
\* Circuit breaker and cooldowns.
\* Seeded fault: the circuit stays open until the count is reset.
isCircuitOpenByCount == failures >= Threshold

isCircuitOpen == openFor > 0

\* Seeded fault: the circuit opens one failure later.
recordFailureLate ==
    /\ failures' = IF failures < Threshold THEN failures + 1 ELSE failures
    /\ openFor' = IF failures = Threshold THEN OpenTime ELSE openFor

recordFailure ==
    /\ failures' = IF failures < Threshold THEN failures + 1 ELSE failures
    /\ openFor' = IF failures + 1 >= Threshold THEN OpenTime ELSE openFor

\* Seeded fault: a success closes the circuit and keeps the count.
resetCircuitHalf == openFor' = 0 /\ UNCHANGED failures

resetCircuit == failures' = 0 /\ openFor' = 0

CoolingDown(since, window) == since < window

\* A Reconcile fails, and the breaker is told.
Fails ==
    /\ Fault
    /\ recordFailure
    /\ streak' = IF streak < Threshold THEN streak + 1 ELSE streak
    /\ tripped' = IF streak + 1 >= Threshold THEN 0 ELSE tripped

\* A Reconcile ends well, whatever it decided.
EndsWell == streak' = 0 /\ UNCHANGED <<tripped, faults>>

------------------------------------------------------------------------------
\* FleetReconciler.Reconcile.
Ready == seen = {} /\ todo = 0 /\ ~isCircuitOpen

PolicyMissing ==
    /\ Ready
    /\ Fails
    /\ UNCHANGED <<fleet, listed, reopened, players, seen, todo, cooldownVars>>

\* Without the list of pods Reconcile fails as well, but nobody counts it.
MetricsMissing ==
    /\ Ready
    /\ Fault
    /\ UNCHANGED <<fleet, listed, reopened, players, seen, todo, circuitVars, cooldownVars, historyVars>>

\* Seeded fault: draining pods are not counted.
CollectServing ==
    /\ Ready
    /\ seen' = {[replicas |-> Total(listed) - listed.draining, buffer |-> listed.warm,
                 players |-> players]}
    /\ UNCHANGED <<fleet, listed, reopened, players, todo, circuitVars, cooldownVars, faults, historyVars>>

\* The players the game servers report; those of servers that do not answer are
\* missing.
ScrapeFleet(reported) ==
    \/ reported = players /\ NoFault
    \/ reported < players /\ Fault

\* collectFleetMetrics: what the cache lists, and what the servers report.
Collect ==
    /\ Ready
    /\ \E reported \in 0 .. players :
          /\ ScrapeFleet(reported)
          /\ seen' = {[replicas |-> Total(listed), buffer |-> listed.warm,
                       players |-> reported]}
    /\ UNCHANGED <<fleet, listed, reopened, players, todo, circuitVars, cooldownVars, historyVars>>

\* What the scaler is given: a snapshot, auxiliary metrics, the spec of the fleet and
\* the health of the nodes.
Input(v, aux, paused, degraded) ==
    [replicas |-> v.replicas, buffer |-> v.buffer, players |-> v.players,
     aux |-> aux, paused |-> paused, degraded |-> degraded]

Freezing == IF MayFreeze THEN BOOLEAN ELSE {FALSE}
Inputs == {Input(v, aux, paused, degraded) :
             v \in seen, aux \in AuxValues, paused \in Freezing, degraded \in Freezing}

\* A decision to scale is turned into a hold while its cooldown lasts; on a dry run
\* it comes to nothing, too, and counts as a success.
Hold(m) ==
    LET d == Evaluate(m).decision IN
    /\ \/ d = "HOLD"
       \/ d = "SCALE_UP" /\ (MayFreeze \/ CoolingDown(sinceUp, ScaleUpTicks))
       \/ d = "SCALE_DOWN" /\ (MayFreeze \/ CoolingDown(sinceDown, ScaleDownTicks))
    /\ seen' = {}
    /\ resetCircuit
    /\ EndsWell
    /\ UNCHANGED <<fleet, listed, reopened, players, todo, cooldownVars>>

\* A frozen fleet keeps its count of failures.
Freeze(m) ==
    /\ Evaluate(m).decision = "FROZEN"
    /\ seen' = {}
    /\ EndsWell
    /\ UNCHANGED <<fleet, listed, reopened, players, todo, circuitVars, cooldownVars>>

ScaleUp(m) ==
    /\ Evaluate(m).decision = "SCALE_UP" /\ ~CoolingDown(sinceUp, ScaleUpTicks)
    /\ seen' = {}
    /\ todo' = Evaluate(m).delta
    /\ UNCHANGED <<fleet, listed, reopened, players, circuitVars, cooldownVars, faults, historyVars>>

\* executeScaleUp creates the next pod, or gives up and leaves no cooldown.
CreatePod ==
    /\ todo > 0
    /\ \/ /\ SetFleet([fleet EXCEPT !.pending = @ + 1], reopened)
          /\ todo' = todo - 1
          /\ IF todo = 1 THEN sinceUp' = 0 /\ resetCircuit /\ EndsWell
                         ELSE UNCHANGED <<sinceUp, circuitVars, faults, streak, tripped>>
       \/ /\ Fails
          /\ todo' = 0
          /\ UNCHANGED <<fleet, listed, reopened, sinceUp>>
    /\ UNCHANGED <<players, seen, sinceDown>>

\* Seeded fault: as many are drained as asked for, idle or not.
ScaleDownUncapped(m) ==
    /\ seen' = {}
    /\ Evaluate(m).decision = "SCALE_DOWN" /\ ~CoolingDown(sinceDown, ScaleDownTicks)
    /\ SetFleet([fleet EXCEPT !.warm = @ + Evaluate(m).delta,
                              !.draining = @ - Evaluate(m).delta], reopened)
    /\ sinceDown' = 0
    /\ resetCircuit
    /\ EndsWell
    /\ UNCHANGED <<players, todo, sinceUp>>

\* executeScaleDown drains what the pool of the controller calls idle: warm servers,
\* pods that do not run yet, servers that another process has allocated.  At most as
\* many as asked for, maybe none.
ScaleDown(m) ==
    /\ seen' = {}
    /\ Evaluate(m).decision = "SCALE_DOWN" /\ ~CoolingDown(sinceDown, ScaleDownTicks)
    /\ \E warm \in 0 .. fleet.warm, pending \in 0 .. fleet.pending,
          allocated \in 0 .. fleet.allocated :
          /\ warm + pending + allocated <= -Evaluate(m).delta
          /\ SetFleet([fleet EXCEPT !.warm = @ - warm, !.pending = @ - pending,
                                    !.allocated = @ - allocated,
                                    !.draining = @ + warm + pending + allocated],
                      reopened)
    /\ sinceDown' = 0
    /\ resetCircuit
    /\ EndsWell
    /\ UNCHANGED <<players, todo, sinceUp>>

Reconcile ==
    \/ PolicyMissing \/ MetricsMissing \/ Collect \/ CreatePod
    \/ \E m \in Inputs : Hold(m) \/ Freeze(m) \/ ScaleUp(m) \/ ScaleDown(m)

Next ==
    \/ Reconcile
    \/ PodRuns \/ Allocated \/ Returned \/ Reopens
    \/ \E phase \in Drained : DrainEnds(phase)
    \/ PlayersChange \/ Deliver \/ Tick

Spec == Init /\ [][Next]_vars

\* A failed Reconcile is queued again, a successful one every 15 seconds; pods
\* start, drains end (in a deleted pod), and time passes between two Reconciles.
Fairness ==
    /\ WF_vars(Reconcile) /\ SF_vars(Tick)
    /\ WF_vars(PodRuns) /\ WF_vars(DrainEnds("draining")) /\ WF_vars(Deliver)

FairSpec == Spec /\ Fairness

------------------------------------------------------------------------------
\* "MaxReplicas is the upper bound for fleet replica count"
\* (autoscalerpolicy_types.go), draining pods included.
NeverAboveMax == Total(fleet) <= MaxReplicas

\* No pod is created or drained for OpenTime after Threshold failures in a row:
\* "pauses scaling operations for that Fleet for 5 minutes" (README.md:1112).
BreakerPauses ==
    [][Total(fleet') > Total(fleet) \/ fleet'.draining > fleet.draining
         => tripped >= OpenTime]_vars

\* Every load is met in the end by pods that do not drain, with the buffer on top,
\* as far as the bounds allow: failures, missed scrapes, an open circuit, cooldowns
\* and a scale-down decided on old counts only delay a scale-up.
LoadIsMet ==
    []<>(Total(fleet) - fleet.draining >= Clamped(ServersForPlayers(players) + BufferSize))

\* "After N consecutive reconcile failures" (README.md:1112): a circuit that has
\* just opened was opened by that many failures without a success in between.
BreakerCountsConsecutive == openFor = OpenTime => tripped = 0
==============================================================================
