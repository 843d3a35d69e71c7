----------------------------- MODULE PoolManager -----------------------------
(***************************************************************************)
(* pool.PoolManager: per fleet, the servers it may hand out, one action per *)
(* method.  Every method holds mu throughout, so a call is one step; its    *)
(* callers (the two reconcilers, the REST handler, the label sync) may call *)
(* in any order.  LastUsedAt is kept as the time since then, idle, which    *)
(* stops counting at MaxIdle.                                               *)
(***************************************************************************)
EXTENDS Scheduler, PoolState

CONSTANTS
    Fleets,
    Servers,    \* server names, ordered as numbers
    Timeouts,   \* values a policy gives IdleTimeout; 0 turns idle draining off
    MaxIdle,    \* bound on idle times
    MaxCount    \* bound on AllocationCount

ASSUME ServersAssumption == Servers \subseteq Nat /\ IsFiniteSet(Servers)
ASSUME BoundsAssumption ==
    /\ MaxIdle \in Nat
    /\ MaxCount \in Nat
    /\ \A timeout \in Timeouts : timeout \in Nat /\ timeout < MaxIdle
    /\ 0 \in Timeouts

VARIABLES
    pool,           \* pool[f]: availability, see PoolState
    count,          \* count[f][s]: AllocationCount
    idle,           \* idle[f][s]: time since LastUsedAt
    roundRobinIdx,  \* roundRobinIdx[f]
    idleTimeout,    \* idleTimeout[f]: configs[f].IdleTimeout
    lease,          \* history: servers handed out by f's pool and not given back
    rest            \* history: rest[f][s], time since s was last in lease[f]

vars == <<pool, count, idle, roundRobinIdx, idleTimeout, lease, rest>>

TypeOK ==
    /\ pool \in [Fleets -> Pools(Servers)]
    /\ \A f \in Fleets : WellFormed(pool[f])
    /\ count \in [Fleets -> [Servers -> 0 .. MaxCount]]
    /\ idle \in [Fleets -> [Servers -> 0 .. MaxIdle]]
    /\ roundRobinIdx \in [Fleets -> Nat]
    /\ idleTimeout \in [Fleets -> Timeouts]
    /\ lease \in [Fleets -> SUBSET Servers]
    /\ rest \in [Fleets -> [Servers -> 0 .. MaxIdle]]

Init ==
    /\ pool = [f \in Fleets |-> EmptyPool]
    /\ count = [f \in Fleets |-> [s \in Servers |-> 0]]
    /\ idle = [f \in Fleets |-> [s \in Servers |-> 0]]
    /\ roundRobinIdx = [f \in Fleets |-> 0]
    /\ idleTimeout = [f \in Fleets |-> 0]
    /\ lease = [f \in Fleets |-> {}]
    /\ rest = [f \in Fleets |-> [s \in Servers |-> MaxIdle]]

------------------------------------------------------------------------------
UpdateFleetConfig(f, timeout) ==
    /\ idleTimeout' = [idleTimeout EXCEPT ![f] = timeout]
    /\ UNCHANGED <<pool, count, idle, roundRobinIdx, lease, rest>>

Register(f, s) ==
    /\ s \notin pool[f].tracked
    /\ pool' = [pool EXCEPT ![f] = Registered(@, s)]
    /\ count' = [count EXCEPT ![f][s] = 0]
    /\ idle' = [idle EXCEPT ![f][s] = 0]
    /\ UNCHANGED <<roundRobinIdx, idleTimeout, lease, rest>>

\* A second Register, which every label sync makes for every running pod.
RegisterAgain(f, s) ==
    /\ s \in pool[f].tracked
    /\ pool' = [pool EXCEPT ![f] = Registered(@, s)]
    /\ UNCHANGED <<count, idle, roundRobinIdx, idleTimeout, lease, rest>>

\* allowedNames restricts the candidates unless it is empty.
Eligible(f, allowed) ==
    IF allowed = {} THEN Candidates(pool[f]) ELSE Candidates(pool[f]) \cap allowed

Choice(f, strategy, allowed) ==
    IF strategy = "RoundRobin"
      THEN RoundRobinAt(Eligible(f, allowed), roundRobinIdx[f])
      ELSE RankAndSelect(Eligible(f, allowed), strategy, count[f])

AllocateWithFilter(f, strategy, allowed) ==
    \E s \in Choice(f, strategy, allowed) :
        /\ count[f][s] < MaxCount
        /\ roundRobinIdx' =
             IF strategy = "RoundRobin"
               THEN [roundRobinIdx EXCEPT
                       ![f] = (@ % Cardinality(Eligible(f, allowed))) + 1]
               ELSE roundRobinIdx
        /\ pool' = [pool EXCEPT ![f] = SetAllocated(@, s)]
        /\ count' = [count EXCEPT ![f][s] = @ + 1]
        /\ idle' = [idle EXCEPT ![f][s] = 0]
        /\ lease' = [lease EXCEPT ![f] = @ \cup {s}]
        /\ rest' = [rest EXCEPT ![f][s] = 0]
        /\ UNCHANGED idleTimeout

\* Allocate is AllocateWithFilter without a selector.
Allocate(f, strategy) == AllocateWithFilter(f, strategy, {})

\* Seeded fault: LastUsedAt keeps the time of the allocation.
ReleaseKeepingLastUsed(f, s) ==
    /\ s \in pool[f].tracked
    /\ pool' = [pool EXCEPT ![f] = Released(@, s)]
    /\ lease' = [lease EXCEPT ![f] = @ \ {s}]
    /\ UNCHANGED <<count, idle, roundRobinIdx, idleTimeout, rest>>

Release(f, s) ==
    /\ s \in pool[f].tracked
    /\ pool' = [pool EXCEPT ![f] = Released(@, s)]
    /\ idle' = [idle EXCEPT ![f][s] = 0]
    /\ lease' = [lease EXCEPT ![f] = @ \ {s}]
    /\ UNCHANGED <<count, roundRobinIdx, idleTimeout, rest>>

\* A label says "allocated": the server is taken without being handed out here.
MarkAllocated(f, s) ==
    /\ s \in pool[f].tracked
    /\ count[f][s] < MaxCount
    /\ pool' = [pool EXCEPT ![f] = SetAllocated(@, s)]
    /\ count' = [count EXCEPT ![f][s] = @ + 1]
    /\ idle' = [idle EXCEPT ![f][s] = 0]
    /\ UNCHANGED <<roundRobinIdx, idleTimeout, lease, rest>>

MarkAvailable(f, s) ==
    /\ s \in pool[f].tracked
    /\ pool' = [pool EXCEPT ![f] = MadeAvailable(@, s)]
    /\ idle' = [idle EXCEPT ![f][s] = 0]
    /\ lease' = [lease EXCEPT ![f] = @ \ {s}]
    /\ UNCHANGED <<count, roundRobinIdx, idleTimeout, rest>>

MarkUnhealthy(f, s) ==
    /\ pool' = [pool EXCEPT ![f] = MadeUnhealthy(@, s)]
    /\ UNCHANGED <<count, idle, roundRobinIdx, idleTimeout, lease, rest>>

Remove(f, s) ==
    /\ pool' = [pool EXCEPT ![f] = Removed(@, s)]
    /\ lease' = [lease EXCEPT ![f] = @ \ {s}]
    /\ UNCHANGED <<count, idle, roundRobinIdx, idleTimeout, rest>>

\* One unit of time; rest does not count while the server is handed out.
Tick ==
    /\ idle' = [f \in Fleets |-> [s \in Servers |->
                  IF idle[f][s] < MaxIdle THEN idle[f][s] + 1 ELSE idle[f][s]]]
    /\ rest' = [f \in Fleets |-> [s \in Servers |->
                  IF s \in lease[f] THEN 0
                  ELSE IF rest[f][s] < MaxIdle THEN rest[f][s] + 1 ELSE rest[f][s]]]
    /\ UNCHANGED <<pool, count, roundRobinIdx, idleTimeout, lease>>

\* Everything but an allocation.
Housekeeping ==
    \/ \E f \in Fleets : \E timeout \in Timeouts : UpdateFleetConfig(f, timeout)
    \/ \E f \in Fleets : \E s \in Servers :
          \/ Register(f, s)
          \/ RegisterAgain(f, s)
          \/ Release(f, s)
          \/ MarkAllocated(f, s)
          \/ MarkAvailable(f, s)
          \/ MarkUnhealthy(f, s)
          \/ Remove(f, s)
    \/ Tick

Next ==
    \/ \E f \in Fleets : \E strategy \in Strategies :
          \/ Allocate(f, strategy)
          \/ \E allowed \in (SUBSET Servers) \ {{}} :
                AllocateWithFilter(f, strategy, allowed)
    \/ Housekeeping

Spec == Init /\ [][Next]_vars

------------------------------------------------------------------------------
\* The first n servers of the list IdleServers returns, which executeScaleDown
\* drains when it wants n (fleet_controller.go:344-348).
DrainChoice(f, n) ==
    IF idleTimeout[f] = 0
      THEN {}
      ELSE SelectForDrain({s \in Candidates(pool[f]) : idle[f][s] > idleTimeout[f]},
                          count[f], n)

IdleServers(f) == DrainChoice(f, Cardinality(Candidates(pool[f])))

\* Whenever a server is eligible exactly one is chosen: the round-robin index, which
\* may point past the end of a list that has shrunk, is brought back into it, and
\* the error of a ranking that selects nobody (pool.go:120, 373) is never returned.
AlwaysServed ==
    \A f \in Fleets : \A strategy \in Strategies : \A allowed \in SUBSET Servers :
        Eligible(f, allowed) # {} => Cardinality(Choice(f, strategy, allowed)) = 1

\* No server that was handed out and not given back is a candidate again:
\* "The allocated server should not be returned again" (pool_test.go:27), through
\* any mix of repeated Registers, label marks, drains and filters.
NotReturnedAgain == \A f \in Fleets : lease[f] \cap Candidates(pool[f]) = {}

\* A server offered for draining has not been in a client's hands for longer
\* than IdleTimeout: the time of a match never counts as idle time.
IdleMeansUnused ==
    \A f \in Fleets : \A s \in IdleServers(f) :
        s \notin lease[f] /\ rest[f][s] > idleTimeout[f]

\* "servers with the least usage are drained first" (pool.go:241): whoever is left
\* was used at least as often, and ties, which are common, neither spare a server
\* nor drain one too many.
DrainsLeastUsed ==
    \A f \in Fleets : \A n \in 1 .. Cardinality(Servers) :
        LET drained == DrainChoice(f, n)
            kept == IdleServers(f) \ drained
        IN /\ kept = {} \/ Cardinality(drained) = n
           /\ \A s \in drained, t \in kept : count[f][s] <= count[f][t]
==============================================================================
