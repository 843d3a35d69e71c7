-------------------------- MODULE PoolManagerProofs --------------------------
(***************************************************************************)
(* Theorems about PoolManager, and about RoundRobin which adds a history to *)
(* it, for every set of fleets, every finite set of servers and every bound.*)
(* First the rank of a server in a sorted list, then the inductive          *)
(* invariant of the pool, then the turns of the round-robin strategy.       *)
(***************************************************************************)
EXTENDS RoundRobin, PoolStateProofs, FiniteSetTheorems

------------------------------------------------------------------------------
\* before[s] is who sorts before s.  If of any two members one sorts before the
\* other and keeps that place, the ranks number the members from 0 without a gap.
Sorted(C, before) ==
    \A s, t \in C : /\ s \notin before[s]
                    /\ s # t => \/ s \in before[t] /\ before[s] \subseteq before[t]
                                \/ t \in before[s] /\ before[t] \subseteq before[s]

LEMMA RankBijection ==
    ASSUME NEW C, IsFiniteSet(C), NEW before \in [C -> SUBSET C], Sorted(C, before)
    PROVE  [s \in C |-> Cardinality(before[s])] \in Bijection(C, 0 .. Cardinality(C) - 1)
  <1> DEFINE rank == [s \in C |-> Cardinality(before[s])]
             ranks == 0 .. Cardinality(C) - 1
  <1>1. Cardinality(C) \in Nat
    BY FS_CardinalityType
  <1>2. ASSUME NEW s \in C
        PROVE  /\ IsFiniteSet(before[s]) /\ Cardinality(before[s]) \in Nat
               /\ Cardinality(before[s]) < Cardinality(C)
    <2>1. before[s] \subseteq C /\ s \notin before[s]
      BY DEF Sorted
    <2>2. IsFiniteSet(before[s]) /\ Cardinality(before[s]) <= Cardinality(C)
      BY <2>1, FS_Subset
    <2>3. Cardinality(before[s]) # Cardinality(C)
      BY <2>1, FS_Subset
    <2>4. Cardinality(before[s]) \in Nat
      BY <2>2, FS_CardinalityType
    <2> QED
      BY <1>1, <2>2, <2>3, <2>4
  <1>3. rank \in [C -> ranks]
    BY <1>1, <1>2
  <1>4. ASSUME NEW s \in C, NEW t \in C, s \in before[t], before[s] \subseteq before[t]
        PROVE  Cardinality(before[s]) # Cardinality(before[t])
    <2>1. s \notin before[s]
      BY DEF Sorted
    <2> QED
      BY <1>2, <1>4, <2>1, FS_Subset
  <1>5. ASSUME NEW s \in C, NEW t \in C, s # t
        PROVE  rank[s] # rank[t]
    BY <1>4, <1>5 DEF Sorted
  <1>6. rank \in Injection(C, ranks)
    BY <1>3, <1>5 DEF Injection, IsInjective
  <1>7. IsFiniteSet(ranks) /\ Cardinality(ranks) = Cardinality(C)
    BY <1>1, FS_Interval
  <1>8. rank \in Surjection(C, ranks)
    BY <1>6, <1>7, FS_Injection
  <1> QED
    BY <1>6, <1>8 DEF Bijection

\* In a sorted list of at least n, n members have a rank below n.
LEMMA PrefixSize ==
    ASSUME NEW C, IsFiniteSet(C), NEW before \in [C -> SUBSET C], Sorted(C, before),
           NEW n \in 0 .. Cardinality(C)
    PROVE  Cardinality({s \in C : Cardinality(before[s]) < n}) = n
  <1> DEFINE rank == [s \in C |-> Cardinality(before[s])]
             prefix == {s \in C : Cardinality(before[s]) < n}
             short == [s \in prefix |-> rank[s]]
  <1>1. rank \in Bijection(C, 0 .. Cardinality(C) - 1) /\ Cardinality(C) \in Nat
    BY RankBijection, FS_CardinalityType
  <1>2. /\ \A s \in C : rank[s] \in 0 .. Cardinality(C) - 1
        /\ \A s, t \in C : rank[s] = rank[t] => s = t
        /\ \A i \in 0 .. Cardinality(C) - 1 : \E s \in C : rank[s] = i
    <2> HIDE DEF rank
    <2> QED
      BY <1>1 DEF Bijection, Injection, IsInjective, Surjection
  <1>3. \A s \in C : s \in prefix <=> rank[s] < n
    OBVIOUS
  <1>4. short \in [prefix -> 0 .. n - 1]
    BY <1>1, <1>2, <1>3
  <1>5. short \in Injection(prefix, 0 .. n - 1)
    BY <1>2, <1>4 DEF Injection, IsInjective
  <1>6. \A i \in 0 .. n - 1 : \E s \in prefix : short[s] = i
    BY <1>1, <1>2, <1>3
  <1>7. short \in Surjection(prefix, 0 .. n - 1)
    BY <1>4, <1>6 DEF Surjection
  <1>8. IsFiniteSet(0 .. n - 1) /\ Cardinality(0 .. n - 1) = n
    BY FS_Interval
  <1>9. Cardinality(prefix) = Cardinality(0 .. n - 1)
    BY <1>5, <1>7, <1>8, FS_Injection
  <1> QED
    BY <1>8, <1>9

\* In a sorted list, exactly one member has the rank i, if i is below its length.
LEMMA OneAtRank ==
    ASSUME NEW C \in SUBSET Nat, IsFiniteSet(C), NEW before \in [C -> SUBSET C], Sorted(C, before),
           NEW i \in 0 .. Cardinality(C) - 1
    PROVE  \E s \in C : \A t \in C : Cardinality(before[t]) = i <=> t = s
  <1> DEFINE rank == [s \in C |-> Cardinality(before[s])]
  <1>1. rank \in Bijection(C, 0 .. Cardinality(C) - 1)
    BY RankBijection
  <1>2. /\ \A s, t \in C : rank[s] = rank[t] => s = t
        /\ \E s \in C : rank[s] = i
    <2> HIDE DEF rank
    <2> QED
      BY <1>1 DEF Bijection, Injection, IsInjective, Surjection
  <1> QED
    BY <1>2

\* Each strategy sorts any list of servers, whatever their loads.
LEMMA StrategySorts ==
    ASSUME NEW C \in SUBSET Nat, NEW S, C \subseteq S, NEW load \in [S -> Nat],
           NEW strategy \in Strategies
    PROVE  Sorted(C, [s \in C |-> {t \in C : Precedes(strategy, load, t, s)}])
  <1> SUFFICES ASSUME NEW s \in C, NEW t \in C
               PROVE  /\ ~ Precedes(strategy, load, s, s)
                      /\ s # t => \/ /\ Precedes(strategy, load, s, t)
                                     /\ \A u \in C : Precedes(strategy, load, u, s)
                                                     => Precedes(strategy, load, u, t)
                                  \/ /\ Precedes(strategy, load, t, s)
                                     /\ \A u \in C : Precedes(strategy, load, u, t)
                                                     => Precedes(strategy, load, u, s)
    BY DEF Sorted
  <1>1. \A u \in C : u \in Nat /\ load[u] \in Nat
    OBVIOUS
  <1>2. CASE strategy = "LowestLatency"
    BY <1>1, <1>2 DEF Precedes
  <1>3. CASE strategy = "StrictBinPack"
    BY <1>1, <1>3 DEF Precedes
  <1>4. CASE strategy \in {"FewestPlayers", "RoundRobin"}
    BY <1>1, <1>4 DEF Precedes, LessLoaded
  <1> QED
    BY <1>2, <1>3, <1>4 DEF Strategies

\* The order of RoundRobinAt, which is that of the names.
LEMMA NamesSort ==
    ASSUME NEW C \in SUBSET Nat
    PROVE  Sorted(C, [s \in C |-> {t \in C : t < s}])
  <1> SUFFICES ASSUME NEW s \in C, NEW t \in C
               PROVE  /\ ~(s < s)
                      /\ s # t => \/ s < t /\ \A u \in C : u < s => u < t
                                  \/ t < s /\ \A u \in C : u < t => u < s
    BY DEF Sorted
  <1>1. \A u \in C : u \in Nat
    OBVIOUS
  <1> QED
    BY <1>1

\* Round-robin: whatever the index, one candidate is at that position.
LEMMA RoundRobinAtOne ==
    ASSUME NEW C \in SUBSET Nat, IsFiniteSet(C), C # {}, NEW i \in Nat
    PROVE  \E s \in C : /\ RoundRobinAt(C, i) = {s}
                        /\ Cardinality({t \in C : t < s}) = i % Cardinality(C)
  <1> DEFINE lower == [s \in C |-> {t \in C : t < s}]
             turn == i % Cardinality(C)
  <1>1. lower \in [C -> SUBSET C] /\ Sorted(C, lower)
    BY NamesSort
  <1>2. Cardinality(C) \in Nat \ {0}
    BY FS_CardinalityType, FS_EmptySet
  <1>3. turn \in 0 .. Cardinality(C) - 1
    <2>1. \A n \in Nat \ {0} : i % n \in 0 .. n - 1
      OBVIOUS
    <2> QED
      BY <1>2, <2>1
  <1>4. PICK s \in C : \A t \in C : Cardinality(lower[t]) = turn <=> t = s
    <2> HIDE DEF lower, turn
    <2> QED
      BY <1>1, <1>3, OneAtRank
  <1>5. \A t \in C : lower[t] = {u \in C : u < t}
    OBVIOUS
  <1> HIDE DEF lower
  <1> QED
    BY <1>4, <1>5 DEF RoundRobinAt

\* A ranking of at least one candidate selects exactly one.
LEMMA RankAndSelectOne ==
    ASSUME NEW C \in SUBSET Nat, IsFiniteSet(C), C # {}, NEW S, C \subseteq S,
           NEW load \in [S -> Nat], NEW strategy \in Strategies
    PROVE  Cardinality(RankAndSelect(C, strategy, load)) = 1
  <1> DEFINE lower == [s \in C |-> {t \in C : Precedes(strategy, load, t, s)}]
  <1>1. lower \in [C -> SUBSET C] /\ Sorted(C, lower)
    BY StrategySorts
  <1>2. 0 \in 0 .. Cardinality(C) - 1
    BY FS_CardinalityType, FS_EmptySet
  <1>3. PICK first \in C : \A t \in C : Cardinality(lower[t]) = 0 <=> t = first
    <2> HIDE DEF lower
    <2> QED
      BY <1>1, <1>2, OneAtRank
  <1>4. \A s \in C : Cardinality(lower[s]) = 0 <=> lower[s] = {}
    BY <1>1, FS_Subset, FS_EmptySet
  <1>5. ASSUME NEW s \in C
        PROVE  lower[s] = {} <=> \A t \in C \ {s} : Precedes(strategy, load, s, t)
    <2>1. \A t \in C : /\ ~ Precedes(strategy, load, t, t)
                       /\ Precedes(strategy, load, s, t) =>
                            ~ Precedes(strategy, load, t, s)
                       /\ s # t => \/ Precedes(strategy, load, s, t)
                                  \/ Precedes(strategy, load, t, s)
      BY <1>1 DEF Sorted
    <2> QED
      BY <2>1
  <1>6. RankAndSelect(C, strategy, load) = {first}
    <2> HIDE DEF lower
    <2> QED
      BY <1>3, <1>4, <1>5 DEF RankAndSelect
  <1> QED
    BY <1>6, FS_Singleton

\* The sort of RankAndSelect has one first element at most: which server is
\* handed out does not depend on the order in which Go iterates over the map.
THEOREM SelectionDeterministic ==
    ASSUME NEW C \in SUBSET Nat, NEW S, C \subseteq S, NEW load \in [S -> Nat],
           NEW strategy \in Strategies,
           NEW s \in RankAndSelect(C, strategy, load),
           NEW t \in RankAndSelect(C, strategy, load)
    PROVE  s = t
  <1> SUFFICES ASSUME s # t PROVE FALSE
    OBVIOUS
  <1>1. s \in C /\ t \in C
    BY DEF RankAndSelect
  <1>2. Precedes(strategy, load, s, t) /\ Precedes(strategy, load, t, s)
    BY <1>1 DEF RankAndSelect
  <1>3. s \in Nat /\ t \in Nat /\ load[s] \in Nat /\ load[t] \in Nat
    BY <1>1
  <1> QED
    BY <1>2, <1>3 DEF Precedes, LessLoaded, Strategies

\* A list cut at n has n servers, or all when there are no more than n: ties in the
\* load neither let a server slip through nor take one too many.
THEOREM DrainSize ==
    ASSUME NEW C \in SUBSET Nat, IsFiniteSet(C), NEW S, C \subseteq S,
           NEW load \in [S -> Nat], NEW n \in Nat
    PROVE  IF n < Cardinality(C) THEN Cardinality(SelectForDrain(C, load, n)) = n
                                 ELSE SelectForDrain(C, load, n) = C
  <1> DEFINE lower == [s \in C |-> {t \in C : Precedes("FewestPlayers", load, t, s)}]
  <1>1. lower \in [C -> SUBSET C] /\ Sorted(C, lower)
    BY StrategySorts DEF Strategies
  <1>2. \A s \in C : lower[s] = {t \in C : LessLoaded(load, t, s)}
    BY DEF Precedes
  <1>3. Cardinality(C) \in Nat
    BY FS_CardinalityType
  <1> HIDE DEF lower
  <1>4. SelectForDrain(C, load, n) = {s \in C : Cardinality(lower[s]) < n}
    BY <1>2 DEF SelectForDrain
  <1>5. CASE n < Cardinality(C)
    <2>1. n \in 0 .. Cardinality(C)
      BY <1>3, <1>5
    <2>2. Cardinality({s \in C : Cardinality(lower[s]) < n}) = n
      BY <1>1, <2>1, PrefixSize
    <2> QED
      BY <1>4, <1>5, <2>2
  <1>6. CASE ~ (n < Cardinality(C))
    <2> DEFINE rank == [s \in C |-> Cardinality(lower[s])]
    <2>1. rank \in Bijection(C, 0 .. Cardinality(C) - 1)
      BY <1>1, RankBijection
    <2>2. \A s \in C : rank[s] \in 0 .. Cardinality(C) - 1
      <3> HIDE DEF rank
      <3> QED
        BY <2>1 DEF Bijection, Injection
    <2>3. \A s \in C : Cardinality(lower[s]) < n
      BY <1>3, <1>6, <2>2
    <2> QED
      BY <1>4, <1>6, <2>3
  <1> QED
    BY <1>5, <1>6

\* Wherever the drain list is cut, whoever is drained sorts before whoever is kept:
\* a server with fewer allocations never stays while a busier one goes.
THEOREM LeastUsedFirst ==
    ASSUME NEW C \in SUBSET Nat, IsFiniteSet(C), NEW S, C \subseteq S,
           NEW load \in [S -> Nat], NEW n \in Nat,
           NEW s \in SelectForDrain(C, load, n),
           NEW t \in C \ SelectForDrain(C, load, n)
    PROVE  load[s] <= load[t]
  <1> DEFINE Before(x) == {u \in C : LessLoaded(load, u, x)}
  <1>1. s \in C /\ t \in C
    BY DEF SelectForDrain
  <1>2. s \in Nat /\ t \in Nat /\ load[s] \in Nat /\ load[t] \in Nat
    BY <1>1
  <1>3. Cardinality(Before(s)) < n /\ ~(Cardinality(Before(t)) < n)
    BY DEF SelectForDrain
  <1> SUFFICES ASSUME load[t] < load[s] PROVE FALSE
    BY <1>2
  <1>4. Before(t) \subseteq Before(s)
    <2> SUFFICES ASSUME NEW u \in C, LessLoaded(load, u, t)
                 PROVE  LessLoaded(load, u, s)
      OBVIOUS
    <2>1. load[u] \in Nat
      OBVIOUS
    <2> QED
      BY <1>2, <2>1 DEF LessLoaded
  <1>5. IsFiniteSet(Before(s))
    BY FS_Subset
  <1>6. /\ Cardinality(Before(t)) <= Cardinality(Before(s))
        /\ Cardinality(Before(s)) \in Nat /\ Cardinality(Before(t)) \in Nat
    <2>1. IsFiniteSet(Before(t)) /\ Cardinality(Before(t)) <= Cardinality(Before(s))
      BY <1>4, <1>5, FS_Subset
    <2> QED
      BY <1>5, <2>1, FS_CardinalityType
  <1> HIDE DEF Before
  <1> QED
    BY <1>3, <1>6

------------------------------------------------------------------------------
\* What is handed out is marked allocated, and a server that is not allocated
\* has been idle no longer than it has been out of clients' hands.
LeaseAllocated == \A f \in Fleets : lease[f] \subseteq pool[f].allocated

RestCoversIdle ==
    \A f \in Fleets : \A s \in pool[f].tracked \ pool[f].allocated :
        idle[f][s] <= rest[f][s]

PoolInv == TypeOK /\ LeaseAllocated /\ RestCoversIdle

\* A choice is a candidate, so it is tracked and not allocated.
LEMMA ChoiceEligible ==
    ASSUME NEW f, NEW strategy, NEW allowed, NEW s \in Choice(f, strategy, allowed)
    PROVE  s \in Candidates(pool[f]) /\ s \in Eligible(f, allowed)
  BY DEF Choice, RoundRobinAt, RankAndSelect, Eligible

\* The next round-robin index is defined whenever there is a choice.
LEMMA RoundRobinIndexType ==
    ASSUME TypeOK, NEW f \in Fleets, NEW strategy, NEW allowed,
           NEW s \in Choice(f, strategy, allowed)
    PROVE  (roundRobinIdx[f] % Cardinality(Eligible(f, allowed))) + 1 \in Nat
  <1> DEFINE C == Eligible(f, allowed)
  <1>1. C \subseteq Servers
    BY DEF TypeOK, Eligible, Candidates, Pools
  <1>2. IsFiniteSet(C)
    BY <1>1, ServersAssumption, FS_Subset
  <1>3. C # {}
    BY ChoiceEligible
  <1>4. Cardinality(C) \in Nat /\ Cardinality(C) # 0
    BY <1>2, <1>3, FS_CardinalityType, FS_EmptySet
  <1>5. roundRobinIdx[f] \in Nat
    BY DEF TypeOK
  <1>6. \A i \in Nat, n \in Nat \ {0} : (i % n) + 1 \in Nat
    OBVIOUS
  <1> HIDE DEF C
  <1>7. (roundRobinIdx[f] % Cardinality(C)) + 1 \in Nat
    BY <1>4, <1>5, <1>6
  <1> QED
    BY <1>7 DEF C

LEMMA PoolInvInit == Init => PoolInv
  <1> SUFFICES ASSUME Init PROVE PoolInv
    OBVIOUS
  <1>1. \A f \in Fleets : pool[f] = EmptyPool
    BY DEF Init
  <1>2. pool \in [Fleets -> Pools(Servers)] /\ \A f \in Fleets : WellFormed(pool[f])
    BY EmptyPoolIs DEF Init, IsPool
  <1>3. TypeOK
    BY <1>2, BoundsAssumption DEF Init, TypeOK
  <1>4. LeaseAllocated /\ RestCoversIdle
    BY <1>1, EmptyPoolIs DEF Init, LeaseAllocated, RestCoversIdle
  <1> QED
    BY <1>3, <1>4 DEF PoolInv

------------------------------------------------------------------------------
\* One step per method; the lemmas of PoolStateProofs give its effect on the pool.
LEMMA PoolInvStep == PoolInv /\ [Next]_vars => PoolInv'
  <1> SUFFICES ASSUME PoolInv, [Next]_vars PROVE PoolInv'
    OBVIOUS
  <1> USE DEF PoolInv, TypeOK, LeaseAllocated, RestCoversIdle, IsPool
  <1>1. ASSUME NEW f \in Fleets, NEW timeout \in Timeouts,
               UpdateFleetConfig(f, timeout)
        PROVE  PoolInv'
    BY <1>1 DEF UpdateFleetConfig
  <1>2. ASSUME NEW f \in Fleets, NEW s \in Servers, Register(f, s)
        PROVE  PoolInv'
    BY <1>2, RegisteredIs, BoundsAssumption DEF Register
  <1>3. ASSUME NEW f \in Fleets, NEW s \in Servers, RegisterAgain(f, s)
        PROVE  PoolInv'
    <2> DEFINE q == Registered(pool[f], s)
    <2>1. s \in pool[f].tracked /\ pool' = [pool EXCEPT ![f] = q]
      BY <1>3 DEF RegisterAgain
    <2>2. /\ IsPool(Servers, q) /\ q.tracked = pool[f].tracked
          /\ q.allocated = pool[f].allocated
      <3>1. IsPool(Servers, pool[f])
        OBVIOUS
      <3>2. /\ IsPool(Servers, q) /\ q.tracked = pool[f].tracked \cup {s}
            /\ q.allocated = pool[f].allocated
        <4> HIDE DEF IsPool, PoolInv, TypeOK
        <4> QED
          BY <3>1, RegisteredIs
      <3> QED
        BY <2>1, <3>2
    <2> HIDE DEF q
    <2>3. pool' \in [Fleets -> Pools(Servers)] /\ \A g \in Fleets : WellFormed(pool'[g])
      BY <2>1, <2>2
    <2>4. UNCHANGED <<count, idle, roundRobinIdx, idleTimeout, lease, rest>>
      BY <1>3 DEF RegisterAgain
    <2>5. LeaseAllocated' /\ RestCoversIdle'
      BY <2>1, <2>2, <2>4
    <2> QED
      BY <2>3, <2>4, <2>5
  <1>4. ASSUME NEW f \in Fleets, NEW strategy, NEW allowed,
               AllocateWithFilter(f, strategy, allowed)
        PROVE  PoolInv'
    <2>1. PICK s \in Choice(f, strategy, allowed) :
            /\ count[f][s] < MaxCount
            /\ roundRobinIdx' =
                 IF strategy = "RoundRobin"
                   THEN [roundRobinIdx EXCEPT
                           ![f] = (@ % Cardinality(Eligible(f, allowed))) + 1]
                   ELSE roundRobinIdx
            /\ pool' = [pool EXCEPT ![f] = SetAllocated(@, s)]
            /\ count' = [count EXCEPT ![f][s] = @ + 1]
            /\ idle' = [idle EXCEPT ![f][s] = 0]
            /\ lease' = [lease EXCEPT ![f] = @ \cup {s}]
            /\ rest' = [rest EXCEPT ![f][s] = 0]
            /\ UNCHANGED idleTimeout
      BY <1>4 DEF AllocateWithFilter
    <2>2. s \in pool[f].tracked /\ s \notin pool[f].allocated /\ s \in Servers
      BY ChoiceEligible DEF Candidates, Pools
    <2>3. roundRobinIdx' \in [Fleets -> Nat]
      <3> HIDE DEF TypeOK
      <3>1. (roundRobinIdx[f] % Cardinality(Eligible(f, allowed))) + 1 \in Nat
        BY RoundRobinIndexType
      <3> HIDE DEF Eligible
      <3> QED
        BY <2>1, <3>1 DEF TypeOK
    <2>4. pool' \in [Fleets -> Pools(Servers)] /\ \A g \in Fleets : WellFormed(pool'[g])
      BY <2>1, <2>2, SetAllocatedIs
    <2>5. /\ count' \in [Fleets -> [Servers -> 0 .. MaxCount]]
          /\ idle' \in [Fleets -> [Servers -> 0 .. MaxIdle]]
          /\ rest' \in [Fleets -> [Servers -> 0 .. MaxIdle]]
      BY <2>1, <2>2, BoundsAssumption
    <2>6. lease' \in [Fleets -> SUBSET Servers] /\ idleTimeout' \in [Fleets -> Timeouts]
      BY <2>1, <2>2
    <2>7. LeaseAllocated'
      BY <2>1, <2>2, SetAllocatedIs
    <2>8. RestCoversIdle'
      BY <2>1, <2>2, SetAllocatedIs
    <2> QED
      BY <2>3, <2>4, <2>5, <2>6, <2>7, <2>8
  <1>5. ASSUME NEW f \in Fleets, NEW s \in Servers, Release(f, s)
        PROVE  PoolInv'
    BY <1>5, ReleasedIs, BoundsAssumption DEF Release
  <1>6. ASSUME NEW f \in Fleets, NEW s \in Servers, MarkAllocated(f, s)
        PROVE  PoolInv'
    BY <1>6, SetAllocatedIs, BoundsAssumption DEF MarkAllocated
  <1>7. ASSUME NEW f \in Fleets, NEW s \in Servers, MarkAvailable(f, s)
        PROVE  PoolInv'
    BY <1>7, MadeAvailableIs, BoundsAssumption DEF MarkAvailable
  <1>8. ASSUME NEW f \in Fleets, NEW s \in Servers, MarkUnhealthy(f, s)
        PROVE  PoolInv'
    BY <1>8, MadeUnhealthyIs DEF MarkUnhealthy
  <1>9. ASSUME NEW f \in Fleets, NEW s \in Servers, Remove(f, s)
        PROVE  PoolInv'
    BY <1>9, RemovedIs DEF Remove
  <1>10. CASE Tick
    <2>1. /\ idle' \in [Fleets -> [Servers -> 0 .. MaxIdle]]
          /\ rest' \in [Fleets -> [Servers -> 0 .. MaxIdle]]
      BY <1>10, BoundsAssumption DEF Tick
    <2>2. ASSUME NEW f \in Fleets, NEW s \in pool[f].tracked \ pool[f].allocated
          PROVE  idle'[f][s] <= rest'[f][s]
      <3>1. s \in Servers /\ s \notin lease[f]
        BY DEF Pools
      <3>2. idle[f][s] \in 0 .. MaxIdle /\ rest[f][s] \in 0 .. MaxIdle
        BY <3>1
      <3> QED
        BY <1>10, <3>1, <3>2, BoundsAssumption DEF Tick
    <2>3. UNCHANGED <<pool, count, roundRobinIdx, idleTimeout, lease>>
      BY <1>10 DEF Tick
    <2> QED
      BY <2>1, <2>2, <2>3
  <1>11. CASE UNCHANGED vars
    BY <1>11 DEF vars
  <1> QED
    BY <1>1, <1>2, <1>3, <1>4, <1>5, <1>6, <1>7, <1>8, <1>9, <1>10, <1>11
       DEF Next, Housekeeping, Allocate

THEOREM PoolInvariant == Spec => []PoolInv
  BY PoolInvInit, PoolInvStep, PTL DEF Spec

\* The state of the pool always has its type, entries only for tracked servers.
THEOREM PoolTyping == Spec => []TypeOK
  <1>1. PoolInv => TypeOK
    BY DEF PoolInv
  <1> QED
    BY <1>1, PoolInvariant, PTL

\* A server that was handed out is never a candidate until it is given back.
THEOREM HandedOutOnce == Spec => []NotReturnedAgain
  <1>1. PoolInv => NotReturnedAgain
    BY DEF PoolInv, LeaseAllocated, NotReturnedAgain, Candidates
  <1> QED
    BY <1>1, PoolInvariant, PTL

\* Only servers that nobody held for longer than IdleTimeout are drained as idle.
THEOREM IdleIsUnused == Spec => []IdleMeansUnused
  <1>1. PoolInv => IdleMeansUnused
    <2> SUFFICES ASSUME PoolInv, NEW f \in Fleets, NEW s \in IdleServers(f)
                 PROVE  s \notin lease[f] /\ rest[f][s] > idleTimeout[f]
      BY DEF IdleMeansUnused
    <2>1. s \in pool[f].tracked \ pool[f].allocated /\ idle[f][s] > idleTimeout[f]
      <3>1. s \in DrainChoice(f, Cardinality(Candidates(pool[f])))
        BY DEF IdleServers
      <3>2. s \in Candidates(pool[f]) /\ idle[f][s] > idleTimeout[f]
        BY <3>1 DEF DrainChoice, SelectForDrain
      <3> QED
        BY <3>2 DEF Candidates
    <2>2. s \in Servers /\ idle[f][s] \in Int /\ rest[f][s] \in Int
      BY <2>1, BoundsAssumption DEF PoolInv, TypeOK, Pools
    <2>3. idleTimeout[f] \in Int
      <3>1. idleTimeout[f] \in Timeouts
        BY DEF PoolInv, TypeOK
      <3> QED
        BY <3>1, BoundsAssumption
    <2> QED
      BY <2>1, <2>2, <2>3 DEF PoolInv, LeaseAllocated, RestCoversIdle
  <1> QED
    BY <1>1, PoolInvariant, PTL

\* The list of a pool is a finite set of names with the counts of all servers.
LEMMA PoolLists ==
    ASSUME PoolInv, NEW f \in Fleets, NEW C \in SUBSET Candidates(pool[f])
    PROVE  /\ C \in SUBSET Nat /\ C \subseteq Servers /\ IsFiniteSet(C)
           /\ Cardinality(C) <= Cardinality(Servers)
           /\ count[f] \in [Servers -> Nat]
           /\ roundRobinIdx[f] \in Nat
  <1>1. C \subseteq Servers
    BY DEF PoolInv, TypeOK, Candidates, Pools
  <1>2. IsFiniteSet(C) /\ Cardinality(C) <= Cardinality(Servers)
    BY <1>1, ServersAssumption, FS_Subset
  <1>3. count[f] \in [Servers -> 0 .. MaxCount] /\ roundRobinIdx[f] \in Nat
    BY DEF PoolInv, TypeOK
  <1>4. 0 .. MaxCount \subseteq Nat
    BY BoundsAssumption
  <1> QED
    BY <1>1, <1>2, <1>3, <1>4, ServersAssumption

\* An allocation fails only when no server is eligible, under every strategy.
THEOREM EligibleServed == Spec => []AlwaysServed
  <1>1. PoolInv => AlwaysServed
    <2> SUFFICES ASSUME PoolInv, NEW f \in Fleets, NEW strategy \in Strategies,
                        NEW allowed \in SUBSET Servers, Eligible(f, allowed) # {}
                 PROVE  Cardinality(Choice(f, strategy, allowed)) = 1
      BY DEF AlwaysServed
    <2> DEFINE C == Eligible(f, allowed)
    <2>1. C \in SUBSET Candidates(pool[f])
      BY DEF Eligible
    <2> HIDE DEF C
    <2>2. /\ C \in SUBSET Nat /\ C \subseteq Servers /\ IsFiniteSet(C)
          /\ count[f] \in [Servers -> Nat] /\ roundRobinIdx[f] \in Nat
      BY <2>1, PoolLists
    <2>3. C # {}
      BY DEF C
    <2>4. Cardinality(RankAndSelect(C, strategy, count[f])) = 1
      BY <2>2, <2>3, RankAndSelectOne
    <2>5. Cardinality(RoundRobinAt(C, roundRobinIdx[f])) = 1
      <3>1. PICK s \in C : RoundRobinAt(C, roundRobinIdx[f]) = {s}
        BY <2>2, <2>3, RoundRobinAtOne
      <3> QED
        BY <3>1, FS_Singleton
    <2> QED
      BY <2>4, <2>5 DEF Choice, C
  <1> QED
    BY <1>1, PoolInvariant, PTL

\* Draining n idle servers takes n, or all, and the least used of them.
THEOREM LeastUsedDrained == Spec => []DrainsLeastUsed
  <1>1. PoolInv => DrainsLeastUsed
    <2> SUFFICES ASSUME PoolInv, NEW f \in Fleets, NEW n \in 1 .. Cardinality(Servers)
                 PROVE  LET drained == DrainChoice(f, n)
                            kept == IdleServers(f) \ drained
                        IN /\ kept = {} \/ Cardinality(drained) = n
                           /\ \A s \in drained, t \in kept : count[f][s] <= count[f][t]
      BY DEF DrainsLeastUsed
    <2>1. CASE idleTimeout[f] = 0
      BY <2>1 DEF IdleServers, DrainChoice
    <2>2. CASE idleTimeout[f] # 0
      <3> DEFINE D == {s \in Candidates(pool[f]) : idle[f][s] > idleTimeout[f]}
                 size == Cardinality(Candidates(pool[f]))
      <3>1. /\ D \in SUBSET Nat /\ D \subseteq Servers /\ IsFiniteSet(D)
            /\ count[f] \in [Servers -> Nat]
        BY PoolLists
      <3>2. IsFiniteSet(Candidates(pool[f]))
        BY PoolLists
      <3>3. n \in Nat /\ size \in Nat /\ Cardinality(D) \in Nat /\ Cardinality(D) <= size
        <4>1. D \subseteq Candidates(pool[f])
          OBVIOUS
        <4>2. Cardinality(Servers) \in Nat
          BY ServersAssumption, FS_CardinalityType
        <4>3. n \in Nat
          BY <4>2
        <4> HIDE DEF D
        <4>4. size \in Nat
          BY <3>2, FS_CardinalityType
        <4>5. Cardinality(D) \in Nat /\ Cardinality(D) <= size
          BY <3>1, <3>2, <4>1, FS_CardinalityType, FS_Subset
        <4> QED
          BY <4>3, <4>4, <4>5
      <3>4. /\ DrainChoice(f, n) = SelectForDrain(D, count[f], n)
            /\ IdleServers(f) = SelectForDrain(D, count[f], size)
        BY <2>2 DEF IdleServers, DrainChoice
      <3> HIDE DEF D, size
      <3>5. IdleServers(f) = D
        <4>1. IF size < Cardinality(D) THEN Cardinality(SelectForDrain(D, count[f], size)) = size
                                       ELSE SelectForDrain(D, count[f], size) = D
          BY <3>1, <3>3, DrainSize
        <4> QED
          BY <3>3, <3>4, <4>1
      <3>6. IF n < Cardinality(D) THEN Cardinality(DrainChoice(f, n)) = n
                                  ELSE DrainChoice(f, n) = D
        BY <3>1, <3>3, <3>4, DrainSize
      <3>7. ASSUME NEW s \in SelectForDrain(D, count[f], n),
                   NEW t \in D \ SelectForDrain(D, count[f], n)
            PROVE  count[f][s] <= count[f][t]
        BY <3>1, <3>3, LeastUsedFirst
      <3> QED
        BY <3>4, <3>5, <3>6, <3>7
    <2> QED
      BY <2>1, <2>2
  <1> QED
    BY <1>1, PoolInvariant, PTL

------------------------------------------------------------------------------
\* RoundRobin only adds a history: what its pool does, PoolManager does.
LEMMA RoundRobinSteps == [RRNext]_rrVars => [Next]_vars
  <1> SUFFICES ASSUME [RRNext]_rrVars PROVE Next \/ UNCHANGED vars
    OBVIOUS
  <1>1. ASSUME NEW f \in Fleets, Serve(f) PROVE Next
    BY <1>1 DEF Serve, Next, Strategies
  <1>2. ASSUME NEW f \in Fleets, ServeSelected(f) PROVE Next
    BY <1>2 DEF ServeSelected, Next, Strategies
  <1>3. ASSUME NEW f \in Fleets, ServeOther(f) PROVE Next
    <2>1. PICK strategy \in Strategies, allowed \in SUBSET Servers :
            AllocateWithFilter(f, strategy, allowed)
      BY <1>3 DEF ServeOther
    <2>2. CASE allowed = {}
      BY <2>1, <2>2 DEF Next, Allocate
    <2>3. CASE allowed # {}
      <3>1. allowed \in (SUBSET Servers) \ {{}}
        BY <2>3
      <3>2. \E a \in (SUBSET Servers) \ {{}} : AllocateWithFilter(f, strategy, a)
        BY <2>1, <3>1, Zenon
      <3> QED
        BY <3>2 DEF Next
    <2> QED
      BY <2>2, <2>3
  <1> QED
    BY <1>1, <1>2, <1>3 DEF RRNext, rrVars, Next

THEOREM RoundRobinImplements == RRSpec => Spec
  <1>1. RRInit => Init
    BY DEF RRInit
  <1> QED
    BY <1>1, RoundRobinSteps, PTL DEF RRSpec, Spec

\* After as many turns as there are members served, the index stands behind the
\* last one served, and those served lie in the stretch of that length before it,
\* which may wrap around the start of the list.
Position(C, s) == Cardinality({t \in C : t < s})

InStretch(n, idx, turns, at) ==
    \/ idx - turns <= at /\ at < idx
    \/ n + idx - turns <= at

InRound(r, idx) ==
    /\ r.turns <= Cardinality(r.over) /\ idx \in 1 .. Cardinality(r.over)
    /\ r.served \subseteq r.over
    /\ \A s \in r.served :
          InStretch(Cardinality(r.over), idx, r.turns, Position(r.over, s))

Rounds == [over : SUBSET Servers, served : SUBSET Servers, turns : Nat]

RoundOf(r, idx) ==
    /\ r \in Rounds
    /\ Cardinality(r.served) = r.turns
    /\ r.turns # 0 => InRound(r, idx)

RoundInv ==
    /\ ring \in [Fleets -> Rounds]
    /\ \A f \in Fleets : RoundOf(ring[f], roundRobinIdx[f])

LEMMA NoRoundIs == ASSUME NEW idx PROVE RoundOf(NoRound, idx)
  <1>1. Cardinality({}) = 0
    BY FS_EmptySet
  <1> QED
    BY <1>1 DEF RoundOf, Rounds, NoRound

LEMMA PositionType ==
    ASSUME NEW C \in SUBSET Servers, NEW s \in C
    PROVE  Position(C, s) \in 0 .. Cardinality(C) - 1
  <1> DEFINE D == {t \in C : t < s}
  <1>1. IsFiniteSet(C) /\ C \subseteq Nat
    BY ServersAssumption, FS_Subset
  <1>2. s \notin D /\ D \subseteq C
    BY <1>1
  <1> HIDE DEF D
  <1>3. /\ Cardinality(C) \in Nat /\ Cardinality(D) \in Nat
        /\ Cardinality(D) <= Cardinality(C) /\ Cardinality(D) # Cardinality(C)
    BY <1>1, <1>2, FS_Subset, FS_CardinalityType
  <1> QED
    BY <1>3 DEF Position, D

\* The server at the index is none of those served in a round that goes on, and
\* the round covers it once the index has moved past it.
LEMMA RoundGoesOn ==
    ASSUME NEW r, NEW idx \in Nat, RoundOf(r, idx), NEW s \in r.over,
           r.turns < Cardinality(r.over),
           Position(r.over, s) = idx % Cardinality(r.over)
    PROVE  RoundOf([over |-> r.over, served |-> r.served \cup {s}, turns |-> r.turns + 1],
                   (idx % Cardinality(r.over)) + 1)
  <1> DEFINE n == Cardinality(r.over)
             turn == idx % n
             q == [over |-> r.over, served |-> r.served \cup {s}, turns |-> r.turns + 1]
  <1>1. /\ r.over \in SUBSET Servers /\ r.served \in SUBSET Servers /\ r.turns \in Nat
        /\ Cardinality(r.served) = r.turns
    BY DEF RoundOf, Rounds
  <1>2. IsFiniteSet(r.over) /\ IsFiniteSet(r.served)
    BY <1>1, ServersAssumption, FS_Subset
  <1>3. n \in Nat \ {0}
    BY <1>1, <1>2, FS_CardinalityType
  <1>4. /\ q \in Rounds
        /\ q.over = r.over /\ q.served = r.served \cup {s} /\ q.turns = r.turns + 1
    BY <1>1 DEF Rounds
  <1>5. \A t \in r.over : Position(r.over, t) \in 0 .. n - 1
    BY <1>1, PositionType
  <1>0. turn \in 0 .. n - 1 /\ Position(r.over, s) = turn
    BY <1>3
  <1>8. idx \in 1 .. n => turn = IF idx = n THEN 0 ELSE idx
    BY <1>3
  <1> SUFFICES RoundOf(q, turn + 1)
    OBVIOUS
  <1> HIDE DEF n, turn
  <1>6. CASE r.turns = 0
    <2>1. r.served = {}
      BY <1>1, <1>2, <1>6, FS_EmptySet
    <2>2. Cardinality(q.served) = q.turns
      <3>1. q.served = {s} /\ q.turns = 1
        BY <1>6, <2>1
      <3> QED
        BY <3>1, FS_Singleton
    <2>3. InStretch(n, turn + 1, 1, Position(r.over, s))
      BY <1>0, <1>3 DEF InStretch
    <2>4. InRound(q, turn + 1)
      BY <1>0, <1>3, <1>4, <1>6, <2>1, <2>3 DEF InRound, n
    <2> QED
      BY <1>4, <2>2, <2>4 DEF RoundOf
  <1>7. CASE r.turns # 0
    <2>1. /\ idx \in 1 .. n /\ r.turns < n /\ r.served \subseteq r.over
          /\ \A t \in r.served : InStretch(n, idx, r.turns, Position(r.over, t))
      BY <1>7 DEF RoundOf, InRound, n
    <2>2. turn = IF idx = n THEN 0 ELSE idx
      BY <1>8, <2>1
    <2>3. s \notin r.served
      BY <1>0, <1>1, <1>3, <2>1, <2>2 DEF InStretch
    <2>4. Cardinality(q.served) = q.turns
      BY <1>1, <1>2, <1>4, <2>3, FS_AddElement
    <2>5. ASSUME NEW t \in q.served
          PROVE  InStretch(n, turn + 1, r.turns + 1, Position(r.over, t))
      <3>1. CASE t = s
        BY <1>0, <1>1, <1>3, <2>1, <2>2, <3>1 DEF InStretch
      <3>2. CASE t \in r.served
        BY <1>1, <1>3, <1>5, <2>1, <2>2, <3>2 DEF InStretch
      <3> QED
        BY <1>4, <3>1, <3>2
    <2>6. turn + 1 \in 1 .. n
      BY <1>0, <1>3
    <2>7. InRound(q, turn + 1)
      BY <1>1, <1>3, <1>4, <2>1, <2>5, <2>6 DEF InRound, n
    <2> QED
      BY <1>4, <2>4, <2>7 DEF RoundOf
  <1> QED
    BY <1>6, <1>7

LEMMA RoundBegins ==
    ASSUME NEW C \in SUBSET Servers, NEW idx \in Nat, NEW s \in C,
           Position(C, s) = idx % Cardinality(C)
    PROVE  RoundOf([over |-> C, served |-> {s}, turns |-> 1], (idx % Cardinality(C)) + 1)
  <1> DEFINE n == Cardinality(C)
             turn == idx % n
  <1>1. IsFiniteSet(C)
    BY ServersAssumption, FS_Subset
  <1>2. n \in Nat \ {0}
    BY <1>1, FS_CardinalityType, FS_EmptySet
  <1>3. turn \in 0 .. n - 1 /\ Position(C, s) = turn
    BY <1>2
  <1> SUFFICES RoundOf([over |-> C, served |-> {s}, turns |-> 1], turn + 1)
    OBVIOUS
  <1> HIDE DEF n, turn
  <1>4. InStretch(n, turn + 1, 1, Position(C, s))
    BY <1>2, <1>3 DEF InStretch
  <1>5. Cardinality({s}) = 1
    BY FS_Singleton
  <1> QED
    BY <1>2, <1>3, <1>4, <1>5 DEF RoundOf, Rounds, InRound, n

\* Only an allocation with the round-robin strategy moves the index.
LEMMA IndexStays ==
    /\ Housekeeping => UNCHANGED roundRobinIdx
    /\ \A f, strategy, allowed :
          AllocateWithFilter(f, strategy, allowed) /\ strategy # "RoundRobin"
             => UNCHANGED roundRobinIdx
  BY DEF Housekeeping, UpdateFleetConfig, Register, RegisterAgain, Release,
         MarkAllocated, MarkAvailable, MarkUnhealthy, Remove, Tick, AllocateWithFilter

LEMMA RoundStep == PoolInv /\ RoundInv /\ [RRNext]_rrVars => RoundInv'
  <1> SUFFICES ASSUME PoolInv, RoundInv, [RRNext]_rrVars
               PROVE  RoundInv'
    OBVIOUS
  <1>0. roundRobinIdx \in [Fleets -> Nat]
    BY DEF PoolInv, TypeOK
  <1>6. ring \in [Fleets -> Rounds]
    BY DEF RoundInv
  <1>1. ASSUME NEW f \in Fleets, Serve(f)
        PROVE  RoundInv'
    <2> DEFINE C == Candidates(pool[f])
               n == Cardinality(C)
               idx == roundRobinIdx[f]
    <2>1. PICK s \in RoundRobinAt(C, idx) :
             /\ roundRobinIdx' = [roundRobinIdx EXCEPT ![f] = (@ % n) + 1]
             /\ lease' = [lease EXCEPT ![f] = @ \cup {s}]
      <3>1. Allocate(f, "RoundRobin")
        BY <1>1 DEF Serve
      <3>2. Eligible(f, {}) = C /\ Choice(f, "RoundRobin", {}) = RoundRobinAt(C, idx)
        BY DEF Choice, Eligible
      <3> HIDE DEF C
      <3> QED
        BY <3>1, <3>2 DEF Allocate, AllocateWithFilter
    <2>2. s \in C /\ Position(C, s) = idx % n
      BY DEF RoundRobinAt, Position
    <2>3. lease'[f] \ lease[f] = {s}
      BY <2>1, <2>2 DEF PoolInv, TypeOK, LeaseAllocated, Candidates
    <2>4. ring' = [ring EXCEPT ![f] = NextRing(@, C, {s})]
      BY <1>1, <2>3 DEF Serve
    <2>5. C \in SUBSET Servers /\ idx \in Nat
      BY <1>0 DEF PoolInv, TypeOK, Candidates, Pools
    <2>6. RoundOf(ring[f], idx)
      BY DEF RoundInv
    <2> HIDE DEF C
    <2>7. RoundOf(NextRing(ring[f], C, {s}), (idx % n) + 1)
      <3>1. CASE ring[f].over = C /\ ring[f].turns < n
        BY <2>2, <2>5, <2>6, <3>1, RoundGoesOn DEF NextRing
      <3>2. CASE ~ (ring[f].over = C /\ ring[f].turns < n)
        BY <2>2, <2>5, <3>2, RoundBegins DEF NextRing
      <3> QED
        BY <3>1, <3>2
    <2>8. ASSUME NEW g \in Fleets PROVE RoundOf(ring'[g], roundRobinIdx'[g])
      BY <1>0, <1>6, <2>1, <2>4, <2>7 DEF RoundInv
    <2>9. ring' \in [Fleets -> Rounds]
      BY <1>6, <2>4, <2>7 DEF RoundOf
    <2> QED
      BY <2>8, <2>9 DEF RoundInv, RoundOf, Rounds, InRound, InStretch, Position
  <1>2. ASSUME NEW f \in Fleets, ServeSelected(f)
        PROVE  RoundInv'
    <2>1. ring' = [ring EXCEPT ![f] = NoRound]
      BY <1>2 DEF ServeSelected
    <2>2. \A g \in Fleets \ {f} : roundRobinIdx'[g] = roundRobinIdx[g]
      BY <1>0, <1>2 DEF ServeSelected, AllocateWithFilter
    <2>3. ASSUME NEW g \in Fleets PROVE RoundOf(ring'[g], roundRobinIdx'[g])
      BY <1>6, <2>1, <2>2, NoRoundIs DEF RoundInv
    <2>4. ring' \in [Fleets -> Rounds]
      BY <1>6, <2>1, NoRoundIs DEF RoundOf
    <2> QED
      BY <2>3, <2>4 DEF RoundInv, RoundOf, Rounds, InRound, InStretch, Position
  <1>3. ASSUME NEW f \in Fleets, ServeOther(f)
        PROVE  RoundInv'
    BY <1>3, IndexStays DEF ServeOther, RoundInv
  <1>4. CASE Housekeeping /\ UNCHANGED ring
    BY <1>4, IndexStays DEF RoundInv
  <1>5. CASE UNCHANGED rrVars
    BY <1>5 DEF rrVars, vars, RoundInv
  <1> QED
    BY <1>1, <1>2, <1>3, <1>4, <1>5 DEF RRNext

\* While the candidates stay the same, a round serves each of them at most once.
THEOREM RoundRobinFair == RRSpec => []RoundRobinRotates
  <1>1. RRInit => RoundInv
    BY NoRoundIs DEF RRInit, RoundInv, RoundOf
  <1>2. RoundInv => RoundRobinRotates
    BY DEF RoundInv, RoundOf, RoundRobinRotates
  <1>3. RRSpec => []PoolInv
    BY RoundRobinImplements, PoolInvariant, PTL
  <1> QED
    BY <1>1, <1>2, <1>3, RoundStep, PTL DEF RRSpec
==============================================================================
