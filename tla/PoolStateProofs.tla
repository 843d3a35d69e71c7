--------------------------- MODULE PoolStateProofs ---------------------------
(***************************************************************************)
(* What each PoolState operator returns: a well-formed pool with the given  *)
(* fields.  The proofs about the modules that use them cite these lemmas    *)
(* and never expand the operators.                                          *)
(***************************************************************************)
EXTENDS PoolState, TLAPS

IsPool(S, p) == p \in Pools(S) /\ WellFormed(p)

LEMMA EmptyPoolIs ==
    ASSUME NEW S
    PROVE  /\ IsPool(S, EmptyPool)
           /\ EmptyPool.tracked = {} /\ EmptyPool.allocated = {}
           /\ EmptyPool.unhealthy = {}
  BY DEF IsPool, Pools, WellFormed, EmptyPool

LEMMA RegisteredIs ==
    ASSUME NEW S, NEW s \in S, NEW p, IsPool(S, p)
    PROVE  /\ IsPool(S, Registered(p, s))
           /\ Registered(p, s).tracked = p.tracked \cup {s}
           /\ Registered(p, s).allocated = p.allocated
           /\ Registered(p, s).unhealthy = p.unhealthy
  BY DEF IsPool, Pools, WellFormed, Registered

LEMMA SetAllocatedIs ==
    ASSUME NEW S, NEW s \in S, NEW p, IsPool(S, p), s \in p.tracked
    PROVE  /\ IsPool(S, SetAllocated(p, s))
           /\ SetAllocated(p, s).tracked = p.tracked
           /\ SetAllocated(p, s).allocated = p.allocated \cup {s}
           /\ SetAllocated(p, s).unhealthy = p.unhealthy
  BY DEF IsPool, Pools, WellFormed, SetAllocated

LEMMA ReleasedIs ==
    ASSUME NEW S, NEW s \in S, NEW p, IsPool(S, p)
    PROVE  /\ IsPool(S, Released(p, s))
           /\ Released(p, s).tracked = p.tracked
           /\ Released(p, s).allocated = p.allocated \ {s}
           /\ Released(p, s).unhealthy = p.unhealthy
  BY DEF IsPool, Pools, WellFormed, Released

LEMMA MadeAvailableIs ==
    ASSUME NEW S, NEW s \in S, NEW p, IsPool(S, p)
    PROVE  /\ IsPool(S, MadeAvailable(p, s))
           /\ MadeAvailable(p, s).tracked = p.tracked
           /\ MadeAvailable(p, s).allocated = p.allocated \ {s}
           /\ MadeAvailable(p, s).unhealthy = p.unhealthy \ {s}
  BY DEF IsPool, Pools, WellFormed, MadeAvailable

\* A server the pool does not know is not made unhealthy.
LEMMA MadeUnhealthyIs ==
    ASSUME NEW S, NEW s \in S, NEW p, IsPool(S, p)
    PROVE  /\ IsPool(S, MadeUnhealthy(p, s))
           /\ MadeUnhealthy(p, s).tracked = p.tracked
           /\ MadeUnhealthy(p, s).allocated = p.allocated
           /\ MadeUnhealthy(p, s).unhealthy = p.unhealthy \cup ({s} \cap p.tracked)
  <1>1. CASE s \in p.tracked
    BY <1>1 DEF IsPool, Pools, WellFormed, MadeUnhealthy
  <1>2. CASE s \notin p.tracked
    BY <1>2 DEF IsPool, Pools, WellFormed, MadeUnhealthy
  <1> QED
    BY <1>1, <1>2

LEMMA RemovedIs ==
    ASSUME NEW S, NEW s \in S, NEW p, IsPool(S, p)
    PROVE  /\ IsPool(S, Removed(p, s))
           /\ Removed(p, s).tracked = p.tracked \ {s}
           /\ Removed(p, s).allocated = p.allocated \ {s}
           /\ Removed(p, s).unhealthy = p.unhealthy \ {s}
  BY DEF IsPool, Pools, WellFormed, Removed
==============================================================================
