------------------------------ MODULE PoolState ------------------------------
(***************************************************************************)
(* The availability part of a fleet's pool in PoolManager (pkg/pool/pool.go *)
(* lines 23-38): which servers have an entry, and of those which have       *)
(* Allocated set and which have Healthy cleared.  Each operator is the      *)
(* effect of one method, all of which run under PoolManager.mu.  They are   *)
(* shared by PoolManager, Allocation and FleetDrain.                        *)
(***************************************************************************)
EmptyPool == [tracked |-> {}, allocated |-> {}, unhealthy |-> {}]

Pools(S) == [tracked : SUBSET S, allocated : SUBSET S, unhealthy : SUBSET S]

\* Entries only exist for tracked servers.
WellFormed(p) == p.allocated \subseteq p.tracked /\ p.unhealthy \subseteq p.tracked

\* Seeded fault: a server that was marked unhealthy is still a candidate.
CandidatesIgnoringHealth(p) == p.tracked \ p.allocated

Candidates(p) == p.tracked \ (p.allocated \cup p.unhealthy)

\* Seeded fault: Register overwrites the entry of a server it already tracks.
RegisteredAfresh(p, s) ==
    [tracked   |-> p.tracked \cup {s},
     allocated |-> p.allocated \ {s},
     unhealthy |-> p.unhealthy \ {s}]

\* A new entry is healthy and unallocated; an existing one is left alone.
Registered(p, s) == [p EXCEPT !.tracked = @ \cup {s}]

\* Seeded fault: Allocated is set on a copy of the entry.
SetAllocatedOnCopy(p, s) == p

SetAllocated(p, s) ==
    IF s \in p.tracked THEN [p EXCEPT !.allocated = @ \cup {s}] ELSE p

\* Healthy is not touched: a draining server that is released stays unhealthy.
Released(p, s) == [p EXCEPT !.allocated = @ \ {s}]

\* Seeded fault: MarkAvailable leaves Allocated as it is.
MadeHealthyOnly(p, s) == [p EXCEPT !.unhealthy = @ \ {s}]

MadeAvailable(p, s) == [p EXCEPT !.allocated = @ \ {s}, !.unhealthy = @ \ {s}]

MadeUnhealthy(p, s) ==
    IF s \in p.tracked THEN [p EXCEPT !.unhealthy = @ \cup {s}] ELSE p

\* Seeded fault: the entry goes, the flag stays behind.
RemovedFromTracked(p, s) == [p EXCEPT !.tracked = @ \ {s}]

Removed(p, s) ==
    [tracked   |-> p.tracked \ {s},
     allocated |-> p.allocated \ {s},
     unhealthy |-> p.unhealthy \ {s}]
==============================================================================
