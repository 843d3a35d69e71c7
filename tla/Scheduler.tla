------------------------------ MODULE Scheduler ------------------------------
(***************************************************************************)
(* The ranking of game servers (pkg/pool/scheduler.go).  A server is named  *)
(* by a natural number, so that < is the order of names the code sorts by;  *)
(* load[s] is the PlayerCount the pool passes, which is its own             *)
(* AllocationCount of s (pool.go:139-143).  The code sorts the candidates   *)
(* and takes a prefix; here a position in that order is a condition on the  *)
(* servers that sort before, and a selection is the set of servers that     *)
(* meet it.                                                                 *)
(***************************************************************************)
EXTENDS Integers, FiniteSets

Strategies == {"FewestPlayers", "LowestLatency", "RoundRobin", "StrictBinPack"}

LessLoaded(load, s, t) ==
    \/ load[s] < load[t]
    \/ load[s] = load[t] /\ s < t

\* s sorts before t.  The pool never fills in LatencyMs, so LowestLatency
\* orders by name alone.
Precedes(strategy, load, s, t) ==
    \/ strategy = "LowestLatency" /\ s < t
    \/ strategy = "StrictBinPack" /\ \/ load[s] > load[t]
                                     \/ load[s] = load[t] /\ s < t
    \/ strategy \in {"FewestPlayers", "RoundRobin"} /\ LessLoaded(load, s, t)

\* The first of the sorted candidates: a singleton unless there is none.
RankAndSelect(candidates, strategy, load) ==
    {s \in candidates : \A t \in candidates \ {s} : Precedes(strategy, load, s, t)}

\* Seeded fault: the index is not used.
FirstAt(candidates, i) == {s \in candidates : \A t \in candidates : s <= t}

\* Seeded fault: the index may point past the end of the list.
CandidateAt(candidates, i) ==
    {s \in candidates : Cardinality({t \in candidates : t < s}) = i}

\* The candidate at index i modulo their number, in the order of names.
RoundRobinAt(candidates, i) ==
    {s \in candidates :
        Cardinality({t \in candidates : t < s}) = i % Cardinality(candidates)}

\* Seeded fault: the sort looks at the load alone, and ties are left out.
SelectForDrainNoTies(candidates, load, n) ==
    {s \in candidates : Cardinality({t \in candidates : load[t] <= load[s]}) <= n}

\* The first n of the candidates, those with the least load first.
SelectForDrain(candidates, load, n) ==
    {s \in candidates : Cardinality({t \in candidates : LessLoaded(load, t, s)}) < n}
==============================================================================
