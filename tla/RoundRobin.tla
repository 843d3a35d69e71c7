----------------------------- MODULE RoundRobin ------------------------------
(***************************************************************************)
(* PoolManager with a history of whom requests with the RoundRobin strategy *)
(* were served by.  The steps are PoolManager's own actions, in any order.  *)
(***************************************************************************)
EXTENDS PoolManager

VARIABLE ring   \* history: the round in progress over one set of candidates

rrVars == <<vars, ring>>

NoRound == [over |-> {}, served |-> {}, turns |-> 0]

RRInit == Init /\ ring = [f \in Fleets |-> NoRound]

\* A round lasts while the candidates stay the same and some are unserved.
NextRing(r, candidates, chosen) ==
    IF r.over = candidates /\ r.turns < Cardinality(candidates)
      THEN [over |-> candidates, served |-> r.served \cup chosen, turns |-> r.turns + 1]
      ELSE [over |-> candidates, served |-> chosen, turns |-> 1]

Serve(f) ==
    /\ Allocate(f, "RoundRobin")
    /\ ring' = [ring EXCEPT ![f] =
                   NextRing(@, Candidates(pool[f]), lease'[f] \ lease[f])]

\* A selector gives the index another list to count in: that ends the round.
ServeSelected(f) ==
    /\ \E allowed \in (SUBSET Servers) \ {{}} : AllocateWithFilter(f, "RoundRobin", allowed)
    /\ ring' = [ring EXCEPT ![f] = NoRound]

ServeOther(f) ==
    /\ \E strategy \in Strategies \ {"RoundRobin"} : \E allowed \in SUBSET Servers :
          AllocateWithFilter(f, strategy, allowed)
    /\ UNCHANGED ring

RRNext ==
    \/ \E f \in Fleets : Serve(f) \/ ServeSelected(f) \/ ServeOther(f)
    \/ Housekeeping /\ UNCHANGED ring

RRSpec == RRInit /\ [][RRNext]_rrVars

------------------------------------------------------------------------------
\* While the candidates stay the same, nobody is served a second time before
\* everybody was served once (TestRoundRobinAllocation, pool_test.go:307-342),
\* whatever else happens between two requests.
RoundRobinRotates ==
    \A f \in Fleets : Cardinality(ring[f].served) = ring[f].turns
==============================================================================
