---------------------------- MODULE MCAllocation -----------------------------
\* Small instances of Allocation: one or two processes, servers, requests, calls.
EXTENDS Allocation, TLC
CONSTANTS ctl, api, s1, s2, r1, r2, c1, c2

Api == {api}
Ctl == {ctl}
Both == {ctl, api}
OneServer == {s1}
TwoServers == {s1, s2}
NoServers == {}
LastServer == {s2}
OneRequest == {r1}
TwoRequests == {r1, r2}
NoRequests == {}
OneCall == {c1}
TwoCalls == {c1, c2}
NoCalls == {}
NoProcs == {}
NoSelectors == [r \in Requests |-> None]
MatchesOne == [r \in Requests |-> IF r = r1 THEN {s1} ELSE None]
ServerSymmetry == Permutations(Servers)
==============================================================================
