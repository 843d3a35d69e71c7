------------------------------ MODULE Decisions ------------------------------
(***************************************************************************)
(* What a GameServerAllocation promises to the matchmaker that reads it: it *)
(* is pending until it is decided, and its decision, one server or none,    *)
(* never changes.                                                           *)
(***************************************************************************)
CONSTANTS Requests, Servers, Pending, Failed

VARIABLE decision

Init == decision = [r \in Requests |-> Pending]

Decide(r) ==
    /\ decision[r] = Pending
    /\ \E d \in Servers \cup {Failed} : decision' = [decision EXCEPT ![r] = d]

Next == \E r \in Requests : Decide(r)

Spec == Init /\ [][Next]_decision
==============================================================================
