-------------------------------- MODULE Loans ---------------------------------
(***************************************************************************)
(* What clients may rely on when game servers are handed out: no labels,    *)
(* caches, statuses or calls.  A server is free, or kept aside for somebody, *)
(* or has one client on it.  Nobody plays on a server that is free, and none *)
(* comes free under its client.                                              *)
(***************************************************************************)
CONSTANTS Servers, Clients, None

VARIABLES
    free,   \* servers that may be handed out
    player  \* player[c]: the server client c plays on

vars == <<free, player>>

Init == free = Servers /\ player = [c \in Clients |-> None]

InUse(s) == \E c \in Clients : player[c] = s

KeepAside(s) ==
    /\ s \in free
    /\ free' = free \ {s}
    /\ UNCHANGED player

HandOver(c, s) ==
    /\ s \notin free /\ ~InUse(s) /\ player[c] = None
    /\ player' = [player EXCEPT ![c] = s]
    /\ UNCHANGED free

EndMatch(c) ==
    /\ player[c] # None
    /\ player' = [player EXCEPT ![c] = None]
    /\ UNCHANGED free

PutBack(s) ==
    /\ s \notin free /\ ~InUse(s)
    /\ free' = free \cup {s}
    /\ UNCHANGED player

Next ==
    \/ \E s \in Servers : KeepAside(s) \/ PutBack(s)
    \/ \E c \in Clients : EndMatch(c) \/ \E s \in Servers : HandOver(c, s)

Spec == Init /\ [][Next]_vars
==============================================================================
