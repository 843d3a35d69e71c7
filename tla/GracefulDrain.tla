---------------------------- MODULE GracefulDrain ----------------------------
(***************************************************************************)
(* What the three-phase drain promises of the servers of a fleet: Cordon,   *)
(* Drain, Decommission (README.md:937-950), without pods, labels, pools or  *)
(* Reconciles.  A server serves, leaves and is gone.  Clients are invited   *)
(* to a server while it serves; those who were invited may still join after *)
(* it was cordoned, but all have joined or given up before the first tick.  *)
(* It goes without players and invitations once its drain is old enough, or *)
(* by force.  A controller that restarts forgets invitations and drains.  A *)
(* forgotten drain may be resumed, and its deadline has passed already; or  *)
(* its server may serve again.  One hole is the code's own: an invitation   *)
(* that is withdrawn after the drain began reopens the server.  Clients are *)
(* invited to it again while its drain goes on, and may lose it in the end, *)
(* unless it is cordoned once more.                                         *)
(***************************************************************************)
EXTENDS Naturals

CONSTANTS
    Servers,
    Timeout,    \* minimum age of a drain that ends without force
    ForceTime,  \* age beyond which force is used; 0 turns force off
    MaxAge      \* ages are not counted beyond this

VARIABLES phase, age, invited, playing, reopened

vars == <<phase, age, invited, playing, reopened>>

Init ==
    /\ phase = [s \in Servers |-> "serving"]
    /\ age = [s \in Servers |-> 0]
    /\ invited = {} /\ playing = {} /\ reopened = {}

\* A server whose drain was forgotten counts as one that serves.
Serves(s) == phase[s] \in {"serving", "forgotten"}
Drains(s) == phase[s] \in {"leaving", "resumed"}

\* s enters a phase, at the age 0.
Enter(s, p) == phase' = [phase EXCEPT ![s] = p] /\ age' = [age EXCEPT ![s] = 0]

\* Whoever else is invited to s may keep s in invited.
InvitedLess(s) == {invited, invited \ {s}}

Invite(s) ==
    /\ Serves(s) \/ s \in reopened
    /\ invited' = invited \cup {s}
    /\ UNCHANGED <<phase, age, playing, reopened>>

Join(s) ==
    /\ s \in invited
    /\ invited' \in InvitedLess(s)
    /\ playing' = playing \cup {s}
    /\ UNCHANGED <<phase, age, reopened>>

Withdraw(s) ==
    /\ s \in invited
    /\ invited' \in InvitedLess(s)
    /\ reopened' = reopened \/ (phase[s] # "serving" /\ reopened' = reopened \cup {s})
    /\ UNCHANGED <<phase, age, playing>>

EndMatch(s) ==
    /\ s \in playing
    /\ playing' = playing \ {s}
    /\ UNCHANGED <<phase, age, invited, reopened>>

Cordon(s) ==
    /\ Serves(s) \/ (Drains(s) /\ s \in reopened)
    /\ Enter(s, "leaving")
    /\ reopened' = reopened \ {s}
    /\ UNCHANGED <<invited, playing>>

Resume(s) ==
    /\ phase[s] = "forgotten"
    /\ Enter(s, "resumed")
    /\ UNCHANGED <<invited, playing, reopened>>

\* s goes, and whoever is still there or on the way loses it.
Leave(s) ==
    /\ Enter(s, "gone")
    /\ invited' = invited \ {s} /\ playing' = playing \ {s}
    /\ reopened' = reopened \ {s}

Decommission(s) ==
    /\ Drains(s) /\ age[s] >= Timeout
    /\ s \notin playing \cup invited \/ s \in reopened
    /\ Leave(s)

Force(s) ==
    /\ ForceTime > 0
    /\ phase[s] = "resumed" \/ (phase[s] = "leaving" /\ age[s] > ForceTime)
    /\ Leave(s)

Tick ==
    /\ invited = {}
    /\ age' = [s \in Servers |->
                  IF Drains(s) /\ age[s] < MaxAge THEN age[s] + 1 ELSE age[s]]
    /\ UNCHANGED <<phase, invited, playing, reopened>>

Restart ==
    /\ phase' = [s \in Servers |-> IF Drains(s) THEN "forgotten" ELSE phase[s]]
    /\ age' = [s \in Servers |-> 0]
    /\ invited' = {} /\ reopened' = {}
    /\ UNCHANGED playing

Next ==
    \/ \E s \in Servers :
          \/ Invite(s) \/ Join(s) \/ Withdraw(s) \/ EndMatch(s)
          \/ Cordon(s) \/ Resume(s) \/ Decommission(s) \/ Force(s)
    \/ Tick \/ Restart

Spec == Init /\ [][Next]_vars
==============================================================================
