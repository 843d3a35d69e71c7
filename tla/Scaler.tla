-------------------------------- MODULE Scaler -------------------------------
(***************************************************************************)
(* Scaler.Evaluate (pkg/controller/scaler.go): from the counts a Reconcile  *)
(* has collected to a decision.  Auxiliary metrics are floating-point       *)
(* products in the code; here they are the number of servers they add.      *)
(***************************************************************************)
EXTENDS Integers

CONSTANTS
    TargetValue,    \* players per server
    BufferTarget,   \* policy.Spec.Buffer.Size
    MinReplicas,
    MaxReplicas

ASSUME PolicyAssumption ==
    /\ TargetValue \in Nat /\ BufferTarget \in Nat
    /\ MinReplicas \in Nat /\ MaxReplicas \in Nat

ServersForPlayers(players) ==
    IF TargetValue > 0 THEN (players + TargetValue - 1) \div TargetValue ELSE 0

BufferSize == IF BufferTarget < 1 THEN 1 ELSE BufferTarget

Clamped(n) ==
    LET raised == IF n < MinReplicas THEN MinReplicas ELSE n IN
    IF raised > MaxReplicas THEN MaxReplicas ELSE raised

\* Pressure on CPU or memory only counts when there are players.
Desired(players, aux) ==
    LET needed == ServersForPlayers(players) IN
    Clamped(needed + BufferSize + (IF needed > 0 THEN aux ELSE 0))

\* m: replicas and buffer as listed, players and aux as scraped, whether the
\* fleet is paused and whether too few nodes are healthy.
Evaluate(m) ==
    LET delta == Desired(m.players, m.aux) - m.replicas IN
    CASE m.paused \/ (delta > 0 /\ m.degraded) ->
            [decision |-> "FROZEN", delta |-> 0]
      [] ~m.paused /\ delta > 0 /\ ~m.degraded ->
            [decision |-> "SCALE_UP", delta |-> delta]
      [] ~m.paused /\ delta < 0 /\ m.buffer > BufferSize ->
            [decision |-> "SCALE_DOWN", delta |-> delta]
      [] OTHER -> [decision |-> "HOLD", delta |-> 0]
==============================================================================
