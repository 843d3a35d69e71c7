------------------------------- MODULE Drainer -------------------------------
(***************************************************************************)
(* pkg/drainer: the record that drainer.go keeps for a server it drains and *)
(* what StartDrain, Advance and ShouldCheck make of it.  Times are counted  *)
(* in ticks since they were taken: entered since EnteredAt, checked since   *)
(* LastCheckedAt.  The deadline lies ForceTime after EnteredAt, unless the  *)
(* record was rebuilt after a restart: then it is the zero time.            *)
(***************************************************************************)
EXTENDS Naturals

CONSTANTS
    Timeout,    \* TimeoutSeconds
    Interval,   \* IntervalSeconds
    ForceTime   \* ForceAfterSeconds; 0 turns force off

ASSUME DrainConfigAssumption ==
    Timeout \in Nat /\ Interval \in Nat /\ ForceTime \in Nat

\* Ages are not counted beyond this, nor the time since a check beyond Interval: no
\* comparison tells larger ones apart.
MaxAge == IF ForceTime + 1 > Timeout THEN ForceTime + 1 ELSE Timeout

DrainPhases == {"CORDON", "DRAIN", "DECOMMISSION", "FORCED"}

ServerStates == [phase : DrainPhases \cup {"none"}, entered : 0 .. MaxAge,
                 checked : 0 .. Interval, recovered : BOOLEAN, reachable : BOOLEAN]

NoDrain == [phase |-> "none", entered |-> 0, checked |-> 0,
            recovered |-> FALSE, reachable |-> FALSE]

\* reachable: the endpoint in the record answers session queries.
DrainStarted(reachable) == [NoDrain EXCEPT !.phase = "CORDON", !.reachable = reachable]

DrainRecovered == [NoDrain EXCEPT !.phase = "DRAIN", !.recovered = TRUE, !.reachable = TRUE]

ShouldCheck(d) == d.phase = "DRAIN" /\ d.checked >= Interval

\* Seeded fault: the deadline is compared with the timeout.
OverdueAtTimeout(d) == ForceTime > 0 /\ (d.recovered \/ d.entered > Timeout)

Overdue(d) == ForceTime > 0 /\ (d.recovered \/ d.entered > ForceTime)

\* The cases of Advance that change the record; a failed query changes nothing.
CordonDone(d) == [d EXCEPT !.phase = "DRAIN", !.checked = 0]

Forced(d) == [d EXCEPT !.phase = "FORCED"]

\* Seeded fault: an empty server is decommissioned without the minimum wait.
AnsweredAtOnce(d, active) ==
    [d EXCEPT !.checked = 0, !.phase = IF active THEN "DRAIN" ELSE "DECOMMISSION"]

Answered(d, active) ==
    [d EXCEPT !.checked = 0,
              !.phase = IF ~active /\ d.entered >= Timeout THEN "DECOMMISSION" ELSE "DRAIN"]

Older(d) ==
    LET later(age, max) == IF age < max THEN age + 1 ELSE age IN
    IF d.phase = "none" THEN d
    ELSE [d EXCEPT !.entered = later(@, MaxAge), !.checked = later(@, Interval)]
==============================================================================
