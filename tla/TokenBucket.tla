----------------------------- MODULE TokenBucket -----------------------------
(***************************************************************************)
(* What the rate limiter of the API server (pkg/api/middleware.go) promises. *)
(* Time comes in ticks of 1/Unit second and credit in parts of 1/Unit of a  *)
(* request, so Rate requests per second are Rate parts per tick.  Credit is *)
(* never more than a full bucket and the part of a token that is still      *)
(* growing.  A request is refused only for want of credit; one that is      *)
(* admitted pays for itself and may cost the rest of a token on top.        *)
(***************************************************************************)
EXTENDS Naturals

CONSTANTS
    Rate,   \* requests per second
    Unit    \* ticks per second

VARIABLES
    credit,
    reply   \* what the last request was told

Capacity == Unit * Rate + Unit - 1
AtMost(a, b) == IF a < b THEN a ELSE b

Init == credit = Unit * Rate /\ reply = "none"

Earn ==
    /\ credit' = AtMost(credit + Rate, Capacity)
    /\ UNCHANGED reply

Admit ==
    /\ credit >= Unit
    /\ \E lost \in 0 .. Unit - 1 : lost <= credit - Unit /\ credit' = credit - Unit - lost
    /\ reply' = "admitted"

Refuse ==
    /\ credit < Unit
    /\ reply' = "refused"
    /\ UNCHANGED credit

Next == Earn \/ Admit \/ Refuse

Spec == Init /\ [][Next]_<<credit, reply>>
==============================================================================
