----------------------------- MODULE RateLimiter -----------------------------
(***************************************************************************)
(* The rate limiter of the API server (pkg/api/middleware.go), one bucket   *)
(* for all clients and endpoints.  Allow holds the mutex throughout and is  *)
(* one step.  The clock of the code is continuous; here a tick is 1/Unit of *)
(* a second, and lastFill is kept as the ticks since then.  The histories   *)
(* watch a window of time that is opened at any moment.                     *)
(***************************************************************************)
EXTENDS Integers

CONSTANTS
    RequestsPerSecond,  \* the flag --rate-limit
    Unit,               \* ticks per second
    Window              \* ticks after which a window is not watched any more

ASSUME RateLimiterAssumption ==
    RequestsPerSecond \in Int /\ Unit \in Nat \ {0} /\ Window \in Nat

VARIABLES
    tokens,
    age,        \* ticks since lastFill
    reply,      \* what the last request was told
    elapsed,    \* history: ticks since the window was opened
    admitted    \* history: requests admitted since then

windowVars == <<elapsed, admitted>>
vars == <<tokens, age, reply, windowVars>>

\* NewRateLimiter replaces a rate that is not positive.
Rate == IF RequestsPerSecond <= 0 THEN 100 ELSE RequestsPerSecond

\* The age is not counted beyond two seconds, which fill any bucket.
MaxAge == 2 * Unit

TypeOK ==
    /\ tokens \in 0 .. Rate
    /\ age \in 0 .. MaxAge
    /\ reply \in {"none", "admitted", "refused"}
    /\ elapsed \in 0 .. Window
    /\ admitted \in Nat

Init ==
    /\ tokens = Rate
    /\ age = 0
    /\ reply = "none"
    /\ elapsed = 0 /\ admitted = 0

\* Seeded fault: a fraction of a token is rounded up.
NewTokensRoundedUp == (age * Rate + Unit - 1) \div Unit

\* int(elapsed * rate): a fraction is dropped.
NewTokens == (age * Rate) \div Unit

\* Seeded fault: the bucket has no brim.
RefilledUncapped == tokens + NewTokens

Refilled == IF tokens + NewTokens > Rate THEN Rate ELSE tokens + NewTokens

\* Seeded faults: lastFill is moved by every request, or by none.
AgeAfterAlways == 0
AgeAfterNever == age

\* lastFill is moved only by a request that finds new tokens.
AgeAfter == IF NewTokens > 0 THEN 0 ELSE age

Admit ==
    /\ Refilled > 0
    /\ tokens' = Refilled - 1
    /\ age' = AgeAfter
    /\ reply' = "admitted"
    /\ admitted' = IF elapsed < Window THEN admitted + 1 ELSE admitted
    /\ UNCHANGED elapsed

\* Status 429; the request does not reach the handler.
Refuse ==
    /\ Refilled = 0
    /\ tokens' = Refilled
    /\ age' = AgeAfter
    /\ reply' = "refused"
    /\ UNCHANGED windowVars

Allow == Admit \/ Refuse

Tick ==
    /\ age' = IF age < MaxAge THEN age + 1 ELSE age
    /\ elapsed' = IF elapsed < Window THEN elapsed + 1 ELSE elapsed
    /\ UNCHANGED <<tokens, reply, admitted>>

OpenWindow ==
    /\ elapsed' = 0 /\ admitted' = 0
    /\ UNCHANGED <<tokens, age, reply>>

Next == Allow \/ Tick \/ OpenWindow

Spec == Init /\ [][Next]_vars

\* Time passes, and clients go on calling whatever they are told.
FairSpec == Spec /\ WF_vars(Tick) /\ WF_vars(Allow)

------------------------------------------------------------------------------
\* From any moment on, no more requests are admitted than a full bucket, what was
\* earned since, and the one token that was growing: "token-bucket rate limiter"
\* (middleware.go:38), however requests fall between the ticks.
WindowBound == Unit * admitted <= Unit * Rate + (Unit - 1) + elapsed * Rate

\* The credit that the limiter's fields stand for: tokens, and what was earned since
\* lastFill and is not filled in yet.
Credit ==
    LET earned == Unit * tokens + age * Rate
        most == Unit * Rate + Unit - 1
    IN  IF earned < most THEN earned ELSE most

\* The limiter implements a bucket that refuses only for want of credit and drops
\* less than a token per request.
Bucket == INSTANCE TokenBucket WITH credit <- Credit
RefinesBucket == Bucket!Spec

\* Clients that go on calling are served again and again: calls that are refused do
\* not put off the next token.
StillServed == []<><<Admit>>_vars
==============================================================================
