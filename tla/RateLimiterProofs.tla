-------------------------- MODULE RateLimiterProofs --------------------------
(***************************************************************************)
(* The rate limiter for every rate, every length of a tick and every window: *)
(* type correctness, the bound on what a window admits, and that it          *)
(* implements TokenBucket.  The proofs reason about Credit: a request that   *)
(* is admitted takes a token's worth of it, and at most a fraction of one    *)
(* more, and a tick adds no more than Rate.                                  *)
(***************************************************************************)
EXTENDS RateLimiter, TLAPS

\* The rate in force is positive whatever the flag says (middleware.go:47-49).
LEMMA RatePositive == Rate \in Nat \ {0} /\ MaxAge \in Nat
BY RateLimiterAssumption DEF Rate, MaxAge

\* Products keep the order of their factors.
LEMMA ProductMonotone ==
    ASSUME NEW u \in Nat, NEW a \in Nat, NEW b \in Nat, a <= b
    PROVE  u * a \in Nat /\ u * b \in Nat /\ u * a <= u * b
<1>1. PICK d \in Nat : b = a + d
  BY SMT
<1>2. u * b = u * a + u * d
  BY <1>1, SMT
<1>3. u * d \in Nat /\ u * a \in Nat
  BY <1>1, SMT
<1> QED
  BY <1>2, <1>3, SMT

\* Whoever pays a price out of what he has keeps within the same bound.
LEMMA Payment ==
    ASSUME NEW spent \in Nat, NEW price \in Nat, NEW had \in Nat, NEW left \in Int,
           NEW bound \in Nat, left + price <= had, spent + had <= bound
    PROVE  spent + price + left <= bound
OBVIOUS

\* What int(elapsed * rate) drops is less than a token.
LEMMA NewTokensBounds ==
    ASSUME age \in Nat
    PROVE  /\ NewTokens \in Nat /\ age * Rate \in Nat
           /\ Unit * NewTokens <= age * Rate
           /\ age * Rate < Unit * NewTokens + Unit
<1> DEFINE earned == age * Rate
<1>1. earned \in Nat
  BY RatePositive, SMT
<1>2. /\ earned \div Unit \in Nat
      /\ Unit * (earned \div Unit) <= earned
      /\ earned < Unit * (earned \div Unit) + Unit
  <2> HIDE DEF earned
  <2> QED
    BY <1>1, RateLimiterAssumption, SMT
<1> QED
  BY <1>1, <1>2 DEF NewTokens

\* Type correctness of the rate limiter.
THEOREM RateLimiterTyping == Spec => []TypeOK
<1>1. Init => TypeOK
  BY RatePositive, RateLimiterAssumption DEF Init, TypeOK
<1>2. TypeOK /\ [Next]_vars => TypeOK'
  <2> SUFFICES ASSUME TypeOK, [Next]_vars PROVE TypeOK'
    OBVIOUS
  <2> USE RatePositive, RateLimiterAssumption DEF TypeOK
  <2>0. NewTokens \in Nat
    BY NewTokensBounds
  <2>1. CASE Admit
    BY <2>0, <2>1 DEF Admit, Refilled, AgeAfter
  <2>2. CASE Refuse
    BY <2>0, <2>2 DEF Refuse, Refilled, AgeAfter, windowVars
  <2>3. CASE Tick
    BY <2>3 DEF Tick
  <2>4. CASE OpenWindow
    BY <2>4 DEF OpenWindow
  <2>5. CASE UNCHANGED vars
    BY <2>5 DEF vars, windowVars
  <2> QED
    BY <2>1, <2>2, <2>3, <2>4, <2>5 DEF Next, Allow
<1> QED
  BY <1>1, <1>2, PTL DEF Spec

------------------------------------------------------------------------------
\* The credit of a bucket is a number no larger than a full one and a bit.
LEMMA CreditTyping ==
    ASSUME TypeOK
    PROVE  /\ Unit * tokens \in Nat /\ age * Rate \in Nat /\ Unit * Rate \in Nat
           /\ Unit * tokens <= Unit * Rate /\ Unit <= Unit * Rate
           /\ Credit \in Nat /\ Credit <= Unit * Rate + Unit - 1
<1>1. /\ tokens \in Nat /\ age \in Nat /\ tokens <= Rate
      /\ Rate \in Nat \ {0} /\ Unit \in Nat \ {0}
  BY RatePositive, RateLimiterAssumption DEF TypeOK
<1>2. age * Rate \in Nat
  BY <1>1, NewTokensBounds
<1>3. Unit * tokens \in Nat /\ Unit * Rate \in Nat /\ Unit * tokens <= Unit * Rate
  BY <1>1, ProductMonotone
<1>4. Unit * 1 <= Unit * Rate
  BY <1>1, ProductMonotone, SMT
<1> QED
  BY <1>1, <1>2, <1>3, <1>4 DEF Credit

\* A request that is admitted had credit for a token, pays it, and loses less than
\* another one.
LEMMA AdmitCost ==
    ASSUME TypeOK, Admit
    PROVE  /\ Credit >= Unit
           /\ \E lost \in 0 .. Unit - 1 : lost <= Credit - Unit /\ Credit' = Credit - Unit - lost
<1> DEFINE earned == age * Rate
           full == Unit * Rate
           had == Unit * tokens
           new == Unit * NewTokens
<1>1. /\ tokens \in Nat /\ age \in Nat /\ tokens <= Rate
      /\ Rate \in Nat \ {0} /\ Unit \in Nat \ {0} /\ NewTokens \in Nat
  BY RatePositive, RateLimiterAssumption, NewTokensBounds DEF TypeOK
<1>2. /\ had \in Nat /\ earned \in Nat /\ full \in Nat /\ new \in Nat
      /\ had <= full /\ Unit <= full
      /\ new <= earned /\ earned < new + Unit
  BY <1>1, CreditTyping, NewTokensBounds, ProductMonotone
<1>3. Credit = IF had + earned < full + Unit - 1 THEN had + earned ELSE full + Unit - 1
  BY DEF Credit
<1>4. Credit' = IF Unit * tokens' + age' * Rate < full + Unit - 1
                THEN Unit * tokens' + age' * Rate ELSE full + Unit - 1
  BY DEF Credit, Rate
<1>5. CASE NewTokens = 0
  <2>1. new = 0
    BY <1>1, <1>5, SMT
  <2>2. tokens' = tokens - 1 /\ age' = age /\ tokens > 0
    BY <1>1, <1>5 DEF Admit, Refilled, AgeAfter
  <2>3. Unit * tokens' = had - Unit /\ Unit <= had
    <3>1. Unit * 1 <= had
      BY <1>1, <2>2, ProductMonotone, SMT
    <3> QED
      BY <1>1, <2>2, <3>1, SMT
  <2>4. age' * Rate = earned
    BY <2>2
  <2> HIDE DEF earned, full, had, new
  <2>5. Credit = had + earned /\ Credit' = had - Unit + earned
    BY <1>1, <1>2, <1>3, <1>4, <2>1, <2>3, <2>4
  <2>6. Credit >= Unit /\ 0 \in 0 .. Unit - 1 /\ 0 <= Credit - Unit /\ Credit' = Credit - Unit - 0
    BY <1>1, <1>2, <2>3, <2>5
  <2> QED
    BY <2>6
<1>6. CASE NewTokens > 0 /\ tokens + NewTokens <= Rate
  <2>1. tokens' = tokens + NewTokens - 1 /\ age' = 0
    BY <1>1, <1>6 DEF Admit, Refilled, AgeAfter
  <2>2. Unit * tokens' = had + new - Unit
    BY <1>1, <2>1, SMT
  <2>3. age' * Rate = 0
    BY <1>1, <2>1, SMT
  <2>4. had + new <= full /\ Unit <= new
    <3>1. Unit * (tokens + NewTokens) <= full /\ Unit * 1 <= new
      BY <1>1, <1>6, ProductMonotone, SMT
    <3> QED
      BY <1>1, <3>1, SMT
  <2> HIDE DEF earned, full, had, new
  <2>5. Credit' = had + new - Unit
    BY <1>1, <1>2, <1>4, <2>2, <2>3, <2>4
  <2>6. /\ Credit >= Unit
        /\ Credit - Unit - Credit' \in 0 .. Unit - 1
        /\ Credit - Unit - Credit' <= Credit - Unit
        /\ Credit' = Credit - Unit - (Credit - Unit - Credit')
    BY <1>1, <1>2, <1>3, <2>4, <2>5
  <2> QED
    BY <2>6
<1>7. CASE NewTokens > 0 /\ tokens + NewTokens > Rate
  <2>1. tokens' = Rate - 1 /\ age' = 0
    BY <1>1, <1>7 DEF Admit, Refilled, AgeAfter
  <2>2. Unit * tokens' = full - Unit
    BY <1>1, <2>1, SMT
  <2>3. age' * Rate = 0
    BY <1>1, <2>1, SMT
  <2>4. full + Unit <= had + new
    <3>1. Unit * (Rate + 1) <= Unit * (tokens + NewTokens)
      BY <1>1, <1>7, ProductMonotone, SMT
    <3> QED
      BY <1>1, <3>1, SMT
  <2> HIDE DEF earned, full, had, new
  <2>5. Credit' = full - Unit /\ Credit = full + Unit - 1
    BY <1>1, <1>2, <1>3, <1>4, <2>2, <2>3, <2>4
  <2>6. /\ Credit >= Unit
        /\ Unit - 1 \in 0 .. Unit - 1 /\ Unit - 1 <= Credit - Unit
        /\ Credit' = Credit - Unit - (Unit - 1)
    BY <1>1, <1>2, <2>5
  <2> QED
    BY <2>6
<1> QED
  BY <1>1, <1>5, <1>6, <1>7

\* A request is refused only when its credit does not make a token, which it keeps.
LEMMA RefuseBroke ==
    ASSUME TypeOK, Refuse
    PROVE  Credit < Unit /\ Credit' = Credit
<1>1. /\ tokens \in Nat /\ age \in Nat /\ NewTokens \in Nat
      /\ Rate \in Nat \ {0} /\ Unit \in Nat \ {0}
  BY RatePositive, RateLimiterAssumption, NewTokensBounds DEF TypeOK
<1>2. tokens = 0 /\ NewTokens = 0
  BY <1>1 DEF Refuse, Refilled
<1>3. tokens' = tokens /\ age' = age
  BY <1>1, <1>2 DEF Refuse, Refilled, AgeAfter
<1>4. age * Rate \in Nat /\ age * Rate < Unit
  <2>1. Unit * NewTokens = 0 /\ age * Rate < Unit * NewTokens + Unit /\ age * Rate \in Nat
    BY <1>1, <1>2, NewTokensBounds, SMT
  <2> QED
    BY <1>1, <2>1
<1>5. Unit * tokens = 0
  BY <1>1, <1>2, SMT
<1>6. Credit < Unit
  BY <1>1, <1>4, <1>5, CreditTyping DEF Credit
<1>7. Credit' = Credit
  BY <1>3 DEF Credit, Rate
<1> QED
  BY <1>6, <1>7

\* A tick earns Rate parts of credit, up to a full bucket and a bit.
LEMMA TickEarns ==
    ASSUME TypeOK, Tick
    PROVE  Credit' = IF Credit + Rate < Unit * Rate + Unit - 1
                     THEN Credit + Rate ELSE Unit * Rate + Unit - 1
<1> DEFINE earned == age * Rate
           full == Unit * Rate
           had == Unit * tokens
<1>1. /\ tokens \in Nat /\ age \in 0 .. 2 * Unit
      /\ Rate \in Nat \ {0} /\ Unit \in Nat \ {0}
  BY RatePositive, RateLimiterAssumption DEF TypeOK, MaxAge
<1>2. had \in Nat /\ earned \in Nat /\ full \in Nat /\ Unit <= full
  BY CreditTyping
<1>3. Credit = IF had + earned < full + Unit - 1 THEN had + earned ELSE full + Unit - 1
  BY DEF Credit
<1>4. Credit' = IF had + age' * Rate < full + Unit - 1
                THEN had + age' * Rate ELSE full + Unit - 1
  BY DEF Credit, Rate, Tick
<1>5. CASE age < MaxAge
  <2>1. age' * Rate = earned + Rate
    BY <1>1, <1>5, SMT DEF Tick
  <2> HIDE DEF earned, full, had
  <2>2. Credit' = IF Credit + Rate < full + Unit - 1 THEN Credit + Rate ELSE full + Unit - 1
    BY <1>1, <1>2, <1>3, <1>4, <2>1
  <2> QED
    BY <2>2 DEF full
<1>6. CASE age = MaxAge
  <2>1. age' = age /\ earned = full + full
    BY <1>1, <1>6, SMT DEF Tick, MaxAge
  <2>2. Credit' = Credit
    BY <1>3, <1>4, <2>1
  <2> HIDE DEF full, had
  <2>3. Credit = full + Unit - 1
    BY <1>1, <1>2, <1>3, <2>1
  <2> QED
    BY <1>1, <1>2, <2>2, <2>3 DEF full
<1> QED
  BY <1>1, <1>5, <1>6 DEF MaxAge

------------------------------------------------------------------------------
\* While the window is watched, what it has admitted and the credit that is left
\* came from the bucket as it was opened and from the time since then.
WindowInv ==
    IF elapsed < Window
      THEN Unit * admitted + Credit <= Unit * Rate + (Unit - 1) + elapsed * Rate
      ELSE WindowBound

\* The bound on any window of time, for every rate (middleware.go:56-80).
THEOREM WindowBounded == Spec => []WindowBound
<1> DEFINE full == Unit * Rate + (Unit - 1)
<1>0. ASSUME TypeOK
      PROVE  /\ Credit \in Nat /\ Credit <= full /\ full \in Nat
             /\ Unit * admitted \in Nat /\ elapsed * Rate \in Nat
             /\ Rate \in Nat /\ Unit \in Nat \ {0} /\ elapsed \in 0 .. Window
             /\ Window \in Nat /\ admitted \in Nat
  <2>1. /\ Rate \in Nat \ {0} /\ Unit \in Nat \ {0} /\ Window \in Nat
        /\ elapsed \in 0 .. Window /\ admitted \in Nat
    BY <1>0, RatePositive, RateLimiterAssumption DEF TypeOK
  <2>2. Unit * admitted \in Nat /\ elapsed * Rate \in Nat
    BY <2>1, SMT
  <2> QED
    BY <1>0, <2>1, <2>2, CreditTyping
<1>1. Init => WindowInv
  <2> SUFFICES ASSUME Init PROVE WindowInv
    OBVIOUS
  <2>1. TypeOK
    BY RatePositive, RateLimiterAssumption DEF Init, TypeOK
  <2>2. Unit * admitted = 0 /\ elapsed * Rate = 0
    BY <2>1, <1>0, SMT DEF Init
  <2> QED
    BY <2>1, <2>2, <1>0 DEF WindowInv, WindowBound
<1>2. TypeOK /\ TypeOK' /\ WindowInv /\ [Next]_vars => WindowInv'
  <2> SUFFICES ASSUME TypeOK, TypeOK', WindowInv, [Next]_vars PROVE WindowInv'
    OBVIOUS
  <2> DEFINE spent == Unit * admitted
             since == elapsed * Rate
  <2>0. /\ Credit \in Nat /\ full \in Nat /\ spent \in Nat /\ since \in Nat
        /\ Rate \in Nat /\ Unit \in Nat \ {0} /\ elapsed \in 0 .. Window
        /\ Window \in Nat /\ admitted \in Nat
    BY <1>0
  <2>i. IF elapsed < Window THEN spent + Credit <= full + since ELSE spent <= full + since
    BY DEF WindowInv, WindowBound
  <2>g. ASSUME IF elapsed' < Window
                 THEN Unit * admitted' + Credit' <= full + elapsed' * Rate
                 ELSE Unit * admitted' <= full + elapsed' * Rate
        PROVE  WindowInv'
    BY <2>g DEF WindowInv, WindowBound, Rate
  <2>1. CASE Admit
    <3>1. elapsed' = elapsed
      BY <2>1 DEF Admit
    <3>2. Credit \in Nat /\ Credit' + Unit <= Credit /\ Credit' \in Int
      BY <2>0, <2>1, AdmitCost
    <3>3. CASE elapsed < Window
      <4>1. admitted' = admitted + 1
        BY <2>1, <3>3 DEF Admit
      <4>2. Unit * admitted' = spent + Unit
        BY <2>0, <4>1, SMT
      <4>3. elapsed' * Rate = since
        BY <3>1
      <4>0. spent + Credit <= full + since
        BY <2>i, <3>3
      <4> HIDE DEF spent, since, full
      <4>4. full + since \in Nat /\ Unit \in Nat
        BY <2>0
      <4>5. spent + Unit + Credit' <= full + since
        BY <2>0, <3>2, <4>0, <4>4, Payment
      <4>6. Unit * admitted' + Credit' <= full + elapsed' * Rate
        BY <4>2, <4>3, <4>5, Zenon
      <4> QED
        BY <2>g, <3>1, <3>3, <4>6
    <3>4. CASE ~(elapsed < Window)
      <4>1. admitted' = admitted
        BY <2>1, <3>4 DEF Admit
      <4> QED
        BY <2>i, <2>g, <3>1, <3>4, <4>1
    <3> QED
      BY <3>3, <3>4
  <2>2. CASE Refuse
    <3>1. Credit' = Credit /\ elapsed' = elapsed /\ admitted' = admitted
      BY <2>2, RefuseBroke DEF Refuse, windowVars
    <3> QED
      BY <2>i, <2>g, <3>1
  <2>3. CASE Tick
    <3>1. admitted' = admitted
      BY <2>3 DEF Tick
    <3>2. Credit' <= Credit + Rate /\ Credit' \in Int
      <4>1. Unit * Rate \in Nat
        BY CreditTyping
      <4> QED
        BY <2>0, <2>3, <4>1, TickEarns, CreditTyping
    <3>3. CASE elapsed < Window
      <4>1. elapsed' = elapsed + 1
        BY <2>3, <3>3 DEF Tick
      <4>2. elapsed' * Rate = since + Rate
        BY <2>0, <4>1, SMT
      <4>3. Unit * admitted' = spent
        BY <3>1
      <4> HIDE DEF spent, since, full
      <4> QED
        BY <2>0, <2>i, <2>g, <3>2, <3>3, <4>2, <4>3
    <3>4. CASE ~(elapsed < Window)
      <4>1. elapsed' = elapsed
        BY <2>3, <3>4 DEF Tick
      <4> QED
        BY <2>i, <2>g, <3>1, <3>4, <4>1
    <3> QED
      BY <3>3, <3>4
  <2>4. CASE OpenWindow
    <3>1. Credit' = Credit /\ elapsed' = 0 /\ admitted' = 0
      BY <2>4 DEF OpenWindow, Credit, Rate
    <3>2. Unit * admitted' = 0 /\ elapsed' * Rate = 0
      BY <2>0, <3>1, SMT
    <3>3. Credit <= full
      BY <1>0
    <3> HIDE DEF full
    <3> QED
      BY <2>0, <2>g, <3>1, <3>2, <3>3
  <2>5. CASE UNCHANGED vars
    <3>1. Credit' = Credit /\ elapsed' = elapsed /\ admitted' = admitted
      BY <2>5 DEF vars, windowVars, Credit, Rate
    <3> QED
      BY <2>i, <2>g, <3>1
  <2> QED
    BY <2>1, <2>2, <2>3, <2>4, <2>5 DEF Next, Allow
<1>3. TypeOK /\ WindowInv => WindowBound
  <2> SUFFICES ASSUME TypeOK, WindowInv PROVE WindowBound
    OBVIOUS
  <2> HIDE DEF full
  <2> QED
    BY <1>0 DEF WindowInv, WindowBound, full
<1> QED
  BY <1>1, <1>2, <1>3, RateLimiterTyping, PTL DEF Spec

\* The limiter implements TokenBucket: it refuses for want of credit alone, and no
\* request costs two tokens.
THEOREM LimiterIsBucket == Spec => RefinesBucket
<1> DEFINE full == Unit * Rate + Unit - 1
<1>1. Init => Bucket!Init
  <2> SUFFICES ASSUME Init PROVE Bucket!Init
    OBVIOUS
  <2>1. TypeOK
    BY RatePositive, RateLimiterAssumption DEF Init, TypeOK
  <2>2. Rate \in Nat /\ Unit \in Nat \ {0} /\ Unit * Rate \in Nat
    BY <2>1, RatePositive, RateLimiterAssumption, CreditTyping
  <2>3. Unit * tokens = Unit * Rate /\ age * Rate = 0
    BY <2>2, SMT DEF Init
  <2>4. Credit = Unit * Rate
    BY <2>2, <2>3 DEF Credit
  <2> QED
    BY <2>4 DEF Init, Bucket!Init
<1>2. TypeOK /\ [Next]_vars => [Bucket!Next]_<<Credit, reply>>
  <2> SUFFICES ASSUME TypeOK, [Next]_vars PROVE [Bucket!Next]_<<Credit, reply>>
    OBVIOUS
  <2>1. CASE Admit
    BY <2>1, AdmitCost DEF Admit, Bucket!Next, Bucket!Admit
  <2>2. CASE Refuse
    BY <2>2, RefuseBroke DEF Refuse, Bucket!Next, Bucket!Refuse
  <2>3. CASE Tick
    BY <2>3, TickEarns DEF Tick, Bucket!Next, Bucket!Earn, Bucket!AtMost, Bucket!Capacity
  <2>4. CASE OpenWindow
    BY <2>4 DEF OpenWindow, Credit, Rate
  <2>5. CASE UNCHANGED vars
    BY <2>5 DEF vars, Credit, Rate
  <2> QED
    BY <2>1, <2>2, <2>3, <2>4, <2>5 DEF Next, Allow
<1> QED
  BY <1>1, <1>2, RateLimiterTyping, PTL DEF Spec, RefinesBucket, Bucket!Spec
==============================================================================
