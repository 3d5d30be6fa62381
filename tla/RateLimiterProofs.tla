-------------------------- MODULE RateLimiterProofs --------------------------
(***************************************************************************)
(* Theorems about RateLimiter, for every rate, capacity, number of clients, *)
(* skew and delay. The argument is an account: what has been granted plus   *)
(* what the bucket holds never exceeds a full bucket plus what has dripped  *)
(* in up to ts, plus what setting ts back counts twice.                     *)
(***************************************************************************)
EXTENDS RateLimiter, TLAPS

\* The account.
AccountInv == Cost * granted + tokens <= Capacity + Rate * (ts + back)

\* A call on its way was stamped at most MaxDelay seconds ago; ts was stamped
\* before the bucket was last touched, up to the skew; and a bucket that was
\* used and is gone has not been touched for its lifetime.
TimeInv ==
  /\ \A c \in Clients :
       pc[c] = "stamped" => /\ now[c] <= clock + Skew[c]
                            /\ clock <= now[c] - Skew[c] + MaxDelay
  /\ touched <= clock
  /\ ts <= touched + MaxSkew
  /\ ~exists => granted = 0 \/ clock - touched >= Lifetime

IInv == TypeOK /\ AccountInv /\ TimeInv

-----------------------------------------------------------------------------

\* The capacity is a number, and holds a whole token at least.
LEMMA CapacityType == Capacity \in Nat /\ Capacity >= Cost
  BY LimiterAssumption DEF Capacity

\* Rounding up a division: enough times the divisor reaches the dividend.
LEMMA CeilDivEnough ==
  ASSUME NEW a \in Nat, NEW b \in Nat \ {0}
  PROVE  CeilDiv(a, b) \in Nat /\ b * CeilDiv(a, b) >= a
  BY DEF CeilDiv

\* Multiplication by a natural number keeps the order.
LEMMA TimesMonotone ==
  ASSUME NEW k \in Nat, NEW a \in Nat, NEW b \in Nat, a >= b
  PROVE  k * a >= k * b
<1>1. k * a = k * b + k * (a - b)
  OBVIOUS
<1>2. k * (a - b) \in Nat /\ k * b \in Nat
  OBVIOUS
<1>. QED
  BY <1>1, <1>2

\* What a refill leaves in the bucket is between nothing and the capacity.
LEMMA RefilledType ==
  ASSUME TypeOK, NEW time \in Nat
  PROVE  Refilled(time) \in 0 .. Capacity
<1>1. CASE exists /\ time > ts
  <2>1. Rate * (time - ts) \in Nat
    BY <1>1, LimiterAssumption DEF TypeOK
  <2>. QED
    BY <1>1, <2>1, CapacityType DEF TypeOK, Refilled
<1>2. CASE ~(exists /\ time > ts)
  BY <1>2, CapacityType DEF TypeOK, Refilled
<1>. QED
  BY <1>1, <1>2

\* The account with the bucket refilled, as of the time of the call: what drips
\* in since ts is paid for by the time since ts, a call from before ts by what
\* back counts, and a bucket that expired had time to fill.
LEMMA RefillAccount ==
  ASSUME IInv, NEW c \in Clients, pc[c] = "stamped",
         NEW newback \in Nat,
         newback = IF now[c] < ts THEN back + (ts - now[c]) ELSE back
  PROVE  Cost * granted + Refilled(now[c])
           <= Capacity + Rate * (now[c] + newback)
<1> USE LimiterAssumption, CapacityType
<1> DEFINE t == now[c]
<1>1. /\ t \in Nat /\ ts \in Nat /\ tokens \in Nat /\ tokens <= Capacity
      /\ back \in Nat /\ granted \in Nat /\ Skew[c] \in 0 .. MaxSkew
  BY DEF IInv, TypeOK
<1>2. Cost * granted + tokens <= Capacity + Rate * (ts + back)
  BY DEF IInv, AccountInv
<1>3. CASE exists /\ t > ts
  <2>1. Refilled(t) <= tokens + Rate * (t - ts)
    BY <1>1, <1>3 DEF Refilled
  <2>2. Rate * (ts + back) + Rate * (t - ts) = Rate * (t + back)
    BY <1>1
  <2>. QED
    BY <1>1, <1>2, <1>3, <2>1, <2>2, RefilledType DEF IInv
<1>4. CASE exists /\ ~(t > ts)
  <2>1. Refilled(t) <= tokens
    BY <1>1, <1>4 DEF Refilled
  <2>2. t + newback = ts + back
    BY <1>1, <1>4
  <2>. QED
    BY <1>1, <1>2, <2>1, <2>2, RefilledType DEF IInv
<1>5. CASE ~exists /\ granted = 0
  <2>1. Refilled(t) = Capacity
    BY <1>5 DEF Refilled
  <2>2. Rate * (t + newback) \in Nat
    BY <1>1
  <2>. QED
    BY <1>5, <2>1, <2>2
<1>6. CASE ~exists /\ clock - touched >= Lifetime
  <2> DEFINE n == CeilDiv(Capacity, Rate)
  <2>1. n \in Nat /\ Rate * n >= Capacity
    BY CeilDivEnough
  <2>2. Refilled(t) = Capacity
    BY <1>6 DEF Refilled
  <2>3. clock - touched >= n + Slack
    BY <1>6 DEF Lifetime
  <2> HIDE DEF n
  <2>4. t - ts >= n
    BY <1>1, <2>1, <2>3 DEF IInv, TimeInv, TypeOK
  <2>5. t - ts \in Nat
    BY <1>1, <2>1, <2>4
  <2>6. Rate * (t - ts) >= Rate * n
    BY <2>1, <2>4, <2>5, TimesMonotone
  <2>7. Rate * (t - ts) >= Capacity
    <3>1. Rate * (t - ts) \in Nat /\ Rate * n \in Nat
      BY <2>1, <2>5
    <3>. QED
      BY <2>1, <2>6, <3>1
  <2>8. Rate * (ts + back) + Rate * (t - ts) = Rate * (t + back)
    BY <1>1
  <2>9. newback = back
    BY <1>1, <2>5
  <2>10. /\ Rate * (t - ts) \in Nat /\ Rate * (ts + back) \in Nat
         /\ Cost * granted \in Nat
    BY <1>1, <2>5
  <2>. QED
    BY <1>1, <1>2, <2>2, <2>7, <2>8, <2>9, <2>10
<1>. QED
  BY <1>3, <1>4, <1>5, <1>6 DEF IInv, TimeInv

\* Any answer of the script that keeps the sum of grants and tokens keeps the
\* account.
LEMMA WriteAccount ==
  ASSUME IInv, NEW c \in Clients, pc[c] = "stamped", NEW left \in 0 .. Capacity,
         Write(c, left), granted' \in Nat,
         Cost * granted' + left = Cost * granted + Refilled(now[c])
  PROVE  AccountInv'
<1>1. back' \in Nat
  BY DEF IInv, TypeOK, Write
<1>2. Cost * granted + Refilled(now[c]) <= Capacity + Rate * (now[c] + back')
  BY <1>1, RefillAccount DEF Write
<1>3. tokens' = left /\ ts' = now[c]
  BY DEF Write
<1>. QED
  BY <1>2, <1>3 DEF AccountInv

\* and stamps ts no later than the time it is touched, up to the skew.
LEMMA WriteTime ==
  ASSUME IInv, NEW c \in Clients, pc[c] = "stamped", NEW left \in 0 .. Capacity,
         Write(c, left), clock' = clock
  PROVE  /\ touched' <= clock' /\ ts' <= touched' + MaxSkew /\ exists'
         /\ exists' \in BOOLEAN /\ tokens' \in 0 .. Capacity
         /\ ts' \in Nat /\ touched' \in Nat /\ back' \in Nat
  BY LimiterAssumption DEF IInv, TypeOK, TimeInv, Write

\* and keeps the history of who was alone a function to truth values.
LEMMA WriteAlone ==
  ASSUME NEW c \in Clients, NEW left, alone \in [Clients -> BOOLEAN],
         Write(c, left)
  PROVE  /\ alone' \in [Clients -> BOOLEAN]
         /\ turned \in BOOLEAN => (turned \/ alone[c]) \in BOOLEAN
  BY Zenon DEF Write

\* At the start the bucket is full and nothing is granted.
LEMMA InitInv == Init => IInv
<1> SUFFICES ASSUME Init PROVE IInv
  OBVIOUS
<1> USE LimiterAssumption, CapacityType DEF Init
<1>1. TypeOK
  <2>1. tokens \in 0 .. Capacity
    OBVIOUS
  <2>2. /\ clock \in Nat /\ ts \in Nat /\ touched \in Nat /\ granted \in Nat
        /\ back \in Nat /\ exists \in BOOLEAN /\ turned \in BOOLEAN
    OBVIOUS
  <2>3. /\ pc \in [Clients -> PC] /\ now \in [Clients -> Nat]
        /\ waited \in [Clients -> Nat] /\ wake \in [Clients -> Nat]
        /\ alone \in [Clients -> BOOLEAN]
    BY DEF PC
  <2> HIDE DEF Init
  <2>. QED
    BY <2>1, <2>2, <2>3 DEF TypeOK
<1>2. AccountInv
  BY DEF AccountInv
<1>3. TimeInv
  BY DEF TimeInv
<1>. QED
  BY <1>1, <1>2, <1>3 DEF IInv

\* Every call, and every second, keeps the three parts.
LEMMA StepInv == IInv /\ [Next]_vars => IInv'
<1> SUFFICES ASSUME IInv, [Next]_vars PROVE IInv'
  OBVIOUS
<1> USE LimiterAssumption DEF IInv, PC
<1>1. Capacity' = Capacity
  BY DEF Capacity
<1>2. \A c \in Clients : Refilled(now[c]) \in 0 .. Capacity
  BY RefilledType DEF TypeOK
<1>3. ASSUME NEW c \in Clients, Ask(c) \/ Wake(c) PROVE IInv'
  <2>1. TypeOK'
    <3>1. alone' \in [Clients -> BOOLEAN] /\ turned' = turned
      BY <1>3 DEF TypeOK, Ask, Wake, history
    <3>. QED
      BY <1>3, <3>1 DEF TypeOK, Ask, Wake, Stamp, bucket, history
  <2>2. AccountInv'
    BY <1>3 DEF AccountInv, Ask, Wake, Stamp, bucket, history
  <2>3. TimeInv'
    BY <1>3 DEF TypeOK, TimeInv, Ask, Wake, Stamp, bucket, history
  <2>. QED
    BY <2>1, <2>2, <2>3
<1>4. ASSUME NEW c \in Clients, Grant(c) PROVE IInv'
  <2>1. Refilled(now[c]) - Cost \in 0 .. Capacity
    BY <1>2, <1>4, CapacityType DEF Grant
  <2>2. granted' = granted + 1 /\ granted \in Nat
    BY <1>4 DEF Grant, TypeOK
  <2>3. Cost * granted' + (Refilled(now[c]) - Cost)
          = Cost * granted + Refilled(now[c])
    BY <1>2, <2>2
  <2>4. AccountInv'
    BY <1>4, <2>1, <2>2, <2>3, WriteAccount DEF Grant
  <2>5. /\ touched' <= clock' /\ ts' <= touched' + MaxSkew /\ exists'
        /\ tokens' \in 0 .. Capacity
        /\ ts' \in Nat /\ touched' \in Nat /\ back' \in Nat
    BY <1>4, <2>1, WriteTime DEF Grant
  <2>6. TypeOK'
    <3>1. alone' \in [Clients -> BOOLEAN] /\ turned' = turned
      BY <1>4, WriteAlone DEF TypeOK, Grant
    <3>2. clock' = clock /\ exists'
      BY <1>4, <2>5 DEF Grant
    <3>3. /\ pc' \in [Clients -> PC] /\ now' \in [Clients -> Nat]
          /\ waited' \in [Clients -> Nat] /\ wake' \in [Clients -> Nat]
      BY <1>4 DEF TypeOK, Grant
    <3>. QED
      BY <1>1, <2>2, <2>5, <3>1, <3>2, <3>3 DEF TypeOK
  <2>7. TimeInv'
    BY <1>4, <2>5 DEF TypeOK, TimeInv, Grant
  <2>. QED
    BY <2>4, <2>6, <2>7
<1>5. ASSUME NEW c \in Clients, Sleep(c) \/ Raise(c) PROVE IInv'
  <2>1. Refilled(now[c]) \in 0 .. Capacity
    BY <1>2
  <2>2. /\ pc[c] = "stamped" /\ Write(c, Refilled(now[c]))
        /\ UNCHANGED <<clock, now, granted>>
    BY <1>5 DEF Sleep, Raise
  <2>3. AccountInv'
    BY <2>1, <2>2, WriteAccount DEF TypeOK
  <2>4. /\ touched' <= clock' /\ ts' <= touched' + MaxSkew /\ exists'
        /\ tokens' \in 0 .. Capacity
        /\ ts' \in Nat /\ touched' \in Nat /\ back' \in Nat
    BY <2>1, <2>2, WriteTime
  <2>5. /\ pc' \in [Clients -> PC]
        /\ \A d \in Clients : pc'[d] = "stamped" => pc[d] = "stamped"
    BY <1>5 DEF TypeOK, Sleep, Raise
  <2>6. /\ waited' \in [Clients -> Nat] /\ wake' \in [Clients -> Nat]
        /\ alone' \in [Clients -> BOOLEAN] /\ turned' \in BOOLEAN
    <3>0. /\ alone' \in [Clients -> BOOLEAN]
          /\ turned' = turned \/ turned' = (turned \/ alone[c])
          /\ turned \in BOOLEAN /\ (turned \/ alone[c]) \in BOOLEAN
      BY <1>5, <2>2, WriteAlone, Zenon DEF TypeOK, Sleep, Raise
    <3>1. CASE Raise(c)
      BY <3>0, <3>1 DEF TypeOK, Raise
    <3>2. CASE Sleep(c)
      <4>1. Delay(c) \in Nat
        <5>1. CeilDiv(Cost - Refilled(now[c]), Rate) \in Nat
          BY <2>1, <3>2, CeilDivEnough DEF Sleep
        <5>. QED
          BY <3>2, <5>1 DEF Sleep, Delay, TypeOK
      <4>. QED
        BY <3>0, <3>2, <4>1 DEF TypeOK, Sleep
    <3>. QED
      BY <1>5, <3>1, <3>2
  <2>7. TypeOK'
    BY <2>2, <2>4, <2>5, <2>6 DEF TypeOK
  <2>8. TimeInv'
    BY <2>2, <2>4, <2>5 DEF TypeOK, TimeInv
  <2>. QED
    BY <2>3, <2>7, <2>8
<1>6. CASE Tick
  <2>1. TypeOK'
    BY <1>6 DEF TypeOK, Tick, caller, history
  <2>2. AccountInv'
    BY <1>6 DEF AccountInv, Tick, history
  <2>3. TimeInv'
    <3>1. Lifetime \in Nat
      BY CeilDivEnough, CapacityType DEF Lifetime
    <3>. QED
      BY <1>6, <3>1 DEF TypeOK, TimeInv, Tick, caller, history
  <2>. QED
    BY <2>1, <2>2, <2>3
<1>7. CASE UNCHANGED vars
  BY <1>7 DEF vars, bucket, caller, history, TypeOK, AccountInv, TimeInv
<1>. QED
  BY <1>3, <1>4, <1>5, <1>6, <1>7 DEF Next, Call

-----------------------------------------------------------------------------

\* Every variable keeps its type: no bucket holds more than it was given or
\* goes below nothing, whatever time the clients read.
THEOREM TypeCorrect == Spec => []TypeOK
<1>1. IInv /\ [Next]_vars => IInv'
  BY StepInv
<1>2. IInv => TypeOK
  BY DEF IInv
<1>. QED
  BY <1>1, <1>2, InitInv, PTL DEF Spec

\* The limit of the deployment, with its exact error: whatever clients call and
\* whenever the bucket expires, the calls granted never exceed a full bucket,
\* the time that passed, and the seconds ts was set back (the Lua script).
THEOREM LimitShared == Spec => []BudgetShared
<1>1. IInv /\ [Next]_vars => IInv'
  BY StepInv
<1>2. IInv => BudgetShared
  <2> SUFFICES ASSUME IInv PROVE BudgetShared
    OBVIOUS
  <2>1. ts + back \in Nat /\ clock + MaxSkew + back \in Nat
        /\ clock + MaxSkew + back >= ts + back
    BY LimiterAssumption DEF IInv, TypeOK, TimeInv
  <2>2. Rate * (clock + MaxSkew + back) >= Rate * (ts + back)
    BY <2>1, TimesMonotone, LimiterAssumption
  <2>3. /\ Cost * granted \in Nat /\ tokens \in Nat /\ Capacity \in Nat
        /\ Rate * (ts + back) \in Nat /\ Rate * (clock + MaxSkew + back) \in Nat
    BY <2>1, LimiterAssumption, CapacityType DEF IInv, TypeOK
  <2>. QED
    BY <2>2, <2>3 DEF IInv, AccountInv, BudgetShared
<1>. QED
  BY <1>1, <1>2, InitInv, PTL DEF Spec

-----------------------------------------------------------------------------
(* How long a client waits *)

\* The bucket, if it is there, holds a token by this time with no other call.
FilledBy(time) == exists => time >= ts /\ tokens + Rate * (time - ts) >= Cost

\* A client that has slept and is still alone finds a token when it wakes: it
\* slept for what the script told it, as its timeout leaves room for one token.
AloneInv ==
  Timeout >= CeilDiv(Cost, Rate) =>
    /\ ~turned
    /\ \A c \in Clients :
         alone[c] /\ waited[c] > 0 =>
           /\ pc[c] = "sleeping" => FilledBy(wake[c] + Skew[c])
           /\ pc[c] = "stamped" => Refilled(now[c]) >= Cost

\* Nobody sleeps longer than the timeout.
WaitedInv == \A c \in Clients : waited[c] <= Timeout

\* Rounding up keeps the order.
LEMMA CeilDivMonotone ==
  ASSUME NEW a \in Nat, NEW b \in Nat, a <= b, NEW d \in Nat \ {0}
  PROVE  CeilDiv(a, d) <= CeilDiv(b, d)
  BY DEF CeilDiv

\* From the time it is filled, a call is granted.
LEMMA FilledGrants ==
  ASSUME TypeOK, NEW by \in Nat, NEW time \in Nat, time >= by, FilledBy(by)
  PROVE  Refilled(time) >= Cost
<1> USE LimiterAssumption, CapacityType
<1>1. CASE ~exists
  BY <1>1 DEF Refilled
<1>2. CASE exists
  <2>1. time - ts \in Nat /\ by - ts \in Nat /\ time - ts >= by - ts
    BY <1>2 DEF FilledBy, TypeOK
  <2>2. Rate * (time - ts) >= Rate * (by - ts)
    BY <2>1, TimesMonotone
  <2>3. tokens + Rate * (time - ts) >= Cost
    <3>1. Rate * (time - ts) \in Nat /\ Rate * (by - ts) \in Nat
      BY <2>1
    <3>2. tokens \in Nat /\ tokens + Rate * (by - ts) >= Cost
      BY <1>2 DEF FilledBy, TypeOK
    <3>. QED
      BY <2>2, <3>1, <3>2
  <2>4. CASE time > ts
    BY <1>2, <2>3, <2>4 DEF Refilled
  <2>5. CASE time = ts
    BY <1>2, <2>3, <2>5 DEF Refilled, TypeOK
  <2>. QED
    BY <2>1, <2>4, <2>5 DEF TypeOK
<1>. QED
  BY <1>1, <1>2

\* What a refused client is told: a time by which its token is there, no longer
\* than a whole token takes.
LEMMA RetryAfter ==
  ASSUME IInv, NEW c \in Clients, pc[c] = "stamped", Refilled(now[c]) < Cost
  PROVE  LET retryAfter == CeilDiv(Cost - Refilled(now[c]), Rate)
         IN  /\ retryAfter \in Nat \ {0} /\ retryAfter <= CeilDiv(Cost, Rate)
             /\ Refilled(now[c]) + Rate * retryAfter >= Cost
             /\ now[c] + retryAfter <= clock + retryAfter + Skew[c]
<1> USE LimiterAssumption
<1> DEFINE short == Cost - Refilled(now[c])
           retryAfter == CeilDiv(short, Rate)
<1>1. Refilled(now[c]) \in Nat /\ now[c] \in Nat
  BY RefilledType, CapacityType DEF IInv, TypeOK
<1>2. short \in Nat /\ short > 0 /\ short <= Cost
  BY <1>1
<1> HIDE DEF short
<1>3. retryAfter \in Nat /\ Rate * retryAfter >= short
  BY <1>2, CeilDivEnough
<1>4. retryAfter <= CeilDiv(Cost, Rate)
  BY <1>2, CeilDivMonotone
<1> HIDE DEF retryAfter
<1>5. retryAfter # 0
  BY <1>2, <1>3
<1>6. Refilled(now[c]) + Rate * retryAfter >= Cost
  <2>1. Rate * retryAfter \in Nat
    BY <1>3
  <2>. QED
    BY <1>1, <1>3, <2>1 DEF short
<1>7. now[c] <= clock + Skew[c] /\ Skew[c] \in Nat /\ clock \in Nat
  BY DEF IInv, TimeInv, TypeOK
<1>8. now[c] + retryAfter <= clock + retryAfter + Skew[c]
  BY <1>1, <1>3, <1>7
<1>. QED
  BY <1>3, <1>4, <1>5, <1>6, <1>8 DEF retryAfter, short

\* Every step keeps the sleeping within the timeout,
LEMMA WaitedStep == IInv /\ WaitedInv /\ [Next]_vars => WaitedInv'
<1> SUFFICES ASSUME IInv, WaitedInv, [Next]_vars PROVE WaitedInv'
  OBVIOUS
<1> USE LimiterAssumption DEF IInv, TypeOK, WaitedInv
<1>1. ASSUME NEW c \in Clients, Call(c) PROVE WaitedInv'
  <2>1. CASE Ask(c)
    BY <2>1 DEF Ask
  <2>2. CASE Sleep(c)
    <3>1. CeilDiv(Cost - Refilled(now[c]), Rate) \in Nat
      BY <2>2, RetryAfter DEF Sleep
    <3>2. waited[c] + Delay(c) <= Timeout
      BY <3>1 DEF Delay
    <3>. QED
      BY <2>2, <3>2 DEF Sleep
  <2>3. CASE Grant(c) \/ Wake(c) \/ Raise(c)
    BY <2>3 DEF Grant, Wake, Raise
  <2>. QED
    BY <1>1, <2>1, <2>2, <2>3 DEF Call
<1>2. CASE Tick \/ UNCHANGED vars
  BY <1>2 DEF Tick, vars, caller
<1>. QED
  BY <1>1, <1>2 DEF Next

\* and a lone sleeper on its way to a token: a call of another ends its being
\* alone, and its own second refusal, or a raise, would contradict the first.
LEMMA AloneStep == IInv /\ AloneInv /\ WaitedInv /\ [Next]_vars => AloneInv'
<1> SUFFICES ASSUME IInv, AloneInv, WaitedInv, [Next]_vars,
                    Timeout >= CeilDiv(Cost, Rate)
             PROVE  AloneInv'
  BY DEF AloneInv
<1> USE LimiterAssumption DEF IInv
<1>1. ~turned
  BY DEF AloneInv
<1>2. /\ alone \in [Clients -> BOOLEAN] /\ pc \in [Clients -> PC]
      /\ waited \in [Clients -> Nat] /\ wake \in [Clients -> Nat]
      /\ now \in [Clients -> Nat]
  BY DEF TypeOK
<1>3. ASSUME NEW c \in Clients, Ask(c) PROVE AloneInv'
  BY <1>1, <1>2, <1>3 DEF AloneInv, Ask, Stamp, bucket, FilledBy, Refilled,
                             Capacity
<1>4. ASSUME NEW c \in Clients, Wake(c) PROVE AloneInv'
  <2>1. /\ UNCHANGED <<bucket, waited, wake, history>>
        /\ pc' = [pc EXCEPT ![c] = "stamped"]
        /\ now' = [now EXCEPT ![c] = clock + Skew[c]]
        /\ pc[c] = "sleeping" /\ clock >= wake[c]
    BY <1>4 DEF Wake, Stamp
  <2>2. alone[c] /\ waited[c] > 0 => Refilled(clock + Skew[c]) >= Cost
    <3>1. clock + Skew[c] \in Nat /\ wake[c] + Skew[c] \in Nat
          /\ clock + Skew[c] >= wake[c] + Skew[c]
      BY <1>2, <2>1 DEF TypeOK
    <3>. QED
      BY <2>1, <3>1, FilledGrants DEF AloneInv
  <2>. QED
    BY <1>1, <1>2, <2>1, <2>2 DEF AloneInv, bucket, history, FilledBy, Refilled,
                                  Capacity
<1>5. ASSUME NEW c \in Clients, Grant(c) PROVE AloneInv'
  BY <1>1, <1>2, <1>5 DEF AloneInv, Grant, Write
<1>6. ASSUME NEW c \in Clients, Sleep(c) PROVE AloneInv'
  <2> DEFINE retryAfter == CeilDiv(Cost - Refilled(now[c]), Rate)
  <2>1. /\ retryAfter \in Nat \ {0} /\ retryAfter <= CeilDiv(Cost, Rate)
        /\ Refilled(now[c]) + Rate * retryAfter >= Cost
        /\ now[c] + retryAfter <= clock + retryAfter + Skew[c]
    BY <1>6, RetryAfter DEF Sleep
  <2>2. CASE alone[c]
    <3>1. waited[c] = 0
      BY <1>2, <1>6, <2>2, RefilledType DEF AloneInv, Sleep
    <3>2. CeilDiv(Cost, Rate) \in Nat
      BY CeilDivEnough
    <3>3. Delay(c) = retryAfter
      BY <2>1, <3>1, <3>2 DEF Delay
    <3>4. /\ (wake'[c] + Skew[c]) - now[c] \in Nat
          /\ (wake'[c] + Skew[c]) - now[c] >= retryAfter
          /\ wake'[c] + Skew[c] >= now[c]
      BY <1>2, <1>6, <2>1, <3>3 DEF Sleep, TypeOK
    <3>5. Rate * ((wake'[c] + Skew[c]) - now[c]) >= Rate * retryAfter
      BY <2>1, <3>4, TimesMonotone
    <3>6. Refilled(now[c]) + Rate * ((wake'[c] + Skew[c]) - now[c]) >= Cost
      <4>1. /\ Refilled(now[c]) \in Nat /\ Rate * retryAfter \in Nat
            /\ Rate * ((wake'[c] + Skew[c]) - now[c]) \in Nat
        BY <1>2, <2>1, <3>4, RefilledType, CapacityType
      <4>. QED
        BY <2>1, <3>5, <4>1
    <3>7. tokens' = Refilled(now[c]) /\ ts' = now[c]
      BY <1>6 DEF Sleep, Write
    <3>8. /\ wake'[c] + Skew[c] >= ts'
          /\ tokens' + Rate * ((wake'[c] + Skew[c]) - ts') >= Cost
      BY <3>4, <3>6, <3>7
    <3>9. /\ pc'[c] = "sleeping" /\ ~turned'
          /\ \A d \in Clients : alone'[d] => d = c
      BY <1>1, <1>2, <1>6 DEF Sleep, Write
    <3>. QED
      <4>1. pc'[c] = "sleeping" => FilledBy(wake[c] + Skew[c])'
        BY <3>8 DEF FilledBy
      <4>2. pc'[c] # "stamped"
        BY <3>9
      <4>. QED
        BY <3>9, <4>1, <4>2, Zenon DEF AloneInv
  <2>3. CASE ~alone[c]
    BY <1>1, <1>2, <1>6, <2>3 DEF AloneInv, Sleep, Write
  <2>. QED
    BY <2>2, <2>3
<1>7. ASSUME NEW c \in Clients, Raise(c) PROVE AloneInv'
  <2>1. ~alone[c]
    <3> SUFFICES ASSUME alone[c] PROVE FALSE
      OBVIOUS
    <3>1. waited[c] = 0
      BY <1>2, <1>7, RefilledType DEF AloneInv, Raise
    <3>2. Delay(c) \in Nat \ {0}
      <4>1. CeilDiv(Cost, Rate) \in Nat
        BY CeilDivEnough
      <4>2. /\ CeilDiv(Cost - Refilled(now[c]), Rate) \in Nat \ {0}
            /\ CeilDiv(Cost - Refilled(now[c]), Rate) <= CeilDiv(Cost, Rate)
        BY <1>7, RetryAfter DEF Raise
      <4>. QED
        BY <3>1, <4>1, <4>2 DEF Delay
    <3>. QED
      BY <1>7, <3>2 DEF Raise
  <2>. QED
    BY <1>1, <1>2, <1>7, <2>1 DEF AloneInv, Raise, Write
<1>8. CASE Tick
  <2>1. /\ UNCHANGED <<tokens, ts, caller, history>>
        /\ exists' => exists
    BY <1>8 DEF Tick, TypeOK
  <2>2. \A time : FilledBy(time) => FilledBy(time)'
    BY <2>1 DEF FilledBy
  <2>3. \A c \in Clients : Refilled(now[c]) >= Cost => Refilled(now[c])' >= Cost
    BY <2>1, CapacityType DEF Refilled, caller, Capacity
  <2>. QED
    BY <1>1, <1>2, <2>1, <2>2, <2>3 DEF AloneInv, caller, history
<1>9. CASE UNCHANGED vars
  BY <1>1, <1>2, <1>9 DEF vars, bucket, caller, history, AloneInv, FilledBy,
                          Refilled, Capacity
<1>. QED
  BY <1>3, <1>4, <1>5, <1>6, <1>7, <1>8, <1>9 DEF Next, Call

\* No client sleeps past its timeout, and none that could wait for a token is
\* turned away before another's call came in between, at any rate, skew and
\* delay (wait_for_slot).
THEOREM WaitsBounded == Spec => []WaitBounded
<1>1. Init => AloneInv /\ WaitedInv
  BY LimiterAssumption DEF Init, AloneInv, WaitedInv
<1>2. IInv /\ WaitedInv /\ AloneInv /\ [Next]_vars
        => IInv' /\ WaitedInv' /\ AloneInv'
  BY StepInv, WaitedStep, AloneStep
<1>3. WaitedInv /\ AloneInv => WaitBounded
  BY DEF WaitedInv, AloneInv, WaitBounded
<1>. QED
  BY <1>1, <1>2, <1>3, InitInv, PTL DEF Spec

=============================================================================
