---------------------------- MODULE RateLimiter -----------------------------
(***************************************************************************)
(* The Redis token bucket of queue/ratelimit.py: the bucket of one domain,  *)
(* which every fetcher waits for in wait_for_slot. The bucket of an API key *)
(* (api/middleware/ratelimit.py), which the same script serves with another *)
(* capacity, is not modelled.                                               *)
(* The Lua script is one atomic step, but the time it works with is the     *)
(* caller's: time.time() is read before the script is sent, on the caller's *)
(* clock.                                                                   *)
(*                                                                          *)
(* Tokens are counted in fractions, so that one request costs Cost of them  *)
(* and Rate of them drip in per second.                                     *)
(***************************************************************************)
EXTENDS Integers

CONSTANTS
  Clients,    \* processes that share the bucket
  Cost,       \* one token
  Rate,       \* rate_per_second
  Timeout,    \* of wait_for_slot, in seconds
  Slack,      \* the 60 seconds a bucket outlives its refill
  Skew,       \* per client, how far its clock is ahead of the slowest
  MaxSkew,    \* a bound of them
  MaxDelay,   \* bound: the longest a stamped call takes to reach Redis
  MaxTime,    \* bound: the end of time
  MaxGrants   \* bound: calls that are granted

ASSUME LimiterAssumption ==
  /\ Cost \in Nat \ {0} /\ Rate \in Nat \ {0}
  /\ Timeout \in Nat /\ MaxTime \in Nat /\ MaxGrants \in Nat
  /\ MaxSkew \in Nat /\ MaxDelay \in Nat
  /\ Skew \in [Clients -> 0 .. MaxSkew]
  /\ Slack \in Nat /\ Slack >= MaxSkew + MaxDelay

VARIABLES
  clock,    \* seconds on the slowest clock
  exists,   \* the bucket's hash is in Redis
  tokens,   \* its fields; kept here after the hash has expired
  ts,
  touched,  \* when EXPIRE was last called on it
  pc,       \* per client
  now,      \*   the time it stamped its call with
  waited,   \*   seconds it has slept in this wait_for_slot
  wake,     \*   when its sleep ends
  \* History:
  granted,  \* calls granted
  back,     \* seconds by which ts has ever been set back
  alone,    \* per client, no other call was answered since it asked
  turned    \* a client was turned away alone

bucket  == <<exists, tokens, ts, touched>>
caller  == <<pc, now, waited, wake>>
history == <<granted, back, alone, turned>>
vars    == <<clock, bucket, caller, history>>

PC == {"idle", "stamped", "sleeping"}

\* Variant, wrong: no room for a whole token when the rate is below one.
CapacityOfRate == Rate

\* max(rate_per_second, 1.0)
Capacity == IF Rate > Cost THEN Rate ELSE Cost

CeilDiv(a, b) == (a + b - 1) \div b

TypeOK ==
  /\ clock \in Nat /\ exists \in BOOLEAN
  /\ tokens \in 0 .. Capacity /\ ts \in Nat /\ touched \in Nat
  /\ pc \in [Clients -> PC]
  /\ now \in [Clients -> Nat]
  /\ waited \in [Clients -> Nat] /\ wake \in [Clients -> Nat]
  /\ granted \in Nat /\ back \in Nat
  /\ alone \in [Clients -> BOOLEAN] /\ turned \in BOOLEAN

Init ==
  /\ clock = 0
  /\ exists = FALSE /\ tokens = Capacity /\ ts = 0 /\ touched = 0
  /\ pc = [c \in Clients |-> "idle"]
  /\ now = [c \in Clients |-> 0]
  /\ waited = [c \in Clients |-> 0]
  /\ wake = [c \in Clients |-> 0]
  /\ granted = 0 /\ back = 0
  /\ alone = [c \in Clients |-> FALSE] /\ turned = FALSE

-----------------------------------------------------------------------------
(* The script, and what a client does with its answer *)

Stamp(c) ==
  /\ pc' = [pc EXCEPT ![c] = "stamped"]
  /\ now' = [now EXCEPT ![c] = clock + Skew[c]]

Ask(c) ==
  /\ pc[c] = "idle"
  /\ Stamp(c)
  /\ waited' = [waited EXCEPT ![c] = 0]
  /\ alone' = [alone EXCEPT ![c] = TRUE]
  /\ UNCHANGED <<clock, bucket, wake, granted, back, turned>>

\* Variant, wrong: the refill is not capped.
RefilledUncapped(time) ==
  IF ~exists THEN Capacity
  ELSE IF time > ts THEN tokens + Rate * (time - ts) ELSE tokens

\* tokens after the refill of a call stamped with this time.
Refilled(time) ==
  IF exists
    THEN LET filled == IF time > ts THEN tokens + Rate * (time - ts) ELSE tokens
         IN  IF filled < Capacity THEN filled ELSE Capacity
    ELSE Capacity

\* HSET and EXPIRE: ts becomes the caller's time, also when that is earlier.
Write(c, left) ==
  /\ exists' = TRUE
  /\ tokens' = left
  /\ ts' = now[c]
  /\ touched' = clock
  /\ back' = IF now[c] < ts THEN back + (ts - now[c]) ELSE back
  /\ alone' = [d \in Clients |-> d = c /\ alone[d]]

Grant(c) ==
  /\ pc[c] = "stamped" /\ granted < MaxGrants
  /\ Refilled(now[c]) >= Cost
  /\ Write(c, Refilled(now[c]) - Cost)
  /\ granted' = granted + 1
  /\ pc' = [pc EXCEPT ![c] = "idle"]
  /\ UNCHANGED <<clock, now, waited, wake, turned>>

\* How long a refused client sleeps: retry_after, but not past its timeout.
Delay(c) ==
  LET retryAfter == CeilDiv(Cost - Refilled(now[c]), Rate)
      left       == Timeout - waited[c]
  IN  IF retryAfter < left THEN retryAfter ELSE left

Sleep(c) ==
  /\ pc[c] = "stamped"
  /\ Refilled(now[c]) < Cost
  /\ Delay(c) > 0
  /\ Write(c, Refilled(now[c]))
  /\ pc' = [pc EXCEPT ![c] = "sleeping"]
  /\ wake' = [wake EXCEPT ![c] = clock + Delay(c)]
  /\ waited' = [waited EXCEPT ![c] = @ + Delay(c)]
  /\ UNCHANGED <<clock, now, granted, turned>>

Wake(c) ==
  /\ pc[c] = "sleeping" /\ clock >= wake[c]
  /\ Stamp(c)
  /\ UNCHANGED <<clock, bucket, waited, wake, history>>

\* TimeoutError, or for an API key a 429.
Raise(c) ==
  /\ pc[c] = "stamped"
  /\ Refilled(now[c]) < Cost
  /\ Delay(c) <= 0
  /\ Write(c, Refilled(now[c]))
  /\ pc' = [pc EXCEPT ![c] = "idle"]
  /\ turned' = (turned \/ alone[c])
  /\ UNCHANGED <<clock, now, waited, wake, granted>>

\* Variant, wrong: the bucket is dropped without waiting for its refill.
LifetimeOfSlack == Slack

\* EXPIRE: ceil(capacity / rate) + 60
Lifetime == CeilDiv(Capacity, Rate) + Slack

\* A second passes; the hash expires when it has not been touched for its
\* lifetime.
Tick ==
  /\ clock < MaxTime
  /\ \A c \in Clients :
       pc[c] = "stamped" => clock + 1 - (now[c] - Skew[c]) <= MaxDelay
  /\ clock' = clock + 1
  /\ exists' = (exists /\ clock + 1 - touched < Lifetime)
  /\ UNCHANGED <<tokens, ts, touched, caller, history>>

Call(c) == Ask(c) \/ Grant(c) \/ Sleep(c) \/ Wake(c) \/ Raise(c)

Next == Tick \/ \E c \in Clients : Call(c)

Spec == Init /\ [][Next]_vars

-----------------------------------------------------------------------------
(* Properties *)

\* The limit holds up to what setting ts back gives away: never more calls than
\* a full bucket, the elapsed time, and the seconds that late or skewed stamps
\* made the bucket count twice; in particular no expiry of the bucket gives
\* anything away (the Lua script).
BudgetShared == Cost * granted <= Capacity + Rate * (clock + MaxSkew + back)

\* wait_for_slot never sleeps longer than its timeout in all, and a client that
\* has time to wait for a token is only turned away if another client's call
\* was answered meanwhile (wait_for_slot, and max(rate_per_second, 1.0) in
\* consume, without which a slow bucket never holds a whole token).
WaitBounded ==
  /\ \A c \in Clients : waited[c] <= Timeout
  /\ Timeout >= CeilDiv(Cost, Rate) => ~turned

=============================================================================
