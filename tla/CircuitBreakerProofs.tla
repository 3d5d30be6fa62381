------------------------ MODULE CircuitBreakerProofs -------------------------
(***************************************************************************)
(* Theorems about CircuitBreaker, for any number of workers and any        *)
(* threshold, window and bounds.                                           *)
(***************************************************************************)
EXTENDS CircuitBreaker, TLAPS

\* What a worker read from TTL before it claims the probe is a time to live.
SeenInv == \A w \in Workers : pc[w] = "open" => seen[w] <= OpenSeconds

\* A probe admitted in this second still holds the probe key, so the next SET
\* NX of the same second fails.
RationInv == rush <= 1 /\ (rush = 1 => probeTTL > 0)

\* The fails key never counts more failures than there were since the last
\* success, so a worker whose INCR reached the threshold had Threshold of them
\* behind it, and has them until it sets the key, or a success came in between.
CountConsecutive == AtMost(Threshold, fails) <= since
TripInv == \A w \in Workers : AboutToTrip(w) => w \in late \/ since = Threshold

\* A worker that is about to open the domain is not fetching, and an open
\* domain lets nobody past the check except as the probe.
IInv == /\ TypeOK /\ SeenInv /\ RationInv
        /\ CountForgotten /\ CountConsecutive /\ TripInv /\ OpenedInARow
        /\ OpenHoldsBack

-----------------------------------------------------------------------------

\* The initial state, with no keys and every worker idle, satisfies all parts.
LEMMA InitInv == Init => IInv
<1> SUFFICES ASSUME Init PROVE IInv
  OBVIOUS
<1> USE BreakerAssumption DEF Init
<1>1. TypeOK
  <2>1. late \subseteq Workers /\ overtaken \in BOOLEAN
    OBVIOUS
  <2>2. /\ pc \in [Workers -> PC]
        /\ seen \in [Workers -> 0 .. (OpenSeconds + MaxFails)]
    BY DEF PC
  <2>. QED
    BY <2>1, <2>2 DEF TypeOK
<1>2. SeenInv /\ RationInv
  BY DEF SeenInv, RationInv
<1>3. CountForgotten /\ CountConsecutive /\ OpenedInARow /\ OpenHoldsBack
  BY DEF CountForgotten, CountConsecutive, OpenedInARow, OpenHoldsBack, AtMost
<1>4. TripInv
  BY DEF TripInv, AboutToTrip
<1>. QED
  BY <1>1, <1>2, <1>3, <1>4 DEF IInv

\* Every step of a worker, and every second, keeps the types.
LEMMA TypeStep == IInv /\ [Next]_vars => TypeOK'
<1> SUFFICES ASSUME IInv, [Next]_vars PROVE TypeOK'
  OBVIOUS
<1> USE BreakerAssumption
    DEF IInv, TypeOK, PC, Goto, Used, keys, history, AtMost
<1>1. ASSUME NEW w \in Workers, Check(w) PROVE TypeOK'
  <2>1. CASE FindClosed(w)
    BY <2>1 DEF FindClosed
  <2>2. CASE FindOpen(w)
    BY <2>2 DEF FindOpen
  <2>3. CASE ClaimProbe(w)
    BY <2>3 DEF ClaimProbe, ProbeSeconds, SeenInv
  <2>4. CASE Refuse(w)
    BY <2>4 DEF Refuse, Refusal
  <2>. QED
    BY <1>1, <2>1, <2>2, <2>3, <2>4 DEF Check
<1>2. ASSUME NEW w \in Workers, Fetch(w) PROVE TypeOK'
  <2>1. CASE Succeed(w)
    <3>1. late' \subseteq Workers /\ overtaken' \in BOOLEAN
      BY <2>1 DEF Succeed
    <3>2. /\ pc' = [pc EXCEPT ![w] = "idle"]
          /\ Forget /\ since' = 0 /\ rush' = 0
          /\ UNCHANGED <<seen, cuts>>
      BY <2>1 DEF Succeed
    <3>. QED
      BY <3>1, <3>2 DEF Forget
  <2>2. CASE CountFailure(w)
    BY <2>2 DEF CountFailure
  <2>3. CASE GiveUp(w)
    BY <2>3 DEF GiveUp
  <2>. QED
    BY <1>2, <2>1, <2>2, <2>3 DEF Fetch
<1>3. ASSUME NEW w \in Workers, Record(w) PROVE TypeOK'
  <2>1. CASE ExpireCount(w)
    BY <2>1 DEF ExpireCount, Expiry
  <2>2. CASE Trip(w)
    BY <2>2 DEF Trip
  <2>. QED
    BY <1>3, <2>1, <2>2 DEF Record
<1>4. ASSUME NEW w \in Workers, CutShort(w) PROVE TypeOK'
  BY <1>4 DEF CutShort
<1>5. CASE Tick
  BY <1>5 DEF Tick, Aged
<1>6. CASE UNCHANGED vars
  BY <1>6 DEF vars
<1>. QED
  BY <1>1, <1>2, <1>3, <1>4, <1>5, <1>6 DEF Next

\* Only FindOpen reaches "open", with what it read.
LEMMA SeenStep == IInv /\ [Next]_vars => SeenInv'
<1> SUFFICES ASSUME IInv, [Next]_vars PROVE SeenInv'
  OBVIOUS
<1> USE BreakerAssumption DEF IInv, TypeOK, SeenInv, Goto, Used
<1>1. ASSUME NEW w \in Workers, Check(w) PROVE SeenInv'
  BY <1>1 DEF Check, FindClosed, FindOpen, ClaimProbe, Refuse
<1>2. ASSUME NEW w \in Workers, Fetch(w) PROVE SeenInv'
  BY <1>2 DEF Fetch, Succeed, CountFailure, GiveUp
<1>3. ASSUME NEW w \in Workers, Record(w) PROVE SeenInv'
  BY <1>3 DEF Record, ExpireCount, Trip
<1>4. ASSUME NEW w \in Workers, CutShort(w) PROVE SeenInv'
  BY <1>4 DEF CutShort
<1>5. CASE Tick
  BY <1>5 DEF Tick
<1>6. CASE UNCHANGED vars
  BY <1>6 DEF vars
<1>. QED
  BY <1>1, <1>2, <1>3, <1>4, <1>5, <1>6 DEF Next

\* A claim needs the probe key to be absent, sets it for a second at least, and
\* only a success or the next second takes it away.
LEMMA RationStep == IInv /\ [Next]_vars => RationInv'
<1> SUFFICES ASSUME IInv, [Next]_vars PROVE RationInv'
  OBVIOUS
<1> USE BreakerAssumption DEF IInv, TypeOK, RationInv, keys, history
<1>1. ASSUME NEW w \in Workers, Check(w) PROVE RationInv'
  <2>1. CASE ClaimProbe(w)
    <3>1. rush = 0
      BY <2>1 DEF ClaimProbe
    <3>2. seen[w] \in Nat
      OBVIOUS
    <3>. QED
      BY <2>1, <3>1, <3>2 DEF ClaimProbe, ProbeSeconds, AtMost
  <2>2. CASE FindClosed(w) \/ FindOpen(w) \/ Refuse(w)
    BY <2>2 DEF FindClosed, FindOpen, Refuse, Refusal
  <2>. QED
    BY <1>1, <2>1, <2>2 DEF Check
<1>2. ASSUME NEW w \in Workers, Fetch(w) PROVE RationInv'
  BY <1>2 DEF Fetch, Succeed, Forget, CountFailure, GiveUp
<1>3. ASSUME NEW w \in Workers, Record(w) PROVE RationInv'
  BY <1>3 DEF Record, ExpireCount, Trip
<1>4. ASSUME NEW w \in Workers, CutShort(w) PROVE RationInv'
  BY <1>4 DEF CutShort
<1>5. CASE Tick
  BY <1>5 DEF Tick
<1>6. CASE UNCHANGED vars
  BY <1>6 DEF vars
<1>. QED
  BY <1>1, <1>2, <1>3, <1>4, <1>5, <1>6 DEF Next

\* An INCR leaves its worker about to expire the count; an EXPIRE gives any
\* count an expiry, also one that a later INCR of another worker started.
LEMMA CountStep == IInv /\ [Next]_vars => CountForgotten'
<1> SUFFICES ASSUME IInv, [Next]_vars PROVE CountForgotten'
  OBVIOUS
<1> USE BreakerAssumption DEF IInv, TypeOK, CountForgotten, Goto, keys
<1>1. ASSUME NEW w \in Workers, Check(w) PROVE CountForgotten'
  <2>1. UNCHANGED <<fails, failsTTL, cuts>>
    BY <1>1 DEF Check, FindClosed, FindOpen, ClaimProbe, Refuse, Refusal
  <2>2. \A v \in Workers : pc[v] = "counted" => pc'[v] = "counted"
    BY <1>1 DEF Check, FindClosed, FindOpen, ClaimProbe, Refuse
  <2>. QED
    BY <2>1, <2>2
<1>2. ASSUME NEW w \in Workers, Fetch(w) PROVE CountForgotten'
  <2>1. CASE Succeed(w)
    BY <2>1 DEF Succeed, Forget
  <2>2. CASE CountFailure(w)
    BY <2>2 DEF CountFailure
  <2>3. CASE GiveUp(w)
    <3>1. UNCHANGED <<fails, failsTTL, cuts>>
      BY <2>3 DEF GiveUp
    <3>2. \A v \in Workers : pc[v] = "counted" => pc'[v] = "counted"
      BY <2>3 DEF GiveUp
    <3>. QED
      BY <3>1, <3>2
  <2>. QED
    BY <1>2, <2>1, <2>2, <2>3 DEF Fetch
<1>3. ASSUME NEW w \in Workers, Record(w) PROVE CountForgotten'
  <2>1. CASE ExpireCount(w)
    BY <2>1 DEF ExpireCount, Expiry
  <2>2. CASE Trip(w)
    <3>1. UNCHANGED <<fails, failsTTL, cuts>>
      BY <2>2 DEF Trip
    <3>2. \A v \in Workers : pc[v] = "counted" => pc'[v] = "counted"
      BY <2>2 DEF Trip
    <3>. QED
      BY <3>1, <3>2
  <2>. QED
    BY <1>3, <2>1, <2>2 DEF Record
<1>4. ASSUME NEW w \in Workers, CutShort(w) PROVE CountForgotten'
  BY <1>4 DEF CutShort
<1>5. CASE Tick
  BY <1>5 DEF Tick, Aged
<1>6. CASE UNCHANGED vars
  BY <1>6 DEF vars
<1>. QED
  BY <1>1, <1>2, <1>3, <1>4, <1>5, <1>6 DEF Next

\* INCR moves the count and the history together, a success clears both, and an
\* expiry only lowers the count.
LEMMA ConsecutiveStep == IInv /\ [Next]_vars => CountConsecutive'
<1> SUFFICES ASSUME IInv, [Next]_vars PROVE CountConsecutive'
  OBVIOUS
<1> USE BreakerAssumption
    DEF IInv, TypeOK, CountConsecutive, AtMost, keys, history
<1>1. ASSUME NEW w \in Workers, Check(w) PROVE CountConsecutive'
  BY <1>1 DEF Check, FindClosed, FindOpen, ClaimProbe, Refuse, Refusal
<1>2. ASSUME NEW w \in Workers, Fetch(w) PROVE CountConsecutive'
  BY <1>2 DEF Fetch, Succeed, Forget, CountFailure, GiveUp
<1>3. ASSUME NEW w \in Workers, Record(w) PROVE CountConsecutive'
  BY <1>3 DEF Record, ExpireCount, Trip
<1>4. ASSUME NEW w \in Workers, CutShort(w) PROVE CountConsecutive'
  BY <1>4 DEF CutShort
<1>5. CASE Tick
  BY <1>5 DEF Tick
<1>6. CASE UNCHANGED vars
  BY <1>6 DEF vars
<1>. QED
  BY <1>1, <1>2, <1>3, <1>4, <1>5, <1>6 DEF Next

\* A worker that counts the last failure of Threshold in a row has them behind
\* it; a success overtakes every worker that is about to open the domain.
LEMMA TripStep == IInv /\ [Next]_vars => TripInv'
<1> SUFFICES ASSUME IInv, [Next]_vars PROVE TripInv'
  OBVIOUS
<1> USE BreakerAssumption
    DEF IInv, TypeOK, TripInv, AboutToTrip, Goto, Used, keys, history
<1>1. ASSUME NEW w \in Workers, Check(w) PROVE TripInv'
  BY <1>1 DEF Check, FindClosed, FindOpen, ClaimProbe, Refuse
<1>2. ASSUME NEW w \in Workers, Fetch(w) PROVE TripInv'
  <2>1. CASE Succeed(w)
    BY <2>1 DEF Succeed
  <2>2. CASE CountFailure(w)
    <3>1. since' = AtMost(Threshold, since + 1) /\ since \in 0 .. Threshold
      BY <2>2 DEF CountFailure
    <3>2. since = Threshold => since' = Threshold
      BY <3>1 DEF AtMost
    <3>3. fails + 1 >= Threshold => since' = Threshold
      BY <3>1 DEF CountConsecutive, AtMost
    <3>4. /\ pc' = [pc EXCEPT ![w] = "counted"] /\ late' = late
          /\ seen' = [seen EXCEPT ![w] = fails + 1]
      BY <2>2 DEF CountFailure
    <3>. QED
      BY <3>2, <3>3, <3>4
  <2>3. CASE GiveUp(w)
    BY <2>3 DEF GiveUp
  <2>. QED
    BY <1>2, <2>1, <2>2, <2>3 DEF Fetch
<1>3. ASSUME NEW w \in Workers, Record(w) PROVE TripInv'
  BY <1>3 DEF Record, ExpireCount, Trip
<1>4. ASSUME NEW w \in Workers, CutShort(w) PROVE TripInv'
  BY <1>4 DEF CutShort
<1>5. CASE Tick
  BY <1>5 DEF Tick
<1>6. CASE UNCHANGED vars
  BY <1>6 DEF vars
<1>. QED
  BY <1>1, <1>2, <1>3, <1>4, <1>5, <1>6 DEF Next

\* Trip alone writes the open key, with Threshold failures behind it or on a
\* count that a success has overtaken; a success that comes later takes the key
\* away with them.
LEMMA OpenedStep == IInv /\ [Next]_vars => OpenedInARow'
<1> SUFFICES ASSUME IInv, [Next]_vars PROVE OpenedInARow'
  OBVIOUS
<1> USE BreakerAssumption DEF IInv, TypeOK, OpenedInARow, Goto, keys, history
<1>1. ASSUME NEW w \in Workers, Check(w) PROVE OpenedInARow'
  BY <1>1 DEF Check, FindClosed, FindOpen, ClaimProbe, Refuse, Refusal
<1>2. ASSUME NEW w \in Workers, Fetch(w) PROVE OpenedInARow'
  BY <1>2 DEF Fetch, Succeed, Forget, CountFailure, GiveUp, AtMost
<1>3. ASSUME NEW w \in Workers, Record(w) PROVE OpenedInARow'
  <2>1. CASE Trip(w)
    BY <2>1 DEF Trip, TripInv, AboutToTrip
  <2>2. CASE ExpireCount(w)
    BY <2>2 DEF ExpireCount
  <2>. QED
    BY <1>3, <2>1, <2>2 DEF Record
<1>4. ASSUME NEW w \in Workers, CutShort(w) PROVE OpenedInARow'
  BY <1>4 DEF CutShort
<1>5. CASE Tick
  BY <1>5 DEF Tick, Aged
<1>6. CASE UNCHANGED vars
  BY <1>6 DEF vars
<1>. QED
  BY <1>1, <1>2, <1>3, <1>4, <1>5, <1>6 DEF Next

\* Only Trip opens the domain or keeps it open longer, and its worker is idle
\* after it; only a check that found no open key makes a worker fetch.
LEMMA HoldStep == IInv /\ [Next]_vars => OpenHoldsBack'
<1> SUFFICES ASSUME IInv, [Next]_vars PROVE OpenHoldsBack'
  OBVIOUS
<1> USE BreakerAssumption DEF IInv, TypeOK, OpenHoldsBack, Goto, keys
<1>1. ASSUME NEW w \in Workers, Check(w) PROVE OpenHoldsBack'
  <2>1. CASE FindClosed(w)
    BY <2>1 DEF FindClosed, OpenAbsent
  <2>2. CASE FindOpen(w) \/ ClaimProbe(w) \/ Refuse(w)
    <3>1. /\ openTTL' = openTTL
          /\ \A v \in Workers : pc'[v] = "fetching" => pc[v] = "fetching"
      BY <2>2 DEF FindOpen, ClaimProbe, Refuse, Refusal
    <3>. QED
      BY <3>1
  <2>. QED
    BY <1>1, <2>1, <2>2 DEF Check
<1>2. ASSUME NEW w \in Workers, Fetch(w) PROVE OpenHoldsBack'
  <2>1. pc'[w] # "fetching"
    BY <1>2 DEF Fetch, Succeed, CountFailure, GiveUp
  <2>. QED
    BY <2>1
<1>3. ASSUME NEW w \in Workers, Record(w) PROVE OpenHoldsBack'
  <2>1. pc'[w] # "fetching"
    BY <1>3 DEF Record, ExpireCount, Trip
  <2>. QED
    BY <2>1
<1>4. ASSUME NEW w \in Workers, CutShort(w) PROVE OpenHoldsBack'
  <2>1. pc'[w] # "fetching"
    BY <1>4 DEF CutShort
  <2>. QED
    BY <2>1
<1>5. CASE Tick
  BY <1>5 DEF Tick, Aged
<1>6. CASE UNCHANGED vars
  BY <1>6 DEF vars
<1>. QED
  BY <1>1, <1>2, <1>3, <1>4, <1>5, <1>6 DEF Next

\* The conjunction is inductive.
LEMMA Inductive == Spec => []IInv
<1>1. IInv /\ [Next]_vars => IInv'
  BY TypeStep, SeenStep, RationStep, CountStep, ConsecutiveStep, TripStep,
     OpenedStep, HoldStep
  DEF IInv
<1>. QED
  BY <1>1, InitInv, PTL DEF Spec

-----------------------------------------------------------------------------

\* Keys, times to live and positions stay in their ranges.
THEOREM TypesHold == Spec => []TypeOK
<1>1. IInv => TypeOK
  BY DEF IInv
<1>. QED
  BY <1>1, Inductive, PTL

\* An open domain is never asked by all workers on out-of-date checks, for any
\* number of workers (Fetcher.fetch_page).
THEOREM OpenKeepsOneBack == Spec => []OpenHoldsBack
<1>1. IInv => OpenHoldsBack
  BY DEF IInv
<1>. QED
  BY <1>1, Inductive, PTL

\* No two workers probe an open domain within one second, for any number of
\* workers and whatever TTL rounded to (circuit.py:60-63).
THEOREM ProbesAreRationed == Spec => []ProbesRationed
<1>1. IInv => ProbesRationed
  BY DEF IInv, RationInv, ProbesRationed
<1>. QED
  BY <1>1, Inductive, PTL

\* A failure count always expires, unless a body was cut short before it could
\* see to it (record_failure).
THEOREM CountsAreForgotten == Spec => []CountForgotten
<1>1. IInv => CountForgotten
  BY DEF IInv
<1>. QED
  BY <1>1, Inductive, PTL

\* The domain is open only behind Threshold failures in a row, or by the word of
\* a worker that counted the last of them before a success came in, however the
\* workers interleave (circuit.py:4-5, record_failure).
THEOREM OpenedByFailures == Spec => []OpenedInARow
<1>1. IInv => OpenedInARow
  BY DEF IInv
<1>. QED
  BY <1>1, Inductive, PTL

=============================================================================
