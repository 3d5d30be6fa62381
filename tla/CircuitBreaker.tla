--------------------------- MODULE CircuitBreaker ---------------------------
(***************************************************************************)
(* The circuit breaker of one domain (queue/circuit.py) as the workers'    *)
(* fetchers drive it (Fetcher.fetch_page): three Redis keys with a time to *)
(* live, shared by every worker. Each Redis command is one step, so two    *)
(* workers interleave between the commands of one method.                  *)
(*                                                                         *)
(* Time passes in seconds. A key set for s seconds expires at the s-th     *)
(* tick. TTL rounds the time left to whole seconds, so of d ticks left it  *)
(* may report d or d - 1.                                                  *)
(***************************************************************************)
EXTENDS Integers, FiniteSets

CONSTANTS
  Workers,      \* the worker processes that fetch from the domain
  Threshold,    \* settings.circuit_failure_threshold
  OpenSeconds,  \* settings.circuit_open_seconds
  MaxFails,     \* bound: no fetch fails while the count is this high
  Cuts          \* bound: how often a body is cut short between its commands

ASSUME BreakerAssumption ==
  /\ Threshold \in Nat \ {0} /\ OpenSeconds \in Nat \ {0}
  /\ MaxFails \in Nat /\ Cuts \in Nat

VARIABLES
  fails,     \* the value of <domain>:fails, 0 when it is absent
  failsTTL,  \* its seconds to live, 0 when it has no expiry
  openTTL,   \* seconds to live of <domain>:open, 0 when it is absent
  probeTTL,  \* seconds to live of <domain>:probe, 0 when it is absent
  pc,        \* where each worker is in fetch_page
  seen,      \* what the last TTL or INCR returned to it
  cuts,      \* how often a body has been cut short
  \* History, read by the properties only:
  since,     \* failures counted since the last success, up to Threshold
  late,      \* workers about to trip on a count from before the last success
  overtaken, \* one of them wrote the open key as it is now
  rush       \* probes admitted in this second, up to 2

keys    == <<fails, failsTTL, openTTL, probeTTL>>
history == <<since, late, overtaken, rush>>
vars    == <<keys, pc, seen, cuts, history>>

PC == {"idle", "open", "fetching", "probing", "counted", "tripping"}

AtMost(bound, n) == IF n < bound THEN n ELSE bound

TypeOK ==
  /\ fails \in 0 .. MaxFails
  /\ failsTTL \in 0 .. OpenSeconds
  /\ openTTL \in 0 .. OpenSeconds
  /\ probeTTL \in 0 .. OpenSeconds
  /\ pc \in [Workers -> PC]
  /\ seen \in [Workers -> 0 .. (OpenSeconds + MaxFails)]
  /\ cuts \in 0 .. Cuts
  /\ since \in 0 .. Threshold /\ rush \in 0 .. 2
  /\ late \subseteq Workers /\ overtaken \in BOOLEAN

Init ==
  /\ fails = 0 /\ failsTTL = 0 /\ openTTL = 0 /\ probeTTL = 0
  /\ pc = [w \in Workers |-> "idle"]
  /\ seen = [w \in Workers |-> 0]
  /\ cuts = 0
  /\ since = 0 /\ late = {} /\ overtaken = FALSE /\ rush = 0

Goto(w, from, to) == pc[w] \in from /\ pc' = [pc EXCEPT ![w] = to]

\* What was read is not needed any more.
Used(w) == seen' = [seen EXCEPT ![w] = 0]

-----------------------------------------------------------------------------
(* state and assert_closed *)

\* Variant, wrong: a time to live that rounds down to 0 counts as absent.
AbsentInLastSecond == openTTL <= 1

\* TTL answers below 0: there is no open key.
OpenAbsent == openTTL = 0

\* The fetch goes ahead.
FindClosed(w) ==
  /\ OpenAbsent
  /\ Goto(w, {"idle"}, "fetching")
  /\ UNCHANGED <<keys, seen, cuts, history>>

FindOpen(w) ==
  /\ openTTL > 0
  /\ Goto(w, {"idle"}, "open")
  /\ \E ttl \in {openTTL, openTTL - 1} : seen' = [seen EXCEPT ![w] = ttl]
  /\ UNCHANGED <<keys, cuts, history>>

\* Variant, wrong: the rounded time to live as it is.
ProbeSecondsUnclamped(ttl) == ttl

\* The expiry of the probe key: max(ttl, 1).
ProbeSeconds(ttl) == IF ttl > 1 THEN ttl ELSE 1

\* SET NX succeeds: this worker is the probe (HALF_OPEN).
ClaimProbe(w) ==
  /\ probeTTL = 0
  /\ Goto(w, {"open"}, "probing")
  /\ probeTTL' = ProbeSeconds(seen[w])
  /\ rush' = AtMost(2, rush + 1)
  /\ Used(w)
  /\ UNCHANGED <<fails, failsTTL, openTTL, cuts, since, late, overtaken>>

\* Variant, wrong: a refusal starts the cooling again.
RefusalExtends ==
  openTTL' = OpenSeconds /\ UNCHANGED <<fails, failsTTL, probeTTL>>

Refusal == UNCHANGED keys

\* SET NX fails: CircuitOpen, which the page task retries later.
Refuse(w) ==
  /\ probeTTL > 0
  /\ Goto(w, {"open"}, "idle")
  /\ Refusal
  /\ Used(w)
  /\ UNCHANGED <<cuts, history>>

-----------------------------------------------------------------------------
(* The fetch, and record_success and record_failure *)

\* Variant, wrong: the count survives a success.
ForgetOpenOnly ==
  /\ openTTL' = 0 /\ probeTTL' = 0
  /\ UNCHANGED <<fails, failsTTL>>

\* Variant, wrong: a success takes one failure back.
ForgetOne ==
  /\ openTTL' = 0 /\ probeTTL' = 0
  /\ fails' = fails - 1 /\ failsTTL' = failsTTL

\* One DEL of the three keys.
Forget == fails' = 0 /\ failsTTL' = 0 /\ openTTL' = 0 /\ probeTTL' = 0

AboutToTrip(w) ==
  pc[w] = "tripping" \/ (pc[w] = "counted" /\ seen[w] >= Threshold)

Succeed(w) ==
  /\ Goto(w, {"fetching", "probing"}, "idle")
  /\ Forget
  /\ since' = 0 /\ rush' = 0
  /\ late' = {v \in Workers : AboutToTrip(v)}
  /\ overtaken' = FALSE
  /\ UNCHANGED <<seen, cuts>>

\* No slot in the rate limiter before its timeout: TimeoutError is raised
\* before the fetch, and neither outcome is recorded.
GiveUp(w) ==
  /\ Goto(w, {"fetching", "probing"}, "idle")
  /\ UNCHANGED <<keys, seen, cuts, history>>

\* Any exception of the fetch: INCR, which keeps the expiry it finds,
CountFailure(w) ==
  /\ fails < MaxFails
  /\ Goto(w, {"fetching", "probing"}, "counted")
  /\ fails' = fails + 1
  /\ seen' = [seen EXCEPT ![w] = fails + 1]
  /\ since' = AtMost(Threshold, since + 1)
  /\ UNCHANGED <<failsTTL, openTTL, probeTTL, cuts, late, overtaken, rush>>

\* Variant, wrong: only a count that opens the domain gets an expiry.
ExpiryAtThreshold(count) ==
  failsTTL' = IF fails > 0 /\ count >= Threshold THEN OpenSeconds
                                                 ELSE failsTTL

\* then EXPIRE, which does nothing to a key that is gone,
Expiry(count) == failsTTL' = IF fails > 0 THEN OpenSeconds ELSE failsTTL

ExpireCount(w) ==
  /\ Goto(w, {"counted"}, IF seen[w] >= Threshold THEN "tripping" ELSE "idle")
  /\ Expiry(seen[w])
  /\ Used(w)
  /\ UNCHANGED <<fails, openTTL, probeTTL, cuts, history>>

\* and SET of the open key, when the count it got reached the threshold. It
\* opens the domain or extends the window; the probe key stays as it is.
Trip(w) ==
  /\ Goto(w, {"tripping"}, "idle")
  /\ openTTL' = OpenSeconds
  /\ late' = late \ {w} /\ overtaken' = (w \in late)
  /\ UNCHANGED <<fails, failsTTL, probeTTL, seen, cuts, since, rush>>

\* The body ends before, between or after its commands: the worker dies, or the
\* soft time limit is raised in it. What it has written stays.
CutShort(w) ==
  /\ cuts < Cuts
  /\ cuts' = cuts + 1
  /\ Goto(w, PC, "idle")
  /\ Used(w)
  /\ late' = late \ {w}
  /\ UNCHANGED <<keys, since, overtaken, rush>>

-----------------------------------------------------------------------------

Aged(ttl) == IF ttl > 0 THEN ttl - 1 ELSE 0

\* One second: every key ages, and a count with one second left is gone.
Tick ==
  /\ failsTTL' = Aged(failsTTL)
  /\ fails' = IF failsTTL = 1 THEN 0 ELSE fails
  /\ openTTL' = Aged(openTTL)
  /\ probeTTL' = Aged(probeTTL)
  /\ rush' = 0 /\ overtaken' = (overtaken /\ openTTL > 1)
  /\ UNCHANGED <<pc, seen, cuts, since, late>>

Check(w) == FindClosed(w) \/ FindOpen(w) \/ ClaimProbe(w) \/ Refuse(w)

Fetch(w) == Succeed(w) \/ CountFailure(w) \/ GiveUp(w)

Record(w) == ExpireCount(w) \/ Trip(w)

Next ==
  \/ \E w \in Workers : Check(w) \/ Fetch(w) \/ Record(w) \/ CutShort(w)
  \/ Tick

Spec == Init /\ [][Next]_vars

\* Time passes, and a worker that is counting a failure finishes.
FairSpec == Spec /\ WF_vars(Tick) /\ \A w \in Workers : WF_vars(Record(w))

-----------------------------------------------------------------------------
(* Properties *)

\* Whatever TTL rounds to and whatever it read long ago, no two workers probe
\* an open domain within one second (state, circuit.py:60-63).
ProbesRationed == rush <= 1

\* The domain is open only behind Threshold failures in a row: as many have been
\* counted since the last success, or the success came between the INCR of the
\* worker that wrote the open key and its SET, whose decision is by then out of
\* date ("After N consecutive failures the domain opens", circuit.py:4-5,
\* record_failure). No other order of INCR, DEL and SET of several workers, no
\* expiry and no body cut short opens it.
OpenedInARow == openTTL > 0 => since = Threshold \/ overtaken

\* The failure count cannot outlive its expiry: it has one, or a worker is
\* about to give it one, or a body was cut short before it did, which leaves a
\* count that only a success or the next failure mends (record_failure).
CountForgotten ==
  fails > 0 /\ failsTTL = 0 =>
    cuts > 0 \/ \E w \in Workers : pc[w] = "counted"

\* An open domain is asked by no more than the workers that were past their
\* check when it opened, which excludes the one that opened it: at least one
\* of N workers is not fetching on an out-of-date check, whatever the order of
\* checks, trips, successes and expiries (Fetcher.fetch_page, fetch.py:86, and
\* "checking the circuit after the fetch defeats its purpose", fetch.py:7-8).
OpenHoldsBack == openTTL > 0 => \E w \in Workers : pc[w] # "fetching"

\* Once the site has recovered, so that no fetch fails any more, the circuit
\* closes for good, whether or not any probe ever gets through
\* (runbook/domain-blocked.md, "the probe will close the circuit").
Recovers == <>[](\A w \in Workers : pc[w] # "counted") => <>[](openTTL = 0)

=============================================================================
