--------------------------- MODULE PageFetchProofs ---------------------------
(***************************************************************************)
(* Theorems about PageFetch and PageRequest, for any number of workers,    *)
(* any target and any bounds. PageFetch implements CircuitBreaker, so the  *)
(* theorems of CircuitBreakerProofs hold of the fetchers as well.          *)
(***************************************************************************)
EXTENDS PageFetch, CircuitBreakerProofs

-----------------------------------------------------------------------------
(* page_value and page_url *)

\* Two page numbers of a target that steps have different values for the page
\* parameter ("Every page of a run must be addressable on its own",
\* pageurl.py:3).
LEMMA ValuesApart ==
  ASSUME NEW target, target.start \in Int, target.step \in Int,
         target.step # 0, NEW n \in Nat, NEW m \in Nat,
         PageValue(target, n) = PageValue(target, m)
  PROVE  n = m
<1> DEFINE step == target.step
           a == n - 1
           b == m - 1
<1>1. a \in Int /\ b \in Int /\ step \in Int /\ step # 0
  OBVIOUS
<1>2. target.start + a * step = target.start + b * step
  BY DEF PageValue
<1> HIDE DEF step, a, b
<1>3. a * step \in Int /\ b * step \in Int
  BY <1>1
<1>4. a * step = b * step
  BY <1>2, <1>3
<1>5. a = b
  BY <1>1, <1>4
<1> USE DEF a, b
<1>. QED
  BY <1>5

\* The query carries the page's value whatever the base URL and the parameters
\* of the target say (pageurl.py:42-49).
LEMMA QueryNamesPage ==
  ASSUME NEW target, NEW base, NEW n
  PROVE  PageQuery(target, base, n)[target.param] = PageValue(target, n)
BY DEF PageQuery, WithPage, Over

\* The pages of a run have different requests, for any base URL a caller may
\* supply (pageurl.page_url).
THEOREM PagesAddressable ==
  ASSUME NEW target, target.start \in Int, target.step \in Int,
         target.step # 0, NEW base, NEW n \in Nat, NEW m \in Nat,
         PageQuery(target, base, n) = PageQuery(target, base, m)
  PROVE  n = m
BY QueryNamesPage, ValuesApart

-----------------------------------------------------------------------------
(* The fetchers implement the breaker *)

\* Every step of a page task is a step of the breaker or leaves its keys alone.
LEMMA BreakerStep == [PageNext]_fetchVars => [Next]_vars
<1> SUFFICES ASSUME [PageNext]_fetchVars PROVE [Next]_vars
  OBVIOUS
<1>1. ASSUME NEW w \in Workers, PageStep(w) PROVE [Next]_vars
  <2>1. CASE PassCircuit(w)
    BY <2>1 DEF PassCircuit, Next, Check
  <2>2. CASE TurnedAway(w)
    BY <2>2 DEF TurnedAway, Next, Check
  <2>3. CASE NoSlot(w)
    BY <2>3 DEF NoSlot, Leave, Next, Fetch
  <2>4. CASE Answered(w) \/ NotAnswered(w)
    BY <2>4 DEF Answered, NotAnswered, Next, Fetch
  <2>5. CASE KeepRecord(w)
    BY <2>5 DEF KeepRecord, Next
  <2>6. CASE Refused(w) \/ Disallowed(w) \/ TakeSlot(w)
    BY <2>6 DEF Refused, Disallowed, TakeSlot
  <2>7. CASE Retried(w) \/ Recorded(w) \/ Escaped(w)
    BY <2>7 DEF Retried, Recorded, Escaped
  <2>. QED
    BY <1>1, <2>1, <2>2, <2>3, <2>4, <2>5, <2>6, <2>7 DEF PageStep
<1>2. ASSUME NEW w \in Workers, NextPage(w) PROVE [Next]_vars
  BY <1>2 DEF NextPage
<1>3. ASSUME NEW w \in Workers, Redeliver(w) PROVE [Next]_vars
  BY <1>3 DEF Redeliver, Next
<1>4. ASSUME NEW w \in Workers, TimeLimit(w) PROVE [Next]_vars
  BY <1>4 DEF TimeLimit, Next
<1>5. CASE Second
  BY <1>5 DEF Second, Next
<1>6. CASE UNCHANGED fetchVars
  BY <1>6 DEF fetchVars
<1>. QED
  BY <1>1, <1>2, <1>3, <1>4, <1>5, <1>6 DEF PageNext

\* The fetchers implement the breaker's specification (fetch.py:78-109).
THEOREM FetchersImplementBreaker == PageSpec => BreakerRefined
<1>1. PageInit => Init
  BY DEF PageInit
<1>. QED
  BY <1>1, BreakerStep, PTL DEF PageSpec, Spec, BreakerRefined

\* What holds of the breaker holds of the fetchers: probes stay rationed, and
\* an open domain is never asked by every worker on an old check.
COROLLARY FetchersKeepPromises ==
  PageSpec => [](TypeOK /\ ProbesRationed /\ CountForgotten
                   /\ OpenedInARow /\ OpenHoldsBack)
BY FetchersImplementBreaker, TypesHold, ProbesAreRationed, CountsAreForgotten,
   OpenedByFailures, OpenKeepsOneBack, PTL DEF BreakerRefined

-----------------------------------------------------------------------------
(* The task and the breaker agree *)

\* The shape of the task records, with the bounds of their counters.
PageShape == page \in [Workers -> PageTask]

\* A task between the check and the claim of the probe is still queued.
CheckInv == \A w \in Workers : pc[w] = "open" => page[w].at = "queued"

TaskInv == PageShape /\ CheckInv /\ GuardsAgree

\* The agreement is each task's own: a step of w only has to keep w's.
LEMMA OneTask ==
  ASSUME TaskInv, NEW w \in Workers, PageShape',
         \A v \in Workers \ {w} : page'[v] = page[v] /\ pc'[v] = pc[v],
         pc'[w] = "open" => page'[w].at = "queued",
         page'[w].at \in {"waiting", "asking"}
           <=> pc'[w] \in {"fetching", "probing"},
         pc'[w] \in {"counted", "tripping"} => page'[w].at = "raised"
  PROVE  TaskInv'
<1>1. CheckInv'
  BY DEF TaskInv, CheckInv
<1>2. GuardsAgree'
  BY DEF TaskInv, GuardsAgree
<1>. QED
  BY <1>1, <1>2 DEF TaskInv

\* A task record whose place and cause change keeps its shape.
LEMMA MovedShape ==
  ASSUME PageShape, NEW w \in Workers, NEW at \in Position,
         NEW cause \in Cause \union {"none"},
         page' = [page EXCEPT ![w].at = at, ![w].cause = cause]
  PROVE  /\ PageShape' /\ page'[w].at = at
         /\ \A v \in Workers \ {w} : page'[v] = page[v]
<1>1. \A v \in Workers :
        page'[v] = IF v = w THEN [page[w] EXCEPT !.at = at, !.cause = cause]
                            ELSE page[v]
  BY DEF PageShape
<1>2. [page[w] EXCEPT !.at = at, !.cause = cause] \in PageTask
  BY DEF PageShape, PageTask
<1>3. page' \in [Workers -> PageTask]
  BY <1>1, <1>2 DEF PageShape
<1>. QED
  BY <1>1, <1>2, <1>3 DEF PageShape

\* A task that the circuit turns away keeps the agreement,
LEMMA Turned ==
  ASSUME TypeOK, TaskInv, NEW w \in Workers, TurnedAway(w)
  PROVE  TaskInv'
<1>1. PICK cause \in Cause :
        page' = [page EXCEPT ![w].at = "raised", ![w].cause = cause]
  BY DEF Raise, TurnedAway, Cause, Retryable
<1>2. pc' = [pc EXCEPT ![w] = "idle"] /\ pc \in [Workers -> PC]
  BY DEF TypeOK, TurnedAway, Refuse, Goto
<1>3. /\ PageShape' /\ page'[w].at = "raised" /\ pc'[w] = "idle"
      /\ \A v \in Workers \ {w} : page'[v] = page[v] /\ pc'[v] = pc[v]
  BY <1>1, <1>2, MovedShape DEF TaskInv, Position
<1>. QED
  BY <1>3, OneTask

\* one that gets no slot does,
LEMMA Slotless ==
  ASSUME TypeOK, TaskInv, NEW w \in Workers, NoSlot(w)
  PROVE  TaskInv'
<1>1. PICK cause \in Cause :
        page' = [page EXCEPT ![w].at = "raised", ![w].cause = cause]
  BY DEF Raise, NoSlot, Cause, Retryable
<1>2. pc' = [pc EXCEPT ![w] = "idle"] /\ pc \in [Workers -> PC]
  BY DEF TypeOK, NoSlot, Leave, GiveUp, Goto
<1>3. /\ PageShape' /\ page'[w].at = "raised" /\ pc'[w] = "idle"
      /\ \A v \in Workers \ {w} : page'[v] = page[v] /\ pc'[v] = pc[v]
  BY <1>1, <1>2, MovedShape DEF TaskInv, Position
<1>. QED
  BY <1>3, OneTask

\* and one whose request fails.
LEMMA Unanswered ==
  ASSUME TypeOK, TaskInv, NEW w \in Workers, NotAnswered(w)
  PROVE  TaskInv'
<1>1. PICK cause \in Cause :
        page' = [page EXCEPT ![w].at = "raised", ![w].cause = cause]
  BY DEF Raise, NotAnswered, Cause, Retryable, FetchCauses
<1>2. pc' = [pc EXCEPT ![w] = "counted"] /\ pc \in [Workers -> PC]
  BY DEF TypeOK, NotAnswered, CountFailure, Goto
<1>3. /\ PageShape' /\ page'[w].at = "raised" /\ pc'[w] = "counted"
      /\ \A v \in Workers \ {w} : page'[v] = page[v] /\ pc'[v] = pc[v]
  BY <1>1, <1>2, MovedShape DEF TaskInv, Position
<1>. QED
  BY <1>3, OneTask

\* So does one that is delivered again.
LEMMA Redelivered ==
  ASSUME TypeOK, TaskInv, NEW w \in Workers, Redeliver(w)
  PROVE  TaskInv'
<1>1. page' = [page EXCEPT ![w].at = "queued", ![w].cause = "none"]
  BY DEF Redeliver
<1>2. pc' = [pc EXCEPT ![w] = "idle"] /\ pc \in [Workers -> PC]
  BY DEF TypeOK, Redeliver, CutShort, Goto
<1>3. /\ PageShape' /\ page'[w].at = "queued" /\ pc'[w] = "idle"
      /\ \A v \in Workers \ {w} : page'[v] = page[v] /\ pc'[v] = pc[v]
  BY <1>1, <1>2, MovedShape DEF TaskInv, Position
<1>. QED
  BY <1>3, OneTask

\* And one whose soft time limit is over.
LEMMA Overrun ==
  ASSUME TypeOK, TaskInv, NEW w \in Workers, TimeLimit(w)
  PROVE  TaskInv'
<1>1. page' = [page EXCEPT ![w].at = "raised", ![w].cause = "escaping"]
  BY DEF TimeLimit, Raise
<1>2. pc' = [pc EXCEPT ![w] = "idle"] /\ pc \in [Workers -> PC]
  BY DEF TypeOK, TimeLimit, CutShort, Goto
<1>3. /\ PageShape' /\ page'[w].at = "raised" /\ pc'[w] = "idle"
      /\ \A v \in Workers \ {w} : page'[v] = page[v] /\ pc'[v] = pc[v]
  BY <1>1, <1>2, MovedShape DEF TaskInv, Position, Cause
<1>. QED
  BY <1>3, OneTask

\* Every step of a page task keeps the shape and the agreement.
LEMMA TaskStep == TypeOK /\ TaskInv /\ [PageNext]_fetchVars => TaskInv'
<1> SUFFICES ASSUME TypeOK, TaskInv, [PageNext]_fetchVars PROVE TaskInv'
  OBVIOUS
<1> USE FetchAssumption
    DEF TaskInv, PageShape, PageTask, CheckInv, GuardsAgree, Position, Ended,
        Retryable, Cause, Goto, Move, Raise, End, NewPage
<1>0. pc \in [Workers -> PC]
  BY DEF TypeOK
<1>1. ASSUME NEW w \in Workers, PageStep(w) PROVE TaskInv'
  <2>1. CASE PassCircuit(w)
    BY <1>0, <2>1 DEF PassCircuit, FindClosed, FindOpen, ClaimProbe, Due
  <2>2. CASE TurnedAway(w)
    BY <2>2, Turned
  <2>3. CASE NoSlot(w)
    BY <2>3, Slotless
  <2>4. CASE Answered(w)
    <3>1. /\ page' = [page EXCEPT ![w] =
                        [at |-> "rows", tries |-> 0, wait |-> 0,
                         cause |-> "none"]]
          /\ pc' = [pc EXCEPT ![w] = "idle"]
      BY <2>4 DEF Answered, Succeed
    <3>. QED
      BY <1>0, <3>1
  <2>5. CASE NotAnswered(w)
    BY <2>5, Unanswered
  <2>6. CASE KeepRecord(w)
    BY <1>0, <2>6 DEF KeepRecord, Record, ExpireCount, Trip
  <2>7. CASE Refused(w) \/ Disallowed(w)
    BY <1>0, <2>7 DEF Refused, Disallowed, Due, vars
  <2>8. CASE TakeSlot(w)
    BY <1>0, <2>8 DEF TakeSlot, vars
  <2>9. CASE Retried(w)
    <3>1. PICK wait \in 0 .. BackoffMax :
            page' = [page EXCEPT ![w].at = "queued", ![w].cause = "none",
                                 ![w].tries = @ + 1, ![w].wait = wait]
      BY <2>9, Zenon DEF Retried, TriesAdded, Backoff
    <3>2. pc' = pc /\ page[w].at = "raised" /\ pc[w] = "idle"
      BY <2>9 DEF Retried, Caught, vars
    <3>3. page[w].tries + 1 \in 0 .. MaxRetries
      BY <2>9 DEF Retried
    <3>4. PageShape'
      BY <3>1, <3>3
    <3>. QED
      BY <1>0, <3>1, <3>2, <3>4
  <2>10. CASE Recorded(w) \/ Escaped(w)
    BY <1>0, <2>10 DEF Recorded, Escaped, Caught, vars
  <2>. QED
    BY <1>1, <2>1, <2>2, <2>3, <2>4, <2>5, <2>6, <2>7, <2>8, <2>9, <2>10
    DEF PageStep
<1>2. ASSUME NEW w \in Workers, NextPage(w) PROVE TaskInv'
  BY <1>0, <1>2 DEF NextPage, vars
<1>3. ASSUME NEW w \in Workers, Redeliver(w) PROVE TaskInv'
  BY <1>3, Redelivered
<1>4. ASSUME NEW w \in Workers, TimeLimit(w) PROVE TaskInv'
  BY <1>4, Overrun
<1>5. CASE Second
  BY <1>0, <1>5 DEF Second, Tick, Aged
<1>6. CASE UNCHANGED fetchVars
  BY <1>6 DEF fetchVars, vars
<1>. QED
  BY <1>1, <1>2, <1>3, <1>4, <1>5, <1>6 DEF PageNext

\* The task records and the breaker agree, and the records keep their bounds.
LEMMA TaskInductive == PageSpec => []TaskInv
<1>1. PageInit => TaskInv
  BY FetchAssumption
  DEF PageInit, Init, TaskInv, PageShape, PageTask, CheckInv, GuardsAgree,
      NewPage, Position, Cause, Ended
<1>. QED
  BY <1>1, TaskStep, FetchersKeepPromises, PTL DEF PageSpec

\* A page is never tried more often than fetch_page allows and never waits
\* longer than retry_backoff_max, however its errors, deaths and open circuits
\* follow each other (crawl.py:115-124).
THEOREM PageTypeCorrect == PageSpec => []PageTypeOK
<1>1. TypeOK /\ TaskInv => PageTypeOK
  BY DEF TaskInv, PageShape, PageTypeOK
<1>. QED
  BY <1>1, TaskInductive, FetchersKeepPromises, PTL

\* A request is out only for a task that passed the circuit, and a failure is
\* recorded before its task goes on (fetch.py:86-100).
THEOREM GuardsAlwaysAgree == PageSpec => []GuardsAgree
<1>1. TaskInv => GuardsAgree
  BY DEF TaskInv
<1>. QED
  BY <1>1, TaskInductive, PTL

=============================================================================
