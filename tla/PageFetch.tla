----------------------------- MODULE PageFetch -----------------------------
(***************************************************************************)
(* fetch_page tasks against one domain: the guards of Fetcher.fetch_page,  *)
(* the request, what HttpFetcher makes of the answer, and the retries that *)
(* Celery adds. The commands to the circuit breaker are the actions of     *)
(* CircuitBreaker; each step here is one of them or leaves its keys alone. *)
(*                                                                         *)
(* Each of Workers is a page task together with the worker process that    *)
(* has it; when the task has ended another page takes its place. The rate  *)
(* limiter (RateLimiter) is seen as its caller sees it: a slot, or none    *)
(* before the timeout. What is stored after a fetch is in CrawlPipeline.   *)
(***************************************************************************)
EXTENDS CircuitBreaker, PageRequest

CONSTANTS
  Target,      \* the TargetSpec, as PageRequest reads it
  MaxRetries,  \* fetch_page.max_retries
  BackoffMax   \* fetch_page.retry_backoff_max, in seconds

ASSUME FetchAssumption == MaxRetries \in Nat /\ BackoffMax \in Nat

VARIABLE
  page  \* the page task of each worker

\* Where a task is: its message waits, it asks the circuit or the limiter for
\* leave, its request is out, an exception is on its way to the except clauses
\* of crawl.fetch_page, or it ended with rows, a failed page or an error.
Position == {"queued", "waiting", "asking", "raised", "rows", "failed", "error"}

Ended == {"rows", "failed", "error"}

\* What can be raised. Celery retries the first two (autoretry_for). Escaping
\* are the soft time limit, which is recorded as a failed page and raised
\* again, and what fetch_page does not name: BlockedURL,
\* UnsupportedPagination, the limiter's TimeoutError, a body that is no JSON.
Retryable == {"transient", "circuit"}
Cause == Retryable \union {"permanent", "escaping"}

PageTask ==
  [at    : Position,
   tries : 0 .. MaxRetries,        \* request.retries
   wait  : 0 .. BackoffMax,        \* seconds of its countdown left
   cause : Cause \union {"none"}]  \* what was raised

PageTypeOK == TypeOK /\ page \in [Workers -> PageTask]

fetchVars == <<vars, page>>

NewPage == [at |-> "queued", tries |-> 0, wait |-> 0, cause |-> "none"]

PageInit == Init /\ page = [w \in Workers |-> NewPage]

Move(w, from, to) ==
  /\ page[w].at \in from
  /\ page' = [page EXCEPT ![w].at = to]

\* The task ends; what failed_pages says of the cause is kept.
End(w, from, to) ==
  /\ page[w].at \in from
  /\ page' = [page EXCEPT ![w] =
       [at |-> to, tries |-> 0, wait |-> 0,
        cause |-> IF to = "failed" THEN page[w].cause ELSE "none"]]

Raise(w, from, cause) ==
  /\ page[w].at \in from
  /\ page' = [page EXCEPT ![w].at = "raised", ![w].cause = cause]

\* The message is due and the body at its start.
Due(w) == page[w].at = "queued" /\ page[w].wait = 0 /\ pc[w] = "idle"

-----------------------------------------------------------------------------
(* The guards: page_url, assert_allowed, robots, assert_closed, the slot *)

\* What getaddrinfo may answer at each attempt: nothing, or addresses of which
\* any may lie in a private range. The scheme, host and port were checked at
\* the submission and page_url changes the query only.
DnsAnswers == SUBSET {"public", "private"}

\* assert_public_address: some address, and none that is not public.
PublicAddress(addresses) == addresses # {} /\ "private" \notin addresses

Refused(w) ==
  /\ Due(w)
  /\ ~ Addressable(Target) \/ \E answer \in DnsAnswers : ~ PublicAddress(answer)
  /\ Raise(w, {"queued"}, "escaping")
  /\ UNCHANGED vars

\* robots.txt disallows the page: PermanentFetchError.
Disallowed(w) ==
  /\ Due(w)
  /\ Raise(w, {"queued"}, "permanent")
  /\ UNCHANGED vars

\* assert_closed: the circuit is closed, or this task is its probe,
PassCircuit(w) ==
  \/ /\ Due(w)
     /\ Addressable(Target)
     /\ \/ FindClosed(w) /\ Move(w, {"queued"}, "waiting")
        \/ FindOpen(w) /\ UNCHANGED page
  \/ ClaimProbe(w) /\ Move(w, {"queued"}, "waiting")

\* or CircuitOpen is raised.
TurnedAway(w) == Refuse(w) /\ Raise(w, {"queued"}, "circuit")

\* wait_for_slot sleeps before it gives up, so a check may be long past when
\* the request leaves.
TakeSlot(w) ==
  /\ Move(w, {"waiting"}, "asking")
  /\ UNCHANGED vars

\* Variant, wrong: a probe that got no slot takes its key back.
LeaveWithProbeKey(w) ==
  /\ Goto(w, {"fetching", "probing"}, "idle")
  /\ probeTTL' = IF pc[w] = "probing" THEN 0 ELSE probeTTL
  /\ UNCHANGED <<fails, failsTTL, openTTL, seen, cuts, history>>

\* No key is touched, also by a probe.
Leave(w) == GiveUp(w)

\* TimeoutError, or the soft time limit during the wait.
NoSlot(w) ==
  /\ Leave(w)
  /\ Raise(w, {"waiting"}, "escaping")

-----------------------------------------------------------------------------
(* The request and its answer *)

\* A status below 400 and rows that parse: record_success.
Answered(w) == Succeed(w) /\ End(w, {"asking"}, "rows")

\* HttpFetcher._fetch: a timeout, a transport error or a retryable status is
\* transient, any other status from 400 on is permanent, a body that does not
\* parse or the soft time limit escapes. All are counted.
FetchCauses == {"transient", "permanent", "escaping"}

NotAnswered(w) ==
  /\ CountFailure(w)
  /\ \E cause \in FetchCauses : Raise(w, {"asking"}, cause)

\* The rest of record_failure.
KeepRecord(w) == Record(w) /\ UNCHANGED page

-----------------------------------------------------------------------------
(* The except clauses of crawl.fetch_page, and autoretry_for *)

\* Variant, wrong: the exception does not wait for record_failure.
CaughtAtOnce(w) == page[w].at = "raised"

\* record_failure has finished.
Caught(w) == page[w].at = "raised" /\ pc[w] = "idle"

\* The countdowns the jitter may draw: retry_backoff doubles from one second.
Backoff(tries) == {wait \in 0 .. BackoffMax : wait <= 2 ^ tries}

\* Variant, wrong: an open circuit is retried without being counted.
CountsAsTry(cause) == IF cause = "circuit" THEN 0 ELSE 1

\* request.retries grows with every retry, whatever the cause.
TriesAdded(cause) == 1

\* Raised again while there are retries left, for Celery to publish the same
\* task with a countdown.
Retried(w) ==
  /\ Caught(w)
  /\ page[w].cause \in Retryable
  /\ page[w].tries < MaxRetries
  /\ \E wait \in Backoff(page[w].tries) :
       page' = [page EXCEPT ![w].at = "queued", ![w].cause = "none",
                            ![w].tries = @ + TriesAdded(page[w].cause),
                            ![w].wait = wait]
  /\ UNCHANGED vars

\* Recorded in failed_pages: a permanent error, or one retry too many.
Recorded(w) ==
  /\ Caught(w)
  /\ \/ page[w].cause = "permanent"
     \/ page[w].cause \in Retryable /\ page[w].tries >= MaxRetries
  /\ End(w, {"raised"}, "failed")
  /\ UNCHANGED vars

\* The task ends in an exception, which keeps its chord from firing.
Escaped(w) ==
  /\ Caught(w)
  /\ page[w].cause = "escaping"
  /\ End(w, {"raised"}, "error")
  /\ UNCHANGED vars

NextPage(w) ==
  /\ page[w].at \in Ended
  /\ page' = [page EXCEPT ![w] = NewPage]
  /\ UNCHANGED vars

\* The worker dies: the message comes back at once, with the same retries.
Redeliver(w) ==
  /\ pc[w] # "idle" \/ page[w].at = "raised"
  /\ CutShort(w)
  /\ page' = [page EXCEPT ![w].at = "queued", ![w].cause = "none"]

\* The soft time limit, between two commands or before the outcome is recorded:
\* the exception takes the place of any other. (NoSlot and NotAnswered have it
\* for the two waits.)
TimeLimit(w) ==
  /\ pc[w] # "idle" \/ page[w].at = "raised"
  /\ CutShort(w)
  /\ Raise(w, {"queued", "asking", "raised"}, "escaping")

Second ==
  /\ Tick
  /\ page' = [w \in Workers |-> [page[w] EXCEPT !.wait = Aged(@)]]

-----------------------------------------------------------------------------

\* What a live worker does with the task it has.
PageStep(w) ==
  \/ Refused(w) \/ Disallowed(w) \/ PassCircuit(w) \/ TurnedAway(w)
  \/ TakeSlot(w) \/ NoSlot(w) \/ Answered(w) \/ NotAnswered(w)
  \/ KeepRecord(w) \/ Retried(w) \/ Recorded(w) \/ Escaped(w)

PageNext ==
  \/ \E w \in Workers :
       PageStep(w) \/ NextPage(w) \/ Redeliver(w) \/ TimeLimit(w)
  \/ Second

PageSpec == PageInit /\ [][PageNext]_fetchVars

\* Time passes, and a worker with a task carries it on: the request, the wait
\* for a slot and the body as a whole all have timeouts.
PageFairSpec ==
  /\ PageSpec
  /\ WF_fetchVars(Second)
  /\ \A w \in Workers : WF_fetchVars(PageStep(w))

-----------------------------------------------------------------------------
(* Properties *)

\* The fetchers drive the breaker as CircuitBreaker says, so what holds of it
\* holds of them: no guard, retry, death or time limit issues a command out of
\* order (Fetcher.fetch_page, fetch.py:78-109).
BreakerRefined == Spec

\* A request is out only on behalf of a task that passed the circuit, and a
\* page that is to be tried again has had its failure counted first: the
\* breaker and the task agree on what the worker is doing (fetch.py:86-100).
GuardsAgree ==
  \A w \in Workers :
    /\ page[w].at \in {"waiting", "asking"}
         <=> pc[w] \in {"fetching", "probing"}
    /\ pc[w] \in {"counted", "tripping"} => page[w].at = "raised"

\* Every page task ends, with an open circuit, with an unlucky queue for slots
\* and with a site that never answers (crawl.fetch_page).
PagesEnd == \A w \in Workers : page[w].at = "queued" ~> page[w].at \in Ended

\* An open circuit parks the pages of its domain instead of using up their
\* retries: no page is given up because the domain was open ("jobs for it are
\* parked rather than retried", circuit.py:5-6).
OpenCircuitParks ==
  \A w \in Workers : page[w].at = "failed" => page[w].cause # "circuit"

=============================================================================
