------------------------------ MODULE JobCaller ------------------------------
(***************************************************************************)
(* What the caller of a job gets to see: the completion callbacks          *)
(* (api/routes/webhooks.py) and GET /jobs/{id}/result. The job is that of  *)
(* CrawlPipeline, whose AssembleNotify enqueues a deliver_callback task;   *)
(* this module is that task and the receiver behind callback_url, and the  *)
(* counter jobs.rows, which no step of the job depends on. A page has one  *)
(* row.                                                                    *)
(***************************************************************************)
EXTENDS CrawlPipeline, Sequences

CONSTANT HookRetries  \* deliver_callback.max_retries

ASSUME HookAssumption == HookRetries \in Nat

VARIABLES
  rows,     \* jobs.rows
  met,      \* per run, jobs.rows as finalise_job last read it
  says,     \* per run, what finalise_job will put into its callback
  hooks,    \* the deliver_callback tasks, in the order they were enqueued
  arrivals  \* what the receiver has got

counter == <<rows, met>>
callerVars == <<vars, counter, says, hooks, arrivals>>

\* The body of a callback: the state, and the pages for the number of rows.
Payload == [state: JobState, pages: SUBSET Pages]
NotSaid == [state |-> "PENDING", pages |-> {}]

Hook == [at: {"queued", "done"}, tries: 0 .. HookRetries, body: Payload]

CallerTypeOK ==
  /\ TypeOK
  /\ rows \in Nat /\ met \in [Runs -> Nat]
  /\ says \in [Runs -> Payload]
  /\ hooks \in Seq(Hook) /\ Len(hooks) = callbacks
  /\ arrivals \subseteq Payload

CallerInit ==
  /\ Init
  /\ rows = 0 /\ met = [r \in Runs |-> 0]
  /\ says = [r \in Runs |-> NotSaid]
  /\ hooks = <<>> /\ arrivals = {}

\* Variant, wrong: the callback decides by the failures counted by now.
SaidByCounter(r) == [state |-> IF pagesFailed > 0 THEN "PARTIAL"
                                                  ELSE "SUCCEEDED",
                     pages |-> asm[r].emitted]

\* The locals that go into the callback: verdict and rows, set before the last
\* transaction.
Said(r) == [state |-> asm[r].verdict, pages |-> asm[r].emitted]

\* They last from the commit of a finalisation to the end of its body.
KeepSaid ==
  says' = [r \in Runs |->
             IF asm'[r].pc # "committed" THEN NotSaid
             ELSE IF asm[r].pc = "read" THEN Said(r) ELSE says[r]]

\* The number of rows is written where it differs from the row that was read;
\* record_page adds the rows of its page in one UPDATE with pages_done.
CountRows ==
  /\ met' = [r \in Runs |-> IF asm'[r].pc # "read" THEN 0
                            ELSE IF asm[r].pc = "read" THEN met[r] ELSE rows]
  /\ \/ \E r \in Runs :
          /\ AssembleCommit(r)
          /\ LET emitted == Cardinality(asm[r].emitted)
             IN  rows' = IF emitted = met[r] THEN rows ELSE emitted
     \/ /\ ~ \E r \in Runs : AssembleCommit(r)
        /\ rows' = rows + (pagesDone' - pagesDone)

\* A step of the job: AssembleNotify enqueues the callback of its run.
JobStep ==
  /\ Next
  /\ KeepSaid
  /\ CountRows
  /\ \/ callbacks' = callbacks /\ UNCHANGED hooks
     \/ \E r \in Runs :
          /\ AssembleNotify(r)
          /\ hooks' = Append(hooks, [at |-> "queued", tries |-> 0,
                                     body |-> says[r]])
  /\ UNCHANGED arrivals

\* The receiver answers below 400.
Post(i) ==
  /\ hooks[i].at = "queued"
  /\ arrivals' = arrivals \union {hooks[i].body}
  /\ hooks' = [hooks EXCEPT ![i].at = "done"]
  /\ UNCHANGED <<vars, counter, says>>

\* TransportError or HTTPStatusError, after which the receiver may have the
\* body or not: tried again with a countdown, up to max_retries.
PostFails(i) ==
  /\ hooks[i].at = "queued"
  /\ arrivals' \in {arrivals, arrivals \union {hooks[i].body}}
  /\ hooks' = IF hooks[i].tries < HookRetries
                THEN [hooks EXCEPT ![i].tries = @ + 1]
                ELSE [hooks EXCEPT ![i].at = "done"]
  /\ UNCHANGED <<vars, counter, says>>

\* The worker dies after the request: the task is delivered again.
PostLost(i) ==
  /\ hooks[i].at = "queued"
  /\ arrivals' = arrivals \union {hooks[i].body}
  /\ UNCHANGED <<vars, counter, says, hooks>>

CallerNext ==
  \/ JobStep
  \/ \E i \in DOMAIN hooks : Post(i) \/ PostFails(i) \/ PostLost(i)

CallerSpec == CallerInit /\ [][CallerNext]_callerVars

-----------------------------------------------------------------------------

\* get_result: 409 until there is a key, then a link to the file as it is now
\* and the number of rows that the job counts now.
ResultAnswer ==
  IF key THEN [status |-> 200, file |-> output.pages, rows |-> rows]
         ELSE [status |-> 409]

\* What a callback said stays true, however late it arrives and whatever was
\* delivered again in between (deliver_callback posts what finalise_job knew,
\* webhooks.py:44-46). The result is there to be fetched, with the rows the
\* callback counted; every page that is not in it is listed as failed; and the
\* job is in the state it named, unless it has been cancelled or parked since.
\* The number beside the link is what the callback said, or more: by the pages
\* that had been given up and were completed after all.
ToldTruth ==
  \A told \in arrivals :
    /\ ResultAnswer.status = 200
    /\ ResultAnswer.file = told.pages
    /\ Pages \ told.pages \subseteq failures
    /\ ResultAnswer.rows \in Cardinality(told.pages) .. Cardinality(pages)
    /\ state = told.state \/ spent["cancel"] > 0 \/ spent["crawl"] > 0

=============================================================================
