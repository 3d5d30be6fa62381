----------------------------- MODULE Submission -----------------------------
(***************************************************************************)
(* How a job enters the system: POST /jobs with its capacity check and      *)
(* Idempotency-Key, POST /jobs/{id}/retry, and the scheduled submissions of *)
(* Beat, against the first read of crawl_job that picks the job up. A       *)
(* request's job is named after the request. What happens to a job after it *)
(* was picked up is CrawlPipeline.                                          *)
(*                                                                          *)
(* A request runs in one database transaction, which get_db commits in its  *)
(* exit code; FastAPI runs that after the response has been sent. Only      *)
(* committed rows are visible to others, but the unique index on            *)
(* (api_key_id, idempotency_key) makes an insert wait for an uncommitted    *)
(* row of the same key.                                                     *)
(***************************************************************************)
EXTENDS Integers, FiniteSets

CONSTANTS
  Submits,      \* POST /jobs requests of one API key
  Resubmits,    \* POST /jobs/{id}/retry requests for jobs that have finished
  Firings,      \* due entries of the schedule: submit_scheduled_job messages
  Keys,         \* Idempotency-Key values
  NoKey,        \* the header is absent
  Key,          \* the header of each POST /jobs
  Body,         \* the body of each POST /jobs, up to its fingerprint
  DepthLimit,   \* settings.queue_depth_limit
  Threads,      \* requests the API works on at the same time
  Crashes,      \* bound: API processes that die, or commits that fail
  BeatLosses    \* bound: workers that die holding a submit_scheduled_job

Requests == Submits \union Resubmits

ASSUME SubmissionAssumption ==
  /\ IsFiniteSet(Requests) /\ Submits \intersect Resubmits = {}
  /\ NoKey \notin Keys
  /\ Key \in [Submits -> Keys \union {NoKey}]
  /\ DepthLimit \in Nat \ {0} /\ Threads \in Nat \ {0}
  /\ Crashes \in Nat /\ BeatLosses \in Nat

VARIABLES
  \* per request
  pc,       \* where submit_job or retry_job is
  reply,    \* the status it answered with
  answer,   \* the job named in a 202
  row,      \* the row of its job
  message,  \* the crawl_job message of its job
  \* per firing of Beat: a job of its own each time the task body runs
  beat,     \* where submit_scheduled_job is
  rows,     \* rows it has committed
  scheduled,  \* crawl_job messages of scheduled jobs in the queue
  \* environment
  crashes,
  losses

api  == <<pc, reply, answer, row, message>>
cron == <<beat, rows, scheduled>>
vars == <<api, cron, crashes, losses>>

Inside == {"admitted", "absent", "inserted", "sent", "answered"}
PC     == {"new", "done"} \union Inside
Reply  == {"none", "202", "409", "429", "500"}
Row    == {"none", "uncommitted", "PENDING", "RUNNING", "gone"}
Message == {"none", "queued", "taken"}

TypeOK ==
  /\ pc \in [Requests -> PC]
  /\ reply \in [Requests -> Reply]
  /\ answer \in [Requests -> Requests]
  /\ row \in [Requests -> Row]
  /\ message \in [Requests -> Message]
  /\ beat \in [Firings -> {"queued", "committed", "sent", "acked"}]
  /\ rows \in [Firings -> 0 .. 1 + BeatLosses] /\ scheduled \in Nat
  /\ crashes \in 0 .. Crashes /\ losses \in 0 .. BeatLosses

Init ==
  /\ pc = [r \in Requests |-> "new"]
  /\ reply = [r \in Requests |-> "none"]
  /\ answer = [r \in Requests |-> r]
  /\ row = [r \in Requests |-> "none"]
  /\ message = [r \in Requests |-> "none"]
  /\ beat = [f \in Firings |-> "queued"]
  /\ rows = [f \in Firings |-> 0] /\ scheduled = 0
  /\ crashes = 0 /\ losses = 0

\* LLEN of the queue.
Depth == Cardinality({r \in Requests : message[r] = "queued"}) + scheduled

Working == {r \in Requests : pc[r] \in Inside}

Goto(r, to) == pc' = [pc EXCEPT ![r] = to]

Finish(r, status) ==
  /\ Goto(r, "done")
  /\ reply' = [reply EXCEPT ![r] = status]

-----------------------------------------------------------------------------
(* submit_job *)

\* Variant, wrong: the depth is looked at and not acted upon.
CapacityIgnored == TRUE

\* assert_capacity: LLEN of the queue below the limit.
HasCapacity == Depth < DepthLimit

Admit(r) ==
  /\ r \in Submits /\ pc[r] = "new" /\ Cardinality(Working) < Threads
  /\ HasCapacity
  /\ Goto(r, "admitted")
  /\ UNCHANGED <<reply, answer, row, message, cron, crashes, losses>>

Reject(r) ==
  /\ r \in Submits /\ pc[r] = "new" /\ Cardinality(Working) < Threads
  /\ ~HasCapacity
  /\ Finish(r, "429")
  /\ UNCHANGED <<answer, row, message, cron, crashes, losses>>

SameKey(r, s) ==
  r \in Submits /\ s \in Submits /\ Key[r] = Key[s] /\ Key[r] # NoKey

Committed == {s \in Requests : row[s] \in {"PENDING", "RUNNING"}}

\* Variant, wrong: the fingerprint is not compared.
AnyBody(r, s) == TRUE

SameBody(r, s) == Body[r] = Body[s]

\* find_by_idempotency_key: a committed row with this key. The same body gets
\* the same job, another body a 409.
Replay(r) ==
  /\ pc[r] = "admitted"
  /\ \E s \in Committed :
       /\ SameKey(r, s)
       /\ Finish(r, IF SameBody(r, s) THEN "202" ELSE "409")
       /\ answer' = [answer EXCEPT ![r] = s]
  /\ UNCHANGED <<row, message, cron, crashes, losses>>

FindNothing(r) ==
  /\ pc[r] = "admitted"
  /\ ~ \E s \in Committed : SameKey(r, s)
  /\ Goto(r, "absent")
  /\ UNCHANGED <<reply, answer, row, message, cron, crashes, losses>>

\* Variant, wrong: no unique index.
NoIndex(r, rowState) == {}

\* The rows in this state that the unique index holds against r's insert.
Conflicts(r, rowState) ==
  {s \in Requests \ {r} : SameKey(r, s) /\ row[s] \in rowState}

\* create_job: the INSERT waits while another transaction holds the key.
Insert(r) ==
  /\ pc[r] = "absent"
  /\ Conflicts(r, {"uncommitted", "PENDING", "RUNNING"}) = {}
  /\ row' = [row EXCEPT ![r] = "uncommitted"]
  /\ Goto(r, "inserted")
  /\ UNCHANGED <<reply, answer, message, cron, crashes, losses>>

\* The key was committed after the lookup: IntegrityError, which nothing
\* handles, is a 500.
Collide(r) ==
  /\ pc[r] = "absent"
  /\ Conflicts(r, {"PENDING", "RUNNING"}) # {}
  /\ Finish(r, "500")
  /\ UNCHANGED <<answer, row, message, cron, crashes, losses>>

\* retry_job: a new row for a finished job, with no key and no capacity check.
Resubmit(r) ==
  /\ r \in Resubmits /\ pc[r] = "new" /\ Cardinality(Working) < Threads
  /\ row' = [row EXCEPT ![r] = "uncommitted"]
  /\ Goto(r, "inserted")
  /\ UNCHANGED <<reply, answer, message, cron, crashes, losses>>

\* send_task, inside the transaction.
Send(r) ==
  /\ pc[r] = "inserted"
  /\ message' = [message EXCEPT ![r] = "queued"]
  /\ Goto(r, "sent")
  /\ UNCHANGED <<reply, answer, row, cron, crashes, losses>>

\* Variant, wrong: the response and the commit do not wait for the message.
AnswersEarly == {"inserted", "sent"}

AnswersAfter == {"sent"}

Answer(r) ==
  /\ pc[r] \in AnswersAfter
  /\ reply' = [reply EXCEPT ![r] = "202"]
  /\ Goto(r, "answered")
  /\ UNCHANGED <<answer, row, message, cron, crashes, losses>>

\* get_db commits when the response has been sent.
Commit(r) ==
  /\ pc[r] = "answered"
  /\ row' = [row EXCEPT ![r] = "PENDING"]
  /\ Goto(r, "done")
  /\ UNCHANGED <<reply, answer, message, cron, crashes, losses>>

\* The process dies or the commit fails, and the transaction is rolled back.
\* A caller that has not been answered sees an error.
Crash(r) ==
  /\ r \in Working /\ crashes < Crashes
  /\ crashes' = crashes + 1
  /\ Finish(r, IF reply[r] = "none" THEN "500" ELSE reply[r])
  /\ row' = [row EXCEPT ![r] = IF @ = "uncommitted" THEN "gone" ELSE @]
  /\ UNCHANGED <<answer, message, cron, losses>>

-----------------------------------------------------------------------------
(* The worker side *)

Taken(r) == message' = [message EXCEPT ![r] = "taken"]

\* crawl_job's first transaction: a row it sees becomes RUNNING.
PickUp(r) ==
  /\ message[r] = "queued"
  /\ row[r] = "PENDING"
  /\ row' = [row EXCEPT ![r] = "RUNNING"]
  /\ Taken(r)
  /\ UNCHANGED <<pc, reply, answer, cron, crashes, losses>>

\* No row, or none that is committed: "missing", and the message is acked.
FindMissing(r) ==
  /\ message[r] = "queued"
  /\ row[r] \in {"uncommitted", "gone"}
  /\ Taken(r)
  /\ UNCHANGED <<pc, reply, answer, row, cron, crashes, losses>>

\* submit_scheduled_job, a task like any other: one transaction, then the
\* message, with no capacity check and no key.
Schedule(f) ==
  /\ beat[f] = "queued"
  /\ rows' = [rows EXCEPT ![f] = @ + 1]
  /\ beat' = [beat EXCEPT ![f] = "committed"]
  /\ UNCHANGED <<api, scheduled, crashes, losses>>

ScheduleSend(f) ==
  /\ beat[f] = "committed"
  /\ scheduled' = scheduled + 1
  /\ beat' = [beat EXCEPT ![f] = "sent"]
  /\ UNCHANGED <<api, rows, crashes, losses>>

\* Variant, wrong: the body ends in a retry of itself, which runs it anew.
ScheduleAgain(f) ==
  /\ beat[f] = "sent"
  /\ beat' = [beat EXCEPT ![f] = "queued"]
  /\ UNCHANGED <<api, rows, scheduled, crashes, losses>>

\* The body is through; nothing in it asks for another run.
ScheduleAck(f) ==
  /\ beat[f] = "sent"
  /\ beat' = [beat EXCEPT ![f] = "acked"]
  /\ UNCHANGED <<api, rows, scheduled, crashes, losses>>

\* Its worker dies, and the message is delivered again.
ScheduleLost(f) ==
  /\ beat[f] \in {"committed", "sent"} /\ losses < BeatLosses
  /\ losses' = losses + 1
  /\ beat' = [beat EXCEPT ![f] = "queued"]
  /\ UNCHANGED <<api, rows, scheduled, crashes>>

\* crawl_job takes a scheduled job, whose row is always committed.
PickUpScheduled ==
  /\ scheduled > 0
  /\ scheduled' = scheduled - 1
  /\ UNCHANGED <<api, beat, rows, crashes, losses>>

-----------------------------------------------------------------------------

Handle(r) ==
  \/ Admit(r) \/ Reject(r) \/ Replay(r) \/ FindNothing(r) \/ Insert(r)
  \/ Collide(r) \/ Resubmit(r) \/ Send(r) \/ Answer(r) \/ Commit(r)

Work(r) == PickUp(r) \/ FindMissing(r)

Fire(f) == Schedule(f) \/ ScheduleSend(f) \/ ScheduleAck(f) \/ ScheduleLost(f)

Next ==
  \/ \E r \in Requests : Handle(r) \/ Work(r) \/ Crash(r)
  \/ \E f \in Firings : Fire(f)
  \/ PickUpScheduled

Spec == Init /\ [][Next]_vars

-----------------------------------------------------------------------------
(* Properties *)

\* Callers that use one key get one job, however their requests interleave and
\* whichever of them crash (uq_jobs_idempotency_key behind the lookup). A firing
\* of the schedule, which has no key, gets one more for every worker that died
\* with its message, and no more (submit_scheduled_job).
OneJobPerCause ==
  /\ \A r, s \in Submits :
       SameKey(r, s) /\ r \in Committed /\ s \in Committed => r = s
  /\ \A f \in Firings : rows[f] <= 1 + losses

\* A caller is only ever handed a job that was submitted with its own body
\* (core/idempotency.py, "a mismatch is a 409").
OwnBodyOnly ==
  \A r \in Submits : reply[r] = "202" => Body[answer[r]] = Body[r]

\* No committed job of the API waits for a message that was never sent, which
\* is why the message is sent before the commit (submit_job, retry_job).
SentBeforeCommit == \A r \in Committed : message[r] # "none"

\* Backpressure holds up to the requests that were being worked on, each of
\* which may have passed the check on the same depth; what retries, the
\* scheduler and crashed requests add only makes the check stricter
\* (assert_capacity).
QueueBounded ==
  Cardinality({r \in Submits : message[r] = "queued"})
    <= DepthLimit - 1 + Threads

\* A PENDING job has not been picked up yet (states.py:15): its message has not
\* been consumed.
PendingNotPickedUp ==
  \A r \in Requests : row[r] = "PENDING" => message[r] # "taken"

=============================================================================
