---------------------------- MODULE CrawlPipeline ----------------------------
(***************************************************************************)
(* One job of ScrapeQueue from its first delivery to its final state:      *)
(* crawl_job plans and fans out, fetch_page runs once per page,            *)
(* assemble_job is the chord callback, and DELETE /jobs/{id} cancels.      *)
(*                                                                         *)
(* A database transaction that reads the job row and later writes it is    *)
(* two steps, because sessions run at READ COMMITTED and take no row lock: *)
(* what was read ("saw") may be stale at the commit. Every task message is *)
(* acked after the body (task_acks_late) and goes back to its queue when   *)
(* the worker dies (task_reject_on_worker_lost), so each body may run      *)
(* again from its start. Postgres, Redis and S3 are taken to survive.      *)
(*                                                                         *)
(* A run is one planning of the job by crawl_job; run r is the r-th, and   *)
(* jobs.attempts is the number of the latest. Each run has its own chord.  *)
(***************************************************************************)
EXTENDS Integers, FiniteSets, JobStates

CONSTANTS
  Pages,            \* the pages 1 .. max_pages of the job
  PoisonThreshold,  \* settings.poison_pill_threshold
  MaxRetries,       \* retries of a page after transient errors
  Incremental,      \* jobs.incremental
  HasCallback,      \* jobs.callback_url is set
  CrawlLosses,      \* how often a worker dies holding crawl_job,
  PageLosses,       \*   a fetch_page,
  AssembleLosses,   \*   an assemble_job;
  TaskErrors,       \* how often a task body raises an error it does not handle
  Cancels           \* how many cancel requests get past their 409 check

ASSUME ConfigAssumption ==
  /\ IsFiniteSet(Pages) /\ Pages # {}
  /\ PoisonThreshold \in Nat \ {0}
  /\ MaxRetries \in Nat
  /\ Incremental \in BOOLEAN /\ HasCallback \in BOOLEAN
  /\ CrawlLosses \in Nat /\ PageLosses \in Nat /\ AssembleLosses \in Nat
  /\ TaskErrors \in Nat /\ Cancels \in Nat

Runs == 1 .. PoisonThreshold

VARIABLES
  \* Postgres
  state,        \* jobs.state
  attempts,     \* jobs.attempts
  lost,         \* jobs.lost_worker_count
  pagesDone,    \* jobs.pages_done
  pagesFailed,  \* jobs.pages_failed
  key,          \* jobs.result_key is set
  pages,        \* pages with a row in job_pages
  failures,     \* pages with a row in failed_pages
  deadLetters,  \* rows of dead_letters for this job
  snapshot,     \* pages whose rows are in target_snapshots
  samples,      \* drift_baselines.samples of the target
  \* S3
  objects,      \* pages stored under jobs/<id>/pages/
  output,       \* the result file: uploaded or not, and the pages it carries
  \* Celery: message and body of each task
  crawl,        \* crawl_job
  header,       \* per run, the pages of its chord's header
  task,         \* per run and page, fetch_page
  retries,      \* per run and page, request.retries
  part,         \* per run and page, the result the chord has counted
  asm,          \* per run, assemble_job
  callbacks,    \* deliver_callback tasks enqueued
  revoked,      \* crawl_job's task id has been revoked
  \* API
  cancel,       \* the cancel request in progress
  \* environment
  spent         \* losses, errors and cancels that have happened

job      == <<state, attempts, lost, pagesDone, pagesFailed, key>>
tables   == <<job, pages, failures, deadLetters>>
targets  == <<snapshot, samples>>
store    == <<objects, output>>
fetching == <<header, task, retries, part>>
\* What most steps of a crawl, fetch or assembly body leave alone.
outside  == <<targets, callbacks, revoked, cancel>>
pipeline == <<header, task, retries, part, asm>>
vars == <<tables, targets, store, crawl, fetching, asm, callbacks, revoked,
          cancel, spent>>

CrawlPC == {"queued", "read", "planned", "done", "acked"}
Outcome == {"rows", "failed", "skipped", "error"}
TaskPC  == {"none", "queued", "fetching", "stored", "reported", "acked"}
             \union Outcome
AsmPC   == {"none", "queued", "received", "stored", "uploaded", "read",
            "committed", "done", "acked"}

Kinds == {"crawl", "page", "assemble", "error", "cancel"}
Budget == [crawl |-> CrawlLosses, page |-> PageLosses,
           assemble |-> AssembleLosses, error |-> TaskErrors,
           cancel |-> Cancels]

CrawlBody == [pc: CrawlPC, saw: JobState, todo: SUBSET Pages]
AssembleBody == [pc: AsmPC, failedSeen: BOOLEAN, emitted: SUBSET Pages,
                 verdict: JobState, saw: JobState]

TypeOK ==
  /\ state \in JobState /\ key \in BOOLEAN
  /\ attempts \in 0 .. PoisonThreshold /\ lost \in 0 .. PoisonThreshold
  /\ pagesDone \in Nat /\ pagesFailed \in Nat
  /\ pages \subseteq Pages /\ failures \subseteq Pages /\ deadLetters \in Nat
  /\ snapshot \subseteq Pages /\ samples \in Nat
  /\ objects \subseteq Pages
  /\ output \in [uploaded: BOOLEAN, pages: SUBSET Pages]
  /\ crawl \in CrawlBody
  /\ header \in [Runs -> SUBSET Pages]
  /\ task \in [Runs -> [Pages -> TaskPC]]
  /\ retries \in [Runs -> [Pages -> 0 .. MaxRetries]]
  /\ part \in [Runs -> [Pages -> Outcome \union {"none"}]]
  /\ asm \in [Runs -> AssembleBody]
  /\ callbacks \in Nat /\ revoked \in BOOLEAN /\ cancel \in {"idle", "checked"}
  /\ spent \in [Kinds -> Nat]

\* The bodies of crawl_job and assemble_job: where they are and the locals
\* they still need; at their start and end there are none.
Crawling(pc, saw, todo) == [pc |-> pc, saw |-> saw, todo |-> todo]
CrawlAt(pc) == Crawling(pc, "PENDING", {})

Assembling(pc, failedSeen, emitted, verdict, saw) ==
  [pc |-> pc, failedSeen |-> failedSeen, emitted |-> emitted,
   verdict |-> verdict, saw |-> saw]
AssembleAt(pc) == Assembling(pc, FALSE, {}, "PENDING", "PENDING")

\* The job row and its one crawl_job message after a committed submit. Other
\* jobs of the target may have left rows in the snapshot, which only an
\* incremental job reads.
Init ==
  /\ state = "PENDING" /\ attempts = 0 /\ lost = 0
  /\ pagesDone = 0 /\ pagesFailed = 0 /\ key = FALSE
  /\ pages = {} /\ failures = {} /\ deadLetters = 0
  /\ snapshot \in IF Incremental THEN SUBSET Pages ELSE {{}}
  /\ samples = 0
  /\ objects = {} /\ output = [uploaded |-> FALSE, pages |-> {}]
  /\ crawl = CrawlAt("queued")
  /\ header = [r \in Runs |-> {}]
  /\ task = [r \in Runs |-> [p \in Pages |-> "none"]]
  /\ retries = [r \in Runs |-> [p \in Pages |-> 0]]
  /\ part = [r \in Runs |-> [p \in Pages |-> "none"]]
  /\ asm = [r \in Runs |-> AssembleAt("none")]
  /\ callbacks = 0 /\ revoked = FALSE /\ cancel = "idle"
  /\ spent = [k \in Kinds |-> 0]

\* The environment spends one unit of a budget: the bound on every source of
\* unbounded behaviour (deaths, errors, cancels).
Spend(kind) ==
  /\ spent[kind] < Budget[kind]
  /\ spent' = [spent EXCEPT ![kind] = @ + 1]

-----------------------------------------------------------------------------
(* Repository operations (db/repo.py), each inside the caller's transaction. *)

\* Variant, wrong: no unique constraint on (job_id, page).
RecordPageAgain(p) ==
  /\ pages' = pages \union {p}
  /\ pagesDone' = pagesDone + 1

\* record_page: ON CONFLICT DO NOTHING, and the counter moves only when the
\* row is new.
RecordPage(p) ==
  \/ p \in pages /\ UNCHANGED <<pages, pagesDone>>
  \/ p \notin pages /\ RecordPageAgain(p)

\* Variant, wrong: the counter is forgotten.
RecordFailureUncounted(p) ==
  /\ failures' = failures \union {p}
  /\ UNCHANGED pagesFailed

\* record_failed_page: the row is an upsert, the counter always moves.
RecordFailure(p) ==
  /\ failures' = failures \union {p}
  /\ pagesFailed' = pagesFailed + 1

\* Variant, wrong: what the object store holds counts as fetched.
PagesToFetchUnstored == Pages \ objects

\* pages_to_fetch: every page without a completed row.
PagesToFetch == Pages \ pages

-----------------------------------------------------------------------------
(* crawl_job *)

\* The first read: a finished job is left alone.
CrawlReceive ==
  /\ crawl.pc = "queued"
  /\ crawl' = IF state \in TerminalStates
                THEN CrawlAt("done")
                ELSE Crawling("read", state, {})
  /\ UNCHANGED <<tables, store, spent, pipeline, outside>>

\* The commit of a planning: attempts is bumped, the pending pages are read.
Plan ==
  /\ attempts' = attempts + 1
  /\ crawl' = Crawling("planned", "PENDING", PagesToFetch)
  /\ UNCHANGED <<pagesDone, pagesFailed, key, pages, failures, deadLetters,
                 store, spent, pipeline, outside>>

\* The transition is checked against the state read, then written.
StartRun ==
  /\ crawl.pc = "read"
  /\ crawl.saw # "RUNNING"
  /\ CanTransition(crawl.saw, "RUNNING")
  /\ state' = "RUNNING"
  /\ Plan
  /\ UNCHANGED lost

\* Variant, wrong: the death is not counted.
BumpLostSkipped == UNCHANGED lost

\* bump_lost_worker: an increment in SQL.
BumpLost == lost' = lost + 1

\* A job seen RUNNING: the previous worker died holding the task.
\* Below the threshold the state is not written.
ResumeRun ==
  /\ crawl.pc = "read"
  /\ crawl.saw = "RUNNING"
  /\ lost + 1 < PoisonThreshold
  /\ BumpLost
  /\ Plan
  /\ UNCHANGED state

ParkPoisonPill ==
  /\ crawl.pc = "read"
  /\ crawl.saw = "RUNNING"
  /\ lost + 1 >= PoisonThreshold
  /\ CanTransition(crawl.saw, "DEAD_LETTER")
  /\ BumpLost
  /\ state' = "DEAD_LETTER"
  /\ deadLetters' = deadLetters + 1
  /\ crawl' = CrawlAt("done")
  /\ UNCHANGED <<attempts, pagesDone, pagesFailed, key, pages, failures,
                 store, spent, pipeline, outside>>

\* Messages for the fetch_page tasks of the current run.
Enqueue(ps) ==
  /\ header' = [header EXCEPT ![attempts] = crawl.todo]
  /\ task' = [task EXCEPT ![attempts] =
                [p \in Pages |-> IF p \in ps THEN "queued" ELSE "none"]]

\* After the commit: one chord over the pending pages, or assemble_job at once
\* with an empty list when none is pending.
PublishChord ==
  /\ crawl.pc = "planned" /\ crawl.todo # {}
  /\ Enqueue(crawl.todo)
  /\ crawl' = CrawlAt("done")
  /\ UNCHANGED <<tables, store, retries, part, asm, spent, outside>>

PublishAssemble ==
  /\ crawl.pc = "planned" /\ crawl.todo = {}
  /\ asm' = [asm EXCEPT ![attempts] = AssembleAt("queued")]
  /\ crawl' = CrawlAt("done")
  /\ UNCHANGED <<tables, store, fetching, spent, outside>>

CrawlAck ==
  /\ crawl.pc = "done"
  /\ crawl' = CrawlAt("acked")
  /\ UNCHANGED <<tables, store, spent, pipeline, outside>>

\* Variant, wrong: the message was acked when it was received.
AckedEarly == CrawlAt("acked")

\* task_acks_late and task_reject_on_worker_lost.
Redelivered == CrawlAt("queued")

\* The worker dies and the message is delivered again.
CrawlLost ==
  /\ crawl.pc \in {"read", "planned", "done"}
  /\ Spend("crawl")
  /\ crawl' = Redelivered
  /\ UNCHANGED <<tables, store, pipeline, outside>>

\* The worker dies while it publishes: only some of the header was sent.
CrawlLostPublishing ==
  /\ crawl.pc = "planned"
  /\ Spend("crawl")
  /\ \E sent \in SUBSET crawl.todo \ {{}, crawl.todo} : Enqueue(sent)
  /\ crawl' = Redelivered
  /\ UNCHANGED <<tables, store, retries, part, asm, outside>>

\* The database, the target file or the broker raises: the body fails and the
\* message is acked (task_acks_on_failure_or_timeout is left at its default).
CrawlError ==
  /\ crawl.pc \in {"read", "planned"}
  /\ Spend("error")
  /\ crawl' = CrawlAt("acked")
  /\ UNCHANGED <<tables, store, pipeline, outside>>

\* A revoked message is discarded by the worker that gets it, and a body that
\* is running is terminated.
CrawlRevoked ==
  /\ revoked /\ crawl.pc # "acked"
  /\ crawl' = CrawlAt("acked")
  /\ UNCHANGED <<tables, store, spent, pipeline, outside>>

-----------------------------------------------------------------------------
(* fetch_page(r, p): the task for page p in the chord of run r *)

Step(r, p, from, to) ==
  /\ task[r][p] \in from
  /\ task' = [task EXCEPT ![r][p] = to]

\* Only a CANCELLED job is skipped; any other state, final or not, is fetched.
FetchReceive(r, p) ==
  /\ Step(r, p, {"queued"},
          IF state = "CANCELLED" THEN "skipped" ELSE "fetching")
  /\ UNCHANGED <<tables, store, crawl, header, retries, part, asm, spent,
                 outside>>

\* Variant, wrong: the upload is left out.
UploadSkipped(p) == UNCHANGED objects

Upload(p) == objects' = objects \union {p}

\* The fetch returns rows and they are uploaded; the key is the page's, so a
\* second upload overwrites the first.
FetchStore(r, p) ==
  /\ Step(r, p, {"fetching"}, "stored")
  /\ Upload(p)
  /\ UNCHANGED <<tables, output, crawl, header, retries, part, asm, spent,
                 outside>>

FetchRecord(r, p) ==
  /\ Step(r, p, {"stored"}, "rows")
  /\ RecordPage(p)
  /\ UNCHANGED <<state, attempts, lost, pagesFailed, key, failures,
                 deadLetters, store, crawl, header, retries, part, asm, spent,
                 outside>>

\* A permanent error at any attempt, or a transient one at the last.
FetchGiveUp(r, p) ==
  /\ Step(r, p, {"fetching"}, "failed")
  /\ RecordFailure(p)
  /\ UNCHANGED <<state, attempts, lost, pagesDone, key, pages, deadLetters,
                 store, crawl, header, retries, part, asm, spent, outside>>

\* Variant, wrong: retries without a limit.
MayAlwaysRetry(r, p) == TRUE

MayRetry(r, p) == retries[r][p] < MaxRetries

\* A transient error or an open circuit: autoretry publishes the task again
\* under the same id, with a countdown that is not modelled.
FetchRetry(r, p) ==
  /\ MayRetry(r, p)
  /\ Step(r, p, {"fetching"}, "queued")
  /\ retries' = [retries EXCEPT ![r][p] = @ + 1]
  /\ UNCHANGED <<tables, store, crawl, header, part, asm, spent, outside>>

\* The soft time limit: the failure is recorded, then the exception goes on.
FetchTimeLimit(r, p) ==
  /\ Spend("error")
  /\ Step(r, p, {"fetching"}, "error")
  /\ RecordFailure(p)
  /\ UNCHANGED <<state, attempts, lost, pagesDone, key, pages, deadLetters,
                 store, crawl, header, retries, part, asm, outside>>

\* An exception fetch_page does not name (a blocked URL, a body that does not
\* parse, the rate limiter's timeout, S3 or Postgres down): nothing recorded.
FetchError(r, p) ==
  /\ Spend("error")
  /\ Step(r, p, {"fetching", "stored"}, "error")
  /\ UNCHANGED <<tables, store, crawl, header, retries, part, asm, outside>>

\* The chord of run r has all its parts, and none of them is an error.
Fires(r, counted) ==
  \A p \in header[r] : counted[r][p] \in Outcome \ {"error"}

\* The result backend counts each header task once; the part that completes
\* the chord enqueues assemble_job.
FetchReport(r, p) ==
  /\ task[r][p] \in Outcome
  /\ task' = [task EXCEPT ![r][p] = "reported"]
  /\ IF part[r][p] # "none"
       THEN UNCHANGED <<part, asm>>
       ELSE /\ part' = [part EXCEPT ![r][p] = task[r][p]]
            /\ asm' = IF Fires(r, part')
                        THEN [asm EXCEPT ![r] = AssembleAt("queued")]
                        ELSE asm
  /\ UNCHANGED <<tables, store, crawl, header, retries, spent, outside>>

FetchAck(r, p) ==
  /\ Step(r, p, {"reported"}, "acked")
  /\ UNCHANGED <<tables, store, crawl, header, retries, part, asm, spent,
                 outside>>

FetchLost(r, p) ==
  /\ Spend("page")
  /\ Step(r, p, {"fetching", "stored", "reported"} \union Outcome, "queued")
  /\ UNCHANGED <<tables, store, crawl, header, retries, part, asm, outside>>

-----------------------------------------------------------------------------
(* assemble_job(r): finalise_job with the parts of run r's chord *)

\* Variant, wrong: failed and skipped pages are read as well.
LoadedUnchecked(r) == header[r]

\* _load_rows: the pages whose part carries a key.
Loaded(r) == {p \in header[r] : part[r][p] = "rows"}

\* The parts that do not say "failed": what the drift check divides by.
NotFailed(r) == {p \in header[r] : part[r][p] # "failed"}

\* The first read: only CANCELLED and DEAD_LETTER stop a finalisation.
AssembleReceive(r) ==
  /\ asm[r].pc = "queued"
  /\ asm' = [asm EXCEPT ![r] =
               IF state \in {"CANCELLED", "DEAD_LETTER"}
                 THEN AssembleAt("done")
                 ELSE Assembling("received", pagesFailed > 0, {}, "PENDING",
                                 "PENDING")]
  /\ UNCHANGED <<tables, store, crawl, fetching, spent, outside>>

\* Variant, wrong: failed pages do not make the job PARTIAL.
VerdictIgnoringFailures(suspect, failedSeen) ==
  IF suspect THEN "SUSPECT" ELSE "SUCCEEDED"

\* The drift verdict first, then the failures seen at the first read.
Verdict(suspect, failedSeen) ==
  CASE suspect                  -> "SUSPECT"
    [] ~suspect /\ failedSeen   -> "PARTIAL"
    [] ~suspect /\ ~failedSeen  -> "SUCCEEDED"

\* Variant, wrong: the diff is taken for every job.
EmittedAlwaysDiffed(r) == Loaded(r) \ snapshot

\* The pages whose rows go to the file: an incremental job leaves out what the
\* snapshot has.
Emitted(r) == IF Incremental THEN Loaded(r) \ snapshot ELSE Loaded(r)

\* One transaction: the diff against the snapshot, the snapshot, the drift
\* verdict and, unless suspect, the baseline. The verdict compares row counts
\* that are not modelled, so it is free, except that no pages is suspect.
AssembleSnapshot(r) ==
  /\ asm[r].pc = "received"
  /\ \E suspect \in IF NotFailed(r) = {} THEN {TRUE} ELSE BOOLEAN :
       /\ asm' = [asm EXCEPT ![r] =
                    Assembling("stored", FALSE, Emitted(r),
                               Verdict(suspect, asm[r].failedSeen), "PENDING")]
       /\ samples' = IF suspect THEN samples ELSE samples + 1
  /\ snapshot' = snapshot \union Loaded(r)
  /\ UNCHANGED <<tables, store, crawl, fetching, callbacks, revoked, cancel,
                 spent>>

AssembleUpload(r) ==
  /\ asm[r].pc = "stored"
  /\ output' = [uploaded |-> TRUE, pages |-> asm[r].emitted]
  /\ asm' = [asm EXCEPT ![r].pc = "uploaded"]
  /\ UNCHANGED <<tables, objects, crawl, fetching, spent, outside>>

\* The last transaction reads the row,
AssembleRead(r) ==
  /\ asm[r].pc = "uploaded"
  /\ asm' = [asm EXCEPT ![r] =
               Assembling("read", FALSE, asm[r].emitted, asm[r].verdict, state)]
  /\ UNCHANGED <<tables, store, crawl, fetching, spent, outside>>

\* Variant, wrong: the webhook is forgotten.
AfterCommitSilent == "done"

AfterCommit == IF HasCallback THEN "committed" ELSE "done"

\* checks the transition against what it read, and commits the verdict;
AssembleCommit(r) ==
  /\ asm[r].pc = "read"
  /\ CanTransition(asm[r].saw, asm[r].verdict)
  /\ state' = asm[r].verdict
  /\ key' = TRUE
  /\ asm' = [asm EXCEPT ![r] = AssembleAt(AfterCommit)]
  /\ UNCHANGED <<attempts, lost, pagesDone, pagesFailed, pages, failures,
                 deadLetters, store, crawl, fetching, spent, outside>>

\* or raises IllegalTransition, which rolls back and fails the task.
AssembleRefused(r) ==
  /\ asm[r].pc = "read"
  /\ ~ CanTransition(asm[r].saw, asm[r].verdict)
  /\ asm' = [asm EXCEPT ![r] = AssembleAt("acked")]
  /\ UNCHANGED <<tables, store, crawl, fetching, spent, outside>>

AssembleNotify(r) ==
  /\ asm[r].pc = "committed"
  /\ callbacks' = callbacks + 1
  /\ asm' = [asm EXCEPT ![r] = AssembleAt("done")]
  /\ UNCHANGED <<tables, targets, store, crawl, fetching, revoked, cancel,
                 spent>>

AssembleAck(r) ==
  /\ asm[r].pc = "done"
  /\ asm' = [asm EXCEPT ![r] = AssembleAt("acked")]
  /\ UNCHANGED <<tables, store, crawl, fetching, spent, outside>>

AssembleLost(r) ==
  /\ asm[r].pc \notin {"none", "queued", "acked"}
  /\ Spend("assemble")
  /\ asm' = [asm EXCEPT ![r] = AssembleAt("queued")]
  /\ UNCHANGED <<tables, store, crawl, fetching, outside>>

\* S3, Postgres or the broker raises: the task fails and is acked.
AssembleError(r) ==
  /\ asm[r].pc \in {"received", "stored", "uploaded", "read", "committed"}
  /\ Spend("error")
  /\ asm' = [asm EXCEPT ![r] = AssembleAt("acked")]
  /\ UNCHANGED <<tables, store, crawl, fetching, outside>>

-----------------------------------------------------------------------------
(* DELETE /jobs/{id} *)

\* A finished job is refused (409). Otherwise the crawl task is revoked, at
\* once and by broadcast, before the state is written.
CancelRead ==
  /\ cancel = "idle"
  /\ state \notin TerminalStates
  /\ Spend("cancel")
  /\ cancel' = "checked"
  /\ revoked' = TRUE
  /\ UNCHANGED <<tables, targets, store, crawl, callbacks, pipeline>>

\* The commit writes CANCELLED over whatever the row holds by now.
CancelCommit ==
  /\ cancel = "checked"
  /\ state' = "CANCELLED"
  /\ cancel' = "idle"
  /\ UNCHANGED <<attempts, lost, pagesDone, pagesFailed, key, pages, failures,
                 deadLetters, targets, store, crawl, callbacks, revoked,
                 spent, pipeline>>

-----------------------------------------------------------------------------

\* What a live worker does with a message it holds, as opposed to what happens
\* to it.
CrawlStep ==
  \/ CrawlReceive \/ StartRun \/ ResumeRun \/ ParkPoisonPill
  \/ PublishChord \/ PublishAssemble \/ CrawlAck

FetchStep(r, p) ==
  \/ FetchReceive(r, p) \/ FetchStore(r, p) \/ FetchRecord(r, p)
  \/ FetchGiveUp(r, p) \/ FetchRetry(r, p) \/ FetchReport(r, p)
  \/ FetchAck(r, p)

AssembleStep(r) ==
  \/ AssembleReceive(r) \/ AssembleSnapshot(r) \/ AssembleUpload(r)
  \/ AssembleRead(r) \/ AssembleCommit(r) \/ AssembleRefused(r)
  \/ AssembleNotify(r) \/ AssembleAck(r)

CrawlDisturbed ==
  CrawlLost \/ CrawlLostPublishing \/ CrawlError \/ CrawlRevoked

FetchDisturbed(r, p) ==
  FetchTimeLimit(r, p) \/ FetchError(r, p) \/ FetchLost(r, p)

Next ==
  \/ CrawlStep \/ CrawlDisturbed
  \/ \E r \in Runs, p \in Pages : FetchStep(r, p) \/ FetchDisturbed(r, p)
  \/ \E r \in Runs : AssembleStep(r) \/ AssembleLost(r) \/ AssembleError(r)
  \/ CancelRead \/ CancelCommit

Spec == Init /\ [][Next]_vars

\* Some worker of the right queue is alive and takes the messages it is sent.
Fairness ==
  /\ WF_vars(CrawlStep)
  /\ \A r \in Runs, p \in Pages : WF_vars(FetchStep(r, p))
  /\ \A r \in Runs : WF_vars(AssembleStep(r))

FairSpec == Spec /\ Fairness

-----------------------------------------------------------------------------
(* Properties of every behaviour, whatever is lost, raised or cancelled. *)

\* The checkpoint of a resume is backed by data: a page in job_pages, which no
\* later run fetches again, has its rows in S3, and so does every page a chord
\* hands to assemble_job, which would fail on a missing key
\* (crawl.fetch_page uploads before it records; _load_rows reads the parts).
CheckpointBacked ==
  /\ pages \subseteq objects
  /\ \A r \in Runs : Loaded(r) \subseteq pages

\* The counters and the ledger agree under any redelivery: the pipeline
\* implements PageLedger, so pages_done counts each page once (repo.py:6,
\* "makes a redelivered task a no-op rather than a duplicate").
Ledger == INSTANCE PageLedger
            WITH stored <- objects, ledger <- pages, count <- pagesDone
LedgerRefined == Ledger!LedgerSpec

\* crawl_job is planned at most PoisonThreshold times, attempts follow the
\* counted worker deaths, and the job is parked for an operator exactly when
\* the count reaches the threshold, once (crawl.py:72-81).
PoisonPillParked ==
  /\ attempts \in {lost, lost + 1}
  /\ attempts <= PoisonThreshold
  /\ deadLetters = IF lost = PoisonThreshold THEN 1 ELSE 0
  /\ lost = PoisonThreshold => state \in TerminalStates

\* A job whose state promises a result has one: the key is set and the file is
\* in S3, and the file carries only pages of the job's own ledger
\* (export.finalise_job uploads before it commits the state).
ResultBehindState ==
  /\ state \in {"SUCCEEDED", "PARTIAL", "SUSPECT"} => key
  /\ key => output.uploaded
  /\ output.pages \subseteq pages

\* PARTIAL can be explained: GET /jobs/{id}/failures has a row to show, and
\* pages_failed is never below the number of failed pages.
PartialExplained ==
  /\ state = "PARTIAL" => failures # {}
  /\ Cardinality(failures) <= pagesFailed

\* What a job promises its owner holds for any number of runs, losses, errors
\* and cancels: the pipeline implements JobPromise. Two chords of one job may be
\* under way at once, each with the pages its planning found pending, and any of
\* their assemblies may decide (crawl.py:66-98, assemble.py, export.py).
Promise == INSTANCE JobPromise
             WITH runs <- attempts, done <- pages, failed <- failures,
                  result <- key, told <- callbacks, MaxRuns <- PoisonThreshold
PromiseKept == Promise!PromiseSpec

\* No page goes missing: a job that shows a result has each of its pages in the
\* ledger or among the failures, and SUCCEEDED has them all, though a resumed
\* run fetches only what an earlier one left (repo.pages_to_fetch).
PagesAccounted ==
  state \in {"SUCCEEDED", "PARTIAL", "SUSPECT"} =>
    /\ pages \union failures = Pages
    /\ state = "SUCCEEDED" => pages = Pages

(* Properties of a job whose crawl_job is never lost (one run). *)

\* SUCCEEDED means every page: the file carries all pages of the job, even when
\* pages and the assembly itself were redelivered (states.py:18, "every page
\* done, output uploaded").
SucceededComplete == state = "SUCCEEDED" => output.pages = Pages

\* A final state is final, for every writer (architecture.md, "Terminal is
\* final").
TerminalIsFinal ==
  [][(state \in TerminalStates) => UNCHANGED state]_vars

\* It is, as long as nobody cancels and no worker dies with crawl_job: then no
\* stale read leads to a write over a final state. And a result does not change
\* under its caller: however often pages and the assembly are delivered again,
\* a file that is written again is the same file. This holds for jobs that are
\* not incremental (repo.transition, finalise_job).
FinishedStays ==
  [][/\ (state \in TerminalStates /\ spent["cancel"] = 0 /\ spent["crawl"] = 0)
          => UNCHANGED state
     /\ key => UNCHANGED output]_vars

(* Properties of progress. *)

\* The chord of run r may still fire.
ChordAlive(r) ==
  /\ header[r] # {}
  /\ \A p \in header[r] : part[r][p] # "error"
  /\ \A p \in header[r] :
       part[r][p] = "none" =>
         task[r][p] \notin {"none", "reported", "acked", "error"}
  /\ \E p \in header[r] : part[r][p] = "none"

\* A job that is not finished has a message or a body that will carry it on:
\* the delivery of crawl_job, a chord that can still fire, assemble_job, or a
\* cancel request. All else that leaves a job behind is a body that raised what
\* it does not handle (one page of the chord is enough, crawl.py:153), or a
\* cancel request whose CANCELLED was overwritten.
NoStrandedJob ==
  state \notin TerminalStates =>
    \/ crawl.pc # "acked" \/ cancel = "checked"
    \/ \E r \in Runs : ChordAlive(r) \/ asm[r].pc \notin {"none", "acked"}
    \/ spent["error"] > 0 \/ spent["cancel"] > 0

\* Every job reaches a final state, if workers keep taking messages and each
\* task is lost or retried finitely often; unless a task raises what it does not
\* handle, or a cancel is overwritten.
Finishes ==
  <>(state \in TerminalStates \/ spent["error"] > 0 \/ spent["cancel"] > 0)

\* No webhook of a finished job is forgotten, unless the assembly ended between
\* its commit and its notification.
CallbackSent ==
  [](key => <>(callbacks > 0 \/ spent["assemble"] > 0 \/ spent["error"] > 0))

=============================================================================
