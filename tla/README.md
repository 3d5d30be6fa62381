# A verification of ScrapeQueue

ScrapeQueue turns an HTTP request into a paginated scrape that runs on Celery
workers, checkpoints in Postgres, keeps pages and results in S3 and shares rate
limits and circuit breakers through Redis. This directory holds TLA+ modules of
its protocols, TLC configurations that check them on small instances, and
proofs, checked by TLAPS, for every value of the constants. Paths below are
relative to `src/`.

## 1. The system

| Component | State | Operations | What is hard |
| --- | --- | --- | --- |
| Job lifecycle (`scrapequeue/core/states.py`, `db/repo.py`) | `jobs.state`, counters, timestamps | `transition` against a table | reads and writes of one row in different transactions without a lock |
| Crawl pipeline (`pipeline/crawl.py`, `queue/checkpoint.py`, `queue/celery_app.py`) | `job_pages`, `failed_pages`, `dead_letters`, page objects, task messages, the chord | `crawl_job`, `fetch_page`, retries, resume, poison pill | every body may die at any point and run again; two runs of one job overlap |
| Result assembly (`pipeline/export.py`) | result file, `jobs.result_key`, the webhook message | `finalise_job` in three transactions and an upload | redelivery between the steps, stale reads |
| Incremental history (`pipeline/dedupe.py`, `pipeline/drift.py`) | `target_snapshots`, `drift_baselines` | diff, upsert, drift check, moving average | several jobs of one target; a redelivery sees its own snapshot; truncation |
| Circuit breaker (`queue/circuit.py`, called by `workers/fetch.py`) | three Redis keys with expiry | `state`, `record_success`, `record_failure` | each is several commands; TTL in whole seconds |
| Rate limiter (`queue/ratelimit.py`) | a Redis hash with expiry | Lua script, `wait_for_slot` | clocks of several processes, late calls, expiry |
| Submission (`api/routes/jobs.py`, `api/deps.py`, `api/middleware/backpressure.py`, `schedule/beat.py`) | the job's row, its message, the queue depth | submit, retry, scheduled submit | message inside the transaction, commit behind the response, idempotency lookup and insert apart |
| Webhook delivery (`api/routes/webhooks.py`, `GET /jobs/{id}/result`) | one task message per callback | post with retries, the answer to who fetches | posts fail behind their effect, arrive twice and late, while the job may be written on |
| Fetch guards and page URLs (`core/urlguard.py`, `pipeline/pageurl.py`, `workers/fetch.py`) | where a page task stands, its retries and countdown | guards, request, classification of errors, autoretry | a check is old when the request leaves; each exception has its own way out, also while a probe is held |
| Browser pool (`workers/browser/pool.py`, `BrowserFetcher._fetch`) | the driver, Chromium and contexts of a worker process | get, launch, context, page, render, close | a crash or the soft time limit inside any call, with what is left for the next task |
| Extraction, routing, auth, the API's own rate limit, health, observability, settings | none, or a counter of its own | | data and I/O |
| Dead-letter task (`queue/deadletter.py`) | | `park` | sent by nothing in the repository |

How they interact: the API inserts the job and sends `crawl_job`; `crawl_job`
commits its plan and publishes a chord of `fetch_page` messages with
`assemble_job` as callback; `fetch_page` passes the guards, the circuit and the
limiter, uploads its rows and records the page; `assemble_job` loads the pages
its chord names, compares them with the target's snapshot, checks drift,
uploads, commits the final state and enqueues the callback, which another task
posts and posts again; its receiver asks for the result. A cancel writes the
job's row beside all of them. Postgres is used at READ COMMITTED without row
locks, except those that an upsert and the unique indexes take.

## 2. The modules

| Module | Models | Correspondence |
| --- | --- | --- |
| `JobStates` | the transition table | `_TRANSITIONS`, `assert_transition` |
| `PageLedger` | what the checkpoint promises: a page is counted once, after it was stored | abstract specification |
| `JobPromise` | what a job promises its owner over any number of runs: who may decide, on what, and how often the owner is told | abstract specification |
| `CrawlPipeline` | one job from its first delivery to its final state | variables are columns, S3 objects and messages; each action is the code between two points at which the process may die or another process may look |
| `TargetHistory` | the jobs of one target in `finalise_job`: snapshot and baseline | row locks of the upsert are positions held; `check` and `update_baseline` read the baseline one after the other; deadlock detection, unique and cardinality errors, a failing upload and the soft time limit raise |
| `JobCaller` | the same job with its callbacks and the receiver (extends `CrawlPipeline`) | a step of the job, which enqueues a callback when `AssembleNotify` does and keeps `jobs.rows`, or a post that arrives, fails or dies |
| `CircuitBreaker` | the breaker of one domain | one action per Redis command |
| `PageRequest` | `page_url` and `page_body` | operators: which query and body each page of a target has |
| `PageFetch` | the page tasks against one domain (extends `CircuitBreaker`, `PageRequest`) | one action per guard, way out of the request, and except clause; each is a command of the breaker or leaves its keys alone |
| `BrowserPool` | the browser of one worker process | one action per Playwright call; a fault may hit any of them |
| `RateLimiter` | the bucket of one domain, with its capacity `max(rate, 1)` | the script is one action; the stamp is taken before |
| `Submission` | requests, retries and Beat against the first read of a worker | one action per query, message, response and commit |
| `MC...` | model values and instances for TLC | |
| `...Proofs` | theorems | |

A transaction that reads a row and writes it later is two actions with what was
read kept in a local ("saw"), because nothing locks the row. A worker's death is
an action that puts the message back (`task_acks_late`,
`task_reject_on_worker_lost`); an exception nobody handles acks the message. In
each module a definition whose comment says "Variant, wrong" is not used: it
shows a plausible slip of the code that one of the properties detects.

Celery's chord is not code of this repository. It is taken at its best: each
header task is counted once, and the callback is sent once, when all parts have
succeeded; a part that is an error keeps it from being sent. Simultaneous
delivery of one message to two workers, and duplicates from a publish that is
retried, are not modelled. Postgres, Redis and S3 are taken to survive.

## 3. The runs

Passing runs:

| Run | Question | Bounds |
| --- | --- | --- |
| `Crawled` | A job that is planned once, with lost workers, retries, errors, a cancel and failing callbacks: does SUCCEEDED mean every page, is a final state final, does Postgres promise only what S3 has, is PARTIAL explained, does what the receiver is told stay true? | 2 pages, threshold 1, 1 retry, one each of lost `crawl_job`, lost page task, lost assembly, error and cancel, at most three of these in a job (`ThreeFaults`), 1 retry of a post |
| `Resumed` | `crawl_job` dies and is resumed, up to the poison-pill threshold: does the job keep what it promises (`JobPromise`), is every page of a job with a result accounted for, is there always a message that carries the job on, is each page counted once, is a final state reached and the callback enqueued? | 2 pages, threshold 2, 1 retry; one fault of any kind, a retry being one, or two deaths of a `crawl_job` that has not published (`OneFault`) |
| `Fetched` | Page tasks with their guards and retries against one domain: do they use the breaker as it assumes, are probes rationed, does the circuit open only behind failures in a row, does a count expire, does the domain recover, does every page end? | 2 workers, threshold 2, 2 open seconds, 2 failures, 1 body cut short between its commands (a death or the soft time limit), 1 retry, countdown 1 |
| `Rendered` | One worker process renders page after page: is every driver, Chromium and context that stays behind owed to a fault, and do faults stay with the page they hit? | 2 crashes, 2 soft time limits, 2 failed launches |
| `Limiter` | Does the limit hold across processes and expiry, and does nobody wait for nothing? | 2 clients, skew 1, delay 1, 7 seconds, 6 grants, a rate below one |
| `Submitted` | One key gives one job, a firing of the schedule no more than its deaths explain, a caller gets its own body, no row without a message, the queue stays bounded | 4 requests (3 with one key), 1 retry, 1 firing, limit 1, 2 threads, 1 crash, 1 lost firing |
| `History` | Three jobs of one target interleave: does everything that enters the snapshot reach a file, does the baseline stay where the accepted runs put it, and is an empty run flagged? | 3 jobs (2 incremental, which are interchangeable), 5 yields, 3 keys, 2 hashes, 1 fault: a death inside the transaction or behind it, or an error of the body |

The bounds are small but each hazard needs no more: two runs, two actors, two
pages or three jobs already give every order of their steps, one death at every
point, and one retry at the limit. What the bounds cap is named in the
constants: deaths, errors, cancels, time, grants. `Crawled` has every pair and
triple of different faults at every pair and triple of points; with threshold 1
a death of `crawl_job` behind its planning parks the job. `Resumed` has the
second run, without a symmetry, because it checks liveness; its constraint
keeps to one fault, since two runs with two faults are millions of states. Both
set `Incremental = FALSE`; diffs across jobs are the matter of `History`.
`History` takes one fault of any kind at any point; a second would only add
to `struck` what the first adds, and the theorems are for any number.

Deadlock is checked in `Fetched` and `Rendered`, whose time and pages never
end; the other systems stop when all jobs or requests are finished, or at the
end of their bounded time, and say `CHECK_DEADLOCK FALSE`.

Fairness. `CrawlPipeline!Fairness` is weak fairness of each task body: some
worker of the queue is alive and takes what it is sent, which is what Celery
promises as long as the deployment runs workers; deaths are bounded by the
budgets, and retries by `max_retries`, as in the code. `PageFairSpec` asks that
time passes and that a worker with a page task carries it on, which the
timeouts of the request, of the limiter and of the body enforce; it does not ask
that a request succeeds, nor that a worker lives. `Recovers` has its condition
in itself: once no fetch fails any more, the circuit closes for good.

Violations, each a promise of the repository that the code does not keep:

| Run | Finding |
| --- | --- |
| `CancelOverwritten` | `crawl_job` reads PENDING, a cancel commits CANCELLED, and the commit of `crawl_job` writes RUNNING over it (`pipeline/crawl.py:83`); "Terminal is final" |
| `ResumeLosesPages` | a resumed run's chord carries only its own pages, so a SUCCEEDED file lacks those of the earlier run (`pipeline/crawl.py:88`) |
| `ReportLost` | the snapshot is committed before the diff is uploaded; a redelivered assembly compares the rows with themselves and uploads an empty file (`pipeline/export.py:78`) |
| `OpenNotParked` | an open circuit is retried like any transient error: the retries are spent long before the circuit half-opens, and the page ends in `failed_pages`; in the trace its first try failed and the retry met the open circuit (`pipeline/crawl.py:118`; `queue/circuit.py:5`, "parked rather than retried") |
| `PickedUpEarly` | the message is sent before the row is committed; a fast worker finds no job and drops it, and the job stays PENDING (`api/routes/jobs.py:121`) |

Other divergences met while modelling. The models contain them, the properties
are stated around them, and no run is spent on them:

- A page task that ends in an error nobody handles (the soft time limit, a
  blocked URL, the limiter's timeout) keeps the chord from firing; the job stays
  RUNNING. So does an assembly that raises, after a deadlock of two upserts, two
  equal rows without `row_key`, or a second first baseline: `assemble_job`
  names `max_retries` but no `autoretry_for`.
- The same missing lock lets a cancel that has checked a job write CANCELLED
  over a result committed in between (`api/routes/jobs.py:155`), and an assembly
  write its verdict over CANCELLED.
- Of two jobs that find no baseline, one may commit the first before the other's
  `update_baseline` reads it (`pipeline/drift.py:33`, `:53`). The other's rows
  per page are then blended in unchecked: a run without rows ends SUCCEEDED and
  drags the new baseline down.
- An upload that raises behind the snapshot transaction (`pipeline/export.py:83`,
  `:88`) ends the task: the job stays RUNNING, and its rows are in the snapshot
  and in no file.
- A page that was given up and is delivered again may complete behind the end of
  its job: `GET /jobs/{id}/result` then counts more rows than the file has and
  the callback said (`db/repo.py:90`, `api/routes/results.py:40`).
- A redelivered `assemble_job` of a finished job redoes the snapshot, the
  baseline and the upload before the transition is refused
  (`docs/architecture.md:63`, "can only be a no-op").
- A `fetch_page` that kills its worker is redelivered uncounted
  (`docs/adr/0006-dead-letter-queue.md:20`); one that fails again after a
  redelivery is counted again.
- The webhook is forgotten when the worker dies between the commit and the
  enqueue.
- A success between the INCR and the SET of another worker's failure opens the
  domain right after it. The first caller after the trip may probe at once, and
  as TTL is in whole seconds a second probe may fit into one window.
- A late or skewed stamp sets `ts` back, and the same seconds refill the bucket
  twice: the limit holds up to `back`, not exactly.
- The commit comes after the response, so a 202 may name a job that was rolled
  back; of two concurrent requests with one key the second gets a 500; a firing
  of Beat that is redelivered makes a second job.
- Removed rows are counted for the log and neither reported nor deleted from
  the snapshot (`README.md`, "emit added, changed and removed").
- Of two incremental jobs of one target at once, both may compare before either
  commits. Then a row that changed and changed back in between can be stored as
  it was, and the job that stored it last reports nothing of it.
- A driver that a crash left behind is never stopped, and where the library
  refuses a second driver in a process no page is rendered there again. A
  context that the soft time limit cuts off between `new_context` and the `try`
  stays open. `shutdown_pool` runs in the parent process, which has no browser
  (`workers/browser/pool.py:33`, `:69`).
- A body that is no JSON, an address that does not resolve at the worker, and
  the limiter's timeout are not among the errors `fetch_page` classifies: they
  end the task, and with it the chord (`workers/fetch.py:42` speaks of "a
  malformed response").
- A failure of the own browser and a permanent 404 count against the domain's
  circuit. A probe that gets no slot keeps the probe key; a probe that ends
  after its window neither closes nor reopens the circuit.
- The setting `backoff_base` is read by nothing.

## 4. The proofs

All theorems hold for every value of the constants that satisfies the named
`ASSUME` of the module (finite sets of pages, requests or jobs, natural-number
bounds, a threshold of at least one, a slack of the bucket that covers skew and
delay); TLC evaluates the assumptions in the runs.

- `CrawlPipelineProofs`, for any number of runs, pages, deaths, errors and
  cancels, in four parts. First `TypeCorrect`, `PoisonPillBound`,
  `CheckpointSafe`, `ResultSafe`, `PartialSafe` and the refinement
  `LedgerImplemented`. The inductive invariant is a conjunction: the types;
  `PoisonInv`, which ties `attempts` and `lost` to where `crawl_job` is, since
  the bound is about a counter that is read in one step and bumped in another;
  `CheckpointInv`, which follows a page's rows from the upload through the task
  to the chord's part; `ResultInv`, which carries "the file is uploaded" through
  the assembly's steps; `PartialInv`, which relates the failures seen by an
  assembly to the table. None of the properties is inductive alone: each speaks
  of what was committed, and the steps that commit rely on what earlier steps of
  the same body did.
  Second, the refinement `PromiseImplemented` (every step of the pipeline is a
  step of `JobPromise` or none) with `EveryPageAccounted`, `CallbackPerRun` and
  `NeverRunsAgain`. Several runs of one job may be at work at once, so the
  argument is about each chord: `ChordInv` (a run is given every page that is
  not recorded, and its assembly has all parts, none of them an error),
  `FailedPartInv` (a failed part was counted before an assembly could read it)
  and `SkippedPartInv` (an assembly with a skipped part reads a final row) give
  `DecisionSafe`: whichever assembly commits, each page is in the ledger or has
  failed, and none has failed behind SUCCEEDED. `NotifyInv` counts the
  assemblies that will call back, at most one for each planning. `Moves` sums up
  once what a step does to rows, tasks and assemblies; the inductions of the
  last three rest on it instead of going through the actions again.
  Third, `FileExplained`: a result file is that of one run, and each page
  missing from it was recorded by an earlier run, failed, or was skipped by a
  job that has ended. The first case is what the run `ResumeLosesPages` shows.
  Fourth, `NobodyStranded`, by `CarriedInv`: as long as nothing raised and
  nobody cancelled, the runs to come have published nothing, and once
  `crawl_job` is through with a job that is not final, its last run has an
  assembly that will commit, or a chord that waits for parts that are all on
  their way.
- `JobCallerProofs`: over any number of runs, `CallerTypeCorrect` and
  `ToldIsBacked` (behind whatever has arrived, however late, there is a result,
  and the ledger has the pages it counted). As long as the job has been planned
  once (`OneRun`, a condition on the state), `SucceededMeansAll`,
  `FinishedUntilResumed` and `ToldForGood`, and where it is never planned again
  (`SingleRun`: the threshold is one, or no worker dies with `crawl_job`), the
  corollaries `SucceededAlwaysMeansAll`, `FinishedForGood` and `ToldAlways`,
  which are what `Crawled` checks. They assume `~Incremental`; the runs
  `ResumeLosesPages` and `ReportLost` show what a second planning and a diff do.
  The induction has five parts, each resting on those before it and on
  `CrawlPipelineProofs`. `OnceInv`: the one chord has all pages, and an assembly
  that exists has all parts. `EmittedInv`, shared with `FileExplained`: what an
  assembly emits is the pages whose part is rows. `SkippedInv`: a page that was
  skipped, because the job was stopped, is known to an assembly that may still
  commit. `OutputInv`: a SUCCEEDED job's file, and whatever a redelivered
  assembly is about to write over it, has every page. `FinalInv`: an assembly
  that runs behind a committed verdict finds the transition refused, so nothing
  is decided twice. From these, `VerdictStep` says that a committed verdict and
  its file last, and `ToldInv` follows a verdict from the commit through the
  callback task to the receiver. `CountInv` keeps `jobs.rows` within the pages of the
  ledger, and `FirstCommit` has it start from the pages of the file; from then
  on it only grows. `CallerImplements` carries the theorems of
  `CrawlPipeline` over to `JobCaller`.
- `CircuitBreakerProofs`: `TypesHold`, `ProbesAreRationed`,
  `CountsAreForgotten`, `OpenedByFailures`, `OpenKeepsOneBack`, for any
  number of workers. The strengthening says what a worker between two commands
  has seen of the count, that the probe key lives while probes of this second
  are counted, that the `fails` key never exceeds the failures since the last
  success (`CountConsecutive`), and that a worker about to open the circuit has
  seen a count that is still true unless a success overtook it (`TripInv`).
- `PageFetchProofs`: `FetchersImplementBreaker` (every step of the page tasks is
  a step of `CircuitBreaker` or leaves it alone, so the breaker's theorems hold
  of its callers), `PageTypeCorrect` and `GuardsAlwaysAgree`, by a task
  invariant that ties the place in `fetch_page` to that in the breaker, and
  `PagesAddressable`: for every target that steps, two pages have different
  queries. The last is about the operators of `PageRequest`; TLC evaluates an
  instance as an assumption of `MCPageFetch`.
- `BrowserPoolProofs`: `PoolTypeCorrect`, `ResourcesExplained`,
  `ContextsAlwaysReturned` and `FaultsAlwaysLocal`, for any number of faults, by
  counting drivers, processes and contexts against the faults so far, which
  `SpentInv` bounds.
- `RateLimiterProofs`: `TypeCorrect`; `LimitShared`, by an account: tokens in
  the bucket plus granted cost never exceed what capacity, time and set-back
  seconds have paid in, and an expired bucket would have been full; and
  `WaitsBounded`, by what a sleeper may count on (`AloneInv`): until another
  client's call is answered, its token is in the bucket when it wakes.
- `SubmissionProofs`: `TypeCorrect`, `OneJob`, `OwnBody`, `MessageSent`,
  `QueueWithin`. The unique index is what makes `OneJob` inductive for the keys
  (an uncommitted row already excludes others of its key); for the schedule,
  `FiringInv` counts a firing's rows against its message and its deaths.
  `QueueWithin` counts the requests that passed the check together with the
  messages they will send.
- `TargetHistoryProofs`: `NothingUnreported`, `BaselineStays`,
  `EmptyRunsFlagged`, `KeyedUpserts` and `TypeCorrect`, for any jobs, rows and
  pages. `BaselineTracks` is not inductive: a commit blends the value that the
  job had read, which others may have replaced, so `SawInv` says that every
  value still in use tracks the accepted runs; the rest is the arithmetic of the
  truncated blend (`BlendNotAbove`, `BlendNotBelow`). `DeliveryInv` follows a
  row from the comparison, which leaves out only what some job has reported or
  lost to a fault, to the commit. `EmptyRunFlagged` has its conditions in
  itself: no death behind a commit, and at most one run that was blended in
  unchecked; `FlagInv` then keeps the baseline at two or more, or at one
  or more once that run went in, so that an empty run is below the floor of
  whatever it finds.

Only model-checked: the liveness properties (`Finishes`, `CallbackSent`,
`Recovers`, `PagesEnd`), which are out of the prover's reach. Every safety
invariant, action property and refinement of the passing runs is a theorem.

## 5. Not modelled

- Routing, authentication, health, observability, settings, the migrations, the
  command line and the container's check scripts: constants, lookups and I/O
  without a state that a protocol depends on.
- Extraction from HTML and the file formats, beyond the identity of a row: pure
  functions whose content is in selectors and text.
- The parsing of URLs, robots.txt and target files, which `PageFetch` takes by
  its outcome; the signature of a callback.
- A page stands for its rows in `CrawlPipeline`, where the drift verdict is
  free; `TargetHistory` has rows and the arithmetic, for jobs that are neither
  cancelled nor resumed.
- Timestamps, error texts and `drift_baselines.samples`, which nothing reads to
  decide anything. `jobs.rows` is in `JobCaller`, with one row for a page.
- The API's own rate limit (`api/middleware/ratelimit.py`), which asks a bucket
  with a capacity of a minute's tokens once for each request; `RateLimiter` has
  the capacity of a domain's bucket.
- `queue/deadletter.py`: its task `park` is registered and routed and never
  sent. `crawl_job` parks a job itself (`ParkPoisonPill`).
- Countdowns of retries are seconds in `PageFetch` and free delays elsewhere.

## 6. What is left

Modelled and proved so far: the pipeline with its callbacks, the guards of a
fetch composed with the breaker, the browser, and the refinements
`LedgerRefined`, `PromiseKept` and `BreakerRefined`. Further steps, in order of
what they would add:

1. Two resumed runs of an incremental job whose assemblies meet in one
   target's snapshot: `CrawlPipeline` and `TargetHistory` composed. Each has
   the other's state as a free choice now.
2. An abstract specification of a target's reports (every change is reported by
   one job) that `TargetHistory` implements where no fault hits a job late.
3. The union of the files of a job's runs: `FileExplained` speaks of the file
   that is there, not of those it replaced.
