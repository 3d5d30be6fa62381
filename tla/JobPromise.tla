----------------------------- MODULE JobPromise -----------------------------
(***************************************************************************)
(* What a job promises its owner, however often it is planned and whoever  *)
(* writes its row: every page of a job that ends with a result is either   *)
(* in the ledger or reported as failed; SUCCEEDED means all of them; a job *)
(* that was planned and has ended never runs again; it is parked only when *)
(* its runs are used up; and it calls back at most once per run, for a     *)
(* result that is there. Messages, chords and deaths do not appear here;   *)
(* CrawlPipeline is shown to implement this specification.                 *)
(***************************************************************************)
EXTENDS Naturals

CONSTANTS Pages, MaxRuns

VARIABLES
  state,   \* jobs.state
  runs,    \* jobs.attempts
  done,    \* pages with a row in job_pages
  failed,  \* pages with a row in failed_pages
  result,  \* jobs.result_key is set
  told     \* callbacks enqueued

promised == <<state, runs, done, failed, result, told>>

PromiseInit ==
  /\ state = "PENDING" /\ runs = 0
  /\ done = {} /\ failed = {}
  /\ result = FALSE /\ told = 0

\* The first planning starts the job, a later one does not write its state.
StartOrResume ==
  /\ runs < MaxRuns
  /\ runs' = runs + 1
  /\ state' = IF runs = 0 THEN "RUNNING" ELSE state
  /\ UNCHANGED <<done, failed, result, told>>

Record(p) ==
  /\ runs > 0
  /\ done' = done \union {p}
  /\ UNCHANGED <<state, runs, failed, result, told>>

Fail(p) ==
  /\ runs > 0
  /\ failed' = failed \union {p}
  /\ UNCHANGED <<state, runs, done, result, told>>

\* A result is decided once every page is accounted for.
Decide(verdict) ==
  /\ runs > 0
  /\ done \union failed = Pages
  /\ verdict = "SUCCEEDED" => done = Pages
  /\ verdict = "PARTIAL" => failed # {}
  /\ state' = verdict /\ result' = TRUE
  /\ UNCHANGED <<runs, done, failed, told>>

Cancel ==
  /\ state' = "CANCELLED"
  /\ UNCHANGED <<runs, done, failed, result, told>>

Park ==
  /\ runs = MaxRuns
  /\ state' = "DEAD_LETTER"
  /\ UNCHANGED <<runs, done, failed, result, told>>

Tell ==
  /\ result /\ told < runs
  /\ told' = told + 1
  /\ UNCHANGED <<state, runs, done, failed, result>>

PromiseNext ==
  \/ StartOrResume \/ Cancel \/ Park \/ Tell
  \/ \E p \in Pages : Record(p) \/ Fail(p)
  \/ \E verdict \in {"SUCCEEDED", "PARTIAL", "SUSPECT"} : Decide(verdict)

PromiseSpec == PromiseInit /\ [][PromiseNext]_promised

=============================================================================
