--------------------------- MODULE JobCallerProofs ---------------------------
(***************************************************************************)
(* Theorems about what a caller is told. Over any number of runs, the      *)
(* ledger stands behind every callback. As long as the job has been        *)
(* planned once, more holds: there is one chord over all pages and one     *)
(* assembly, and what it decides from its parts lasts. Workers may die     *)
(* with crawl_job before it plans, pages and the assembly may be lost,     *)
(* raise and be delivered again, and the job may be cancelled, at any      *)
(* step.                                                                   *)
(***************************************************************************)
EXTENDS JobCaller, CrawlPipelineProofs, SequenceTheorems

\* The job has been planned once at most,
OneRun == attempts <= 1

\* which is all that happens if no worker dies with crawl_job, or if the first
\* such death after a planning parks the job.
SingleRun == PoisonThreshold = 1 \/ CrawlLosses = 0

-----------------------------------------------------------------------------
(* Inductive invariants *)

\* Every part of run r's chord is in, and none is an error.
Ended(r) == \A p \in Pages : part[r][p] \in {"rows", "failed", "skipped"}

\* What a step does to a verdict: once it is committed, neither it nor its file
\* changes, unless there was a cancel or a death; and a callback is owed for the
\* verdict that has just been committed, or was before.
VerdictLasts ==
  /\ spent["cancel"] > 0 => spent'["cancel"] > 0
  /\ spent["crawl"] > 0 => spent'["crawl"] > 0
  /\ key => key' /\ output' = output
  /\ state \in TerminalStates /\ spent["cancel"] = 0 /\ spent["crawl"] = 0
       => state' = state
  /\ \A r \in Runs : asm'[r].pc = "committed" =>
       \/ asm[r].pc = "committed"
       \/ /\ asm[r].pc = "read" /\ key' /\ state' = asm[r].verdict
          /\ output'.pages = asm[r].emitted

\* The one run has all pages in its chord, and its assembly all parts.
OnceInv ==
  /\ attempts <= 1
  /\ \A r \in Runs : Unpublished(r) \/ (r = 1 /\ header[r] = Pages)
  /\ attempts = 0 \/ crawl.pc = "planned" =>
       pages = {} /\ ~key /\ \A r \in Runs : Unpublished(r)
  /\ crawl.pc = "planned" => crawl.todo = Pages
  /\ \A r \in Runs : asm[r].pc # "none" => Ended(r)
  /\ spent["crawl"] = 0 /\ crawl.pc \in {"queued", "read"} => attempts = 0
  /\ spent["crawl"] <= CrawlLosses

Stopped == {"CANCELLED", "DEAD_LETTER"}

\* A page is only skipped once the job is stopped, and no assembly reads the row
\* before all parts are in: none will find it RUNNING.
SkippedInv ==
  \A r \in Runs, p \in Pages :
    part[r][p] = "skipped" \/ (task[r][p] = "skipped" /\ part[r][p] = "none")
      => /\ state \in Stopped
         /\ asm[r].pc = "read" => asm[r].saw \in Stopped

\* The file has what the parts say, and those of a SUCCEEDED job say all pages.
OutputInv ==
  /\ output.uploaded => asm[1].pc # "none" /\ output.pages = Loaded(1)
  /\ \A r \in Runs : asm[r].pc \in {"uploaded", "read"} => output.uploaded
  /\ state = "SUCCEEDED" => output.uploaded /\ Loaded(1) = Pages

\* The verdict is committed once: later deliveries of the assembly find a final
\* state. Where nobody cancels and crawl_job is not lost, what the assembly has
\* read of the row is what the row holds.
FinalInv ==
  /\ callbacks = 0 \/ (callbacks = 1 /\ key)
  /\ \A r \in Runs : asm[r].pc = "committed" => key /\ callbacks = 0
  /\ key => /\ state \in TerminalStates /\ output.uploaded
            /\ \A r \in Runs : asm[r].pc = "read" =>
                 asm[r].saw \in TerminalStates
  /\ spent["cancel"] = 0 =>
       /\ cancel = "idle"
       /\ attempts = 0 => state = "PENDING"
       /\ spent["crawl"] = 0 =>
            \A r \in Runs : asm[r].pc = "read" => asm[r].saw = state

-----------------------------------------------------------------------------
(* Every step keeps every invariant. *)

\* To resume the job is to plan it a second time.
LEMMA NoResume ==
  ASSUME OneRun', TypeOK, PoisonInv
  PROVE  ~ResumeRun
<1>1. ResumeRun => attempts > 0 /\ attempts' = attempts + 1
  BY DEF ResumeRun, Plan, PoisonInv
<1>2. attempts \in Nat
  BY ConfigAssumption DEF TypeOK
<1>. QED
  BY <1>1, <1>2 DEF OneRun

\* Only the first planning publishes, and the assembly starts behind its parts.
LEMMA OnceStep ==
  OneRun' /\ TypeOK /\ PoisonInv /\ OnceInv /\ [Next]_vars => OnceInv'
<1> SUFFICES ASSUME OneRun', TypeOK, PoisonInv, OnceInv, [Next]_vars
             PROVE  OnceInv'
  OBVIOUS
<1> USE ConfigAssumption DEF TypeOK, OnceInv, Unpublished, Ended, pipeline,
        outside, job, tables, targets, store, fetching, CrawlBody, AssembleBody
<1>1. CASE CrawlReceive
  BY <1>1 DEF CrawlReceive, CrawlAt, Crawling
<1>2. CASE StartRun
  <2>1. attempts = 0
    BY <1>2 DEF StartRun, PoisonInv
  <2>2. /\ attempts' = 1 /\ crawl'.pc = "planned" /\ crawl'.todo = Pages
        /\ pages' = {} /\ ~key'
        /\ UNCHANGED <<header, asm, task, part, spent>>
    BY <1>2, <2>1 DEF StartRun, Plan, PagesToFetch, Crawling
  <2>. QED
    BY <2>1, <2>2
<1>3. CASE ResumeRun
  BY <1>3, NoResume
<1>4. CASE ParkPoisonPill
  BY <1>4 DEF ParkPoisonPill, BumpLost, CrawlAt, Crawling
<1>5. CASE PublishChord
  <2>1. /\ attempts = 1 /\ 1 \in Runs /\ \A r \in Runs : Unpublished(r)
        /\ crawl.todo = Pages /\ UNCHANGED <<attempts, key, asm, part>>
    BY <1>5 DEF PublishChord, PoisonInv, Runs
  <2>2. /\ header'[1] = Pages /\ crawl'.pc = "done"
        /\ \A r \in Runs : r # 1 => header'[r] = header[r] /\ task'[r] = task[r]
    BY <1>5, <2>1 DEF PublishChord, Enqueue, CrawlAt, Crawling
  <2>3. UNCHANGED spent
    BY <1>5 DEF PublishChord
  <2>. QED
    BY <2>1, <2>2, <2>3
<1>6. CASE PublishAssemble
  BY <1>6 DEF PublishAssemble, AssembleAt, Assembling, CrawlAt, Crawling,
     PoisonInv
<1>7. CASE CrawlAck
  BY <1>7 DEF CrawlAck, CrawlAt, Crawling
<1>8. CASE CrawlLost
  BY <1>8 DEF CrawlLost, Redelivered, Spend, Kinds, CrawlAt, Crawling,
     Budget
<1>9. CASE CrawlLostPublishing
  <2>1. /\ attempts = 1 /\ 1 \in Runs /\ \A r \in Runs : Unpublished(r)
        /\ crawl.todo = Pages /\ UNCHANGED <<attempts, key, asm, part>>
    BY <1>9 DEF CrawlLostPublishing, PoisonInv, Runs
  <2>2. /\ header'[1] = Pages /\ crawl'.pc = "queued"
        /\ \A r \in Runs : r # 1 => header'[r] = header[r] /\ task'[r] = task[r]
    BY <1>9, <2>1 DEF CrawlLostPublishing, Redelivered, Enqueue, CrawlAt,
                      Crawling
  <2>3. spent'["crawl"] # 0 /\ spent'["crawl"] <= CrawlLosses
    BY <1>9 DEF CrawlLostPublishing, Spend, Budget, Kinds
  <2>. QED
    BY <2>1, <2>2, <2>3
<1>10. CASE CrawlError
  BY <1>10 DEF CrawlError, Spend, Kinds, CrawlAt, Crawling
<1>11. CASE CrawlRevoked
  BY <1>11 DEF CrawlRevoked, CrawlAt, Crawling
<1>12. CASE CancelRead
  BY <1>12 DEF CancelRead, Spend, Kinds
<1>13. CASE CancelCommit
  BY <1>13 DEF CancelCommit
<1>14. ASSUME NEW r \in Runs, NEW p \in Pages, FetchReceive(r, p)
      PROVE OnceInv'
  BY <1>14 DEF FetchReceive, Step
<1>15. ASSUME NEW r \in Runs, NEW p \in Pages, FetchStore(r, p)
      PROVE OnceInv'
  BY <1>15 DEF FetchStore, Step, Upload
<1>16. ASSUME NEW r \in Runs, NEW p \in Pages, FetchRecord(r, p)
      PROVE OnceInv'
  BY <1>16 DEF FetchRecord, Step, RecordPage, RecordPageAgain
<1>17. ASSUME NEW r \in Runs, NEW p \in Pages, FetchGiveUp(r, p)
      PROVE OnceInv'
  BY <1>17 DEF FetchGiveUp, Step, RecordFailure
<1>18. ASSUME NEW r \in Runs, NEW p \in Pages, FetchRetry(r, p)
      PROVE OnceInv'
  BY <1>18 DEF FetchRetry, Step, MayRetry
<1>19. ASSUME NEW r \in Runs, NEW p \in Pages, FetchReport(r, p)
      PROVE OnceInv'
  <2>1. r = 1 /\ header[r] = Pages
    BY <1>19 DEF FetchReport, Outcome
  <2>2. \A s \in Runs, q \in Pages :
          part[s][q] # "none" => part'[s][q] = part[s][q]
    <3>1. CASE part[r][p] # "none"
      BY <1>19, <3>1 DEF FetchReport
    <3>2. CASE part[r][p] = "none"
      <4>1. part' = [part EXCEPT ![r][p] = task[r][p]]
        BY <1>19, <3>2 DEF FetchReport
      <4>. QED
        BY <3>2, <4>1
    <3>. QED
      BY <3>1, <3>2
  <2>3. \A s \in Runs : s # r => /\ asm'[s] = asm[s] /\ task'[s] = task[s]
                                 /\ part'[s] = part[s]
    BY <1>19 DEF FetchReport
  <2>4. asm'[r].pc # "none" => Ended(r)'
    <3>1. CASE asm'[r] = asm[r]
      <4>1. asm[r].pc # "none" => \A q \in Pages : part'[r][q] = part[r][q]
        BY <2>2
      <4>. QED
        BY <3>1, <4>1
    <3>2. CASE asm'[r] # asm[r]
      BY <1>19, <2>1, <3>2 DEF FetchReport, Fires, Outcome
    <3>. QED
      BY <3>1, <3>2
  <2>5. /\ UNCHANGED <<attempts, crawl, pages, key, header, spent>>
        /\ attempts # 0 /\ crawl.pc # "planned"
    BY <1>19, <2>1 DEF FetchReport
  <2>6. \A s \in Runs : s # r =>
        (Unpublished(s) => Unpublished(s)') /\ (Ended(s) => Ended(s)')
    BY <2>3, <2>5
  <2>. QED
    BY <2>1, <2>3, <2>4, <2>5, <2>6
<1>20. ASSUME NEW r \in Runs, NEW p \in Pages, FetchAck(r, p)
      PROVE OnceInv'
  BY <1>20 DEF FetchAck, Step
<1>21. ASSUME NEW r \in Runs, NEW p \in Pages, FetchTimeLimit(r, p)
      PROVE OnceInv'
  BY <1>21 DEF FetchTimeLimit, Step, Spend, Kinds, RecordFailure
<1>22. ASSUME NEW r \in Runs, NEW p \in Pages, FetchError(r, p)
      PROVE OnceInv'
  BY <1>22 DEF FetchError, Step, Spend, Kinds
<1>23. ASSUME NEW r \in Runs, NEW p \in Pages, FetchLost(r, p)
      PROVE OnceInv'
  BY <1>23 DEF FetchLost, Step, Spend, Kinds, Outcome
<1>24. ASSUME NEW r \in Runs, AssembleReceive(r)
      PROVE OnceInv'
  BY <1>24 DEF AssembleReceive, AssembleAt, Assembling
<1>25. ASSUME NEW r \in Runs, AssembleSnapshot(r)
      PROVE OnceInv'
  BY <1>25 DEF AssembleSnapshot, AssembleAt, Assembling, Emitted, Verdict
<1>26. ASSUME NEW r \in Runs, AssembleUpload(r)
      PROVE OnceInv'
  BY <1>26 DEF AssembleUpload
<1>27. ASSUME NEW r \in Runs, AssembleRead(r)
      PROVE OnceInv'
  BY <1>27 DEF AssembleRead, AssembleAt, Assembling
<1>28. ASSUME NEW r \in Runs, AssembleCommit(r)
      PROVE OnceInv'
  BY <1>28 DEF AssembleCommit, AfterCommit, AssembleAt, Assembling
<1>29. ASSUME NEW r \in Runs, AssembleRefused(r)
      PROVE OnceInv'
  BY <1>29 DEF AssembleRefused, AssembleAt, Assembling
<1>30. ASSUME NEW r \in Runs, AssembleNotify(r)
      PROVE OnceInv'
  BY <1>30 DEF AssembleNotify, AssembleAt, Assembling
<1>31. ASSUME NEW r \in Runs, AssembleAck(r)
      PROVE OnceInv'
  BY <1>31 DEF AssembleAck, AssembleAt, Assembling
<1>32. ASSUME NEW r \in Runs, AssembleLost(r)
      PROVE OnceInv'
  BY <1>32 DEF AssembleLost, AssembleAt, Assembling, Spend, Kinds
<1>33. ASSUME NEW r \in Runs, AssembleError(r)
      PROVE OnceInv'
  BY <1>33 DEF AssembleError, AssembleAt, Assembling, Spend, Kinds
<1>34. CASE UNCHANGED vars
  BY <1>34 DEF vars
<1>. QED
  BY <1>1, <1>2, <1>3, <1>4, <1>5, <1>6, <1>7, <1>8, <1>9, <1>10, <1>11,
     <1>12, <1>13, <1>14, <1>15, <1>16, <1>17, <1>18, <1>19, <1>20, <1>21,
     <1>22, <1>23, <1>24, <1>25, <1>26, <1>27, <1>28, <1>29, <1>30, <1>31,
     <1>32, <1>33, <1>34
  DEF Next, CrawlStep, CrawlDisturbed, FetchStep, FetchDisturbed, AssembleStep

\* A cancel that a page has seen is not undone.
LEMMA SkippedStep ==
  OneRun' /\ TypeOK /\ PoisonInv /\ OnceInv /\ PartsLast /\ SkippedInv /\
  [Next]_vars => SkippedInv'
<1> SUFFICES ASSUME OneRun', TypeOK, PoisonInv, OnceInv, PartsLast,
                    SkippedInv, [Next]_vars
             PROVE  SkippedInv'
  OBVIOUS
<1> USE ConfigAssumption DEF TypeOK, OnceInv, Unpublished, Ended, SkippedInv,
                             pipeline, outside, job, tables,
        targets, store, fetching, CrawlBody, AssembleBody
<1>1. CASE CrawlReceive
  BY <1>1 DEF CrawlReceive, CrawlAt, Crawling
<1>2. CASE StartRun
  BY <1>2 DEF StartRun, Plan, CrawlAt, Crawling, PoisonInv
<1>3. CASE ResumeRun
  BY <1>3, NoResume
<1>4. CASE ParkPoisonPill
  BY <1>4 DEF ParkPoisonPill, BumpLost, CrawlAt, Crawling, Stopped
<1>5. CASE PublishChord
  BY <1>5 DEF PublishChord, Enqueue, CrawlAt, Crawling
<1>6. CASE PublishAssemble
  BY <1>6 DEF PublishAssemble, AssembleAt, Assembling, CrawlAt, Crawling
<1>7. CASE CrawlAck
  BY <1>7 DEF CrawlAck, CrawlAt, Crawling
<1>8. CASE CrawlLost
  BY <1>8 DEF CrawlLost, Redelivered, Spend, Kinds, CrawlAt, Crawling
<1>9. CASE CrawlLostPublishing
  BY <1>9 DEF CrawlLostPublishing, Enqueue, Redelivered, Spend, Kinds,
     CrawlAt, Crawling
<1>10. CASE CrawlError
  BY <1>10 DEF CrawlError, Spend, Kinds, CrawlAt, Crawling
<1>11. CASE CrawlRevoked
  BY <1>11 DEF CrawlRevoked, CrawlAt, Crawling
<1>12. CASE CancelRead
  BY <1>12 DEF CancelRead, Spend, Kinds
<1>13. CASE CancelCommit
  BY <1>13 DEF CancelCommit, Stopped
<1>14. ASSUME NEW r \in Runs, NEW p \in Pages, FetchReceive(r, p)
      PROVE SkippedInv'
  <2>1. /\ UNCHANGED <<state, part, asm>>
        /\ task' = [task EXCEPT ![r][p] =
                      IF state = "CANCELLED" THEN "skipped" ELSE "fetching"]
    BY <1>14 DEF FetchReceive, Step
  <2>2. ASSUME NEW s \in Runs, NEW q \in Pages,
               task'[s][q] = "skipped", part[s][q] = "none"
        PROVE  state \in Stopped /\ asm[s].pc # "read"
    <3>1. asm[s].pc = "none"
      BY <2>2
    <3>2. task[s][q] = "skipped" \/ state = "CANCELLED"
      BY <2>1, <2>2
    <3>. QED
      BY <2>2, <3>1, <3>2 DEF Stopped
  <2>. QED
    BY <2>1, <2>2
<1>15. ASSUME NEW r \in Runs, NEW p \in Pages, FetchStore(r, p)
      PROVE SkippedInv'
  BY <1>15 DEF FetchStore, Step, Upload
<1>16. ASSUME NEW r \in Runs, NEW p \in Pages, FetchRecord(r, p)
      PROVE SkippedInv'
  BY <1>16 DEF FetchRecord, Step, RecordPage, RecordPageAgain
<1>17. ASSUME NEW r \in Runs, NEW p \in Pages, FetchGiveUp(r, p)
      PROVE SkippedInv'
  BY <1>17 DEF FetchGiveUp, Step, RecordFailure
<1>18. ASSUME NEW r \in Runs, NEW p \in Pages, FetchRetry(r, p)
      PROVE SkippedInv'
  BY <1>18 DEF FetchRetry, Step, MayRetry
<1>19. ASSUME NEW r \in Runs, NEW p \in Pages, FetchReport(r, p)
      PROVE SkippedInv'
  BY <1>19 DEF FetchReport, AssembleAt, Assembling
<1>20. ASSUME NEW r \in Runs, NEW p \in Pages, FetchAck(r, p)
      PROVE SkippedInv'
  BY <1>20 DEF FetchAck, Step
<1>21. ASSUME NEW r \in Runs, NEW p \in Pages, FetchTimeLimit(r, p)
      PROVE SkippedInv'
  BY <1>21 DEF FetchTimeLimit, Step, Spend, Kinds, RecordFailure
<1>22. ASSUME NEW r \in Runs, NEW p \in Pages, FetchError(r, p)
      PROVE SkippedInv'
  BY <1>22 DEF FetchError, Step, Spend, Kinds
<1>23. ASSUME NEW r \in Runs, NEW p \in Pages, FetchLost(r, p)
      PROVE SkippedInv'
  BY <1>23 DEF FetchLost, Step, Spend, Kinds
<1>24. ASSUME NEW r \in Runs, AssembleReceive(r)
      PROVE SkippedInv'
  BY <1>24 DEF AssembleReceive, AssembleAt, Assembling
<1>25. ASSUME NEW r \in Runs, AssembleSnapshot(r)
      PROVE SkippedInv'
  BY <1>25 DEF AssembleSnapshot, AssembleAt, Assembling, Emitted, Verdict
<1>26. ASSUME NEW r \in Runs, AssembleUpload(r)
      PROVE SkippedInv'
  BY <1>26 DEF AssembleUpload
<1>27. ASSUME NEW r \in Runs, AssembleRead(r)
      PROVE SkippedInv'
  BY <1>27 DEF AssembleRead, AssembleAt, Assembling
<1>28. ASSUME NEW r \in Runs, AssembleCommit(r)
      PROVE SkippedInv'
  <2>1. asm[r].saw \notin Stopped
    BY <1>28 DEF AssembleCommit, CanTransition, Transitions, JobState, Stopped
  <2>2. \A s \in Runs, q \in Pages :
          ~ (\/ part[s][q] = "skipped"
             \/ task[s][q] = "skipped" /\ part[s][q] = "none")
    <3>1. asm[r].pc = "read" /\ r = 1
      BY <1>28 DEF AssembleCommit
    <3>2. \A s \in Runs : s # r => Unpublished(s)
      BY <3>1
    <3>. QED
      BY <2>1, <3>1, <3>2
  <2>. QED
    BY <1>28, <2>2 DEF AssembleCommit
<1>29. ASSUME NEW r \in Runs, AssembleRefused(r)
      PROVE SkippedInv'
  BY <1>29 DEF AssembleRefused, AssembleAt, Assembling
<1>30. ASSUME NEW r \in Runs, AssembleNotify(r)
      PROVE SkippedInv'
  BY <1>30 DEF AssembleNotify, AssembleAt, Assembling
<1>31. ASSUME NEW r \in Runs, AssembleAck(r)
      PROVE SkippedInv'
  BY <1>31 DEF AssembleAck, AssembleAt, Assembling
<1>32. ASSUME NEW r \in Runs, AssembleLost(r)
      PROVE SkippedInv'
  BY <1>32 DEF AssembleLost, AssembleAt, Assembling, Spend, Kinds
<1>33. ASSUME NEW r \in Runs, AssembleError(r)
      PROVE SkippedInv'
  BY <1>33 DEF AssembleError, AssembleAt, Assembling, Spend, Kinds
<1>34. CASE UNCHANGED vars
  BY <1>34 DEF vars
<1>. QED
  BY <1>1, <1>2, <1>3, <1>4, <1>5, <1>6, <1>7, <1>8, <1>9, <1>10, <1>11,
     <1>12, <1>13, <1>14, <1>15, <1>16, <1>17, <1>18, <1>19, <1>20, <1>21,
     <1>22, <1>23, <1>24, <1>25, <1>26, <1>27, <1>28, <1>29, <1>30, <1>31,
     <1>32, <1>33, <1>34
  DEF Next, CrawlStep, CrawlDisturbed, FetchStep, FetchDisturbed, AssembleStep

\* An upload writes what the parts say, and SUCCEEDED is decided behind it.
LEMMA OutputStep ==
  OneRun' /\ ~Incremental /\ TypeOK /\ PoisonInv /\ OnceInv /\ PartsLast /\
  FailedPartInv /\ EmittedInv /\ SkippedInv /\ OutputInv /\ [Next]_vars
    => OutputInv'
<1> SUFFICES ASSUME OneRun', ~Incremental, TypeOK, PoisonInv, OnceInv,
                    PartsLast, FailedPartInv, EmittedInv, SkippedInv,
                    OutputInv, [Next]_vars
             PROVE  OutputInv'
  OBVIOUS
<1> USE ConfigAssumption DEF TypeOK, OnceInv, Unpublished, Ended, OutputInv,
                             PartsLast, pipeline, outside, job, tables,
        targets, store, fetching, CrawlBody, AssembleBody
<1>0. \A s \in Runs : asm[s].pc # "none" => Loaded(s)' = Loaded(s)
  BY LoadedStays
<1> USE <1>0
<1>a. 1 \in Runs
  BY DEF Runs
<1> USE <1>a
<1>1. CASE CrawlReceive
  BY <1>1 DEF CrawlReceive, CrawlAt, Crawling
<1>2. CASE StartRun
  BY <1>2 DEF StartRun, Plan, CrawlAt, Crawling
<1>3. CASE ResumeRun
  BY <1>3, NoResume
<1>4. CASE ParkPoisonPill
  BY <1>4 DEF ParkPoisonPill, BumpLost, CrawlAt, Crawling
<1>5. CASE PublishChord
  BY <1>5 DEF PublishChord, Enqueue, CrawlAt, Crawling
<1>6. CASE PublishAssemble
  BY <1>6 DEF PublishAssemble, AssembleAt, Assembling, CrawlAt, Crawling
<1>7. CASE CrawlAck
  BY <1>7 DEF CrawlAck, CrawlAt, Crawling
<1>8. CASE CrawlLost
  BY <1>8 DEF CrawlLost, Redelivered, Spend, Kinds, CrawlAt, Crawling
<1>9. CASE CrawlLostPublishing
  BY <1>9 DEF CrawlLostPublishing, Enqueue, Redelivered, Spend, Kinds,
     CrawlAt, Crawling
<1>10. CASE CrawlError
  BY <1>10 DEF CrawlError, Spend, Kinds, CrawlAt, Crawling
<1>11. CASE CrawlRevoked
  BY <1>11 DEF CrawlRevoked, CrawlAt, Crawling
<1>12. CASE CancelRead
  BY <1>12 DEF CancelRead, Spend, Kinds
<1>13. CASE CancelCommit
  BY <1>13 DEF CancelCommit
<1>14. ASSUME NEW r \in Runs, NEW p \in Pages, FetchReceive(r, p)
      PROVE OutputInv'
  BY <1>14 DEF FetchReceive, Step
<1>15. ASSUME NEW r \in Runs, NEW p \in Pages, FetchStore(r, p)
      PROVE OutputInv'
  BY <1>15 DEF FetchStore, Step, Upload
<1>16. ASSUME NEW r \in Runs, NEW p \in Pages, FetchRecord(r, p)
      PROVE OutputInv'
  BY <1>16 DEF FetchRecord, Step, RecordPage, RecordPageAgain
<1>17. ASSUME NEW r \in Runs, NEW p \in Pages, FetchGiveUp(r, p)
      PROVE OutputInv'
  BY <1>17 DEF FetchGiveUp, Step, RecordFailure
<1>18. ASSUME NEW r \in Runs, NEW p \in Pages, FetchRetry(r, p)
      PROVE OutputInv'
  BY <1>18 DEF FetchRetry, Step, MayRetry
<1>19. ASSUME NEW r \in Runs, NEW p \in Pages, FetchReport(r, p)
      PROVE OutputInv'
  <2>1. \/ asm' = asm
        \/ asm' = [asm EXCEPT ![r] = AssembleAt("queued")]
    BY <1>19 DEF FetchReport
  <2>2. \A s \in Runs : asm'[s] = asm[s] \/ asm'[s].pc = "queued"
    BY <2>1 DEF AssembleAt, Assembling
  <2>3. UNCHANGED <<state, output>>
    BY <1>19 DEF FetchReport
  <2>. QED
    BY <2>2, <2>3 DEF PartsLast
<1>20. ASSUME NEW r \in Runs, NEW p \in Pages, FetchAck(r, p)
      PROVE OutputInv'
  BY <1>20 DEF FetchAck, Step
<1>21. ASSUME NEW r \in Runs, NEW p \in Pages, FetchTimeLimit(r, p)
      PROVE OutputInv'
  BY <1>21 DEF FetchTimeLimit, Step, Spend, Kinds, RecordFailure
<1>22. ASSUME NEW r \in Runs, NEW p \in Pages, FetchError(r, p)
      PROVE OutputInv'
  BY <1>22 DEF FetchError, Step, Spend, Kinds
<1>23. ASSUME NEW r \in Runs, NEW p \in Pages, FetchLost(r, p)
      PROVE OutputInv'
  BY <1>23 DEF FetchLost, Step, Spend, Kinds
<1>24. ASSUME NEW r \in Runs, AssembleReceive(r)
      PROVE OutputInv'
  BY <1>24 DEF AssembleReceive, AssembleAt, Assembling
<1>25. ASSUME NEW r \in Runs, AssembleSnapshot(r)
      PROVE OutputInv'
  BY <1>25 DEF AssembleSnapshot, AssembleAt, Assembling, Emitted, Verdict
<1>26. ASSUME NEW r \in Runs, AssembleUpload(r)
      PROVE OutputInv'
  <2>1. r = 1 /\ asm[r].emitted = Loaded(1)
    BY <1>26 DEF AssembleUpload, EmittedInv
  <2>2. /\ output'.uploaded /\ output'.pages = Loaded(1)
        /\ UNCHANGED state /\ asm'[1].pc # "none"
    BY <1>26, <2>1 DEF AssembleUpload
  <2>. QED
    BY <2>1, <2>2, <1>26 DEF AssembleUpload
<1>27. ASSUME NEW r \in Runs, AssembleRead(r)
      PROVE OutputInv'
  BY <1>27 DEF AssembleRead, AssembleAt, Assembling
<1>28. ASSUME NEW r \in Runs, AssembleCommit(r)
      PROVE OutputInv'
  <2>1. r = 1 /\ asm[r].saw \notin Stopped
    BY <1>28 DEF AssembleCommit, CanTransition, Transitions, JobState, Stopped
  <2>2. state' = asm[r].verdict /\ UNCHANGED output /\ output.uploaded
    BY <1>28 DEF AssembleCommit
  <2>3. asm[r].verdict = "SUCCEEDED" => Loaded(1) = Pages
    <3>1. \A q \in Pages : part[1][q] # "skipped"
      BY <1>28, <2>1 DEF AssembleCommit, SkippedInv
    <3>2. asm[r].verdict = "SUCCEEDED" => \A q \in Pages : part[1][q] # "failed"
      BY <1>28, <2>1 DEF AssembleCommit, FailedPartInv
    <3>3. header[1] = Pages /\ Ended(1)
      BY <1>28, <2>1 DEF AssembleCommit
    <3>. QED
      BY <3>1, <3>2, <3>3 DEF Loaded
  <2>4. \A s \in Runs : asm'[s].pc \in {"uploaded", "read"} => asm'[s] = asm[s]
    BY <1>28 DEF AssembleCommit, AfterCommit, AssembleAt, Assembling
  <2>. QED
    BY <1>28, <2>1, <2>2, <2>3, <2>4 DEF PartsLast, AssembleCommit
<1>29. ASSUME NEW r \in Runs, AssembleRefused(r)
      PROVE OutputInv'
  BY <1>29 DEF AssembleRefused, AssembleAt, Assembling
<1>30. ASSUME NEW r \in Runs, AssembleNotify(r)
      PROVE OutputInv'
  BY <1>30 DEF AssembleNotify, AssembleAt, Assembling
<1>31. ASSUME NEW r \in Runs, AssembleAck(r)
      PROVE OutputInv'
  BY <1>31 DEF AssembleAck, AssembleAt, Assembling
<1>32. ASSUME NEW r \in Runs, AssembleLost(r)
      PROVE OutputInv'
  BY <1>32 DEF AssembleLost, AssembleAt, Assembling, Spend, Kinds
<1>33. ASSUME NEW r \in Runs, AssembleError(r)
      PROVE OutputInv'
  BY <1>33 DEF AssembleError, AssembleAt, Assembling, Spend, Kinds
<1>34. CASE UNCHANGED vars
  BY <1>34 DEF vars
<1>. QED
  BY <1>1, <1>2, <1>3, <1>4, <1>5, <1>6, <1>7, <1>8, <1>9, <1>10, <1>11,
     <1>12, <1>13, <1>14, <1>15, <1>16, <1>17, <1>18, <1>19, <1>20, <1>21,
     <1>22, <1>23, <1>24, <1>25, <1>26, <1>27, <1>28, <1>29, <1>30, <1>31,
     <1>32, <1>33, <1>34
  DEF Next, CrawlStep, CrawlDisturbed, FetchStep, FetchDisturbed, AssembleStep

\* The commit of a verdict finds the job not final, and makes it final.
LEMMA FinalStep ==
  OneRun' /\ TypeOK /\ PoisonInv /\ OnceInv /\ OutputInv /\ FinalInv /\
  [Next]_vars => FinalInv'
<1> SUFFICES ASSUME OneRun', TypeOK, PoisonInv, OnceInv, OutputInv,
                    FinalInv, [Next]_vars
             PROVE  FinalInv'
  OBVIOUS
<1> USE ConfigAssumption DEF TypeOK, OnceInv, Unpublished, Ended, FinalInv,
                             pipeline, outside, job, tables,
        targets, store, fetching, CrawlBody, AssembleBody
<1>1. CASE CrawlReceive
  BY <1>1 DEF CrawlReceive, CrawlAt, Crawling
<1>2. CASE StartRun
  BY <1>2 DEF StartRun, Plan, CrawlAt, Crawling, PoisonInv
<1>3. CASE ResumeRun
  BY <1>3, NoResume
<1>4. CASE ParkPoisonPill
  BY <1>4 DEF ParkPoisonPill, BumpLost, CrawlAt, Crawling, PoisonInv,
     TerminalStates
<1>5. CASE PublishChord
  BY <1>5 DEF PublishChord, Enqueue, CrawlAt, Crawling
<1>6. CASE PublishAssemble
  BY <1>6 DEF PublishAssemble, AssembleAt, Assembling, CrawlAt, Crawling
<1>7. CASE CrawlAck
  BY <1>7 DEF CrawlAck, CrawlAt, Crawling
<1>8. CASE CrawlLost
  BY <1>8 DEF CrawlLost, Redelivered, Spend, Kinds, CrawlAt, Crawling
<1>9. CASE CrawlLostPublishing
  BY <1>9 DEF CrawlLostPublishing, Enqueue, Redelivered, Spend, Kinds,
     CrawlAt, Crawling
<1>10. CASE CrawlError
  BY <1>10 DEF CrawlError, Spend, Kinds, CrawlAt, Crawling
<1>11. CASE CrawlRevoked
  BY <1>11 DEF CrawlRevoked, CrawlAt, Crawling
<1>12. CASE CancelRead
  BY <1>12 DEF CancelRead, Spend, Kinds
<1>13. CASE CancelCommit
  BY <1>13 DEF CancelCommit, TerminalStates
<1>14. ASSUME NEW r \in Runs, NEW p \in Pages, FetchReceive(r, p)
      PROVE FinalInv'
  BY <1>14 DEF FetchReceive, Step
<1>15. ASSUME NEW r \in Runs, NEW p \in Pages, FetchStore(r, p)
      PROVE FinalInv'
  BY <1>15 DEF FetchStore, Step, Upload
<1>16. ASSUME NEW r \in Runs, NEW p \in Pages, FetchRecord(r, p)
      PROVE FinalInv'
  BY <1>16 DEF FetchRecord, Step, RecordPage, RecordPageAgain
<1>17. ASSUME NEW r \in Runs, NEW p \in Pages, FetchGiveUp(r, p)
      PROVE FinalInv'
  BY <1>17 DEF FetchGiveUp, Step, RecordFailure
<1>18. ASSUME NEW r \in Runs, NEW p \in Pages, FetchRetry(r, p)
      PROVE FinalInv'
  BY <1>18 DEF FetchRetry, Step, MayRetry
<1>19. ASSUME NEW r \in Runs, NEW p \in Pages, FetchReport(r, p)
      PROVE FinalInv'
  <2>1. \/ asm' = asm
        \/ asm' = [asm EXCEPT ![r] = AssembleAt("queued")]
    BY <1>19 DEF FetchReport
  <2>2. \A s \in Runs : asm'[s] = asm[s] \/ asm'[s].pc = "queued"
    BY <2>1 DEF AssembleAt, Assembling
  <2>3. UNCHANGED <<state, attempts, key, output, callbacks, cancel, spent>>
    BY <1>19 DEF FetchReport
  <2>4. \A s \in Runs :
          asm'[s].pc \in {"committed", "read"} => asm'[s] = asm[s]
    BY <2>2
  <2>. QED
    BY <2>3, <2>4
<1>20. ASSUME NEW r \in Runs, NEW p \in Pages, FetchAck(r, p)
      PROVE FinalInv'
  BY <1>20 DEF FetchAck, Step
<1>21. ASSUME NEW r \in Runs, NEW p \in Pages, FetchTimeLimit(r, p)
      PROVE FinalInv'
  BY <1>21 DEF FetchTimeLimit, Step, Spend, Kinds, RecordFailure
<1>22. ASSUME NEW r \in Runs, NEW p \in Pages, FetchError(r, p)
      PROVE FinalInv'
  BY <1>22 DEF FetchError, Step, Spend, Kinds
<1>23. ASSUME NEW r \in Runs, NEW p \in Pages, FetchLost(r, p)
      PROVE FinalInv'
  BY <1>23 DEF FetchLost, Step, Spend, Kinds
<1>24. ASSUME NEW r \in Runs, AssembleReceive(r)
      PROVE FinalInv'
  BY <1>24 DEF AssembleReceive, AssembleAt, Assembling
<1>25. ASSUME NEW r \in Runs, AssembleSnapshot(r)
      PROVE FinalInv'
  BY <1>25 DEF AssembleSnapshot, AssembleAt, Assembling, Emitted, Verdict
<1>26. ASSUME NEW r \in Runs, AssembleUpload(r)
      PROVE FinalInv'
  BY <1>26 DEF AssembleUpload
<1>27. ASSUME NEW r \in Runs, AssembleRead(r)
      PROVE FinalInv'
  BY <1>27 DEF AssembleRead, AssembleAt, Assembling
<1>28. ASSUME NEW r \in Runs, AssembleCommit(r)
      PROVE FinalInv'
  <2>1. r = 1 /\ attempts # 0 /\ asm[r].pc = "read"
    BY <1>28 DEF AssembleCommit
  <2>2. asm[r].saw \notin TerminalStates
    BY <1>28 DEF AssembleCommit, CanTransition, Transitions, JobState,
                 TerminalStates
  <2>3. ~key /\ callbacks = 0
    BY <2>1, <2>2
  <2>4. /\ state' = asm[r].verdict /\ key'
        /\ UNCHANGED <<attempts, callbacks, output, cancel, spent>>
    BY <1>28 DEF AssembleCommit
  <2>5. state' \in TerminalStates
    BY <2>1, <2>4 DEF PoisonInv, TerminalStates
  <2>a. \A s \in Runs : s # r => asm[s].pc = "none"
    BY <2>1
  <2>6. \A s \in Runs : asm'[s].pc # "read"
    BY <2>a, <1>28, <2>1 DEF AssembleCommit, AfterCommit, AssembleAt, Assembling
  <2>7. output.uploaded
    BY <2>1 DEF OutputInv
  <2>. QED
    BY <2>1, <2>3, <2>4, <2>5, <2>6, <2>7
<1>29. ASSUME NEW r \in Runs, AssembleRefused(r)
      PROVE FinalInv'
  BY <1>29 DEF AssembleRefused, AssembleAt, Assembling
<1>30. ASSUME NEW r \in Runs, AssembleNotify(r)
      PROVE FinalInv'
  <2>1. r = 1 /\ key /\ callbacks = 0
    BY <1>30 DEF AssembleNotify
  <2>a. \A s \in Runs : s # r => asm[s].pc = "none"
    BY <2>1
  <2>2. \A s \in Runs : asm'[s].pc \notin {"committed", "read"}
    <3>1. asm' = [asm EXCEPT ![r] = AssembleAt("done")]
      BY <1>30 DEF AssembleNotify
    <3>2. AssembleAt("done").pc = "done"
      BY DEF AssembleAt, Assembling
    <3>3. asm'[r].pc = "done"
      BY <3>1, <3>2
    <3>4. \A s \in Runs : s # r => asm'[s].pc = "none"
      BY <2>a, <3>1
    <3>. QED
      BY <3>3, <3>4
  <2>3. /\ callbacks' = 1
        /\ UNCHANGED <<state, attempts, key, output, cancel, spent>>
    BY <1>30, <2>1 DEF AssembleNotify
  <2>. QED
    BY <2>1, <2>2, <2>3
<1>31. ASSUME NEW r \in Runs, AssembleAck(r)
      PROVE FinalInv'
  BY <1>31 DEF AssembleAck, AssembleAt, Assembling
<1>32. ASSUME NEW r \in Runs, AssembleLost(r)
      PROVE FinalInv'
  BY <1>32 DEF AssembleLost, AssembleAt, Assembling, Spend, Kinds
<1>33. ASSUME NEW r \in Runs, AssembleError(r)
      PROVE FinalInv'
  BY <1>33 DEF AssembleError, AssembleAt, Assembling, Spend, Kinds
<1>34. CASE UNCHANGED vars
  BY <1>34 DEF vars
<1>. QED
  BY <1>1, <1>2, <1>3, <1>4, <1>5, <1>6, <1>7, <1>8, <1>9, <1>10, <1>11,
     <1>12, <1>13, <1>14, <1>15, <1>16, <1>17, <1>18, <1>19, <1>20, <1>21,
     <1>22, <1>23, <1>24, <1>25, <1>26, <1>27, <1>28, <1>29, <1>30, <1>31,
     <1>32, <1>33, <1>34
  DEF Next, CrawlStep, CrawlDisturbed, FetchStep, FetchDisturbed, AssembleStep

\* Only the first commit of the assembly decides, and later uploads write the
\* same.
LEMMA VerdictStep ==
  OneRun' /\ ~Incremental /\ TypeOK /\ PoisonInv /\ OnceInv /\ EmittedInv /\
  OutputInv /\ FinalInv /\ [Next]_vars => VerdictLasts
<1> SUFFICES ASSUME OneRun', ~Incremental, TypeOK, PoisonInv, OnceInv,
                    EmittedInv, OutputInv, FinalInv, [Next]_vars
             PROVE  VerdictLasts
  OBVIOUS
<1> USE ConfigAssumption DEF TypeOK, VerdictLasts, pipeline, outside, job,
                             tables,
        targets, store, fetching, CrawlBody, AssembleBody
<1>0. spent["cancel"] \in Nat /\ spent["crawl"] \in Nat
  BY DEF Kinds
<1> USE <1>0
<1>1. CASE CrawlReceive
  BY <1>1 DEF CrawlReceive, CrawlAt, Crawling
<1>2. CASE StartRun
  <2>1. attempts = 0
    BY <1>2 DEF StartRun, PoisonInv
  <2>2. spent["cancel"] = 0 => state = "PENDING"
    BY <2>1 DEF FinalInv
  <2>3. UNCHANGED <<spent, key, output, asm>>
    BY <1>2 DEF StartRun, Plan
  <2>. QED
    BY <2>2, <2>3 DEF TerminalStates
<1>3. CASE ResumeRun
  BY <1>3, NoResume
<1>4. CASE ParkPoisonPill
  <2>1. spent["crawl"] # 0
    BY <1>4 DEF ParkPoisonPill, PoisonInv, OnceInv
  <2>2. UNCHANGED <<spent, key, output, asm>>
    BY <1>4 DEF ParkPoisonPill
  <2>. QED
    BY <2>1, <2>2
<1>5. CASE PublishChord
  BY <1>5 DEF PublishChord, Enqueue, CrawlAt, Crawling
<1>6. CASE PublishAssemble
  BY <1>6 DEF PublishAssemble, AssembleAt, Assembling, CrawlAt, Crawling
<1>7. CASE CrawlAck
  BY <1>7 DEF CrawlAck, CrawlAt, Crawling
<1>8. CASE CrawlLost
  BY <1>8 DEF CrawlLost, Redelivered, Spend, Kinds, CrawlAt, Crawling
<1>9. CASE CrawlLostPublishing
  BY <1>9 DEF CrawlLostPublishing, Enqueue, Redelivered, Spend, Kinds,
     CrawlAt, Crawling
<1>10. CASE CrawlError
  BY <1>10 DEF CrawlError, Spend, Kinds, CrawlAt, Crawling
<1>11. CASE CrawlRevoked
  BY <1>11 DEF CrawlRevoked, CrawlAt, Crawling
<1>12. CASE CancelRead
  BY <1>12 DEF CancelRead, Spend, Kinds
<1>13. CASE CancelCommit
  <2>1. spent["cancel"] # 0
    BY <1>13 DEF CancelCommit, FinalInv
  <2>2. UNCHANGED <<spent, key, output, asm>>
    BY <1>13 DEF CancelCommit
  <2>. QED
    BY <2>1, <2>2
<1>14. ASSUME NEW r \in Runs, NEW p \in Pages, FetchReceive(r, p)
      PROVE VerdictLasts
  BY <1>14 DEF FetchReceive, Step
<1>15. ASSUME NEW r \in Runs, NEW p \in Pages, FetchStore(r, p)
      PROVE VerdictLasts
  BY <1>15 DEF FetchStore, Step, Upload
<1>16. ASSUME NEW r \in Runs, NEW p \in Pages, FetchRecord(r, p)
      PROVE VerdictLasts
  BY <1>16 DEF FetchRecord, Step, RecordPage, RecordPageAgain
<1>17. ASSUME NEW r \in Runs, NEW p \in Pages, FetchGiveUp(r, p)
      PROVE VerdictLasts
  BY <1>17 DEF FetchGiveUp, Step, RecordFailure
<1>18. ASSUME NEW r \in Runs, NEW p \in Pages, FetchRetry(r, p)
      PROVE VerdictLasts
  BY <1>18 DEF FetchRetry, Step, MayRetry
<1>19. ASSUME NEW r \in Runs, NEW p \in Pages, FetchReport(r, p)
      PROVE VerdictLasts
  <2>1. \/ asm' = asm
        \/ asm' = [asm EXCEPT ![r] = AssembleAt("queued")]
    BY <1>19 DEF FetchReport
  <2>2. \A s \in Runs : asm'[s] = asm[s] \/ asm'[s].pc = "queued"
    BY <2>1 DEF AssembleAt, Assembling
  <2>3. UNCHANGED <<spent, key, output, state>>
    BY <1>19 DEF FetchReport
  <2>. QED
    BY <2>2, <2>3
<1>20. ASSUME NEW r \in Runs, NEW p \in Pages, FetchAck(r, p)
      PROVE VerdictLasts
  BY <1>20 DEF FetchAck, Step
<1>21. ASSUME NEW r \in Runs, NEW p \in Pages, FetchTimeLimit(r, p)
      PROVE VerdictLasts
  BY <1>21 DEF FetchTimeLimit, Step, Spend, Kinds, RecordFailure
<1>22. ASSUME NEW r \in Runs, NEW p \in Pages, FetchError(r, p)
      PROVE VerdictLasts
  BY <1>22 DEF FetchError, Step, Spend, Kinds
<1>23. ASSUME NEW r \in Runs, NEW p \in Pages, FetchLost(r, p)
      PROVE VerdictLasts
  BY <1>23 DEF FetchLost, Step, Spend, Kinds
<1>24. ASSUME NEW r \in Runs, AssembleReceive(r)
      PROVE VerdictLasts
  BY <1>24 DEF AssembleReceive, AssembleAt, Assembling
<1>25. ASSUME NEW r \in Runs, AssembleSnapshot(r)
      PROVE VerdictLasts
  BY <1>25 DEF AssembleSnapshot, AssembleAt, Assembling, Emitted, Verdict
<1>26. ASSUME NEW r \in Runs, AssembleUpload(r)
      PROVE VerdictLasts
  <2>1. r = 1 /\ asm[r].emitted = Loaded(1)
    BY <1>26 DEF AssembleUpload, EmittedInv, OnceInv, Unpublished
  <2>2. key => output = [uploaded |-> TRUE, pages |-> Loaded(1)]
    BY DEF FinalInv, OutputInv
  <2>3. /\ output' = [uploaded |-> TRUE, pages |-> asm[r].emitted]
        /\ UNCHANGED <<spent, key, state>>
        /\ asm' = [asm EXCEPT ![r].pc = "uploaded"]
    BY <1>26 DEF AssembleUpload
  <2>. QED
    BY <2>1, <2>2, <2>3
<1>27. ASSUME NEW r \in Runs, AssembleRead(r)
      PROVE VerdictLasts
  BY <1>27 DEF AssembleRead, AssembleAt, Assembling
<1>28. ASSUME NEW r \in Runs, AssembleCommit(r)
      PROVE VerdictLasts
  <2>1. /\ state' = asm[r].verdict /\ key' /\ asm[r].pc = "read"
        /\ UNCHANGED <<spent, output>>
        /\ asm' = [asm EXCEPT ![r] = AssembleAt(AfterCommit)]
    BY <1>28 DEF AssembleCommit
  <2>2. asm[r].saw \notin TerminalStates
    BY <1>28 DEF AssembleCommit, CanTransition, Transitions, JobState,
                 TerminalStates
  <2>3. spent["cancel"] = 0 /\ spent["crawl"] = 0 => state \notin TerminalStates
    BY <2>1, <2>2 DEF FinalInv
  <2>4. output.pages = asm[r].emitted
    BY <2>1 DEF OutputInv, EmittedInv, OnceInv, Unpublished
  <2>. QED
    BY <2>1, <2>3, <2>4
<1>29. ASSUME NEW r \in Runs, AssembleRefused(r)
      PROVE VerdictLasts
  BY <1>29 DEF AssembleRefused, AssembleAt, Assembling
<1>30. ASSUME NEW r \in Runs, AssembleNotify(r)
      PROVE VerdictLasts
  BY <1>30 DEF AssembleNotify, AssembleAt, Assembling
<1>31. ASSUME NEW r \in Runs, AssembleAck(r)
      PROVE VerdictLasts
  BY <1>31 DEF AssembleAck, AssembleAt, Assembling
<1>32. ASSUME NEW r \in Runs, AssembleLost(r)
      PROVE VerdictLasts
  BY <1>32 DEF AssembleLost, AssembleAt, Assembling, Spend, Kinds
<1>33. ASSUME NEW r \in Runs, AssembleError(r)
      PROVE VerdictLasts
  BY <1>33 DEF AssembleError, AssembleAt, Assembling, Spend, Kinds
<1>34. CASE UNCHANGED vars
  BY <1>34 DEF vars
<1>. QED
  BY <1>1, <1>2, <1>3, <1>4, <1>5, <1>6, <1>7, <1>8, <1>9, <1>10, <1>11,
     <1>12, <1>13, <1>14, <1>15, <1>16, <1>17, <1>18, <1>19, <1>20, <1>21,
     <1>22, <1>23, <1>24, <1>25, <1>26, <1>27, <1>28, <1>29, <1>30, <1>31,
     <1>32, <1>33, <1>34
  DEF Next, CrawlStep, CrawlDisturbed, FetchStep, FetchDisturbed, AssembleStep

-----------------------------------------------------------------------------
(* Theorems *)

OInv ==
  OnceInv /\ EmittedInv /\ SkippedInv /\ OutputInv /\ FinalInv

\* They hold of a submitted job, of which nothing is published.
LEMMA InitOnce == Init => OInv
<1> SUFFICES ASSUME Init PROVE OInv
  OBVIOUS
<1> USE ConfigAssumption DEF Init, AssembleAt, Assembling, CrawlAt, Crawling
<1>1. OnceInv
  BY DEF OnceInv, Unpublished, Kinds
<1>2. EmittedInv /\ SkippedInv
  BY DEF EmittedInv, SkippedInv
<1>3. OutputInv /\ FinalInv
  BY DEF OutputInv, FinalInv, Kinds
<1>. QED
  BY <1>1, <1>2, <1>3 DEF OInv

\* As long as the job has been planned once, the conjunction is inductive, next
\* to those of CrawlPipelineProofs.
LEMMA OnceInductive ==
  ASSUME ~Incremental
  PROVE  Spec => [](IInv /\ (OneRun => OInv))
<1>1. IInv /\ IInv' /\ AccountInv /\ (OneRun => OInv) /\ [Next]_vars
        => (OneRun => OInv)'
  <2> SUFFICES ASSUME IInv, IInv', AccountInv, OneRun => OInv, [Next]_vars,
                      OneRun'
               PROVE  OInv'
    OBVIOUS
  <2>1. TypeOK /\ TypeOK' /\ PoisonInv /\ FailedPartInv /\ ChordInv
    BY DEF IInv, AccountInv
  <2>2. Moved /\ OInv
    <3>1. Moved
      BY <2>1, Moves
    <3>. QED
      BY <2>1, <3>1 DEF Moved, RowMoves, OneRun, TypeOK
  <2>3. OnceInv' /\ PartsLast
    BY <2>1, <2>2, OnceStep DEF OInv, Moved
  <2>4. EmittedInv' /\ SkippedInv'
    BY <2>1, <2>2, <2>3, EmittedStep, SkippedStep DEF OInv
  <2>5. OutputInv' /\ FinalInv'
    BY <2>1, <2>2, <2>3, OutputStep, FinalStep DEF OInv
  <2>. QED
    BY <2>3, <2>4, <2>5 DEF OInv
<1>. QED
  BY <1>1, InitOnce, AccountInductive, PTL DEF Spec

\* Only a planning counts as a run.
LEMMA RunsPlanned ==
  [Next]_vars => attempts' = attempts \/ StartRun \/ ResumeRun
<1> SUFFICES ASSUME [Next]_vars
             PROVE  attempts' = attempts \/ StartRun \/ ResumeRun
  OBVIOUS
<1> USE DEF tables, job
<1>1. CASE CrawlStep
  BY <1>1 DEF CrawlStep, CrawlReceive, ParkPoisonPill, PublishChord,
              PublishAssemble, CrawlAck
<1>2. CASE CrawlDisturbed
  BY <1>2 DEF CrawlDisturbed, CrawlLost, CrawlLostPublishing, CrawlError,
              CrawlRevoked
<1>3. ASSUME NEW r \in Runs, NEW p \in Pages,
             FetchStep(r, p) \/ FetchDisturbed(r, p)
      PROVE  attempts' = attempts
  BY <1>3 DEF FetchStep, FetchReceive, FetchStore, FetchRecord, FetchGiveUp,
              FetchRetry, FetchReport, FetchAck, FetchDisturbed,
              FetchTimeLimit, FetchError, FetchLost
<1>4. ASSUME NEW r \in Runs, AssembleStep(r) \/ AssembleLost(r)
                               \/ AssembleError(r)
      PROVE  attempts' = attempts
  BY <1>4 DEF AssembleStep, AssembleReceive, AssembleSnapshot, AssembleUpload,
              AssembleRead, AssembleCommit, AssembleRefused, AssembleNotify,
              AssembleAck, AssembleLost, AssembleError
<1>5. CASE CancelRead \/ CancelCommit
  BY <1>5 DEF CancelRead, CancelCommit
<1>6. CASE UNCHANGED vars
  BY <1>6 DEF vars
<1>. QED
  BY <1>1, <1>2, <1>3, <1>4, <1>5, <1>6 DEF Next

\* Where no worker may die with crawl_job, or one death parks the job, the
\* first run stays the only one.
LEMMA OneRunOnly ==
  ASSUME SingleRun, ~Incremental
  PROVE  Spec => []OneRun
<1>1. Init => OneRun
  BY DEF Init, OneRun
<1>2. IInv /\ (OneRun => OInv) /\ OneRun /\ [Next]_vars => OneRun'
  <2> SUFFICES ASSUME TypeOK, PoisonInv, OnceInv, OneRun, [Next]_vars
               PROVE  OneRun'
    BY DEF IInv, OInv
  <2>1. ~ResumeRun
    <3> SUFFICES ASSUME ResumeRun PROVE FALSE
      OBVIOUS
    <3>1. CASE PoisonThreshold = 1
      BY <3>1 DEF ResumeRun, TypeOK
    <3>2. CASE CrawlLosses = 0
      <4>1. spent["crawl"] = 0
        BY <3>2 DEF TypeOK, OnceInv, Kinds
      <4>. QED
        BY <4>1 DEF ResumeRun, PoisonInv, OnceInv
    <3>. QED
      BY <3>1, <3>2 DEF SingleRun
  <2>2. StartRun => attempts' = 1
    BY DEF StartRun, Plan, PoisonInv
  <2>. QED
    BY <2>1, <2>2, RunsPlanned DEF OneRun
<1>. QED
  BY <1>1, <1>2, OnceInductive, PTL DEF Spec

\* SUCCEEDED means every page, for any number of pages, and however often page
\* tasks and the assembly fail, die and are delivered again, and wherever a
\* cancel comes in, until the job is planned a second time (states.py:18).
THEOREM SucceededMeansAll ==
  ASSUME ~Incremental
  PROVE  Spec => [](OneRun => SucceededComplete)
<1>1. (OneRun => OInv) => (OneRun => SucceededComplete)
  BY DEF OInv, OutputInv, SucceededComplete
<1>. QED
  BY <1>1, OnceInductive, PTL

\* Where it is never planned again that holds throughout, as the run Crawled
\* checks.
COROLLARY SucceededAlwaysMeansAll ==
  ASSUME SingleRun, ~Incremental
  PROVE  Spec => []SucceededComplete
BY SucceededMeansAll, OneRunOnly, PTL

\* A final state without cancel and death is not written over, and the file of
\* a finished job is not changed by a later delivery.
FinishedStep ==
  /\ (state \in TerminalStates /\ spent["cancel"] = 0 /\ spent["crawl"] = 0)
       => UNCHANGED state
  /\ key => UNCHANGED output

\* This is so until the job is planned a second time (repo.transition,
\* finalise_job).
THEOREM FinishedUntilResumed ==
  ASSUME ~Incremental
  PROVE  Spec => [][OneRun' => FinishedStep]_vars
<1>1. IInv /\ IInv' /\ (OneRun => OInv) /\ AccountInv /\ [Next]_vars
        => [OneRun' => FinishedStep]_vars
  <2> SUFFICES ASSUME IInv, IInv', OneRun => OInv, AccountInv, [Next]_vars,
                      OneRun'
               PROVE  FinishedStep
    OBVIOUS
  <2>1. TypeOK /\ TypeOK' /\ PoisonInv /\ ChordInv
    BY DEF IInv, AccountInv
  <2>2. Moved
    BY <2>1, Moves
  <2>3. OInv
    BY <2>1, <2>2 DEF Moved, RowMoves, OneRun, TypeOK
  <2>. QED
    BY <2>1, <2>3, VerdictStep DEF OInv, VerdictLasts, FinishedStep
<1>. QED
  BY <1>1, OnceInductive, AccountInductive, PTL DEF Spec

\* Where it is never planned again it is so throughout, as the run Crawled
\* checks.
COROLLARY FinishedForGood ==
  ASSUME SingleRun, ~Incremental
  PROVE  Spec => FinishedStays
<1>1. OneRun' /\ [OneRun' => FinishedStep]_vars =>
        [/\ (/\ state \in TerminalStates
             /\ spent["cancel"] = 0 /\ spent["crawl"] = 0)
              => UNCHANGED state
         /\ key => UNCHANGED output]_vars
  BY DEF FinishedStep
<1>. QED
  BY <1>1, FinishedUntilResumed, OneRunOnly, PTL DEF FinishedStays

-----------------------------------------------------------------------------
(* The caller *)

\* A step of the caller's system is one of the job or leaves it alone, so what
\* was shown of the job holds here.
LEMMA CallerImplements == CallerSpec => Spec
<1>1. CallerInit => Init
  BY DEF CallerInit
<1>2. [CallerNext]_callerVars => [Next]_vars
  BY DEF CallerNext, callerVars, JobStep, Post, PostFails, PostLost
<1>. QED
  BY <1>1, <1>2, PTL DEF CallerSpec, Spec

\* A callback task keeps its body while it is posted.
LEMMA HookMoved ==
  ASSUME NEW i \in DOMAIN hooks, CallerTypeOK, NEW hook \in Hook,
         hook.body = hooks[i].body, hooks' = [hooks EXCEPT ![i] = hook]
  PROVE  /\ hooks' \in Seq(Hook) /\ Len(hooks') = Len(hooks)
         /\ \A j \in DOMAIN hooks' :
              j \in DOMAIN hooks /\ hooks'[j].body = hooks[j].body
<1>1. hooks \in Seq(Hook) /\ i \in 1 .. Len(hooks)
  BY DEF CallerTypeOK
<1>2. /\ hooks' \in Seq(Hook) /\ Len(hooks') = Len(hooks)
      /\ \A j \in 1 .. Len(hooks) : hooks'[j] = IF j = i THEN hook ELSE hooks[j]
  BY <1>1, ExceptSeq
<1>. QED
  BY <1>1, <1>2

\* A post leaves the job alone, delivers its body or not, and keeps its task.
LEMMA PostEffect ==
  ASSUME CallerTypeOK, NEW i \in DOMAIN hooks,
         Post(i) \/ PostFails(i) \/ PostLost(i)
  PROVE  /\ UNCHANGED <<vars, counter, says>>
         /\ arrivals' \subseteq arrivals \union {hooks[i].body}
         /\ hooks' \in Seq(Hook) /\ Len(hooks') = Len(hooks)
         /\ \A j \in DOMAIN hooks' :
              j \in DOMAIN hooks /\ hooks'[j].body = hooks[j].body
<1>1. /\ UNCHANGED <<vars, counter, says>>
      /\ arrivals' \subseteq arrivals \union {hooks[i].body}
  BY DEF Post, PostFails, PostLost
<1>2. hooks[i] \in Hook
  BY DEF CallerTypeOK
<1> DEFINE Kept ==
      /\ hooks' \in Seq(Hook) /\ Len(hooks') = Len(hooks)
      /\ \A j \in DOMAIN hooks' :
           j \in DOMAIN hooks /\ hooks'[j].body = hooks[j].body
<1>3. ASSUME hooks' = hooks PROVE Kept
  BY <1>3 DEF CallerTypeOK
<1>4. ASSUME hooks' = [hooks EXCEPT ![i].at = "done"] PROVE Kept
  <2>1. [hooks[i] EXCEPT !.at = "done"] \in Hook
    BY <1>2 DEF Hook
  <2>2. [hooks[i] EXCEPT !.at = "done"].body = hooks[i].body
    BY <1>2 DEF Hook
  <2>3. hooks' = [hooks EXCEPT ![i] = [hooks[i] EXCEPT !.at = "done"]]
    BY <1>4
  <2>. QED
    BY <2>1, <2>2, <2>3, HookMoved
<1>5. ASSUME hooks[i].tries < HookRetries,
             hooks' = [hooks EXCEPT ![i].tries = @ + 1]
      PROVE  Kept
  <2>1. [hooks[i] EXCEPT !.tries = @ + 1] \in Hook
    BY <1>2, <1>5, HookAssumption DEF Hook
  <2>2. [hooks[i] EXCEPT !.tries = @ + 1].body = hooks[i].body
    BY <1>2 DEF Hook
  <2>3. hooks' = [hooks EXCEPT ![i] = [hooks[i] EXCEPT !.tries = @ + 1]]
    BY <1>5
  <2>. QED
    BY <2>1, <2>2, <2>3, HookMoved
<1>6. \/ hooks' = hooks
      \/ hooks' = [hooks EXCEPT ![i].at = "done"]
      \/ /\ hooks[i].tries < HookRetries
         /\ hooks' = [hooks EXCEPT ![i].tries = @ + 1]
  BY DEF Post, PostFails, PostLost
<1>. QED
  BY <1>1, <1>3, <1>4, <1>5, <1>6

\* A step of the job appends the callback of the run that notifies, if any.
LEMMA HooksGrow ==
  ASSUME CallerTypeOK, JobStep
  PROVE  /\ hooks' \in Seq(Hook) /\ Len(hooks') = callbacks'
         /\ \A j \in DOMAIN hooks' :
              \/ j \in DOMAIN hooks /\ hooks'[j] = hooks[j]
              \/ \E r \in Runs :
                    asm[r].pc = "committed" /\ hooks'[j].body = says[r]
<1>1. CASE callbacks' = callbacks /\ UNCHANGED hooks
  BY <1>1 DEF CallerTypeOK
<1>2. ASSUME NEW r \in Runs, AssembleNotify(r),
             hooks' = Append(hooks, [at |-> "queued", tries |-> 0,
                                    body |-> says[r]])
      PROVE  /\ hooks' \in Seq(Hook) /\ Len(hooks') = callbacks'
             /\ \A j \in DOMAIN hooks' :
                  \/ j \in DOMAIN hooks /\ hooks'[j] = hooks[j]
                  \/ asm[r].pc = "committed" /\ hooks'[j].body = says[r]
  <2> DEFINE hook == [at |-> "queued", tries |-> 0, body |-> says[r]]
  <2>1. hook \in Hook /\ hook.body = says[r]
    BY HookAssumption DEF CallerTypeOK, Hook
  <2>2. /\ hooks \in Seq(Hook) /\ Len(hooks) = callbacks
        /\ hooks' = Append(hooks, hook)
    BY <1>2 DEF CallerTypeOK
  <2>3. asm[r].pc = "committed" /\ callbacks' = callbacks + 1
    BY <1>2 DEF AssembleNotify
  <2> HIDE DEF hook
  <2>4. /\ hooks' \in Seq(Hook) /\ Len(hooks') = Len(hooks) + 1
        /\ \A j \in 1 .. Len(hooks') :
             hooks'[j] = IF j <= Len(hooks) THEN hooks[j] ELSE hook
    BY <2>1, <2>2, AppendProperties
  <2>. QED
    BY <2>1, <2>2, <2>3, <2>4
<1>. QED
  BY <1>1, <1>2 DEF JobStep

\* jobs.pages_done only grows, and it goes on to count the rows of job_pages.
LEMMA PagesCounted ==
  ASSUME TypeOK, TypeOK', CheckpointInv, [Next]_vars
  PROVE  /\ pagesDone <= pagesDone'
         /\ pagesDone = Cardinality(pages) => pagesDone' = Cardinality(pages')
<1>1. pagesDone \in Nat /\ IsFiniteSet(pages)
  BY ConfigAssumption, FS_Subset DEF TypeOK
<1>2. [Ledger!LedgerNext]_<<objects, pages, pagesDone>>
  BY LedgerStep
<1>3. CASE UNCHANGED <<pages, pagesDone>>
  BY <1>1, <1>3
<1>4. ASSUME NEW p \in Pages, Ledger!Enter(p)
      PROVE  /\ pagesDone <= pagesDone'
             /\ pagesDone = Cardinality(pages) =>
                  pagesDone' = Cardinality(pages')
  <2>1. Cardinality(pages \union {p}) = Cardinality(pages) + 1
    BY <1>1, <1>4, FS_AddElement DEF Ledger!Enter
  <2>. QED
    BY <1>1, <1>4, <2>1 DEF Ledger!Enter
<1>. QED
  BY <1>2, <1>3, <1>4 DEF Ledger!LedgerNext, Ledger!Store

\* jobs.rows is written by a commit and otherwise grows with pages_done.
LEMMA RowsCounted ==
  ASSUME CallerTypeOK, TypeOK', CheckpointInv, JobStep
  PROVE  /\ rows' \in Nat /\ met' \in [Runs -> Nat]
         /\ \/ \E r \in Runs :
                 /\ AssembleCommit(r) /\ UNCHANGED <<pages, pagesDone>>
                 /\ LET emitted == Cardinality(asm[r].emitted)
                    IN  rows' = IF emitted = met[r] THEN rows ELSE emitted
            \/ /\ ~ \E r \in Runs : AssembleCommit(r)
               /\ rows <= rows'
               /\ rows <= pagesDone => rows' <= pagesDone'
<1>1. /\ rows \in Nat /\ met \in [Runs -> Nat]
      /\ pagesDone \in Nat /\ pagesDone' \in Nat
  BY DEF CallerTypeOK, TypeOK
<1>2. pagesDone <= pagesDone'
  BY PagesCounted DEF CallerTypeOK, JobStep
<1>3. met' \in [Runs -> Nat]
  BY <1>1 DEF JobStep, CountRows
<1>4. ASSUME NEW r \in Runs, AssembleCommit(r)
      PROVE  /\ Cardinality(asm[r].emitted) \in Nat
             /\ UNCHANGED <<pages, pagesDone>>
  <2>1. IsFiniteSet(asm[r].emitted)
    BY ConfigAssumption, FS_Subset DEF CallerTypeOK, TypeOK, AssembleBody
  <2>. QED
    BY <1>4, <2>1, FS_CardinalityType DEF AssembleCommit
<1>5. CASE \E r \in Runs : AssembleCommit(r)
  <2>1. PICK r \in Runs :
          /\ AssembleCommit(r)
          /\ LET emitted == Cardinality(asm[r].emitted)
             IN  rows' = IF emitted = met[r] THEN rows ELSE emitted
    BY <1>5 DEF JobStep, CountRows
  <2>. QED
    BY <1>1, <1>3, <1>4, <2>1
<1>6. CASE ~ \E r \in Runs : AssembleCommit(r)
  <2>1. rows' = rows + (pagesDone' - pagesDone)
    BY <1>6 DEF JobStep, CountRows
  <2>2. /\ rows' \in Nat /\ rows <= rows'
        /\ rows <= pagesDone => rows' <= pagesDone'
    <3>1. \A n, k, m \in Nat : k <= m =>
            /\ n + (m - k) \in Nat /\ n <= n + (m - k)
            /\ n <= k => n + (m - k) <= m
      OBVIOUS
    <3>. QED
      BY <1>1, <1>2, <2>1, <3>1
  <2>. QED
    BY <1>3, <1>6, <2>2
<1>. QED
  BY <1>5, <1>6

\* Types of the caller's variables.
LEMMA CallerTypeStep ==
  ASSUME CallerTypeOK, TypeOK', CheckpointInv, CallerNext
  PROVE  CallerTypeOK'
<1>1. CASE JobStep
  <2>1. \A r \in Runs : Said(r) \in Payload
    BY DEF CallerTypeOK, TypeOK, AssembleBody, Said, Payload
  <2>2. NotSaid \in Payload
    BY DEF NotSaid, Payload, JobState
  <2>3. says' \in [Runs -> Payload]
    BY <1>1, <2>1, <2>2 DEF JobStep, KeepSaid, CallerTypeOK
  <2>4. arrivals' \subseteq Payload
    BY <1>1 DEF JobStep, CallerTypeOK
  <2>5. rows' \in Nat /\ met' \in [Runs -> Nat]
    BY <1>1, RowsCounted
  <2>. QED
    BY <1>1, <2>3, <2>4, <2>5, HooksGrow DEF CallerTypeOK
<1>2. ASSUME NEW i \in DOMAIN hooks, Post(i) \/ PostFails(i) \/ PostLost(i)
      PROVE  CallerTypeOK'
  <2>1. hooks[i].body \in Payload
    <3>1. hooks[i] \in Hook
      BY DEF CallerTypeOK
    <3>. QED
      BY <3>1 DEF Hook
  <2>2. /\ UNCHANGED <<counter, says, callbacks>>
        /\ arrivals' \subseteq arrivals \union {hooks[i].body}
        /\ hooks' \in Seq(Hook) /\ Len(hooks') = Len(hooks)
    BY <1>2, PostEffect DEF vars
  <2>. QED
    BY <2>1, <2>2 DEF CallerTypeOK, counter
<1>. QED
  BY <1>1, <1>2 DEF CallerNext

\* The caller's variables start with nothing said.
LEMMA InitCaller ==
  CallerInit => /\ CallerTypeOK /\ arrivals = {} /\ DOMAIN hooks = {}
                /\ rows = 0 /\ pagesDone = Cardinality(pages)
                /\ \A r \in Runs : asm[r].pc = "none"
<1> SUFFICES ASSUME CallerInit
             PROVE  /\ CallerTypeOK /\ arrivals = {} /\ DOMAIN hooks = {}
                    /\ rows = 0 /\ pagesDone = Cardinality(pages)
                    /\ \A r \in Runs : asm[r].pc = "none"
  OBVIOUS
<1>1. TypeOK /\ callbacks = 0
  BY InitType DEF CallerInit, Init
<1>2. \A r \in Runs : asm[r].pc = "none"
  BY DEF CallerInit, Init, AssembleAt, Assembling
<1>3. says \in [Runs -> Payload]
  BY DEF CallerInit, NotSaid, Payload, JobState
<1>4. /\ hooks = <<>> /\ arrivals = {}
      /\ rows = 0 /\ met = [r \in Runs |-> 0]
  BY DEF CallerInit
<1>5. hooks \in Seq(Hook) /\ Len(hooks) = 0 /\ DOMAIN hooks = {}
  BY <1>4
<1>6. rows \in Nat /\ met \in [Runs -> Nat]
  BY <1>4
<1>7. pagesDone = Cardinality(pages)
  BY FS_EmptySet DEF CallerInit, Init
<1>. QED
  BY <1>1, <1>2, <1>3, <1>4, <1>5, <1>6, <1>7 DEF CallerTypeOK

\* The types next to the invariants of the job, for any number of runs.
LEMMA CallerInductive == CallerSpec => [](CallerTypeOK /\ IInv /\ AccountInv)
<1>1. CallerTypeOK /\ IInv /\ IInv' /\ [CallerNext]_callerVars => CallerTypeOK'
  <2>1. CASE CallerNext
    BY <2>1, CallerTypeStep DEF IInv
  <2>2. CASE UNCHANGED callerVars
    BY <2>2 DEF callerVars, vars, counter, CallerTypeOK, IInv
  <2>. QED
    BY <2>1, <2>2
<1>2. CallerInit => CallerTypeOK
  BY InitCaller
<1>. QED
  BY <1>1, <1>2, CallerImplements, AccountInductive, PTL DEF CallerSpec

\* The callbacks and what they carry keep their types, one task to a
\* notification.
THEOREM CallerTypeCorrect == CallerSpec => []CallerTypeOK
BY CallerInductive, PTL

-----------------------------------------------------------------------------
(* What a caller is told, over any number of runs *)

\* The ledger stands behind what a callback says.
Backed(told) ==
  /\ key
  /\ told.state \in {"SUCCEEDED", "PARTIAL", "SUSPECT"}
  /\ told.pages \subseteq pages
  /\ pages \union failures = Pages
  /\ told.state = "SUCCEEDED" => pages = Pages
  /\ told.state = "PARTIAL" => failures # {}

\* So it is for what has arrived, what is on its way, and what an assembly that
\* has committed is going to send.
BackedInv ==
  /\ \A told \in arrivals : Backed(told)
  /\ \A i \in DOMAIN hooks : Backed(hooks[i].body)
  /\ \A r \in Runs : asm[r].pc = "committed" => Backed(says[r])

\* Pages and failures are never taken back.
LEMMA BackedStays ==
  ASSUME Moved, TypeOK', NEW told, Backed(told)
  PROVE  Backed(told)'
BY DEF Moved, RowMoves, TypeOK, Backed

\* What is said at a commit was decided from parts that are all in.
LEMMA BackedStep ==
  ASSUME IInv, AccountInv, TypeOK', CallerTypeOK, BackedInv, JobStep
  PROVE  BackedInv'
<1>1. Moved
  BY Moves DEF IInv, AccountInv, JobStep
<1>2. \A told \in arrivals' : Backed(told)'
  BY <1>1, BackedStays DEF BackedInv, JobStep
<1>3. ASSUME NEW j \in DOMAIN hooks' PROVE Backed(hooks[j].body)'
  <2>1. \/ j \in DOMAIN hooks /\ hooks'[j] = hooks[j]
        \/ \E r \in Runs : asm[r].pc = "committed" /\ hooks'[j].body = says[r]
    BY <1>3, HooksGrow
  <2>2. CASE j \in DOMAIN hooks /\ hooks'[j] = hooks[j]
    BY <1>1, <2>2, BackedStays DEF BackedInv, Backed
  <2>3. CASE \E r \in Runs : asm[r].pc = "committed" /\ hooks'[j].body = says[r]
    BY <1>1, <2>3, BackedStays DEF BackedInv, Backed
  <2>. QED
    BY <2>1, <2>2, <2>3
<1>4. ASSUME NEW r \in Runs, asm'[r].pc = "committed" PROVE Backed(says[r])'
  <2>1. says'[r] = IF asm[r].pc = "read" THEN Said(r) ELSE says[r]
    BY <1>4 DEF JobStep, KeepSaid
  <2>2. CASE asm'[r] = asm[r]
    BY <1>1, <1>4, <2>1, <2>2, BackedStays DEF BackedInv, Backed
  <2>3. CASE asm'[r] # asm[r]
    <3>1. AssembleCommit(r) /\ asm[r].pc = "read"
      BY <1>1, <1>4, <2>3 DEF Moved, AssemblyMoved
    <3>2. /\ asm[r].verdict \in {"SUCCEEDED", "PARTIAL", "SUSPECT"}
          /\ pages \union failures = Pages
          /\ asm[r].verdict = "SUCCEEDED" => pages = Pages
          /\ asm[r].verdict = "PARTIAL" => failures # {}
      BY <3>1, DecisionSafe DEF IInv, AccountInv
    <3>3. asm[r].emitted \subseteq pages
      BY DEF IInv, ResultInv
    <3>4. key' /\ UNCHANGED <<pages, failures>>
      BY <3>1 DEF AssembleCommit
    <3>. QED
      BY <2>1, <3>1, <3>2, <3>3, <3>4 DEF Said, Backed
  <2>. QED
    BY <2>2, <2>3
<1>. QED
  BY <1>2, <1>3, <1>4 DEF BackedInv

\* Whatever a receiver has got, and however late, the ledger stands behind it:
\* over any number of runs, deaths and cancels, with a diff or without, there is
\* a result, the pages it counted are recorded, and no page is unaccounted for
\* (finalise_job, webhooks.deliver_callback).
THEOREM ToldIsBacked == CallerSpec => [](\A told \in arrivals : Backed(told))
<1>1. CallerTypeOK /\ IInv /\ AccountInv /\ IInv' /\ BackedInv
        /\ [CallerNext]_callerVars => BackedInv'
  <2> SUFFICES ASSUME CallerTypeOK, IInv, AccountInv, IInv', BackedInv,
                      [CallerNext]_callerVars
               PROVE  BackedInv'
    OBVIOUS
  <2>1. CASE JobStep
    BY <2>1, BackedStep DEF IInv
  <2>2. ASSUME NEW i \in DOMAIN hooks, Post(i) \/ PostFails(i) \/ PostLost(i)
        PROVE  BackedInv'
    <3>1. /\ UNCHANGED <<key, pages, failures, asm, says>>
          /\ arrivals' \subseteq arrivals \union {hooks[i].body}
          /\ \A j \in DOMAIN hooks' :
               j \in DOMAIN hooks /\ hooks'[j].body = hooks[j].body
      BY <2>2, PostEffect DEF vars, tables, job
    <3>2. \A told : Backed(told)' <=> Backed(told)
      BY <3>1 DEF Backed
    <3>3. \A told \in arrivals' : Backed(told)'
      BY <3>1, <3>2 DEF BackedInv
    <3>4. \A j \in DOMAIN hooks' : Backed(hooks[j].body)'
      BY <3>1 DEF BackedInv, Backed
    <3>5. \A r \in Runs : asm'[r].pc = "committed" => Backed(says[r])'
      BY <3>1 DEF BackedInv, Backed
    <3>. QED
      BY <3>3, <3>4, <3>5 DEF BackedInv
  <2>3. CASE UNCHANGED callerVars
    BY <2>3 DEF callerVars, vars, tables, job, BackedInv, Backed
  <2>. QED
    BY <2>1, <2>2, <2>3 DEF CallerNext
<1>2. CallerInit => BackedInv
  BY InitCaller DEF BackedInv
<1>3. BackedInv => \A told \in arrivals : Backed(told)
  BY DEF BackedInv
<1>. QED
  BY <1>1, <1>2, <1>3, CallerInductive, PTL DEF CallerSpec

-----------------------------------------------------------------------------
(* What a caller is told, when the job is planned once *)

\* What a callback may say: the verdict that was committed, and its file, which
\* lacks failed pages only, and whose rows the job counts.
Holds(told) ==
  /\ key /\ told.pages = output.pages
  /\ Pages \ told.pages \subseteq failures
  /\ Cardinality(told.pages) <= rows
  /\ state = told.state \/ spent["cancel"] > 0 \/ spent["crawl"] > 0

\* The rows of a job are those of its recorded pages, or fewer once its pages
\* have been counted by a file; the row that an assembly has read can only have
\* grown since.
CountInv ==
  /\ pagesDone = Cardinality(pages)
  /\ rows <= pagesDone
  /\ \A r \in Runs : asm[r].pc = "read" => met[r] <= rows

\* It holds of what has arrived, of what is on its way, and of what an assembly
\* between its commit and its last step is going to send.
ToldInv ==
  /\ CallerTypeOK /\ CountInv
  /\ \A told \in arrivals : Holds(told)
  /\ \A i \in DOMAIN hooks : Holds(hooks[i].body)
  /\ \A r \in Runs : asm[r].pc = "committed" => Holds(says[r])

\* What a file has is recorded, so that the rows it has are rows of the job.
LEMMA EmittedCounted ==
  ASSUME TypeOK, ResultInv, CountInv, NEW r \in Runs
  PROVE  /\ Cardinality(asm[r].emitted) \in Nat
         /\ Cardinality(asm[r].emitted) <= pagesDone
<1>1. IsFiniteSet(pages) /\ asm[r].emitted \subseteq pages
  BY ConfigAssumption, FS_Subset DEF TypeOK, ResultInv
<1>. QED
  BY <1>1, FS_Subset, FS_CardinalityType DEF CountInv

\* The counts agree after every step of the job: only the one assembly writes
\* the number of rows, and no other has read it.
LEMMA CountStep ==
  ASSUME CallerTypeOK, TypeOK', CheckpointInv, ResultInv, CountInv, OnceInv,
         OnceInv', JobStep
  PROVE  CountInv'
<1>1. TypeOK /\ [Next]_vars
  BY DEF CallerTypeOK, JobStep
<1>2. pagesDone' = Cardinality(pages')
  BY <1>1, PagesCounted DEF CountInv
<1>3. /\ rows \in Nat /\ rows' \in Nat /\ met \in [Runs -> Nat]
      /\ pagesDone \in Nat /\ pagesDone' \in Nat
  BY RowsCounted DEF CallerTypeOK, TypeOK
<1>4. CASE \E r \in Runs : AssembleCommit(r)
  <2>1. PICK r \in Runs :
          /\ AssembleCommit(r) /\ UNCHANGED <<pages, pagesDone>>
          /\ rows' = IF Cardinality(asm[r].emitted) = met[r]
                       THEN rows ELSE Cardinality(asm[r].emitted)
    BY <1>4, RowsCounted
  <2>2. rows' <= pagesDone'
    BY <1>1, <1>3, <2>1, EmittedCounted DEF CountInv
  <2>3. \A s \in Runs : asm'[s].pc # "read"
    <3>1. asm'[r].pc = AfterCommit /\ asm[r].pc = "read"
      BY <1>1, <2>1 DEF AssembleCommit, AssembleAt, Assembling, TypeOK
    <3>2. \A s \in Runs : s # r => asm[s].pc = "none" /\ asm'[s] = asm[s]
      BY <1>1, <2>1, <3>1 DEF AssembleCommit, OnceInv, Unpublished, TypeOK
    <3>. QED
      BY <3>1, <3>2 DEF AfterCommit
  <2>. QED
    BY <1>2, <2>2, <2>3 DEF CountInv
<1>5. CASE ~ \E r \in Runs : AssembleCommit(r)
  <2>1. rows <= rows' /\ rows' <= pagesDone'
    BY <1>5, RowsCounted DEF CountInv
  <2>2. \A r \in Runs : asm'[r].pc = "read" =>
          \/ asm[r].pc = "read" /\ met'[r] = met[r]
          \/ met'[r] = rows
    BY DEF JobStep, CountRows
  <2>. QED
    BY <1>2, <1>3, <2>1, <2>2 DEF CountInv
<1>. QED
  BY <1>4, <1>5

\* A commit that is still possible is the first one, and what it has left out
\* has failed.
LEMMA FirstCommit ==
  ASSUME OneRun', ~Incremental, CallerTypeOK, TypeOK', IInv, AccountInv, OInv,
         CountInv, JobStep, NEW r \in Runs, AssembleCommit(r)
  PROVE  /\ ~key
         /\ Pages \ asm[r].emitted \subseteq failures
         /\ UNCHANGED failures
         /\ Cardinality(asm[r].emitted) <= rows'
<1>1. asm[r].pc = "read" /\ CanTransition(asm[r].saw, asm[r].verdict)
  BY DEF AssembleCommit
<1>2. asm[r].saw \notin TerminalStates
  BY <1>1 DEF CanTransition, Transitions, JobState, TerminalStates
<1>3. ~key
  BY <1>1, <1>2 DEF OInv, FinalInv
<1>4. r = 1 /\ header[r] = Pages
  BY <1>1 DEF OInv, OnceInv, Unpublished
<1>5. \A p \in Pages : part[r][p] \in {"rows", "failed"}
  BY <1>1, <1>2, <1>4
  DEF AccountInv, ChordInv, SkippedPartInv, IInv, TypeOK
<1>6. asm[r].emitted = Loaded(r)
  BY <1>1 DEF OInv, EmittedInv, OnceInv, Unpublished
<1>7. Pages \ asm[r].emitted \subseteq failures
  BY <1>4, <1>5, <1>6 DEF Loaded, AccountInv, FailedPartInv
<1>8. UNCHANGED failures
  BY DEF AssembleCommit
<1>9. Cardinality(asm[r].emitted) <= rows'
  <2>1. PICK s \in Runs :
          /\ AssembleCommit(s)
          /\ rows' = IF Cardinality(asm[s].emitted) = met[s]
                       THEN rows ELSE Cardinality(asm[s].emitted)
    BY RowsCounted DEF IInv
  <2>2. s = r
    BY <1>4, <2>1 DEF AssembleCommit, OInv, OnceInv, Unpublished
  <2>3. met[r] <= rows /\ rows \in Nat /\ Cardinality(asm[r].emitted) \in Nat
    BY <1>1, EmittedCounted DEF IInv, CountInv, CallerTypeOK
  <2>. QED
    BY <2>1, <2>2, <2>3
<1>. QED
  BY <1>3, <1>7, <1>8, <1>9

\* What held of a verdict goes on to hold, whatever the job does next.
LEMMA HoldsStays ==
  ASSUME OneRun', ~Incremental, CallerTypeOK, TypeOK', IInv, AccountInv, OInv,
         CountInv, VerdictLasts, JobStep, NEW told \in Payload, Holds(told)
  PROVE  Holds(told)'
<1>1. spent["cancel"] \in Nat /\ spent["crawl"] \in Nat
  BY DEF IInv, TypeOK, Kinds
<1>2. key /\ key' /\ output' = output /\ state \in TerminalStates
  BY DEF Holds, VerdictLasts, OInv, FinalInv
<1>3. failures \subseteq failures'
  BY Moves DEF IInv, AccountInv, JobStep, Moved, RowMoves
<1>4. rows \in Nat /\ rows' \in Nat /\ rows <= rows'
  BY <1>2, FirstCommit, RowsCounted DEF CallerTypeOK, IInv
<1>5. Cardinality(told.pages) \in Nat
  <2>1. IsFiniteSet(told.pages)
    BY ConfigAssumption, FS_Subset DEF Payload
  <2>. QED
    BY <2>1, FS_CardinalityType
<1>6. /\ told.pages = output'.pages
      /\ Pages \ told.pages \subseteq failures'
      /\ Cardinality(told.pages) <= rows'
  BY <1>2, <1>3, <1>4, <1>5 DEF Holds
<1>7. CASE spent["cancel"] = 0 /\ spent["crawl"] = 0
  BY <1>2, <1>6, <1>7 DEF Holds, VerdictLasts
<1>8. CASE spent["cancel"] > 0 \/ spent["crawl"] > 0
  BY <1>2, <1>6, <1>8 DEF Holds, VerdictLasts
<1>. QED
  BY <1>1, <1>7, <1>8

\* A verdict is said as it was committed, and holds when it is said.
LEMMA ToldStep ==
  ASSUME OneRun', ~Incremental, ToldInv, TypeOK', IInv, AccountInv, OInv,
         OInv', VerdictLasts, JobStep
  PROVE  ToldInv'
<1>1. CallerTypeOK' /\ CallerTypeOK /\ CountInv
  BY CallerTypeStep DEF ToldInv, CallerNext, IInv
<1>2. CountInv'
  BY <1>1, CountStep DEF OInv, IInv
<1>3. \A told \in arrivals' : Holds(told)'
  BY <1>1, HoldsStays DEF ToldInv, JobStep, CallerTypeOK
<1>4. ASSUME NEW j \in DOMAIN hooks' PROVE Holds(hooks[j].body)'
  <2>1. \/ j \in DOMAIN hooks /\ hooks'[j] = hooks[j]
        \/ \E r \in Runs : asm[r].pc = "committed" /\ hooks'[j].body = says[r]
    BY <1>1, <1>4, HooksGrow
  <2>2. CASE j \in DOMAIN hooks /\ hooks'[j] = hooks[j]
    <3>1. hooks[j] \in Hook
      BY <1>1, <2>2 DEF CallerTypeOK
    <3>2. hooks[j].body \in Payload
      BY <3>1 DEF Hook
    <3>. QED
      BY <1>1, <2>2, <3>2, HoldsStays DEF ToldInv, Holds
  <2>3. CASE \E r \in Runs : asm[r].pc = "committed" /\ hooks'[j].body = says[r]
    <3>1. PICK r \in Runs : asm[r].pc = "committed" /\ hooks'[j].body = says[r]
      BY <2>3
    <3>2. says[r] \in Payload
      BY <1>1 DEF CallerTypeOK
    <3>. QED
      BY <1>1, <3>1, <3>2, HoldsStays DEF ToldInv, Holds
  <2>. QED
    BY <2>1, <2>2, <2>3
<1>5. ASSUME NEW r \in Runs, asm'[r].pc = "committed" PROVE Holds(says[r])'
  <2>1. says'[r] = IF asm[r].pc = "read" THEN Said(r) ELSE says[r]
    BY <1>5 DEF JobStep, KeepSaid
  <2>2. CASE asm[r].pc = "committed"
    <3>1. says[r] \in Payload
      BY <1>1 DEF CallerTypeOK
    <3>. QED
      BY <1>1, <2>1, <2>2, <3>1, HoldsStays DEF ToldInv, Holds
  <2>3. CASE asm[r].pc # "committed"
    <3>1. /\ asm[r].pc = "read" /\ key' /\ state' = asm[r].verdict
          /\ output'.pages = asm[r].emitted
      BY <1>5, <2>3 DEF VerdictLasts
    <3>2. AssembleCommit(r)
      BY <1>5, <3>1, Moves
      DEF IInv, AccountInv, JobStep, Moved, AssemblyMoved
    <3>3. /\ Pages \ asm[r].emitted \subseteq failures'
          /\ Cardinality(asm[r].emitted) <= rows'
      BY <1>1, <3>2, FirstCommit
    <3>. QED
      BY <2>1, <3>1, <3>3 DEF Said, Holds
  <2>. QED
    BY <2>2, <2>3
<1>. QED
  BY <1>1, <1>2, <1>3, <1>4, <1>5 DEF ToldInv

\* A post says what its task has carried since.
LEMMA PostStep ==
  ASSUME ToldInv, TypeOK', CheckpointInv, NEW i \in DOMAIN hooks,
         Post(i) \/ PostFails(i) \/ PostLost(i)
  PROVE  ToldInv'
<1>1. CallerTypeOK'
  BY CallerTypeStep DEF ToldInv, CallerNext
<1>2. /\ UNCHANGED <<key, output, state, spent, asm, says, failures, pages>>
      /\ UNCHANGED <<pagesDone, rows, met>>
      /\ arrivals' \subseteq arrivals \union {hooks[i].body}
      /\ \A j \in DOMAIN hooks' :
           j \in DOMAIN hooks /\ hooks'[j].body = hooks[j].body
  BY PostEffect DEF ToldInv, vars, tables, job, store, counter
<1>3. \A told : Holds(told)' <=> Holds(told)
  BY <1>2 DEF Holds
<1>4. \A told \in arrivals' : Holds(told)'
  BY <1>2, <1>3 DEF ToldInv
<1>5. \A j \in DOMAIN hooks' : Holds(hooks[j].body)'
  BY <1>2 DEF ToldInv, Holds
<1>6. \A r \in Runs : asm'[r].pc = "committed" => Holds(says[r])'
  BY <1>2 DEF ToldInv, Holds
<1>7. CountInv'
  BY <1>2 DEF ToldInv, CountInv
<1>. QED
  BY <1>1, <1>4, <1>5, <1>6, <1>7 DEF ToldInv

\* As long as the job has been planned once, what is said is inductive, next to
\* OInv.
LEMMA ToldInductive ==
  ASSUME ~Incremental
  PROVE  CallerSpec => [](OneRun => ToldInv)
<1>1. IInv /\ IInv' /\ AccountInv /\ (OneRun => OInv) /\ (OneRun => OInv)'
        /\ (OneRun => ToldInv) /\ [CallerNext]_callerVars
        => (OneRun => ToldInv)'
  <2> SUFFICES ASSUME IInv, IInv', AccountInv, OneRun => OInv, OInv',
                      OneRun => ToldInv, [CallerNext]_callerVars, OneRun'
               PROVE  ToldInv'
    OBVIOUS
  <2>1. TypeOK /\ TypeOK' /\ PoisonInv /\ CheckpointInv /\ ChordInv
    BY DEF IInv, AccountInv
  <2>2. [Next]_vars
    BY DEF CallerNext, callerVars, JobStep, Post, PostFails, PostLost
  <2>3. Moved
    BY <2>1, <2>2, Moves
  <2>4. OInv /\ ToldInv
    BY <2>1, <2>3 DEF Moved, RowMoves, OneRun, TypeOK
  <2>5. CASE JobStep
    <3>1. VerdictLasts
      BY <2>1, <2>2, <2>4, VerdictStep DEF OInv
    <3>. QED
      BY <2>1, <2>4, <2>5, <3>1, ToldStep
  <2>6. ASSUME NEW i \in DOMAIN hooks, Post(i) \/ PostFails(i) \/ PostLost(i)
        PROVE  ToldInv'
    BY <2>1, <2>4, <2>6, PostStep
  <2>7. CASE UNCHANGED callerVars
    BY <2>1, <2>4, <2>7
    DEF callerVars, vars, tables, job, store, counter, ToldInv, CallerTypeOK,
        Holds, CountInv
  <2>. QED
    BY <2>5, <2>6, <2>7 DEF CallerNext
<1>2. CallerInit => ToldInv
  BY InitCaller, FS_EmptySet DEF ToldInv, CountInv, CallerInit, Init
<1>. QED
  BY <1>1, <1>2, CallerImplements, OnceInductive, AccountInductive, PTL
  DEF CallerSpec

\* What the caller was told stays true, for any number of failed, repeated and
\* late posts, until the job is planned a second time: the file is the one that
\* was counted, what it lacks has failed, and the number of rows beside it is
\* the same or has grown (webhooks.py:44-61, results.py:22-41).
THEOREM ToldForGood ==
  ASSUME ~Incremental
  PROVE  CallerSpec => [](OneRun => ToldTruth)
<1>1. (OneRun => ToldInv) => (OneRun => ToldTruth)
  <2> SUFFICES ASSUME ToldInv, NEW told \in arrivals
               PROVE  /\ ResultAnswer.status = 200
                      /\ ResultAnswer.file = told.pages
                      /\ Pages \ told.pages \subseteq failures
                      /\ ResultAnswer.rows \in
                           Cardinality(told.pages) .. Cardinality(pages)
                      /\ \/ state = told.state
                         \/ spent["cancel"] > 0 \/ spent["crawl"] > 0
    BY DEF ToldTruth
  <2>1. Holds(told) /\ CountInv /\ CallerTypeOK
    BY DEF ToldInv
  <2>2. ResultAnswer = [status |-> 200, file |-> output.pages, rows |-> rows]
    BY <2>1 DEF Holds, ResultAnswer
  <2>3. Cardinality(told.pages) \in Nat
    <3>1. IsFiniteSet(told.pages)
      BY <2>1, ConfigAssumption, FS_Subset DEF CallerTypeOK, Payload
    <3>. QED
      BY <3>1, FS_CardinalityType
  <2>4. rows \in Cardinality(told.pages) .. Cardinality(pages)
    BY <2>1, <2>3 DEF Holds, CountInv, CallerTypeOK, TypeOK
  <2>. QED
    BY <2>1, <2>2, <2>4 DEF Holds
<1>. QED
  BY <1>1, ToldInductive, PTL

\* Where it is never planned again that holds throughout, as the run Crawled
\* checks.
COROLLARY ToldAlways ==
  ASSUME SingleRun, ~Incremental
  PROVE  CallerSpec => []ToldTruth
BY ToldForGood, OneRunOnly, CallerImplements, PTL

=============================================================================
