------------------------ MODULE CrawlPipelineProofs -------------------------
(***************************************************************************)
(* Theorems about CrawlPipeline for every value of its constants. Each     *)
(* invariant is strengthened with what the tasks in flight know, and shown *)
(* to be kept by every action; TypeOK and the strengthened invariants are  *)
(* then invariants of Spec by temporal induction.                          *)
(***************************************************************************)
EXTENDS CrawlPipeline, FiniteSetTheorems, TLAPS

-----------------------------------------------------------------------------
(* Inductive invariants *)

\* attempts and lost move together: PENDING, read or stored, means no planning
\* yet; RUNNING means one more planning than counted deaths; once the
\* threshold is reached the state is final, and crawl_job never again gets
\* past its first read; and an assembly only ever decides for a final state.
PoisonInv ==
  /\ attempts = 0 => lost = 0
  /\ attempts > 0 /\ lost < PoisonThreshold =>
       attempts = lost + 1
  /\ lost = PoisonThreshold => /\ attempts = PoisonThreshold
                                   /\ state \in TerminalStates
  /\ state = "PENDING" => attempts = 0
  /\ state = "RUNNING" => attempts > 0
  /\ state # "PAUSED"
  /\ crawl.pc = "read" => /\ lost < PoisonThreshold
                          /\ crawl.saw \in {"PENDING", "RUNNING"}
                          /\ crawl.saw = "PENDING" => attempts = 0
                          /\ crawl.saw = "RUNNING" => attempts > 0
  /\ crawl.pc = "planned" => attempts > 0
  /\ deadLetters = IF lost = PoisonThreshold THEN 1 ELSE 0
  /\ \A r \in Runs : asm[r].pc \in {"stored", "uploaded", "read"} =>
       asm[r].verdict \in {"SUSPECT", "PARTIAL", "SUCCEEDED"}

\* A task that has stored its page, and one that has recorded it, and a part
\* that carries a key, each stand for data that exists.
CheckpointInv ==
  /\ pages \subseteq objects
  /\ \A r \in Runs, p \in Pages :
       /\ task[r][p] \in {"stored", "rows"} => p \in objects
       /\ task[r][p] = "rows" => p \in pages
       /\ part[r][p] = "rows" => p \in pages

\* What an assembly is about to publish is in the ledger, and after its upload
\* the file exists.
ResultInv ==
  /\ ResultBehindState
  /\ \A r \in Runs :
       /\ asm[r].emitted \subseteq pages
       /\ asm[r].pc \in {"uploaded", "read"} => output.uploaded

\* A failure that was counted, that an assembly saw, or that made a verdict
\* PARTIAL, has a row in failed_pages.
PartialInv ==
  /\ PartialExplained
  /\ pagesFailed > 0 => failures # {}
  /\ \A r \in Runs :
       asm[r].failedSeen \/ asm[r].verdict = "PARTIAL" => failures # {}

-----------------------------------------------------------------------------
\* What a task body is when it starts or ends is of its type.
LEMMA BodyTypes ==
  /\ \A pc \in CrawlPC : CrawlAt(pc) \in CrawlBody
  /\ \A pc \in AsmPC : AssembleAt(pc) \in AssembleBody
  BY DEF CrawlAt, AssembleAt, Crawling, Assembling, CrawlBody, AssembleBody,
         JobState

\* An upload moves the assembly on and keeps its locals.
LEMMA UploadedBody ==
  ASSUME NEW body \in AssembleBody
  PROVE  [body EXCEPT !.pc = "uploaded"] \in AssembleBody
  BY DEF AssembleBody, AsmPC

\* The job as submit_job leaves it is of its type.
LEMMA InitType == Init => TypeOK
<1> SUFFICES ASSUME Init PROVE TypeOK
  OBVIOUS
<1> USE ConfigAssumption DEF Init
<1>1. state \in JobState
  BY DEF JobState
<1>2. crawl \in CrawlBody
  BY BodyTypes DEF CrawlPC
<1>3. asm \in [Runs -> AssembleBody]
  BY BodyTypes DEF AsmPC
<1>4. /\ task \in [Runs -> [Pages -> TaskPC]]
      /\ retries \in [Runs -> [Pages -> 0 .. MaxRetries]]
      /\ part \in [Runs -> [Pages -> Outcome \union {"none"}]]
  BY DEF TaskPC
<1>5. snapshot \subseteq Pages
  OBVIOUS
<1>6. output \in [uploaded: BOOLEAN, pages: SUBSET Pages]
  OBVIOUS
<1>7. header \in [Runs -> SUBSET Pages] /\ spent \in [Kinds -> Nat]
  OBVIOUS
<1>8. /\ attempts \in 0 .. PoisonThreshold /\ lost \in 0 .. PoisonThreshold
      /\ pagesDone = 0 /\ pagesFailed = 0 /\ key = FALSE
      /\ pages = {} /\ failures = {} /\ deadLetters = 0
      /\ samples = 0 /\ objects = {} /\ callbacks = 0 /\ revoked = FALSE
      /\ cancel = "idle"
  OBVIOUS
<1> HIDE DEF Init
<1>. QED
  BY <1>1, <1>2, <1>3, <1>4, <1>5, <1>6, <1>7, <1>8 DEF TypeOK

\* A submitted job was not planned, counted or parked yet.
LEMMA InitPoison == Init => PoisonInv
  BY ConfigAssumption DEF Init, PoisonInv, CrawlAt, Crawling, AssembleAt,
                          Assembling, TerminalStates

-----------------------------------------------------------------------------
(* Every step keeps every invariant. *)

\* Every action keeps the types; the bounds on attempts and lost come from
\* PoisonInv.
LEMMA TypeStep == TypeOK /\ PoisonInv /\ [Next]_vars => TypeOK'
<1> SUFFICES ASSUME TypeOK, PoisonInv, [Next]_vars PROVE TypeOK'
  OBVIOUS
<1> USE ConfigAssumption, BodyTypes DEF TypeOK, pipeline, outside, job,
        tables, targets, store, fetching, CrawlPC, AsmPC, TaskPC, Outcome
<1>1. CASE CrawlReceive
  BY <1>1 DEF CrawlReceive, CrawlAt, Crawling, CrawlBody
<1>2. CASE StartRun
  <2>1. attempts = 0
    BY <1>2 DEF StartRun, PoisonInv
  <2>2. attempts' \in 0 .. PoisonThreshold
    BY <1>2, <2>1 DEF StartRun, Plan
  <2>3. crawl' \in CrawlBody
    BY <1>2 DEF StartRun, Plan, PagesToFetch, Crawling, CrawlBody, JobState
  <2>4. state' \in JobState
    BY <1>2 DEF StartRun, JobState
  <2>. QED
    BY <1>2, <2>2, <2>3, <2>4 DEF StartRun, Plan
<1>3. CASE ResumeRun
  <2>1. attempts' \in 0 .. PoisonThreshold /\ lost' \in 0 .. PoisonThreshold
    <3>1. attempts = lost + 1 /\ lost + 1 < PoisonThreshold
      BY <1>3 DEF ResumeRun, BumpLost, PoisonInv
    <3>. QED
      BY <1>3, <3>1 DEF ResumeRun, BumpLost, Plan
  <2>2. crawl' \in CrawlBody
    BY <1>3 DEF ResumeRun, BumpLost, Plan, PagesToFetch, Crawling, CrawlBody,
                JobState
  <2>. QED
    BY <1>3, <2>1, <2>2 DEF ResumeRun, BumpLost, Plan
<1>4. CASE ParkPoisonPill
  BY <1>4 DEF ParkPoisonPill, BumpLost, JobState, PoisonInv
<1>5. CASE PublishChord
  BY <1>5 DEF PublishChord, Enqueue, CrawlBody
<1>6. CASE PublishAssemble
  BY <1>6 DEF PublishAssemble
<1>7. CASE CrawlAck
  BY <1>7 DEF CrawlAck
<1>8. CASE CrawlLost
  BY <1>8 DEF CrawlLost, Redelivered, Spend, Kinds
<1>9. CASE CrawlLostPublishing
  <2>1. PICK sent \in SUBSET crawl.todo : Enqueue(sent)
    BY <1>9 DEF CrawlLostPublishing, Redelivered
  <2>2. /\ header' \in [Runs -> SUBSET Pages]
        /\ task' \in [Runs -> [Pages -> TaskPC]]
    BY <2>1 DEF Enqueue, CrawlBody
  <2>. QED
    BY <1>9, <2>2 DEF CrawlLostPublishing, Redelivered, Spend, Kinds
<1>10. CASE CrawlError
  BY <1>10 DEF CrawlError, Spend, Kinds
<1>11. CASE CrawlRevoked
  BY <1>11 DEF CrawlRevoked
<1>12. CASE CancelRead
  BY <1>12 DEF CancelRead, Spend, Kinds
<1>13. CASE CancelCommit
  BY <1>13 DEF CancelCommit, JobState
<1>14. ASSUME NEW r \in Runs, NEW p \in Pages, FetchReceive(r, p)
      PROVE TypeOK'
  BY <1>14 DEF FetchReceive, Step
<1>15. ASSUME NEW r \in Runs, NEW p \in Pages, FetchStore(r, p)
      PROVE TypeOK'
  BY <1>15 DEF FetchStore, Upload, Step
<1>16. ASSUME NEW r \in Runs, NEW p \in Pages, FetchRecord(r, p)
      PROVE TypeOK'
  BY <1>16 DEF FetchRecord, Step, RecordPage, RecordPageAgain
<1>17. ASSUME NEW r \in Runs, NEW p \in Pages, FetchGiveUp(r, p)
      PROVE TypeOK'
  BY <1>17 DEF FetchGiveUp, Step, RecordFailure
<1>18. ASSUME NEW r \in Runs, NEW p \in Pages, FetchRetry(r, p)
      PROVE TypeOK'
  BY <1>18 DEF FetchRetry, MayRetry, Step
<1>19. ASSUME NEW r \in Runs, NEW p \in Pages, FetchReport(r, p)
      PROVE TypeOK'
  <2>1. task' \in [Runs -> [Pages -> TaskPC]]
    BY <1>19 DEF FetchReport
  <2>2. part' \in [Runs -> [Pages -> Outcome \union {"none"}]]
    <3>1. CASE part[r][p] # "none"
      BY <1>19, <3>1 DEF FetchReport
    <3>2. CASE part[r][p] = "none"
      <4>1. task[r][p] \in Outcome \union {"none"}
        BY <1>19 DEF FetchReport
      <4>2. part' = [part EXCEPT ![r][p] = task[r][p]]
        BY <1>19, <3>2 DEF FetchReport
      <4>. QED
        BY <4>1, <4>2
    <3>. QED
      BY <3>1, <3>2
  <2>3. asm' \in [Runs -> AssembleBody]
    BY <1>19 DEF FetchReport
  <2>. QED
    BY <1>19, <2>1, <2>2, <2>3 DEF FetchReport
<1>20. ASSUME NEW r \in Runs, NEW p \in Pages, FetchAck(r, p)
      PROVE TypeOK'
  BY <1>20 DEF FetchAck, Step
<1>21. ASSUME NEW r \in Runs, NEW p \in Pages, FetchTimeLimit(r, p)
      PROVE TypeOK'
  BY <1>21 DEF FetchTimeLimit, Step, Spend, Kinds, RecordFailure
<1>22. ASSUME NEW r \in Runs, NEW p \in Pages, FetchError(r, p)
      PROVE TypeOK'
  BY <1>22 DEF FetchError, Step, Spend, Kinds
<1>23. ASSUME NEW r \in Runs, NEW p \in Pages, FetchLost(r, p)
      PROVE TypeOK'
  BY <1>23 DEF FetchLost, Step, Spend, Kinds
<1>24. ASSUME NEW r \in Runs, AssembleReceive(r)
      PROVE TypeOK'
  BY <1>24 DEF AssembleReceive, Assembling, AssembleBody, JobState
<1>25. ASSUME NEW r \in Runs, AssembleSnapshot(r)
      PROVE TypeOK'
  BY <1>25 DEF AssembleSnapshot, Emitted, Assembling, AssembleBody, Loaded,
               JobState, Verdict
<1>26. ASSUME NEW r \in Runs, AssembleUpload(r)
      PROVE TypeOK'
  <2>1. [asm[r] EXCEPT !.pc = "uploaded"] \in AssembleBody
    BY UploadedBody
  <2>2. asm' \in [Runs -> AssembleBody]
    BY <1>26, <2>1 DEF AssembleUpload
  <2>3. output' \in [uploaded: BOOLEAN, pages: SUBSET Pages]
    <3>1. asm[r].emitted \subseteq Pages
      BY DEF AssembleBody
    <3>. QED
      BY <1>26, <3>1 DEF AssembleUpload
  <2>. QED
    BY <1>26, <2>2, <2>3 DEF AssembleUpload
<1>27. ASSUME NEW r \in Runs, AssembleRead(r)
      PROVE TypeOK'
  BY <1>27 DEF AssembleRead, Assembling, AssembleBody
<1>28. ASSUME NEW r \in Runs, AssembleCommit(r)
      PROVE TypeOK'
  BY <1>28 DEF AfterCommit, AssembleCommit, AssembleBody
<1>29. ASSUME NEW r \in Runs, AssembleRefused(r)
      PROVE TypeOK'
  BY <1>29 DEF AssembleRefused
<1>30. ASSUME NEW r \in Runs, AssembleNotify(r)
      PROVE TypeOK'
  BY <1>30 DEF AssembleNotify
<1>31. ASSUME NEW r \in Runs, AssembleAck(r)
      PROVE TypeOK'
  BY <1>31 DEF AssembleAck
<1>32. ASSUME NEW r \in Runs, AssembleLost(r)
      PROVE TypeOK'
  BY <1>32 DEF AssembleLost, Spend, Kinds
<1>33. ASSUME NEW r \in Runs, AssembleError(r)
      PROVE TypeOK'
  BY <1>33 DEF AssembleError, Spend, Kinds
<1>34. CASE UNCHANGED vars
  BY <1>34 DEF vars
<1>. QED
  BY <1>1, <1>2, <1>3, <1>4, <1>5, <1>6, <1>7, <1>8, <1>9, <1>10, <1>11,
     <1>12, <1>13, <1>14, <1>15, <1>16, <1>17, <1>18, <1>19, <1>20, <1>21,
     <1>22, <1>23, <1>24, <1>25, <1>26, <1>27, <1>28, <1>29, <1>30, <1>31,
     <1>32, <1>33, <1>34
  DEF Next, CrawlStep, CrawlDisturbed, FetchStep, FetchDisturbed, AssembleStep

\* Only a plan moves attempts and only a redelivered plan moves lost, up to the
\* threshold, where the job becomes final.
LEMMA PoisonStep == TypeOK /\ PoisonInv /\ [Next]_vars => PoisonInv'
<1> SUFFICES ASSUME TypeOK, PoisonInv, [Next]_vars PROVE PoisonInv'
  OBVIOUS
<1> USE ConfigAssumption DEF TypeOK, PoisonInv, pipeline, outside, job,
        tables, targets, store, fetching, CrawlBody, AssembleBody
<1>1. CASE CrawlReceive
  <2>1. UNCHANGED <<state, attempts, lost, deadLetters, asm>>
    BY <1>1 DEF CrawlReceive
  <2>2. \/ crawl'.pc = "done"
        \/ /\ crawl'.pc = "read" /\ crawl'.saw = state
           /\ state \notin TerminalStates
    BY <1>1 DEF CrawlReceive, CrawlAt, Crawling
  <2>. QED
    BY <2>1, <2>2 DEF TerminalStates, JobState
<1>2. CASE StartRun
  <2>1. /\ attempts = 0 /\ lost = 0
        /\ attempts' = 1 /\ state' = "RUNNING"
        /\ UNCHANGED <<lost, deadLetters, asm>>
    BY <1>2 DEF StartRun, Plan
  <2>2. crawl'.pc = "planned"
    BY <1>2 DEF StartRun, Plan, Crawling
  <2>. QED
    BY <2>1, <2>2 DEF TerminalStates
<1>3. CASE ResumeRun
  BY <1>3 DEF ResumeRun, BumpLost, Plan, Crawling
<1>4. CASE ParkPoisonPill
  BY <1>4 DEF ParkPoisonPill, BumpLost, CrawlAt, Crawling, TerminalStates
<1>5. CASE PublishChord
  BY <1>5 DEF PublishChord, CrawlAt, Crawling
<1>6. CASE PublishAssemble
  BY <1>6 DEF PublishAssemble, AssembleAt, Assembling, CrawlAt, Crawling
<1>7. CASE CrawlAck
  BY <1>7 DEF CrawlAck, CrawlAt, Crawling
<1>8. CASE CrawlLost
  BY <1>8 DEF CrawlLost, Redelivered, CrawlAt, Crawling
<1>9. CASE CrawlLostPublishing
  BY <1>9 DEF CrawlLostPublishing, Redelivered, CrawlAt, Crawling
<1>10. CASE CrawlError
  BY <1>10 DEF CrawlError, CrawlAt, Crawling
<1>11. CASE CrawlRevoked
  BY <1>11 DEF CrawlRevoked, CrawlAt, Crawling
<1>12. CASE CancelRead
  BY <1>12 DEF CancelRead
<1>13. CASE CancelCommit
  BY <1>13 DEF CancelCommit, TerminalStates
<1>14. ASSUME NEW r \in Runs, NEW p \in Pages, FetchReceive(r, p)
      PROVE PoisonInv'
  BY <1>14 DEF FetchReceive, Step
<1>15. ASSUME NEW r \in Runs, NEW p \in Pages, FetchStore(r, p)
      PROVE PoisonInv'
  BY <1>15 DEF FetchStore, Upload, Step
<1>16. ASSUME NEW r \in Runs, NEW p \in Pages, FetchRecord(r, p)
      PROVE PoisonInv'
  BY <1>16 DEF FetchRecord, Step
<1>17. ASSUME NEW r \in Runs, NEW p \in Pages, FetchGiveUp(r, p)
      PROVE PoisonInv'
  BY <1>17 DEF FetchGiveUp, Step
<1>18. ASSUME NEW r \in Runs, NEW p \in Pages, FetchRetry(r, p)
      PROVE PoisonInv'
  BY <1>18 DEF FetchRetry, MayRetry, Step
<1>19. ASSUME NEW r \in Runs, NEW p \in Pages, FetchReport(r, p)
      PROVE PoisonInv'
  <2>1. \/ asm' = asm
        \/ asm' = [asm EXCEPT ![r] = AssembleAt("queued")]
    BY <1>19 DEF FetchReport
  <2>2. \A s \in Runs : asm'[s] = asm[s] \/ asm'[s].pc = "queued"
    BY <2>1 DEF AssembleAt, Assembling
  <2>. QED
    BY <1>19, <2>2 DEF FetchReport
<1>20. ASSUME NEW r \in Runs, NEW p \in Pages, FetchAck(r, p)
      PROVE PoisonInv'
  BY <1>20 DEF FetchAck, Step
<1>21. ASSUME NEW r \in Runs, NEW p \in Pages, FetchTimeLimit(r, p)
      PROVE PoisonInv'
  BY <1>21 DEF FetchTimeLimit, Step
<1>22. ASSUME NEW r \in Runs, NEW p \in Pages, FetchError(r, p)
      PROVE PoisonInv'
  BY <1>22 DEF FetchError, Step
<1>23. ASSUME NEW r \in Runs, NEW p \in Pages, FetchLost(r, p)
      PROVE PoisonInv'
  BY <1>23 DEF FetchLost, Step
<1>24. ASSUME NEW r \in Runs, AssembleReceive(r)
      PROVE PoisonInv'
  BY <1>24 DEF AssembleReceive, AssembleAt, Assembling
<1>25. ASSUME NEW r \in Runs, AssembleSnapshot(r)
      PROVE PoisonInv'
  BY <1>25 DEF AssembleSnapshot, Emitted, Assembling, Verdict
<1>26. ASSUME NEW r \in Runs, AssembleUpload(r)
      PROVE PoisonInv'
  BY <1>26 DEF AssembleUpload
<1>27. ASSUME NEW r \in Runs, AssembleRead(r)
      PROVE PoisonInv'
  BY <1>27 DEF AssembleRead, Assembling
<1>28. ASSUME NEW r \in Runs, AssembleCommit(r)
      PROVE PoisonInv'
  BY <1>28 DEF AfterCommit, AssembleCommit, AssembleAt, Assembling,
               TerminalStates
<1>29. ASSUME NEW r \in Runs, AssembleRefused(r)
      PROVE PoisonInv'
  BY <1>29 DEF AssembleRefused, AssembleAt, Assembling
<1>30. ASSUME NEW r \in Runs, AssembleNotify(r)
      PROVE PoisonInv'
  BY <1>30 DEF AssembleNotify, AssembleAt, Assembling
<1>31. ASSUME NEW r \in Runs, AssembleAck(r)
      PROVE PoisonInv'
  BY <1>31 DEF AssembleAck, AssembleAt, Assembling
<1>32. ASSUME NEW r \in Runs, AssembleLost(r)
      PROVE PoisonInv'
  BY <1>32 DEF AssembleLost, AssembleAt, Assembling
<1>33. ASSUME NEW r \in Runs, AssembleError(r)
      PROVE PoisonInv'
  BY <1>33 DEF AssembleError, AssembleAt, Assembling
<1>34. CASE UNCHANGED vars
  BY <1>34 DEF vars
<1>. QED
  BY <1>1, <1>2, <1>3, <1>4, <1>5, <1>6, <1>7, <1>8, <1>9, <1>10, <1>11,
     <1>12, <1>13, <1>14, <1>15, <1>16, <1>17, <1>18, <1>19, <1>20, <1>21,
     <1>22, <1>23, <1>24, <1>25, <1>26, <1>27, <1>28, <1>29, <1>30, <1>31,
     <1>32, <1>33, <1>34
  DEF Next, CrawlStep, CrawlDisturbed, FetchStep, FetchDisturbed, AssembleStep

\* A page is recorded only by a task that has uploaded it, and objects are never
\* deleted.
LEMMA CheckpointStep == TypeOK /\ CheckpointInv /\ [Next]_vars => CheckpointInv'
<1> SUFFICES ASSUME TypeOK, CheckpointInv, [Next]_vars PROVE CheckpointInv'
  OBVIOUS
<1> USE DEF TypeOK, CheckpointInv, pipeline, outside, job, tables, targets,
        store, fetching, Outcome
<1>1. CASE CrawlReceive
  BY <1>1 DEF CrawlReceive
<1>2. CASE StartRun
  BY <1>2 DEF StartRun, Plan
<1>3. CASE ResumeRun
  BY <1>3 DEF ResumeRun, BumpLost, Plan
<1>4. CASE ParkPoisonPill
  BY <1>4 DEF ParkPoisonPill, BumpLost
<1>5. CASE PublishChord
  BY <1>5 DEF PublishChord, Enqueue
<1>6. CASE PublishAssemble
  BY <1>6 DEF PublishAssemble
<1>7. CASE CrawlAck
  BY <1>7 DEF CrawlAck
<1>8. CASE CrawlLost
  BY <1>8 DEF CrawlLost, Redelivered
<1>9. CASE CrawlLostPublishing
  BY <1>9 DEF CrawlLostPublishing, Redelivered, Enqueue
<1>10. CASE CrawlError
  BY <1>10 DEF CrawlError
<1>11. CASE CrawlRevoked
  BY <1>11 DEF CrawlRevoked
<1>12. CASE CancelRead
  BY <1>12 DEF CancelRead
<1>13. CASE CancelCommit
  BY <1>13 DEF CancelCommit
<1>14. ASSUME NEW r \in Runs, NEW p \in Pages, FetchReceive(r, p)
      PROVE CheckpointInv'
  BY <1>14 DEF FetchReceive, Step
<1>15. ASSUME NEW r \in Runs, NEW p \in Pages, FetchStore(r, p)
      PROVE CheckpointInv'
  BY <1>15 DEF FetchStore, Upload, Step
<1>16. ASSUME NEW r \in Runs, NEW p \in Pages, FetchRecord(r, p)
      PROVE CheckpointInv'
  BY <1>16 DEF FetchRecord, Step, RecordPage, RecordPageAgain
<1>17. ASSUME NEW r \in Runs, NEW p \in Pages, FetchGiveUp(r, p)
      PROVE CheckpointInv'
  BY <1>17 DEF FetchGiveUp, Step
<1>18. ASSUME NEW r \in Runs, NEW p \in Pages, FetchRetry(r, p)
      PROVE CheckpointInv'
  BY <1>18 DEF FetchRetry, MayRetry, Step
<1>19. ASSUME NEW r \in Runs, NEW p \in Pages, FetchReport(r, p)
      PROVE CheckpointInv'
  BY <1>19 DEF FetchReport
<1>20. ASSUME NEW r \in Runs, NEW p \in Pages, FetchAck(r, p)
      PROVE CheckpointInv'
  BY <1>20 DEF FetchAck, Step
<1>21. ASSUME NEW r \in Runs, NEW p \in Pages, FetchTimeLimit(r, p)
      PROVE CheckpointInv'
  BY <1>21 DEF FetchTimeLimit, Step
<1>22. ASSUME NEW r \in Runs, NEW p \in Pages, FetchError(r, p)
      PROVE CheckpointInv'
  BY <1>22 DEF FetchError, Step
<1>23. ASSUME NEW r \in Runs, NEW p \in Pages, FetchLost(r, p)
      PROVE CheckpointInv'
  BY <1>23 DEF FetchLost, Step
<1>24. ASSUME NEW r \in Runs, AssembleReceive(r)
      PROVE CheckpointInv'
  BY <1>24 DEF AssembleReceive
<1>25. ASSUME NEW r \in Runs, AssembleSnapshot(r)
      PROVE CheckpointInv'
  BY <1>25 DEF AssembleSnapshot
<1>26. ASSUME NEW r \in Runs, AssembleUpload(r)
      PROVE CheckpointInv'
  BY <1>26 DEF AssembleUpload
<1>27. ASSUME NEW r \in Runs, AssembleRead(r)
      PROVE CheckpointInv'
  BY <1>27 DEF AssembleRead
<1>28. ASSUME NEW r \in Runs, AssembleCommit(r)
      PROVE CheckpointInv'
  BY <1>28 DEF AfterCommit, AssembleCommit
<1>29. ASSUME NEW r \in Runs, AssembleRefused(r)
      PROVE CheckpointInv'
  BY <1>29 DEF AssembleRefused
<1>30. ASSUME NEW r \in Runs, AssembleNotify(r)
      PROVE CheckpointInv'
  BY <1>30 DEF AssembleNotify
<1>31. ASSUME NEW r \in Runs, AssembleAck(r)
      PROVE CheckpointInv'
  BY <1>31 DEF AssembleAck
<1>32. ASSUME NEW r \in Runs, AssembleLost(r)
      PROVE CheckpointInv'
  BY <1>32 DEF AssembleLost
<1>33. ASSUME NEW r \in Runs, AssembleError(r)
      PROVE CheckpointInv'
  BY <1>33 DEF AssembleError
<1>34. CASE UNCHANGED vars
  BY <1>34 DEF vars
<1>. QED
  BY <1>1, <1>2, <1>3, <1>4, <1>5, <1>6, <1>7, <1>8, <1>9, <1>10, <1>11,
     <1>12, <1>13, <1>14, <1>15, <1>16, <1>17, <1>18, <1>19, <1>20, <1>21,
     <1>22, <1>23, <1>24, <1>25, <1>26, <1>27, <1>28, <1>29, <1>30, <1>31,
     <1>32, <1>33, <1>34
  DEF Next, CrawlStep, CrawlDisturbed, FetchStep, FetchDisturbed, AssembleStep

\* An assembly loads recorded pages, uploads, reads the row, and only
\* then commits.
LEMMA ResultStep ==
  TypeOK /\ CheckpointInv /\ ResultInv /\ [Next]_vars => ResultInv'
<1> SUFFICES ASSUME TypeOK, CheckpointInv, ResultInv, [Next]_vars
             PROVE  ResultInv'
  OBVIOUS
<1> USE DEF TypeOK, ResultInv, ResultBehindState, pipeline, outside, job,
        tables, targets, store, fetching, AssembleBody
<1>1. CASE CrawlReceive
  BY <1>1 DEF CrawlReceive
<1>2. CASE StartRun
  BY <1>2 DEF StartRun, Plan
<1>3. CASE ResumeRun
  BY <1>3 DEF ResumeRun, BumpLost, Plan
<1>4. CASE ParkPoisonPill
  BY <1>4 DEF ParkPoisonPill, BumpLost
<1>5. CASE PublishChord
  BY <1>5 DEF PublishChord
<1>6. CASE PublishAssemble
  BY <1>6 DEF PublishAssemble, AssembleAt, Assembling
<1>7. CASE CrawlAck
  BY <1>7 DEF CrawlAck
<1>8. CASE CrawlLost
  BY <1>8 DEF CrawlLost, Redelivered
<1>9. CASE CrawlLostPublishing
  BY <1>9 DEF CrawlLostPublishing, Redelivered
<1>10. CASE CrawlError
  BY <1>10 DEF CrawlError
<1>11. CASE CrawlRevoked
  BY <1>11 DEF CrawlRevoked
<1>12. CASE CancelRead
  BY <1>12 DEF CancelRead
<1>13. CASE CancelCommit
  BY <1>13 DEF CancelCommit
<1>14. ASSUME NEW r \in Runs, NEW p \in Pages, FetchReceive(r, p)
      PROVE ResultInv'
  BY <1>14 DEF FetchReceive, Step
<1>15. ASSUME NEW r \in Runs, NEW p \in Pages, FetchStore(r, p)
      PROVE ResultInv'
  BY <1>15 DEF FetchStore, Upload, Step
<1>16. ASSUME NEW r \in Runs, NEW p \in Pages, FetchRecord(r, p)
      PROVE ResultInv'
  BY <1>16 DEF FetchRecord, Step, RecordPage, RecordPageAgain
<1>17. ASSUME NEW r \in Runs, NEW p \in Pages, FetchGiveUp(r, p)
      PROVE ResultInv'
  BY <1>17 DEF FetchGiveUp, Step
<1>18. ASSUME NEW r \in Runs, NEW p \in Pages, FetchRetry(r, p)
      PROVE ResultInv'
  BY <1>18 DEF FetchRetry, MayRetry, Step
<1>19. ASSUME NEW r \in Runs, NEW p \in Pages, FetchReport(r, p)
      PROVE ResultInv'
  <2>1. UNCHANGED <<state, key, pages, output>>
    BY <1>19 DEF FetchReport
  <2>2. \/ asm' = asm
        \/ asm' = [asm EXCEPT ![r] = AssembleAt("queued")]
    BY <1>19 DEF FetchReport
  <2>3. \A s \in Runs :
          \/ asm'[s] = asm[s]
          \/ asm'[s].emitted = {} /\ asm'[s].pc = "queued"
    BY <2>2 DEF AssembleAt, Assembling
  <2>. QED
    BY <2>1, <2>3
<1>20. ASSUME NEW r \in Runs, NEW p \in Pages, FetchAck(r, p)
      PROVE ResultInv'
  BY <1>20 DEF FetchAck, Step
<1>21. ASSUME NEW r \in Runs, NEW p \in Pages, FetchTimeLimit(r, p)
      PROVE ResultInv'
  BY <1>21 DEF FetchTimeLimit, Step
<1>22. ASSUME NEW r \in Runs, NEW p \in Pages, FetchError(r, p)
      PROVE ResultInv'
  BY <1>22 DEF FetchError, Step
<1>23. ASSUME NEW r \in Runs, NEW p \in Pages, FetchLost(r, p)
      PROVE ResultInv'
  BY <1>23 DEF FetchLost, Step
<1>24. ASSUME NEW r \in Runs, AssembleReceive(r)
      PROVE ResultInv'
  BY <1>24 DEF AssembleReceive, AssembleAt, Assembling
<1>25. ASSUME NEW r \in Runs, AssembleSnapshot(r)
      PROVE ResultInv'
  BY <1>25 DEF AssembleSnapshot, Emitted, Assembling, Loaded, CheckpointInv
<1>26. ASSUME NEW r \in Runs, AssembleUpload(r)
      PROVE ResultInv'
  BY <1>26 DEF AssembleUpload
<1>27. ASSUME NEW r \in Runs, AssembleRead(r)
      PROVE ResultInv'
  BY <1>27 DEF AssembleRead, Assembling
<1>28. ASSUME NEW r \in Runs, AssembleCommit(r)
      PROVE ResultInv'
  BY <1>28 DEF AfterCommit, AssembleCommit, AssembleAt, Assembling
<1>29. ASSUME NEW r \in Runs, AssembleRefused(r)
      PROVE ResultInv'
  BY <1>29 DEF AssembleRefused, AssembleAt, Assembling
<1>30. ASSUME NEW r \in Runs, AssembleNotify(r)
      PROVE ResultInv'
  BY <1>30 DEF AssembleNotify, AssembleAt, Assembling
<1>31. ASSUME NEW r \in Runs, AssembleAck(r)
      PROVE ResultInv'
  BY <1>31 DEF AssembleAck, AssembleAt, Assembling
<1>32. ASSUME NEW r \in Runs, AssembleLost(r)
      PROVE ResultInv'
  BY <1>32 DEF AssembleLost, AssembleAt, Assembling
<1>33. ASSUME NEW r \in Runs, AssembleError(r)
      PROVE ResultInv'
  BY <1>33 DEF AssembleError, AssembleAt, Assembling
<1>34. CASE UNCHANGED vars
  BY <1>34 DEF vars
<1>. QED
  BY <1>1, <1>2, <1>3, <1>4, <1>5, <1>6, <1>7, <1>8, <1>9, <1>10, <1>11,
     <1>12, <1>13, <1>14, <1>15, <1>16, <1>17, <1>18, <1>19, <1>20, <1>21,
     <1>22, <1>23, <1>24, <1>25, <1>26, <1>27, <1>28, <1>29, <1>30, <1>31,
     <1>32, <1>33, <1>34
  DEF Next, CrawlStep, CrawlDisturbed, FetchStep, FetchDisturbed, AssembleStep

\* One more row raises the cardinality by at most one, as the counter does.
LEMMA FailureCounted ==
  ASSUME TypeOK, NEW p \in Pages, Cardinality(failures) <= pagesFailed
  PROVE  Cardinality(failures \union {p}) <= pagesFailed + 1
<1>1. IsFiniteSet(failures)
  BY ConfigAssumption, FS_Subset DEF TypeOK
<1>2. Cardinality(failures) \in Nat
  BY <1>1, FS_CardinalityType
<1>3. \/ Cardinality(failures \union {p}) = Cardinality(failures)
      \/ Cardinality(failures \union {p}) = Cardinality(failures) + 1
  BY <1>1, FS_AddElement
<1>4. pagesFailed \in Nat
  BY DEF TypeOK
<1>. QED
  BY <1>2, <1>3, <1>4

\* pages_failed moves with a row of failed_pages, and a verdict is PARTIAL only
\* if it had moved.
LEMMA PartialStep == TypeOK /\ PartialInv /\ [Next]_vars => PartialInv'
<1> SUFFICES ASSUME TypeOK, PartialInv, [Next]_vars PROVE PartialInv'
  OBVIOUS
<1> USE DEF TypeOK, PartialInv, PartialExplained, pipeline, outside, job,
        tables, targets, store, fetching, AssembleBody
<1>1. CASE CrawlReceive
  BY <1>1 DEF CrawlReceive
<1>2. CASE StartRun
  BY <1>2 DEF StartRun, Plan
<1>3. CASE ResumeRun
  BY <1>3 DEF ResumeRun, BumpLost, Plan
<1>4. CASE ParkPoisonPill
  BY <1>4 DEF ParkPoisonPill, BumpLost
<1>5. CASE PublishChord
  BY <1>5 DEF PublishChord
<1>6. CASE PublishAssemble
  BY <1>6 DEF PublishAssemble, AssembleAt, Assembling
<1>7. CASE CrawlAck
  BY <1>7 DEF CrawlAck
<1>8. CASE CrawlLost
  BY <1>8 DEF CrawlLost, Redelivered
<1>9. CASE CrawlLostPublishing
  BY <1>9 DEF CrawlLostPublishing, Redelivered
<1>10. CASE CrawlError
  BY <1>10 DEF CrawlError
<1>11. CASE CrawlRevoked
  BY <1>11 DEF CrawlRevoked
<1>12. CASE CancelRead
  BY <1>12 DEF CancelRead
<1>13. CASE CancelCommit
  BY <1>13 DEF CancelCommit
<1>14. ASSUME NEW r \in Runs, NEW p \in Pages, FetchReceive(r, p)
      PROVE PartialInv'
  BY <1>14 DEF FetchReceive, Step
<1>15. ASSUME NEW r \in Runs, NEW p \in Pages, FetchStore(r, p)
      PROVE PartialInv'
  BY <1>15 DEF FetchStore, Upload, Step
<1>16. ASSUME NEW r \in Runs, NEW p \in Pages, FetchRecord(r, p)
      PROVE PartialInv'
  BY <1>16 DEF FetchRecord, Step
<1>17. ASSUME NEW r \in Runs, NEW p \in Pages, FetchGiveUp(r, p)
      PROVE PartialInv'
  BY <1>17, FailureCounted DEF FetchGiveUp, Step, RecordFailure
<1>18. ASSUME NEW r \in Runs, NEW p \in Pages, FetchRetry(r, p)
      PROVE PartialInv'
  BY <1>18 DEF FetchRetry, MayRetry, Step
<1>19. ASSUME NEW r \in Runs, NEW p \in Pages, FetchReport(r, p)
      PROVE PartialInv'
  <2>1. \/ asm' = asm
        \/ asm' = [asm EXCEPT ![r] = AssembleAt("queued")]
    BY <1>19 DEF FetchReport
  <2>2. \A s \in Runs : asm'[s] = asm[s] \/ asm'[s] = AssembleAt("queued")
    BY <2>1
  <2>3. /\ AssembleAt("queued").failedSeen = FALSE
        /\ AssembleAt("queued").verdict = "PENDING"
    BY DEF AssembleAt, Assembling
  <2>4. ASSUME NEW s \in Runs, asm'[s].failedSeen \/ asm'[s].verdict = "PARTIAL"
        PROVE failures # {}
    <3>1. CASE asm'[s] = asm[s]
      BY <2>4, <3>1
    <3>2. CASE asm'[s] = AssembleAt("queued")
      BY <2>3, <2>4, <3>2
    <3>. QED
      BY <2>2, <3>1, <3>2
  <2>5. UNCHANGED <<state, failures, pagesFailed>>
    BY <1>19 DEF FetchReport
  <2>. QED
    BY <2>4, <2>5
<1>20. ASSUME NEW r \in Runs, NEW p \in Pages, FetchAck(r, p)
      PROVE PartialInv'
  BY <1>20 DEF FetchAck, Step
<1>21. ASSUME NEW r \in Runs, NEW p \in Pages, FetchTimeLimit(r, p)
      PROVE PartialInv'
  BY <1>21, FailureCounted DEF FetchTimeLimit, Step, RecordFailure
<1>22. ASSUME NEW r \in Runs, NEW p \in Pages, FetchError(r, p)
      PROVE PartialInv'
  BY <1>22 DEF FetchError, Step
<1>23. ASSUME NEW r \in Runs, NEW p \in Pages, FetchLost(r, p)
      PROVE PartialInv'
  BY <1>23 DEF FetchLost, Step
<1>24. ASSUME NEW r \in Runs, AssembleReceive(r)
      PROVE PartialInv'
  BY <1>24 DEF AssembleReceive, AssembleAt, Assembling
<1>25. ASSUME NEW r \in Runs, AssembleSnapshot(r)
      PROVE PartialInv'
  BY <1>25 DEF AssembleSnapshot, Emitted, Assembling, Verdict
<1>26. ASSUME NEW r \in Runs, AssembleUpload(r)
      PROVE PartialInv'
  BY <1>26 DEF AssembleUpload
<1>27. ASSUME NEW r \in Runs, AssembleRead(r)
      PROVE PartialInv'
  BY <1>27 DEF AssembleRead, Assembling
<1>28. ASSUME NEW r \in Runs, AssembleCommit(r)
      PROVE PartialInv'
  BY <1>28 DEF AfterCommit, AssembleCommit, AssembleAt, Assembling
<1>29. ASSUME NEW r \in Runs, AssembleRefused(r)
      PROVE PartialInv'
  BY <1>29 DEF AssembleRefused, AssembleAt, Assembling
<1>30. ASSUME NEW r \in Runs, AssembleNotify(r)
      PROVE PartialInv'
  BY <1>30 DEF AssembleNotify, AssembleAt, Assembling
<1>31. ASSUME NEW r \in Runs, AssembleAck(r)
      PROVE PartialInv'
  BY <1>31 DEF AssembleAck, AssembleAt, Assembling
<1>32. ASSUME NEW r \in Runs, AssembleLost(r)
      PROVE PartialInv'
  BY <1>32 DEF AssembleLost, AssembleAt, Assembling
<1>33. ASSUME NEW r \in Runs, AssembleError(r)
      PROVE PartialInv'
  BY <1>33 DEF AssembleError, AssembleAt, Assembling
<1>34. CASE UNCHANGED vars
  BY <1>34 DEF vars
<1>. QED
  BY <1>1, <1>2, <1>3, <1>4, <1>5, <1>6, <1>7, <1>8, <1>9, <1>10, <1>11,
     <1>12, <1>13, <1>14, <1>15, <1>16, <1>17, <1>18, <1>19, <1>20, <1>21,
     <1>22, <1>23, <1>24, <1>25, <1>26, <1>27, <1>28, <1>29, <1>30, <1>31,
     <1>32, <1>33, <1>34
  DEF Next, CrawlStep, CrawlDisturbed, FetchStep, FetchDisturbed, AssembleStep

\* An upload is Store, the first record of a page is Enter, and everything else
\* leaves the ledger alone.
LEMMA LedgerStep ==
  TypeOK /\ CheckpointInv /\ [Next]_vars =>
    [Ledger!LedgerNext]_<<objects, pages, pagesDone>>
<1> SUFFICES ASSUME TypeOK, CheckpointInv, [Next]_vars
             PROVE  [Ledger!LedgerNext]_<<objects, pages, pagesDone>>
  OBVIOUS
<1> DEFINE Goal == [Ledger!LedgerNext]_<<objects, pages, pagesDone>>
<1> USE DEF pipeline, outside, job, tables, targets, store, fetching
<1>1. CASE CrawlReceive
  BY <1>1 DEF CrawlReceive
<1>2. CASE StartRun
  BY <1>2 DEF StartRun, Plan
<1>3. CASE ResumeRun
  BY <1>3 DEF ResumeRun, BumpLost, Plan
<1>4. CASE ParkPoisonPill
  BY <1>4 DEF ParkPoisonPill, BumpLost
<1>5. CASE PublishChord
  BY <1>5 DEF PublishChord
<1>6. CASE PublishAssemble
  BY <1>6 DEF PublishAssemble
<1>7. CASE CrawlAck
  BY <1>7 DEF CrawlAck
<1>8. CASE CrawlLost
  BY <1>8 DEF CrawlLost, Redelivered
<1>9. CASE CrawlLostPublishing
  BY <1>9 DEF CrawlLostPublishing, Redelivered
<1>10. CASE CrawlError
  BY <1>10 DEF CrawlError
<1>11. CASE CrawlRevoked
  BY <1>11 DEF CrawlRevoked
<1>12. CASE CancelRead
  BY <1>12 DEF CancelRead
<1>13. CASE CancelCommit
  BY <1>13 DEF CancelCommit
<1>14. ASSUME NEW r \in Runs, NEW p \in Pages, FetchReceive(r, p)
      PROVE Goal
  BY <1>14 DEF FetchReceive, Step
<1>15. ASSUME NEW r \in Runs, NEW p \in Pages, FetchStore(r, p)
      PROVE Goal
  BY <1>15 DEF FetchStore, Upload, Ledger!LedgerNext, Ledger!Store
<1>16. ASSUME NEW r \in Runs, NEW p \in Pages, FetchRecord(r, p)
      PROVE Goal
  <2>1. p \in objects
    BY <1>16 DEF FetchRecord, Step, CheckpointInv
  <2>2. CASE p \in pages
    BY <1>16, <2>2 DEF FetchRecord, RecordPage
  <2>3. CASE p \notin pages
    BY <1>16, <2>1, <2>3
    DEF FetchRecord, RecordPage, RecordPageAgain, Ledger!LedgerNext,
       Ledger!Enter
  <2>. QED
    BY <2>2, <2>3
<1>17. ASSUME NEW r \in Runs, NEW p \in Pages, FetchGiveUp(r, p)
      PROVE Goal
  BY <1>17 DEF FetchGiveUp, Step, RecordFailure
<1>18. ASSUME NEW r \in Runs, NEW p \in Pages, FetchRetry(r, p)
      PROVE Goal
  BY <1>18 DEF FetchRetry, MayRetry, Step
<1>19. ASSUME NEW r \in Runs, NEW p \in Pages, FetchReport(r, p)
      PROVE Goal
  BY <1>19 DEF FetchReport
<1>20. ASSUME NEW r \in Runs, NEW p \in Pages, FetchAck(r, p)
      PROVE Goal
  BY <1>20 DEF FetchAck, Step
<1>21. ASSUME NEW r \in Runs, NEW p \in Pages, FetchTimeLimit(r, p)
      PROVE Goal
  BY <1>21 DEF FetchTimeLimit, Step, RecordFailure
<1>22. ASSUME NEW r \in Runs, NEW p \in Pages, FetchError(r, p)
      PROVE Goal
  BY <1>22 DEF FetchError, Step
<1>23. ASSUME NEW r \in Runs, NEW p \in Pages, FetchLost(r, p)
      PROVE Goal
  BY <1>23 DEF FetchLost, Step
<1>24. ASSUME NEW r \in Runs, AssembleReceive(r)
      PROVE Goal
  BY <1>24 DEF AssembleReceive
<1>25. ASSUME NEW r \in Runs, AssembleSnapshot(r)
      PROVE Goal
  BY <1>25 DEF AssembleSnapshot
<1>26. ASSUME NEW r \in Runs, AssembleUpload(r)
      PROVE Goal
  BY <1>26 DEF AssembleUpload
<1>27. ASSUME NEW r \in Runs, AssembleRead(r)
      PROVE Goal
  BY <1>27 DEF AssembleRead
<1>28. ASSUME NEW r \in Runs, AssembleCommit(r)
      PROVE Goal
  BY <1>28 DEF AfterCommit, AssembleCommit
<1>29. ASSUME NEW r \in Runs, AssembleRefused(r)
      PROVE Goal
  BY <1>29 DEF AssembleRefused
<1>30. ASSUME NEW r \in Runs, AssembleNotify(r)
      PROVE Goal
  BY <1>30 DEF AssembleNotify
<1>31. ASSUME NEW r \in Runs, AssembleAck(r)
      PROVE Goal
  BY <1>31 DEF AssembleAck
<1>32. ASSUME NEW r \in Runs, AssembleLost(r)
      PROVE Goal
  BY <1>32 DEF AssembleLost
<1>33. ASSUME NEW r \in Runs, AssembleError(r)
      PROVE Goal
  BY <1>33 DEF AssembleError
<1>34. CASE UNCHANGED vars
  BY <1>34 DEF vars
<1>. QED
  BY <1>1, <1>2, <1>3, <1>4, <1>5, <1>6, <1>7, <1>8, <1>9, <1>10, <1>11,
     <1>12, <1>13, <1>14, <1>15, <1>16, <1>17, <1>18, <1>19, <1>20, <1>21,
     <1>22, <1>23, <1>24, <1>25, <1>26, <1>27, <1>28, <1>29, <1>30, <1>31,
     <1>32, <1>33, <1>34
  DEF Next, CrawlStep, CrawlDisturbed, FetchStep, FetchDisturbed, AssembleStep

-----------------------------------------------------------------------------
(* Theorems *)

\* The inductive invariant: the parts need each other's step lemmas only through
\* TypeOK and PoisonInv.
IInv == TypeOK /\ PoisonInv /\ CheckpointInv /\ ResultInv /\ PartialInv

\* The other parts hold of a submitted job, which has no page, file or failure.
LEMMA InitRest == Init => CheckpointInv /\ ResultInv /\ PartialInv
<1> SUFFICES ASSUME Init PROVE CheckpointInv /\ ResultInv /\ PartialInv
  OBVIOUS
<1> USE DEF Init
<1>1. CheckpointInv
  BY DEF CheckpointInv
<1>2. ResultInv
  BY DEF ResultInv, ResultBehindState, AssembleAt, Assembling
<1>3. Cardinality({}) = 0
  BY FS_EmptySet
<1>4. \A r \in Runs : asm[r].failedSeen = FALSE /\ asm[r].verdict = "PENDING"
  BY DEF AssembleAt, Assembling
<1>5. PartialInv
  BY <1>3, <1>4 DEF PartialInv, PartialExplained
<1>. QED
  BY <1>1, <1>2, <1>5

\* The conjunction is inductive.
LEMMA Inductive == Spec => []IInv
<1>1. Init => IInv
  BY InitType, InitPoison, InitRest DEF IInv
<1>2. IInv /\ [Next]_vars => IInv'
  BY TypeStep, PoisonStep, CheckpointStep, ResultStep, PartialStep DEF IInv
<1>. QED
  BY <1>1, <1>2, PTL DEF Spec

\* Every variable keeps its type; in particular attempts and the lost counter
\* never exceed the poison-pill threshold, so runs 1 .. PoisonThreshold are all
\* the runs there are.
THEOREM TypeCorrect == Spec => []TypeOK
<1>1. IInv => TypeOK
  BY DEF IInv
<1>. QED
  BY <1>1, Inductive, PTL

\* The bound of the dead-letter design for crawl_job, whatever the threshold:
\* attempts follow counted deaths, and the job is parked exactly once, exactly
\* at the threshold (crawl.py:72-81).
THEOREM PoisonPillBound == Spec => []PoisonPillParked
<1>1. IInv => PoisonPillParked
  BY ConfigAssumption DEF IInv, TypeOK, PoisonInv, PoisonPillParked
<1>. QED
  BY <1>1, Inductive, PTL

\* The checkpoint never runs ahead of the data, with any number of runs, pages,
\* crashes and redeliveries.
THEOREM CheckpointSafe == Spec => []CheckpointBacked
<1>1. IInv => CheckpointBacked
  BY DEF IInv, TypeOK, CheckpointInv, CheckpointBacked, Loaded
<1>. QED
  BY <1>1, Inductive, PTL

\* A state that promises a result is only ever committed behind an uploaded
\* file made of recorded pages, even when it overwrites another final state.
THEOREM ResultSafe == Spec => []ResultBehindState
<1>1. IInv => ResultBehindState
  BY DEF IInv, ResultInv
<1>. QED
  BY <1>1, Inductive, PTL

\* A PARTIAL job has a failed page on record, and the counter never hides one.
THEOREM PartialSafe == Spec => []PartialExplained
<1>1. IInv => PartialExplained
  BY DEF IInv, PartialInv
<1>. QED
  BY <1>1, Inductive, PTL

\* CrawlPipeline implements PageLedger: under any redelivery pages_done counts
\* every page once, after its upload.
THEOREM LedgerImplemented == Spec => LedgerRefined
<1>1. Init => Ledger!LedgerInit
  BY DEF Init, Ledger!LedgerInit
<1>2. IInv /\ [Next]_vars => [Ledger!LedgerNext]_<<objects, pages, pagesDone>>
  BY LedgerStep DEF IInv
<1>. QED
  BY <1>1, <1>2, Inductive, PTL DEF Spec, LedgerRefined, Ledger!LedgerSpec

-----------------------------------------------------------------------------
(* What a job promises its owner, over any number of runs *)

\* Nothing of run r has been published.
Unpublished(r) ==
  /\ header[r] = {} /\ asm[r].pc = "none"
  /\ \A p \in Pages : task[r][p] = "none" /\ part[r][p] = "none"

\* The runs to come, and one that is only planned, have published nothing.
NextRuns ==
  \A r \in Runs :
    r > attempts \/ (crawl.pc = "planned" /\ r = attempts) => Unpublished(r)

\* A run is given every page that has not been recorded. Its chord consists of
\* those pages, and its assembly has all their parts, none of them an error.
ChordInv ==
  /\ NextRuns
  /\ crawl.pc = "planned" => Pages \ crawl.todo \subseteq pages
  /\ \A r \in Runs :
       /\ Unpublished(r) \/ Pages \ header[r] \subseteq pages
       /\ \A p \in Pages :
            task[r][p] # "none" \/ part[r][p] # "none" => p \in header[r]
       /\ asm[r].pc # "none" =>
            \A p \in header[r] : part[r][p] \in {"rows", "failed", "skipped"}

\* A failed page is on record before its part is, so that an assembly that saw
\* no failure has no failed part.
FailedPartInv ==
  /\ \A r \in Runs, p \in Pages :
       task[r][p] = "failed" \/ part[r][p] = "failed" =>
         p \in failures /\ pagesFailed > 0
  /\ \A r \in Runs :
       \/ asm[r].pc = "received" /\ ~asm[r].failedSeen
       \/ /\ asm[r].pc \in {"stored", "uploaded", "read"}
          /\ asm[r].verdict = "SUCCEEDED"
       => \A p \in Pages : part[r][p] # "failed"

\* A page is skipped only after the job was cancelled, and a job that was
\* planned and has ended does not run again: an assembly with a skipped part
\* reads a final state.
SkippedPartInv ==
  /\ \A r \in Runs : asm[r].pc = "read" =>
       asm[r].saw \in {"RUNNING"} \union TerminalStates
  /\ \A r \in Runs, p \in Pages :
       /\ task[r][p] = "skipped" \/ part[r][p] = "skipped" =>
            state \in TerminalStates
       /\ part[r][p] = "skipped" /\ asm[r].pc = "read" =>
            asm[r].saw \in TerminalStates

\* The assemblies that will decide, or have decided and will call back.
Telling ==
  {r \in Runs : \/ asm[r].pc = "committed"
                \/ asm[r].pc = "read" /\ asm[r].saw = "RUNNING"}

\* Only an assembly that read RUNNING decides and calls back, and after the
\* first of them no other one reads RUNNING.
NotifyInv ==
  /\ state \notin TerminalStates =>
       callbacks = 0 /\ \A r \in Runs : asm[r].pc # "committed"
  /\ \A r \in Runs : asm[r].pc = "committed" => key
  /\ callbacks > 0 => key
  /\ callbacks + Cardinality(Telling) <= attempts

-----------------------------------------------------------------------------
\* A step of one task, which was sent, disturbs no chord.
LEMMA TaskMoves ==
  ASSUME TypeOK, ChordInv, NEW r \in Runs, NEW p \in Pages, NEW to,
         task[r][p] # "none", task' = [task EXCEPT ![r][p] = to],
         UNCHANGED <<attempts, crawl, header, part, asm>>,
         pages \subseteq pages'
  PROVE  ChordInv'
<1>1. /\ p \in header[r] /\ ~Unpublished(r)
  BY DEF ChordInv, Unpublished
<1>2. \A s \in Runs : Unpublished(s) <=> Unpublished(s)'
  <2> TAKE s \in Runs
  <2>1. CASE s = r
    BY <1>1, <2>1 DEF Unpublished
  <2>2. CASE s # r
    <3>1. task'[s] = task[s]
      BY <2>2 DEF TypeOK
    <3>. QED
      BY <3>1 DEF Unpublished
  <2>. QED
    BY <2>1, <2>2
<1>3. \A s \in Runs, q \in Pages :
        task'[s][q] # "none" \/ part'[s][q] # "none" => q \in header'[s]
  <2> TAKE s \in Runs, q \in Pages
  <2>1. CASE s = r /\ q = p
    BY <1>1, <2>1
  <2>2. CASE ~(s = r /\ q = p)
    <3>1. task'[s][q] = task[s][q]
      BY <2>2 DEF TypeOK
    <3>. QED
      BY <3>1 DEF ChordInv
  <2>. QED
    BY <2>1, <2>2
<1>4. NextRuns'
  BY <1>2 DEF ChordInv, NextRuns
<1>5. \A s \in Runs :
        asm'[s].pc # "none" =>
          \A q \in header'[s] : part'[s][q] \in {"rows", "failed", "skipped"}
  BY DEF ChordInv
<1>6. /\ crawl'.pc = "planned" => Pages \ crawl'.todo \subseteq pages'
      /\ \A s \in Runs : Unpublished(s)' \/ Pages \ header'[s] \subseteq pages'
  <2>1. /\ crawl.pc = "planned" => Pages \ crawl.todo \subseteq pages
        /\ \A s \in Runs : Unpublished(s) \/ Pages \ header[s] \subseteq pages
    BY DEF ChordInv
  <2>. QED
    BY <1>2, <2>1
<1>. QED
  BY <1>3, <1>4, <1>5, <1>6 DEF ChordInv

\* A run is given what is pending, and its assembly starts behind its parts.
LEMMA ChordStep == TypeOK /\ PoisonInv /\ ChordInv /\ [Next]_vars => ChordInv'
<1> SUFFICES ASSUME TypeOK, PoisonInv, ChordInv, [Next]_vars PROVE ChordInv'
  OBVIOUS
<1> USE ConfigAssumption
    DEF TypeOK, ChordInv, NextRuns, Unpublished, pipeline, outside, job,
        tables, targets, store, fetching, CrawlBody, AssembleBody, Outcome
<1>1. CASE CrawlReceive
  BY <1>1 DEF CrawlReceive, CrawlAt, Crawling
<1>2. CASE StartRun
  <2>1. /\ attempts' = attempts + 1 /\ attempts \in Nat /\ crawl'.pc = "planned"
        /\ crawl'.todo = Pages \ pages
        /\ UNCHANGED <<asm, header, task, part, pages>>
    BY <1>2 DEF StartRun, Plan, PagesToFetch, Crawling
  <2>2. NextRuns'
    <3>1. \A r \in Runs : r >= attempts + 1 => Unpublished(r)
      BY <2>1 DEF Runs
    <3>2. \A r \in Runs : Unpublished(r) => Unpublished(r)'
      BY <2>1
    <3>. QED
      BY <2>1, <3>1, <3>2 DEF Runs
  <2>3. Pages \ crawl'.todo \subseteq pages'
    BY <2>1
  <2>. QED
    BY <2>1, <2>2, <2>3
<1>3. CASE ResumeRun
  <2>1. /\ attempts' = attempts + 1 /\ attempts \in Nat /\ crawl'.pc = "planned"
        /\ crawl'.todo = Pages \ pages
        /\ UNCHANGED <<asm, header, task, part, pages>>
    BY <1>3 DEF ResumeRun, BumpLost, Plan, PagesToFetch, Crawling
  <2>2. NextRuns'
    <3>1. \A r \in Runs : r >= attempts + 1 => Unpublished(r)
      BY <2>1 DEF Runs
    <3>2. \A r \in Runs : Unpublished(r) => Unpublished(r)'
      BY <2>1
    <3>. QED
      BY <2>1, <3>1, <3>2 DEF Runs
  <2>3. Pages \ crawl'.todo \subseteq pages'
    BY <2>1
  <2>. QED
    BY <2>1, <2>2, <2>3
<1>4. CASE ParkPoisonPill
  BY <1>4 DEF ParkPoisonPill, BumpLost, CrawlAt, Crawling
<1>5. CASE PublishChord
  BY <1>5 DEF PublishChord, Enqueue, CrawlAt, Crawling
<1>6. CASE PublishAssemble
  BY <1>6 DEF PublishAssemble, AssembleAt, Assembling, CrawlAt, Crawling
<1>7. CASE CrawlAck
  BY <1>7 DEF CrawlAck, CrawlAt, Crawling
<1>8. CASE CrawlLost
  BY <1>8 DEF CrawlLost, Redelivered, CrawlAt, Crawling
<1>9. CASE CrawlLostPublishing
  <2>1. attempts \in Runs /\ Unpublished(attempts)
    BY <1>9 DEF CrawlLostPublishing, PoisonInv, Runs
  <2>2. PICK sent \in SUBSET crawl.todo : Enqueue(sent)
    BY <1>9 DEF CrawlLostPublishing
  <2>3. /\ crawl.pc = "planned" /\ crawl'.pc = "queued"
        /\ header' = [header EXCEPT ![attempts] = crawl.todo]
        /\ \A p \in Pages : task'[attempts][p] # "none" => p \in crawl.todo
        /\ \A s \in Runs \ {attempts} : task'[s] = task[s]
        /\ UNCHANGED <<attempts, pages, part, asm>>
    BY <1>9, <2>1, <2>2
    DEF CrawlLostPublishing, Enqueue, Redelivered, CrawlAt, Crawling
  <2>4. ASSUME NEW r \in Runs \ {attempts}, Unpublished(r)
        PROVE  Unpublished(r)'
    <3>1. /\ header'[r] = header[r] /\ task'[r] = task[r]
          /\ part'[r] = part[r] /\ asm'[r] = asm[r]
      BY <2>3, <2>4
    <3>. QED
      BY <2>4, <3>1
  <2>5. NextRuns'
    <3>1. \A r \in Runs : r > attempts => r # attempts /\ Unpublished(r)
      OBVIOUS
    <3>2. crawl'.pc # "planned" /\ attempts' = attempts
      BY <2>3
    <3>. QED
      BY <2>4, <3>1, <3>2
  <2>6. Pages \ header'[attempts] \subseteq pages'
    BY <2>1, <2>3
  <2>. QED
    BY <2>1, <2>3, <2>4, <2>5, <2>6
<1>10. CASE CrawlError
  BY <1>10 DEF CrawlError, CrawlAt, Crawling
<1>11. CASE CrawlRevoked
  BY <1>11 DEF CrawlRevoked, CrawlAt, Crawling
<1>12. CASE CancelRead
  BY <1>12 DEF CancelRead
<1>13. CASE CancelCommit
  BY <1>13 DEF CancelCommit
<1>14. ASSUME NEW r \in Runs, NEW p \in Pages, FetchReceive(r, p)
      PROVE ChordInv'
  BY <1>14, TaskMoves DEF FetchReceive, Step
<1>15. ASSUME NEW r \in Runs, NEW p \in Pages, FetchStore(r, p)
      PROVE ChordInv'
  BY <1>15, TaskMoves DEF FetchStore, Step, Upload
<1>16. ASSUME NEW r \in Runs, NEW p \in Pages, FetchRecord(r, p)
      PROVE ChordInv'
  <2>1. /\ task[r][p] = "stored" /\ task' = [task EXCEPT ![r][p] = "rows"]
        /\ UNCHANGED <<attempts, crawl, header, part, asm>>
    BY <1>16 DEF FetchRecord, Step
  <2>2. pages \subseteq pages'
    BY <1>16 DEF FetchRecord, RecordPage, RecordPageAgain
  <2>. QED
    BY <2>1, <2>2, TaskMoves
<1>17. ASSUME NEW r \in Runs, NEW p \in Pages, FetchGiveUp(r, p)
      PROVE ChordInv'
  BY <1>17, TaskMoves DEF FetchGiveUp, Step, RecordFailure
<1>18. ASSUME NEW r \in Runs, NEW p \in Pages, FetchRetry(r, p)
      PROVE ChordInv'
  BY <1>18, TaskMoves DEF FetchRetry, Step
<1>19. ASSUME NEW r \in Runs, NEW p \in Pages, FetchReport(r, p)
      PROVE ChordInv'
  <2>1. /\ task[r][p] \in Outcome /\ p \in header[r] /\ ~Unpublished(r)
        /\ task' = [task EXCEPT ![r][p] = "reported"]
        /\ UNCHANGED <<attempts, crawl, pages, header>>
    BY <1>19 DEF FetchReport
  <2>2. CASE part[r][p] # "none"
    <3>1. UNCHANGED <<part, asm>>
      BY <1>19, <2>2 DEF FetchReport
    <3>. QED
      BY <2>1, <3>1, TaskMoves
  <2>3. CASE part[r][p] = "none"
    <3>1. /\ part' = [part EXCEPT ![r][p] = task[r][p]]
          /\ asm' = IF Fires(r, part')
                      THEN [asm EXCEPT ![r] = AssembleAt("queued")] ELSE asm
      BY <1>19, <2>3 DEF FetchReport
    <3>2. \A s \in Runs \ {r} :
            /\ task'[s] = task[s] /\ part'[s] = part[s] /\ asm'[s] = asm[s]
      BY <2>1, <3>1
    <3>3. asm[r].pc = "none"
      BY <2>1, <2>3
    <3>4. asm'[r].pc # "none" =>
            \A q \in header[r] : part'[r][q] \in {"rows", "failed", "skipped"}
      BY <3>1, <3>3 DEF Fires
    <3>5. \A q \in Pages :
            task'[r][q] # "none" \/ part'[r][q] # "none" => q \in header[r]
      BY <2>1, <3>1
    <3>. QED
      BY <2>1, <3>2, <3>4, <3>5
  <2>. QED
    BY <2>2, <2>3
<1>20. ASSUME NEW r \in Runs, NEW p \in Pages, FetchAck(r, p)
      PROVE ChordInv'
  BY <1>20, TaskMoves DEF FetchAck, Step
<1>21. ASSUME NEW r \in Runs, NEW p \in Pages, FetchTimeLimit(r, p)
      PROVE ChordInv'
  BY <1>21, TaskMoves DEF FetchTimeLimit, Step, RecordFailure
<1>22. ASSUME NEW r \in Runs, NEW p \in Pages, FetchError(r, p)
      PROVE ChordInv'
  BY <1>22, TaskMoves DEF FetchError, Step
<1>23. ASSUME NEW r \in Runs, NEW p \in Pages, FetchLost(r, p)
      PROVE ChordInv'
  BY <1>23, TaskMoves DEF FetchLost, Step, Outcome
<1>24. ASSUME NEW r \in Runs, AssembleReceive(r)
      PROVE ChordInv'
  BY <1>24 DEF AssembleReceive, AssembleAt, Assembling
<1>25. ASSUME NEW r \in Runs, AssembleSnapshot(r)
      PROVE ChordInv'
  BY <1>25 DEF AssembleSnapshot, Assembling, Verdict
<1>26. ASSUME NEW r \in Runs, AssembleUpload(r)
      PROVE ChordInv'
  BY <1>26 DEF AssembleUpload
<1>27. ASSUME NEW r \in Runs, AssembleRead(r)
      PROVE ChordInv'
  BY <1>27 DEF AssembleRead, Assembling
<1>28. ASSUME NEW r \in Runs, AssembleCommit(r)
      PROVE ChordInv'
  BY <1>28 DEF AssembleCommit, AfterCommit, AssembleAt, Assembling
<1>29. ASSUME NEW r \in Runs, AssembleRefused(r)
      PROVE ChordInv'
  BY <1>29 DEF AssembleRefused, AssembleAt, Assembling
<1>30. ASSUME NEW r \in Runs, AssembleNotify(r)
      PROVE ChordInv'
  BY <1>30 DEF AssembleNotify, AssembleAt, Assembling
<1>31. ASSUME NEW r \in Runs, AssembleAck(r)
      PROVE ChordInv'
  BY <1>31 DEF AssembleAck, AssembleAt, Assembling
<1>32. ASSUME NEW r \in Runs, AssembleLost(r)
      PROVE ChordInv'
  BY <1>32 DEF AssembleLost, AssembleAt, Assembling
<1>33. ASSUME NEW r \in Runs, AssembleError(r)
      PROVE ChordInv'
  BY <1>33 DEF AssembleError, AssembleAt, Assembling
<1>34. CASE UNCHANGED vars
  BY <1>34 DEF vars
<1> HIDE DEF TypeOK, ChordInv, NextRuns, Unpublished, pipeline, outside, job,
            tables, targets, store, fetching, CrawlBody, AssembleBody, Outcome
<1>. QED
  BY <1>1, <1>2, <1>3, <1>4, <1>5, <1>6, <1>7, <1>8, <1>9, <1>10, <1>11,
     <1>12, <1>13, <1>14, <1>15, <1>16, <1>17, <1>18, <1>19, <1>20, <1>21,
     <1>22, <1>23, <1>24, <1>25, <1>26, <1>27, <1>28, <1>29, <1>30, <1>31,
     <1>32, <1>33, <1>34
  DEF Next, CrawlStep, CrawlDisturbed, FetchStep, FetchDisturbed, AssembleStep

\* What a step does to the row and the tables: nothing is taken back, and a job
\* that was planned and has ended does not run again.
RowMoves ==
  /\ pages \subseteq pages' /\ failures \subseteq failures'
  /\ pagesFailed > 0 => pagesFailed' > 0
  /\ attempts <= attempts'
  /\ key => key'
  /\ attempts > 0 /\ state \in TerminalStates => state' \in TerminalStates
  /\ \/ callbacks' = callbacks
     \/ /\ callbacks' = callbacks + 1
        /\ \E r \in Runs : asm[r].pc = "committed" /\ asm'[r].pc = "done"

\* To the tasks: a failure is recorded before it is an outcome, a page is
\* skipped after the cancel, and a part is an outcome.
TaskMoved ==
  \A r \in Runs, p \in Pages :
    /\ task'[r][p] = "failed" =>
         task[r][p] = "failed" \/ (p \in failures' /\ pagesFailed' > 0)
    /\ task'[r][p] = "skipped" =>
         task[r][p] = "skipped" \/ state' \in TerminalStates
    /\ part'[r][p] # part[r][p] => part'[r][p] = task[r][p]

\* To the assemblies: from step to step, or back to the queue, or to the end.
AssemblyMoved ==
  \A r \in Runs :
    \/ asm'[r] = asm[r]
    \/ asm'[r].pc \in {"queued", "done", "acked"}
    \/ /\ asm[r].pc = "queued" /\ asm'[r].pc = "received"
       /\ ~(pagesFailed > 0) \/ asm'[r].failedSeen
    \/ /\ asm[r].pc = "received" /\ asm'[r].pc = "stored"
       /\ asm'[r].verdict = "SUCCEEDED" => ~asm[r].failedSeen
    \/ /\ asm[r].pc = "stored" /\ asm'[r].pc = "uploaded"
       /\ asm'[r].verdict = asm[r].verdict
    \/ /\ asm[r].pc = "uploaded" /\ asm'[r].pc = "read"
       /\ asm'[r].verdict = asm[r].verdict /\ asm'[r].saw = state
       /\ UNCHANGED state
    \/ /\ AssembleCommit(r)
       /\ asm[r].pc = "read" /\ asm'[r].pc = "committed"
       /\ asm[r].saw = "RUNNING" /\ key' /\ state' \in TerminalStates

\* What an assembly has been given lasts.
PartsLast ==
  \A r \in Runs : asm[r].pc # "none" =>
    asm'[r].pc # "none" /\ header'[r] = header[r] /\ part'[r] = part[r]

Moved == RowMoves /\ TaskMoved /\ AssemblyMoved /\ PartsLast

\* Every step of the pipeline is a move of these kinds.
LEMMA Moves == TypeOK /\ PoisonInv /\ ChordInv /\ [Next]_vars => Moved
<1> SUFFICES ASSUME TypeOK, PoisonInv, ChordInv, [Next]_vars PROVE Moved
  OBVIOUS
<1> USE ConfigAssumption
    DEF TypeOK, Moved, RowMoves, TaskMoved, AssemblyMoved, PartsLast, pipeline,
        outside, job, tables, targets, store, fetching, CrawlBody, AssembleBody,
        Outcome
<1>1. CASE CrawlReceive
  BY <1>1 DEF CrawlReceive, CrawlAt, Crawling
<1>2. CASE StartRun
  BY <1>2 DEF StartRun, Plan, Crawling, PoisonInv
<1>3. CASE ResumeRun
  BY <1>3 DEF ResumeRun, BumpLost, Plan, Crawling
<1>4. CASE ParkPoisonPill
  BY <1>4 DEF ParkPoisonPill, BumpLost, CrawlAt, Crawling, TerminalStates
<1>5. CASE PublishChord
  BY <1>5
  DEF PublishChord, Enqueue, CrawlAt, Crawling, ChordInv, NextRuns,
      Unpublished, PoisonInv, Runs
<1>6. CASE PublishAssemble
  BY <1>6
  DEF PublishAssemble, AssembleAt, Assembling, CrawlAt, Crawling, ChordInv,
      NextRuns, Unpublished, PoisonInv, Runs
<1>7. CASE CrawlAck
  BY <1>7 DEF CrawlAck, CrawlAt, Crawling
<1>8. CASE CrawlLost
  BY <1>8 DEF CrawlLost, Redelivered, CrawlAt, Crawling
<1>9. CASE CrawlLostPublishing
  BY <1>9
  DEF CrawlLostPublishing, Redelivered, Enqueue, CrawlAt, Crawling,
      ChordInv, NextRuns, Unpublished, PoisonInv, Runs
<1>10. CASE CrawlError
  BY <1>10 DEF CrawlError, CrawlAt, Crawling
<1>11. CASE CrawlRevoked
  BY <1>11 DEF CrawlRevoked, CrawlAt, Crawling
<1>12. CASE CancelRead
  BY <1>12 DEF CancelRead
<1>13. CASE CancelCommit
  BY <1>13 DEF CancelCommit, TerminalStates
<1>14. ASSUME NEW r \in Runs, NEW p \in Pages, FetchReceive(r, p)
      PROVE Moved
  BY <1>14 DEF FetchReceive, Step, TerminalStates
<1>15. ASSUME NEW r \in Runs, NEW p \in Pages, FetchStore(r, p)
      PROVE Moved
  BY <1>15 DEF FetchStore, Step, Upload
<1>16. ASSUME NEW r \in Runs, NEW p \in Pages, FetchRecord(r, p)
      PROVE Moved
  BY <1>16 DEF FetchRecord, Step, RecordPage, RecordPageAgain
<1>17. ASSUME NEW r \in Runs, NEW p \in Pages, FetchGiveUp(r, p)
      PROVE Moved
  BY <1>17 DEF FetchGiveUp, Step, RecordFailure
<1>18. ASSUME NEW r \in Runs, NEW p \in Pages, FetchRetry(r, p)
      PROVE Moved
  BY <1>18 DEF FetchRetry, Step
<1>19. ASSUME NEW r \in Runs, NEW p \in Pages, FetchReport(r, p)
      PROVE Moved
  <2>1. /\ task[r][p] \in Outcome /\ p \in header[r]
        /\ task' = [task EXCEPT ![r][p] = "reported"]
        /\ UNCHANGED <<state, attempts, pages, failures, pagesFailed, key,
                       callbacks, header>>
    BY <1>19 DEF FetchReport, ChordInv
  <2>2. CASE part[r][p] # "none"
    BY <1>19, <2>1, <2>2 DEF FetchReport
  <2>3. CASE part[r][p] = "none"
    <3>1. /\ part' = [part EXCEPT ![r][p] = task[r][p]]
          /\ asm' = asm \/ asm' = [asm EXCEPT ![r] = AssembleAt("queued")]
      BY <1>19, <2>3 DEF FetchReport
    <3>2. asm[r].pc = "none"
      BY <2>1, <2>3 DEF ChordInv
    <3>3. \A s \in Runs : asm'[s] = asm[s] \/ asm'[s].pc = "queued"
      BY <3>1 DEF AssembleAt, Assembling
    <3>4. PartsLast
      BY <2>1, <3>1, <3>2
    <3>. QED
      BY <2>1, <3>1, <3>3, <3>4
  <2>. QED
    BY <2>2, <2>3
<1>20. ASSUME NEW r \in Runs, NEW p \in Pages, FetchAck(r, p)
      PROVE Moved
  BY <1>20 DEF FetchAck, Step
<1>21. ASSUME NEW r \in Runs, NEW p \in Pages, FetchTimeLimit(r, p)
      PROVE Moved
  BY <1>21 DEF FetchTimeLimit, Step, RecordFailure
<1>22. ASSUME NEW r \in Runs, NEW p \in Pages, FetchError(r, p)
      PROVE Moved
  BY <1>22 DEF FetchError, Step
<1>23. ASSUME NEW r \in Runs, NEW p \in Pages, FetchLost(r, p)
      PROVE Moved
  BY <1>23 DEF FetchLost, Step
<1>24. ASSUME NEW r \in Runs, AssembleReceive(r)
      PROVE Moved
  <2>1. \/ asm'[r].pc = "done"
        \/ /\ asm'[r].pc = "received"
           /\ asm'[r].failedSeen = (pagesFailed > 0)
    BY <1>24 DEF AssembleReceive, AssembleAt, Assembling
  <2>2. /\ asm[r].pc = "queued" /\ asm'[r].pc # "none"
        /\ \A s \in Runs \ {r} : asm'[s] = asm[s]
        /\ UNCHANGED <<state, attempts, pages, failures, pagesFailed, key,
                       callbacks, header, task, part>>
    BY <1>24, <2>1 DEF AssembleReceive
  <2>3. AssemblyMoved
    BY <2>1, <2>2
  <2>4. RowMoves
    BY <2>2
  <2>5. TaskMoved /\ PartsLast
    BY <2>2
  <2>. QED
    BY <2>3, <2>4, <2>5
<1>25. ASSUME NEW r \in Runs, AssembleSnapshot(r)
      PROVE Moved
  BY <1>25 DEF AssembleSnapshot, Assembling, Verdict
<1>26. ASSUME NEW r \in Runs, AssembleUpload(r)
      PROVE Moved
  BY <1>26 DEF AssembleUpload
<1>27. ASSUME NEW r \in Runs, AssembleRead(r)
      PROVE Moved
  BY <1>27 DEF AssembleRead, Assembling
<1>28. ASSUME NEW r \in Runs, AssembleCommit(r)
      PROVE Moved
  <2>1. /\ asm[r].pc = "read" /\ asm[r].saw = "RUNNING"
        /\ state' \in TerminalStates /\ key'
    <3>1. CanTransition(asm[r].saw, asm[r].verdict)
      BY <1>28 DEF AssembleCommit
    <3>2. /\ asm[r].saw \in JobState
          /\ asm[r].verdict \in {"SUSPECT", "PARTIAL", "SUCCEEDED"}
      BY <1>28 DEF AssembleCommit, PoisonInv
    <3>. QED
      BY <1>28, <3>1, <3>2
      DEF AssembleCommit, CanTransition, Transitions, JobState, TerminalStates
  <2>2. /\ asm' = [asm EXCEPT ![r] = AssembleAt(AfterCommit)]
        /\ AssembleAt(AfterCommit).pc \in {"committed", "done"}
        /\ UNCHANGED <<attempts, pages, failures, pagesFailed, callbacks,
                       header, task, part>>
    BY <1>28 DEF AssembleCommit, AfterCommit, AssembleAt, Assembling
  <2>. QED
    BY <1>28, <2>1, <2>2
<1>29. ASSUME NEW r \in Runs, AssembleRefused(r)
      PROVE Moved
  BY <1>29 DEF AssembleRefused, AssembleAt, Assembling
<1>30. ASSUME NEW r \in Runs, AssembleNotify(r)
      PROVE Moved
  <2>1. /\ asm[r].pc = "committed" /\ callbacks' = callbacks + 1
        /\ asm' = [asm EXCEPT ![r] = AssembleAt("done")]
        /\ UNCHANGED <<tables, header, task, part>>
    BY <1>30 DEF AssembleNotify
  <2>2. asm'[r].pc = "done" /\ \A s \in Runs \ {r} : asm'[s] = asm[s]
    BY <2>1 DEF AssembleAt, Assembling
  <2>3. RowMoves
    BY <2>1, <2>2
  <2>4. TaskMoved /\ AssemblyMoved /\ PartsLast
    BY <2>1, <2>2
  <2>. QED
    BY <2>3, <2>4
<1>31. ASSUME NEW r \in Runs, AssembleAck(r)
      PROVE Moved
  BY <1>31 DEF AssembleAck, AssembleAt, Assembling
<1>32. ASSUME NEW r \in Runs, AssembleLost(r)
      PROVE Moved
  BY <1>32 DEF AssembleLost, AssembleAt, Assembling
<1>33. ASSUME NEW r \in Runs, AssembleError(r)
      PROVE Moved
  BY <1>33 DEF AssembleError, AssembleAt, Assembling
<1>34. CASE UNCHANGED vars
  BY <1>34 DEF vars
<1> HIDE DEF TypeOK, Moved, RowMoves, TaskMoved, AssemblyMoved, PartsLast,
            pipeline, outside, job, tables, targets, store, fetching,
            CrawlBody, AssembleBody, Outcome
<1>. QED
  BY <1>1, <1>2, <1>3, <1>4, <1>5, <1>6, <1>7, <1>8, <1>9, <1>10, <1>11,
     <1>12, <1>13, <1>14, <1>15, <1>16, <1>17, <1>18, <1>19, <1>20, <1>21,
     <1>22, <1>23, <1>24, <1>25, <1>26, <1>27, <1>28, <1>29, <1>30, <1>31,
     <1>32, <1>33, <1>34
  DEF Next, CrawlStep, CrawlDisturbed, FetchStep, FetchDisturbed, AssembleStep

\* What an assembly that has started reads is RUNNING or final.
LEMMA PlannedRows ==
  ASSUME TypeOK, PoisonInv, ChordInv, NEW r \in Runs, ~Unpublished(r)
  PROVE  attempts > 0 /\ state \in {"RUNNING"} \union TerminalStates
<1>1. attempts > 0
  BY ConfigAssumption DEF ChordInv, NextRuns, TypeOK, Runs
<1>. QED
  BY <1>1 DEF PoisonInv, TypeOK, JobState, TerminalStates

\* A failed part is on record, and an assembly that saw none has none.
LEMMA FailedPartStep ==
  ASSUME TypeOK, FailedPartInv, Moved
  PROVE  FailedPartInv'
<1> USE DEF Moved, FailedPartInv
<1>1. ASSUME NEW r \in Runs, NEW p \in Pages,
             task'[r][p] = "failed" \/ part'[r][p] = "failed"
      PROVE  p \in failures' /\ pagesFailed' > 0
  <2>1. \/ task[r][p] = "failed" \/ part[r][p] = "failed"
        \/ p \in failures' /\ pagesFailed' > 0
    BY <1>1 DEF TaskMoved
  <2>. QED
    BY <2>1 DEF RowMoves
<1>2. ASSUME NEW r \in Runs,
             \/ asm'[r].pc = "received" /\ ~asm'[r].failedSeen
             \/ /\ asm'[r].pc \in {"stored", "uploaded", "read"}
                /\ asm'[r].verdict = "SUCCEEDED"
      PROVE  \A p \in Pages : part'[r][p] # "failed"
  <2>1. /\ asm[r].pc # "none"
        /\ \/ asm[r].pc = "received" /\ ~asm[r].failedSeen
           \/ /\ asm[r].pc \in {"stored", "uploaded", "read"}
              /\ asm[r].verdict = "SUCCEEDED"
           \/ ~(pagesFailed > 0)
    BY <1>2 DEF AssemblyMoved
  <2>2. \A p \in Pages : part[r][p] # "failed"
    BY <2>1
  <2>. QED
    BY <2>1, <2>2 DEF PartsLast
<1>. QED
  BY <1>1, <1>2

\* A skipped page stands for a job that has ended, and stays ended.
LEMMA SkippedPartStep ==
  ASSUME TypeOK, PoisonInv, ChordInv, SkippedPartInv, Moved
  PROVE  SkippedPartInv'
<1> USE DEF Moved, SkippedPartInv
<1>1. ASSUME NEW r \in Runs, asm'[r].pc = "read"
      PROVE  asm'[r].saw \in {"RUNNING"} \union TerminalStates
  <2>1. ~Unpublished(r)
    BY <1>1 DEF AssemblyMoved, Unpublished
  <2>. QED
    BY <1>1, <2>1, PlannedRows DEF AssemblyMoved
<1>2. ASSUME NEW r \in Runs, NEW p \in Pages,
             task'[r][p] = "skipped" \/ part'[r][p] = "skipped"
      PROVE  state' \in TerminalStates
  <2>1. CASE task[r][p] = "skipped" \/ part[r][p] = "skipped"
    <3>1. state \in TerminalStates /\ ~Unpublished(r)
      BY <2>1 DEF Unpublished
    <3>. QED
      BY <3>1, PlannedRows DEF RowMoves
  <2>2. CASE ~(task[r][p] = "skipped" \/ part[r][p] = "skipped")
    BY <1>2, <2>2 DEF TaskMoved
  <2>. QED
    BY <2>1, <2>2
<1>3. ASSUME NEW r \in Runs, NEW p \in Pages,
             part'[r][p] = "skipped", asm'[r].pc = "read"
      PROVE  asm'[r].saw \in TerminalStates
  <2>1. /\ asm[r].pc # "none"
        /\ asm'[r] = asm[r] \/ asm'[r].saw = state
    BY <1>3 DEF AssemblyMoved
  <2>2. part[r][p] = "skipped"
    BY <1>3, <2>1 DEF PartsLast
  <2>. QED
    BY <1>3, <2>1, <2>2
<1>. QED
  BY <1>1, <1>2, <1>3

\* A callback is owed by a run that read RUNNING; the first commit ends that.
LEMMA NotifyStep ==
  ASSUME TypeOK, PoisonInv, ChordInv, NotifyInv, Moved, TypeOK'
  PROVE  NotifyInv'
<1> USE DEF Moved
<1>1. IsFiniteSet(Runs) /\ IsFiniteSet(Telling) /\ IsFiniteSet(Telling')
  <2>1. IsFiniteSet(Runs)
    BY ConfigAssumption, FS_Interval DEF Runs
  <2>. QED
    BY <2>1, FS_Subset DEF Telling
<1>2. /\ attempts \in Nat /\ attempts' \in Nat /\ attempts <= attempts'
      /\ callbacks \in Nat
    BY ConfigAssumption DEF TypeOK, RowMoves
<1>3. Cardinality(Telling) \in Nat /\ Cardinality(Telling') \in Nat
  BY <1>1, FS_CardinalityType
<1>4. ASSUME state' \notin TerminalStates
      PROVE  callbacks' = 0 /\ \A r \in Runs : asm'[r].pc # "committed"
  <2>1. callbacks = 0 /\ \A r \in Runs : asm[r].pc # "committed"
    <3>1. CASE attempts = 0
      <4>1. callbacks = 0
        BY <1>2, <1>3, <3>1 DEF NotifyInv
      <4>2. \A r \in Runs : Unpublished(r)
        BY <3>1 DEF ChordInv, NextRuns, Runs
      <4>. QED
        BY <4>1, <4>2 DEF Unpublished
    <3>2. CASE attempts > 0
      BY <1>4, <3>2 DEF RowMoves, NotifyInv
    <3>. QED
      BY <1>2, <3>1, <3>2
  <2>2. callbacks' = 0
    BY <2>1 DEF RowMoves
  <2>3. \A r \in Runs : asm'[r].pc # "committed"
    BY <1>4, <2>1 DEF AssemblyMoved
  <2>. QED
    BY <2>2, <2>3
<1>5. \A r \in Runs : asm'[r].pc = "committed" => key'
  BY DEF AssemblyMoved, RowMoves, NotifyInv
<1>6. callbacks' > 0 => key'
  BY <1>2 DEF RowMoves, NotifyInv
<1>7. callbacks' + Cardinality(Telling') <= attempts'
  <2>1. CASE state \notin TerminalStates
    <3>1. callbacks' = 0
      BY <2>1 DEF NotifyInv, RowMoves
    <3>2. Telling' \subseteq 1 .. attempts
      <4>1. \A r \in Runs : asm[r].pc # "none" => r <= attempts
        BY <1>2 DEF ChordInv, NextRuns, Unpublished, Runs
      <4>2. \A r \in Telling' : r \in Runs /\ asm[r].pc # "none"
        BY DEF Telling, AssemblyMoved
      <4>. QED
        BY <4>1, <4>2, <1>2 DEF Runs
    <3>3. IsFiniteSet(1 .. attempts) /\ Cardinality(1 .. attempts) = attempts
      <4>1. 1 \in Int /\ attempts \in Int
        BY <1>2
      <4>2. /\ IsFiniteSet(1 .. attempts)
            /\ Cardinality(1 .. attempts) =
                 IF 1 > attempts THEN 0 ELSE attempts - 1 + 1
        BY <4>1, FS_Interval, Zenon
      <4>. QED
        BY <1>2, <4>2
    <3>4. Cardinality(Telling') <= attempts
      BY <3>2, <3>3, FS_Subset
    <3>. QED
      BY <1>2, <1>3, <3>1, <3>4
  <2>2. CASE state \in TerminalStates
    <3>1. Telling' \subseteq Telling
      BY <2>2 DEF Telling, AssemblyMoved, TerminalStates
    <3>2. CASE callbacks' = callbacks
      <4>1. Cardinality(Telling') <= Cardinality(Telling)
        BY <1>1, <3>1, FS_Subset
      <4>. QED
        BY <1>2, <1>3, <3>2, <4>1 DEF NotifyInv
    <3>3. ASSUME NEW r \in Runs, asm[r].pc = "committed", asm'[r].pc = "done",
                 callbacks' = callbacks + 1
          PROVE  callbacks' + Cardinality(Telling') <= attempts'
      <4>1. r \in Telling /\ r \notin Telling'
        BY <3>3 DEF Telling
      <4>2. Telling' \subseteq Telling \ {r}
        BY <3>1, <4>1
      <4>3. /\ IsFiniteSet(Telling \ {r})
            /\ Cardinality(Telling \ {r}) = Cardinality(Telling) - 1
        BY <1>1, <4>1, FS_RemoveElement
      <4>4. Cardinality(Telling') <= Cardinality(Telling) - 1
        BY <4>2, <4>3, FS_Subset
      <4>. QED
        BY <1>2, <1>3, <3>3, <4>4 DEF NotifyInv
    <3>. QED
      BY <3>2, <3>3 DEF RowMoves
  <2>. QED
    BY <2>1, <2>2
<1>. QED
  BY <1>4, <1>5, <1>6, <1>7 DEF NotifyInv

\* An assembly that decides read RUNNING, so that none of its pages was skipped:
\* each is in the ledger or has failed, and none has failed behind SUCCEEDED.
LEMMA DecisionSafe ==
  ASSUME TypeOK, PoisonInv, CheckpointInv, PartialInv, ChordInv, FailedPartInv,
         SkippedPartInv, NEW r \in Runs, AssembleCommit(r)
  PROVE  /\ asm[r].verdict \in {"SUCCEEDED", "PARTIAL", "SUSPECT"}
         /\ pages \union failures = Pages
         /\ asm[r].verdict = "SUCCEEDED" => pages = Pages
         /\ asm[r].verdict = "PARTIAL" => failures # {}
<1>1. /\ asm[r].pc = "read" /\ CanTransition(asm[r].saw, asm[r].verdict)
      /\ asm[r].verdict \in {"SUCCEEDED", "PARTIAL", "SUSPECT"}
  BY DEF AssembleCommit, PoisonInv
<1>2. asm[r].saw \notin TerminalStates
  BY <1>1 DEF CanTransition, Transitions, JobState, TerminalStates
<1>3. \A p \in header[r] : part[r][p] \in {"rows", "failed"}
  BY <1>1, <1>2 DEF ChordInv, SkippedPartInv, TypeOK
<1>4. Pages \ header[r] \subseteq pages
  BY <1>1 DEF ChordInv, Unpublished
<1>5. \A p \in Pages : /\ part[r][p] = "rows" => p \in pages
                       /\ part[r][p] = "failed" => p \in failures
  BY DEF CheckpointInv, FailedPartInv
<1>6. pages \subseteq Pages /\ failures \subseteq Pages
  BY DEF TypeOK
<1>7. asm[r].verdict = "SUCCEEDED" => \A p \in Pages : part[r][p] # "failed"
  BY <1>1 DEF FailedPartInv
<1>8. asm[r].verdict = "PARTIAL" => failures # {}
  BY DEF PartialInv
<1>. QED
  BY <1>1, <1>3, <1>4, <1>5, <1>6, <1>7, <1>8

AccountInv ==
  ChordInv /\ FailedPartInv /\ SkippedPartInv /\ NotifyInv

\* Every step of the pipeline is one of its promise, or none.
LEMMA PromiseStep ==
  IInv /\ AccountInv /\ [Next]_vars => [Promise!PromiseNext]_Promise!promised
<1> SUFFICES ASSUME IInv, AccountInv, [Next]_vars
             PROVE  [Promise!PromiseNext]_Promise!promised
  OBVIOUS
<1>0. /\ TypeOK /\ PoisonInv /\ CheckpointInv /\ PartialInv
      /\ ChordInv /\ FailedPartInv /\ SkippedPartInv /\ NotifyInv
  BY DEF IInv, AccountInv
<1> USE <1>0, ConfigAssumption
    DEF TypeOK, pipeline, outside, job, tables, targets, store, fetching,
        Promise!promised
<1>1. CASE CrawlReceive
  BY <1>1 DEF CrawlReceive
<1>2. CASE StartRun
  <2>1. Promise!StartOrResume
    BY <1>2 DEF StartRun, Plan, PoisonInv, Promise!StartOrResume
  <2>. QED
    BY <2>1 DEF Promise!PromiseNext
<1>3. CASE ResumeRun
  <2>1. Promise!StartOrResume
    BY <1>3 DEF ResumeRun, BumpLost, Plan, PoisonInv, Promise!StartOrResume
  <2>. QED
    BY <2>1 DEF Promise!PromiseNext
<1>4. CASE ParkPoisonPill
  <2>1. Promise!Park
    BY <1>4 DEF ParkPoisonPill, BumpLost, PoisonInv, Promise!Park
  <2>. QED
    BY <2>1 DEF Promise!PromiseNext
<1>5. CASE PublishChord
  BY <1>5 DEF PublishChord
<1>6. CASE PublishAssemble
  BY <1>6 DEF PublishAssemble
<1>7. CASE CrawlAck
  BY <1>7 DEF CrawlAck
<1>8. CASE CrawlLost
  BY <1>8 DEF CrawlLost
<1>9. CASE CrawlLostPublishing
  BY <1>9 DEF CrawlLostPublishing
<1>10. CASE CrawlError
  BY <1>10 DEF CrawlError
<1>11. CASE CrawlRevoked
  BY <1>11 DEF CrawlRevoked
<1>12. CASE CancelRead
  BY <1>12 DEF CancelRead
<1>13. CASE CancelCommit
  <2>1. Promise!Cancel
    BY <1>13 DEF CancelCommit, Promise!Cancel
  <2>. QED
    BY <2>1 DEF Promise!PromiseNext
<1>14. ASSUME NEW r \in Runs, NEW p \in Pages, FetchReceive(r, p)
      PROVE [Promise!PromiseNext]_Promise!promised
  BY <1>14 DEF FetchReceive
<1>15. ASSUME NEW r \in Runs, NEW p \in Pages, FetchStore(r, p)
      PROVE [Promise!PromiseNext]_Promise!promised
  BY <1>15 DEF FetchStore
<1>16. ASSUME NEW r \in Runs, NEW p \in Pages, FetchRecord(r, p)
      PROVE [Promise!PromiseNext]_Promise!promised
  <2>1. attempts > 0
    BY <1>16, PlannedRows DEF FetchRecord, Step, Unpublished
  <2>2. Promise!Record(p)
    BY <1>16, <2>1 DEF FetchRecord, RecordPage, RecordPageAgain, Promise!Record
  <2>. QED
    BY <2>2 DEF Promise!PromiseNext
<1>17. ASSUME NEW r \in Runs, NEW p \in Pages, FetchGiveUp(r, p)
      PROVE [Promise!PromiseNext]_Promise!promised
  <2>1. attempts > 0
    BY <1>17, PlannedRows DEF FetchGiveUp, Step, Unpublished
  <2>2. Promise!Fail(p)
    BY <1>17, <2>1 DEF FetchGiveUp, RecordFailure, Promise!Fail
  <2>. QED
    BY <2>2 DEF Promise!PromiseNext
<1>18. ASSUME NEW r \in Runs, NEW p \in Pages, FetchRetry(r, p)
      PROVE [Promise!PromiseNext]_Promise!promised
  BY <1>18 DEF FetchRetry
<1>19. ASSUME NEW r \in Runs, NEW p \in Pages, FetchReport(r, p)
      PROVE [Promise!PromiseNext]_Promise!promised
  BY <1>19 DEF FetchReport
<1>20. ASSUME NEW r \in Runs, NEW p \in Pages, FetchAck(r, p)
      PROVE [Promise!PromiseNext]_Promise!promised
  BY <1>20 DEF FetchAck
<1>21. ASSUME NEW r \in Runs, NEW p \in Pages, FetchTimeLimit(r, p)
      PROVE [Promise!PromiseNext]_Promise!promised
  <2>1. attempts > 0
    BY <1>21, PlannedRows DEF FetchTimeLimit, Step, Unpublished
  <2>2. Promise!Fail(p)
    BY <1>21, <2>1 DEF FetchTimeLimit, RecordFailure, Promise!Fail
  <2>. QED
    BY <2>2 DEF Promise!PromiseNext
<1>22. ASSUME NEW r \in Runs, NEW p \in Pages, FetchError(r, p)
      PROVE [Promise!PromiseNext]_Promise!promised
  BY <1>22 DEF FetchError
<1>23. ASSUME NEW r \in Runs, NEW p \in Pages, FetchLost(r, p)
      PROVE [Promise!PromiseNext]_Promise!promised
  BY <1>23 DEF FetchLost
<1>24. ASSUME NEW r \in Runs, AssembleReceive(r)
      PROVE [Promise!PromiseNext]_Promise!promised
  BY <1>24 DEF AssembleReceive
<1>25. ASSUME NEW r \in Runs, AssembleSnapshot(r)
      PROVE [Promise!PromiseNext]_Promise!promised
  BY <1>25 DEF AssembleSnapshot
<1>26. ASSUME NEW r \in Runs, AssembleUpload(r)
      PROVE [Promise!PromiseNext]_Promise!promised
  BY <1>26 DEF AssembleUpload
<1>27. ASSUME NEW r \in Runs, AssembleRead(r)
      PROVE [Promise!PromiseNext]_Promise!promised
  BY <1>27 DEF AssembleRead
<1>28. ASSUME NEW r \in Runs, AssembleCommit(r)
      PROVE [Promise!PromiseNext]_Promise!promised
  <2>1. attempts > 0
    BY <1>28, PlannedRows DEF AssembleCommit, Unpublished
  <2>2. Promise!Decide(asm[r].verdict)
    BY <1>28, <2>1, DecisionSafe DEF AssembleCommit, Promise!Decide
  <2>. QED
    BY <1>28, <2>2, DecisionSafe DEF Promise!PromiseNext
<1>29. ASSUME NEW r \in Runs, AssembleRefused(r)
      PROVE [Promise!PromiseNext]_Promise!promised
  BY <1>29 DEF AssembleRefused
<1>30. ASSUME NEW r \in Runs, AssembleNotify(r)
      PROVE [Promise!PromiseNext]_Promise!promised
  <2>1. r \in Telling /\ IsFiniteSet(Telling)
    <3>1. r \in Telling
      BY <1>30 DEF AssembleNotify, Telling
    <3>2. IsFiniteSet(Runs) /\ Telling \subseteq Runs
      BY FS_Interval DEF Runs, Telling
    <3>. QED
      BY <3>1, <3>2, FS_Subset
  <2>2. Cardinality(Telling) \in Nat /\ Cardinality(Telling) # 0
    BY <2>1, FS_CardinalityType, FS_EmptySet
  <2>3. key /\ callbacks < attempts
    <3>1. key /\ callbacks + Cardinality(Telling) <= attempts
      BY <1>30 DEF AssembleNotify, NotifyInv
    <3>2. callbacks \in Nat /\ attempts \in Nat
      OBVIOUS
    <3> HIDE DEF TypeOK
    <3>. QED
      BY <2>2, <3>1, <3>2
  <2>4. Promise!Tell
    BY <1>30, <2>3 DEF AssembleNotify, Promise!Tell
  <2>. QED
    BY <2>4 DEF Promise!PromiseNext
<1>31. ASSUME NEW r \in Runs, AssembleAck(r)
      PROVE [Promise!PromiseNext]_Promise!promised
  BY <1>31 DEF AssembleAck
<1>32. ASSUME NEW r \in Runs, AssembleLost(r)
      PROVE [Promise!PromiseNext]_Promise!promised
  BY <1>32 DEF AssembleLost
<1>33. ASSUME NEW r \in Runs, AssembleError(r)
      PROVE [Promise!PromiseNext]_Promise!promised
  BY <1>33 DEF AssembleError
<1>34. CASE UNCHANGED vars
  BY <1>34 DEF vars
<1>. QED
  BY <1>1, <1>2, <1>3, <1>4, <1>5, <1>6, <1>7, <1>8, <1>9, <1>10, <1>11,
     <1>12, <1>13, <1>14, <1>15, <1>16, <1>17, <1>18, <1>19, <1>20, <1>21,
     <1>22, <1>23, <1>24, <1>25, <1>26, <1>27, <1>28, <1>29, <1>30, <1>31,
     <1>32, <1>33, <1>34
  DEF Next, CrawlStep, CrawlDisturbed, FetchStep, FetchDisturbed, AssembleStep

\* A submitted job has no chord, no failure and no callback.
LEMMA InitAccount == Init => AccountInv
<1> SUFFICES ASSUME Init PROVE AccountInv
  OBVIOUS
<1> USE ConfigAssumption DEF Init, CrawlAt, Crawling, AssembleAt, Assembling
<1>1. ChordInv
  BY DEF ChordInv, NextRuns, Unpublished
<1>2. FailedPartInv /\ SkippedPartInv
  BY DEF FailedPartInv, SkippedPartInv
<1>3. NotifyInv
  <2>1. Telling = {}
    BY DEF Telling
  <2>. QED
    BY <2>1, FS_EmptySet DEF NotifyInv
<1>. QED
  BY <1>1, <1>2, <1>3 DEF AccountInv

\* The account of the chords is inductive, next to IInv.
LEMMA AccountInductive == Spec => [](IInv /\ AccountInv)
<1>1. IInv /\ AccountInv /\ IInv' /\ [Next]_vars => AccountInv'
  <2> SUFFICES ASSUME IInv, AccountInv, IInv', [Next]_vars PROVE AccountInv'
    OBVIOUS
  <2>1. TypeOK /\ PoisonInv /\ TypeOK'
    BY DEF IInv
  <2>2. ChordInv' /\ Moved
    BY <2>1, ChordStep, Moves DEF AccountInv
  <2>. QED
    BY <2>1, <2>2, FailedPartStep, SkippedPartStep, NotifyStep DEF AccountInv
<1>. QED
  BY <1>1, InitAccount, Inductive, PTL DEF Spec

\* CrawlPipeline implements JobPromise: any number of runs at once, each with
\* its own chord and assembly, under deaths, errors and cancels at any step,
\* keep what a job promises its owner.
THEOREM PromiseImplemented == Spec => PromiseKept
<1>1. Init => Promise!PromiseInit
  BY DEF Init, Promise!PromiseInit
<1>. QED
  BY <1>1, PromiseStep, AccountInductive, PTL
  DEF Spec, PromiseKept, Promise!PromiseSpec

\* No page of a job with a result is missing: what a resumed run was not given
\* is in the ledger, and of what it was given every part is in, none skipped
\* (repo.pages_to_fetch, assemble.py).
THEOREM EveryPageAccounted == Spec => []PagesAccounted
<1>1. Init => PagesAccounted
  BY DEF Init, PagesAccounted
<1>2. ASSUME TypeOK', PagesAccounted, [Promise!PromiseNext]_Promise!promised
      PROVE  PagesAccounted'
  <2> USE <1>2 DEF PagesAccounted, TypeOK
  <2>1. CASE Promise!StartOrResume \/ Promise!Cancel \/ Promise!Park
    BY <2>1 DEF Promise!StartOrResume, Promise!Cancel, Promise!Park
  <2>2. CASE Promise!Tell
    BY <2>2 DEF Promise!Tell
  <2>3. ASSUME NEW p \in Pages, Promise!Record(p) \/ Promise!Fail(p)
        PROVE  PagesAccounted'
    BY <2>3 DEF Promise!Record, Promise!Fail
  <2>4. ASSUME NEW verdict \in {"SUCCEEDED", "PARTIAL", "SUSPECT"},
               Promise!Decide(verdict)
        PROVE  PagesAccounted'
    BY <2>4 DEF Promise!Decide
  <2>5. CASE UNCHANGED Promise!promised
    BY <2>5 DEF Promise!promised
  <2>. QED
    BY <2>1, <2>2, <2>3, <2>4, <2>5 DEF Promise!PromiseNext
<1>3. IInv => TypeOK
  BY DEF IInv
<1>. QED
  BY <1>1, <1>2, <1>3, PromiseStep, AccountInductive, PTL DEF Spec

\* A caller hears from a job at most once per run, and only of a result that is
\* there, whatever is delivered again (assemble.py, webhooks.py).
THEOREM CallbackPerRun ==
  Spec => [](callbacks <= attempts /\ (callbacks > 0 => key))
<1>1. IInv /\ AccountInv => callbacks <= attempts /\ (callbacks > 0 => key)
  <2> SUFFICES ASSUME IInv, AccountInv
               PROVE  callbacks <= attempts /\ (callbacks > 0 => key)
    OBVIOUS
  <2>1. callbacks \in Nat /\ attempts \in Nat
    BY ConfigAssumption DEF IInv, TypeOK
  <2>2. IsFiniteSet(Telling)
    <3>1. IsFiniteSet(Runs) /\ Telling \subseteq Runs
      BY ConfigAssumption, FS_Interval DEF Runs, Telling
    <3>. QED
      BY <3>1, FS_Subset
  <2>3. Cardinality(Telling) \in Nat
    BY <2>2, FS_CardinalityType
  <2>. QED
    BY <2>1, <2>3 DEF AccountInv, NotifyInv
<1>. QED
  BY <1>1, AccountInductive, PTL

\* A job that has been planned and has ended is never RUNNING again, whoever
\* writes over whose final state (repo.transition, jobs.cancel_job).
THEOREM NeverRunsAgain ==
  Spec => [][attempts > 0 /\ state \in TerminalStates
               => state' \in TerminalStates]_vars
<1>1. IInv /\ AccountInv /\ [Next]_vars =>
        [attempts > 0 /\ state \in TerminalStates
           => state' \in TerminalStates]_vars
  BY Moves DEF IInv, AccountInv, Moved, RowMoves
<1>. QED
  BY <1>1, AccountInductive, PTL DEF Spec

-----------------------------------------------------------------------------
(* What is in the file, over any number of runs *)

\* What an assembly uploads was loaded from its parts, and where there is no
\* diff it is all of it.
EmittedInv ==
  \A r \in Runs : asm[r].pc \in {"stored", "uploaded", "read"} =>
    /\ asm[r].emitted \subseteq Loaded(r)
    /\ Incremental \/ asm[r].emitted = Loaded(r)

\* Every file comes from one assembly.
FileFrom(r) ==
  /\ asm[r].pc # "none" /\ output.pages \subseteq Loaded(r)
  /\ Incremental \/ output.pages = Loaded(r)

FileInv == output.uploaded => \E r \in Runs : FileFrom(r)

\* What an assembly has loaded is what its parts say, so it lasts with them.
LEMMA LoadedStays ==
  PartsLast => \A s \in Runs : asm[s].pc # "none" => Loaded(s)' = Loaded(s)
  BY DEF PartsLast, Loaded

\* What is compared with the snapshot was loaded; without a diff it is all.
LEMMA EmittedStep ==
  TypeOK /\ PartsLast /\ EmittedInv /\ [Next]_vars => EmittedInv'
<1> SUFFICES ASSUME TypeOK, PartsLast, EmittedInv, [Next]_vars
             PROVE  EmittedInv'
  OBVIOUS
<1> USE ConfigAssumption DEF TypeOK, EmittedInv, pipeline, outside, job, tables,
        targets, store, fetching, CrawlBody, AssembleBody
<1>0. \A s \in Runs : asm[s].pc # "none" => Loaded(s)' = Loaded(s)
  BY LoadedStays
<1> USE <1>0
<1>1. CASE CrawlReceive
  BY <1>1 DEF CrawlReceive, CrawlAt, Crawling
<1>2. CASE StartRun
  BY <1>2 DEF StartRun, Plan, CrawlAt, Crawling
<1>3. CASE ResumeRun
  BY <1>3 DEF ResumeRun, BumpLost, Plan, CrawlAt, Crawling
<1>4. CASE ParkPoisonPill
  BY <1>4 DEF ParkPoisonPill, BumpLost, CrawlAt, Crawling
<1>5. CASE PublishChord
  BY <1>5 DEF PublishChord, Enqueue, CrawlAt, Crawling
<1>6. CASE PublishAssemble
  BY <1>6 DEF PublishAssemble, AssembleAt, Assembling, CrawlAt, Crawling
<1>7. CASE CrawlAck
  BY <1>7 DEF CrawlAck, CrawlAt, Crawling
<1>8. CASE CrawlLost
  BY <1>8 DEF CrawlLost, Redelivered, Spend, Kinds, CrawlAt, Crawling
<1>9. CASE CrawlLostPublishing
  BY <1>9 DEF CrawlLostPublishing, Enqueue, Redelivered, Spend, Kinds,
     CrawlAt, Crawling
<1>10. CASE CrawlError
  BY <1>10 DEF CrawlError, Spend, Kinds, CrawlAt, Crawling
<1>11. CASE CrawlRevoked
  BY <1>11 DEF CrawlRevoked, CrawlAt, Crawling
<1>12. CASE CancelRead
  BY <1>12 DEF CancelRead, Spend, Kinds
<1>13. CASE CancelCommit
  BY <1>13 DEF CancelCommit
<1>14. ASSUME NEW r \in Runs, NEW p \in Pages, FetchReceive(r, p)
      PROVE EmittedInv'
  BY <1>14 DEF FetchReceive, Step
<1>15. ASSUME NEW r \in Runs, NEW p \in Pages, FetchStore(r, p)
      PROVE EmittedInv'
  BY <1>15 DEF FetchStore, Step, Upload
<1>16. ASSUME NEW r \in Runs, NEW p \in Pages, FetchRecord(r, p)
      PROVE EmittedInv'
  BY <1>16 DEF FetchRecord, Step, RecordPage, RecordPageAgain
<1>17. ASSUME NEW r \in Runs, NEW p \in Pages, FetchGiveUp(r, p)
      PROVE EmittedInv'
  BY <1>17 DEF FetchGiveUp, Step, RecordFailure
<1>18. ASSUME NEW r \in Runs, NEW p \in Pages, FetchRetry(r, p)
      PROVE EmittedInv'
  BY <1>18 DEF FetchRetry, Step, MayRetry
<1>19. ASSUME NEW r \in Runs, NEW p \in Pages, FetchReport(r, p)
      PROVE EmittedInv'
  <2>1. \/ asm' = asm
        \/ asm' = [asm EXCEPT ![r] = AssembleAt("queued")]
    BY <1>19 DEF FetchReport
  <2>2. \A s \in Runs : asm'[s] = asm[s] \/ asm'[s].pc = "queued"
    BY <2>1 DEF AssembleAt, Assembling
  <2>3. \A s \in Runs : asm'[s].pc \in {"stored", "uploaded", "read"} =>
          asm'[s] = asm[s] /\ Loaded(s)' = Loaded(s)
    BY <2>2
  <2>. QED
    BY <2>3
<1>20. ASSUME NEW r \in Runs, NEW p \in Pages, FetchAck(r, p)
      PROVE EmittedInv'
  BY <1>20 DEF FetchAck, Step
<1>21. ASSUME NEW r \in Runs, NEW p \in Pages, FetchTimeLimit(r, p)
      PROVE EmittedInv'
  BY <1>21 DEF FetchTimeLimit, Step, Spend, Kinds, RecordFailure
<1>22. ASSUME NEW r \in Runs, NEW p \in Pages, FetchError(r, p)
      PROVE EmittedInv'
  BY <1>22 DEF FetchError, Step, Spend, Kinds
<1>23. ASSUME NEW r \in Runs, NEW p \in Pages, FetchLost(r, p)
      PROVE EmittedInv'
  BY <1>23 DEF FetchLost, Step, Spend, Kinds
<1>24. ASSUME NEW r \in Runs, AssembleReceive(r)
      PROVE EmittedInv'
  BY <1>24 DEF AssembleReceive, AssembleAt, Assembling
<1>25. ASSUME NEW r \in Runs, AssembleSnapshot(r)
      PROVE EmittedInv'
  BY <1>25 DEF AssembleSnapshot, AssembleAt, Assembling, Emitted, Verdict
<1>26. ASSUME NEW r \in Runs, AssembleUpload(r)
      PROVE EmittedInv'
  BY <1>26 DEF AssembleUpload
<1>27. ASSUME NEW r \in Runs, AssembleRead(r)
      PROVE EmittedInv'
  BY <1>27 DEF AssembleRead, AssembleAt, Assembling
<1>28. ASSUME NEW r \in Runs, AssembleCommit(r)
      PROVE EmittedInv'
  BY <1>28 DEF AssembleCommit, AfterCommit, AssembleAt, Assembling
<1>29. ASSUME NEW r \in Runs, AssembleRefused(r)
      PROVE EmittedInv'
  BY <1>29 DEF AssembleRefused, AssembleAt, Assembling
<1>30. ASSUME NEW r \in Runs, AssembleNotify(r)
      PROVE EmittedInv'
  BY <1>30 DEF AssembleNotify, AssembleAt, Assembling
<1>31. ASSUME NEW r \in Runs, AssembleAck(r)
      PROVE EmittedInv'
  BY <1>31 DEF AssembleAck, AssembleAt, Assembling
<1>32. ASSUME NEW r \in Runs, AssembleLost(r)
      PROVE EmittedInv'
  BY <1>32 DEF AssembleLost, AssembleAt, Assembling, Spend, Kinds
<1>33. ASSUME NEW r \in Runs, AssembleError(r)
      PROVE EmittedInv'
  BY <1>33 DEF AssembleError, AssembleAt, Assembling, Spend, Kinds
<1>34. CASE UNCHANGED vars
  BY <1>34 DEF vars
<1>. QED
  BY <1>1, <1>2, <1>3, <1>4, <1>5, <1>6, <1>7, <1>8, <1>9, <1>10, <1>11,
     <1>12, <1>13, <1>14, <1>15, <1>16, <1>17, <1>18, <1>19, <1>20, <1>21,
     <1>22, <1>23, <1>24, <1>25, <1>26, <1>27, <1>28, <1>29, <1>30, <1>31,
     <1>32, <1>33, <1>34
  DEF Next, CrawlStep, CrawlDisturbed, FetchStep, FetchDisturbed, AssembleStep

\* Only an upload changes the file, and it writes what was compared.
LEMMA Uploads ==
  TypeOK /\ [Next]_vars =>
    \/ output' = output
    \/ \E r \in Runs : /\ AssembleUpload(r)
                       /\ output' = [uploaded |-> TRUE,
                                     pages |-> asm[r].emitted]
<1> DEFINE Uploaded ==
      \E r \in Runs : /\ AssembleUpload(r)
                      /\ output' = [uploaded |-> TRUE, pages |-> asm[r].emitted]
<1> SUFFICES ASSUME TypeOK, [Next]_vars PROVE output' = output \/ Uploaded
  OBVIOUS
<1> USE DEF store
<1>1. CASE CrawlStep
  BY <1>1 DEF CrawlStep, CrawlReceive, StartRun, ResumeRun, Plan,
              ParkPoisonPill, PublishChord, PublishAssemble, CrawlAck
<1>2. CASE CrawlDisturbed
  BY <1>2 DEF CrawlDisturbed, CrawlLost, CrawlLostPublishing, CrawlError,
              CrawlRevoked
<1>3. ASSUME NEW r \in Runs, NEW p \in Pages,
             FetchStep(r, p) \/ FetchDisturbed(r, p)
      PROVE  output' = output
  BY <1>3 DEF FetchStep, FetchReceive, FetchStore, FetchRecord, FetchGiveUp,
              FetchRetry, FetchReport, FetchAck, FetchDisturbed,
              FetchTimeLimit, FetchError, FetchLost
<1>4. ASSUME NEW r \in Runs, AssembleStep(r) \/ AssembleLost(r)
                               \/ AssembleError(r)
      PROVE  output' = output \/ Uploaded
  <2>1. AssembleUpload(r) => Uploaded
    BY DEF AssembleUpload
  <2>. QED
    BY <1>4, <2>1
    DEF AssembleStep, AssembleReceive, AssembleSnapshot, AssembleRead,
        AssembleCommit, AssembleRefused, AssembleNotify, AssembleAck,
        AssembleLost, AssembleError
<1>5. CASE CancelRead \/ CancelCommit
  BY <1>5 DEF CancelRead, CancelCommit
<1>6. CASE UNCHANGED vars
  BY <1>6 DEF vars
<1>. QED
  BY <1>1, <1>2, <1>3, <1>4, <1>5, <1>6 DEF Next

\* The file is that of the last upload, whose parts last.
LEMMA FileStep ==
  ASSUME TypeOK, PartsLast, EmittedInv, FileInv, [Next]_vars
  PROVE  FileInv'
<1>1. ASSUME NEW r \in Runs, asm[r].pc # "none"
      PROVE  asm'[r].pc # "none" /\ Loaded(r)' = Loaded(r)
  BY <1>1, LoadedStays DEF PartsLast
<1>2. CASE output' = output
  <2>1. \A r \in Runs : FileFrom(r) => FileFrom(r)'
    BY <1>1, <1>2 DEF FileFrom
  <2>. QED
    BY <1>2, <2>1 DEF FileInv
<1>3. ASSUME NEW r \in Runs, AssembleUpload(r),
             output' = [uploaded |-> TRUE, pages |-> asm[r].emitted]
      PROVE  FileInv'
  <2>1. asm[r].pc = "stored"
    BY <1>3 DEF AssembleUpload
  <2>2. FileFrom(r)'
    BY <1>1, <1>3, <2>1 DEF EmittedInv, FileFrom
  <2>. QED
    BY <2>2 DEF FileInv
<1>. QED
  BY <1>2, <1>3, Uploads

\* What is uploaded and what has been uploaded, next to the account.
LEMMA FileInductive == Spec => [](EmittedInv /\ FileInv)
<1>1. IInv /\ AccountInv /\ EmittedInv /\ FileInv /\ [Next]_vars
        => EmittedInv' /\ FileInv'
  <2> SUFFICES ASSUME IInv, AccountInv, EmittedInv, FileInv, [Next]_vars
               PROVE  EmittedInv' /\ FileInv'
    OBVIOUS
  <2>1. TypeOK /\ PartsLast
    BY Moves DEF IInv, AccountInv, Moved
  <2>. QED
    BY <2>1, EmittedStep, FileStep
<1>2. Init => EmittedInv /\ FileInv
  BY DEF Init, EmittedInv, FileInv, AssembleAt, Assembling
<1>. QED
  BY <1>1, <1>2, AccountInductive, PTL DEF Spec

\* The file is run r's: rows of the pages its parts have, of all of them unless
\* the job is incremental; and any other page of the job was recorded by an
\* earlier run, has failed, or was skipped by a job that has ended.
FileOf(r) ==
  /\ output.pages \subseteq Loaded(r)
  /\ Incremental \/ output.pages = Loaded(r)
  /\ \A p \in Pages \ Loaded(r) :
       \/ p \notin header[r] /\ p \in pages
       \/ part[r][p] = "failed" /\ p \in failures
       \/ part[r][p] = "skipped" /\ state \in TerminalStates

\* What is missing from the file can be named, over any number of runs, deaths
\* and cancels: it is the file of one run, and that is all a resumed job is
\* given back, since the pages of earlier runs are in S3 but not in its parts
\* (repo.pages_to_fetch, export._load_rows; the run ResumeLosesPages).
THEOREM FileExplained ==
  Spec => [](output.uploaded => \E r \in Runs : FileOf(r))
<1>1. ASSUME IInv, AccountInv, FileInv, output.uploaded
      PROVE  \E r \in Runs : FileOf(r)
  <2>1. PICK r \in Runs : FileFrom(r)
    BY <1>1 DEF FileInv
  <2>2. ~Unpublished(r) /\ asm[r].pc # "none"
    BY <2>1 DEF FileFrom, Unpublished
  <2>3. ASSUME NEW p \in Pages \ Loaded(r)
        PROVE  \/ p \notin header[r] /\ p \in pages
               \/ part[r][p] = "failed" /\ p \in failures
               \/ part[r][p] = "skipped" /\ state \in TerminalStates
    <3>1. CASE p \notin header[r]
      BY <1>1, <2>2, <3>1 DEF AccountInv, ChordInv
    <3>2. CASE p \in header[r]
      <4>1. part[r][p] \in {"failed", "skipped"}
        BY <1>1, <2>2, <2>3, <3>2 DEF AccountInv, ChordInv, Loaded
      <4>. QED
        BY <1>1, <4>1 DEF AccountInv, FailedPartInv, SkippedPartInv
    <3>. QED
      BY <3>1, <3>2
  <2>4. /\ output.pages \subseteq Loaded(r)
        /\ Incremental \/ output.pages = Loaded(r)
    BY <2>1 DEF FileFrom
  <2>5. FileOf(r)
    BY <2>3, <2>4, Zenon DEF FileOf
  <2>. QED
    BY <2>5
<1>. QED
  BY <1>1, AccountInductive, FileInductive, PTL

-----------------------------------------------------------------------------
(* A job that is not final is carried on *)

\* A page's task that is still to report to its chord.
OnItsWay(r, p) == task[r][p] \notin {"none", "reported", "acked", "error"}

\* Run r goes on to a final state: its assembly has its message, or its chord
\* is waiting for parts that are all on their way.
Carried(r) ==
  \/ asm[r].pc # "none"
  \/ /\ \E p \in header[r] : part[r][p] = "none"
     /\ \A p \in header[r] : part[r][p] = "none" => OnItsWay(r, p)

\* No task has ended in an exception.
NoError ==
  \A r \in Runs, p \in Pages : task[r][p] # "error" /\ part[r][p] # "error"

\* What an assembly has read lets it commit, and past its commit it is final.
Decided ==
  \A r \in Runs :
    /\ asm[r].pc = "read" => asm[r].saw = "RUNNING" \/ state \in TerminalStates
    /\ asm[r].pc \in {"committed", "done", "acked"} => state \in TerminalStates

\* When crawl_job is through with a job, the job is final or its last run is
\* carried.
LastRun ==
  crawl.pc \in {"done", "acked"} =>
    state \in TerminalStates \/ (attempts > 0 /\ Carried(attempts))

\* No fault that NoStrandedJob excludes has happened.
Undisturbed == spent["error"] = 0 /\ spent["cancel"] = 0

\* Where nothing raises and nobody cancels: an assembly ends behind a final
\* state, or when it has read one; and once crawl_job is through with a job that
\* goes on, its last run is carried.
CarriedInv ==
  Undisturbed =>
    /\ cancel = "idle" /\ ~revoked
    /\ attempts = 0 => state = "PENDING"
    /\ NoError /\ Decided /\ LastRun

\* Every step of the pipeline keeps the account of the last run.
LEMMA CarriedStep ==
  TypeOK /\ PoisonInv /\ ChordInv /\ CarriedInv /\ [Next]_vars => CarriedInv'
<1> SUFFICES ASSUME TypeOK, PoisonInv, ChordInv, CarriedInv, [Next]_vars,
                    Undisturbed'
             PROVE  CarriedInv'
  BY DEF CarriedInv
<1> USE ConfigAssumption
    DEF TypeOK, ChordInv, NextRuns, CarriedInv, NoError, Decided, LastRun,
        Carried, OnItsWay, Undisturbed, Unpublished, pipeline, outside, job,
        tables, targets, store, fetching, CrawlBody, AssembleBody, Outcome,
        CrawlAt, Crawling, AssembleAt, Assembling
<1>1. CASE CrawlReceive
  BY <1>1 DEF CrawlReceive, PoisonInv, TerminalStates
<1>2. CASE StartRun
  <2>1. /\ attempts' = attempts + 1 /\ attempts \in Nat /\ crawl'.pc = "planned"
        /\ UNCHANGED <<asm, header, task, part, cancel, revoked, spent>>
    BY <1>2 DEF StartRun, Plan
  <2>2. Decided'
    BY <1>2, <2>1 DEF StartRun, Plan, PoisonInv, Runs
  <2>. QED
    BY <2>1, <2>2
<1>3. CASE ResumeRun
  <2>1. /\ attempts' = attempts + 1 /\ attempts \in Nat /\ crawl'.pc = "planned"
        /\ UNCHANGED <<asm, header, task, part, cancel, revoked, spent>>
    BY <1>3 DEF ResumeRun, BumpLost, Plan
  <2>2. Decided'
    BY <1>3, <2>1 DEF ResumeRun, BumpLost, Plan, PoisonInv, Runs
  <2>. QED
    BY <2>1, <2>2
<1>4. CASE ParkPoisonPill
  BY <1>4 DEF ParkPoisonPill, BumpLost, PoisonInv, TerminalStates
<1>5. CASE PublishChord
  <2>1. attempts \in Runs
    BY <1>5 DEF PublishChord, PoisonInv, Runs
  <2>2. /\ crawl'.pc = "done" /\ header'[attempts] = crawl.todo
        /\ crawl.todo \subseteq Pages /\ crawl.todo # {}
        /\ \A p \in crawl.todo : task'[attempts][p] = "queued"
        /\ UNCHANGED <<part, asm, attempts, state, cancel, revoked, spent>>
    BY <1>5, <2>1 DEF PublishChord, Enqueue
  <2>3. Unpublished(attempts)
    BY <1>5, <2>1 DEF PublishChord
  <2>4. Carried(attempts)'
    BY <2>2, <2>3
  <2>5. NoError' /\ Decided'
    BY <1>5, <2>1 DEF PublishChord, Enqueue, Runs
  <2>6. LastRun'
    BY <2>1, <2>2, <2>4, <2>5 DEF Runs
  <2>7. attempts' = attempts /\ attempts # 0
    BY <2>1, <2>2, <2>4, <2>5 DEF Runs
  <2>. QED
    <3> HIDE DEF NoError, Decided, LastRun, Carried, Unpublished
    <3>. QED
      BY <2>1, <2>2, <2>4, <2>5, <2>6, <2>7
<1>6. CASE PublishAssemble
  <2>1. attempts \in Runs
    BY <1>6 DEF PublishAssemble, PoisonInv, Runs
  <2>2. /\ crawl'.pc = "done"
        /\ asm' = [asm EXCEPT ![attempts] = AssembleAt("queued")]
        /\ UNCHANGED <<part, task, attempts, state, cancel, revoked, spent>>
    BY <1>6 DEF PublishAssemble
  <2>3. Carried(attempts)'
    BY <2>1, <2>2
  <2>4. NoError' /\ Decided'
    <3>1. NoError'
      BY <2>2
    <3>2. Decided'
      BY <2>1, <2>2
    <3>. QED
      <4> HIDE DEF NoError, Decided, LastRun, Carried, Unpublished
      <4>. QED
        BY <3>1, <3>2
  <2>5. LastRun'
    BY <2>1, <2>2, <2>3, <2>4 DEF Runs
  <2>6. attempts' = attempts /\ attempts # 0
    BY <2>1, <2>2, <2>3, <2>4 DEF Runs
  <2>. QED
    <3> HIDE DEF NoError, Decided, LastRun, Carried, Unpublished
    <3>. QED
      BY <2>1, <2>2, <2>3, <2>4, <2>5, <2>6
<1>7. CASE CrawlAck
  BY <1>7 DEF CrawlAck, PoisonInv, TerminalStates
<1>8. CASE CrawlLost
  BY <1>8 DEF CrawlLost, Redelivered, Spend, Kinds, PoisonInv, TerminalStates
<1>9. CASE CrawlLostPublishing
  BY <1>9 DEF CrawlLostPublishing, Redelivered, Enqueue, Spend, Kinds,
              PoisonInv, TerminalStates
<1>10. CASE CrawlError
  BY <1>10 DEF CrawlError, Spend, Kinds, PoisonInv, TerminalStates
<1>11. CASE CrawlRevoked
  BY <1>11 DEF CrawlRevoked, PoisonInv, TerminalStates
<1>12. CASE CancelRead
  BY <1>12 DEF CancelRead, Spend, Kinds, PoisonInv, TerminalStates
<1>13. CASE CancelCommit
  BY <1>13 DEF CancelCommit, PoisonInv, TerminalStates
<1>14. ASSUME NEW r \in Runs, NEW p \in Pages, FetchReceive(r, p)
      PROVE CarriedInv'
  BY <1>14 DEF FetchReceive, Step
<1>15. ASSUME NEW r \in Runs, NEW p \in Pages, FetchStore(r, p)
      PROVE CarriedInv'
  BY <1>15 DEF FetchStore, Step, Upload
<1>16. ASSUME NEW r \in Runs, NEW p \in Pages, FetchRecord(r, p)
      PROVE CarriedInv'
  BY <1>16 DEF FetchRecord, Step
<1>17. ASSUME NEW r \in Runs, NEW p \in Pages, FetchGiveUp(r, p)
      PROVE CarriedInv'
  BY <1>17 DEF FetchGiveUp, Step
<1>18. ASSUME NEW r \in Runs, NEW p \in Pages, FetchRetry(r, p)
      PROVE CarriedInv'
  BY <1>18 DEF FetchRetry, Step
<1>19. ASSUME NEW r \in Runs, NEW p \in Pages, FetchReport(r, p)
      PROVE CarriedInv'
  <2>1. /\ task[r][p] \in Outcome /\ ~Unpublished(r)
        /\ task' = [task EXCEPT ![r][p] = "reported"]
        /\ UNCHANGED <<attempts, state, crawl, header, cancel, revoked, spent>>
    BY <1>19 DEF FetchReport
  <2>2. CASE part[r][p] # "none"
    BY <2>1, <2>2, <1>19 DEF FetchReport
  <2>3. ASSUME part[r][p] = "none",
               part' = [part EXCEPT ![r][p] = task[r][p]],
               asm' = [asm EXCEPT ![r] = AssembleAt("queued")]
        PROVE CarriedInv'
    <3>1. NoError' /\ Decided'
      BY <2>1, <2>3
    <3>2. attempts \in Runs /\ Carried(attempts) => Carried(attempts)'
      BY <2>1, <2>3
    <3>3. LastRun'
      <4>1. LastRun
        BY <2>1
      <4> HIDE DEF Carried
      <4>. QED
        BY <2>1, <3>2, <4>1 DEF Runs
    <3>. QED
      BY <2>1, <3>1, <3>3
  <2>4. ASSUME part[r][p] = "none", ~Fires(r, part'), UNCHANGED asm,
               part' = [part EXCEPT ![r][p] = task[r][p]]
        PROVE CarriedInv'
    <3>1. NoError' /\ Decided'
      BY <2>1, <2>4
    <3>2. \E q \in header[r] : part'[r][q] = "none"
      BY <2>1, <2>4, <3>1 DEF Fires
    <3>3. attempts \in Runs /\ Carried(attempts) => Carried(attempts)'
      BY <2>1, <2>4, <3>2
    <3>4. LastRun'
      <4>1. LastRun
        BY <2>1
      <4> HIDE DEF Carried
      <4>. QED
        BY <2>1, <3>3, <4>1 DEF Runs
    <3>. QED
      BY <2>1, <3>1, <3>4
  <2>. QED
    BY <1>19, <2>2, <2>3, <2>4 DEF FetchReport
<1>20. ASSUME NEW r \in Runs, NEW p \in Pages, FetchAck(r, p)
      PROVE CarriedInv'
  BY <1>20 DEF FetchAck, Step
<1>21. ASSUME NEW r \in Runs, NEW p \in Pages, FetchTimeLimit(r, p)
      PROVE CarriedInv'
  BY <1>21 DEF FetchTimeLimit, Spend, Kinds
<1>22. ASSUME NEW r \in Runs, NEW p \in Pages, FetchError(r, p)
      PROVE CarriedInv'
  BY <1>22 DEF FetchError, Spend, Kinds
<1>23. ASSUME NEW r \in Runs, NEW p \in Pages, FetchLost(r, p)
      PROVE CarriedInv'
  BY <1>23 DEF FetchLost, Step, Spend, Kinds
<1>24. ASSUME NEW r \in Runs, AssembleReceive(r)
      PROVE CarriedInv'
  BY <1>24 DEF AssembleReceive, PoisonInv, TerminalStates
<1>25. ASSUME NEW r \in Runs, AssembleSnapshot(r)
      PROVE CarriedInv'
  BY <1>25 DEF AssembleSnapshot, PoisonInv, TerminalStates
<1>26. ASSUME NEW r \in Runs, AssembleUpload(r)
      PROVE CarriedInv'
  BY <1>26 DEF AssembleUpload, PoisonInv, TerminalStates
<1>27. ASSUME NEW r \in Runs, AssembleRead(r)
      PROVE CarriedInv'
  <2>1. attempts > 0
    BY <1>27 DEF AssembleRead, Runs
  <2>2. state = "RUNNING" \/ state \in TerminalStates
    BY <2>1 DEF PoisonInv, JobState, TerminalStates
  <2>3. /\ asm' = [asm EXCEPT ![r] = Assembling("read", FALSE,
                                   asm[r].emitted, asm[r].verdict, state)]
        /\ asm[r].pc = "uploaded"
        /\ UNCHANGED <<attempts, state, crawl, header, task, part, cancel,
                       revoked, spent>>
    BY <1>27 DEF AssembleRead
  <2>4. NoError' /\ Decided'
    <3>1. NoError'
      BY <2>3
    <3>2. Decided'
      BY <2>2, <2>3
    <3>. QED
      BY <3>1, <3>2
  <2>5. \A t \in Runs : Carried(t) => Carried(t)'
    BY <2>3
  <2>6. LastRun'
    BY <2>1, <2>3, <2>4, <2>5 DEF Runs
  <2>7. attempts' = attempts /\ attempts # 0
    BY <2>1, <2>3, <2>4, <2>5 DEF Runs
  <2>. QED
    <3> HIDE DEF NoError, Decided, LastRun, Carried, Unpublished
    <3>. QED
      BY <2>1, <2>3, <2>4, <2>5, <2>6, <2>7
<1>28. ASSUME NEW r \in Runs, AssembleCommit(r)
      PROVE CarriedInv'
  <2>1. attempts > 0
    BY <1>28 DEF AssembleCommit, Runs
  <2>2. state' \in TerminalStates
    BY <1>28 DEF AssembleCommit, PoisonInv, TerminalStates
  <2>. QED
    BY <1>28, <2>1, <2>2 DEF AssembleCommit, AfterCommit
<1>29. ASSUME NEW r \in Runs, AssembleRefused(r)
      PROVE CarriedInv'
  <2>1. state \in TerminalStates
    BY <1>29 DEF AssembleRefused, CanTransition, Transitions, JobState,
                 PoisonInv
  <2>. QED
    BY <1>29, <2>1 DEF AssembleRefused
<1>30. ASSUME NEW r \in Runs, AssembleNotify(r)
      PROVE CarriedInv'
  BY <1>30 DEF AssembleNotify, PoisonInv, TerminalStates
<1>31. ASSUME NEW r \in Runs, AssembleAck(r)
      PROVE CarriedInv'
  BY <1>31 DEF AssembleAck, PoisonInv, TerminalStates
<1>32. ASSUME NEW r \in Runs, AssembleLost(r)
      PROVE CarriedInv'
  BY <1>32 DEF AssembleLost, Spend, Kinds, PoisonInv, TerminalStates
<1>33. ASSUME NEW r \in Runs, AssembleError(r)
      PROVE CarriedInv'
  BY <1>33 DEF AssembleError, Spend, Kinds, PoisonInv, TerminalStates
<1>34. CASE UNCHANGED vars
  BY <1>34 DEF vars
<1>. QED
  BY <1>1, <1>2, <1>3, <1>4, <1>5, <1>6, <1>7, <1>8, <1>9, <1>10, <1>11, <1>12,
     <1>13, <1>14, <1>15, <1>16, <1>17, <1>18, <1>19, <1>20, <1>21, <1>22,
     <1>23, <1>24, <1>25, <1>26, <1>27, <1>28, <1>29, <1>30, <1>31, <1>32,
     <1>33, <1>34
     DEF Next, CrawlStep, CrawlDisturbed, FetchStep, FetchDisturbed,
         AssembleStep

\* At the start nothing has been published.
LEMMA InitCarried == Init => CarriedInv
  BY ConfigAssumption
     DEF Init, CarriedInv, Undisturbed, NoError, Decided, LastRun, CrawlAt,
         Crawling, AssembleAt, Assembling, Kinds

\* Where nothing raises and nobody cancels, deaths of the workers strand no job,
\* whatever the number of runs, pages and redeliveries (acks_late, chord).
THEOREM NobodyStranded == Spec => []NoStrandedJob
<1>1. TypeOK /\ PoisonInv /\ CarriedInv => NoStrandedJob
  <2> SUFFICES ASSUME TypeOK, PoisonInv, CarriedInv, Undisturbed,
                      state \notin TerminalStates, crawl.pc = "acked"
               PROVE  \E r \in Runs : \/ ChordAlive(r)
                                      \/ asm[r].pc \notin {"none", "acked"}
    BY DEF NoStrandedJob, Undisturbed, TypeOK, Kinds
  <2>1. attempts \in Runs /\ Carried(attempts) /\ NoError /\ Decided
    BY DEF TypeOK, CarriedInv, LastRun, Runs
  <2>2. CASE asm[attempts].pc # "none"
    BY <2>1, <2>2 DEF Decided
  <2>3. CASE asm[attempts].pc = "none"
    <3>1. header[attempts] \subseteq Pages
      BY <2>1 DEF TypeOK
    <3>2. ChordAlive(attempts)
      BY <2>1, <2>3, <3>1 DEF Carried, OnItsWay, NoError, ChordAlive
    <3>. QED
      BY <2>1, <3>2
  <2>. QED
    BY <2>2, <2>3
<1>2. IInv /\ AccountInv /\ CarriedInv /\ [Next]_vars => CarriedInv'
  BY CarriedStep DEF IInv, AccountInv
<1>3. IInv => TypeOK /\ PoisonInv
  BY DEF IInv
<1>. QED
  BY <1>1, <1>2, <1>3, InitCarried, AccountInductive, PTL DEF Spec

=============================================================================
