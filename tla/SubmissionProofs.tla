-------------------------- MODULE SubmissionProofs --------------------------
(***************************************************************************)
(* Theorems about Submission for every set of requests, every key and body, *)
(* every limit and any number of crashes. One inductive invariant, with a   *)
(* part for each property, carries them all.                                *)
(***************************************************************************)
EXTENDS Submission, FiniteSetTheorems, TLAPS

-----------------------------------------------------------------------------
(* The inductive invariant *)

Held == {"uncommitted", "PENDING", "RUNNING"}

\* Of the requests that share a key one holds the index entry, committed or
\* not. A request has an entry exactly from its insert to its end.
KeyInv ==
  /\ \A r, s \in Submits :
       SameKey(r, s) /\ row[r] \in Held /\ row[s] \in Held => r = s
  /\ \A r \in Requests :
       /\ pc[r] \in {"new", "admitted", "absent"} => row[r] \notin Held
       /\ pc[r] \in {"inserted", "sent", "answered"} => row[r] = "uncommitted"

\* A firing that is still to make its row owes it to its first delivery or to a
\* death that has been counted.
FiringInv ==
  \A f \in Firings :
    rows[f] + (IF beat[f] = "queued" THEN 1 ELSE 0) <= 1 + losses

\* A request names its own job until it finds another one.
BodyInv ==
  /\ OwnBodyOnly
  /\ \A r \in Requests : pc[r] # "done" => answer[r] = r

\* The message precedes the response, and so the commit.
SentInv ==
  /\ SentBeforeCommit
  /\ \A r \in Requests : pc[r] \in {"sent", "answered"} => message[r] # "none"

\* The requests that have passed the capacity check and not sent yet, and the
\* messages of POST /jobs in the queue.
Owing == {r \in Submits : pc[r] \in {"admitted", "absent", "inserted"}}
Sent  == {r \in Submits : message[r] = "queued"}

\* A request that has not started, or owes its message, has not sent one.
SilentInv ==
  \A r \in Submits : pc[r] = "new" \/ r \in Owing => message[r] = "none"

\* A message still owed was admitted beside at most the other threads.
QueueInv ==
  /\ Cardinality(Sent) + Cardinality(Owing) <= DepthLimit - 1 + Threads
  /\ SilentInv

-----------------------------------------------------------------------------
(* One lemma per part: it holds at first, and every step keeps it. *)

\* Every action writes values of the right kind; a row more of a firing still
\* fits below the bound because FiringInv ties it to the deaths.
LEMMA TypesInv == /\ Init => TypeOK
                  /\ TypeOK /\ FiringInv /\ [Next]_vars => TypeOK'
<1> USE SubmissionAssumption DEF TypeOK, PC, Inside, Reply, Row, Message
<1>1. Init => TypeOK
  BY DEF Init
<1>2. ASSUME TypeOK, FiringInv, [Next]_vars PROVE TypeOK'
  <2> USE <1>2 DEF api, cron, Goto, Finish, Taken, Requests
  <2>1. ASSUME NEW r \in Requests, Handle(r) PROVE TypeOK'
    <3> USE <2>1
    <3>1. CASE Admit(r) \/ Reject(r) \/ FindNothing(r) \/ Collide(r)
      BY <3>1 DEF Admit, Reject, FindNothing, Collide
    <3>2. CASE Replay(r)
      BY <3>2 DEF Replay, Committed
    <3>3. CASE Insert(r) \/ Resubmit(r) \/ Answer(r) \/ Commit(r)
      BY <3>3 DEF Insert, Resubmit, Answer, Commit
    <3>4. CASE Send(r)
      BY <3>4 DEF Send
    <3>. QED
      BY <3>1, <3>2, <3>3, <3>4 DEF Handle
  <2>2. ASSUME NEW r \in Requests, Work(r) PROVE TypeOK'
    BY <2>2 DEF Work, PickUp, FindMissing
  <2>3. ASSUME NEW r \in Requests, Crash(r) PROVE TypeOK'
    BY <2>3 DEF Crash
  <2>4. ASSUME NEW f \in Firings, Fire(f) PROVE TypeOK'
    BY <2>4 DEF Fire, Schedule, ScheduleSend, ScheduleAck, ScheduleLost,
                FiringInv
  <2>5. CASE PickUpScheduled \/ UNCHANGED vars
    BY <2>5 DEF PickUpScheduled, vars
  <2>. QED
    BY <2>1, <2>2, <2>3, <2>4, <2>5 DEF Next
<1>. QED
  BY <1>1, <1>2

\* KeyInv: only Insert and Resubmit give a request a row, and Insert waits
\* until nobody else holds the key.
LEMMA KeysInv == /\ Init => KeyInv
                 /\ TypeOK /\ KeyInv /\ [Next]_vars => KeyInv'
<1> USE SubmissionAssumption DEF KeyInv, Held, SameKey
<1>1. Init => KeyInv
  BY DEF Init, Requests
<1>2. ASSUME TypeOK, KeyInv, [Next]_vars PROVE KeyInv'
  <2> USE <1>2 DEF TypeOK, api, cron, Goto, Finish, Taken, Inside, PC
  <2>1. ASSUME NEW r \in Requests, Handle(r) PROVE KeyInv'
    <3> USE <2>1
    <3>1. CASE Admit(r) \/ Reject(r) \/ FindNothing(r) \/ Collide(r)
      BY <3>1 DEF Admit, Reject, FindNothing, Collide, Requests
    <3>2. CASE Replay(r)
      BY <3>2 DEF Replay, Requests
    <3>3. CASE Insert(r)
      BY <3>3 DEF Insert, Conflicts, Requests
    <3>4. CASE Resubmit(r)
      BY <3>4 DEF Resubmit, Requests
    <3>5. CASE Send(r) \/ Answer(r)
      BY <3>5 DEF Send, Answer, AnswersAfter, Requests
    <3>6. CASE Commit(r)
      BY <3>6 DEF Commit, Requests
    <3>. QED
      BY <3>1, <3>2, <3>3, <3>4, <3>5, <3>6 DEF Handle
  <2>2. ASSUME NEW r \in Requests, Work(r) PROVE KeyInv'
    BY <2>2 DEF Work, PickUp, FindMissing, Requests
  <2>3. ASSUME NEW r \in Requests, Crash(r) PROVE KeyInv'
    BY <2>3 DEF Crash, Working, Requests
  <2>4. ASSUME NEW f \in Firings, Fire(f) PROVE KeyInv'
    BY <2>4 DEF Fire, Schedule, ScheduleSend, ScheduleAck, ScheduleLost,
                FiringInv
  <2>5. CASE PickUpScheduled \/ UNCHANGED vars
    BY <2>5 DEF PickUpScheduled, vars
  <2>. QED
    BY <2>1, <2>2, <2>3, <2>4, <2>5 DEF Next
<1>. QED
  BY <1>1, <1>2

\* FiringInv: a row is made once per delivery, and a delivery beyond the first
\* takes a death.
LEMMA FiringsInv == /\ Init => FiringInv
                    /\ TypeOK /\ FiringInv /\ [Next]_vars => FiringInv'
<1>1. Init => FiringInv
  BY DEF Init, FiringInv
<1>2. ASSUME TypeOK, FiringInv, [Next]_vars PROVE FiringInv'
  <2> USE <1>2 DEF TypeOK, FiringInv
  <2>1. ASSUME UNCHANGED <<cron, losses>> PROVE FiringInv'
    BY <2>1 DEF cron
  <2>2. ASSUME NEW r \in Requests, Handle(r) \/ Work(r) \/ Crash(r)
        PROVE  FiringInv'
    BY <2>1, <2>2 DEF Handle, Admit, Reject, Replay, FindNothing, Insert,
         Collide, Resubmit, Send, Answer, Commit, Work, PickUp, FindMissing,
         Crash
  <2>3. ASSUME NEW f \in Firings, Fire(f) PROVE FiringInv'
    BY <2>3 DEF Fire, Schedule, ScheduleSend, ScheduleAck, ScheduleLost
  <2>4. CASE PickUpScheduled \/ UNCHANGED vars
    BY <2>4 DEF PickUpScheduled, cron, vars
  <2>. QED
    BY <2>2, <2>3, <2>4 DEF Next
<1>. QED
  BY <1>1, <1>2

\* BodyInv: Replay alone names another request's job, and answers 202 only for
\* an equal body.
LEMMA BodiesInv == /\ Init => BodyInv
                   /\ TypeOK /\ BodyInv /\ [Next]_vars => BodyInv'
<1> USE SubmissionAssumption DEF BodyInv, OwnBodyOnly
<1>1. Init => BodyInv
  BY DEF Init, Requests
<1>2. ASSUME TypeOK, BodyInv, [Next]_vars PROVE BodyInv'
  <2> USE <1>2 DEF TypeOK, api, cron, Goto, Finish, Taken, Requests
  <2>1. ASSUME NEW r \in Requests, Handle(r) PROVE BodyInv'
    <3> USE <2>1
    <3>1. CASE Admit(r) \/ Reject(r) \/ FindNothing(r) \/ Collide(r)
      BY <3>1 DEF Admit, Reject, FindNothing, Collide
    <3>2. CASE Replay(r)
      BY <3>2 DEF Replay, Committed, SameKey, SameBody
    <3>3. CASE Insert(r) \/ Resubmit(r) \/ Send(r)
      BY <3>3 DEF Insert, Resubmit, Send
    <3>4. CASE Answer(r) \/ Commit(r)
      BY <3>4 DEF Answer, AnswersAfter, Commit
    <3>. QED
      BY <3>1, <3>2, <3>3, <3>4 DEF Handle
  <2>2. ASSUME NEW r \in Requests, Work(r) PROVE BodyInv'
    BY <2>2 DEF Work, PickUp, FindMissing
  <2>3. ASSUME NEW r \in Requests, Crash(r) PROVE BodyInv'
    BY <2>3 DEF Crash, Working, Inside
  <2>4. ASSUME NEW f \in Firings, Fire(f) PROVE BodyInv'
    BY <2>4 DEF Fire, Schedule, ScheduleSend, ScheduleAck, ScheduleLost
  <2>5. CASE PickUpScheduled \/ UNCHANGED vars
    BY <2>5 DEF PickUpScheduled, vars
  <2>. QED
    BY <2>1, <2>2, <2>3, <2>4, <2>5 DEF Next
<1>. QED
  BY <1>1, <1>2

\* SentInv: Answer comes after Send, and no message becomes unsent.
LEMMA SendsInv == /\ Init => SentInv
                  /\ TypeOK /\ SentInv /\ [Next]_vars => SentInv'
<1> USE SubmissionAssumption DEF SentInv, SentBeforeCommit, Committed
<1>1. Init => SentInv
  BY DEF Init
<1>2. ASSUME TypeOK, SentInv, [Next]_vars PROVE SentInv'
  <2> USE <1>2 DEF TypeOK, api, cron, Goto, Finish, Taken
  <2>1. ASSUME NEW r \in Requests, Handle(r) PROVE SentInv'
    <3> USE <2>1
    <3>1. CASE Admit(r) \/ Reject(r) \/ FindNothing(r) \/ Collide(r)
      BY <3>1 DEF Admit, Reject, FindNothing, Collide
    <3>2. CASE Replay(r)
      BY <3>2 DEF Replay
    <3>3. CASE Insert(r) \/ Resubmit(r) \/ Send(r)
      BY <3>3 DEF Insert, Resubmit, Send
    <3>4. CASE Answer(r) \/ Commit(r)
      BY <3>4 DEF Answer, AnswersAfter, Commit
    <3>. QED
      BY <3>1, <3>2, <3>3, <3>4 DEF Handle
  <2>2. ASSUME NEW r \in Requests, Work(r) PROVE SentInv'
    BY <2>2 DEF Work, PickUp, FindMissing
  <2>3. ASSUME NEW r \in Requests, Crash(r) PROVE SentInv'
    BY <2>3 DEF Crash, Working, Inside
  <2>4. ASSUME NEW f \in Firings, Fire(f) PROVE SentInv'
    BY <2>4 DEF Fire, Schedule, ScheduleSend, ScheduleAck, ScheduleLost
  <2>5. CASE PickUpScheduled \/ UNCHANGED vars
    BY <2>5 DEF PickUpScheduled, vars
  <2>. QED
    BY <2>1, <2>2, <2>3, <2>4, <2>5 DEF Next
<1>. QED
  BY <1>1, <1>2

\* These sets are finite, a request that owes a message is at work, and a
\* message of POST /jobs counts in the depth of the queue.
LEMMA Counts ==
  ASSUME TypeOK
  PROVE  /\ IsFiniteSet(Owing) /\ IsFiniteSet(Sent)
         /\ Cardinality(Owing) \in Nat /\ Cardinality(Sent) \in Nat
         /\ Cardinality(Working) \in Nat /\ Depth \in Nat
         /\ Cardinality(Owing) <= Cardinality(Working)
         /\ Cardinality(Sent) <= Depth
<1> DEFINE Queued == {r \in Requests : message[r] = "queued"}
<1>1. /\ Owing \subseteq Working /\ Working \subseteq Requests
      /\ Sent \subseteq Queued /\ Queued \subseteq Requests
  BY DEF Owing, Working, Inside, Sent, Requests
<1>2. IsFiniteSet(Working) /\ IsFiniteSet(Queued)
  BY <1>1, FS_Subset, SubmissionAssumption
<1>3. /\ IsFiniteSet(Owing) /\ Cardinality(Owing) <= Cardinality(Working)
      /\ IsFiniteSet(Sent) /\ Cardinality(Sent) <= Cardinality(Queued)
  BY <1>1, <1>2, FS_Subset
<1>4. /\ Cardinality(Owing) \in Nat /\ Cardinality(Sent) \in Nat
      /\ Cardinality(Working) \in Nat /\ Cardinality(Queued) \in Nat
  BY <1>2, <1>3, FS_CardinalityType
<1>. QED
  BY <1>3, <1>4 DEF Depth, TypeOK

\* A step that admits nothing and sends nothing leaves both counts or lowers
\* one of them.
LEMMA Fewer ==
  ASSUME NEW S, NEW T, IsFiniteSet(S), T \subseteq S
  PROVE  /\ Cardinality(T) \in Nat /\ Cardinality(S) \in Nat
         /\ Cardinality(T) <= Cardinality(S)
  BY FS_Subset, FS_CardinalityType

\* QueueInv: Admit finds room in the queue and among the threads, Send pays
\* what was owed, and nothing else adds to either.
LEMMA QueuesInv == /\ Init => QueueInv
                   /\ TypeOK /\ QueueInv /\ [Next]_vars => QueueInv'
<1> USE SubmissionAssumption
<1>1. ASSUME Init PROVE QueueInv
  <2>1. Owing = {} /\ Sent = {} /\ SilentInv
    BY <1>1 DEF Init, Owing, Sent, SilentInv, Requests
  <2>2. Cardinality(Owing) = 0 /\ Cardinality(Sent) = 0
    BY <2>1, FS_EmptySet
  <2>. QED
    BY <2>1, <2>2 DEF QueueInv
<1>2. ASSUME TypeOK, QueueInv, [Next]_vars PROVE QueueInv'
  <2>1. /\ Cardinality(Owing) \in Nat /\ Cardinality(Sent) \in Nat
        /\ IsFiniteSet(Owing) /\ IsFiniteSet(Sent)
        /\ Cardinality(Sent) + Cardinality(Owing) <= DepthLimit - 1 + Threads
        /\ SilentInv
    BY <1>2, Counts DEF QueueInv
  <2>2. ASSUME Owing' \subseteq Owing, Sent' \subseteq Sent, SilentInv'
        PROVE  QueueInv'
    <3>1. /\ Cardinality(Owing') <= Cardinality(Owing)
          /\ Cardinality(Sent') <= Cardinality(Sent)
          /\ Cardinality(Owing') \in Nat /\ Cardinality(Sent') \in Nat
      BY <2>1, <2>2, Fewer
    <3>2. Cardinality(Sent') + Cardinality(Owing') <= DepthLimit - 1 + Threads
      BY <2>1, <3>1
    <3>. QED
      BY <2>2, <3>2 DEF QueueInv
  <2> USE <1>2 DEF TypeOK, PC, api, cron, Goto, Finish, Taken, SilentInv
  <2>3. ASSUME NEW r \in Requests, Handle(r) PROVE QueueInv'
    <3>1. CASE Admit(r)
      <4>1. Depth < DepthLimit /\ Cardinality(Working) < Threads
        BY <3>1 DEF Admit, HasCapacity
      <4>2. /\ r \in Submits /\ pc[r] = "new" /\ message' = message
            /\ pc' = [pc EXCEPT ![r] = "admitted"]
        BY <3>1 DEF Admit
      <4>3. Sent' = Sent /\ Owing' = Owing \union {r} /\ r \notin Owing
        BY <4>2 DEF Sent, Owing, Requests
      <4>4. SilentInv'
        BY <2>1, <4>2, <4>3 DEF Requests
      <4>5. Cardinality(Owing') = Cardinality(Owing) + 1
        BY <2>1, <4>3, FS_AddElement
      <4>6. Cardinality(Sent') + Cardinality(Owing') <= DepthLimit - 1 + Threads
        BY <2>1, <4>1, <4>3, <4>5, Counts
      <4>. QED
        BY <4>4, <4>6 DEF QueueInv
    <3>2. CASE \/ Reject(r) \/ FindNothing(r) \/ Insert(r) \/ Replay(r)
               \/ Collide(r) \/ Answer(r) \/ Commit(r) \/ Resubmit(r)
      <4>1. message' = message /\ Owing' \subseteq Owing
        BY <3>2 DEF Reject, FindNothing, Insert, Replay, Collide, Answer,
                    AnswersAfter, Commit, Resubmit, Owing, Requests
      <4>2. \A s \in Submits : pc'[s] = "new" => pc[s] = "new"
        BY <3>2 DEF Reject, FindNothing, Insert, Replay, Collide, Answer,
                    AnswersAfter, Commit, Resubmit, Requests
      <4>. QED
        BY <2>1, <2>2, <4>1, <4>2 DEF Sent
    <3>3. CASE Send(r) /\ r \in Resubmits
      <4>1. Owing' = Owing /\ Sent' = Sent
        BY <3>3 DEF Send, Owing, Sent, Requests
      <4>2. SilentInv'
        BY <2>1, <3>3, <4>1 DEF Send, Requests
      <4>. QED
        BY <2>2, <4>1, <4>2
    <3>4. CASE Send(r) /\ r \in Submits
      <4>1. /\ r \in Owing /\ Owing' = Owing \ {r}
            /\ Sent' = Sent \union {r}
        BY <3>4 DEF Send, Owing, Sent, Requests
      <4>2. r \notin Sent
        BY <2>1, <4>1, <3>4 DEF Sent
      <4>3. SilentInv'
        BY <2>1, <3>4, <4>1 DEF Send, Requests
      <4>4. /\ Cardinality(Owing') = Cardinality(Owing) - 1
            /\ Cardinality(Sent') = Cardinality(Sent) + 1
        BY <2>1, <4>1, <4>2, FS_AddElement, FS_RemoveElement
      <4>5. Cardinality(Sent') + Cardinality(Owing') <= DepthLimit - 1 + Threads
        BY <2>1, <4>4
      <4>. QED
        BY <4>3, <4>5 DEF QueueInv
    <3>. QED
      BY <2>3, <3>1, <3>2, <3>3, <3>4 DEF Handle, Requests
  <2>4. ASSUME NEW r \in Requests, Work(r) PROVE QueueInv'
    <3>1. Owing' = Owing /\ Sent' \subseteq Sent
      BY <2>4 DEF Work, PickUp, FindMissing, Owing, Sent, Requests
    <3>2. SilentInv'
      BY <2>1, <2>4, <3>1 DEF Work, PickUp, FindMissing, Requests
    <3>. QED
      BY <2>2, <3>1, <3>2
  <2>5. ASSUME NEW r \in Requests, Crash(r) PROVE QueueInv'
    <3>1. message' = message /\ Owing' \subseteq Owing
      BY <2>5 DEF Crash, Owing, Requests
    <3>2. \A s \in Submits : pc'[s] = "new" => pc[s] = "new"
      BY <2>5 DEF Crash, Requests
    <3>. QED
      BY <2>1, <2>2, <3>1, <3>2 DEF Sent
  <2>6. CASE (\E f \in Firings : Fire(f)) \/ PickUpScheduled \/ UNCHANGED vars
    <3>1. message' = message /\ pc' = pc
      BY <2>6 DEF Fire, Schedule, ScheduleSend, ScheduleAck, ScheduleLost,
                  PickUpScheduled, vars
    <3>2. Owing' = Owing /\ Sent' = Sent
      BY <3>1 DEF Owing, Sent
    <3>. QED
      BY <2>1, <2>2, <3>1, <3>2
  <2>. QED
    BY <2>3, <2>4, <2>5, <2>6 DEF Next
<1>. QED
  BY <1>1, <1>2

-----------------------------------------------------------------------------
(* Theorems *)

\* Every variable keeps its type, and no firing of the schedule has more rows
\* than its deliveries account for.
THEOREM TypeCorrect == Spec => []TypeOK
BY TypesInv, FiringsInv, PTL DEF Spec

\* Callers that use one Idempotency-Key get one job (uq_jobs_idempotency_key),
\* and a firing of the schedule gets no more than its deaths explain
\* (submit_scheduled_job).
THEOREM OneJob == Spec => []OneJobPerCause
<1>1. TypeOK /\ KeyInv /\ FiringInv => OneJobPerCause
  BY SubmissionAssumption
  DEF TypeOK, KeyInv, FiringInv, OneJobPerCause, Committed, Held
<1>. QED
  BY <1>1, TypesInv, KeysInv, FiringsInv, PTL DEF Spec

\* No caller is handed a job that was submitted with another body
\* (core/idempotency.py).
THEOREM OwnBody == Spec => []OwnBodyOnly
<1>1. BodyInv => OwnBodyOnly
  BY DEF BodyInv
<1>. QED
  BY <1>1, TypesInv, FiringsInv, BodiesInv, PTL DEF Spec

\* No committed job waits for a message that was never sent (submit_job and
\* retry_job send before they commit).
THEOREM MessageSent == Spec => []SentBeforeCommit
<1>1. SentInv => SentBeforeCommit
  BY DEF SentInv
<1>. QED
  BY <1>1, TypesInv, FiringsInv, SendsInv, PTL DEF Spec

\* Submissions alone never fill the queue beyond its limit by more than the
\* requests that passed the check together (assert_capacity).
THEOREM QueueWithin == Spec => []QueueBounded
<1>1. TypeOK /\ QueueInv => QueueBounded
  BY Counts, SubmissionAssumption DEF QueueInv, QueueBounded, Sent
<1>. QED
  BY <1>1, TypesInv, FiringsInv, QueuesInv, PTL DEF Spec

=============================================================================
