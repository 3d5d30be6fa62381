---------------------------- MODULE TargetHistory ----------------------------
(***************************************************************************)
(* What the jobs of one target leave for each other: the snapshot of row    *)
(* hashes that incremental jobs are compared with, and the drift baseline.  *)
(* Each job is in assemble_job with its pages fetched; what else may happen *)
(* to a job is CrawlPipeline.                                               *)
(*                                                                          *)
(* finalise_job compares, stores and checks in one transaction at READ      *)
(* COMMITTED. The upsert of the snapshot locks one row after the other, in  *)
(* the order of the scraped rows, until the commit; everything before it    *)
(* takes no lock.                                                           *)
(***************************************************************************)
EXTENDS Integers, FiniteSets, Sequences

CONSTANTS
  Jobs,         \* jobs of the target that are being assembled
  Incremental,  \* those with jobs.incremental
  Keys,         \* values of the row_key columns
  Hashes,       \* hashes of a row's content
  Absent,       \* no row in the snapshot
  Results,      \* what the pages of a job can have yielded
  FaultKinds,   \* what may go wrong: a worker dies before the snapshot is
                \*   committed ("early") or after ("late"), or a body raises
                \*   for a reason outside this module ("error")
  MaxFaults     \* bound: how often

Row == [key: Keys, hash: Hashes]

ASSUME HistoryAssumption ==
  /\ IsFiniteSet(Jobs) /\ Incremental \subseteq Jobs
  /\ Absent \notin Hashes
  /\ Results \subseteq [rows: Seq(Row), pages: Nat]
  /\ \A res \in Results : res.pages = 0 => res.rows = <<>>
  /\ FaultKinds \subseteq {"early", "late", "error"} /\ MaxFaults \in Nat

VARIABLES
  \* inputs
  keyed,     \* the target declares a row_key
  result,    \* per job, the rows of its pages and how many did not fail
  \* Postgres
  snapshot,  \* target_snapshots: identity to content_hash
  baseline,  \* drift_baselines.rows_per_page
  finished,  \* jobs whose final state is committed
  \* S3
  file,      \* per job, the rows of the result file
  \* per job, the body of assemble_job
  pc,
  emitted,   \* the rows that go into the file
  held,      \* positions of the rows its open transaction has upserted
  saw,       \* the baseline that drift.check read
  suspect,   \* its verdict
  basis,     \* the baseline that update_baseline read
  \* history
  accepted,  \* jobs whose rows per page went into the baseline
  struck,    \* rows of jobs that a fault hit behind their commit
  faults

input  == <<keyed, result>>
tables == <<snapshot, baseline, finished>>
locals == <<emitted, held, saw, suspect, basis>>
history == <<accepted, struck, faults>>
vars == <<input, tables, file, pc, locals, history>>

NoBaseline == -1

\* Without a row_key a row is identified by all of its columns. Keys are
\* those that differ in row_identity, where None, "" and 0 are one; a key too
\* long for its column raises, which is Fail.
Identity(row) == IF keyed THEN <<row.key>> ELSE <<row.key, row.hash>>
Identities == {<<k>> : k \in Keys} \union (Keys \X Hashes)

InTransaction == {"compared", "checked", "updated"}
AfterCommit   == {"stored", "uploaded", "done"}
Raised == {"duplicated", "deadlocked", "conflicted", "refused", "failed"}
PC == {"queued"} \union InTransaction \union AfterCommit \union Raised

TypeOK ==
  /\ keyed \in BOOLEAN /\ result \in [Jobs -> Results]
  /\ snapshot \in [Identities -> Hashes \union {Absent}]
  /\ baseline \in Nat \union {NoBaseline}
  /\ finished \subseteq Jobs
  /\ file \in [Jobs -> SUBSET Row]
  /\ pc \in [Jobs -> PC]
  /\ emitted \in [Jobs -> SUBSET Row]
  /\ held \in [Jobs -> SUBSET Nat]
  /\ \A j \in Jobs : held[j] # {} => pc[j] \in InTransaction
  /\ saw \in [Jobs -> Nat \union {NoBaseline}]
  /\ suspect \in [Jobs -> BOOLEAN]
  /\ basis \in [Jobs -> Nat \union {NoBaseline}]
  /\ accepted \subseteq Jobs
  /\ struck \subseteq Row
  /\ faults \in [{"early", "late", "error"} -> Nat]

\* A target without history.
Init ==
  /\ keyed \in BOOLEAN /\ result \in [Jobs -> Results]
  /\ snapshot = [id \in Identities |-> Absent]
  /\ baseline = NoBaseline
  /\ finished = {}
  /\ file = [j \in Jobs |-> {}]
  /\ pc = [j \in Jobs |-> "queued"]
  /\ emitted = [j \in Jobs |-> {}]
  /\ held = [j \in Jobs |-> {}]
  /\ saw = [j \in Jobs |-> NoBaseline]
  /\ suspect = [j \in Jobs |-> FALSE]
  /\ basis = [j \in Jobs |-> NoBaseline]
  /\ accepted = {}
  /\ struck = {}
  /\ faults = [early |-> 0, late |-> 0, error |-> 0]

Goto(j, to) == pc' = [pc EXCEPT ![j] = to]

-----------------------------------------------------------------------------
(* The rows of a job, by their positions in what its pages yielded *)

\* Variant, wrong: every row is kept.
KeepAll(rows) == DOMAIN rows

\* dedupe: with a row_key, the first row of each identity.
Dedupe(rows) ==
  {p \in DOMAIN rows :
     keyed => \A q \in 1 .. p - 1 : rows[q].key # rows[p].key}

Kept(j) == Dedupe(result[j].rows)
RowAt(j, p) == result[j].rows[p]
RowSet(j) == {RowAt(j, p) : p \in Kept(j)}
RowCount(j) == Cardinality(Kept(j))

-----------------------------------------------------------------------------
(* The transaction of finalise_job *)

\* Variant, wrong: only keys that are new.
AddedOnly(row) == snapshot[Identity(row)] = Absent

\* diff_against_snapshot: added, or changed. Keys that are gone are counted
\* for the log and go nowhere else.
Differs(row) == snapshot[Identity(row)] # row.hash

\* The committed snapshot is read without a lock.
Compare(j) ==
  /\ pc[j] = "queued"
  /\ Goto(j, "compared")
  /\ emitted' = [emitted EXCEPT ![j] =
                   IF j \in Incremental THEN {row \in RowSet(j) : Differs(row)}
                                        ELSE RowSet(j)]
  /\ UNCHANGED <<input, tables, file, held, saw, suspect, basis, history>>

\* The identities whose rows this job's transaction has locked, and the one
\* it asks for next.
Locked(j) == {Identity(RowAt(j, p)) : p \in held[j]}

IsNext(j, p) ==
  /\ pc[j] = "compared"
  /\ p \in Kept(j) \ held[j]
  /\ \A q \in Kept(j) : q < p => q \in held[j]

WaitsFor(j, k) ==
  /\ k # j
  /\ \E p \in Kept(j) : IsNext(j, p) /\ Identity(RowAt(j, p)) \in Locked(k)

\* store_snapshot: ON CONFLICT DO UPDATE, row by row.
Upsert(j) ==
  /\ \E p \in Kept(j) :
       /\ IsNext(j, p)
       /\ Identity(RowAt(j, p)) \notin Locked(j)
       /\ held' = [held EXCEPT ![j] = @ \union {p}]
  /\ ~ \E k \in Jobs : WaitsFor(j, k)
  /\ UNCHANGED <<input, tables, file, pc, emitted, saw, suspect, basis,
                 history>>

\* Variant, wrong: the connection keeps its transaction.
RaiseHolding(j, why) ==
  /\ Goto(j, why)
  /\ UNCHANGED <<input, tables, file, locals, accepted>>

\* The body raises: an open transaction is rolled back and the message is
\* acked. A job without its final state stays RUNNING.
Raise(j, why) ==
  /\ Goto(j, why)
  /\ held' = [held EXCEPT ![j] = {}]
  /\ emitted' = [emitted EXCEPT ![j] = {}]
  /\ saw' = [saw EXCEPT ![j] = NoBaseline]
  /\ suspect' = [suspect EXCEPT ![j] = FALSE]
  /\ basis' = [basis EXCEPT ![j] = NoBaseline]
  /\ UNCHANGED <<input, tables, file, accepted>>

\* One statement must not touch a row twice.
UpsertTwice(j) ==
  /\ \E p \in Kept(j) :
       IsNext(j, p) /\ Identity(RowAt(j, p)) \in Locked(j)
  /\ Raise(j, "duplicated")
  /\ UNCHANGED <<struck, faults>>

\* Postgres breaks a cycle of waiting transactions by aborting one of them.
Deadlock(j) ==
  /\ \E cycle \in SUBSET Jobs :
       /\ j \in cycle
       /\ \A i \in cycle : \E k \in cycle : WaitsFor(i, k)
  /\ Raise(j, "deadlocked")
  /\ UNCHANGED <<struck, faults>>

\* Rows per page below drift_min_ratio (0.5) of the baseline.
BelowFloor(j, base) ==
  base # NoBaseline /\ 2 * RowCount(j) < base * result[j].pages

\* drift.check, behind the upsert.
Check(j) ==
  /\ pc[j] = "compared" /\ held[j] = Kept(j)
  /\ Goto(j, "checked")
  /\ saw' = [saw EXCEPT ![j] = baseline]
  /\ suspect' = [suspect EXCEPT ![j] =
                   result[j].pages = 0 \/ BelowFloor(j, baseline)]
  /\ UNCHANGED <<input, tables, file, emitted, held, basis, history>>

\* Variant, wrong: rounded up.
BlendedUp(base, rows, pages) ==
  {(7 * base * pages + 3 * rows + 10 * pages - 1) \div (10 * pages)}

\* Variant, wrong: the weights of the old and the new exchanged.
BlendedSwapped(base, rows, pages) ==
  {(3 * base * pages + 7 * rows) \div (10 * pages)}

\* int(0.7 * base + 0.3 * rows / pages). Where the exact sum is whole, the sum
\* of doubles may fall just short of it (base 3 and 3 rows on a page give 2).
Blended(base, rows, pages) ==
  LET top   == 7 * base * pages + 3 * rows
      whole == top \div (10 * pages)
  IN  IF top = whole * 10 * pages /\ whole > 0 THEN {whole - 1, whole}
                                               ELSE {whole}

\* update_baseline reads the row anew. A row that check had loaded is met again
\* in the session as long as it is alive there.
Update(j) ==
  /\ pc[j] = "checked" /\ ~suspect[j]
  /\ Goto(j, "updated")
  /\ \E row \in IF saw[j] = NoBaseline THEN {baseline} ELSE {saw[j], baseline} :
       basis' = [basis EXCEPT ![j] = row]
  /\ UNCHANGED <<input, tables, file, emitted, held, saw, suspect, history>>

\* What it makes of the row it read; a value that does not differ from the row
\* is not in the UPDATE.
NewBaselines(j) ==
  LET rows  == RowCount(j)
      pages == result[j].pages
  IN  IF basis[j] = NoBaseline
        THEN {rows \div pages}
        ELSE {IF new = basis[j] THEN baseline ELSE new :
                new \in Blended(basis[j], rows, pages)}

\* The first baseline is an INSERT.
Collides(j) == basis[j] = NoBaseline /\ baseline # NoBaseline

\* The commit flushes the baseline and makes the upserts visible.
Commit(j) ==
  /\ \/ /\ pc[j] = "checked" /\ suspect[j]
        /\ UNCHANGED <<baseline, accepted>>
     \/ /\ pc[j] = "updated" /\ ~Collides(j)
        /\ baseline' \in NewBaselines(j)
        /\ accepted' = accepted \union {j}
  /\ snapshot' = [id \in Identities |->
                    LET new == {row \in RowSet(j) : Identity(row) = id}
                    IN  IF new = {} THEN snapshot[id]
                                    ELSE (CHOOSE row \in new : TRUE).hash]
  /\ Goto(j, "stored")
  /\ held' = [held EXCEPT ![j] = {}]
  /\ UNCHANGED <<input, finished, file, emitted, saw, suspect, basis, struck,
                 faults>>

\* Another job has inserted it since: IntegrityError, and all is rolled back.
CommitCollides(j) ==
  /\ pc[j] = "updated" /\ Collides(j)
  /\ Raise(j, "conflicted")
  /\ UNCHANGED <<struck, faults>>

-----------------------------------------------------------------------------
(* After the transaction *)

Upload(j) ==
  /\ pc[j] = "stored"
  /\ file' = [file EXCEPT ![j] = emitted[j]]
  /\ Goto(j, "uploaded")
  /\ UNCHANGED <<input, tables, locals, history>>

\* The commit of the final state, which is refused when a redelivered assembly
\* had been through here before. What is left is to queue the callback and to
\* ack the message.
Finish(j) ==
  /\ pc[j] = "uploaded"
  /\ finished' = finished \union {j}
  /\ Goto(j, IF j \in finished THEN "refused" ELSE "done")
  /\ UNCHANGED <<input, snapshot, baseline, file, locals, history>>

-----------------------------------------------------------------------------
(* Faults *)

Strike(j, fault) ==
  /\ fault \in FaultKinds
  /\ faults["early"] + faults["late"] + faults["error"] < MaxFaults
  /\ faults' = [faults EXCEPT ![fault] = @ + 1]
  /\ struck' = IF pc[j] \in AfterCommit THEN struck \union emitted[j]
                                        ELSE struck

\* The worker dies, an open transaction is rolled back, and the message is
\* delivered again.
Lost(j) ==
  /\ pc[j] \in InTransaction \union AfterCommit
  /\ Strike(j, IF pc[j] \in InTransaction THEN "early" ELSE "late")
  /\ Raise(j, "queued")

\* S3 or Postgres fails, or the soft time limit is up: the body raises wherever
\* it is. (Before the transaction that is no more than a job that is not run.)
Fail(j) ==
  /\ pc[j] \in InTransaction \union AfterCommit
  /\ Strike(j, "error")
  /\ Raise(j, "failed")

Step(j) ==
  \/ Compare(j) \/ Upsert(j) \/ UpsertTwice(j) \/ Deadlock(j) \/ Check(j)
  \/ Update(j) \/ Commit(j) \/ CommitCollides(j) \/ Upload(j) \/ Finish(j)

Next == \E j \in Jobs : Step(j) \/ Lost(j) \/ Fail(j)

Spec == Init /\ [][Next]_vars

-----------------------------------------------------------------------------
(* Properties *)

Carries(rows, id) ==
  \E row \in rows : Identity(row) = id /\ row.hash = snapshot[id]

\* What the snapshot knows, and no incremental job will report again, is in the
\* result file of some job or on its way there, however the jobs of the target
\* interleave (dedupe.py:7, "reports added, changed and removed instead of the
\* whole list"). Only a fault behind the commit of a job loses rows, and only
\* those this job had to report.
SnapshotDelivered ==
  \A id \in Identities :
    snapshot[id] # Absent =>
      \/ Carries(struck, id)
      \/ \E j \in Jobs : \/ Carries(file[j], id)
                         \/ pc[j] = "stored" /\ Carries(emitted[j], id)

\* When every assembly has ended, every row of the snapshot was reported by
\* one (dedupe.py:7).
ReportedAtLast ==
  (\A j \in Jobs : pc[j] \in {"done"} \union Raised) =>
    \A id \in Identities :
      snapshot[id] # Absent => \E j \in Jobs : Carries(file[j], id)

\* dedupe and store_snapshot mean the same by one row: a target with a row_key
\* never fails its own upsert.
KeyedNeverDuplicates == keyed => \A j \in Jobs : pc[j] # "duplicated"

\* Not above the best rows per page that was accepted, and not more than one
\* row below the poorest.
Tracks(base) ==
  /\ \E j \in accepted : base * result[j].pages <= RowCount(j)
  /\ \E j \in accepted : RowCount(j) \div result[j].pages <= base + 1

\* The baseline stays where the accepted runs put it, whatever truncation,
\* rounding and lost updates do to it (drift.update_baseline).
BaselineTracks == baseline # NoBaseline => Tracks(baseline)

\* No accepted run is poorer than three rows on a page, but for at most one
\* that did not insert the first baseline.
OnePoorAtMost(j) ==
  \E e \in Jobs :
    /\ e \in accepted => basis[e] # NoBaseline
    /\ \A i \in accepted \ {e, j} : RowCount(i) >= 3 * result[i].pages

\* A job without rows that finds a baseline is SUSPECT (architecture.md, "An
\* empty CSV delivered as success is worse than an error"), even when another
\* one without rows went into the baseline, because it was inserted between
\* that job's check and its update. Not so for a job that is assembled again
\* behind its own commit.
EmptyRunFlagged ==
  \A j \in Jobs :
    /\ pc[j] \in AfterCommit
    /\ RowCount(j) = 0 /\ saw[j] # NoBaseline
    /\ faults["late"] = 0
    /\ OnePoorAtMost(j)
    => suspect[j]

=============================================================================
