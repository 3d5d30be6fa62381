------------------------ MODULE TargetHistoryProofs -------------------------
(***************************************************************************)
(* Theorems about TargetHistory, for any jobs, rows, pages and faults.       *)
(***************************************************************************)
EXTENDS TargetHistory, FiniteSetTheorems, TLAPS

\* A transaction holds rows of its own job, and only while it is open.
HeldInv == \A j \in Jobs : held[j] \subseteq Kept(j)

\* What drift.check and update_baseline read: a run that is accepted has pages,
\* and every value of the baseline that is still in use tracks the accepted
\* runs.
SawInv ==
  /\ \A j \in accepted : result[j].pages > 0
  /\ \A j \in Jobs :
       /\ pc[j] = "checked" /\ ~suspect[j] => result[j].pages > 0
       /\ pc[j] = "updated" => result[j].pages > 0
  /\ \A j \in Jobs :
       /\ saw[j] # NoBaseline => baseline # NoBaseline /\ Tracks(saw[j])
       /\ basis[j] # NoBaseline => baseline # NoBaseline /\ Tracks(basis[j])

\* A row that is in a file or about to be, or that a fault has hit.
Reported(row) ==
  \/ row \in struck
  \/ \E k \in Jobs : row \in file[k] \/ (pc[k] = "stored" /\ row \in emitted[k])

Unfiled == {"queued", "stored"} \union InTransaction

\* What the file of a job has before its upload is of an assembly that was
\* struck; behind the upload it has what the job emitted; and inside the
\* transaction every row of the job is reported or will be.
DeliveryInv ==
  /\ \A j \in Jobs : pc[j] \in Unfiled => file[j] \subseteq struck
  /\ \A j \in Jobs : pc[j] \in {"uploaded", "done"} => file[j] = emitted[j]
  /\ \A j \in Jobs : pc[j] \in InTransaction =>
       \A row \in RowSet(j) : row \in emitted[j] \/ Reported(row)
  /\ \A id \in Identities : snapshot[id] # Absent =>
       \E row \in Row : /\ Identity(row) = id /\ row.hash = snapshot[id]
                        /\ Reported(row)

-----------------------------------------------------------------------------
(* The rows of a job *)

\* The rows that dedupe keeps are finitely many positions, with rows of the
\* declared shape.
LEMMA KeptType ==
  ASSUME TypeOK, NEW j \in Jobs
  PROVE  /\ result[j].pages \in Nat
         /\ Kept(j) \subseteq Nat \ {0}
         /\ Kept(j) \subseteq DOMAIN result[j].rows
         /\ RowCount(j) \in Nat
         /\ \A p \in Kept(j) : RowAt(j, p) \in Row
         /\ RowSet(j) \subseteq Row
         /\ result[j].pages = 0 => RowCount(j) = 0
<1>1. /\ result[j] \in [rows : Seq(Row), pages : Nat]
      /\ result[j].pages = 0 => result[j].rows = <<>>
  BY HistoryAssumption DEF TypeOK
<1> DEFINE rows == result[j].rows
<1>2. rows \in Seq(Row) /\ Len(rows) \in Nat /\ DOMAIN rows = 1 .. Len(rows)
  BY <1>1
<1>3. Kept(j) \subseteq 1 .. Len(rows)
  BY <1>2 DEF Kept, Dedupe
<1>4. IsFiniteSet(Kept(j)) /\ Cardinality(Kept(j)) \in Nat
  <2>1. IsFiniteSet(1 .. Len(rows))
    BY <1>2, FS_Interval
  <2>2. IsFiniteSet(Kept(j))
    BY <2>1, <1>3, FS_Subset
  <2> QED
    BY <2>2, FS_CardinalityType
<1>5. \A p \in Kept(j) : RowAt(j, p) \in Row
  BY <1>2, <1>3 DEF RowAt
<1>6. result[j].pages = 0 => Kept(j) = {}
  BY <1>1, <1>2, <1>3
<1> QED
  BY <1>1, <1>2, <1>3, <1>4, <1>5, <1>6, FS_EmptySet DEF RowCount, RowSet

\* Every row has an identity the snapshot knows.
LEMMA IdentityType ==
  ASSUME keyed \in BOOLEAN, NEW row \in Row
  PROVE  Identity(row) \in Identities /\ row.hash \in Hashes
  BY DEF Identity, Identities, Row

\* No step changes the inputs, or what is derived from them.
LEMMA InputsFixed ==
  ASSUME [Next]_vars
  PROVE  /\ keyed' = keyed /\ result' = result
         /\ \A j : Kept(j)' = Kept(j) /\ RowCount(j)' = RowCount(j)
                   /\ RowSet(j)' = RowSet(j)
         /\ \A row : Identity(row)' = Identity(row)
<1>1. keyed' = keyed /\ result' = result
  BY DEF Next, Step, vars, input, Compare, Upsert, UpsertTwice, Deadlock, Raise,
         Check, Update, Commit, CommitCollides, Upload, Finish, Lost, Fail
<1> QED
  BY <1>1 DEF Kept, RowCount, RowSet, RowAt, Dedupe, Identity

-----------------------------------------------------------------------------
(* The arithmetic of the baseline *)

\* What \div means.
LEMMA Division ==
  ASSUME NEW t \in Nat, NEW d \in Nat \ {0}
  PROVE  /\ t \div d \in Nat
         /\ d * (t \div d) <= t
         /\ t < d * (t \div d) + d
  OBVIOUS

\* Factors keep the order.
LEMMA Scaled ==
  ASSUME NEW x \in Nat, NEW y \in Nat, NEW d \in Nat
  PROVE  /\ x <= y => x * d <= y * d
         /\ d > 0 /\ x * d <= y * d => x <= y
         /\ x * d < y * d => x < y
  OBVIOUS

\* A blend of a baseline with a run is a whole number that lies, times the
\* pages, at most one page's worth below the sum.
LEMMA BlendRange ==
  ASSUME NEW base \in Nat, NEW rows \in Nat, NEW pages \in Nat \ {0},
         NEW new \in Blended(base, rows, pages)
  PROVE  /\ new \in Nat
         /\ 10 * (new * pages) <= 7 * (base * pages) + 3 * rows
         /\ 7 * (base * pages) + 3 * rows <= 10 * (new * pages) + 10 * pages
<1> DEFINE top   == 7 * base * pages + 3 * rows
           whole == top \div (10 * pages)
<1>1. /\ base * pages \in Nat /\ top = 7 * (base * pages) + 3 * rows
      /\ top \in Nat /\ 10 * pages \in Nat \ {0}
  OBVIOUS
<1> HIDE DEF top
<1>2. /\ whole \in Nat
      /\ (10 * pages) * whole <= top
      /\ top < (10 * pages) * whole + 10 * pages
  BY <1>1, Division
<1>3. new = whole \/ (new = whole - 1 /\ whole > 0 /\ top = whole * 10 * pages)
  BY DEF Blended, top
<1> HIDE DEF whole
<1>4. CASE new = whole
  <2>1. (10 * pages) * whole = 10 * (whole * pages)
    BY <1>2
  <2> QED
    BY <1>1, <1>2, <1>4, <2>1
<1>5. CASE new = whole - 1 /\ whole > 0 /\ top = whole * 10 * pages
  <2>1. new \in Nat /\ whole = new + 1
    BY <1>2, <1>5
  <2>2. whole * 10 * pages = 10 * (new * pages) + 10 * pages
    BY <2>1
  <2> QED
    BY <1>1, <1>5, <2>1, <2>2
<1> QED
  BY <1>3, <1>4, <1>5

\* A blend is not above the run, or not above what it was blended from.
LEMMA BlendNotAbove ==
  ASSUME NEW base \in Nat, NEW rows \in Nat, NEW pages \in Nat \ {0},
         NEW new \in Blended(base, rows, pages)
  PROVE  new * pages <= rows \/ new <= base
<1>1. new \in Nat /\ 10 * (new * pages) <= 7 * (base * pages) + 3 * rows
  BY BlendRange
<1>2. base * pages \in Nat /\ new * pages \in Nat
  BY <1>1
<1>3. CASE base * pages <= rows
  BY <1>1, <1>2, <1>3
<1>4. CASE rows < base * pages
  <2>1. new * pages <= base * pages
    BY <1>1, <1>2, <1>4
  <2> QED
    BY <2>1, <1>1, Scaled
<1> QED
  BY <1>2, <1>3, <1>4

\* A blend falls at most one short of what the run and the old baseline reach.
LEMMA BlendNotBelow ==
  ASSUME NEW base \in Nat, NEW rows \in Nat, NEW pages \in Nat \ {0},
         NEW new \in Blended(base, rows, pages),
         NEW low \in Nat, low <= base + 1, low * pages <= rows
  PROVE  low <= new + 1
<1>1. /\ new \in Nat
      /\ 7 * (base * pages) + 3 * rows <= 10 * (new * pages) + 10 * pages
  BY BlendRange
<1>2. SUFFICES ASSUME low >= new + 2 PROVE FALSE
  BY <1>1
<1>3. (new + 2) * pages <= low * pages /\ (new + 1) * pages <= base * pages
  BY <1>1, <1>2, Scaled
<1>4. /\ (new + 2) * pages = new * pages + 2 * pages
      /\ (new + 1) * pages = new * pages + pages
      /\ new * pages \in Nat /\ base * pages \in Nat /\ low * pages \in Nat
  BY <1>1
<1> HIDE DEF Blended
<1> QED
  BY <1>1, <1>3, <1>4

-----------------------------------------------------------------------------
(* Types *)

\* The initial state has its types, holds no rows and has accepted no run.
LEMMA InitInv == Init => TypeOK /\ HeldInv /\ SawInv
  BY DEF Init, TypeOK, HeldInv, SawInv, PC, InTransaction

\* What an accepted run makes of the baseline is a natural number.
LEMMA CommitValue ==
  ASSUME TypeOK, SawInv, NEW j \in Jobs, Commit(j), pc[j] = "updated"
  PROVE  baseline' \in Nat
<1>1. baseline' \in NewBaselines(j)
  BY DEF Commit
<1>2. result[j].pages \in Nat \ {0} /\ RowCount(j) \in Nat
  BY <1>1, KeptType DEF SawInv
<1>3. CASE basis[j] = NoBaseline
  BY <1>1, <1>2, <1>3, Division DEF NewBaselines
<1>4. CASE basis[j] # NoBaseline
  <2>1. basis[j] \in Nat /\ baseline \in Nat
    BY <1>4 DEF TypeOK, SawInv
  <2>2. \A new \in Blended(basis[j], RowCount(j), result[j].pages) : new \in Nat
    BY <1>2, <2>1, BlendRange
  <2> QED
    BY <1>1, <1>4, <2>1, <2>2 DEF NewBaselines
<1> QED
  BY <1>3, <1>4

\* Every step keeps the types.
LEMMA TypeStep == TypeOK /\ HeldInv /\ SawInv /\ [Next]_vars => TypeOK'
<1> SUFFICES ASSUME TypeOK, HeldInv, SawInv, [Next]_vars PROVE TypeOK'
  OBVIOUS
<1> USE DEF TypeOK, PC, InTransaction, AfterCommit, Raised
<1>1. ASSUME NEW j \in Jobs, Compare(j) PROVE TypeOK'
  <2>1. /\ RowSet(j) \in SUBSET Row
        /\ {row \in RowSet(j) : Differs(row)} \in SUBSET Row
    BY KeptType
  <2>2. emitted' \in [Jobs -> SUBSET Row]
    BY <1>1, <2>1 DEF Compare
  <2> QED
    BY <1>1, <2>2, HistoryAssumption DEF Compare, Goto, input, tables, history
<1>2. ASSUME NEW j \in Jobs, Upsert(j) PROVE TypeOK'
  <2>1. /\ pc[j] = "compared"
        /\ \E p \in Kept(j) : held' = [held EXCEPT ![j] = @ \union {p}]
    BY <1>2 DEF Upsert, IsNext
  <2>2. held' \in [Jobs -> SUBSET Nat]
    BY <2>1, KeptType
  <2> QED
    BY <1>2, <2>1, <2>2 DEF Upsert, input, tables, history
<1>3. ASSUME NEW j \in Jobs, NEW why \in {"queued"} \union Raised,
             Raise(j, why), struck' \subseteq Row,
             faults' \in [{"early", "late", "error"} -> Nat]
      PROVE  TypeOK'
  BY <1>3 DEF Raise, Goto, input, tables
<1>4. ASSUME NEW j \in Jobs, Check(j) PROVE TypeOK'
  <2>1. (result[j].pages = 0 \/ BelowFloor(j, baseline)) \in BOOLEAN
    BY DEF BelowFloor
  <2> QED
    BY <1>4, <2>1 DEF Check, Goto, input, tables, history
<1>5. ASSUME NEW j \in Jobs, Commit(j) PROVE TypeOK'
  <2>1. baseline' \in Nat \union {NoBaseline}
    BY <1>5, CommitValue DEF Commit
  <2>2. \A id \in Identities :
          LET new == {row \in RowSet(j) : Identity(row) = id}
          IN  new # {} => (CHOOSE row \in new : TRUE).hash \in Hashes
    BY KeptType, IdentityType
  <2>3. snapshot' \in [Identities -> Hashes \union {Absent}]
    BY <1>5, <2>2 DEF Commit
  <2>4. Identities' = Identities
    BY DEF Identities
  <2> QED
    BY <1>5, <2>1, <2>3, <2>4 DEF Commit, Goto, input
<1>6. ASSUME NEW j \in Jobs, Upload(j) PROVE TypeOK'
  BY <1>6 DEF Upload, Goto, input, tables, locals, history
<1>7. ASSUME NEW j \in Jobs, Finish(j) PROVE TypeOK'
  BY <1>7 DEF Finish, Goto, input, locals, history
<1>8. ASSUME NEW j \in Jobs, Update(j) PROVE TypeOK'
  BY <1>8 DEF Update, Goto, input, tables, history
<1>9. ASSUME NEW j \in Jobs, UpsertTwice(j) \/ Deadlock(j) \/ CommitCollides(j)
      PROVE  TypeOK'
  <2>1. \E why \in Raised : Raise(j, why)
    BY <1>9 DEF UpsertTwice, Deadlock, CommitCollides
  <2>2. struck' = struck /\ faults' = faults
    BY <1>9 DEF UpsertTwice, Deadlock, CommitCollides
  <2> QED
    BY <2>1, <2>2, <1>3
<1>10. ASSUME NEW j \in Jobs, Lost(j) \/ Fail(j) PROVE TypeOK'
  <2>1. PICK fault \in {"early", "late", "error"} : Strike(j, fault)
    BY <1>10 DEF Lost, Fail
  <2>2. struck' \subseteq Row /\ faults' \in [{"early", "late", "error"} -> Nat]
    BY <2>1 DEF Strike
  <2>3. \E why \in {"queued"} \union Raised : Raise(j, why)
    BY <1>10 DEF Lost, Fail
  <2> QED
    BY <2>2, <2>3, <1>3
<1>11. CASE UNCHANGED vars
  BY <1>11 DEF vars, input, tables, locals, history
<1> QED
  BY <1>1, <1>2, <1>4, <1>5, <1>6, <1>7, <1>8, <1>9, <1>10, <1>11 DEF Next, Step
-----------------------------------------------------------------------------
(* The baseline *)

\* A transaction only ever takes rows of its own job.
LEMMA HeldStep == TypeOK /\ HeldInv /\ [Next]_vars => HeldInv'
<1> SUFFICES ASSUME TypeOK, HeldInv, [Next]_vars, NEW i \in Jobs
             PROVE  held'[i] \subseteq Kept(i)
  BY InputsFixed DEF HeldInv
<1>1. held[i] \subseteq Kept(i) /\ held \in [Jobs -> SUBSET Nat]
  BY DEF HeldInv, TypeOK
<1>2. ASSUME NEW j \in Jobs, Upsert(j) PROVE held'[i] \subseteq Kept(i)
  BY <1>1, <1>2 DEF Upsert
<1>3. ASSUME NEW j \in Jobs, held' = [held EXCEPT ![j] = {}]
      PROVE  held'[i] \subseteq Kept(i)
  BY <1>1, <1>3
<1> QED
  BY <1>1, <1>2, <1>3
  DEF Next, Step, vars, locals, Compare, UpsertTwice, Deadlock, Raise, Check,
      Update, Commit, CommitCollides, Upload, Finish, Lost, Fail

\* A value that tracks the accepted runs goes on to do so when more are
\* accepted.
LEMMA TracksStable ==
  ASSUME [Next]_vars, accepted \subseteq accepted', NEW base, Tracks(base)
  PROVE  Tracks(base)'
  BY InputsFixed DEF Tracks

\* No step takes a run back.
LEMMA AcceptedGrows == [Next]_vars => accepted \subseteq accepted'
  BY DEF Next, Step, vars, history, Compare, Upsert, UpsertTwice, Deadlock,
         Raise, Check, Update, Commit, CommitCollides, Upload, Finish, Lost,
         Fail

\* The run that is being accepted and the baseline it is blended into make a
\* value that tracks both.
LEMMA CommitTracks ==
  ASSUME TypeOK, SawInv, BaselineTracks, [Next]_vars,
         NEW j \in Jobs, Commit(j), pc[j] = "updated",
         NEW base, base = baseline'
  PROVE  Tracks(base)'
<1> DEFINE rows == RowCount(j)
           pages == result[j].pages
<1>1. /\ ~Collides(j) /\ baseline' \in NewBaselines(j)
      /\ accepted' = accepted \union {j}
  BY DEF Commit
<1>2. rows \in Nat /\ pages \in Nat \ {0}
  BY <1>1, KeptType DEF SawInv
<1>3. /\ \A i \in accepted : i \in Jobs /\ RowCount(i) \in Nat
                             /\ result[i].pages \in Nat \ {0}
      /\ \A i \in accepted \union {j} :
           RowCount(i)' = RowCount(i) /\ result'[i] = result[i]
  BY KeptType, InputsFixed DEF SawInv, TypeOK
<1>4. /\ rows \div pages \in Nat /\ (rows \div pages) * pages <= rows
  BY <1>2, Division
<1> HIDE DEF rows, pages
<1>5. CASE basis[j] = NoBaseline
  <2>1. base = rows \div pages
    BY <1>1, <1>5 DEF NewBaselines, rows, pages
  <2>2. base * pages <= rows /\ rows \div pages <= base + 1
    BY <1>4, <2>1
  <2> QED
    BY <1>1, <1>3, <2>2 DEF Tracks, rows, pages
<1>6. CASE basis[j] # NoBaseline
  <2>1. basis[j] \in Nat /\ Tracks(basis[j])
    BY <1>6 DEF SawInv, TypeOK
  <2>2. PICK new \in Blended(basis[j], rows, pages) :
          base = IF new = basis[j] THEN baseline ELSE new
    BY <1>1, <1>6 DEF NewBaselines, rows, pages
  <2>3. CASE base = new
    <3>1. new \in Nat
      BY <1>2, <2>1, BlendRange
    <3>2. PICK a \in accepted : basis[j] * result[a].pages <= RowCount(a)
      BY <2>1 DEF Tracks
    <3>3. PICK b \in accepted : RowCount(b) \div result[b].pages <= basis[j] + 1
      BY <2>1 DEF Tracks
    <3>4. \E i \in accepted' : base * result'[i].pages <= RowCount(i)'
      <4>1. CASE new * pages <= rows
        BY <4>1, <1>1, <1>3, <2>3 DEF rows, pages
      <4>2. CASE new <= basis[j]
        <5>1. new * result[a].pages <= basis[j] * result[a].pages
          BY <4>2, <1>3, <2>1, <3>1, <3>2, Scaled
        <5>2. /\ new * result[a].pages \in Nat
              /\ basis[j] * result[a].pages \in Nat
              /\ RowCount(a) \in Nat
          BY <1>3, <2>1, <3>1, <3>2
        <5>3. new * result[a].pages <= RowCount(a)
          BY <5>1, <5>2, <3>2
        <5> QED
          BY <5>3, <1>1, <1>3, <2>3, <3>2
      <4> QED
        BY <4>1, <4>2, <1>2, <2>1, BlendNotAbove
    <3>5. \E i \in accepted' : RowCount(i)' \div result'[i].pages <= base + 1
      <4> DEFINE f == RowCount(b) \div result[b].pages
                 g == rows \div pages
      <4>1. f \in Nat /\ f <= basis[j] + 1
        BY <1>3, <3>3, Division
      <4>2. g \in Nat /\ g * pages <= rows
        BY <1>4
      <4> HIDE DEF f, g
      <4>3. CASE g <= f
        <5>1. g <= basis[j] + 1
          BY <4>1, <4>2, <4>3, <2>1
        <5>2. g <= new + 1
          BY <5>1, <4>2, <1>2, <2>1, BlendNotBelow
        <5> QED
          BY <5>2, <1>1, <1>3, <2>3 DEF g, rows, pages
      <4>4. CASE f <= g
        <5>1. f * pages <= g * pages
          BY <4>1, <4>2, <4>4, <1>2, Scaled
        <5>2. f * pages <= rows
          BY <5>1, <4>1, <4>2, <1>2
        <5>3. f <= new + 1
          BY <5>2, <4>1, <1>2, <2>1, BlendNotBelow
        <5> QED
          BY <5>3, <1>1, <1>3, <2>3, <3>3 DEF f
      <4> QED
        BY <4>1, <4>2, <4>3, <4>4
    <3> QED
      BY <3>4, <3>5 DEF Tracks
  <2>4. CASE base = baseline
    BY <2>4, <1>6, TracksStable, AcceptedGrows DEF BaselineTracks, SawInv
  <2> QED
    BY <2>2, <2>3, <2>4
<1> QED
  BY <1>5, <1>6

\* What is in use of the baseline tracks the accepted runs after every step.
LEMMA SawStep ==
  TypeOK /\ SawInv /\ BaselineTracks /\ [Next]_vars
    => SawInv' /\ BaselineTracks'
<1> SUFFICES ASSUME TypeOK, SawInv, BaselineTracks, [Next]_vars
             PROVE  SawInv' /\ BaselineTracks'
  OBVIOUS
<1> DEFINE Steady ==
      /\ baseline' = baseline /\ accepted' = accepted
      /\ \A i \in Jobs :
           /\ saw'[i] = saw[i] \/ saw'[i] = NoBaseline
           /\ basis'[i] = basis[i] \/ basis'[i] = NoBaseline
           /\ pc'[i] = "checked" =>
                pc[i] = "checked" /\ suspect'[i] = suspect[i]
           /\ pc'[i] = "updated" => pc[i] = "updated"
<1>1. CASE Steady
  <2>1. \A base : Tracks(base) => Tracks(base)'
    BY <1>1, TracksStable
  <2> QED
    BY <1>1, <2>1, InputsFixed DEF SawInv, BaselineTracks
<1>2. ASSUME NEW j \in Jobs, Check(j) \/ Update(j)
      PROVE  SawInv' /\ BaselineTracks'
  <2>1. baseline' = baseline /\ accepted' = accepted
    BY <1>2 DEF Check, Update, tables, history
  <2>2. \A base : Tracks(base) => Tracks(base)'
    BY <2>1, TracksStable
  <2>3. BaselineTracks'
    BY <2>1, <2>2 DEF BaselineTracks
  <2>4. \A i \in Jobs :
          /\ pc'[i] = "checked" /\ ~suspect'[i] => result[i].pages > 0
          /\ pc'[i] = "updated" => result[i].pages > 0
    <3>1. CASE Check(j)
      <4>1. result[j].pages \in Nat
        BY KeptType
      <4>2. result[j].pages = 0 => suspect'[j]
        BY <3>1 DEF Check, TypeOK
      <4> QED
        BY <3>1, <4>1, <4>2 DEF Check, Goto, SawInv, TypeOK
    <3>2. CASE Update(j)
      BY <3>2 DEF Update, Goto, SawInv, TypeOK
    <3> QED
      BY <1>2, <3>1, <3>2
  <2>5. \A i \in Jobs : /\ saw'[i] = saw[i] \/ saw'[i] = baseline
                        /\ \/ basis'[i] = basis[i]
                           \/ basis'[i] = saw[i] \/ basis'[i] = baseline
    BY <1>2 DEF Check, Update, TypeOK
  <2>6. \A i \in Jobs :
          /\ saw'[i] # NoBaseline => baseline' # NoBaseline /\ Tracks(saw'[i])
          /\ basis'[i] # NoBaseline
               => baseline' # NoBaseline /\ Tracks(basis'[i])
    BY <2>1, <2>5 DEF SawInv, BaselineTracks
  <2> QED
    BY <2>1, <2>2, <2>3, <2>4, <2>6, InputsFixed DEF SawInv
<1>3. ASSUME NEW j \in Jobs, Commit(j) PROVE SawInv' /\ BaselineTracks'
  <2>1. CASE pc[j] = "checked" /\ UNCHANGED <<baseline, accepted>>
    <3>1. Steady
      BY <1>3, <2>1 DEF Commit, Goto, TypeOK
    <3> QED
      BY <3>1, <1>1
  <2>2. CASE pc[j] = "updated" /\ accepted' = accepted \union {j}
    <3>1. \A base : Tracks(base) => Tracks(base)'
      BY <2>2, TracksStable
    <3>2. \A base : base = baseline' => Tracks(base)'
      BY <1>3, <2>2, CommitTracks
    <3>3. UNCHANGED <<saw, suspect, basis>> /\ pc' = [pc EXCEPT ![j] = "stored"]
      BY <1>3 DEF Commit, Goto
    <3>4. /\ \A i \in accepted' : result[i].pages > 0
          /\ \A i \in Jobs :
               /\ pc'[i] = "checked" /\ ~suspect'[i] => result[i].pages > 0
               /\ pc'[i] = "updated" => result[i].pages > 0
      BY <2>2, <3>3 DEF SawInv, TypeOK
    <3>5. baseline' # NoBaseline
      BY <1>3, <2>2, CommitValue DEF NoBaseline
    <3> QED
      BY <3>1, <3>2, <3>3, <3>4, <3>5, InputsFixed DEF SawInv, BaselineTracks
  <2> QED
    BY <1>3, <2>1, <2>2 DEF Commit
<1>4. ASSUME ~ Steady
      PROVE  \E j \in Jobs : Check(j) \/ Update(j) \/ Commit(j)
  BY <1>4
  DEF Next, Step, vars, tables, locals, history, Goto, Compare, Upsert,
      UpsertTwice, Deadlock, Raise, CommitCollides, Upload, Finish, Lost, Fail,
      TypeOK, PC, Raised
<1> QED
  BY <1>1, <1>2, <1>3, <1>4

IInv == TypeOK /\ HeldInv /\ SawInv /\ BaselineTracks

\* The invariant of any history, whatever dies.
LEMMA Inductive == Spec => []IInv
<1>1. Init => IInv
  BY InitInv DEF IInv, Init, BaselineTracks
<1>2. IInv /\ [Next]_vars => IInv'
  BY TypeStep, HeldStep, SawStep DEF IInv
<1> QED
  BY <1>1, <1>2, PTL DEF Spec

\* Every variable keeps its type, and locks are held only inside a transaction.
THEOREM TypeCorrect == Spec => []TypeOK
<1>1. IInv => TypeOK
  BY DEF IInv
<1> QED
  BY <1>1, Inductive, PTL

\* For any runs of any number of jobs and any order of their transactions, the
\* baseline stays within what the accepted runs saw, less one row for
\* truncation.
THEOREM BaselineStays == Spec => []BaselineTracks
<1>1. IInv => BaselineTracks
  BY DEF IInv
<1> QED
  BY <1>1, Inductive, PTL

-----------------------------------------------------------------------------
(* Deduplication and upsert *)

\* In a target with a row_key no position that dedupe keeps shares its identity
\* with another one.
LEMMA KeptDistinct ==
  ASSUME TypeOK, keyed, NEW j \in Jobs, NEW p \in Kept(j), NEW q \in Kept(j),
         Identity(RowAt(j, p)) = Identity(RowAt(j, q))
  PROVE  p = q
<1>1. p \in Nat \ {0} /\ q \in Nat \ {0}
  BY KeptType
<1>2. result[j].rows[p].key = result[j].rows[q].key
  BY DEF Identity, RowAt
<1>3. ~ (p < q) /\ ~ (q < p)
  BY <1>1, <1>2 DEF Kept, Dedupe
<1> QED
  BY <1>1, <1>3

\* The upsert of a target with a row_key never meets a row of its own again.
THEOREM KeyedUpserts == Spec => []KeyedNeverDuplicates
<1>1. Init => KeyedNeverDuplicates
  BY DEF Init, KeyedNeverDuplicates
<1>2. IInv /\ KeyedNeverDuplicates /\ [Next]_vars => KeyedNeverDuplicates'
  <2> SUFFICES ASSUME IInv, KeyedNeverDuplicates, [Next]_vars
               PROVE  KeyedNeverDuplicates'
    OBVIOUS
  <2>1. ASSUME NEW j \in Jobs, UpsertTwice(j) PROVE ~keyed
    <3>1. PICK p \in Kept(j) :
            IsNext(j, p) /\ Identity(RowAt(j, p)) \in Locked(j)
      BY <2>1 DEF UpsertTwice
    <3>2. PICK q \in held[j] : Identity(RowAt(j, p)) = Identity(RowAt(j, q))
      BY <3>1 DEF Locked
    <3>3. q \in Kept(j) /\ p \notin held[j]
      BY <3>1, <3>2 DEF IInv, HeldInv, IsNext
    <3> QED
      BY <3>2, <3>3, KeptDistinct DEF IInv
  <2>2. ASSUME ~ \E j \in Jobs : UpsertTwice(j)
        PROVE  \A i \in Jobs : pc'[i] = "duplicated" => pc[i] = "duplicated"
    BY <2>2
    DEF IInv, TypeOK, Next, Step, vars, Goto, Compare, Upsert, Deadlock, Raise,
        Check, Update, Commit, CommitCollides, Upload, Finish, Lost, Fail
  <2> QED
    BY <2>1, <2>2, InputsFixed DEF KeyedNeverDuplicates, IInv, TypeOK
<1> QED
  BY <1>1, <1>2, Inductive, PTL DEF Spec
-----------------------------------------------------------------------------
(* Delivery *)

\* The rows that faults have hit only become more, and the rows that a job has
\* on its way when a fault hits it are among them.
LEMMA StruckStep ==
  ASSUME [Next]_vars
  PROVE  /\ struck \subseteq struck'
         /\ \A j \in Jobs : (Lost(j) \/ Fail(j)) /\ pc[j] \in AfterCommit
                              => emitted[j] \subseteq struck'
<1>1. ASSUME NEW j \in Jobs, Lost(j) \/ Fail(j)
      PROVE  /\ struck \subseteq struck'
             /\ pc[j] \in AfterCommit => emitted[j] \subseteq struck'
  BY <1>1 DEF Lost, Fail, Strike
<1>2. struck' = struck \/ \E j \in Jobs : Lost(j) \/ Fail(j)
  BY DEF Next, Step, vars, history, Compare, Upsert, UpsertTwice, Deadlock,
         Check, Update, Commit, CommitCollides, Upload, Finish
<1> QED
  BY <1>1, <1>2

\* A job whose body raises, or whose worker dies.
Stops(j) == \E why \in {"queued"} \union Raised : Raise(j, why)

\* What a step can do to the rows of a job that are in its file or on their
\* way there.
LEMMA WayStep ==
  ASSUME TypeOK, [Next]_vars, NEW i \in Jobs
  PROVE  \/ Upload(i) \/ Compare(i)
         \/ Stops(i) /\ file'[i] = file[i]
              /\ (pc[i] \in InTransaction \/ Lost(i) \/ Fail(i))
         \/ /\ file'[i] = file[i] /\ emitted'[i] = emitted[i]
            /\ \/ pc'[i] = pc[i]
               \/ pc[i] = "compared" /\ pc'[i] = "checked"
               \/ pc[i] = "checked" /\ pc'[i] = "updated"
               \/ Commit(i)
               \/ pc[i] = "uploaded" /\ pc'[i] \in {"done", "refused"}
<1>1. ASSUME NEW j \in Jobs, i # j, Step(j) \/ Lost(j) \/ Fail(j)
      PROVE  file'[i] = file[i] /\ emitted'[i] = emitted[i] /\ pc'[i] = pc[i]
  BY <1>1 DEF TypeOK, Step, locals, Goto, Compare, Upsert, UpsertTwice,
              Deadlock, Raise, Check, Update, Commit, CommitCollides, Upload,
              Finish, Lost, Fail
<1>2. ASSUME UNCHANGED vars
      PROVE  file'[i] = file[i] /\ emitted'[i] = emitted[i] /\ pc'[i] = pc[i]
  BY <1>2 DEF vars, locals
<1>3. ASSUME UpsertTwice(i) \/ Deadlock(i) \/ CommitCollides(i)
      PROVE  Stops(i) /\ file'[i] = file[i] /\ pc[i] \in InTransaction
  BY <1>3 DEF Stops, Raise, Raised, UpsertTwice, Deadlock, CommitCollides,
              InTransaction, IsNext, WaitsFor
<1>4. ASSUME Lost(i) \/ Fail(i) PROVE Stops(i) /\ file'[i] = file[i]
  BY <1>4 DEF Stops, Raise, Raised, Lost, Fail
<1>5. ASSUME Upsert(i) \/ Check(i) \/ Update(i) \/ Commit(i) \/ Finish(i)
      PROVE  /\ file'[i] = file[i] /\ emitted'[i] = emitted[i]
             /\ \/ pc'[i] = pc[i]
                \/ pc[i] = "compared" /\ pc'[i] = "checked"
                \/ pc[i] = "checked" /\ pc'[i] = "updated"
                \/ Commit(i)
                \/ pc[i] = "uploaded" /\ pc'[i] \in {"done", "refused"}
  BY <1>5 DEF TypeOK, Goto, locals, Upsert, Check, Update, Commit, Finish
<1> QED
  BY <1>1, <1>2, <1>3, <1>4, <1>5 DEF Next, Step

\* No row leaves the files, or the way to them, unless it is struck.
LEMMA ReportedStable ==
  ASSUME TypeOK, DeliveryInv, [Next]_vars, NEW row, Reported(row)
  PROVE  Reported(row)'
<1>1. struck \subseteq struck'
  BY StruckStep
<1>2. ASSUME NEW k \in Jobs,
             row \in file[k] \/ (pc[k] = "stored" /\ row \in emitted[k])
      PROVE  \/ row \in struck'
             \/ row \in file'[k] \/ (pc'[k] = "stored" /\ row \in emitted'[k])
  <2>1. CASE Upload(k)
    <3>1. row \in file[k] => row \in struck
      BY <2>1 DEF Upload, DeliveryInv, Unfiled
    <3>2. file'[k] = emitted[k]
      BY <2>1 DEF Upload, TypeOK
    <3> QED
      BY <1>1, <1>2, <3>1, <3>2
  <2>2. CASE Compare(k)
    BY <1>2, <2>2 DEF Compare
  <2>3. CASE Stops(k) /\ file'[k] = file[k]
               /\ (pc[k] \in InTransaction \/ Lost(k) \/ Fail(k))
    <3>1. pc[k] = "stored" => Lost(k) \/ Fail(k)
      BY <2>3 DEF InTransaction
    <3>2. pc[k] = "stored" => emitted[k] \subseteq struck'
      BY <3>1, StruckStep DEF AfterCommit
    <3> QED
      BY <1>2, <2>3, <3>2
  <2>4. CASE /\ file'[k] = file[k] /\ emitted'[k] = emitted[k]
             /\ \/ pc'[k] = pc[k]
                \/ pc[k] = "compared" /\ pc'[k] = "checked"
                \/ pc[k] = "checked" /\ pc'[k] = "updated"
                \/ Commit(k)
                \/ pc[k] = "uploaded" /\ pc'[k] \in {"done", "refused"}
    BY <1>2, <2>4 DEF Commit
  <2> QED
    BY <2>1, <2>2, <2>3, <2>4, WayStep
<1> QED
  BY <1>1, <1>2 DEF Reported

\* A row that the comparison leaves out is the row the snapshot has.
LEMMA LeftOutReported ==
  ASSUME TypeOK, DeliveryInv, NEW row \in Row, ~Differs(row)
  PROVE  Reported(row)
<1>1. /\ Identity(row) \in Identities /\ row.hash \in Hashes
      /\ snapshot[Identity(row)] = row.hash
  BY IdentityType DEF TypeOK, Differs
<1>2. PICK known \in Row : /\ Identity(known) = Identity(row)
                           /\ known.hash = row.hash /\ Reported(known)
  BY <1>1, HistoryAssumption DEF DeliveryInv
<1>3. known.key = row.key
  BY <1>2 DEF Identity
<1>4. known = row
  BY <1>2, <1>3 DEF Row
<1> QED
  BY <1>2, <1>4

\* A file is what the job emitted, from its upload until a fault hits the job.
LEMMA FileStep ==
  ASSUME TypeOK, DeliveryInv, [Next]_vars, NEW i \in Jobs
  PROVE  /\ pc'[i] \in Unfiled => file'[i] \subseteq struck'
         /\ pc'[i] \in {"uploaded", "done"} => file'[i] = emitted'[i]
<1>1. struck \subseteq struck'
  BY StruckStep
<1>2. /\ pc[i] \in Unfiled => file[i] \subseteq struck
      /\ pc[i] \in {"uploaded", "done"} => file[i] = emitted[i]
  BY DEF DeliveryInv
<1>3. CASE Upload(i)
  BY <1>3 DEF Upload, Goto, TypeOK, Unfiled, InTransaction, locals
<1>4. CASE Compare(i)
  BY <1>1, <1>2, <1>4 DEF Compare, Goto, TypeOK, Unfiled, InTransaction
<1>5. CASE Stops(i) /\ file'[i] = file[i]
             /\ (pc[i] \in InTransaction \/ Lost(i) \/ Fail(i))
  <2>1. pc'[i] \in {"queued"} \union Raised
    BY <1>5 DEF Stops, Raise, Goto, TypeOK
  <2>2. pc[i] \in {"uploaded", "done"} => emitted[i] \subseteq struck'
    BY <1>5, StruckStep DEF InTransaction, AfterCommit
  <2>3. pc[i] \in Unfiled \union {"uploaded", "done"}
    BY <1>5 DEF Lost, Fail, Unfiled, InTransaction, AfterCommit
  <2>4. file'[i] \subseteq struck'
    BY <1>1, <1>2, <1>5, <2>2, <2>3
  <2> QED
    BY <2>1, <2>4 DEF Raised
<1>6. CASE /\ file'[i] = file[i] /\ emitted'[i] = emitted[i]
           /\ \/ pc'[i] = pc[i]
              \/ pc[i] = "compared" /\ pc'[i] = "checked"
              \/ pc[i] = "checked" /\ pc'[i] = "updated"
              \/ Commit(i)
              \/ pc[i] = "uploaded" /\ pc'[i] \in {"done", "refused"}
  BY <1>1, <1>2, <1>6 DEF Commit, Goto, TypeOK, Unfiled, InTransaction
<1> QED
  BY <1>3, <1>4, <1>5, <1>6, WayStep

\* A transaction begins with what the comparison left out, and goes on to
\* have reported it.
LEMMA PendingStep ==
  ASSUME TypeOK, DeliveryInv, [Next]_vars, NEW i \in Jobs,
         pc'[i] \in InTransaction, NEW row \in RowSet(i)
  PROVE  row \in emitted'[i] \/ Reported(row)'
<1>1. CASE Compare(i)
  <2>1. row \in Row
    BY KeptType
  <2>2. row \in emitted'[i] \/ ~Differs(row)
    BY <1>1 DEF Compare, TypeOK
  <2> QED
    BY <2>1, <2>2, LeftOutReported, ReportedStable
<1>2. CASE Upload(i)
  BY <1>2 DEF Upload, Goto, TypeOK, InTransaction
<1>3. CASE Stops(i)
  BY <1>3 DEF Stops, Raise, Raised, Goto, TypeOK, InTransaction
<1>4. CASE /\ file'[i] = file[i] /\ emitted'[i] = emitted[i]
           /\ \/ pc'[i] = pc[i]
              \/ pc[i] = "compared" /\ pc'[i] = "checked"
              \/ pc[i] = "checked" /\ pc'[i] = "updated"
              \/ Commit(i)
              \/ pc[i] = "uploaded" /\ pc'[i] \in {"done", "refused"}
  <2>1. pc[i] \in InTransaction
    BY <1>4 DEF Commit, Goto, TypeOK, InTransaction
  <2> QED
    BY <1>4, <2>1, ReportedStable DEF DeliveryInv
<1> QED
  BY <1>1, <1>2, <1>3, <1>4, WayStep

\* What the snapshot says of an identity after a step it said before, or a row
\* of the job that commits brought it.
LEMMA SnapshotStep ==
  ASSUME TypeOK, DeliveryInv, [Next]_vars,
         NEW id \in Identities, snapshot'[id] # Absent
  PROVE  \E row \in Row : /\ Identity(row) = id /\ row.hash = snapshot'[id]
                          /\ Reported(row)'
<1>1. CASE snapshot' = snapshot
  BY <1>1, ReportedStable DEF DeliveryInv
<1>2. ASSUME NEW j \in Jobs, Commit(j)
      PROVE  \E row \in Row : /\ Identity(row) = id /\ row.hash = snapshot'[id]
                              /\ Reported(row)'
  <2> DEFINE new == {row \in RowSet(j) : Identity(row) = id}
  <2>1. snapshot'[id] = IF new = {} THEN snapshot[id]
                                    ELSE (CHOOSE row \in new : TRUE).hash
    BY <1>2 DEF Commit
  <2>2. CASE new = {}
    BY <2>1, <2>2, ReportedStable DEF DeliveryInv
  <2>3. CASE new # {}
    <3>1. PICK row \in new : row.hash = snapshot'[id]
      BY <2>1, <2>3
    <3>2. row \in RowSet(j) /\ row \in Row /\ Identity(row) = id
      BY KeptType
    <3>3. row \in emitted[j] \/ Reported(row)
      BY <1>2, <3>2 DEF Commit, DeliveryInv, InTransaction
    <3>4. row \in emitted[j] => Reported(row)'
      BY <1>2 DEF Commit, Goto, Reported, TypeOK
    <3> QED
      BY <3>1, <3>2, <3>3, <3>4, ReportedStable
  <2> QED
    BY <2>2, <2>3
<1>3. snapshot' = snapshot \/ \E j \in Jobs : Commit(j)
  BY DEF Next, Step, vars, tables, Compare, Upsert, UpsertTwice, Deadlock,
         Raise, Check, Update, CommitCollides, Upload, Finish, Lost, Fail
<1> QED
  BY <1>1, <1>2, <1>3

\* Every step keeps what delivery rests on.
LEMMA DeliveryStep ==
  ASSUME TypeOK, DeliveryInv, [Next]_vars
  PROVE  DeliveryInv'
<1>1. \A i \in Jobs :
        /\ pc'[i] \in Unfiled => file'[i] \subseteq struck'
        /\ pc'[i] \in {"uploaded", "done"} => file'[i] = emitted'[i]
  BY FileStep
<1>2. \A i \in Jobs : pc'[i] \in InTransaction =>
        \A row \in RowSet(i)' : row \in emitted'[i] \/ Reported(row)'
  BY PendingStep, InputsFixed
<1>3. Identities' = Identities /\ Row' = Row
  BY DEF Identities, Row
<1>4. \A id \in Identities : snapshot'[id] # Absent =>
        \E row \in Row : /\ Identity(row)' = id /\ row.hash = snapshot'[id]
                         /\ Reported(row)'
  BY SnapshotStep, InputsFixed
<1> QED
  BY <1>1, <1>2, <1>3, <1>4 DEF DeliveryInv, Unfiled, InTransaction, Raised

\* Whatever jobs of a target interleave, conflict, fail or die: every entry of
\* the snapshot is in a file or about to be, but for the rows of jobs that were
\* struck between their commit and their end (finalise_job, export.py:69-88).
THEOREM NothingUnreported == Spec => []SnapshotDelivered
<1>1. Init => DeliveryInv
  BY DEF Init, DeliveryInv, InTransaction
<1>2. IInv /\ DeliveryInv /\ [Next]_vars => DeliveryInv'
  BY DeliveryStep DEF IInv
<1>3. DeliveryInv => SnapshotDelivered
  <2> SUFFICES ASSUME DeliveryInv, NEW id \in Identities, snapshot[id] # Absent
               PROVE  \/ Carries(struck, id)
                      \/ \E j \in Jobs :
                           \/ Carries(file[j], id)
                           \/ pc[j] = "stored" /\ Carries(emitted[j], id)
    BY DEF SnapshotDelivered
  <2>1. PICK row \in Row : /\ Identity(row) = id /\ row.hash = snapshot[id]
                          /\ Reported(row)
    BY DEF DeliveryInv
  <2> QED
    BY <2>1 DEF Reported, Carries
<1> QED
  BY <1>1, <1>2, <1>3, Inductive, PTL DEF Spec

-----------------------------------------------------------------------------
(* Runs without rows *)

\* No worker has died behind its commit so far.
NoLateDeath == faults["late"] = 0

\* Faults are never forgotten.
LEMMA LateDeathsStay ==
  ASSUME TypeOK, [Next]_vars, NoLateDeath'
  PROVE  NoLateDeath
<1>1. ASSUME NEW j \in Jobs, NEW fault \in {"early", "late", "error"},
             Strike(j, fault)
      PROVE  NoLateDeath
  BY <1>1 DEF Strike, TypeOK, NoLateDeath
<1>2. \/ faults' = faults
      \/ \E j \in Jobs, fault \in {"early", "late", "error"} : Strike(j, fault)
  BY DEF Next, Step, vars, history, Compare, Upsert, UpsertTwice, Deadlock,
         Check, Update, Commit, CommitCollides, Upload, Finish, Lost, Fail
<1> QED
  BY <1>1, <1>2 DEF NoLateDeath

\* As long as that is so, a worker that dies had its transaction open, and
\* leaves its job as if queued.
LEMMA EarlyOnly ==
  ASSUME TypeOK, NEW j \in Jobs, Lost(j), NoLateDeath'
  PROVE  pc[j] \in InTransaction
<1>1. ASSUME pc[j] \notin InTransaction PROVE FALSE
  BY <1>1 DEF Lost, Strike, TypeOK, NoLateDeath
<1> QED
  BY <1>1

Committed == AfterCommit \union {"refused", "failed"}

\* Every accepted run is rich, but for this one, which was blended in.
AllRichBut(e) ==
  /\ e \in accepted => basis[e] # NoBaseline
  /\ \A i \in accepted \ {e} : RowCount(i) >= 3 * result[i].pages

\* What a baseline does not fall below then.
LeastBaseline(e) == IF e \in accepted THEN 1 ELSE 2

\* Without late deaths a run is accepted once, at the end of its transaction;
\* one poor run that is blended in leaves a baseline of at least one row; and a
\* run without rows carries the verdict from its check onwards.
FlagInv ==
  /\ \A j \in accepted : pc[j] \in Committed
  /\ \A e \in Jobs : AllRichBut(e) =>
       /\ baseline # NoBaseline => baseline >= LeastBaseline(e)
       /\ \A i \in Jobs \ accepted :
            /\ saw[i] # NoBaseline => saw[i] >= LeastBaseline(e)
            /\ basis[i] # NoBaseline => basis[i] >= LeastBaseline(e)
  /\ \A j \in Jobs :
       /\ pc[j] \in {"checked", "updated"} \union AfterCommit
       /\ RowCount(j) = 0 /\ saw[j] # NoBaseline /\ OnePoorAtMost(j)
       => suspect[j]

\* A blend with an empty run keeps one row of two, and a blend with a rich run
\* keeps one and two.
LEMMA BlendLeast ==
  ASSUME NEW base \in Nat, NEW rows \in Nat, NEW pages \in Nat \ {0},
         NEW new \in Blended(base, rows, pages)
  PROVE  /\ base >= 2 => new >= 1
         /\ \A least \in {1, 2} :
              base >= least /\ rows >= 3 * pages => new >= least
<1>1. /\ new \in Nat
      /\ 7 * (base * pages) + 3 * rows <= 10 * (new * pages) + 10 * pages
  BY BlendRange
<1> HIDE DEF Blended
<1>2. ASSUME base >= 2, new = 0 PROVE FALSE
  <2>1. 2 * pages <= base * pages /\ new * pages = 0 /\ base * pages \in Nat
    BY <1>2, Scaled
  <2> QED
    BY <1>1, <2>1
<1>3. ASSUME NEW least \in {1, 2}, base >= least, rows >= 3 * pages, new < least
      PROVE  FALSE
  <2>1. least * pages <= base * pages /\ new * pages <= (least - 1) * pages
    BY <1>1, <1>3, Scaled
  <2>2. /\ least * pages \in Nat /\ (least - 1) * pages = least * pages - pages
        /\ least * pages <= 2 * pages
        /\ base * pages \in Nat /\ new * pages \in Nat
    BY <1>1
  <2> QED
    BY <1>1, <1>3, <2>1, <2>2
<1> QED
  BY <1>1, <1>2, <1>3

\* A run that is rich leaves at least three rows on a page as first baseline.
LEMMA RichFirst ==
  ASSUME NEW rows \in Nat, NEW pages \in Nat \ {0}, rows >= 3 * pages
  PROVE  rows \div pages >= 2
<1> DEFINE q == rows \div pages
<1>1. q \in Nat /\ rows < pages * q + pages
  BY Division
<1> HIDE DEF q
<1>2. ASSUME q < 2 PROVE FALSE
  <2>1. pages * q <= pages
    BY <1>1, <1>2
  <2> QED
    BY <1>1, <2>1
<1> QED
  BY <1>1, <1>2 DEF q

\* What a step does to the accepted runs and to what jobs have read.
LEMMA ReadStep ==
  ASSUME NoLateDeath', TypeOK, FlagInv, [Next]_vars
  PROVE  /\ \A j \in accepted' : pc'[j] \in Committed
         /\ accepted \subseteq accepted'
         /\ \A i \in accepted :
              basis'[i] = basis[i] \/ basis'[i] = NoBaseline
         /\ \A i \in Jobs :
              /\ saw'[i] \in {NoBaseline, saw[i], baseline}
              /\ basis'[i] \in {NoBaseline, basis[i], saw[i], baseline}
         /\ \/ baseline' = baseline /\ accepted' = accepted
            \/ \E j \in Jobs : Commit(j) /\ pc[j] = "updated"
<1> USE DEF TypeOK
<1>1. ASSUME NEW i \in accepted PROVE i \in Jobs /\ pc[i] \in Committed
  BY <1>1 DEF FlagInv
<1>2. accepted \subseteq accepted'
  BY AcceptedGrows
<1>3. \A i \in Jobs : /\ saw'[i] \in {NoBaseline, saw[i], baseline}
                      /\ basis'[i] \in {NoBaseline, basis[i], saw[i], baseline}
  BY DEF Next, Step, vars, locals, Compare, Upsert, UpsertTwice, Deadlock,
         Raise, Check, Update, Commit, CommitCollides, Upload, Finish, Lost,
         Fail
<1>4. ASSUME NEW i \in accepted
      PROVE  basis'[i] = basis[i] \/ basis'[i] = NoBaseline
  BY <1>1, <1>4
  DEF Next, Step, vars, locals, Committed, AfterCommit, Compare, Upsert,
      UpsertTwice, Deadlock, Raise, Check, Update, Commit, CommitCollides,
      Upload, Finish, Lost, Fail
<1>5. ASSUME NEW i \in accepted PROVE pc'[i] \in Committed
  <2>1. ~ Lost(i)
    BY <1>1, <1>5, EarlyOnly DEF Committed, AfterCommit, InTransaction
  <2> QED
    BY <1>1, <1>5, <2>1
    DEF Next, Step, vars, Goto, Committed, AfterCommit, Compare, Upsert, IsNext,
        WaitsFor, UpsertTwice, Deadlock, Raise, Check, Update, Commit,
        CommitCollides, Upload, Finish, Lost, Fail
<1>6. \/ baseline' = baseline /\ accepted' = accepted
      \/ \E j \in Jobs : /\ Commit(j) /\ pc[j] = "updated"
                         /\ accepted' = accepted \union {j}
  BY DEF Next, Step, vars, tables, history, Compare, Upsert, UpsertTwice,
         Deadlock, Raise, Check, Update, Commit, CommitCollides, Upload,
         Finish, Lost, Fail
<1>7. \A j \in Jobs : Commit(j) => pc'[j] \in Committed
  BY DEF Commit, Goto, Committed, AfterCommit
<1> QED
  BY <1>2, <1>3, <1>4, <1>5, <1>6, <1>7

\* What holds of the accepted runs after a step held before.
LEMMA RichBefore ==
  ASSUME NoLateDeath', TypeOK, FlagInv, [Next]_vars
  PROVE  /\ \A e \in Jobs : AllRichBut(e)' => AllRichBut(e)
         /\ \A j \in Jobs : OnePoorAtMost(j)' => OnePoorAtMost(j)
  BY ReadStep, InputsFixed DEF AllRichBut, OnePoorAtMost

\* Every step keeps the least baseline.
LEMMA LeastStep ==
  ASSUME NoLateDeath', IInv, FlagInv, [Next]_vars, NEW e \in Jobs,
         AllRichBut(e)'
  PROVE  /\ baseline' # NoBaseline => baseline' >= LeastBaseline(e)'
         /\ \A i \in Jobs \ accepted' :
              /\ saw'[i] # NoBaseline => saw'[i] >= LeastBaseline(e)'
              /\ basis'[i] # NoBaseline => basis'[i] >= LeastBaseline(e)'
<1> USE DEF IInv
<1>1. /\ baseline # NoBaseline => baseline >= LeastBaseline(e)
      /\ \A i \in Jobs \ accepted :
           /\ saw[i] # NoBaseline => saw[i] >= LeastBaseline(e)
           /\ basis[i] # NoBaseline => basis[i] >= LeastBaseline(e)
  BY RichBefore DEF FlagInv
<1>2. /\ LeastBaseline(e) \in {1, 2} /\ LeastBaseline(e)' \in {1, 2}
      /\ LeastBaseline(e)' <= LeastBaseline(e)
  BY ReadStep DEF LeastBaseline
<1>3. /\ baseline \in Nat \union {NoBaseline}
      /\ \A i \in Jobs : saw[i] \in Nat \union {NoBaseline}
      /\ \A i \in Jobs : basis[i] \in Nat \union {NoBaseline}
  BY DEF TypeOK
<1>4. ASSUME NEW i \in Jobs \ accepted', NEW read,
             read \in {NoBaseline, saw[i], basis[i], baseline},
             read # NoBaseline
      PROVE  read >= LeastBaseline(e)'
  <2>1. read \in Nat /\ read >= LeastBaseline(e)
    BY <1>1, <1>3, <1>4, ReadStep
  <2> QED
    BY <1>2, <2>1
<1>5. \A i \in Jobs \ accepted' :
        /\ saw'[i] # NoBaseline => saw'[i] >= LeastBaseline(e)'
        /\ basis'[i] # NoBaseline => basis'[i] >= LeastBaseline(e)'
  BY <1>4, ReadStep
<1>6. ASSUME baseline' = baseline, baseline # NoBaseline
      PROVE  baseline' >= LeastBaseline(e)'
  <2>1. baseline \in Nat /\ baseline >= LeastBaseline(e)
    BY <1>1, <1>3, <1>6
  <2> HIDE DEF IInv
  <2> QED
    BY <1>2, <1>6, <2>1
<1>7. ASSUME NEW j \in Jobs, Commit(j), pc[j] = "updated"
      PROVE  baseline' >= LeastBaseline(e)'
  <2> DEFINE rows  == RowCount(j)
             pages == result[j].pages
  <2>1. rows \in Nat /\ pages \in Nat \ {0}
    BY <1>7, KeptType DEF SawInv
  <2>2. j \notin accepted
    BY <1>7 DEF FlagInv, Committed, AfterCommit
  <2>3. accepted' = accepted \union {j} /\ basis'[j] = basis[j]
    BY <1>7 DEF Commit
  <2>4. j # e => rows >= 3 * pages
    BY <2>3, InputsFixed DEF AllRichBut
  <2>5. j = e => /\ LeastBaseline(e) = 2 /\ LeastBaseline(e)' = 1
                 /\ basis[j] # NoBaseline
    BY <2>2, <2>3 DEF LeastBaseline, AllRichBut
  <2>6. baseline' \in NewBaselines(j)
    BY <1>7 DEF Commit
  <2>7. CASE basis[j] = NoBaseline
    <3>1. baseline' = rows \div pages
      BY <2>6, <2>7 DEF NewBaselines
    <3>2. baseline' >= 2
      BY <2>1, <2>4, <2>5, <2>7, <3>1, RichFirst
    <3>3. baseline' \in Nat
      BY <1>7, CommitValue
    <3> QED
      BY <1>2, <3>2, <3>3
  <2>8. CASE basis[j] # NoBaseline
    <3>1. basis[j] \in Nat /\ basis[j] >= LeastBaseline(e)
      BY <1>1, <1>3, <2>2, <2>8
    <3>2. PICK new \in Blended(basis[j], rows, pages) :
            baseline' = IF new = basis[j] THEN baseline ELSE new
      BY <2>6, <2>8 DEF NewBaselines
    <3>3. CASE baseline' = new
      <4>1. new \in Nat
        BY <2>1, <3>1, BlendRange
      <4>2. CASE j = e
        BY <2>1, <2>5, <3>1, <3>2, <3>3, <4>2, BlendLeast
      <4>3. CASE j # e
        <5>1. new >= LeastBaseline(e)
          BY <1>2, <2>1, <2>4, <3>1, <3>2, <4>3, BlendLeast
        <5> QED
          BY <1>2, <3>3, <4>1, <5>1
      <4> QED
        BY <4>2, <4>3
    <3>4. CASE baseline' = baseline
      <4>1. baseline # NoBaseline
        BY <2>8 DEF SawInv
      <4> QED
        BY <1>1, <1>2, <1>3, <3>4, <4>1
    <3> QED
      BY <3>2, <3>3, <3>4
  <2> QED
    BY <2>7, <2>8
<1> QED
  BY <1>5, <1>6, <1>7, ReadStep

\* A run without rows that finds a baseline is below half of it.
LEMMA EmptyBelowFloor ==
  ASSUME IInv, FlagInv, NEW j \in Jobs, j \notin accepted, OnePoorAtMost(j),
         RowCount(j) = 0, baseline # NoBaseline
  PROVE  result[j].pages = 0 \/ BelowFloor(j, baseline)
<1>1. PICK e \in Jobs : AllRichBut(e)
  BY DEF OnePoorAtMost, AllRichBut
<1>2. baseline \in Nat \ {0}
  BY <1>1 DEF FlagInv, LeastBaseline, IInv, TypeOK
<1>3. result[j].pages \in Nat
  BY KeptType DEF IInv
<1>4. result[j].pages > 0 => baseline * result[j].pages > 0
  BY <1>2, <1>3
<1> QED
  BY <1>2, <1>3, <1>4 DEF BelowFloor

\* Without late deaths every step keeps the verdicts.
LEMMA FlagStep ==
  ASSUME NoLateDeath', IInv, FlagInv, [Next]_vars
  PROVE  FlagInv'
<1> DEFINE Judged == {"checked", "updated"} \union AfterCommit
<1>1. \A j \in accepted' : pc'[j] \in Committed
  BY ReadStep DEF IInv
<1>2. ASSUME NEW i \in Jobs, pc'[i] \in Judged, RowCount(i) = 0,
             saw'[i] # NoBaseline, OnePoorAtMost(i)'
      PROVE  suspect'[i]
  <2>1. CASE Check(i)
    <3>1. i \notin accepted
      BY <2>1 DEF Check, FlagInv, Committed, AfterCommit
    <3>2. saw'[i] = baseline
      BY <2>1 DEF Check, IInv, TypeOK
    <3>3. OnePoorAtMost(i)
      BY <1>2, RichBefore DEF IInv
    <3>4. result[i].pages = 0 \/ BelowFloor(i, baseline)
      BY <1>2, <3>1, <3>2, <3>3, EmptyBelowFloor
    <3> QED
      BY <2>1, <3>4 DEF Check, IInv, TypeOK
  <2>2. CASE ~ Check(i)
    <3>1. \/ saw'[i] = saw[i] /\ suspect'[i] = suspect[i] /\ pc[i] \in Judged
          \/ saw'[i] = NoBaseline
      BY <1>2, <2>2
      DEF IInv, TypeOK, Next, Step, vars, locals, Goto, AfterCommit, Compare,
          Upsert, UpsertTwice, Deadlock, Raise, Check, Update, Commit,
          CommitCollides, Upload, Finish, Lost, Fail
    <3>2. OnePoorAtMost(i)
      BY <1>2, RichBefore DEF IInv
    <3> QED
      BY <1>2, <3>1, <3>2 DEF FlagInv
  <2> QED
    BY <2>1, <2>2
<1>3. \A i \in Jobs : RowCount(i)' = RowCount(i)
  BY InputsFixed
<1> QED
  BY <1>1, <1>2, <1>3, LeastStep DEF FlagInv, Committed, AfterCommit

\* For any runs of any number of jobs in any order: where the accepted runs
\* yield three rows on a page, but for at most one that was blended in, a run
\* without rows that finds a baseline is SUSPECT (drift.check).
THEOREM EmptyRunsFlagged == Spec => []EmptyRunFlagged
<1>1. Init => (NoLateDeath => FlagInv)
  BY DEF Init, FlagInv, AfterCommit
<1>2. IInv /\ (NoLateDeath => FlagInv) /\ [Next]_vars
        => (NoLateDeath => FlagInv)'
  BY FlagStep, LateDeathsStay DEF IInv
<1>3. (NoLateDeath => FlagInv) => EmptyRunFlagged
  BY DEF FlagInv, EmptyRunFlagged, NoLateDeath
<1> QED
  BY <1>1, <1>2, <1>3, Inductive, PTL DEF Spec

=============================================================================
