------------------------- MODULE SavedSpeechProofs -------------------------
(***************************************************************************)
(* Proofs about SavedSpeech, for any recordings, tracks and limits.  The   *)
(* job slot, the native recognizer and the capture lease move together;    *)
(* the job's clock never runs ahead of the time since its last durable     *)
(* advance, unless an advance is there that nobody has looked at.          *)
(***************************************************************************)
EXTENDS SavedSpeech, WellFoundedInduction, TLAPS

-----------------------------------------------------------------------------
(* The inductive invariant.                                                *)

Phases == {"none", "Preparing", "Transcribing", "Stopping", "Complete", "Partial", "Cancelled",
           "Failed"}
JobType == [m: Meetings \cup {0}, auto: BOOLEAN, running: BOOLEAN, phase: Phases,
            stop: 0..2, age: 0..ProgressLimit, watching: Sources \cup {0}, lag: 0..MaxPending]
Timed == {"Preparing", "Transcribing"}
Holding == {"source", "build", "run", "drain", "project"}

(* Of a job slot j: the lag last seen of the watched track was no smaller  *)
(* than it is; a running job's age is covered by the quiet time, or by an  *)
(* advance not looked at yet; a job that is over has no deadline.          *)
Lagging(j) == j.watching # 0 => j.m \in Meetings /\ pending[<<j.m, j.watching>>] <= j.lag
Timely(j) ==
    j.running /\ j.stop = 0 =>
        \/ j.age <= quiet
        \/ j.phase = "Transcribing" /\ j.watching # 0 /\ pending[<<j.m, j.watching>>] < j.lag
Settled(j) == ~j.running => j.phase \notin Timed

SlotInv == Lagging(job) /\ Timely(job) /\ Settled(job) /\ quiet \in 0..ProgressLimit

(* Where the job thread is, and what its recognizer may be doing.          *)
ThreadInv ==
    /\ job.running <=> jpc # "none"
    /\ jpc # "none" => job.m \in Meetings
    /\ jpc = "project" => job.phase \notin Timed
    /\ jpc = "build" => job.phase # "Transcribing"
    /\ jpc \in {"run", "drain"} /\ job.stop = 0 => job.watching = Current /\ job.watching # 0
    /\ native # "none" => jpc \in {"build", "run", "drain"}
    /\ native = "result" => pending[<<job.m, Current>>] # 0

(* The capture lease a job, or the import, holds is its own.               *)
LeaseInv ==
    /\ jpc \in Holding => lease[job.m] = "job"
    /\ \A m \in Meetings : lease[m] = "job" => jpc \in Holding /\ m = job.m
    /\ pass.at = "project" => Importing \in Meetings /\ lease[Importing] = "pass"

(* The pass works on recordings there are, and stops once it is told to.   *)
PassInv ==
    /\ pass = [at |-> pass.at, todo |-> pass.todo, upper |-> pass.upper, m |-> pass.m]
    /\ pass.at = "start" => pass.m \in Meetings
    /\ owned => stopPass

(* A deleted recording has no alias.                                       *)
DeletedInv == \A m \in deleted : link[m] = "none"

SavedInv ==
    TypeOK /\ SlotInv /\ ThreadInv /\ LeaseInv /\ PassInv /\ DeletedInv

-----------------------------------------------------------------------------
(* Lemmas about the slot.                                                  *)

\* A set of recordings that is not empty has a first.
LEMMA FirstExists ==
  ASSUME NEW S \in SUBSET Meetings, S # {}
  PROVE  Min(S) \in S
<1>1. S \subseteq Nat
  BY SavedBounds
<1>2. PICK m \in S : \A n \in S : ~(<<n, m>> \in OpToRel(<, Nat))
  BY <1>1, NatLessThanWellFounded, WFMin
<1>3. \A n \in S : m <= n
  <2> SUFFICES ASSUME NEW n \in S, ~(m <= n) PROVE FALSE
    OBVIOUS
  <2> DEFINE pair == <<n, m>>
  <2>1. pair \in Nat \X Nat /\ pair[1] < pair[2]
    BY <1>1
  <2>2. pair \in OpToRel(<, Nat)
    BY <2>1, Zenon DEF OpToRel
  <2>3. QED
    BY <1>2, <2>2
<1>4. QED
  BY <1>3 DEF Min

\* The empty slot.
LEMMA NoJobFacts ==
  /\ NoJob \in JobType /\ ~NoJob.running /\ NoJob.phase = "none" /\ NoJob.watching = 0
  /\ NoJob.m = 0 /\ NoJob.stop = 0
BY SavedBounds DEF NoJob, JobType, Phases

\* Observing the watched stream counts an advance before the clock is read.
LEMMA ObservedFacts ==
  ASSUME NEW j \in JobType, pending \in [Tracks -> 0..MaxPending], quiet \in 0..ProgressLimit,
         Lagging(j), Timely(j)
  PROVE  LET o == Observed(j) IN
         /\ o \in JobType /\ o.m = j.m /\ o.auto = j.auto /\ o.running = j.running
         /\ o.phase = j.phase /\ o.stop = j.stop /\ o.watching = j.watching
         /\ Lagging(o)
         /\ o.running /\ o.stop = 0 => o.age <= quiet
<1>1. CASE j.watching = 0
  BY <1>1 DEF Observed, Lagging, Timely
<1>2. CASE j.watching # 0
  <2> DEFINE new == IF Lag(j) < j.lag /\ j.phase = "Transcribing" /\ j.stop = 0 THEN 0 ELSE j.age
             o == [j EXCEPT !.lag = Lag(j), !.age = new]
  <2>1. j.watching \in Sources /\ j.m \in Meetings /\ Lag(j) \in 0..MaxPending /\ Lag(j) <= j.lag
    BY <1>2 DEF JobType, Lagging, Lag, Tracks
  <2>2. new \in 0..ProgressLimit /\ Observed(j) = o
    BY <1>2, SavedBounds DEF Observed, JobType
  <2>3. j.running /\ j.stop = 0 => new <= quiet
    BY <2>1, SavedBounds DEF Timely, Lag, JobType
  <2> HIDE DEF new
  <2>4. /\ o \in JobType /\ o.m = j.m /\ o.auto = j.auto /\ o.running = j.running
        /\ o.phase = j.phase /\ o.stop = j.stop /\ o.watching = j.watching
        /\ o.age = new /\ o.lag = Lag(j)
    BY <2>1, <2>2 DEF JobType
  <2>5. Lagging(o)
    BY <2>1, <2>4 DEF Lagging, Lag
  <2>6. QED
    BY <2>2, <2>3, <2>4, <2>5
<1>3. QED
  BY <1>1, <1>2

\* check(): the slot stays sound, and a deadline falls only on a job that stalled.
LEMMA CheckedFacts ==
  ASSUME NEW j \in JobType, pending \in [Tracks -> 0..MaxPending], quiet \in 0..ProgressLimit,
         Lagging(j), Timely(j), Settled(j)
  PROVE  LET c == Checked(j) IN
         /\ c \in JobType /\ c.m = j.m /\ c.auto = j.auto /\ c.running = j.running
         /\ c.watching = j.watching /\ c.phase \in {j.phase, "Stopping"}
         /\ Lagging(c) /\ Timely(c) /\ Settled(c)
         /\ c.stop = 0 => j.stop = 0 /\ c.phase = j.phase
         /\ j.stop # 0 => c.stop = j.stop
         /\ c.running /\ c.stop = 0 => c.age <= quiet
         /\ c.stop = 2 /\ j.stop = 0 =>
              quiet >= (IF j.phase = "Preparing" THEN PrepareLimit ELSE ProgressLimit)
<1> DEFINE o == Observed(j)
           d == IF Overdue(o) /\ o.stop = 0 THEN [o EXCEPT !.stop = 2] ELSE o
           c == IF d.stop # 0 /\ d.running THEN [d EXCEPT !.phase = "Stopping"] ELSE d
<1>1. /\ o \in JobType /\ o.m = j.m /\ o.auto = j.auto /\ o.running = j.running
      /\ o.phase = j.phase /\ o.stop = j.stop /\ o.watching = j.watching
      /\ Lagging(o)
      /\ o.running /\ o.stop = 0 => o.age <= quiet
  BY ObservedFacts
<1> HIDE DEF o
<1>2. /\ d \in JobType /\ d.m = o.m /\ d.auto = o.auto /\ d.running = o.running
      /\ d.phase = o.phase /\ d.watching = o.watching /\ d.lag = o.lag /\ d.age = o.age
      /\ d.stop = 0 => o.stop = 0
      /\ o.stop # 0 => d.stop = o.stop
      /\ d.stop = 2 /\ o.stop = 0 => Overdue(o)
  BY <1>1 DEF JobType
<1> HIDE DEF d
<1>3. /\ c \in JobType /\ c.m = d.m /\ c.auto = d.auto /\ c.running = d.running
      /\ c.watching = d.watching /\ c.lag = d.lag /\ c.age = d.age /\ c.stop = d.stop
      /\ c.phase \in {d.phase, "Stopping"}
      /\ c.stop = 0 => c.phase = d.phase
      /\ ~c.running => c.phase = d.phase
  BY <1>2 DEF JobType, Phases
<1> HIDE DEF c
<1>4. Checked(j) = c
  BY DEF Checked, o, d, c
<1>5. Lagging(c) /\ Settled(c)
  BY <1>1, <1>2, <1>3 DEF Lagging, Settled
<1>6. c.running /\ c.stop = 0 => c.age <= quiet
  BY <1>1, <1>2, <1>3
<1>7. ASSUME c.stop = 2, j.stop = 0
      PROVE  quiet >= (IF j.phase = "Preparing" THEN PrepareLimit ELSE ProgressLimit)
  <2>1. Overdue(o) /\ o.stop = 0
    BY <1>1, <1>2, <1>3, <1>7
  <2>2. j.running
    BY <1>1, <2>1 DEF Overdue, Settled, Timed
  <2>3. o.age <= quiet /\ o.age \in Nat /\ quiet \in Nat
    BY <1>1, <2>1, <2>2, SavedBounds DEF JobType
  <2>4. QED
    BY <1>1, <2>1, <2>3, SavedBounds DEF Overdue
<1>8. QED
  BY <1>1, <1>2, <1>3, <1>4, <1>5, <1>6, <1>7 DEF Timely

\* set_stage: a new phase starts a new clock.
LEMMA StagedFacts ==
  ASSUME NEW j \in JobType, NEW p \in Phases
  PROVE  LET c == Staged(j, p) IN
         /\ c \in JobType /\ c.m = j.m /\ c.auto = j.auto /\ c.running = j.running
         /\ c.stop = j.stop /\ c.phase = p /\ c.age = 0 /\ c.lag = j.lag
         /\ c.watching = IF p \in {"Preparing", "Complete"} THEN 0 ELSE j.watching
<1> DEFINE w == IF p \in {"Preparing", "Complete"} THEN 0 ELSE j.watching
           c == [j EXCEPT !.phase = p, !.age = 0, !.watching = w]
<1>1. w \in Sources \cup {0} /\ Staged(j, p) = c
  BY DEF Staged, JobType
<1> HIDE DEF w
<1>2. /\ c \in JobType /\ c.m = j.m /\ c.auto = j.auto /\ c.running = j.running
      /\ c.stop = j.stop /\ c.phase = p /\ c.age = 0 /\ c.lag = j.lag /\ c.watching = w
  <2>1. 0 \in 0..ProgressLimit
    BY SavedBounds
  <2>2. c \in JobType
    BY <1>1, <2>1 DEF JobType
  <2>3. QED
    BY <2>2 DEF JobType
<1>3. QED
  BY <1>1, <1>2 DEF w

\* ended(): the slot is given up with a result that has no deadline.
LEMMA EndedFacts ==
  ASSUME NEW j \in JobType, NEW p \in Phases, j.stop = 0 => p \notin Timed
  PROVE  LET c == Ended(j, p) IN
         /\ c \in JobType /\ c.m = j.m /\ c.auto = j.auto /\ ~c.running
         /\ c.stop = j.stop /\ c.phase \notin Timed /\ c.watching = 0
<1> DEFINE q == CASE j.stop = 1 -> "Cancelled"
                  [] j.stop = 2 -> "Failed"
                  [] OTHER -> p
           c == [j EXCEPT !.running = FALSE, !.age = 0, !.watching = 0, !.lag = 0, !.phase = q]
<1>1. q \in Phases /\ q \notin Timed
  BY SavedBounds DEF JobType, Phases, Timed
<1>2. Ended(j, p) = c
  BY Zenon DEF Ended
<1> HIDE DEF q
<1>3. /\ c \in JobType /\ c.m = j.m /\ c.auto = j.auto /\ c.running = FALSE
      /\ c.stop = j.stop /\ c.phase = q /\ c.watching = 0
  <2>1. 0 \in 0..ProgressLimit /\ 0 \in 0..MaxPending
    BY SavedBounds
  <2>2. c \in JobType
    BY <1>1, <2>1 DEF JobType
  <2>3. QED
    BY <2>2 DEF JobType
<1>4. QED
  BY <1>1, <1>2, <1>3

\* The initial state: a recording may be live, and nothing of the rest has begun.
LEMMA InitInv == Init => SavedInv
<1> SUFFICES ASSUME Init PROVE SavedInv
  OBVIOUS
<1>1. TypeOK
  <2>1. pending \in [Tracks -> 0..MaxPending] /\ projected \in [Tracks -> 0..Never]
    BY SavedBounds DEF Init, Never
  <2>2. lease \in [Meetings -> {"none", "recorder", "pass", "read", "job"}]
    BY DEF Init
  <2>3. job \in JobType
    BY NoJobFacts DEF Init
  <2>4. QED
    BY <2>1, <2>2, <2>3 DEF Init, TypeOK, JobType, Phases
<1>2. SlotInv
  BY NoJobFacts, SavedBounds DEF Init, SlotInv, Lagging, Timely, Settled, Timed
<1>3. ThreadInv
  BY NoJobFacts DEF Init, ThreadInv
<1>4. LeaseInv /\ PassInv /\ DeletedInv
  BY DEF Init, LeaseInv, PassInv, DeletedInv, Holding
<1>5. QED
  BY <1>1, <1>2, <1>3, <1>4 DEF SavedInv

-----------------------------------------------------------------------------
(* What a step has to keep, part by part.                                  *)

\* The job's side of the invariant speaks only of the slot, the thread, and the audio.
LEMMA SlotStays ==
  ASSUME SavedInv, UNCHANGED <<job, jpc, left, native, pending, quiet>>
  PROVE  SlotInv' /\ ThreadInv'
BY DEF SavedInv, SlotInv, ThreadInv, Lagging, Timely, Settled, Current

\* A slot that was only checked: by the pass, by the dashboard.
LEMMA SlotChecked ==
  ASSUME SavedInv, NEW j \in JobType, Lagging(j), Timely(j), Settled(j), job' = Checked(j),
         j.m = job.m, j.running = job.running, j.watching = job.watching, j.phase = job.phase,
         j.stop = 0 => job.stop = 0, UNCHANGED <<jpc, left, native, pending, quiet>>
  PROVE  job' \in JobType /\ job'.m = job.m /\ SlotInv' /\ ThreadInv'
<1>1. pending \in [Tracks -> 0..MaxPending] /\ quiet \in 0..ProgressLimit
  BY DEF SavedInv, TypeOK, SlotInv
<1>2. /\ job' \in JobType /\ job'.m = j.m /\ job'.running = j.running
      /\ job'.watching = j.watching /\ job'.phase \in {j.phase, "Stopping"}
      /\ Lagging(job') /\ Timely(job') /\ Settled(job')
      /\ job'.stop = 0 => j.stop = 0
  BY <1>1, CheckedFacts
<1>3. SlotInv'
  BY <1>1, <1>2 DEF SlotInv, Lagging, Timely, Settled
<1>4. ThreadInv'
  BY <1>2 DEF SavedInv, ThreadInv, Current, Timed
<1>5. QED
  BY <1>2, <1>3, <1>4

\* What the slot's own check may start from.
LEMMA SlotFacts ==
  SavedInv => /\ job \in JobType /\ Lagging(job) /\ Timely(job) /\ Settled(job)
              /\ pending \in [Tracks -> 0..MaxPending] /\ quiet \in 0..ProgressLimit
BY DEF SavedInv, TypeOK, SlotInv, JobType, Phases

\* The job's failure gives back the slot, the recognizer and the lease together.
LEMMA FailsInv ==
  ASSUME SavedInv, NEW c \in JobType, c.m = job.m, JobFails(c),
         UNCHANGED <<wal, link, deleted, pending, projected, pass, stopPass, owned>>,
         marked' \subseteq Tracks, quiet' \in 0..ProgressLimit
  PROVE  SavedInv'
<1>1. /\ jpc' = "none" /\ native' = "none" /\ job' = Ended(c, "Failed")
      /\ lease' = [lease EXCEPT ![job.m] = IF @ = "job" THEN "none" ELSE @]
  BY DEF JobFails
<1>2. job' \in JobType /\ job'.m = job.m /\ ~job'.running /\ job'.phase \notin Timed /\ job'.watching = 0
  BY <1>1, EndedFacts DEF Phases, Timed
<1>3. /\ lease' \in [Meetings -> {"none", "recorder", "pass", "read", "job"}]
      /\ \A m \in Meetings : lease'[m] # "job"
      /\ \A m \in Meetings : lease[m] # "job" => lease'[m] = lease[m]
  BY <1>1 DEF SavedInv, TypeOK, LeaseInv
<1>4. TypeOK'
  BY <1>1, <1>2, <1>3 DEF SavedInv, TypeOK, JobType, Phases
<1>5. SlotInv' /\ ThreadInv'
  BY <1>1, <1>2 DEF SlotInv, ThreadInv, Lagging, Timely, Settled
<1>6. LeaseInv'
  <2>1. pass.at = "project" => Importing \in Meetings /\ lease[Importing] = "pass"
    BY DEF SavedInv, LeaseInv
  <2>2. pass.at = "project" => lease'[Importing] = "pass"
    BY <1>3, <2>1
  <2>3. QED
    BY <1>1, <1>3, <2>1, <2>2 DEF LeaseInv, Holding, Importing
<1>7. PassInv' /\ DeletedInv'
  BY DEF SavedInv, PassInv, DeletedInv
<1>8. QED
  BY <1>4, <1>5, <1>6, <1>7 DEF SavedInv

-----------------------------------------------------------------------------
(* The startup pass.                                                       *)

\* The pass begins, turns to its scan, takes the next recording.
LEMMA PassMovesInv ==
  ASSUME SavedInv, StartPending \/ ImportEnds \/ ScanNext
  PROVE  SavedInv'
<1> USE DEF library, worker
<1>1. UNCHANGED <<library, lease, job, worker, stopPass, owned, quiet>>
  BY DEF StartPending, ImportEnds, ScanNext
<1>2. SlotInv' /\ ThreadInv'
  BY <1>1, SlotStays
<1>3. /\ pass' = [at |-> pass'.at, todo |-> pass'.todo, upper |-> pass'.upper, m |-> pass'.m]
      /\ pass'.at # "project"
      /\ pass'.at = "start" => pass'.m \in Meetings
  <2>1. CASE StartPending
    BY <2>1 DEF SavedInv, PassInv, StartPending
  <2>2. CASE ImportEnds
    BY <2>2 DEF SavedInv, PassInv, ImportEnds, PassDone
  <2>3. CASE ScanNext
    <3> DEFINE next == {m \in Meetings : m > pass.m /\ m <= pass.upper /\ link[m] # "none"}
    <3>1. CASE pass' = PassDone
      BY <3>1 DEF PassDone
    <3>2. CASE pass' # PassDone
      <4>1. Min(next) \in Meetings
        BY <2>3, <3>2, FirstExists DEF ScanNext
      <4>2. \E at \in {"start", "scan"} : pass' = [pass EXCEPT !.m = Min(next), !.at = at]
        BY <2>3, <3>2 DEF ScanNext
      <4> HIDE DEF next
      <4>3. QED
        BY <4>1, <4>2 DEF SavedInv, PassInv
    <3>3. QED
      BY <3>1, <3>2
  <2>4. QED
    BY <2>1, <2>2, <2>3
<1>4. LeaseInv' /\ PassInv'
  BY <1>1, <1>3 DEF SavedInv, LeaseInv, PassInv
<1>5. TypeOK' /\ DeletedInv'
  BY <1>1 DEF SavedInv, TypeOK, DeletedInv
<1>6. QED
  BY <1>2, <1>4, <1>5 DEF SavedInv

\* The import takes a capture's lease, if it is free, or passes it over.
LEMMA ImportPrepareInv ==
  ASSUME SavedInv, NEW m \in Meetings, ImportPrepare(m)
  PROVE  SavedInv'
<1> USE DEF library, worker
<1>1. UNCHANGED <<library, job, worker, stopPass, owned, quiet>> /\ m = Importing
  BY DEF ImportPrepare
<1>2. SlotInv' /\ ThreadInv'
  BY <1>1, SlotStays
<1>3. CASE LeaseFree(m) /\ pass' = [pass EXCEPT !.at = "project"]
           /\ lease' = [lease EXCEPT ![m] = "pass"]
  <2>1. pass'.todo = pass.todo /\ pass'.at = "project" /\ PassInv'
    BY <1>1, <1>3 DEF SavedInv, PassInv
  <2>2. /\ lease' \in [Meetings -> {"none", "recorder", "pass", "read", "job"}]
        /\ lease'[m] = "pass" /\ lease[m] = "none"
        /\ \A n \in Meetings \ {m} : lease'[n] = lease[n]
    BY <1>3 DEF SavedInv, TypeOK, LeaseFree
  <2>3. jpc \in Holding => job.m \in Meetings
    BY DEF SavedInv, ThreadInv, Holding
  <2>4. LeaseInv'
    BY <1>1, <2>1, <2>2, <2>3 DEF SavedInv, LeaseInv, Importing
  <2>5. TypeOK' /\ DeletedInv'
    BY <1>1, <2>2 DEF SavedInv, TypeOK, DeletedInv
  <2>6. QED
    BY <1>2, <2>1, <2>4, <2>5 DEF SavedInv
<1>4. CASE pass' = [pass EXCEPT !.todo = @ \ {m}] /\ UNCHANGED lease
  <2>1. pass'.at = "import" /\ PassInv'
    BY <1>1, <1>4 DEF SavedInv, PassInv, ImportPrepare
  <2>2. LeaseInv'
    BY <1>1, <1>4, <2>1 DEF SavedInv, LeaseInv
  <2>3. TypeOK' /\ DeletedInv'
    BY <1>1, <1>4 DEF SavedInv, TypeOK, DeletedInv
  <2>4. QED
    BY <1>2, <2>1, <2>2, <2>3 DEF SavedInv
<1>5. QED
  BY <1>3, <1>4 DEF ImportPrepare, Preparable

\* The library's transactions bring no deleted recording back, and forget no end.
LEMMA AliasFacts ==
  ASSUME SavedInv, NEW m \in Meetings, Finalize(m) \/ Retain(m), UNCHANGED deleted
  PROVE  /\ link' \in [Meetings -> {"none", "open", "final"}]
         /\ DeletedInv'
         /\ \A n \in Meetings : link[n] = "final" => link'[n] = "final"
BY DEF SavedInv, TypeOK, DeletedInv, Finalize, Retain, NotDeleted

\* The import projects what it prepared, and gives the lease back.
LEMMA ImportProjectInv ==
  ASSUME SavedInv, ImportProject
  PROVE  SavedInv'
<1> USE DEF worker
<1> DEFINE m == Importing
<1>1. /\ UNCHANGED <<wal, deleted, pending, marked, job, worker, stopPass, owned, quiet>>
      /\ lease' = [lease EXCEPT ![m] = "none"]
      /\ pass' = [pass EXCEPT !.at = "import", !.todo = @ \ {Importing}]
  BY DEF ImportProject
<1>2. m \in Meetings /\ lease[m] = "pass"
  BY DEF ImportProject, SavedInv, LeaseInv
<1> HIDE DEF m
<1>3. SlotInv' /\ ThreadInv'
  BY <1>1, SlotStays
<1>4. pass'.at = "import" /\ PassInv'
  BY <1>1 DEF SavedInv, PassInv
<1>5. /\ lease' \in [Meetings -> {"none", "recorder", "pass", "read", "job"}]
      /\ lease'[m] = "none" /\ \A n \in Meetings \ {m} : lease'[n] = lease[n]
  BY <1>1, <1>2 DEF SavedInv, TypeOK
<1>6. jpc \in Holding => job.m \in Meetings
  BY DEF SavedInv, ThreadInv, Holding
<1>7. LeaseInv'
  BY <1>1, <1>2, <1>4, <1>5, <1>6 DEF SavedInv, LeaseInv
<1>8. link' \in [Meetings -> {"none", "open", "final"}] /\ DeletedInv'
  <2>1. CASE UNCHANGED link
    BY <1>1, <2>1 DEF SavedInv, TypeOK, DeletedInv
  <2>2. CASE Finalize(m) \/ Retain(m)
    BY <1>1, <1>2, <2>2, AliasFacts
  <2>3. QED
    BY <2>1, <2>2 DEF ImportProject, m
<1>9. projected' \in [Tracks -> 0..Never]
  <2>1. CASE UNCHANGED projected
    BY <2>1 DEF SavedInv, TypeOK
  <2>2. CASE Acknowledge(m)
    BY <2>2, SavedBounds DEF Acknowledge, SavedInv, TypeOK, Never
  <2>3. QED
    BY <2>1, <2>2 DEF ImportProject, m
<1>10. TypeOK'
  BY <1>1, <1>5, <1>8, <1>9 DEF SavedInv, TypeOK
<1>11. QED
  BY <1>3, <1>4, <1>7, <1>8, <1>10 DEF SavedInv

\* A job takes the slot only when no other has it.
LEMMA StartJobInv ==
  ASSUME SavedInv, NEW m \in Meetings, NEW auto \in BOOLEAN, StartJob(m, auto), ~job.running,
         UNCHANGED <<library, lease>>, PassInv', pass'.at # "project" \/ UNCHANGED pass
  PROVE  SavedInv' /\ job'.auto = auto /\ job'.stop = 0
<1> USE DEF library
<1> DEFINE new == [NoJob EXCEPT !.m = m, !.auto = auto, !.running = TRUE, !.phase = "Preparing"]
<1>1. /\ job' = new /\ jpc' = "load" /\ quiet' = 0
      /\ UNCHANGED <<left, prefix, native, fenced>>
  BY DEF StartJob
<1>2. /\ new \in JobType /\ new.m = m /\ new.auto = auto /\ new.running /\ new.stop = 0
      /\ new.watching = 0 /\ new.age = 0 /\ new.phase = "Preparing"
  <2>1. 0 \in 0..ProgressLimit /\ 0 \in 0..MaxPending /\ 0 \in 0..2
    BY SavedBounds
  <2>2. new \in JobType
    BY <2>1 DEF NoJob, JobType, Phases
  <2>3. QED
    BY <2>2 DEF NoJob
<1> HIDE DEF new
<1>3. jpc = "none" /\ native = "none"
  BY DEF SavedInv, ThreadInv
<1>4. SlotInv'
  BY <1>1, <1>2, SavedBounds DEF SlotInv, Lagging, Timely, Settled
<1>5. ThreadInv'
  BY <1>1, <1>2, <1>3 DEF ThreadInv
<1>6. LeaseInv'
  BY <1>1, <1>2, <1>3 DEF SavedInv, LeaseInv, Holding, Importing
<1>7. TypeOK' /\ DeletedInv'
  BY <1>1, <1>2 DEF SavedInv, TypeOK, DeletedInv, JobType, Phases
<1>8. QED
  BY <1>1, <1>2, <1>4, <1>5, <1>6, <1>7 DEF SavedInv

\* The pass starts a job of its own, skips the recording, or gives up.
LEMMA PassStartInv ==
  ASSUME SavedInv, PassStart
  PROVE  SavedInv'
<1> USE DEF library, worker
<1>1. UNCHANGED <<library, lease, stopPass, owned>> /\ pass.m \in Meetings
  BY DEF PassStart, SavedInv, PassInv
<1>2. pass'.at \in {"done", "scan", "watch"} /\ PassInv'
  <2>1. \/ pass' = PassDone \/ pass' = [pass EXCEPT !.at = "scan"]
        \/ pass' = [pass EXCEPT !.at = "watch"]
    BY DEF PassStart
  <2>2. CASE pass' = PassDone
    BY <1>1, <2>2 DEF PassDone, SavedInv, PassInv
  <2>3. CASE pass' # PassDone
    BY <1>1, <2>1, <2>3 DEF SavedInv, PassInv
  <2>4. QED
    BY <2>2, <2>3
<1>3. CASE UNCHANGED <<job, worker, quiet>>
  <2>1. SlotInv' /\ ThreadInv'
    BY <1>1, <1>3, SlotStays
  <2>2. LeaseInv' /\ TypeOK' /\ DeletedInv'
    BY <1>1, <1>2, <1>3 DEF SavedInv, LeaseInv, TypeOK, DeletedInv
  <2>3. QED
    BY <1>2, <2>1, <2>2 DEF SavedInv
<1>4. CASE StartJob(pass.m, TRUE) /\ ~job.running
  BY <1>1, <1>2, <1>4, StartJobInv
<1>5. QED
  BY <1>3, <1>4 DEF PassStart

\* The pass looks at its job.
LEMMA PassWatchInv ==
  ASSUME SavedInv, PassWatch
  PROVE  SavedInv'
<1> USE DEF library, worker
<1>1. UNCHANGED <<library, lease, worker, stopPass, owned, quiet>> /\ job' = Checked(job)
  BY DEF PassWatch
<1>2. job' \in JobType /\ job'.m = job.m /\ SlotInv' /\ ThreadInv'
  BY <1>1, SlotFacts, SlotChecked
<1>3. pass'.at \in {"done", "scan", "watch"} /\ PassInv'
  BY <1>1 DEF PassWatch, PassDone, SavedInv, PassInv
<1>4. LeaseInv'
  BY <1>1, <1>2, <1>3 DEF SavedInv, LeaseInv
<1>5. TypeOK' /\ DeletedInv'
  BY <1>1, <1>2 DEF SavedInv, TypeOK, DeletedInv, JobType, Phases
<1>6. QED
  BY <1>2, <1>3, <1>4, <1>5 DEF SavedInv

-----------------------------------------------------------------------------
(* The job thread and its recognizer.                                      *)

\* The files are loaded under the lease, which was free, or the job fails.
LEMMA JobLoadInv ==
  ASSUME SavedInv, JobLoad
  PROVE  SavedInv'
<1> USE DEF library
<1>1. UNCHANGED <<library, pass, stopPass, owned>> /\ quiet' = 0 /\ jpc = "load"
  BY DEF JobLoad
<1>2. job \in JobType /\ job.m \in Meetings /\ job.running /\ native = "none"
  BY <1>1, SlotFacts DEF SavedInv, ThreadInv
<1>3. CASE JobFails(job)
  BY <1>1, <1>2, <1>3, FailsInv, SavedBounds DEF SavedInv, TypeOK
<1>4. CASE ~JobFails(job)
  <2>1. /\ lease[job.m] = "none" /\ lease' = [lease EXCEPT ![job.m] = "job"]
        /\ job' = Staged(job, "Preparing") /\ jpc' = "source" /\ UNCHANGED native
    BY <1>4 DEF JobLoad, Loadable, LeaseFree
  <2>2. /\ job' \in JobType /\ job'.m = job.m /\ job'.running /\ job'.age = 0 /\ job'.watching = 0
        /\ job'.phase = "Preparing"
    BY <1>2, <2>1, StagedFacts DEF Phases
  <2>3. /\ lease' \in [Meetings -> {"none", "recorder", "pass", "read", "job"}]
        /\ lease'[job.m] = "job" /\ \A n \in Meetings \ {job.m} : lease'[n] = lease[n]
    BY <1>2, <2>1 DEF SavedInv, TypeOK
  <2>4. SlotInv'
    BY <1>1, <2>2, SavedBounds DEF SlotInv, Lagging, Timely, Settled
  <2>5. ThreadInv'
    BY <1>2, <2>1, <2>2 DEF ThreadInv
  <2>6. LeaseInv'
    BY <1>1, <1>2, <2>1, <2>2, <2>3 DEF SavedInv, LeaseInv, Holding, Importing
  <2>7. TypeOK' /\ PassInv' /\ DeletedInv'
    BY <1>1, <2>1, <2>2, <2>3 DEF SavedInv, TypeOK, PassInv, DeletedInv, JobType, Phases
  <2>8. QED
    BY <2>4, <2>5, <2>6, <2>7 DEF SavedInv
<1>5. QED
  BY <1>3, <1>4

\* A thread that holds the lease goes on holding it.
LEMMA HoldsOn ==
  ASSUME SavedInv, jpc \in Holding, jpc' \in Holding, job'.m = job.m, UNCHANGED <<lease, pass>>
  PROVE  LeaseInv'
BY DEF SavedInv, LeaseInv, Importing

\* The next track is skipped, marked, or handed to a recognizer; or the job fails.
LEMMA JobSourceInv ==
  ASSUME SavedInv, NEW s \in Sources, JobSource(s)
  PROVE  SavedInv'
<1> DEFINE j == Checked(job)
           t == <<job.m, s>>
<1>1. /\ UNCHANGED <<wal, link, deleted, pending, projected, pass, stopPass, owned>>
      /\ jpc = "source"
  BY DEF JobSource
<1>2. /\ j \in JobType /\ j.m = job.m /\ j.running /\ job.m \in Meetings /\ native = "none"
      /\ Lagging(j) /\ Timely(j) /\ Settled(j) /\ quiet \in 0..ProgressLimit
  BY <1>1, SlotFacts, CheckedFacts DEF SavedInv, ThreadInv
<1>3. marked' \subseteq Tracks
  BY <1>2 DEF JobSource, SavedInv, TypeOK, Tracks, JobFails
<1>4. quiet' \in {quiet, 0} /\ quiet' \in 0..ProgressLimit
  BY <1>2, SavedBounds DEF JobSource
<1> HIDE DEF j
<1>5. CASE JobFails(j)
  BY <1>1, <1>2, <1>3, <1>4, <1>5, FailsInv
<1>6. CASE ~JobFails(j)
  <2>1. /\ UNCHANGED lease /\ jpc' \in {"source", "build"}
        /\ native' \in {"none", "building"}
        /\ native' # "none" => jpc' = "build"
        /\ \/ job' = j /\ quiet' = quiet /\ jpc' = "source"
           \/ job' = Staged(j, "Preparing") /\ quiet' = 0
    BY <1>1, <1>2, <1>6 DEF JobSource, j
  <2>2. /\ job' \in JobType /\ job'.m = job.m /\ job'.running
        /\ SlotInv'
        /\ jpc' = "build" => job'.phase = "Preparing"
    <3>1. CASE job' = j /\ quiet' = quiet /\ jpc' = "source"
      BY <1>1, <1>2, <3>1 DEF SlotInv, Lagging, Timely, Settled
    <3>2. CASE job' = Staged(j, "Preparing") /\ quiet' = 0
      <4>1. /\ job' \in JobType /\ job'.m = j.m /\ job'.running /\ job'.age = 0
            /\ job'.watching = 0 /\ job'.phase = "Preparing"
        BY <1>2, <3>2, StagedFacts DEF Phases
      <4>2. Lagging(job)' /\ Timely(job)' /\ Settled(job)'
        <5>1. job'.running /\ job'.watching = 0 /\ job'.age <= quiet'
          BY <1>2, <3>2, <4>1
        <5>2. QED
          BY <5>1 DEF Lagging, Timely, Settled
      <4>3. QED
        BY <1>2, <1>4, <4>1, <4>2 DEF SlotInv
    <3>3. QED
      BY <2>1, <3>1, <3>2
  <2>3. ThreadInv'
    BY <1>2, <2>1, <2>2 DEF ThreadInv
  <2>4. LeaseInv'
    BY <1>1, <2>1, <2>2, HoldsOn DEF Holding
  <2>5. TypeOK' /\ PassInv' /\ DeletedInv'
    BY <1>1, <1>3, <2>1, <2>2 DEF SavedInv, TypeOK, PassInv, DeletedInv, JobType, Phases
  <2>6. QED
    BY <2>2, <2>3, <2>4, <2>5 DEF SavedInv
<1>7. QED
  BY <1>5, <1>6

\* The recognizer is there: the job transcribes, or drains it if it was stopped.
LEMMA JobBuiltInv ==
  ASSUME SavedInv, NEW s \in Sources, JobBuilt(s)
  PROVE  SavedInv'
<1> USE DEF library
<1> DEFINE j == Checked(job)
<1>1. /\ UNCHANGED <<library, pass, stopPass, owned>> /\ quiet' = 0
      /\ jpc = "build" /\ s = Current
  BY DEF JobBuilt
<1>2. /\ j \in JobType /\ j.m = job.m /\ j.running /\ job.m \in Meetings
      /\ Lagging(j) /\ Timely(j) /\ Settled(j)
      /\ pending \in [Tracks -> 0..MaxPending] /\ quiet \in 0..ProgressLimit
  BY <1>1, SlotFacts, CheckedFacts DEF SavedInv, ThreadInv
<1> HIDE DEF j
<1>3. CASE JobFails(j)
  BY <1>1, <1>2, <1>3, FailsInv, SavedBounds DEF SavedInv, TypeOK
<1>4. CASE ~JobFails(j) /\ j.stop # 0
  <2>1. jpc' = "drain" /\ job' = j /\ UNCHANGED <<lease, left, prefix, native>>
    BY <1>4 DEF JobBuilt, j
  <2>2. SlotInv'
    BY <1>1, <1>2, <1>4, <2>1, SavedBounds DEF SlotInv, Lagging, Timely, Settled
  <2>3. ThreadInv'
    BY <1>1, <1>2, <1>4, <2>1 DEF SavedInv, ThreadInv, Current
  <2>4. LeaseInv'
    BY <1>1, <1>2, <2>1, HoldsOn DEF Holding
  <2>5. TypeOK' /\ PassInv' /\ DeletedInv'
    BY <1>1, <1>2, <2>1 DEF SavedInv, TypeOK, PassInv, DeletedInv, JobType, Phases
  <2>6. QED
    BY <2>2, <2>3, <2>4, <2>5 DEF SavedInv
<1>5. CASE ~JobFails(j) /\ j.stop = 0
  <2> DEFINE c == Staged(j, "Transcribing")
             new == [c EXCEPT !.watching = s, !.lag = pending[<<j.m, s>>]]
  <2>1. jpc' = "run" /\ job' = new /\ UNCHANGED <<lease, left, prefix, native>>
    BY <1>5 DEF JobBuilt, j
  <2>2. /\ c \in JobType /\ c.m = j.m /\ c.running = j.running /\ c.stop = j.stop /\ c.age = 0
        /\ c.phase = "Transcribing"
    BY <1>2, StagedFacts DEF Phases
  <2> HIDE DEF c
  <2>3. pending[<<j.m, s>>] \in 0..MaxPending
    BY <1>2 DEF Tracks
  <2>4. /\ new \in JobType /\ new.m = job.m /\ new.running /\ new.stop = 0 /\ new.age = 0
        /\ new.watching = s /\ new.lag = pending[<<job.m, s>>]
    BY <1>2, <1>5, <2>2, <2>3 DEF JobType
  <2> HIDE DEF new
  <2>5. SlotInv'
    BY <1>1, <1>2, <2>1, <2>3, <2>4, SavedBounds DEF SlotInv, Lagging, Timely, Settled
  <2>6. ThreadInv'
    BY <1>1, <1>2, <2>1, <2>4, SavedBounds DEF SavedInv, ThreadInv, Current
  <2>7. LeaseInv'
    BY <1>1, <2>1, <2>4, HoldsOn DEF Holding
  <2>8. TypeOK' /\ PassInv' /\ DeletedInv'
    BY <1>1, <2>1, <2>4 DEF SavedInv, TypeOK, PassInv, DeletedInv, JobType, Phases
  <2>9. QED
    BY <2>5, <2>6, <2>7, <2>8 DEF SavedInv
<1>6. QED
  BY <1>3, <1>4, <1>5

\* The recognizer's own steps, up to its result.
LEMMA NativeInv ==
  ASSUME SavedInv, NativeBuilt \/ NativeInfer
  PROVE  SavedInv'
<1> USE DEF library
<1>1. /\ UNCHANGED <<library, lease, job, jpc, left, prefix, fenced, pass, stopPass, owned, quiet>>
      /\ native # "none" /\ native' \in {"idle", "failed", "done", "result"}
      /\ native' = "result" => pending[<<job.m, Current>>] # 0
  BY DEF NativeBuilt, NativeInfer
<1>2. SlotInv' /\ LeaseInv' /\ PassInv' /\ DeletedInv'
  BY <1>1 DEF SavedInv, SlotInv, Lagging, Timely, Settled, LeaseInv, Importing, PassInv, DeletedInv
<1>3. ThreadInv'
  BY <1>1 DEF SavedInv, ThreadInv, Current
<1>4. TypeOK'
  BY <1>1 DEF SavedInv, TypeOK
<1>5. QED
  BY <1>2, <1>3, <1>4 DEF SavedInv

\* A result is committed: an advance the job's clock has not seen yet.
LEMMA NativeCommitInv ==
  ASSUME SavedInv, NativeCommit
  PROVE  SavedInv'
<1> DEFINE t == <<job.m, Current>>
<1>1. /\ UNCHANGED <<wal, link, deleted, marked, projected, lease, job, jpc, left, prefix, fenced,
                     pass, stopPass, owned>>
      /\ native = "result" /\ native' \in {"idle", "failed"}
  BY DEF NativeCommit
<1>2. /\ jpc \in {"build", "run", "drain"} /\ pending[t] # 0 /\ job.running /\ job.m \in Meetings
      /\ job \in JobType /\ pending \in [Tracks -> 0..MaxPending] /\ quiet \in 0..ProgressLimit
      /\ Lagging(job) /\ Timely(job) /\ Settled(job)
  BY <1>1, SlotFacts DEF SavedInv, ThreadInv
<1>3. CASE UNCHANGED <<pending, quiet>>
  <2>1. SlotInv'
    BY <1>1, <1>2, <1>3 DEF SlotInv, Lagging, Timely, Settled
  <2>2. ThreadInv' /\ LeaseInv' /\ PassInv' /\ DeletedInv' /\ TypeOK'
    BY <1>1, <1>3 DEF SavedInv, ThreadInv, Current, LeaseInv, Importing, PassInv, DeletedInv, TypeOK
  <2>3. QED
    BY <2>1, <2>2 DEF SavedInv
<1>4. CASE /\ pending' = [pending EXCEPT ![t] = @ - 1]
           /\ quiet' = IF job.phase = "Transcribing" THEN 0 ELSE quiet
  <2>1. /\ pending' \in [Tracks -> 0..MaxPending]
        /\ \A u \in Tracks : pending'[u] <= pending[u]
        /\ t \in Tracks => pending'[t] < pending[t]
    <3>1. CASE t \in Tracks
      <4>1. pending[t] \in 1..MaxPending
        BY <1>2, <3>1, SavedBounds
      <4>2. QED
        BY <1>2, <1>4, <3>1, <4>1, SavedBounds
    <3>2. CASE t \notin Tracks
      <4>1. pending' = pending
        BY <1>2, <1>4, <3>2
      <4>2. QED
        BY <1>2, <3>2, <4>1, SavedBounds
    <3>3. QED
      BY <3>1, <3>2
  <2>2. job.watching # 0 => <<job.m, job.watching>> \in Tracks
    BY <1>2 DEF JobType, Tracks
  <2>3. Lagging(job)'
    <3> SUFFICES ASSUME job.watching # 0
                 PROVE  pending'[<<job.m, job.watching>>] <= job.lag
      BY <1>1, <1>2 DEF Lagging
    <3>1. /\ pending[<<job.m, job.watching>>] <= job.lag /\ job.lag \in Nat
          /\ pending[<<job.m, job.watching>>] \in Nat /\ pending'[<<job.m, job.watching>>] \in Nat
          /\ pending'[<<job.m, job.watching>>] <= pending[<<job.m, job.watching>>]
      BY <1>2, <2>1, <2>2, SavedBounds DEF Lagging, JobType
    <3>2. QED
      BY <3>1
  <2>4. Timely(job)'
    <3> SUFFICES ASSUME job.stop = 0
                 PROVE  \/ job.age <= quiet'
                        \/ /\ job.phase = "Transcribing" /\ job.watching # 0
                           /\ pending'[<<job.m, job.watching>>] < job.lag
      BY <1>1 DEF Timely
    <3>1. CASE job.phase = "Transcribing"
      <4>1. job.watching = Current /\ job.watching # 0
        BY <1>2, <3>1 DEF SavedInv, ThreadInv
      <4>2. pending'[t] < pending[t] /\ pending[t] <= job.lag /\ t = <<job.m, job.watching>>
        BY <1>2, <2>1, <2>2, <4>1 DEF Lagging
      <4>3. pending'[t] \in Nat /\ pending[t] \in Nat /\ job.lag \in Nat
        BY <1>2, <2>1, <2>2, <4>1, <4>2, SavedBounds DEF JobType
      <4>4. QED
        BY <3>1, <4>1, <4>2, <4>3
    <3>2. CASE job.phase # "Transcribing"
      BY <1>2, <1>4, <3>2 DEF Timely
    <3>3. QED
      BY <3>1, <3>2
  <2>5. SlotInv'
    BY <1>1, <1>2, <1>4, <2>3, <2>4, SavedBounds DEF SlotInv, Settled
  <2>6. ThreadInv'
    BY <1>1 DEF SavedInv, ThreadInv, Current
  <2>7. LeaseInv' /\ PassInv' /\ DeletedInv' /\ TypeOK'
    BY <1>1, <2>1 DEF SavedInv, LeaseInv, Importing, PassInv, DeletedInv, TypeOK
  <2>8. QED
    BY <2>5, <2>6, <2>7 DEF SavedInv
<1>5. QED
  BY <1>3, <1>4 DEF NativeCommit

\* The transcription loop: the slot is checked, and a stop or an end drains the stream.
LEMMA JobPollsInv ==
  ASSUME SavedInv, JobPolls
  PROVE  SavedInv'
<1> USE DEF library
<1> DEFINE j == Checked(job)
<1>1. /\ UNCHANGED <<library, lease, left, prefix, native, pass, stopPass, owned, quiet>>
      /\ jpc = "run" /\ jpc' \in {"run", "drain"} /\ job' = j
  BY DEF JobPolls
<1>2. /\ j \in JobType /\ j.m = job.m /\ j.running /\ job.m \in Meetings /\ j.watching = job.watching
      /\ Lagging(j) /\ Timely(j) /\ Settled(j) /\ quiet \in 0..ProgressLimit
      /\ j.stop = 0 => job.stop = 0
  BY <1>1, SlotFacts, CheckedFacts DEF SavedInv, ThreadInv
<1> HIDE DEF j
<1>3. SlotInv'
  BY <1>1, <1>2 DEF SlotInv, Lagging, Timely, Settled
<1>4. ThreadInv'
  BY <1>1, <1>2 DEF SavedInv, ThreadInv, Current
<1>5. LeaseInv'
  BY <1>1, <1>2, HoldsOn DEF Holding
<1>6. TypeOK' /\ PassInv' /\ DeletedInv'
  BY <1>1, <1>2 DEF SavedInv, TypeOK, PassInv, DeletedInv, JobType, Phases
<1>7. QED
  BY <1>3, <1>4, <1>5, <1>6 DEF SavedInv

\* The stream's worker has returned: the next track, or the end.
LEMMA JobDrainsInv ==
  ASSUME SavedInv, NEW s \in Sources, JobDrains(s)
  PROVE  SavedInv'
<1> DEFINE j == Checked(job)
<1>1. /\ UNCHANGED <<wal, link, deleted, pending, projected, pass, stopPass, owned, quiet>>
      /\ jpc = "drain"
  BY DEF JobDrains
<1>2. /\ j \in JobType /\ j.m = job.m /\ j.running /\ job.m \in Meetings
      /\ Lagging(j) /\ Timely(j) /\ Settled(j) /\ quiet \in 0..ProgressLimit
  BY <1>1, SlotFacts, CheckedFacts DEF SavedInv, ThreadInv
<1>3. marked' \subseteq Tracks
  BY <1>2 DEF JobDrains, SavedInv, TypeOK, Tracks
<1> HIDE DEF j
<1>4. CASE JobFails(j)
  BY <1>1, <1>2, <1>3, <1>4, FailsInv
<1>5. CASE ~JobFails(j)
  <2>1. job' = j /\ jpc' = "source" /\ native' = "none" /\ UNCHANGED <<lease, left, prefix>>
    BY <1>5 DEF JobDrains, j
  <2>2. SlotInv'
    BY <1>1, <1>2, <2>1 DEF SlotInv, Lagging, Timely, Settled
  <2>3. ThreadInv'
    BY <1>2, <2>1 DEF ThreadInv
  <2>4. LeaseInv'
    BY <1>1, <1>2, <2>1, HoldsOn DEF Holding
  <2>5. TypeOK' /\ PassInv' /\ DeletedInv'
    BY <1>1, <1>2, <1>3, <2>1 DEF SavedInv, TypeOK, PassInv, DeletedInv, JobType, Phases
  <2>6. QED
    BY <2>2, <2>3, <2>4, <2>5 DEF SavedInv
<1>6. QED
  BY <1>4, <1>5

\* The closing projection, or the failure that takes its place.
LEMMA JobProjectsInv ==
  ASSUME SavedInv, JobProjects
  PROVE  SavedInv'
<1> DEFINE j == Checked(job)
           result == IF prefix THEN "Partial" ELSE "Complete"
<1>1. /\ UNCHANGED <<wal, link, deleted, pending, marked, pass, stopPass, owned, quiet>>
      /\ jpc = "source"
  BY DEF JobProjects
<1>2. /\ j \in JobType /\ j.m = job.m /\ j.running /\ job.m \in Meetings /\ native = "none"
      /\ Lagging(j) /\ Timely(j) /\ Settled(j) /\ quiet \in 0..ProgressLimit
      /\ pending \in [Tracks -> 0..MaxPending]
  BY <1>1, SlotFacts, CheckedFacts DEF SavedInv, ThreadInv
<1> HIDE DEF j
<1>3. CASE JobFails(j) /\ UNCHANGED projected
  BY <1>1, <1>2, <1>3, FailsInv DEF SavedInv, TypeOK
<1>4. CASE /\ Acknowledge(job.m) /\ jpc' = "project" /\ job' = Staged(j, result)
           /\ UNCHANGED <<lease, left, prefix, native, fenced>>
  <2>1. result \in {"Partial", "Complete"}
    OBVIOUS
  <2> HIDE DEF result
  <2>2. /\ job' \in JobType /\ job'.m = j.m /\ job'.running = j.running /\ job'.age = 0
        /\ job'.phase = result /\ job'.lag = j.lag /\ job'.watching \in {0, j.watching}
    <3>1. result \in Phases
      BY <2>1 DEF Phases
    <3>2. QED
      BY <1>2, <1>4, <3>1, StagedFacts, ZenonT(40)
  <2>3. SlotInv'
    BY <1>1, <1>2, <2>1, <2>2, SavedBounds DEF SlotInv, Lagging, Timely, Settled
  <2>4. ThreadInv'
    BY <1>2, <1>4, <2>1, <2>2 DEF ThreadInv, Timed
  <2>5. LeaseInv'
    BY <1>1, <1>2, <1>4, <2>2, HoldsOn DEF Holding
  <2>6. projected' \in [Tracks -> 0..Never]
    BY <1>2, <1>4, SavedBounds DEF Acknowledge, SavedInv, TypeOK, Never
  <2>7. TypeOK' /\ PassInv' /\ DeletedInv'
    BY <1>1, <1>4, <2>2, <2>6 DEF SavedInv, TypeOK, PassInv, DeletedInv, JobType, Phases
  <2>8. QED
    BY <2>3, <2>4, <2>5, <2>7 DEF SavedInv
<1>5. QED
  BY <1>3, <1>4 DEF JobProjects, j

\* The job gives up its slot and its lease.
LEMMA JobEndsInv ==
  ASSUME SavedInv, JobEnds
  PROVE  SavedInv'
<1> USE DEF library
<1>1. /\ UNCHANGED <<library, prefix, pass, stopPass, owned, quiet>> /\ jpc = "project"
      /\ jpc' = "none" /\ native' = "none" /\ job' = Ended(job, job.phase)
      /\ lease' = [lease EXCEPT ![job.m] = "none"]
  BY DEF JobEnds
<1>2. job \in JobType /\ job.m \in Meetings /\ job.phase \notin Timed /\ quiet \in 0..ProgressLimit
  BY <1>1, SlotFacts DEF SavedInv, ThreadInv
<1>3. job' \in JobType /\ ~job'.running /\ job'.phase \notin Timed /\ job'.watching = 0
  BY <1>1, <1>2, EndedFacts DEF JobType
<1>4. /\ lease' \in [Meetings -> {"none", "recorder", "pass", "read", "job"}]
      /\ lease[job.m] = "job" /\ lease'[job.m] = "none"
      /\ \A n \in Meetings \ {job.m} : lease'[n] = lease[n]
  BY <1>1, <1>2 DEF SavedInv, TypeOK, LeaseInv, Holding
<1>5. SlotInv' /\ ThreadInv'
  BY <1>1, <1>2, <1>3 DEF SlotInv, ThreadInv, Lagging, Timely, Settled
<1>6. LeaseInv'
  BY <1>1, <1>4 DEF SavedInv, LeaseInv, Holding, Importing
<1>7. TypeOK' /\ PassInv' /\ DeletedInv'
  BY <1>1, <1>3, <1>4 DEF SavedInv, TypeOK, PassInv, DeletedInv, JobType, Phases
<1>8. QED
  BY <1>5, <1>6, <1>7 DEF SavedInv

-----------------------------------------------------------------------------
(* The dashboard, the shutdown, the recorder and time.                     *)

\* Cancelling marks a running job, and changes nothing else of it.
LEMMA CancelledFacts ==
  ASSUME NEW j \in JobType, Lagging(j), Timely(j), Settled(j)
  PROVE  LET c == Cancelled(j) IN
         /\ c \in JobType /\ c.m = j.m /\ c.auto = j.auto /\ c.running = j.running
         /\ c.watching = j.watching /\ c.phase = j.phase
         /\ Lagging(c) /\ Timely(c) /\ Settled(c)
         /\ c.stop = 0 => j.stop = 0
         /\ c.stop = 2 => j.stop = 2
         /\ c.stop # 0 \/ c = j
<1> DEFINE c == [j EXCEPT !.stop = 1]
<1>1. CASE Cancelled(j) = j
  BY <1>1 DEF JobType
<1>2. CASE Cancelled(j) = c
  <2>1. /\ c \in JobType /\ c.m = j.m /\ c.auto = j.auto /\ c.running = j.running
        /\ c.watching = j.watching /\ c.phase = j.phase /\ c.stop = 1 /\ c.lag = j.lag
    BY DEF JobType
  <2> HIDE DEF c
  <2>2. Lagging(c) /\ Timely(c) /\ Settled(c)
    BY <2>1 DEF Lagging, Timely, Settled
  <2>3. QED
    BY <1>2, <2>1, <2>2
<1>3. QED
  BY <1>1, <1>2 DEF Cancelled

\* A step that leaves lease, library and pass alone, but for the controls.
LEMMA SlotOnly ==
  ASSUME SavedInv, UNCHANGED <<library, lease, jpc, native, pass>>, job' \in JobType,
         job'.m = job.m, SlotInv', ThreadInv', owned' => stopPass'
  PROVE  SavedInv'
<1> USE DEF library
<1>1. LeaseInv'
  BY DEF SavedInv, LeaseInv, Importing
<1>2. TypeOK' /\ PassInv' /\ DeletedInv'
  BY DEF SavedInv, TypeOK, PassInv, DeletedInv, JobType, Phases
<1>3. QED
  BY <1>1, <1>2 DEF SavedInv

\* The user cancels the job, or the daemon goes down.
LEMMA CancelInv ==
  ASSUME SavedInv, Cancel \/ Shutdown
  PROVE  SavedInv'
<1> USE DEF library, worker
<1> DEFINE j == Cancelled(job)
<1>1. UNCHANGED <<library, lease, worker, pass, quiet>> /\ stopPass' = TRUE
  BY DEF Cancel, Shutdown
<1>2. job \in JobType /\ Lagging(job) /\ Timely(job) /\ Settled(job) /\ quiet \in 0..ProgressLimit
  BY SlotFacts
<1>3. /\ j \in JobType /\ j.m = job.m /\ j.running = job.running
      /\ j.watching = job.watching /\ j.phase = job.phase
      /\ Lagging(j) /\ Timely(j) /\ Settled(j)
      /\ j.stop = 0 => job.stop = 0
  BY <1>2, CancelledFacts
<1> HIDE DEF j
<1>4. CASE job' = Checked(j)
  <2>1. job' \in JobType /\ job'.m = job.m /\ SlotInv' /\ ThreadInv'
    BY <1>1, <1>3, <1>4, SlotChecked
  <2>2. QED
    BY <1>1, <2>1, SlotOnly
<1>5. CASE job' = j
  <2>1. SlotInv'
    BY <1>1, <1>2, <1>3, <1>5 DEF SlotInv, Lagging, Timely, Settled
  <2>2. ThreadInv'
    BY <1>1, <1>3, <1>5 DEF SavedInv, ThreadInv, Current
  <2>3. QED
    BY <1>1, <1>3, <1>5, <2>1, <2>2, SlotOnly
<1>6. CASE job' = job
  <2>1. SlotInv' /\ ThreadInv'
    BY <1>1, <1>6, SlotStays
  <2>2. QED
    BY <1>1, <1>2, <1>6, <2>1, SlotOnly
<1>7. QED
  BY <1>4, <1>5, <1>6 DEF Cancel, Shutdown, j

\* The user retries a recording: the controls are taken, and the slot if it is free.
LEMMA RetryInv ==
  ASSUME SavedInv, NEW m \in Meetings, Retry(m)
  PROVE  SavedInv'
<1> USE DEF library, worker
<1>1. UNCHANGED <<library, lease, pass>> /\ stopPass' = TRUE
  BY DEF Retry
<1>2. PassInv'
  BY <1>1 DEF SavedInv, PassInv
<1>3. CASE UNCHANGED <<job, worker, quiet>>
  <2>1. SlotInv' /\ ThreadInv'
    BY <1>1, <1>3, SlotStays
  <2>2. QED
    BY <1>1, <1>3, <2>1, SlotOnly, SlotFacts
<1>4. CASE StartJob(m, FALSE) /\ ~job.running
  BY <1>1, <1>2, <1>4, StartJobInv
<1>5. QED
  BY <1>3, <1>4 DEF Retry

\* A lease that is nobody's, or a reader's, changes hands.
LEMMA ReadersInv ==
  ASSUME SavedInv, NEW m \in Meetings, Read(m) \/ ReadReturns(m)
  PROVE  SavedInv'
<1> USE DEF library, worker
<1>1. UNCHANGED <<library, worker, pass, stopPass, owned, quiet>>
  BY DEF Read, ReadReturns
<1>2. job' \in JobType /\ job'.m = job.m /\ SlotInv' /\ ThreadInv'
  <2>1. CASE Read(m)
    BY <1>1, <2>1, SlotFacts, SlotChecked DEF Read
  <2>2. CASE ReadReturns(m)
    BY <1>1, <2>2, SlotFacts, SlotStays DEF ReadReturns
  <2>3. QED
    BY <2>1, <2>2
<1>3. \/ UNCHANGED lease
      \/ lease[m] = "none" /\ lease' = [lease EXCEPT ![m] = "read"]
      \/ lease[m] = "read" /\ lease' = [lease EXCEPT ![m] = "none"]
  BY DEF Read, ReadReturns, Loadable, LeaseFree
<1>4. /\ lease' \in [Meetings -> {"none", "recorder", "pass", "read", "job"}]
      /\ \A n \in Meetings : lease[n] \in {"job", "pass"} \/ lease'[n] \in {"job", "pass"} =>
           lease'[n] = lease[n]
  BY <1>3 DEF SavedInv, TypeOK
<1>5. jpc \in Holding => job.m \in Meetings
  BY DEF SavedInv, ThreadInv, Holding
<1>6. LeaseInv'
  BY <1>1, <1>2, <1>4, <1>5 DEF SavedInv, LeaseInv, Importing
<1>7. TypeOK' /\ PassInv' /\ DeletedInv'
  BY <1>1, <1>2, <1>4 DEF SavedInv, TypeOK, PassInv, DeletedInv, JobType, Phases
<1>8. QED
  BY <1>2, <1>6, <1>7 DEF SavedInv

\* A recording ends and is persisted; a meeting is deleted.
LEMMA RecordingsInv ==
  ASSUME SavedInv, NEW m \in Meetings, RecordingEnds(m) \/ RecordingPersists(m) \/ Delete(m)
  PROVE  SavedInv'
<1> USE DEF worker
<1>1. UNCHANGED <<pending, marked, projected, job, worker, pass, stopPass, owned, quiet>>
  BY DEF RecordingEnds, RecordingPersists, Delete
<1>2. SlotInv' /\ ThreadInv' /\ PassInv'
  BY <1>1, SlotStays DEF SavedInv, PassInv
<1>3. /\ lease' \in [Meetings -> {"none", "recorder", "pass", "read", "job"}]
      /\ \A n \in Meetings : lease[n] \in {"job", "pass"} \/ lease'[n] \in {"job", "pass"} =>
           lease'[n] = lease[n]
  BY DEF RecordingEnds, RecordingPersists, Delete, SavedInv, TypeOK
<1>4. jpc \in Holding => job.m \in Meetings
  BY DEF SavedInv, ThreadInv, Holding
<1>5. LeaseInv'
  BY <1>1, <1>3, <1>4 DEF SavedInv, LeaseInv, Importing
<1>6. DeletedInv' /\ link' \in [Meetings -> {"none", "open", "final"}] /\ deleted' \subseteq Meetings
  <2>1. CASE RecordingEnds(m)
    BY <2>1 DEF RecordingEnds, SavedInv, TypeOK, DeletedInv
  <2>2. CASE RecordingPersists(m)
    BY <2>2, AliasFacts DEF RecordingPersists, SavedInv, TypeOK
  <2>3. CASE Delete(m)
    BY <2>3 DEF Delete, SavedInv, TypeOK, DeletedInv
  <2>4. QED
    BY <2>1, <2>2, <2>3
<1>7. wal' \in [Meetings -> {"live", "open", "stopped", "finalized", "unproven"}]
  BY DEF RecordingEnds, RecordingPersists, Delete, SavedInv, TypeOK
<1>8. TypeOK'
  BY <1>1, <1>3, <1>6, <1>7 DEF SavedInv, TypeOK
<1>9. QED
  BY <1>2, <1>5, <1>6, <1>8 DEF SavedInv

\* Time passes for the job and for the quiet behind it alike.
LEMMA TickInv ==
  ASSUME SavedInv, Tick
  PROVE  SavedInv'
<1> USE DEF library, worker
<1>1. /\ UNCHANGED <<library, lease, worker, pass, stopPass, owned>>
      /\ job' = [job EXCEPT !.age = @ + 1] /\ job.age < ProgressLimit
      /\ quiet' = IF quiet < ProgressLimit THEN quiet + 1 ELSE quiet
  BY DEF Tick
<1>2. job \in JobType /\ Lagging(job) /\ Timely(job) /\ Settled(job) /\ quiet \in 0..ProgressLimit
  BY SlotFacts
<1>3. job.age \in 0..ProgressLimit /\ job.age + 1 \in 0..ProgressLimit /\ quiet' \in 0..ProgressLimit
      /\ (job.age <= quiet => job.age + 1 <= quiet')
  BY <1>1, <1>2, SavedBounds DEF JobType
<1>4. /\ job' \in JobType /\ job'.m = job.m /\ job'.running = job.running /\ job'.stop = job.stop
      /\ job'.phase = job.phase /\ job'.watching = job.watching /\ job'.lag = job.lag
      /\ job'.age = job.age + 1
  BY <1>1, <1>2, <1>3 DEF JobType
<1>5. SlotInv'
  BY <1>1, <1>2, <1>3, <1>4 DEF SlotInv, Lagging, Timely, Settled
<1>6. ThreadInv'
  BY <1>1, <1>4 DEF SavedInv, ThreadInv, Current
<1>7. QED
  BY <1>1, <1>4, <1>5, <1>6, SlotOnly DEF SavedInv, PassInv

-----------------------------------------------------------------------------
(* Every step.                                                             *)

\* No step of any actor leaves the invariant.
LEMMA NextInv == SavedInv /\ [Next]_vars => SavedInv'
<1> SUFFICES ASSUME SavedInv, [Next]_vars PROVE SavedInv'
  OBVIOUS
<1>1. CASE StartPending \/ ImportEnds \/ ScanNext
  BY <1>1, PassMovesInv
<1>2. CASE ImportProject \/ PassStart \/ PassWatch
  BY <1>2, ImportProjectInv, PassStartInv, PassWatchInv
<1>3. CASE \E m \in Meetings : ImportPrepare(m)
  BY <1>3, ImportPrepareInv
<1>4. CASE JobLoad \/ JobPolls \/ JobProjects \/ JobEnds
  BY <1>4, JobLoadInv, JobPollsInv, JobProjectsInv, JobEndsInv
<1>5. CASE \E s \in Sources : JobSource(s) \/ JobBuilt(s) \/ JobDrains(s)
  BY <1>5, JobSourceInv, JobBuiltInv, JobDrainsInv
<1>6. CASE Native
  BY <1>6, NativeInv, NativeCommitInv DEF Native
<1>7. CASE Cancel \/ Shutdown \/ Tick
  BY <1>7, CancelInv, TickInv
<1>8. CASE \E m \in Meetings : Retry(m) \/ Read(m) \/ ReadReturns(m)
  BY <1>8, RetryInv, ReadersInv
<1>9. CASE \E m \in Meetings : Delete(m) \/ RecordingEnds(m) \/ RecordingPersists(m)
  BY <1>9, RecordingsInv
<1>10. CASE UNCHANGED vars
  BY <1>10 DEF vars, library, worker, SavedInv, TypeOK, SlotInv, Lagging, Timely, Settled,
     ThreadInv, Current, LeaseInv, Importing, PassInv, DeletedInv
<1>11. QED
  BY <1>1, <1>2, <1>3, <1>4, <1>5, <1>6, <1>7, <1>8, <1>9, <1>10 DEF Next, Pass, Job

\* The inductive invariant: slot, thread, recognizer and lease in step, in every
\* reachable state of the recovery.
THEOREM SavedInvariance == Spec => []SavedInv
<1>1. QED
  BY InitInv, NextInv, PTL DEF Spec

\* Every reachable state of the recovery is well typed.
THEOREM SavedTypes == Spec => []TypeOK
<1>1. SavedInv => TypeOK
  BY DEF SavedInv
<1>2. QED
  BY <1>1, SavedInvariance, PTL

\* A recognizer always runs inside a running job that holds its recording's
\* capture lease, and a job that reports its end holds none (run_job joins the
\* worker before it gives up the slot).
THEOREM NativeStaysOwned == Spec => []NativeIsOwned
<1>1. SavedInv => NativeIsOwned
  BY DEF SavedInv, ThreadInv, LeaseInv, NativeIsOwned, Holding
<1>2. QED
  BY <1>1, SavedInvariance, PTL

-----------------------------------------------------------------------------
(* What no step does.                                                      *)

\* No step of any actor forgets a known end or revives a deleted recording.
LEMMA AliasStep ==
  ASSUME SavedInv, SavedInv', [Next]_vars
  PROVE  \A m \in Meetings :
            IF m \in deleted' THEN link'[m] = "none"
            ELSE link[m] = "final" => link'[m] = "final"
<1>1. \A m \in deleted' : link'[m] = "none"
  BY DEF SavedInv, DeletedInv
<1>2. \A m \in Meetings : m \notin deleted' => (link[m] = "final" => link'[m] = "final")
  <2>1. CASE UNCHANGED link
    BY <2>1
  <2>2. CASE ImportProject
    <3>1. Importing \in Meetings /\ UNCHANGED deleted
      BY <2>2 DEF SavedInv, LeaseInv, ImportProject
    <3>2. UNCHANGED link \/ Finalize(Importing) \/ Retain(Importing)
      BY <2>2 DEF ImportProject
    <3>3. QED
      BY <3>1, <3>2, AliasFacts
  <2>3. CASE \E m \in Meetings : RecordingPersists(m)
    BY <2>3, AliasFacts DEF RecordingPersists
  <2>4. CASE \E m \in Meetings : Delete(m)
    BY <2>4 DEF Delete, SavedInv, TypeOK
  <2>5. CASE UNCHANGED vars
    BY <2>5 DEF vars, library
  <2>6. UNCHANGED link \/ ImportProject \/ (\E m \in Meetings : RecordingPersists(m))
        \/ (\E m \in Meetings : Delete(m)) \/ UNCHANGED vars
    BY DEF Next, Pass, Job, Native, library, StartPending, ImportEnds, ScanNext, PassStart,
       PassWatch, ImportPrepare, JobLoad, JobPolls, JobProjects, JobEnds, JobSource, JobBuilt,
       JobDrains, NativeBuilt, NativeInfer, NativeCommit, Cancel, Shutdown, Tick, Retry, Read,
       ReadReturns, RecordingEnds
  <2>7. QED
    BY <2>1, <2>2, <2>3, <2>4, <2>5, <2>6
<1>3. QED
  BY <1>1, <1>2

\* A final alias stays final until its recording is deleted, and a deleted
\* recording's alias never comes back, whatever an import or the recorder's late
\* save had prepared (finalize_in_transaction, retain_in_transaction).
THEOREM AliasesOnlyGrow == Spec => AliasOnlyGrows
<1>1. SavedInv /\ SavedInv' /\ [Next]_vars =>
        [\A m \in Meetings :
            IF m \in deleted' THEN link'[m] = "none"
            ELSE link[m] = "final" => link'[m] = "final"]_vars
  BY AliasStep
<1>2. QED
  BY <1>1, SavedInvariance, PTL DEF Spec, AliasOnlyGrows

\* A step that starts a job once the user has the controls starts the user's own.
LEMMA StartsStep ==
  ASSUME SavedInv, [Next]_vars, owned, jobs' # jobs
  PROVE  ~job'.auto
<1>1. stopPass
  BY DEF SavedInv, PassInv
<1>2. CASE \E m \in Meetings : Retry(m)
  <2>1. PICK m \in Meetings : Retry(m)
    BY <1>2
  <2>2. StartJob(m, FALSE)
    BY <2>1 DEF Retry
  <2>3. job'.auto = FALSE
    BY <2>2 DEF StartJob, NoJob
  <2>4. QED
    BY <2>3
<1>3. CASE PassStart
  BY <1>1, <1>3 DEF PassStart
<1>4. QED
  BY <1>2, <1>3 DEF Next, Pass, Job, Native, vars, StartPending, ImportProject, ImportEnds, ScanNext,
     PassWatch, ImportPrepare, JobLoad, JobPolls, JobProjects, JobEnds, JobSource, JobBuilt,
     JobDrains, NativeBuilt, NativeInfer, NativeCommit, Cancel, Shutdown, Tick, Read,
     ReadReturns, RecordingEnds, RecordingPersists, Delete

\* Where the stop reason of the slot after a step comes from.
LEMMA StopComes ==
  ASSUME SavedInv, [Next]_vars
  PROVE  \/ job'.stop \in {0, job.stop, Checked(job).stop, Cancelled(job).stop}
         \/ job' = Checked(Cancelled(job))
<1> DEFINE j == Checked(job)
<1>1. job \in JobType /\ j \in JobType
  BY SlotFacts, CheckedFacts
<1> HIDE DEF j
<1>2. \A c \in {job, j} : JobFails(c) => job'.stop \in {job.stop, j.stop}
  BY <1>1, EndedFacts DEF JobFails, Phases, Timed
<1>3. \A c \in {job, j}, p \in Phases : Staged(c, p).stop \in {job.stop, j.stop}
  BY <1>1, StagedFacts
<1>4. CASE UNCHANGED job
  BY <1>4
<1>5. CASE JobLoad
  BY <1>2, <1>3, <1>5 DEF JobLoad, Phases, j
<1>6. CASE \E s \in Sources : JobSource(s)
  BY <1>2, <1>3, <1>6 DEF JobSource, Phases, j
<1>7. CASE \E s \in Sources : JobBuilt(s)
  <2>1. PICK s \in Sources : JobBuilt(s)
    BY <1>7
  <2>2. \/ JobFails(j) \/ job' = j
        \/ job' = [Staged(j, "Transcribing") EXCEPT !.watching = s, !.lag = pending[<<j.m, s>>]]
    BY <2>1 DEF JobBuilt, j
  <2>3. Staged(j, "Transcribing") \in JobType
    BY <1>1, StagedFacts DEF Phases
  <2>4. CASE job' = [Staged(j, "Transcribing") EXCEPT !.watching = s, !.lag = pending[<<j.m, s>>]]
    <3> DEFINE g == Staged(j, "Transcribing")
    <3>1. g.stop \in {job.stop, j.stop}
      BY <1>3 DEF Phases
    <3> HIDE DEF g
    <3>2. job'.stop = g.stop
      BY <2>3, <2>4 DEF JobType, g
    <3>3. QED
      BY <3>1, <3>2 DEF j
  <2>5. QED
    BY <1>2, <2>2, <2>4 DEF j
<1>8. CASE JobPolls \/ \E s \in Sources : JobDrains(s)
  BY <1>2, <1>8 DEF JobPolls, JobDrains, j
<1>9. CASE JobProjects
  BY <1>2, <1>3, <1>9 DEF JobProjects, Phases, j
<1>10. CASE JobEnds
  <2>1. job.phase \in Phases /\ job.phase \notin Timed
    BY <1>1, <1>10 DEF JobEnds, SavedInv, ThreadInv, JobType
  <2>2. QED
    BY <1>1, <1>10, <2>1, EndedFacts DEF JobEnds
<1>11. CASE PassStart \/ \E m \in Meetings : Retry(m)
  <2>1. UNCHANGED job \/ \E m, auto : StartJob(m, auto)
    BY <1>11 DEF PassStart, Retry
  <2>2. (\E m, auto : StartJob(m, auto)) => job'.stop = 0
    BY DEF StartJob, NoJob
  <2>3. QED
    BY <2>1, <2>2
<1>12. CASE PassWatch \/ \E m \in Meetings : Read(m)
  BY <1>12 DEF PassWatch, Read
<1>13. CASE Cancel \/ Shutdown
  BY <1>13 DEF Cancel, Shutdown
<1>14. CASE Tick
  BY <1>1, <1>14 DEF Tick, JobType
<1>15. QED
  BY <1>4, <1>5, <1>6, <1>7, <1>8, <1>9, <1>10, <1>11, <1>12, <1>13, <1>14 DEF Next, Pass, Job,
     Native, vars, StartPending, ImportProject, ImportEnds, ScanNext, ImportPrepare, NativeBuilt,
     NativeInfer, NativeCommit, ReadReturns, RecordingEnds, RecordingPersists, Delete

\* A step that ends a job by its deadline finds it without an advance for so long.
LEMMA DeadlineStep ==
  ASSUME SavedInv, [Next]_vars, job'.stop = 2, job.stop = 0
  PROVE  quiet >= (IF job.phase = "Preparing" THEN PrepareLimit ELSE ProgressLimit)
<1>1. /\ job \in JobType /\ Lagging(job) /\ Timely(job) /\ Settled(job)
      /\ pending \in [Tracks -> 0..MaxPending] /\ quiet \in 0..ProgressLimit
  BY SlotFacts
<1>2. CASE Checked(job).stop = 2
  BY <1>1, <1>2, CheckedFacts
<1>3. Cancelled(job).stop # 2 /\ (Cancelled(job).stop # 0 \/ Cancelled(job) = job)
  BY <1>1, CancelledFacts
<1>4. CASE job' = Checked(Cancelled(job))
  <2> DEFINE c == Cancelled(job)
  <2>1. c \in JobType /\ Lagging(c) /\ Timely(c) /\ Settled(c)
    BY <1>1, CancelledFacts
  <2>2. c.stop # 2 /\ (c.stop # 0 \/ c = job) /\ job' = Checked(c)
    BY <1>3, <1>4
  <2> HIDE DEF c
  <2>3. c.stop = 0
    BY <1>1, <2>1, <2>2, CheckedFacts
  <2>4. QED
    BY <1>2, <2>2, <2>3
<1>5. QED
  BY <1>2, <1>3, <1>4, StopComes

\* No job starts on the pass's word once the user or the shutdown has taken the
\* controls, and none is stopped by a deadline within its limit of a durable
\* advance (start_job, check()).
THEOREM JobsAlwaysHaveCause == Spec => JobsHaveCause
<1>1. SavedInv /\ [Next]_vars => [(owned /\ jobs' # jobs) => ~job'.auto]_vars
  BY StartsStep
<1>2. SavedInv /\ [Next]_vars =>
        [(job'.stop = 2 /\ job.stop = 0) =>
            quiet >= (IF job.phase = "Preparing" THEN PrepareLimit ELSE ProgressLimit)]_vars
  BY DeadlineStep
<1>3. QED
  BY <1>1, <1>2, SavedInvariance, PTL
     DEF Spec, JobsHaveCause, UserOwnsTheControls, DeadlineMeansStalled

=============================================================================
