---------------------------- MODULE SavedSpeech ----------------------------
(***************************************************************************)
(* Recovery of saved speech (fotwd/src/speech_recovery.rs): after a start  *)
(* of the daemon one pass indexes the recordings an earlier process left   *)
(* behind and runs the local model over their pending audio, one recording *)
(* at a time; the dashboard can read, retry and cancel the same jobs.      *)
(*                                                                         *)
(* The pass thread, the job thread, the native recognizer, the dashboard   *)
(* and a recording that is still being made interleave.  What they share   *)
(* is the job slot (a mutex), the library's session link (a transaction)   *)
(* and the capture lease (a file lock that is tried, never waited for).    *)
(* How the native stream publishes a receipt is SpeechSource's subject:    *)
(* here a unit of audio is pending or committed.                           *)
(***************************************************************************)
EXTENDS Integers, FiniteSets, FiniteSetsExt

CONSTANTS
    Meetings,       \* the recordings, as 1..n: the pass scans in session order
    Sources,        \* the tracks of a recording: system and mic
    Unplanned,      \* the <<recording, track>> without a saved local plan
    MaxPending,     \* bound: units of uncommitted audio a track may have
    PrepareLimit,   \* ticks a job may prepare for (30 s)
    ProgressLimit,  \* ticks it may transcribe without a durable advance (120 s)
    MaxJobs,        \* bound: jobs started
    MaxVisits       \* bound: deletions, and reads that validate the saved files

ASSUME SavedBounds ==
    /\ Meetings \subseteq Nat \ {0} /\ Sources \subseteq Nat \ {0}
    /\ MaxPending \in Nat /\ MaxJobs \in Nat /\ MaxVisits \in Nat
    /\ PrepareLimit \in Nat /\ ProgressLimit \in Nat

VARIABLES
    wal,        \* per recording: "live"; left by a crash, "stopped" (Stop proven) or
                \* "open"; ended by this recorder, "finalized" or "unproven"
    link,       \* session_note_links: "none" | "open" (clock unknown) | "final"
    deleted,    \* the recordings with a capture tombstone
    pending,    \* per recording and track: units not yet committed
    marked,     \* the tracks with a completion marker
    projected,  \* per track: the pending count the library has acknowledged
    lease,      \* capture-owner.lock: "none" | "recorder" | "pass" | "read" | "job"
    job,        \* the job slot
    jpc,        \* where the job thread is
    left,       \* the tracks the job has not yet come to, taken in order
    prefix,     \* the job's recording had an open clock when it was loaded
    native,     \* the recognizer: "none"|"building"|"idle"|"result"|"done"|"failed"
    fenced,     \* the stream was dropped: late output is refused
    pass,       \* the startup pass: where it is, what is left, its cursor
    stopPass,   \* startup_stop
    owned,      \* history: the user or the shutdown took the controls
    quiet,      \* history: ticks since the job last advanced
    jobs, reads \* counters for the bounds

library == <<wal, link, deleted, pending, marked, projected>>
worker  == <<jpc, left, prefix, native, fenced>>
vars == <<library, lease, job, worker, pass, stopPass, owned, quiet, jobs, reads>>

Tracks == Meetings \X Sources
Never  == MaxPending + 1        \* a track the library has acknowledged nothing of

NoJob == [m |-> 0, auto |-> FALSE, running |-> FALSE, phase |-> "none",
          stop |-> 0, age |-> 0, watching |-> 0, lag |-> 0]

TypeOK ==
    /\ wal \in [Meetings -> {"live", "open", "stopped", "finalized", "unproven"}]
    /\ link \in [Meetings -> {"none", "open", "final"}]
    /\ deleted \subseteq Meetings
    /\ pending \in [Tracks -> 0..MaxPending]
    /\ marked \subseteq Tracks
    /\ projected \in [Tracks -> 0..Never]
    /\ lease \in [Meetings -> {"none", "recorder", "pass", "read", "job"}]
    /\ job \in [m: Meetings \cup {0}, auto: BOOLEAN, running: BOOLEAN,
                phase: {"none", "Preparing", "Transcribing", "Stopping", "Complete",
                        "Partial", "Cancelled", "Failed"},
                stop: 0..2, age: 0..ProgressLimit,
                watching: Sources \cup {0}, lag: 0..MaxPending]
    /\ jpc \in {"none", "load", "source", "build", "run", "drain", "project"}
    /\ native \in {"none", "building", "idle", "result", "done", "failed"}

(***************************************************************************)
(* What load() finds in the files of recording m.                          *)
(***************************************************************************)
Final(m)    == link[m] = "final"
Planned(t)  == t \notin Unplanned
Whole(t)    == t \in marked /\ pending[t] = 0

\* the checkpoint names a Stop and no audio lies beyond it
Frozen(m) == wal[m] \in {"stopped", "finalized"}

\* every track that still has audio to transcribe has the plan to do it with
Bounded(m) == \A s \in Sources : pending[<<m, s>>] = 0 \/ Planned(<<m, s>>)

\* the capture lease is tried, never waited for
LeaseFree(m) == lease[m] = "none"

\* a final clock demands the plans, and of an unfinished WAL its frozen Stop;
\* nothing is asked of a clock that is still open
Valid(m) ==
    /\ link[m] # "none"
    /\ Final(m) => (Frozen(m) \/ wal[m] = "unproven") /\ Bounded(m)

Incomplete(m) ==
    Final(m) /\ \E s \in Sources : ~Whole(<<m, s>>) \/ projected[<<m, s>>] # 0
Retryable(m) ==
    IF Final(m) THEN Incomplete(m)
    ELSE \E s \in Sources : LET t == <<m, s>> IN
            \/ pending[t] > 0 /\ Planned(t)
            \/ projected[t] # pending[t]

\* the saved files are validated under the capture lease
Loadable(m) == Valid(m) /\ LeaseFree(m)

Init ==
    /\ wal \in [Meetings -> {"live", "open", "stopped"}]
    /\ \A m \in Meetings : wal[m] = "live" => m = Max(Meetings)   \* the newest session
    /\ link = [m \in Meetings |-> "none"]
    /\ deleted = {}
    /\ \E n \in 0..MaxPending :
          pending = [t \in Tracks |-> IF t[2] = Min(Sources) THEN n ELSE MaxPending]
    /\ marked = {}
    /\ projected = [t \in Tracks |-> Never]
    /\ lease = [m \in Meetings |-> IF wal[m] = "live" THEN "recorder" ELSE "none"]
    /\ job = NoJob /\ jpc = "none" /\ left = {} /\ prefix = FALSE
    /\ native = "none" /\ fenced = FALSE
    /\ pass = [at |-> "off", todo |-> {}, upper |-> 0, m |-> 0]
    /\ stopPass = FALSE /\ owned = FALSE
    /\ quiet = 0 /\ jobs = 0 /\ reads = 0

(***************************************************************************)
(* The library's transactions.                                             *)
(***************************************************************************)
NotDeleted_Ever(m) == TRUE

NotDeleted(m) == link[m] # "none" \/ m \notin deleted

\* retain_in_transaction, promote_in_transaction: index without a final clock, never downgrade one
Retain(m) ==
    link' = IF NotDeleted(m) /\ link[m] = "none" THEN [link EXCEPT ![m] = "open"] ELSE link

\* finalize_in_transaction: a proven Stop creates the alias or upgrades it
Finalize(m) ==
    link' = IF NotDeleted(m) THEN [link EXCEPT ![m] = "final"] ELSE link

\* the receipts of the committed audio reach the library and are acknowledged
Acknowledge(m) ==
    projected' = [t \in Tracks |-> IF t[1] = m THEN pending[t] ELSE projected[t]]

(***************************************************************************)
(* The job slot.  Every reader of it may notice a deadline: check() first  *)
(* takes the observed stream's durable lag into account, then the limit.   *)
(***************************************************************************)
Lag(j) == pending[<<j.m, j.watching>>]
Observed_Late(j) == j

Observed(j) ==
    IF j.watching = 0 THEN j
    ELSE [j EXCEPT !.lag = Lag(j),
                   !.age = IF Lag(j) < j.lag /\ j.phase = "Transcribing" /\ j.stop = 0
                           THEN 0 ELSE @]

Overdue(j) ==
    \/ j.phase = "Preparing" /\ j.age >= PrepareLimit
    \/ j.phase = "Transcribing" /\ j.age >= ProgressLimit

Checked(j) ==
    LET o == Observed(j)
        d == IF Overdue(o) /\ o.stop = 0 THEN [o EXCEPT !.stop = 2] ELSE o
    IN  IF d.stop # 0 /\ d.running THEN [d EXCEPT !.phase = "Stopping"] ELSE d

Staged(j, p) ==
    [j EXCEPT !.phase = p, !.age = 0,
              !.watching = IF p \in {"Preparing", "Complete"} THEN 0 ELSE @]

Cancelled(j) == IF j.running /\ j.stop = 0 THEN [j EXCEPT !.stop = 1] ELSE j

\* start_job: a manual start takes the controls from the pass, then one slot
StartJob(m, auto) ==
    /\ jobs < MaxJobs
    /\ jobs' = jobs + 1
    /\ job' = [NoJob EXCEPT !.m = m, !.auto = auto, !.running = TRUE,
                            !.phase = "Preparing"]
    /\ jpc' = "load"
    /\ quiet' = 0
    /\ UNCHANGED <<left, prefix, native, fenced>>

\* ended(): the stop reason outranks the job's own result
Ended(j, result) ==
    [j EXCEPT !.running = FALSE, !.age = 0, !.watching = 0, !.lag = 0,
              !.phase = CASE j.stop = 1 -> "Cancelled"
                          [] j.stop = 2 -> "Failed"
                          [] OTHER -> result]

(***************************************************************************)
(* The startup pass.                                                       *)
(***************************************************************************)
PassDone == [at |-> "done", todo |-> {}, upper |-> 0, m |-> 0]

StartPending ==
    /\ pass.at = "off" /\ ~stopPass
    /\ pass' = [pass EXCEPT !.at = "import", !.todo = Meetings]
    /\ UNCHANGED <<library, lease, job, worker, stopPass, owned, quiet, jobs, reads>>

Importing == Min(pass.todo)

\* prepare(): a proven Stop freezes the tracks, which must all be accounted for;
\* an unknown end is indexed as it is
Preparable(m) == LeaseFree(m) /\ (Frozen(m) => Bounded(m))

\* import_stopped_captures: a live or busy capture, a deleted or an indexed one
\* is passed over; the rest is prepared under its lease, input frozen
ImportPrepare(m) ==
    /\ pass.at = "import" /\ pass.todo # {} /\ m = Importing
    /\ IF ~stopPass /\ NotDeleted(m) /\ link[m] = "none" /\ Preparable(m)
       THEN /\ pass' = [pass EXCEPT !.at = "project"]
            /\ lease' = [lease EXCEPT ![m] = "pass"]
       ELSE /\ pass' = [pass EXCEPT !.todo = @ \ {m}]
            /\ UNCHANGED lease
    /\ UNCHANGED <<library, job, worker, stopPass, owned, quiet, jobs, reads>>

\* persist_session for a proven Stop, persist_interrupted for an unknown end;
\* the leases are held until the projection has returned
ImportProject ==
    /\ pass.at = "project"
    /\ LET m == Importing IN
       /\ \/ stopPass /\ UNCHANGED <<link, projected>>
          \/ /\ ~stopPass
             /\ IF Frozen(m) THEN Finalize(m) ELSE Retain(m)
             /\ IF link'[m] # "none" THEN Acknowledge(m) ELSE UNCHANGED projected
       /\ lease' = [lease EXCEPT ![m] = "none"]
    /\ pass' = [pass EXCEPT !.at = "import", !.todo = @ \ {Importing}]
    /\ UNCHANGED <<wal, deleted, pending, marked, job, worker, stopPass, owned,
                   quiet, jobs, reads>>

\* the upper boundary of the scan is fixed before the first page
ImportEnds ==
    /\ pass.at = "import" /\ (pass.todo = {} \/ stopPass)
    /\ LET linked == {m \in Meetings : link[m] # "none"} IN
       pass' = IF linked = {} \/ stopPass THEN PassDone
               ELSE [pass EXCEPT !.todo = {}, !.upper = Max(linked), !.at = "scan"]
    /\ UNCHANGED <<library, lease, job, worker, stopPass, owned, quiet, jobs, reads>>

\* the next indexed recording; one that cannot be loaded now is skipped
ScanNext ==
    /\ pass.at = "scan"
    /\ LET next == {m \in Meetings : m > pass.m /\ m <= pass.upper /\ link[m] # "none"} IN
       IF stopPass \/ next = {}
       THEN pass' = PassDone
       ELSE pass' = [pass EXCEPT
                !.m = Min(next),
                !.at = IF /\ Loadable(Min(next))
                          /\ Retryable(Min(next))
                       THEN "start" ELSE "scan"]
    /\ UNCHANGED <<library, lease, job, worker, stopPass, owned, quiet, jobs, reads>>

\* Busy, from the slot or from the lease of an open clock, ends the pass
PassStart ==
    /\ pass.at = "start"
    /\ LET m == pass.m
           open == link[m] = "open"
           busy == stopPass \/ job.running \/ (open /\ ~LeaseFree(m))
       IN  \/ /\ busy
              /\ pass' = PassDone
              /\ UNCHANGED <<job, worker, quiet, jobs>>
           \/ /\ ~busy /\ open                 \* the second load failed: skipped
              /\ pass' = [pass EXCEPT !.at = "scan"]
              /\ UNCHANGED <<job, worker, quiet, jobs>>
           \/ /\ ~busy /\ (open => Retryable(m))
              /\ StartJob(m, TRUE)
              /\ pass' = [pass EXCEPT !.at = "watch"]
    /\ UNCHANGED <<library, lease, stopPass, owned, reads>>

PassWatch ==
    /\ pass.at = "watch"
    /\ job' = Checked(job)
    /\ pass' = IF stopPass THEN PassDone
               ELSE [pass EXCEPT !.at = IF job'.running THEN "watch" ELSE "scan"]
    /\ UNCHANGED <<library, lease, worker, stopPass, owned, quiet, jobs, reads>>

(***************************************************************************)
(* The job thread.                                                         *)
(***************************************************************************)
JobFails(j) ==
    /\ jpc' = "none" /\ left' = {} /\ native' = "none" /\ fenced' = FALSE
    /\ job' = Ended(j, "Failed")
    /\ UNCHANGED prefix
    /\ lease' = [lease EXCEPT ![job.m] = IF @ = "job" THEN "none" ELSE @]

\* load under the capture lease, which the job keeps until everything is released
JobLoad ==
    /\ jpc = "load"
    /\ IF ~Loadable(job.m) \/ (link[job.m] = "open" /\ ~Retryable(job.m))
       THEN JobFails(job)
       ELSE /\ lease' = [lease EXCEPT ![job.m] = "job"]
            /\ job' = Staged(job, "Preparing")
            /\ left' = Sources /\ prefix' = ~Final(job.m)
            /\ jpc' = "source"
            /\ UNCHANGED <<native, fenced>>
    /\ quiet' = 0
    /\ UNCHANGED <<library, pass, stopPass, owned, jobs, reads>>

\* the next track: nothing to do, only a marker to write, or audio to transcribe
JobSource(s) ==
    /\ jpc = "source" /\ left # {} /\ s = Min(left)
    /\ LET t == <<job.m, s>>
           j == Checked(job)
           skip == Whole(t) \/ (prefix /\ (pending[t] = 0 \/ ~Planned(t)))
       IN  \/ /\ j.stop # 0 /\ JobFails(j)
              /\ UNCHANGED <<marked, quiet>>
           \/ /\ j.stop = 0 /\ skip
              /\ job' = j /\ left' = left \ {s}
              /\ UNCHANGED <<lease, jpc, prefix, native, fenced, marked, quiet>>
           \/ /\ j.stop = 0 /\ ~skip /\ pending[t] = 0
              /\ marked' = marked \cup {t}
              /\ job' = Staged(j, "Preparing") /\ left' = left \ {s}
              /\ quiet' = 0
              /\ UNCHANGED <<lease, jpc, prefix, native, fenced>>
           \/ /\ j.stop = 0 /\ ~skip /\ pending[t] > 0
              /\ \/ JobFails(j)                         \* model missing, plan lost
                 \/ /\ job' = Staged(j, "Preparing")
                    /\ left' = left \ {s}
                    /\ jpc' = "build" /\ native' = "building" /\ fenced' = FALSE
                    /\ UNCHANGED <<lease, prefix>>
              /\ quiet' = 0
              /\ UNCHANGED marked
    /\ UNCHANGED <<wal, link, deleted, pending, projected, pass, stopPass, owned,
                   jobs, reads>>

\* the track being transcribed: the one the job took last
Current == Max(Sources \ left)

\* the constructor is waited for, however late; a stop makes it refuse
NativeBuilt ==
    /\ native = "building"
    /\ \/ job.stop = 0 /\ native' = "idle"
       \/ native' = "failed"
    /\ UNCHANGED <<library, lease, job, jpc, left, prefix, fenced, pass, stopPass, owned,
                   quiet, jobs, reads>>

JobBuilt(s) ==
    /\ jpc = "build" /\ native # "building" /\ s = Current
    /\ LET j == Checked(job) IN
       IF native = "failed" THEN JobFails(j)
       ELSE /\ IF j.stop # 0
               THEN jpc' = "drain" /\ job' = j /\ fenced' = TRUE
               ELSE /\ jpc' = "run"
                    /\ job' = [Staged(j, "Transcribing") EXCEPT
                                  !.watching = s, !.lag = pending[<<j.m, s>>]]
                    /\ fenced' = FALSE
            /\ UNCHANGED <<lease, left, prefix, native>>
    /\ quiet' = 0
    /\ UNCHANGED <<library, pass, stopPass, owned, jobs, reads>>

NativeInfer_Hangs ==
    /\ native = "idle" /\ job.stop = 0 /\ ~fenced
    /\ native' = IF pending[<<job.m, Current>>] = 0 THEN "done" ELSE "result"
    /\ UNCHANGED <<library, lease, job, jpc, left, prefix, fenced, pass, stopPass, owned,
                   quiet, jobs, reads>>

\* the guarded recognizer refuses to start, and to return, once a stop is seen
NativeInfer ==
    /\ native = "idle"
    /\ native' = IF pending[<<job.m, Current>>] = 0 THEN "done"
                 ELSE IF job.stop = 0 /\ ~fenced THEN "result" ELSE "failed"
    /\ UNCHANGED <<library, lease, job, jpc, left, prefix, fenced, pass, stopPass, owned,
                   quiet, jobs, reads>>

\* its result becomes a durable receipt unless the stream was dropped meanwhile
NativeCommit ==
    /\ native = "result"
    /\ \/ /\ ~fenced
          /\ pending' = [pending EXCEPT ![<<job.m, Current>>] = @ - 1]
          /\ native' = "idle"
          /\ quiet' = IF job.phase = "Transcribing" THEN 0 ELSE quiet
       \/ native' = "failed" /\ UNCHANGED <<pending, quiet>>
    /\ UNCHANGED <<wal, link, deleted, marked, projected, lease, job, jpc, left, prefix, fenced,
                   pass, stopPass, owned, jobs, reads>>

\* the transcription loop: durable progress, the stop, the worker's own end
JobPolls ==
    /\ jpc = "run"
    /\ LET j == Checked(job) IN
       /\ job' = j
       /\ jpc' = IF j.stop # 0 \/ native \in {"done", "failed"} THEN "drain" ELSE "run"
       /\ fenced' = (jpc' = "drain")
    /\ UNCHANGED <<library, lease, left, prefix, native, pass, stopPass, owned, quiet, jobs,
                   reads>>

JobDrains_NoWait(s) ==
    /\ jpc = "drain" /\ s = Current
    /\ IF native = "done" /\ Checked(job).stop = 0
       THEN /\ job' = Checked(job)
            /\ jpc' = "source" /\ native' = "none" /\ fenced' = FALSE
            /\ UNCHANGED <<lease, left, prefix>>
       ELSE /\ jpc' = "none" /\ job' = Ended(job, "Failed")
            /\ lease' = [lease EXCEPT ![job.m] = "none"]
            /\ UNCHANGED <<left, prefix, native, fenced>>
    /\ UNCHANGED <<library, pass, stopPass, owned, quiet, jobs, reads>>

\* the dropped stream's worker is waited for; only a whole track goes on.  A
\* completed stream of a final clock leaves the track's completion marker.
JobDrains(s) ==
    /\ jpc = "drain" /\ native \in {"done", "failed"} /\ s = Current
    /\ LET j == Checked(job) IN
       IF native = "failed" \/ j.stop # 0
       THEN JobFails(j)
       ELSE /\ job' = j
            /\ jpc' = "source" /\ native' = "none" /\ fenced' = FALSE
            /\ UNCHANGED <<lease, left, prefix>>
    /\ marked' = IF native = "done" /\ ~prefix THEN marked \cup {<<job.m, s>>} ELSE marked
    /\ UNCHANGED <<wal, link, deleted, pending, projected, pass, stopPass, owned,
                   quiet, jobs, reads>>

\* the closing projection: the alias must still be the recording's own, and an
\* open clock must still be open; then the result is read back
JobProjects ==
    /\ jpc = "source" /\ left = {}
    /\ LET j == Checked(job)
           m == job.m
           result == IF prefix THEN "Partial" ELSE "Complete"
       IN  IF \/ j.stop # 0 \/ prefix # (link[m] = "open") \/ link[m] = "none"
              \/ (~prefix /\ \E s \in Sources : ~Whole(<<m, s>>))
           THEN JobFails(j) /\ UNCHANGED projected
           ELSE \/ JobFails(j) /\ UNCHANGED projected
                \/ /\ Acknowledge(m)
                   /\ jpc' = "project" /\ job' = Staged(j, result)
                   /\ UNCHANGED <<lease, left, prefix, native, fenced>>
    /\ UNCHANGED <<wal, link, deleted, pending, marked, pass, stopPass, owned,
                   quiet, jobs, reads>>

\* the runtime is joined and the lease dropped before the slot is given up
JobEnds ==
    /\ jpc = "project"
    /\ job' = Ended(job, job.phase)
    /\ lease' = [lease EXCEPT ![job.m] = "none"]
    /\ jpc' = "none" /\ left' = {} /\ native' = "none" /\ fenced' = FALSE
    /\ UNCHANGED <<library, prefix, pass, stopPass, owned, quiet, jobs, reads>>

(***************************************************************************)
(* The dashboard, the daemon's shutdown, the recorder and time.            *)
(***************************************************************************)
Visited == reads + Cardinality(deleted) < MaxVisits

Retry(m) ==
    /\ link[m] # "none"
    /\ link[m] = "open" => Loadable(m) /\ Retryable(m)
    /\ stopPass' = TRUE /\ owned' = TRUE
    /\ IF job.running THEN UNCHANGED <<job, worker, quiet, jobs>> ELSE StartJob(m, FALSE)
    /\ UNCHANGED <<library, lease, pass, reads>>

Cancel ==
    /\ job.m # 0
    /\ stopPass' = TRUE /\ owned' = TRUE
    /\ job' = Checked(Cancelled(job))
    /\ UNCHANGED <<library, lease, worker, pass, quiet, jobs, reads>>

\* StartupRecovery is dropped: the pass ends and its own job with it
Shutdown ==
    /\ pass.at # "off" /\ ~stopPass
    /\ stopPass' = TRUE /\ owned' = TRUE
    /\ job' = IF job.auto THEN Cancelled(job) ELSE job
    /\ UNCHANGED <<library, lease, worker, pass, quiet, jobs, reads>>

\* read(): a job's own status needs no files, any other recording's does
Read(m) ==
    /\ Visited
    /\ job' = Checked(job)
    /\ IF (job.m = m /\ (job.running \/ job.phase # "Partial")) \/ ~Loadable(m)
       THEN UNCHANGED <<lease, reads>>
       ELSE lease' = [lease EXCEPT ![m] = "read"] /\ reads' = reads + 1
    /\ UNCHANGED <<library, worker, pass, stopPass, owned, quiet, jobs>>

ReadReturns(m) ==
    /\ lease[m] = "read"
    /\ lease' = [lease EXCEPT ![m] = "none"]
    /\ UNCHANGED <<library, job, worker, pass, stopPass, owned, quiet, jobs, reads>>

\* a recording ends: the lease goes first.  Its WAL is finalized, with the Stop's
\* own checkpoint or without it, or the capture dies
RecordingEnds(m) ==
    /\ wal[m] = "live" /\ lease[m] = "recorder"
    /\ \E w \in {"open", "finalized", "unproven"} : wal' = [wal EXCEPT ![m] = w]
    /\ lease' = [lease EXCEPT ![m] = "none"]
    /\ UNCHANGED <<link, deleted, pending, marked, projected, job, worker, pass,
                   stopPass, owned, quiet, jobs, reads>>

\* then the recorder persists the session, whose end it knows
RecordingPersists(m) ==
    /\ wal[m] \in {"finalized", "unproven"} /\ ~Final(m)
    /\ Finalize(m)
    /\ link' # link
    /\ UNCHANGED <<wal, deleted, pending, marked, projected, lease, job, worker, pass,
                   stopPass, owned, quiet, jobs, reads>>

\* the user deletes the meeting; its files may outlive it
Delete(m) ==
    /\ link[m] # "none" /\ Visited
    /\ link' = [link EXCEPT ![m] = "none"]
    /\ deleted' = deleted \cup {m}
    /\ UNCHANGED <<wal, pending, marked, projected, lease, job, worker, pass,
                   stopPass, owned, quiet, jobs, reads>>

Tick ==
    /\ job.running /\ job.age < ProgressLimit
    /\ job' = [job EXCEPT !.age = @ + 1]
    /\ quiet' = IF quiet < ProgressLimit THEN quiet + 1 ELSE quiet
    /\ UNCHANGED <<library, lease, worker, pass, stopPass, owned, jobs, reads>>

Pass ==
    \/ ImportProject \/ ImportEnds \/ ScanNext \/ PassStart \/ PassWatch
    \/ \E m \in Meetings : ImportPrepare(m)
Job ==
    \/ JobLoad \/ JobPolls \/ JobProjects \/ JobEnds
    \/ \E s \in Sources : JobSource(s) \/ JobBuilt(s) \/ JobDrains(s)
Native == NativeBuilt \/ NativeInfer \/ NativeCommit

Next ==
    \/ StartPending \/ Pass \/ Job \/ Native \/ Cancel \/ Shutdown \/ Tick
    \/ \E m \in Meetings : \/ Retry(m) \/ Read(m) \/ ReadReturns(m) \/ Delete(m)
                           \/ RecordingEnds(m) \/ RecordingPersists(m)

Spec == Init /\ [][Next]_vars
\* the pass and the job are threads that run when they can; a native call returns
FairSpec == Spec /\ WF_vars(Pass) /\ WF_vars(Job) /\ WF_vars(Native)

(***************************************************************************)
(* Properties.                                                             *)
(***************************************************************************)
\* Once the user has retried or cancelled anything, or the daemon is going down,
\* the startup pass starts no further job, whatever it had already read
\* (pending_pass and start_job re-read startup_stop under the slot's lock).
UserOwnsTheControls ==
    [][(owned /\ jobs' # jobs) => ~job'.auto]_vars

\* A cancelled or overdue job keeps its slot, and its capture lease, until the
\* native recognizer has really returned: none is ever left running behind a
\* job that reports it has ended, and so no second one can be started beside it.
NativeIsOwned ==
    /\ native # "none" => /\ job.running
                          /\ lease[job.m] = "job"
    /\ ~job.running => \A m \in Meetings : lease[m] # "job"

\* A deadline stops only a job that made no durable advance for the whole of its
\* limit: an advance nobody had looked at yet still counts (check() reads the
\* observed stream before it compares the clock).
DeadlineMeansStalled ==
    [][(job'.stop = 2 /\ job.stop = 0) =>
          quiet >= (IF job.phase = "Preparing" THEN PrepareLimit ELSE ProgressLimit)]_vars

\* A known end of recording is never forgotten, and a deleted recording is not
\* brought back by an import that had already prepared it, nor by the recorder's
\* own late save.
AliasOnlyGrows ==
    [][\A m \in Meetings :
          IF m \in deleted' THEN link'[m] = "none"
          ELSE link[m] = "final" => link'[m] = "final"]_vars

\* No job starts against the user's word, and none is stopped for a delay it did
\* not have.
JobsHaveCause == UserOwnsTheControls /\ DeadlineMeansStalled

\* Every job ends and frees the slot, cancelled, overdue or not.
JobsEnd == job.running ~> ~job.running
=============================================================================
