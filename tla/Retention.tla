----------------------------- MODULE Retention -----------------------------
(***************************************************************************)
(* The retention policy: which audio a sweep removes (plan_sweep and        *)
(* MeetingAudio in fotw-pipeline/src/retention.rs), when a sweep runs and   *)
(* what it writes (Schedule, inventory and sweep in fotwd/src/retention.rs, *)
(* spawn_sweeper and the `fotwd retention' command), against a library in   *)
(* which meetings are recorded, transcribed late or never, and given        *)
(* policies of their own, under a wall clock that may be set back.          *)
(*                                                                          *)
(* A sweep reads the library once and then works from what it read: it      *)
(* holds no lock and looks at nothing again, while the library goes on, the *)
(* user changes policies, and the daemon's sweep and the command's overlap. *)
(*                                                                          *)
(* A day is one unit of time.  A meeting's audio is one file, and goes in   *)
(* one step with its row: an unlink that fails, and a sweep that ends       *)
(* between the unlink and the row, are SessionArchive's.  purge_after_ms,   *)
(* the date the library shows, is rewritten by every sweep and read by no   *)
(* decision; it is Deadline at the sweep's look, and a dry run, which       *)
(* writes nothing else, is no step here.                                    *)
(***************************************************************************)
EXTENDS Integers, FiniteSetsExt

CONSTANTS
  Meetings,     \* ids: positive integers, in the order the store sorts them
  Size,         \* Size[m]: bytes of m's audio; 0 when nothing could tell
  Policies,     \* retention policies users choose from
  Budgets,      \* byte budgets users choose from
  DefaultBudget,\* RetentionSettings::budget_bytes until one is chosen
  DefaultDays,  \* RetentionSettings::default_days
  Interval,     \* the sweep interval
  MaxNow,       \* bound on the clock
  MaxBack,      \* bound on how often the clock is set back
  MaxEdits,     \* bound on changes of a policy or of the budget
  MaxU64,       \* u64::MAX, where saturating arithmetic stops
  MaxI64        \* i64::MAX, the largest deadline the store can hold

None == -1
Runs == {"daemon", "command"}   \* who sweeps: the daemon's thread, the command
Default == [kind |-> "default", days |-> None]

ASSUME ConstantsAssumption ==
  /\ Meetings \subseteq Nat \ {0} /\ IsFiniteSet(Meetings)
  /\ Size \in [Meetings -> Nat] /\ Budgets \subseteq Nat /\ DefaultBudget \in Budgets
  /\ Policies \subseteq [kind : {"default", "forever", "until_transcribed", "days"},
                         days : Nat \cup {None}]
  /\ DefaultDays \in Nat /\ Interval \in Nat /\ MaxNow \in Nat
  /\ MaxBack \in Nat /\ MaxEdits \in Nat
  /\ MaxI64 \in Nat /\ MaxU64 \in Nat /\ MaxNow < MaxI64 /\ MaxI64 < MaxU64

VARIABLES
  now,          \* the wall clock
  backs, edits, \* how often it was set back, and a setting changed
  state,        \* meetings.state: "none" before the recording
  started,      \* meetings.started_at_ms
  readyAt,      \* creation of the first transcript with text in it
  policy,       \* meetings.retain_audio, retain_audio_days
  audio,        \* the recordings row: "none", "complete" or "deleted"
  budget,       \* the budget setting
  capturing,    \* the meeting being recorded
  lastRun,      \* Schedule::last_run_ms
  run           \* run[s]: what the sweep of s has read and has left to do

clock == <<now, backs, edits>>
meetingRows == <<state, started, readyAt, policy>>
sweepVars == <<clock, meetingRows, audio, budget, capturing, lastRun, run>>

\* Between sweeps.  `saved' is no variable of the code: the meetings given a
\* policy since the sweep read the library.
Idle == [evictions |-> {}, saved |-> {}]

SweepInit ==
  /\ now = 0 /\ backs = 0 /\ edits = 0
  /\ state = [m \in Meetings |-> "none"] /\ started = [m \in Meetings |-> 0]
  /\ readyAt = [m \in Meetings |-> None]
  /\ policy = [m \in Meetings |-> Default]
  /\ audio = [m \in Meetings |-> "none"]
  /\ budget = DefaultBudget /\ capturing = None /\ lastRun = None
  /\ run = [s \in Runs |-> Idle]

-----------------------------------------------------------------------------
(* MeetingAudio. *)

Least(a, b) == IF a < b THEN a ELSE b
SatAdd(a, b) == Least(a + b, MaxU64)
SatSub(a, b) == IF a < b THEN 0 ELSE a - b

\* RetentionPolicy::from_columns: a `days' row without a count is the default.
FromColumns(p) == IF p.kind = "days" /\ p.days = None
                  THEN Default ELSE p

IsForever(m) == FromColumns(policy[m]).kind = "forever"

\* Mutant: a finished meeting is taken for a transcribed one.
IsTranscribed_ByState(m) == state[m] = "ready"

IsTranscribed(m) == state[m] = "ready" /\ readyAt[m] # None

\* What inventory finds of a meeting.
HasPath(m) == audio[m] = "complete"
AudioBytes(m) == IF HasPath(m) THEN Size[m] ELSE 0

IsEvictable(m) == ~IsForever(m) /\ IsTranscribed(m) /\ AudioBytes(m) > 0

\* expires_at_ms.
ExpiresAt(m) ==
  LET p == FromColumns(policy[m]) IN
  IF ~IsTranscribed(m) \/ p.kind = "forever" THEN None
  ELSE SatAdd(readyAt[m], CASE p.kind = "default"           -> DefaultDays
                            [] p.kind = "until_transcribed" -> 0
                            [] p.kind = "days"              -> p.days)

\* The deadline a sweep writes, if the column can hold it.
Deadline(m) == IF ExpiresAt(m) > MaxI64 THEN None ELSE ExpiresAt(m)

-----------------------------------------------------------------------------
(* plan_sweep. *)

Bytes(S) == MapThenSumSet(AudioBytes, S)

\* Pass one: every window that has elapsed, whatever the budget.
Expired == {m \in Meetings : /\ AudioBytes(m) > 0 \/ HasPath(m)
                             /\ ExpiresAt(m) # None /\ ExpiresAt(m) <= now}

Older(m, n) == started[m] < started[n] \/ (started[m] = started[n] /\ m < n)

Candidates == {m \in Meetings \ Expired : IsEvictable(m)}

\* Mutant: candidates are taken by id, which is not the order of their starts.
Oldest_ById(S) == CHOOSE m \in S : \A n \in S : m <= n

\* Pass two takes the sorted candidates from the front ...
Oldest(S) == CHOOSE m \in S : \A n \in S \ {m} : Older(m, n)

\* ... and evicts while what is left exceeds the budget.
EvictNext(acc) ==
  LET m == Oldest(Candidates \ acc.over) IN
  IF acc.left <= budget THEN acc
  ELSE [left |-> acc.left - AudioBytes(m), over |-> acc.over \cup {m}]

BudgetPass ==
  LET turns == Cardinality(Candidates)
      pass[i \in 0 .. turns] ==
        IF i = 0 THEN [left |-> Bytes(Meetings) - Bytes(Expired), over |-> {}]
        ELSE EvictNext(pass[i - 1])
  IN  pass[turns]

\* What the warnings add up to: survivors the sweep may not touch.
Held(S) == {m \in S : IsForever(m) \/ ~IsTranscribed(m)}

SweepPlan ==
  LET pass == BudgetPass  evicted == Expired \cup pass.over IN
  [evicted |-> evicted, after |-> pass.left,
   held |-> IF pass.left > budget THEN Bytes(Held(Meetings \ evicted)) ELSE 0]

-----------------------------------------------------------------------------
(* The library. *)

\* A session directory without an end; the library has no row for it yet.
StartRecording(m) ==
  /\ capturing = None /\ state[m] = "none"
  /\ capturing' = m /\ state' = [state EXCEPT ![m] = "recording"]
  /\ started' = [started EXCEPT ![m] = now]
  /\ UNCHANGED <<clock, readyAt, policy, audio, budget, lastRun, run>>

\* The meeting is persisted, `ready' with or without a transcript, and its
\* audio promoted.
FinishRecording(m) ==
  /\ capturing = m /\ capturing' = None
  /\ state' = [state EXCEPT ![m] = "ready"] /\ audio' = [audio EXCEPT ![m] = "complete"]
  /\ \/ readyAt' = readyAt
     \/ readyAt' = [readyAt EXCEPT ![m] = now]
  /\ UNCHANGED <<clock, started, policy, budget, lastRun, run>>

\* Saved speech is recovered later.
Transcribe(m) ==
  /\ state[m] = "ready" /\ readyAt[m] = None
  /\ readyAt' = [readyAt EXCEPT ![m] = now]
  /\ UNCHANGED <<clock, state, started, policy, audio, budget, capturing, lastRun, run>>

SetRetainAudio(m, p) ==
  /\ edits < MaxEdits /\ edits' = edits + 1 /\ state[m] = "ready" /\ p # policy[m]
  /\ policy' = [policy EXCEPT ![m] = p]
  /\ run' = [s \in Runs |->
       IF run[s] = Idle THEN run[s] ELSE [run[s] EXCEPT !.saved = @ \cup {m}]]
  /\ UNCHANGED <<now, backs, state, started, readyAt, audio, budget, capturing, lastRun>>

SetBudget(b) ==
  /\ edits < MaxEdits /\ edits' = edits + 1 /\ b # budget
  /\ budget' = b
  /\ UNCHANGED <<now, backs, meetingRows, audio, capturing, lastRun, run>>

Tick == /\ now < MaxNow /\ now' = now + 1
        /\ UNCHANGED <<backs, edits, meetingRows, audio, budget, capturing, lastRun, run>>

\* The wall clock is set back.
StepBack == /\ backs < MaxBack /\ now > 0 /\ backs' = backs + 1 /\ now' = now - 1
            /\ UNCHANGED <<edits, meetingRows, audio, budget, capturing, lastRun, run>>

-----------------------------------------------------------------------------
(* Sweeping. *)

\* settings, inventory and plan_sweep.  The settings are read a moment before
\* the rows; only this reads the budget, so one saved in between is one saved
\* after the look.
Look(s) == run' = [run EXCEPT ![s] = [evictions |-> SweepPlan.evicted, saved |-> {}]]

\* SweepPlan::apply and mark_audio_deleted, meeting by meeting (the code unlinks the
\* files of the whole plan before it marks the first row).  A file already
\* gone is no error; only a row that is still complete is marked.
RemoveAudio(s, m) ==
  /\ m \in run[s].evictions
  /\ audio' = IF HasPath(m) THEN [audio EXCEPT ![m] = "deleted"] ELSE audio
  /\ run' = [run EXCEPT ![s] =
       IF run[s].evictions = {m} THEN Idle ELSE [run[s] EXCEPT !.evictions = @ \ {m}]]
  /\ UNCHANGED <<clock, meetingRows, budget, capturing, lastRun>>

\* Schedule::poll, when the sweeper is not in a sweep.
Due == lastRun = None \/ SatSub(now, lastRun) >= Interval

\* Mutant: a recording that holds a due sweep uses up its turn.
Poll_ConsumesTurn ==
  /\ run["daemon"] = Idle /\ Due /\ lastRun' = now
  /\ IF capturing # None THEN UNCHANGED run ELSE Look("daemon")
  /\ UNCHANGED <<clock, meetingRows, audio, budget, capturing>>

\* One turn of the sweeper's loop that runs (Tick::Run).  A recording vetoes
\* it without using up the turn; a turn that is not due changes nothing ...
Turn == run["daemon"] = Idle /\ capturing = None /\ Due /\ lastRun' = now

\* ... and the sweep it begins.
Poll ==
  /\ Turn /\ Look("daemon")
  /\ UNCHANGED <<clock, meetingRows, audio, budget, capturing>>

\* `fotwd retention --apply', in another process, when nothing is recorded.
RetentionCommand ==
  /\ run["command"] = Idle /\ capturing = None /\ Look("command")
  /\ UNCHANGED <<clock, meetingRows, audio, budget, capturing, lastRun>>

SweepNext ==
  \/ Poll \/ RetentionCommand \/ Tick \/ StepBack
  \/ \E s \in Runs, m \in Meetings : RemoveAudio(s, m)
  \/ \E m \in Meetings : StartRecording(m) \/ FinishRecording(m) \/ Transcribe(m)
  \/ \E m \in Meetings, p \in Policies : SetRetainAudio(m, p)
  \/ \E b \in Budgets : SetBudget(b)

SweepSpec == SweepInit /\ [][SweepNext]_sweepVars

\* The sweeper's loop never ends and finishes the sweep it is in, time passes,
\* and a recording stops at its limit.  Nobody has to change a setting,
\* transcribe or run the command.
SweepFairSpec ==
  /\ SweepSpec /\ WF_lastRun(Turn) /\ WF_sweepVars(Tick)
  /\ WF_sweepVars(\E m \in Meetings : RemoveAudio("daemon", m))
  /\ WF_sweepVars(\E m \in Meetings : FinishRecording(m))

-----------------------------------------------------------------------------
(* Properties. *)

\* Every variable keeps its type; what is left is never negative.
SweepTypeOK ==
  /\ now \in 0 .. MaxNow /\ backs \in 0 .. MaxBack
  /\ edits \in 0 .. MaxEdits
  /\ state \in [Meetings -> {"none", "recording", "ready"}]
  /\ started \in [Meetings -> 0 .. MaxNow]
  /\ readyAt \in [Meetings -> 0 .. MaxNow \cup {None}]
  /\ policy \in [Meetings -> Policies \cup {Default}]
  /\ audio \in [Meetings -> {"none", "complete", "deleted"}]
  /\ budget \in Budgets /\ capturing \in Meetings \cup {None}
  /\ lastRun \in 0 .. MaxNow \cup {None}
  /\ run \in [Runs -> [evictions : SUBSET Meetings, saved : SUBSET Meetings]]

\* The loop over sorted candidates computes this: a candidate goes exactly when
\* evicting every older candidate would still leave the library over budget
\* (plan_sweep's second pass: oldest first, and no more than it takes).
BudgetPassIsMinimal ==
  BudgetPass.over =
    {m \in Candidates :
       Bytes(Meetings \ Expired) - Bytes({n \in Candidates : Older(n, m)}) > budget}

\* A sweep at any moment leaves the library within budget, or its warnings
\* account for every byte left: all of it is `forever' or not transcribed.
WithinBudgetOrExplained ==
  LET plan == SweepPlan IN plan.after <= budget \/ plan.held = plan.after

\* A sweep at any moment evicts all audio whose deadline, as it writes it into
\* purge_after_ms, has passed, and the deadline fits its column: the date the
\* library shows and the eviction a sweep makes come from one rule.
DeadlinesAreKept ==
  LET gone == SweepPlan.evicted IN
  \A m \in Meetings :
    /\ Deadline(m) \in 0 .. MaxI64 \cup {None}
    /\ HasPath(m) /\ Deadline(m) # None /\ Deadline(m) <= now => m \in gone

\* At every moment the plan is the oldest-first minimum, accounts for what it
\* leaves and keeps its deadlines (plan_sweep, sweep).
PlanIsRight ==
  SweepTypeOK /\ BudgetPassIsMinimal /\ WithinBudgetOrExplained /\ DeadlinesAreKept

\* No sweep removes the only copy of a meeting: the meeting has a transcript
\* with text when its audio goes, however late that came and whatever budget,
\* clock and another sweep did.  And it is not `forever' when its audio goes,
\* unless its policy was saved while this very sweep was under way: sweep does
\* not look again before it unlinks.
SweepsKeepTheirWord ==
  [][\A m \in Meetings : audio[m] = "complete" /\ audio'[m] = "deleted" =>
       \E s \in Runs : /\ m \in run[s].evictions /\ run'[s] # run[s]
                       /\ readyAt[m] # None
                       /\ policy[m].kind = "forever" => m \in run[s].saved]_sweepVars

\* Audio whose window has elapsed goes, unless its policy changes or the clock
\* is set back behind the window: recordings only postpone the sweep.  (The
\* model's clock must leave room for one more interval.)
ExpiredAudioGoes ==
  \A m \in Meetings :
    (m \in Expired /\ now + Interval + MaxBack <= MaxNow) ~> m \notin Expired
=============================================================================
