----------------------------- MODULE PostPass -----------------------------
(***************************************************************************)
(* Post-meeting cleanup of one meeting (fotwd/src/post_pass): the library's *)
(* job row with its window checkpoints, the daemon's one worker with its   *)
(* back-off, the run itself (windows, diarization, completion), the speech *)
(* models it loads beside a recording, the dashboard's cancel, retry and   *)
(* version switch, and the recording tail that waits before it summarizes. *)
(* Jobs of different meetings share only the worker, which runs them one   *)
(* after the other.                                                        *)
(*                                                                         *)
(* A window's words are known by the engine revision that heard them.      *)
(***************************************************************************)
EXTENDS CleanupMerge, Integers, FiniteSets

CONSTANTS
    Wait,          \* POST_PASS_WAIT_MS, in ticks
    Tries,         \* failures before the job fails: the back-off's length + 1
    MaxUpgrades,   \* bound: daemon restarts with other engine revisions
    PassCrashes,   \* bound: restarts in all
    MaxFaults,     \* bound: engine or file failures
    MaxClicks,     \* bound: cancels, retries and version switches
    MaxMeetings    \* bound: recordings started beside the cleanup

ASSUME PassBounds ==
    {Wait, Tries, MaxUpgrades, PassCrashes, MaxFaults, MaxClicks, MaxMeetings} \subseteq Nat

VARIABLES
    row,      \* the job's row and checkpoints
    primary,  \* the transcript shown: "live" | "cleaned" | "other"
    age,      \* ticks since the job was queued or retried, up to Wait + 1
    sharp,    \* it was queued or retried exactly on a second
    summarized, \* what this wait's enrichment read: "none" or a transcript
    w,        \* the worker: where it is, its memory, its stop flag
    att,      \* the controller's attempts: failures counted, and whether due
    halt,     \* shutdown() was called
    rev,      \* this daemon's engine revision
    models,   \* which models the helper holds, and which are the engine's own
    rec,      \* a recording beside it: "off" | "starting" | "on"
    budget    \* what is left of the bounds

jobRows == <<row, primary, age, sharp, summarized>>
passVars == <<jobRows, w, att, halt, rev, models, rec, budget>>

NoRow  == [st |-> "none", plan |-> 0, wins |-> {}, words |-> {}]
Asleep == [at |-> "idle", armed |-> FALSE, stop |-> FALSE, saved |-> {}, end |-> "none"]
Fresh  == [n |-> 0, due |-> TRUE]

\* a checkpoint: a window and the revision that heard it
Checkpoint == Windows \X (1..MaxUpgrades + 1)

PassTypeOK ==
    /\ row \in [st: {"none", "pending", "failed", "done"}, plan: 0..MaxUpgrades + 1,
                wins: SUBSET Checkpoint, words: SUBSET Checkpoint]
    /\ primary \in {"live", "cleaned", "other"}
    /\ age \in 0..Wait + 1 /\ sharp \in BOOLEAN
    /\ summarized \in {"none", "live", "cleaned", "other"}
    /\ att \in [n: 0..Tries, due: BOOLEAN]

PassInit ==
    /\ row = NoRow /\ primary = "live" /\ age = 0 /\ sharp = FALSE /\ summarized = "none"
    /\ w = Asleep /\ att = Fresh /\ halt = FALSE /\ rev = 1
    /\ models = [asr |-> FALSE, dia |-> FALSE, ownAsr |-> FALSE, ownDia |-> FALSE]
    /\ rec = "off"
    /\ budget = [crash |-> PassCrashes, fault |-> MaxFaults, click |-> MaxClicks,
                 meet |-> MaxMeetings]

Spend(b) == budget[b] > 0 /\ budget' = [budget EXCEPT ![b] = @ - 1]
Pending  == row.st = "pending"
Busy     == rec # "off"

(***************************************************************************)
(* The library's transactions (fotw-store/src/post_pass.rs).               *)
(***************************************************************************)
\* post_pass_fail, and a cancel: only a pending job fails, its checkpoints go
Fail(r) == [r EXCEPT !.st = IF @ = "pending" THEN "failed" ELSE @, !.wins = {}]

\* the cleaned version takes over only inside the wait, and if the live one is shown
InTime == age <= Wait

\* summaries and the push wait for a pending job younger than the wait, on a
\* clock that is cut to whole seconds
Held == Pending /\ (age < Wait \/ (age = Wait /\ ~sharp))

\* after_stop: the settings and the archived audio allow it, and there is no job
Queue ==
    /\ row.st = "none"
    /\ row' = [NoRow EXCEPT !.st = "pending", !.plan = rev]
    /\ age' = 0 /\ sharp' \in BOOLEAN /\ summarized' = "none"
    /\ UNCHANGED <<primary, w, att, halt, rev, models, rec, budget>>

\* retry(): a failed job is pending again, under the plan it was queued with
Retry ==
    /\ row.st = "failed" /\ Spend("click")
    /\ row' = [row EXCEPT !.st = "pending"]
    /\ age' = 0 /\ sharp' \in BOOLEAN /\ summarized' = "none"
    /\ att' = Fresh
    /\ UNCHANGED <<primary, w, halt, rev, models, rec>>

\* cancel(): the row fails first; then a run the controller knows of is flagged
Cancel ==
    /\ Pending /\ Spend("click")
    /\ row' = Fail(row)
    /\ IF w.armed THEN w' = [w EXCEPT !.stop = TRUE] /\ UNCHANGED att
                  ELSE att' = Fresh /\ UNCHANGED w
    /\ UNCHANGED <<primary, age, sharp, summarized, halt, rev, models, rec>>

\* show(): the person switches versions
Show ==
    /\ Spend("click")
    /\ \/ primary # "live" /\ primary' = "live"
       \/ row.words # {} /\ primary # "cleaned" /\ primary' = "cleaned"
       \/ row.words = {} /\ primary = "live" /\ primary' = "other"   \* a hand edit
    /\ UNCHANGED <<row, age, sharp, summarized, w, att, halt, rev, models, rec>>

\* the tail's wait ended, or the background queue took the meeting up
Enrich ==
    /\ row.st # "none" /\ ~Held /\ summarized = "none"
    /\ summarized' = primary
    /\ UNCHANGED <<row, primary, age, sharp, w, att, halt, rev, models, rec, budget>>

Tick ==
    /\ age <= Wait /\ Pending
    /\ age' = age + 1
    /\ UNCHANGED <<row, primary, sharp, summarized, w, att, halt, rev, models, rec, budget>>

(***************************************************************************)
(* The controller's worker.                                                *)
(***************************************************************************)
\* failed(): the next try after a wait, or the end of the job
Failed_NoRetry ==
    /\ att' = [att EXCEPT !.n = IF @ < Tries THEN @ + 1 ELSE @, !.due = FALSE]
    /\ UNCHANGED row

Failed ==
    IF att.n + 1 < Tries
    THEN att' = [n |-> att.n + 1, due |-> FALSE] /\ UNCHANGED row
    ELSE att' = Fresh /\ row' = Fail(row)

Elapse ==
    /\ ~att.due
    /\ att' = [att EXCEPT !.due = TRUE]
    /\ UNCHANGED <<jobRows, w, halt, rev, models, rec, budget>>

\* the queue is read, and the meeting taken from what was read
Take ==
    /\ w.at = "idle" /\ ~halt /\ Pending /\ att.due
    /\ w' = [Asleep EXCEPT !.at = "factory"]
    /\ UNCHANGED <<jobRows, att, halt, rev, models, rec, budget>>

\* the helper loads the recognizer, unless a recording already has
Factory ==
    /\ w.at = "factory"
    /\ \/ /\ models' = [models EXCEPT !.asr = TRUE, !.ownAsr = ~models.asr]
          /\ w' = [w EXCEPT !.at = "arm"]
          /\ UNCHANGED <<row, att, budget>>
       \/ /\ Spend("fault") /\ Failed
          /\ w' = Asleep /\ UNCHANGED models
    /\ UNCHANGED <<primary, age, sharp, summarized, halt, rev, rec>>

\* only now can a cancel or a shutdown find the run
Arm ==
    /\ w.at = "arm"
    /\ w' = [w EXCEPT !.at = "open", !.armed = TRUE, !.stop = halt]
    /\ UNCHANGED <<jobRows, att, halt, rev, models, rec, budget>>

(***************************************************************************)
(* The run (fotwd/src/post_pass/job.rs).  Whatever its end, the models it  *)
(* loaded are released, and a recording gets the recognizer back first.    *)
(***************************************************************************)
Released(m) == [m EXCEPT !.dia = @ /\ ~m.ownDia, !.ownDia = FALSE,
                         !.asr = @ /\ ~m.ownAsr, !.ownAsr = FALSE]
Restored(m) == IF Busy THEN [m EXCEPT !.asr = TRUE, !.ownAsr = FALSE] ELSE m

\* run_job is over: "done", "stopped" or "error"
RunEnds(result) ==
    /\ w' = [w EXCEPT !.at = "giveback", !.end = result]
    /\ UNCHANGED <<row, att, models>>

\* run()'s tail looks once whether a recording is running
GiveBack ==
    /\ w.at = "giveback"
    /\ models' = Restored(models)
    /\ w' = [w EXCEPT !.at = "release"]
    /\ UNCHANGED <<jobRows, att, halt, rev, rec, budget>>

\* the models go, and run_one draws its conclusion from the row
Release ==
    /\ w.at = "release"
    /\ models' = Released(models)
    /\ w' = Asleep
    /\ CASE w.end = "error" /\ Pending -> Failed
         [] w.end # "stopped" \/ ~Pending -> att' = Fresh /\ UNCHANGED row
         [] OTHER -> UNCHANGED <<att, row>>
    /\ UNCHANGED <<primary, age, sharp, summarized, halt, rev, rec, budget>>

SamePlan_Any == TRUE
\* the stored plan must be this build's
SamePlan == row.plan = rev

\* the row, its plan and the checkpoints are read at the start (in the code, each
\* track's when the run comes to it: a cancel, which empties them in between, also
\* flags the run, and it stops before it hears another window)
Open ==
    /\ w.at = "open"
    /\ IF SamePlan
       THEN /\ w' = [w EXCEPT !.at = "window", !.saved = row.wins]
            /\ UNCHANGED <<row, att, models>>
       ELSE RunEnds("error")
    /\ UNCHANGED <<primary, age, sharp, summarized, halt, rev, rec, budget>>

Heard   == {c[1] : c \in w.saved}
NextWin == CHOOSE i \in Windows \ Heard : \A j \in Windows \ Heard : i <= j

\* between windows the run yields to a recording and obeys its stop flag
Yields ==
    /\ w.at = "window" /\ Windows \ Heard # {} /\ ~Busy
    /\ IF w.stop THEN RunEnds("stopped")
       ELSE w' = [w EXCEPT !.at = "hear"] /\ UNCHANGED <<row, att, models>>
    /\ UNCHANGED <<primary, age, sharp, summarized, halt, rev, rec, budget>>

YieldStops ==
    /\ w.at \in {"window", "diarize"} /\ Busy /\ w.stop
    /\ Windows \ Heard # {} \/ w.at = "diarize"
    /\ RunEnds("stopped")
    /\ UNCHANGED <<primary, age, sharp, summarized, halt, rev, rec, budget>>

\* the window's words and the job's progress are checkpointed together, in a job
\* that is still pending; an engine failure or a lost job ends the run
Hear ==
    /\ w.at = "hear"
    /\ LET c == <<NextWin, rev>> IN
       \/ /\ Pending
          /\ row' = [row EXCEPT !.wins = @ \cup {c}]
          /\ w' = [w EXCEPT !.at = "window", !.saved = @ \cup {c}]
          /\ UNCHANGED <<att, models, budget>>
       \/ ~Pending /\ RunEnds("error") /\ UNCHANGED budget
       \/ Spend("fault") /\ RunEnds("error")
    /\ UNCHANGED <<primary, age, sharp, summarized, halt, rev, rec>>

\* the recognizer makes room for the diarizer; a recording that began gets it back
Diarize ==
    /\ w.at = "window" /\ Windows \ Heard = {} /\ ~Busy
    /\ IF w.stop THEN RunEnds("stopped")
       ELSE /\ w' = [w EXCEPT !.at = "unload"]
            /\ UNCHANGED <<row, att, models>>
    /\ UNCHANGED <<primary, age, sharp, summarized, halt, rev, rec, budget>>

\* a meeting without a system track has nobody to label
NoRemote ==
    /\ w.at = "window" /\ Windows \ Heard = {}
    /\ w' = [w EXCEPT !.at = "complete"]
    /\ UNCHANGED <<jobRows, att, halt, rev, models, rec, budget>>

Unload ==
    /\ w.at = "unload"
    /\ models' = [models EXCEPT !.asr = @ /\ ~models.ownAsr, !.ownAsr = FALSE]
    /\ w' = [w EXCEPT !.at = "restore"]
    /\ UNCHANGED <<jobRows, att, halt, rev, rec, budget>>

Restore ==
    /\ w.at = "restore"
    /\ \E loads \in BOOLEAN :      \* the diarizer is an addition: it may be missing
          models' = [Restored(models) EXCEPT !.dia = loads, !.ownDia = loads]
    /\ w' = [w EXCEPT !.at = "diarize"]
    /\ UNCHANGED <<jobRows, att, halt, rev, rec, budget>>

\* chunks of the system track, yielding like windows; a failed diarizer only
\* loses the labels
Diarized ==
    /\ w.at = "diarize" /\ ~Busy
    /\ IF w.stop THEN RunEnds("stopped")
       ELSE w' = [w EXCEPT !.at = "complete"] /\ UNCHANGED <<row, att, models>>
    /\ UNCHANGED <<primary, age, sharp, summarized, halt, rev, rec, budget>>

\* post_pass_complete: the new version, the promotion, the end of the job and of
\* its checkpoints in one transaction over a job that is still pending
Completed ==
    /\ row' = [row EXCEPT !.st = "done", !.wins = {}, !.words = w.saved]
    /\ primary' = IF primary = "live" /\ InTime THEN "cleaned" ELSE primary
    /\ w' = [w EXCEPT !.at = "giveback", !.end = "done"]
    /\ UNCHANGED <<att, models>>

Complete_Unasked ==
    /\ w.at = "complete"
    /\ Completed
    /\ UNCHANGED <<age, sharp, summarized, halt, rev, rec, budget>>

Complete ==
    /\ w.at = "complete"
    /\ IF Pending THEN Completed ELSE RunEnds("error") /\ UNCHANGED primary
    /\ UNCHANGED <<age, sharp, summarized, halt, rev, rec, budget>>

(***************************************************************************)
(* The daemon and the recorder beside it.                                  *)
(***************************************************************************)
Shutdown ==
    /\ ~halt /\ budget.crash > 0
    /\ halt' = TRUE
    /\ w' = IF w.armed THEN [w EXCEPT !.stop = TRUE] ELSE w
    /\ UNCHANGED <<jobRows, att, rev, models, rec, budget>>

\* the process ends, wherever the run is, and starts again, perhaps upgraded
Restart ==
    /\ Spend("crash")
    /\ \/ rev <= MaxUpgrades /\ rev' = rev + 1
       \/ UNCHANGED rev
    /\ w' = Asleep /\ att' = Fresh /\ halt' = FALSE /\ rec' = "off"
    /\ models' = [asr |-> FALSE, dia |-> FALSE, ownAsr |-> FALSE, ownDia |-> FALSE]
    /\ UNCHANGED jobRows

\* a recording takes its slot, and only then asks the helper for the recognizer
RecStarts ==
    /\ rec = "off" /\ Spend("meet")
    /\ rec' = "starting"
    /\ UNCHANGED <<jobRows, w, att, halt, rev, models>>
RecLoads ==
    /\ rec = "starting"
    /\ rec' = "on"
    /\ models' = [models EXCEPT !.asr = TRUE]
    /\ UNCHANGED <<jobRows, w, att, halt, rev, budget>>
RecEnds ==
    /\ rec = "on" /\ rec' = "off"
    /\ UNCHANGED <<jobRows, w, att, halt, rev, models, budget>>

Run == \/ Take \/ Factory \/ Arm \/ Open \/ Yields \/ YieldStops \/ Hear \/ Diarize
       \/ NoRemote \/ Unload \/ Restore \/ Diarized \/ Complete \/ GiveBack \/ Release
PassNext ==
    \/ Queue \/ Retry \/ Cancel \/ Show \/ Enrich \/ Tick \/ Elapse \/ Run
    \/ Shutdown \/ Restart \/ RecStarts \/ RecLoads \/ RecEnds

PassSpec == PassInit /\ [][PassNext]_passVars
\* the worker's task runs, its timers fire, a recording ends
PassFairSpec ==
    PassSpec /\ WF_passVars(Run) /\ WF_passVars(Elapse) /\ WF_passVars(RecLoads) /\ WF_passVars(RecEnds)

(***************************************************************************)
(* Properties.                                                             *)
(***************************************************************************)
\* Every window exactly once, in one engine revision's words.
VersionIsWhole == \E r \in 1..MaxUpgrades + 1 : row.words = Windows \X {r}

\* A cleaned version holds every window exactly once and one engine revision's
\* words only, however often the job was killed, cancelled, retried or resumed by
\* an upgraded daemon from the checkpoints of an earlier run; what is made of such
\* windows is every word that was spoken, once, in readable order (for words said
\* again no sooner than the merge's tolerance).
CleanedIsWhole ==
    /\ MergeIsExact /\ TurnsAreFaithful
    /\ [](row.words # {} => VersionIsWhole)

\* The cleaned version replaces the live one only while no summary was made from
\* that: late or overtaken, it is stored and offered.  The one exception is the last
\* instant of the wait of a job queued or retried exactly on a second, when the cut
\* clock (fotw-store/src/post_pass.rs:403) lets summaries go and the completion
\* (273) is still in time.
LateIsOffered ==
    [][(primary' = "cleaned" /\ row'.st # row.st) =>
         summarized = "none" \/ (sharp /\ age = Wait)]_passVars

\* A cancelled or failed job stays so until somebody retries it: a run that was
\* between two steps when the cancel came neither revives nor completes it.
CancelHolds ==
    [][(row.st = "failed" /\ row'.st # "failed") => row'.st = "pending" /\ w' = w]_passVars

\* What was settled while a run was under way, by a summary or by a person, is
\* not undone by the run.
SettledIsKept == LateIsOffered /\ CancelHolds

\* A queued job ends, whatever fails, unless the daemon is going down.
JobSettles == Pending ~> (~Pending \/ halt)
===========================================================================
