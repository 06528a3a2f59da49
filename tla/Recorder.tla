------------------------------ MODULE Recorder ------------------------------
(***************************************************************************)
(* The recording lifecycle of DaemonRecorder (fotwd/src/recording.rs), with *)
(* the session task it spawns (fotwd/src/session.rs, run_supervised), the   *)
(* pump thread that session owns, and the work leases of                    *)
(* recorder_lifecycle.rs.                                                   *)
(*                                                                          *)
(* An attempt is one accepted Start: the identity ReadySignal::same_session *)
(* compares.  Each attempt has three actors, interleaved freely:            *)
(*   caller   the blocking thread inside start_admitted;                    *)
(*   task     the async spawn_session / run_supervised task;                *)
(*   pump     the thread that owns the WAL and the taps.                    *)
(* Stop arrives from the dashboard, from a native control holding an        *)
(* earlier observation, from a cancelled native ticket, and from shutdown.  *)
(*                                                                          *)
(* Abstracted: audio contents, the transcript, messages and every duration. *)
(* A deadline is a step that may happen at any moment; a native call that   *)
(* may never return (HAL, model preparation, inference) has no fairness.    *)
(***************************************************************************)
EXTENDS Naturals, FiniteSets

CONSTANTS Attempts,   \* Start attempts, by identity
          None,       \* no attempt
          MaxTime     \* bound on the wall clock `now'

ASSUME AttemptsAssumption == IsFiniteSet(Attempts) /\ None \notin Attempts
ASSUME MaxTimeAssumption  == MaxTime \in Nat

VARIABLES
  slot,         \* DaemonRecorder::live, the attempt that holds the device slot
  stopping,     \* the attempt whose stop_live holds the slot lock, having read not-ready
  closing,      \* Lifecycle::closing
  outstanding,  \* WorkState::outstanding
  saveFailed,   \* WorkState::save_failed
  caller,       \* where each attempt's start_admitted is
  task,         \* where each attempt's spawn_session is
  outcome,      \* what run_supervised returned
  stop,         \* StopSignal::requested
  asked,        \* ghost: somebody asked for this very attempt to stop
  rdy,          \* ReadyInner::ready, with session_id (set together by signal_capture)
  failed,       \* ReadyInner::failure is set
  setup,        \* ReadyInner::capture_setup
  promised,     \* ghost: a Stop was answered "preparation cancelled"
  device,       \* the attempt's taps
  pump,         \* the pump thread
  native,       \* a transcription worker still owns native state
  watcher,      \* the task that waits for that worker and then frees the slot
  audited,      \* SessionStart is in the audit log
  saved,        \* the meeting is in the library
  now,          \* wall clock
  startedAt,    \* ReadyInner::capture_started_at_ms
  stoppedAt,    \* Live::stopped_at_ms
  endedAt,      \* ReadyInner::capture_ended_at_ms
  target        \* the StopTarget the native shell last observed

shared   == <<slot, stopping, closing>>
work     == <<outstanding, saveFailed>>
control  == <<stop, asked, rdy, failed, setup, promised>>
capture  == <<device, pump, native>>
clock    == <<now, startedAt, stoppedAt, endedAt>>
vars == <<shared, work, caller, task, outcome, control, capture, watcher,
          audited, saved, clock, target>>

NoTime == MaxTime + 1

CallerStates == {"idle", "audit", "render", "resolve", "dispatch",
                 "clearing", "releasing", "waiting", "expired",
                 "started", "refused"}
TaskStates   == {"none", "spawned", "preparing", "admitted", "openMic",
                 "openSystem", "createWal", "openLegs", "signal", "live",
                 "latching", "joining", "ended", "failing", "settling", "done"}
PumpStates   == {"none", "running", "latched", "draining", "finalized", "failed"}

\* PendingStart is armed: the caller still owns the reservation.
Reserving(a) == caller[a] \in {"audit", "render", "resolve", "dispatch", "clearing"}
\* The session task has not yet reached clear_session_slot.
Capturing(a) == task[a] \in {"spawned", "preparing", "admitted", "openMic",
                             "openSystem", "createWal", "openLegs", "signal",
                             "live", "latching", "joining", "ended"}
\* A WorkLease for the attempt exists somewhere.
HoldsWork(a) == Reserving(a) \/ caller[a] = "releasing"
                \/ Capturing(a) \/ task[a] \in {"failing", "settling"}

Init ==
  /\ slot = None /\ stopping = None /\ closing = FALSE
  /\ outstanding = 0 /\ saveFailed = FALSE
  /\ caller = [a \in Attempts |-> "idle"]
  /\ task = [a \in Attempts |-> "none"]
  /\ outcome = [a \in Attempts |-> "none"]
  /\ stop = [a \in Attempts |-> FALSE]
  /\ asked = [a \in Attempts |-> FALSE]
  /\ rdy = [a \in Attempts |-> FALSE]
  /\ failed = [a \in Attempts |-> FALSE]
  /\ setup = [a \in Attempts |-> FALSE]
  /\ promised = [a \in Attempts |-> FALSE]
  /\ device = [a \in Attempts |-> "closed"]
  /\ pump = [a \in Attempts |-> "none"]
  /\ native = [a \in Attempts |-> FALSE]
  /\ watcher = [a \in Attempts |-> FALSE]
  /\ audited = [a \in Attempts |-> FALSE]
  /\ saved = [a \in Attempts |-> FALSE]
  /\ now = 0
  /\ startedAt = [a \in Attempts |-> NoTime]
  /\ stoppedAt = [a \in Attempts |-> NoTime]
  /\ endedAt = [a \in Attempts |-> NoTime]
  /\ target = None

-----------------------------------------------------------------------------
(* The caller: start_admitted.                                              *)

\* StopSignal::stop on one attempt.
Stopped(a) == stop' = [stop EXCEPT ![a] = TRUE]

\* clear_session_slot: the slot is freed only by the attempt that holds it.
ClearSlot(a) ==
  /\ stopping = None
  /\ slot' = IF slot = a THEN None ELSE slot
  /\ UNCHANGED <<stopping, closing>>

\* WorkLease::drop, with save_required as the argument.
DropWork(required) ==
  /\ saveFailed' = (saveFailed \/ required)
  /\ outstanding' = outstanding - 1

\* Admission under the slot lock: refused while closing, when the ticket was
\* already cancelled, and while another attempt holds the slot.
StartRefused(a) ==
  /\ caller[a] = "idle"
  /\ stopping = None
  /\ closing \/ stop[a] \/ slot # None
  /\ caller' = [caller EXCEPT ![a] = "refused"]
  /\ UNCHANGED <<shared, work, task, outcome, control, capture, watcher,
                 audited, saved, clock, target>>

\* Mutant: admission does not look at closing.
StartAdmittedLate(a) ==
  /\ caller[a] = "idle"
  /\ stopping = None
  /\ ~stop[a] /\ slot = None
  /\ outstanding' = outstanding + 1
  /\ slot' = a
  /\ caller' = [caller EXCEPT ![a] = "audit"]
  /\ UNCHANGED <<stopping, closing, saveFailed, task, outcome, control, capture,
                 watcher, audited, saved, clock, target>>

StartAdmitted(a) ==
  /\ caller[a] = "idle"
  /\ stopping = None
  /\ ~closing /\ ~stop[a] /\ slot = None
  /\ outstanding' = outstanding + 1
  /\ slot' = a
  /\ caller' = [caller EXCEPT ![a] = "audit"]
  /\ UNCHANGED <<stopping, closing, saveFailed, task, outcome, control, capture,
                 watcher, audited, saved, clock, target>>

\* Any early return before dispatch runs PendingStart::drop: the stop and the
\* failure are published first, the slot and the lease go afterwards.
AbandonStart(a) ==
  /\ caller' = [caller EXCEPT ![a] = "clearing"]
  /\ Stopped(a)
  /\ asked' = [asked EXCEPT ![a] = TRUE]
  /\ failed' = [failed EXCEPT ![a] = TRUE]
  /\ UNCHANGED <<shared, work, task, outcome, rdy, setup, promised, capture,
                 watcher, audited, saved, clock, target>>

CallerAdvance(a, next) ==
  /\ caller' = [caller EXCEPT ![a] = next]
  /\ UNCHANGED <<shared, work, task, outcome, control, capture, watcher,
                 saved, clock, target>>

\* The audit record, written before any tap can open (CON-01).
Audit(a) ==
  /\ caller[a] = "audit"
  /\ \/ audited' = [audited EXCEPT ![a] = TRUE] /\ CallerAdvance(a, "render")
     \/ AbandonStart(a)

\* RenderGate::wait: the indicator was drawn for this attempt, or the deadline
\* passed, the surface closed or the attempt was cancelled.
Render(a) ==
  /\ caller[a] = "render"
  /\ \/ ~stop[a] /\ CallerAdvance(a, "resolve") /\ UNCHANGED audited
     \/ AbandonStart(a)

\* Application scope; cancelled before or after it, or it failed.
Resolve(a) ==
  /\ caller[a] = "resolve"
  /\ \/ ~stop[a] /\ CallerAdvance(a, "dispatch") /\ UNCHANGED audited
     \/ AbandonStart(a)

\* The last stop check, then the session task takes over the work lease.
Dispatch(a) ==
  /\ caller[a] = "dispatch"
  /\ \/ /\ ~stop[a]
        /\ caller' = [caller EXCEPT ![a] = "waiting"]
        /\ task' = [task EXCEPT ![a] = "spawned"]
        /\ UNCHANGED <<shared, work, outcome, control, capture, watcher,
                       audited, saved, clock, target>>
     \/ stop[a] /\ AbandonStart(a)

PendingClear(a) ==
  /\ caller[a] = "clearing"
  /\ ClearSlot(a)
  /\ caller' = [caller EXCEPT ![a] = "releasing"]
  /\ UNCHANGED <<work, task, outcome, control, capture, watcher, audited,
                 saved, clock, target>>

PendingRelease(a) ==
  /\ caller[a] = "releasing"
  /\ DropWork(FALSE)
  /\ caller' = [caller EXCEPT ![a] = "refused"]
  /\ UNCHANGED <<shared, task, outcome, control, capture, watcher, audited,
                 saved, clock, target>>

\* ReadySignal::wait_timeout: ready wins over a failure that came with it.
WaitReady(a) ==
  /\ caller[a] = "waiting" /\ rdy[a]
  /\ CallerAdvance(a, "started") /\ UNCHANGED audited

WaitFailed(a) ==
  /\ caller[a] = "waiting" /\ ~rdy[a] /\ failed[a]
  /\ CallerAdvance(a, "refused") /\ UNCHANGED audited

WaitExpired(a) ==
  /\ caller[a] = "waiting" /\ ~rdy[a] /\ ~failed[a]
  /\ CallerAdvance(a, "expired") /\ UNCHANGED audited

\* After the deadline: a failure that landed meanwhile is reported; otherwise
\* the attempt is stopped and failed.  The slot stays with its native owner.
ReportExpiry(a) ==
  /\ caller[a] = "expired"
  /\ caller' = [caller EXCEPT ![a] = "refused"]
  /\ \/ failed[a] /\ UNCHANGED <<stop, asked, failed>>
     \/ /\ ~failed[a]
        /\ Stopped(a)
        /\ asked' = [asked EXCEPT ![a] = TRUE]
        /\ failed' = [failed EXCEPT ![a] = TRUE]
  /\ UNCHANGED <<shared, work, task, outcome, rdy, setup, promised, capture,
                 watcher, audited, saved, clock, target>>

CallerStep(a) ==
  \/ StartRefused(a) \/ StartAdmitted(a) \/ Audit(a) \/ Render(a)
  \/ Resolve(a) \/ Dispatch(a) \/ PendingClear(a) \/ PendingRelease(a)
  \/ WaitReady(a) \/ WaitFailed(a) \/ WaitExpired(a) \/ ReportExpiry(a)

-----------------------------------------------------------------------------
(* The session task: spawn_session and run_supervised.                      *)

TaskAdvance(a, next) == task' = [task EXCEPT ![a] = next]

\* An error return of the capture future; the supervisors it drops close
\* their taps.
CaptureFails(a) ==
  /\ TaskAdvance(a, "ended")
  /\ outcome' = [outcome EXCEPT ![a] = "err"]
  /\ device' = [device EXCEPT ![a] = "closed"]
  /\ UNCHANGED <<shared, work, caller, control, pump, native, watcher,
                 audited, saved, clock, target>>

\* Early stop check and the capture work lease.
BeginTask(a) ==
  /\ task[a] = "spawned"
  /\ \/ /\ ~stop[a]
        /\ TaskAdvance(a, "preparing")
        /\ UNCHANGED <<shared, work, caller, outcome, control, capture, watcher,
                       audited, saved, clock, target>>
     \/ CaptureFails(a)

\* Mutant: capture setup begins whatever was promised to a Stop.
BeginCaptureSetupUnchecked(a) == setup' = [setup EXCEPT ![a] = TRUE]

\* ReadySignal::begin_capture_setup: admission serialised with cancellation.
BeginCaptureSetup(a) ==
  /\ ~stop[a] /\ ~failed[a]
  /\ setup' = [setup EXCEPT ![a] = TRUE]

\* Transcription::prepare returns, then capture setup is admitted or refused.
Prepare(a) ==
  /\ task[a] = "preparing"
  /\ \/ /\ BeginCaptureSetup(a)
        /\ TaskAdvance(a, "admitted")
        /\ UNCHANGED <<shared, work, caller, outcome, stop, asked, rdy, failed,
                       promised, capture, watcher, audited, saved, clock, target>>
     \/ CaptureFails(a)

\* run_supervised checks again before its first native call.
Admit(a) ==
  /\ task[a] = "admitted"
  /\ \/ /\ BeginCaptureSetup(a)
        /\ TaskAdvance(a, "openMic")
        /\ device' = [device EXCEPT ![a] = "opening"]
        /\ UNCHANGED <<shared, work, caller, outcome, stop, asked, rdy, failed,
                       promised, pump, native, watcher, audited, saved,
                       clock, target>>
     \/ CaptureFails(a)

\* The microphone first.  Its failure is not an error: the leg recovers later.
OpenMic(a) ==
  /\ task[a] = "openMic"
  /\ TaskAdvance(a, "openSystem")
  /\ device' = [device EXCEPT ![a] = "open"]
  /\ UNCHANGED <<shared, work, caller, outcome, control, pump, native, watcher, audited, saved, clock, target>>

OpenSystem(a) ==
  /\ task[a] = "openSystem"
  /\ \/ /\ TaskAdvance(a, "createWal")
        /\ UNCHANGED <<shared, work, caller, outcome, control, capture, watcher,
                       audited, saved, clock, target>>
     \/ CaptureFails(a)

\* The manifest stamps the session's start; the readers bound to the legs may
\* own a native worker from here on.
CreateWal(a) ==
  /\ task[a] = "createWal"
  /\ \/ /\ TaskAdvance(a, "openLegs")
        /\ startedAt' = [startedAt EXCEPT ![a] = now]
        /\ \E running \in BOOLEAN : native' = [native EXCEPT ![a] = running]
        /\ UNCHANGED <<shared, work, caller, outcome, control, device, pump,
                       watcher, audited, saved, now, stoppedAt, endedAt,
                       target>>
     \/ CaptureFails(a)

\* The pump thread takes the WAL and both supervisors, or a converter could
\* not be built for a leg.
SpawnPump(a) ==
  /\ task[a] = "openLegs"
  /\ \/ /\ TaskAdvance(a, "signal")
        /\ pump' = [pump EXCEPT ![a] = "running"]
        /\ UNCHANGED <<shared, work, caller, outcome, control, device, native,
                       watcher, audited, saved, clock, target>>
     \/ CaptureFails(a)

\* ReadySignal::signal_capture publishes even when a Stop or the deadline came
\* first, because the audio exists.
SignalCapture(a) ==
  /\ task[a] = "signal"
  /\ TaskAdvance(a, "live")
  /\ rdy' = [rdy EXCEPT ![a] = TRUE]
  /\ UNCHANGED <<shared, work, caller, outcome, stop, asked, failed, setup,
                 promised, capture, watcher, audited, saved, clock, target>>

\* OnceLock::set: the first end wins.
Freeze(a, t) ==
  endedAt' = [endedAt EXCEPT ![a] = IF @ = NoTime THEN t ELSE @]

\* Mutant: no session time limit.
EndCaptureOnStopOnly(a) ==
  /\ task[a] = "live" /\ stop[a]
  /\ TaskAdvance(a, "latching")
  /\ Freeze(a, now)
  /\ UNCHANGED <<shared, work, caller, outcome, control, capture, watcher,
                 audited, saved, now, startedAt, stoppedAt, target>>

\* The select in run_supervised: the stop signal, or the session time limit.
EndCapture(a) ==
  /\ task[a] = "live"
  /\ TaskAdvance(a, "latching")
  /\ Freeze(a, now)
  /\ UNCHANGED <<shared, work, caller, outcome, control, capture, watcher,
                 audited, saved, now, startedAt, stoppedAt, target>>

LatchPump(a) ==
  /\ task[a] = "latching"
  /\ TaskAdvance(a, "joining")
  /\ pump' = [pump EXCEPT ![a] = IF @ = "running" THEN "latched" ELSE @]
  /\ UNCHANGED <<shared, work, caller, outcome, control, device, native, watcher, audited, saved, clock, target>>

\* The pump's counts, its error, or the join deadline.  A pump that is
\* abandoned keeps whatever it holds.
JoinPump(a) ==
  /\ task[a] = "joining"
  /\ TaskAdvance(a, "ended")
  /\ outcome' = [outcome EXCEPT ![a] = IF pump[a] = "finalized" THEN "ok" ELSE "err"]
  /\ UNCHANGED <<shared, work, caller, control, capture, watcher, audited,
                 saved, clock, target>>

\* The end of the capture future: the slot is freed at once, or handed to a
\* watcher while a measured worker still owns native state.
ReleaseDevice(a) ==
  /\ task[a] = "ended"
  /\ TaskAdvance(a, IF outcome[a] = "ok" THEN "settling" ELSE "failing")
  /\ \/ /\ native[a]
        /\ watcher' = [watcher EXCEPT ![a] = TRUE]
        /\ UNCHANGED shared
     \/ /\ ~native[a]
        /\ ClearSlot(a)
        /\ UNCHANGED watcher
  /\ UNCHANGED <<work, caller, outcome, control, capture, audited, saved,
                 clock, target>>

WatcherClears(a) ==
  /\ watcher[a] /\ ~native[a]
  /\ ClearSlot(a)
  /\ watcher' = [watcher EXCEPT ![a] = FALSE]
  /\ UNCHANGED <<work, caller, task, outcome, control, capture, audited, saved,
                 clock, target>>

\* A failed capture: publish the failure; audio that reached a session makes
\* the missing save visible.
SettleFailure(a) ==
  /\ task[a] = "failing"
  /\ TaskAdvance(a, "done")
  /\ failed' = [failed EXCEPT ![a] = TRUE]
  /\ DropWork(rdy[a])
  /\ UNCHANGED <<shared, caller, outcome, stop, asked, rdy, setup, promised,
                 capture, watcher, audited, saved, clock, target>>

\* A finished capture: the finisher persists it, or does not.  The lease is
\* dropped by the thread that persisted, after the save.
Persist(a) ==
  /\ task[a] = "settling"
  /\ TaskAdvance(a, "done")
  /\ \E ok \in BOOLEAN : saved' = [saved EXCEPT ![a] = ok] /\ DropWork(~ok)
  /\ UNCHANGED <<shared, caller, outcome, control, capture, watcher, audited,
                 clock, target>>

TaskStep(a) ==
  \/ BeginTask(a) \/ Admit(a) \/ CreateWal(a) \/ SpawnPump(a)
  \/ SignalCapture(a) \/ EndCapture(a) \/ LatchPump(a) \/ JoinPump(a)
  \/ ReleaseDevice(a) \/ WatcherClears(a) \/ SettleFailure(a) \/ Persist(a)

NativeStep(a) == Prepare(a) \/ OpenMic(a) \/ OpenSystem(a)

-----------------------------------------------------------------------------
(* The pump thread, and the native worker of the transcription legs.  From   *)
(* its first pass on, the pump may have written audio.                      *)

HasAudio(a) == pump[a] # "none"

PumpMove(a, from, to, dev) ==
  /\ pump[a] \in from
  /\ pump' = [pump EXCEPT ![a] = to]
  /\ device' = [device EXCEPT ![a] = dev]
  /\ UNCHANGED <<shared, work, caller, task, outcome, control, native, watcher, audited, saved, clock, target>>

\* The first pass that sees the latch stops the taps.
PumpStopsTaps(a) == PumpMove(a, {"latched"}, "draining", "closed")
PumpFinalizes(a) == PumpMove(a, {"draining"}, "finalized", "closed")
\* A write, flush or conversion error ends the thread and drops the taps.
PumpFails(a)     == PumpMove(a, {"running", "latched", "draining"}, "failed", "closed")

PumpStep(a) == PumpStopsTaps(a) \/ PumpFinalizes(a) \/ PumpFails(a)

NativeExits(a) ==
  /\ native[a]
  /\ native' = [native EXCEPT ![a] = FALSE]
  /\ UNCHANGED <<shared, work, caller, task, outcome, control, device, pump,
                 watcher, audited, saved, clock, target>>

-----------------------------------------------------------------------------
(* Stop, observation and shutdown.                                          *)

\* stop_live, under the slot lock.  A ready capture is frozen and stopped.
\* Otherwise the not-ready branch follows, in StopUnready: signal_capture does
\* not take the slot lock and may come in between.
StopLive(a) ==
  \/ /\ rdy[a]
     /\ LET first == IF stoppedAt[a] = NoTime THEN now ELSE stoppedAt[a]
        IN  /\ stoppedAt' = [stoppedAt EXCEPT ![a] = first]
            /\ Freeze(a, first)
     /\ Stopped(a)
     /\ UNCHANGED stopping
  \/ /\ ~rdy[a]
     /\ stopping' = a
     /\ UNCHANGED <<stoppedAt, endedAt, stop>>

StopFrame ==
  UNCHANGED <<slot, work, caller, task, outcome, rdy, failed, setup, promised,
              capture, watcher, audited, saved, now, startedAt, target>>

\* request_stop tells whether capture setup had begun, and the answer depends
\* on it: buffered audio will be saved, or preparation is cancelled.
StopUnready ==
  /\ stopping # None
  /\ stopping' = None
  /\ Stopped(stopping)
  /\ failed' = [failed EXCEPT ![stopping] = TRUE]
  /\ IF setup[stopping]
     THEN /\ stoppedAt' = [stoppedAt EXCEPT ![stopping] = IF @ = NoTime THEN now ELSE @]
          /\ UNCHANGED promised
     ELSE /\ promised' = [promised EXCEPT ![stopping] = TRUE]
          /\ UNCHANGED stoppedAt
  /\ UNCHANGED <<slot, closing, work, caller, task, outcome, asked, rdy, setup,
                 capture, watcher, audited, saved, now, startedAt, endedAt, target>>

\* RecorderControl::stop: whatever attempt holds the slot now.
Stop ==
  /\ stopping = None
  /\ slot # None
  /\ StopLive(slot)
  /\ asked' = [asked EXCEPT ![slot] = TRUE]
  /\ UNCHANGED closing
  /\ StopFrame

\* observe: the native shell keeps the matching stop capability.
Observe ==
  /\ stopping = None
  /\ target' = slot
  /\ UNCHANGED <<shared, work, caller, task, outcome, control, capture, watcher,
                 audited, saved, clock>>

SameSession(a, b) == a = b

\* stop_observed: the attempt that was observed, never its successor.
StopObserved ==
  /\ stopping = None
  /\ target # None /\ slot # None
  /\ SameSession(slot, target)
  /\ StopLive(slot)
  /\ asked' = [asked EXCEPT ![target] = TRUE]
  /\ UNCHANGED closing
  /\ StopFrame

\* StartTicket::cancel: no lock, also before the attempt was admitted.
CancelTicket(a) ==
  /\ ~stop[a]
  /\ Stopped(a)
  /\ asked' = [asked EXCEPT ![a] = TRUE]
  /\ UNCHANGED <<shared, work, caller, task, outcome, rdy, failed, setup,
                 promised, capture, watcher, audited, saved, clock, target>>

\* RecorderBridge::begin_shutdown: admission closes before any lock is taken.
CloseAdmission ==
  /\ ~closing
  /\ closing' = TRUE
  /\ UNCHANGED <<slot, stopping, work, caller, task, outcome, control, capture,
                 watcher, audited, saved, clock, target>>

\* DaemonRecorder::begin_shutdown, on the bridge worker.
BeginShutdown ==
  /\ closing
  /\ stopping = None
  /\ slot # None /\ ~stop[slot]
  /\ StopLive(slot)
  /\ asked' = [asked EXCEPT ![slot] = TRUE]
  /\ UNCHANGED closing
  /\ StopFrame

Tick ==
  /\ now < MaxTime
  /\ now' = now + 1
  /\ UNCHANGED <<shared, work, caller, task, outcome, control, capture, watcher,
                 audited, saved, startedAt, stoppedAt, endedAt, target>>

Next ==
  \/ \E a \in Attempts : CallerStep(a) \/ TaskStep(a) \/ NativeStep(a)
                         \/ PumpStep(a) \/ NativeExits(a) \/ CancelTicket(a)
  \/ Stop \/ StopUnready \/ StopObserved \/ Observe
  \/ CloseAdmission \/ BeginShutdown \/ Tick

\* Blocking threads and runtime tasks keep running, and one that waits for the
\* slot lock gets it in the end; deadlines pass; the session limit expires.
\* Native calls, the pump and the user owe nothing.
Fairness ==
  /\ \A a \in Attempts : SF_vars(CallerStep(a) /\ caller[a] # "idle")
                         /\ SF_vars(TaskStep(a))
  /\ WF_vars(StopUnready)
  /\ SF_vars(BeginShutdown)

Spec == Init /\ [][Next]_vars
FairSpec == Spec /\ Fairness

-----------------------------------------------------------------------------
(* What the outside sees.                                                   *)

Finishing(a) == slot = a /\ rdy[a] /\ (endedAt[a] # NoTime \/ stoppedAt[a] # NoTime)
Recording(a) == slot = a /\ rdy[a] /\ endedAt[a] = NoTime /\ stoppedAt[a] = NoTime

\* live_status: capture_ended_at_ms or else stopped_at_ms, never before the start.
ShownEnd(a) ==
  LET end == IF endedAt[a] # NoTime THEN endedAt[a] ELSE stoppedAt[a]
  IN  IF end < startedAt[a] THEN startedAt[a] ELSE end

\* ShutdownStatus::drained.
Drained == closing /\ slot = None /\ outstanding = 0

\* run_supervised gave up on a pump that is still stuck in a write.
Abandoned(a) == outcome[a] = "err" /\ pump[a] \in {"running", "latched", "draining"}

-----------------------------------------------------------------------------
(* Properties.                                                              *)

Clock == 0 .. MaxTime
Times == 0 .. NoTime

TypeShared ==
  /\ slot \in Attempts \cup {None} /\ stopping \in Attempts \cup {None}
  /\ target \in Attempts \cup {None}
  /\ closing \in BOOLEAN /\ saveFailed \in BOOLEAN
TypeActors ==
  /\ caller \in [Attempts -> CallerStates]
  /\ task \in [Attempts -> TaskStates]
  /\ outcome \in [Attempts -> {"none", "ok", "err"}]
  /\ watcher \in [Attempts -> BOOLEAN] /\ audited \in [Attempts -> BOOLEAN]
  /\ saved \in [Attempts -> BOOLEAN]
TypeSignals ==
  /\ stop \in [Attempts -> BOOLEAN] /\ asked \in [Attempts -> BOOLEAN]
  /\ rdy \in [Attempts -> BOOLEAN] /\ failed \in [Attempts -> BOOLEAN]
  /\ setup \in [Attempts -> BOOLEAN] /\ promised \in [Attempts -> BOOLEAN]
TypeCapture ==
  /\ device \in [Attempts -> {"closed", "opening", "open"}]
  /\ pump \in [Attempts -> PumpStates]
  /\ native \in [Attempts -> BOOLEAN]
TypeClock ==
  /\ now \in Clock
  /\ startedAt \in [Attempts -> Times]
  /\ stoppedAt \in [Attempts -> Times]
  /\ endedAt \in [Attempts -> Times]

\* Every variable keeps the type its Rust field has; in particular the lease
\* counter never underflows.
TypeOK == /\ TypeShared /\ TypeActors /\ TypeSignals /\ TypeCapture /\ TypeClock
          /\ outstanding \in Nat

\* An attempt whose taps are opening or open owns the device slot, unless its
\* pump was abandoned in a write: a Start that timed out on a wedged HAL, and a
\* session still winding down, keep every later Start out.
CaptureOwnsSlot ==
  \A a \in Attempts : device[a] # "closed" => slot = a \/ Abandoned(a)

\* A Stop answered "preparation cancelled" is true for ever: the attempt never
\* enters capture setup, opens no tap and writes no audio, however Stop and
\* begin_capture_setup interleave.
CancelledMeansNoCapture ==
  \A a \in Attempts : promised[a] => ~setup[a] /\ device[a] = "closed" /\ pump[a] = "none"

\* CON-01: no tap opens and no audio is written before the Start is audited.
AuditBeforeAudio ==
  \A a \in Attempts : device[a] # "closed" \/ HasAudio(a) => audited[a]

\* A Start that was answered with an error leaves no capture running that is
\* not stopped or ended, also when capture came up just after the deadline.
RefusedStartIsStopped ==
  \A a \in Attempts :
    caller[a] = "refused" /\ device[a] = "open" => stop[a] \/ endedAt[a] # NoTime

\* The badge says "recording" only over open taps, unless the pump died.
BadgeOverOpenTaps ==
  \A a \in Attempts : Recording(a) => device[a] = "open" \/ pump[a] = "failed"

\* A stop reaches only an attempt somebody asked to stop: a stale StopTarget
\* never ends its successor.
StopReachesOnlyAsked == \A a \in Attempts : stop[a] => asked[a]

\* The lease counter is exactly the number of attempts that are configuring,
\* capturing or persisting, through every early return and hand-over.
WorkAccounted == outstanding = Cardinality({a \in Attempts : HoldsWork(a)})

\* Once shutdown reports drained, all captured audio is in the library or the
\* failure to save it is reported.
DrainedMeansSaved ==
  Drained => \A a \in Attempts : HasAudio(a) => saved[a] \/ saveFailed

\* Drained is final: no attempt can take the slot or a lease afterwards.
DrainedIsFinal == [][Drained => Drained']_vars

\* The end shown while finishing is not before the start and never moves back.
FinishingClockSane ==
  [][\A a \in Attempts : Finishing(a) => /\ ShownEnd(a) >= startedAt[a]
                                         /\ Finishing(a)' => ShownEnd(a)' >= ShownEnd(a)]_vars

\* Every accepted Start is answered, with the device and the model wedged.
StartAnswers ==
  \A a \in Attempts : caller[a] = "audit" ~> caller[a] \in {"started", "refused"}

\* The native call the attempt may be stuck in.
InNativeCall(a) == task[a] \in {"preparing", "openMic", "openSystem"} \/ native[a]

\* With no one pressing Stop the slot is still freed, so retention is not
\* vetoed for ever, unless a native call never returns.
SlotIsFreed ==
  \A a \in Attempts : []<>(slot # a) \/ <>[]InNativeCall(a)

\* Closing admission drains the recorder, unless a native call never returns.
ShutdownDrains ==
  <>closing => <>Drained \/ \E a \in Attempts : <>[]InNativeCall(a)

\* What has ended stays ended: a drained recorder takes nothing up again, and the
\* end shown while finishing never moves back.
EndsAreFinal == DrainedIsFinal /\ FinishingClockSane

\* With native calls that may never return: every Start is answered, the slot is
\* freed without a Stop, and closing admission drains the recorder.
RecorderProgresses == StartAnswers /\ SlotIsFreed /\ ShutdownDrains

-----------------------------------------------------------------------------
(* The inductive invariant behind the safety properties.                    *)

\* The phases of one attempt's actors agree: what the task has reached tells
\* how far the caller, the taps, the pump and the ready signal may be.
Opening == {"openMic", "openSystem", "createWal", "openLegs"}
Running == {"signal", "live", "latching", "joining"}
Ended   == {"ended", "failing", "settling", "done"}
Tapping == {"running", "latched", "draining"}

PhaseOK(a) ==
  /\ task[a] # "none" => caller[a] \in {"waiting", "expired", "started", "refused"} /\ audited[a]
  /\ caller[a] \in {"render", "resolve", "dispatch"} => audited[a]
  /\ caller[a] \in {"waiting", "expired", "started"} => task[a] # "none"
  /\ task[a] \in {"none", "spawned", "preparing", "admitted"} =>
       device[a] = "closed" /\ ~native[a]
  /\ task[a] \in {"none", "spawned", "preparing", "admitted"} \cup Opening =>
       pump[a] = "none" /\ ~rdy[a] /\ outcome[a] = "none"
  /\ task[a] \in {"openSystem", "createWal", "openLegs"} => device[a] = "open"
  /\ task[a] \in Running => pump[a] # "none" /\ outcome[a] = "none"
  /\ task[a] \in Ended => outcome[a] # "none"
  /\ task[a] \in {"admitted"} \cup Opening \cup Running => setup[a]
  /\ pump[a] # "none" => setup[a] /\ (task[a] = "signal" \/ rdy[a])
  /\ pump[a] \in {"latched", "draining", "finalized"} => task[a] \in {"joining"} \cup Ended
  /\ rdy[a] => pump[a] # "none"
  /\ device[a] # "closed" => task[a] \in Opening \/ pump[a] \in {"running", "latched"}
  /\ task[a] \in {"signal", "live"} /\ pump[a] # "failed" => pump[a] = "running" /\ device[a] = "open"
  /\ task[a] \in Ended /\ pump[a] \in Tapping => outcome[a] = "err"
  /\ task[a] \in {"latching", "joining"} \cup Ended /\ rdy[a] => endedAt[a] # NoTime
  /\ task[a] = "settling" => rdy[a] /\ outcome[a] = "ok"
  /\ task[a] = "failing" => outcome[a] = "err"
  /\ outcome[a] = "ok" => pump[a] = "finalized"
  /\ watcher[a] => task[a] \in {"failing", "settling", "done"}

\* What the signals say is consistent with who set them.
SignalOK(a) ==
  /\ stop[a] => asked[a]
  /\ stopping = a => asked[a]
  /\ promised[a] => stop[a] /\ ~setup[a]
  /\ failed[a] => stop[a] \/ task[a] = "done"
  /\ caller[a] = "refused" /\ task[a] # "none" => failed[a]
  /\ task[a] = "done" /\ HasAudio(a) => saved[a] \/ saveFailed

\* The reservation, the session and the watcher each own the slot.
OwnsSlot(a) == Reserving(a) \/ Capturing(a) \/ watcher[a]

RecorderInv ==
  /\ TypeOK
  /\ \A a \in Attempts : PhaseOK(a) /\ SignalOK(a) /\ (OwnsSlot(a) => slot = a)
  /\ WorkAccounted

=============================================================================
