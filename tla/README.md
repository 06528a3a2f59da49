# Verification of FlyOnTheWall

FlyOnTheWall records meetings on a Mac without a bot: the daemon `fotwd` taps the microphone and the
system's audio, keeps both in a crash-safe session on disk, transcribes them live, files the meeting in a
local library, cleans its transcript up, titles and summarises it, pushes it to a repository if asked to,
compresses its audio into a media tree and deletes it again when the retention policy says so. Nothing of
this may lose a meeting, record one nobody is told about, publish one by accident, or keep one that was
deleted.

This directory holds TLA+ models of the parts that carry those promises, the TLC configurations that check
them on small instances, and proofs, checked by TLAPS, for every size. Paths below are relative to
`src/crates/`.

- [Inventory](#inventory): the system's parts, their state, operations, and what is hard about them
- [Models](#models): which module models which part, and how
- [Runs](#runs): what TLC checks, with which bounds and fairness
- [Proofs](#proofs): what TLAPS proves, from what, and along which argument
- [Disagreements](#disagreements) between comments and code
- [Not modelled](#not-modelled) and [Plan](#plan)

## Inventory

The audio path and the control path:

    browser, tray, hotkey, CLI
            | Start / Stop / Retry / delete / settings
            v
    DaemonRecorder --spawns--> session task --spawns--> pump thread --polls--> CaptureSupervisor (one per leg)
       | slot, leases             | prepare, open,         | owns the WAL         | native taps (Core Audio)
       |                          | wait for stop          v                      
       |                          |                 session directory --> recognizer (cloud, or local through
       |                          v                        |              the speech helper process)
       |                    library (SQLite) <-- persist --+ 
       |                          |                        |
       +-- recording_in_flight ---+--> sweeper: resume promotions, retention --> media tree

| Part | State | Operations | Hard because | Correct when |
|---|---|---|---|---|
| Recorder lifecycle (`fotwd/src/recording.rs`, `recorder_lifecycle.rs`, `session.rs`, `native_bridge.rs`) | the device slot, work leases, per-attempt stop and ready signals, taps, pump | start, status, stop, stop of an observed target, cancelled ticket, quit | three threads per attempt; a 30 s answer deadline races a late capture; native calls that never return; Stop during preparation; shutdown | one capture at a time; a cancelled or refused start never records; a drained shutdown has saved everything |
| Session archive (`fotw-pipeline/src/promote.rs`, `wal.rs`, `fotwd/src/retention.rs`, `fotw-store/src/delete.rs`, `media.rs`) | the session directory and its manifest, the media tree, rows | persist, claim, encode, publish, stamp, retire, record, resume, evict, delete | recorder, sweeper, CLI, deletion and speech recovery meet on the same files; crash anywhere | audio or speech is never the last copy when it goes; a deletion is final; work resumes |
| Retention (`fotw-pipeline/src/retention.rs`, `fotwd/src/retention.rs`) | meetings, policies, budget, deadlines, the sweeper's schedule | plan, apply, poll, settings, `fotwd retention` | saturating arithmetic, clock steps, vetoes, budget boundary | no only copy goes; budget met minimally or explained; expired audio goes |
| Capture supervision (`fotw-audio/src/supervisor.rs`, `watchdog.rs`, `device_change.rs`, `fotwd/src/capture_health.rs`) | one record per leg: tap, watchdog, debounce, recovery, budgets | start, poll, retry, stop | faults in native calls, storms of device changes, late polls, leaks | one live tap; silence covers what was not captured; bounded, spaced recovery |
| Speech helper client (`fotw-speechd-client/src/client.rs`, `restart.rs`) | current connection, generations, restart budget, loaded engines, pending calls, streams | load, warmup, unload, open stream, reset, shutdown | helper dies, hangs, garbles at any await; concurrent restarts | one helper; every call returns; restarts replayed into and budgeted |
| Provider handoff and canonical replay (`fotwd/src/failover/`, `fotw-pipeline/src/replay.rs`) | the audio file with its seal and completion markers, the coverage journal, provider epochs, the worker | append, commit, publish, switch, finish, resume, project, retire | audio is synced, a receipt appended and text shown in that order, with a crash between any two; Stop's deadline against a native call; a worker that outlives Stop | what was shown is on disk and shown once; a completion marker is true; files go only when the library has it all |
| Saved-speech recovery (`fotwd/src/speech_recovery.rs`, `interrupted_capture.rs`) | the job slot, session links, capture leases, the startup pass | scan, import, recover, retry, cancel, read, quit | the pass, the user and the recorder's own save meet on one recording; a native call that cannot be interrupted | one recognizer, owned; the user's word ends the automatic pass; every job ends |
| Post-meeting cleanup (`fotwd/src/post_pass/`, `fotw-store/src/post_pass.rs`) | job row, window checkpoints, attempts, models loaded | queue, run, cancel, retry, yield, complete | cancel while the engine works; a daemon upgraded between two windows; a summary made while it runs | the cleaned text is whole and of one engine; what is settled stays settled |
| Cloud recognizer (`fotw-stt/src/deepgram_stream.rs`, `replay.rs`, `dedupe.rs`) | socket, replay ring, transcript tail, session clock | write, flush, close, reconnect, replay | duplicate and lost words and shifted times around a reconnect | finals tile the audio; nothing is missed or shifted unreported |
| Enrichment (`fotwd/src/enrich.rs`, `summary_guard.rs`, `documents.rs`, `fotw-store/src/setting_version.rs`) | titles, summaries, drafts, receipts, setting revisions, input epochs | session-end pass, backfill, retitle, sweep, edits | minutes pass between reading and publishing | nothing stale is published; nothing a person typed is replaced |
| GitHub export (`fotwd/src/github.rs`) | target, receipts, retry table, write lock | push, round, settings | the library changes and the target moves during a push; commands fail half-way | receipts are true; nothing is made public unasked; what is owed lands |
| Live echo cancellation (`fotwd/src/live_aec/`, `fotw-pipeline/src/aec_worker.rs`, `aec.rs`) | originals held, queue, mailbox, fence | write, poll, route, finish, cancel | a native call may hang, die or answer late | every frame once and in order, cleaned or not |
| Live transcript hub (`fotw-web/src/stream.rs`) | buffered deltas, subscribers | publish, tick, announce, subscribe | order of flush and end | no sentence after the end |
| Native shell (`fotw-shell/src/state.rs`, `fotwd/src/native_*.rs`) | phase, prompt, hotkey | events of the recorder, tray and hotkey | the recorder moves on its own | a Stop reaches the recording it was meant for |
| Model setup, local summary runtime | queues and worker processes | provision, run, cancel, retry | bounded mailboxes, processes that hang | someone always lets go |
| Store, notes, settings (`fotw-store/src/`) | SQLite | transactions, guarded publications | derived text saved after its source changed | see the components that run them |
| Web API, MCP, consent, detection, secrets, DSP, Core Audio, Swift helper, `fotw record`, tools | — | — | see [Not modelled](#not-modelled) | |

`PROJECT.json` lists every part with its sources and, under "hazards", the places where these difficulties
bite, with the properties that would notice.

## Models

### Recorder

`Recorder.tla` models `DaemonRecorder` (`fotwd/src/recording.rs`), the task it spawns (`session.rs`,
`run_supervised`), the pump thread, and the leases of `recorder_lifecycle.rs`. An *attempt* is one Start,
the identity `ReadySignal::same_session` compares. Per attempt there are three actors:

| Actor | Code | Actions |
|---|---|---|
| caller | `start_admitted` on a blocking thread | `StartAdmitted`, `Audit`, `Render`, `Resolve`, `Dispatch`, `WaitReady`, `WaitFailed`, `WaitExpired`, `ReportExpiry`, and the drop of `PendingStart` (`PendingClear`, `PendingRelease`) |
| task | `spawn_session`, `run_supervised` | `BeginTask`, `Prepare`, `Admit`, `OpenMic`, `OpenSystem`, `CreateWal`, `SpawnPump`, `SignalCapture`, `EndCapture`, `LatchPump`, `JoinPump`, `ReleaseDevice`, `SettleFailure`, `Persist` |
| pump | the thread that owns the WAL and the taps | `PumpStopsTaps`, `PumpFinalizes`, `PumpFails` |

Around them: `Stop`, which is two steps when the attempt is not ready (`StopLive` reads readiness, then
`StopUnready` asks `ReadySignal` under its own lock, while the slot lock is held), `StopObserved` (a native
control holding an earlier observation), `CancelTicket`, `CloseAdmission` and `BeginShutdown` (quit),
`NativeExits` and `WatcherClears` (a recognizer's native worker that outlives its session keeps the slot),
and the wall clock. `asked` and `promised` are ghosts: who was asked to stop, and who was told "preparation
cancelled". Data, messages and every duration are abstracted: a deadline may strike at any time.

### Session archive

`SessionArchive.tla` models one session and its meeting. Files are whole, absent or (an encode in place)
torn; `manifest` is read and written whole by several actors, so reads and writes are separate steps and
`snap[a]` is what actor `a` last read. Actors: the recorder that made the session (`persist_and_promote` in
`main.rs`), the sweepers (the daemon's, and any `fotwd retention` process), a caller of `delete_meeting`,
and the speech worker, which may own `capture-owner.lock`. `Crash` ends every process and frees the locks;
`IoError(a)` fails the step `a` is at, with the code's own error path (`AfterError`). Retention appears as
`Expire` (the plan would now evict), `PlanSweep`, `Unlink`, `MarkDeleted`.

`DurableAudio.tla` is the abstract specification: a source, an archive of tracks, retirement of the source
only for a complete archive, eviction, and a deletion that ends and stays ended. `KeepsAudioDurable` is
`SessionArchive`'s refinement of it (source: the directory is not given up yet; archived: the media
tree; evicted: tracks of a meeting nobody deleted that a sweep unlinked; deletion: tombstoned, then ended).

### Retention

`Retention.tla` models `plan_sweep` over a library of meetings and everything that moves its inputs:
recordings, late or missing transcripts, per-meeting windows, the budget, a clock that ticks or is set back,
the sweeper's schedule (`Schedule::poll`, vetoed by a recording in flight) and `fotwd retention --apply`. `SatAdd` and `SatSub` are Rust's saturating operations at `MaxU64`; a deadline that
does not fit the signed column (`MaxI64`) is stored as none, as `sweep` does with `i64::try_from`. Times are
days, so that the day-to-millisecond conversion is a scale; its saturation is kept. `SweepPlan` is the plan;
its second pass takes `Oldest` of the candidates left, turn after turn, which is the order the code sorts them
into.

A sweep is not one step. `sweep` reads settings and inventory and makes its plan (`Look`), then unlinks and marks
what it planned (`RemoveAudio`, meeting by meeting) without a lock and without looking again, on a connection of its
own. So policies, budget, transcripts, recordings and the other sweeper (`run["daemon"]`, `run["command"]`) all move in
between. `run[s].saved` is a history variable: the meetings whose policy was saved while the sweep of `s` was under way.
`purge_after_ms` is rewritten by every sweep and read by no decision: it is `Deadline` at the look, and a dry run, which
writes nothing else, is no step.

### Capture leg

`CaptureLeg.tla` models one supervised leg. `CaptureSupervisor` is a struct that the pump polls; its methods
are functions from a supervisor record to the next (`SupPoll`, `ActOnFault`, `ActOnChange`, `AttemptRebuild`, ... over `WatchdogPoll` and `DebounceDue`), and one
action applies them: `Start`, `PollAny`, `PumpStop`. Interleaved with polls are what other threads do:
`DeviceChanged` (listener), `CallbackFault` (the audio callback), `RetryCapture` and `UserStop` (the user,
through `CaptureMonitor`), `Tick`. A poll chooses what it finds new in the activity counters and which of
its native calls fail, leak or take time. `padded`, `paddedTo`, `startupPadded` are what the pump writes into
the session as silence; `lastHeard` is a ghost, the last time real audio was seen.

### Speech client

`SpeechClient.tla` models `SpeechdClient`: callers (`load`, `warmup`, `unload`, streams, and `ask`, which is
`health` or `install`: a question that leaves nothing behind in the client), the restart task that `conn_died`
spawns for each dead generation, `reset` and `shutdown`. An action is what runs between two awaits.
`spawn_lock`, held across awaits, is state; locks held across none are implicit. A connection has its helper
(`child`), the requests it has been asked, the answers in flight, the registered waiters and streams. The
helper is another program (`Serve` is its `Server.handle`): it answers, refuses, hangs, crashes or sends garbage, at
most `MaxFaults` times. `late` is a history variable: while a replacement was being made, a call that the old helper
had answered was noted in `wanted`, after the replay had taken its copy.

### Speech source

`SpeechSource.tla` models one durable source of a recording: the canonical audio file and its markers
(`replay.rs`), the coverage journal (`failover/coverage.rs`), the stream's worker (`failover/stream.rs`), the
projection into the library (`failover/persist.rs`) and the resume of what a crash left. Audio is counted in
units; what a recognizer finds in it is any split, and text is the interval it came from.

| State | Code |
|---|---|
| `disk` | the files: audio written and synced, a half-written record, seal, completion and projection markers, journal and its torn tail |
| `st` | `Shared`: stop and closed flags, the written end, the publication gate, the writer lock |
| `w` | the worker thread: its place, the end and cursor it read, the item it is committing |
| `fin`, `sealer`, `proj` | the caller of `finish`, its blocking task, a projection between its SQL commit and its acknowledgement |
| `shown`, `accepted`, `rows` | history: finals the session got, units whose write returned, receipts in the library |

The pump writes (`WriteEnters`, `WriteAppends`, `WriteFails`) while the worker goes its way (`CloudFinal`,
`Demote`, `LocalStep`, `Infer`, `Commit`, `Publish`, `Complete`, ...), `FinishTimesOut` leaves a worker
behind (`NativeExits`), `Crash` keeps exactly what was synced, and `Resume`, `Restore`, `Project`,
`Acknowledge`, `Retire` work from the files. `Fault` bounds the failing disk and native calls, each with the
code's own error path.

### Saved speech

`SavedSpeech.tla` models `speech_recovery.rs`: the startup pass (scan, import, start a job, watch it), the job
thread over the tracks of one recording, the native recognizer, the dashboard's `Read`, `Retry`, `Cancel`, a
deletion, `Shutdown`, and a recording that is still being made and saved. What they share is the job slot, the
session link and the capture lease, which is tried and never waited for. A unit of audio is pending or
committed; how a receipt is written is `SpeechSource`'s subject. `owned` and `quiet` are history variables:
the user has taken the controls, and how long the job has not advanced.

### Post-meeting cleanup

`CleanupMerge.tla` has the pure part as operators: the plan of overlapping windows (`windows.rs`), the merge of
their words (`merge.rs`), and the turns made of them (`turns.rs`). `MergeIsExact` and `TurnsAreFaithful`
compare them with reference definitions, over every speech of a bounded set, heard through windows that drop
what touches their edges and move times within the tolerance.

`PostPass.tla` extends it with the job: its row and checkpoints (`fotw-store/src/post_pass.rs`), the worker
with its back-off, the run (`Open`, `Hear`, `Diarize`, `Complete`, `GiveBack`, ...), the models it owns or
shares with a recording, cancel, retry, version switch, the enrichment that waits for it, shutdown, and a
restart that may bring other engine revisions. `sharp` says that the job's clock was set exactly on a second, which
the cut clock of `HOLDS_ENRICHMENT` and the exact one of the completion see differently (`Held`, `InTime`). A window's words are known by the revision that heard them.
Jobs of different meetings share only the worker, which takes them one after the other.

### Cloud stream

`CloudStream.tla` models the driver of one cloud connection, with its normalizer, replay ring, tail comparison,
session clock and reconnect budget. Sample `p` is the word `Text[p]`, so that a segment is an interval. The
provider is external: it settles any chunk of what this connection was sent and may break at any moment, in
each of the ways the driver classifies. A connect or a send may also hang (`Hang`): the driver awaits both without a
deadline and takes no command meanwhile, until the call returns (`Unblocked`, which nothing promises) or `abort()`
ends the task. `shown`, `heard` and `lost` are history variables.

### Enrichment

`Enrichment.tla` models three passes over one meeting (session end, hourly backfill, `retitle` of the CLI),
the legacy-title sweep, the document window and the people who rename, edit, change settings and draft
meanwhile. Each engine call is two steps, so that everything can change in between; every publication is
guarded by the stamp of `setting_version.rs`. The stamp is taken before the content is read (`enrich.rs:353`, `483`);
`Ask` makes one step of the two, because an edit that falls between them only makes the stamp older than the content,
and an answer under an older stamp is refused. A setting is its revision and the engine it resolves to, the
inputs are their epoch, a title is the kind of text it is. `draft.base` records what its author had loaded.

### GitHub export

`GithubExport.tla` models the exporter's two jobs, the worker's rounds and the push button: claim, write lock,
preflight, the transcript, its companions, two receipts, then the index of the bundle, with the library lock
dropped throughout. A path is the meeting and the title it was made from. An entry of `remote` is a transcript with the
version of the summary and document files beside it: `Put` makes it, without any, and `PutCompanions` writes them. The
worker reads its settings (`ReadScope`) and lists what it owes (`StartRound`) under two holds of the library lock, and
a save may fall between them. A meeting or document the library will not give (`Unreadable`) enters its retry window
before `gh` is asked anything. `gh` fails at any call. `acked`, `fresh` and `round.owes` are history variables: the
repositories acknowledged, the meetings recorded under automatic mode, and what the settings a round read asked for.

### Live echo cancellation

`LiveAec.tla` models the pump's owner (`session/processing.rs`, `coordinator.rs`), the bounded worker boundary
(`aec_worker.rs`) and the frame adapter on the native thread (`aec.rs`). Audio is intervals of frames. A call
of the owner is a `plan` of steps, so that the thread's answers fall between any two of them. Whether a
reference can be aligned, and whether a deadline has passed when it is looked at, are free choices. `unseen` is
a history variable: the thread died where a submission's own poll no longer sees it
(see [Disagreements](#disagreements)). A submission is admitted in one of five ways (`AdmitLater`, `AdmitRaw`,
`AdmitJob`, `AdmitBusy`, `AdmitLost`): behind what already waits, unprocessed, as a job, not at all because the queue is
full, or to a thread that has gone since it was looked at, which gives the queue up and publishes the originals in order.

Where one proof module extends several models, the specifications are told apart by their names: `LegSpec`, `AecSpec`,
`PassSpec`, `SweepSpec` (with `LegInit`, `LegNext` and so on) beside the plain `Spec` of the others.

## Runs

Twelve runs, one per component, all passing. Every property has a mutant in `PROJECT.json`: a plausible bug in
the modelled code under which TLC finds the property violated. A property is often the conjunction of named
parts, each defined and explained in the module.

| Run | Instance | Checks |
|---|---|---|
| `recorder` | one attempt, native calls that may never return, a clock; 91 thousand states | `RecorderInv` the inductive invariant of the proofs, with `CaptureOwnsSlot`, `CancelledMeansNoCapture`, `RefusedStartIsStopped`, `DrainedMeansSaved`; `EndsAreFinal` nothing starts after the drain and the finishing clock does not run backwards; `RecorderProgresses` every Start is answered, a capture ends without anybody's Stop unless it is stuck in a native call, a shutdown drains |
| `archive` | recorder, one sweeper, deleter, speech worker; two crashes or errors; 905 thousand states | `ArchiveInv` the inductive invariant, with `AudioSurvives`, `RetiredAfterTranscription`, `DeletionIsFinal`; `KeepsAudioDurable` the refinement; `SessionsSettle` a claimed, transcribed session is archived and its directory removed, a deletion interrupted by a crash is finished |
| `retention` | two meetings, six policies with day counts absent, reachable and saturating, two budgets, a clock set back, the daemon's sweep and the command's overlapping; 928 thousand states | `PlanIsRight` evictions are the shortest oldest-first prefix that meets the budget, or the shortfall is explained; `SweepsKeepTheirWord` no only copy goes, and nothing marked forever unless that was saved during the very sweep; `ExpiredAudioGoes` |
| `capture_leg` | one leg, clock to 6, stall timeout 3, four units between rebuilds; 1.24 million states | `RebuildsAreEarned` one live tap, none opened over a failed teardown, attempts spaced, budget renewed only by health; `GapsAreTrue` a gap begins where the watch on the tap did, or for a device change within the stall timeout of it, through every failed attempt, and is padded once; `RecoveryIsPrompt` a storm of changes postpones a rebuild only to the ceiling, a dead tap is rebuilt |
| `speech_client` | two callers (one loads; the other warms up, unloads, streams or asks), two faults, one reset; 511 thousand states | `HelpersAreBounded` one helper, within the restart budget, none after shutdown; `NobodyWaitsOnTheDead`; `HandOverIsClean` no helper is published before the engine noted as wanted is in it (or, if the note came late, the one noted when it was greeted), a stream ends once; `CallsReturn` |
| `speech_source` | two units of audio, two epochs, one fault, one crash; 996 thousand states | `ReceiptsHold` a receipt covers only synced audio, what was shown is a receipt and no audio was shown twice; `ClaimsAreTrue` the completion marker, `finish`'s true and the retirement of the files; `NothingAfterAnswer` a late result is not shown; `WorkerEnds` |
| `saved_speech` | two recordings of two tracks, two jobs, one deletion or read; 578 thousand states | `NativeIsOwned` no recognizer runs behind a job that reports its end; `JobsHaveCause` no automatic job after the user's word, no deadline for a job that advanced; `AliasOnlyGrows` a known end is not forgotten, a deleted recording does not come back; `JobsEnd` |
| `post_pass` | two windows, an upgrade, two engine failures, two clicks, a recording beside it, clocks on and off a whole second; 306 thousand states; every speech of up to three words around the windows' edges | `CleanedIsWhole` merge and turns are exact, the cleaned version is all windows of one revision; `SettledIsKept` a cancel is not overtaken, nor a summary but in the one instant named in [Disagreements](#disagreements); `JobSettles` |
| `cloud_stream` | four words, one said twice, ring of two, three failures or hangs, both modes; 265 thousand states | `ConfirmedFinalsTile`; `ReplayIsExact` all unconfirmed audio is on the connection or reported lost, and the anchor is true; `CloseIsAnswered` unless a connect or a send never returns |
| `enrichment` | one meeting, one edit, one crash; 257 thousand states | `OutputsAreCurrent` nothing stale is published; `HumanWorkStands` typed titles and drafts outlive automatic passes; `BacklogDrains` |
| `github_export` | two meetings, a private and a public repository, two upsets; 1.01 million states | `ReceiptIsTrue`; `NoPublicByAccident`; `RoundTakesOnlyOwed`; `BacklogLands` |
| `live_aec` | four writes of two frames, a route change, a native failure, a call that may hang; 106 thousand states | `MicTiles` the sink gets every frame once and in order; `HealthyIsKept` a late answer or full queue never costs the recording its canceller; `StopSettles` everything is published at Stop, the thread lets go |

**Why these bounds.**
- `recorder`: what two attempts may do to each other is safety, and is proved for any number; it was also
  checked with two attempts (2.1 million states). Liveness needs no second attempt: one that is stuck in a
  native call is already all that a successor can meet.
- `archive`: one sweeper meets the recorder, the deleter and the speech worker on every file, and two faults
  allow a crash while recovering from one; the proofs have any number of both.
- `retention`: two meetings suffice for the budget pass to evict none, one or both, in an order that differs
  from their identifiers'. One setting saved falls before, during or after a sweep. `MaxU64` and `MaxI64` lie just above and below the largest deadline that fits.
- `capture_leg`: a clock of 6 holds a stall, the rebuild, and a device change refused within `MinInterval` of it;
  the rebuild interval exceeds the stall timeout, as it does in the code (15 s and 5 s). The proofs have any. With
  `EmitsSilence = FALSE` and with `RebuildOnChange = FALSE` the other branches were checked by hand
  (`OutageIsCovered` is stated for a leg that delivers silence when idle: one that does not may be quiet for as
  long as it likes without a rebuild).
- `speech_client`: two faults allow the replacement of a replacement.
- `speech_source`: two units let a read fall between two writes, an item end inside what was read, and the
  epochs meet inside the audio; one crash with the resume after it reaches every pair of steps it can separate,
  because a resumed worker runs the same code from the same files.
- `saved_speech`: the second recording is what the pass goes on to when the user's word arrives; the tracks with
  and without a saved plan are in both orders.
- `post_pass`: two windows have the one edge a merge works on; three words are one before, in and behind it.
  One upgrade is enough to mix two engines' words. The speeches of `MCPostPass` repeat a word only at a distance
  greater than the tolerance (see [Disagreements](#disagreements)).
- `cloud_stream`: four words against a ring of two let an outage exceed the ring; three failures break the
  reconnect that follows a broken reconnect and exhaust the budget of two.
- `enrichment` and `github_export`: a stale result needs one change between a read and its publication; a second
  upset lets a failure and a change coincide.
- `live_aec`: four writes overflow the queue of one and the retained originals of three blocks; the proofs have any
  number of writes and any sizes.

**Deadlock** is checked in `recorder`, `archive` and `retention`. In the other runs the system really stops: a
leg, a client, a stream or a canceller after its end, a job, a pass or an exporter whose work is done.

**Fairness.**
- `Recorder`: the caller's and the task's steps are strongly fair (each is a thread or runtime task; those
  that take the slot lock wait on a mutex that others hold for finitely many steps, again and again).
  `StopUnready` is weakly fair (it already has the lock). The quit thread gets the lock too. Native calls,
  the pump and users are not fair: `SlotIsFreed` says "or it is inside a native call". The task awaits the close of
  its recognizer's streams after the pump (`session.rs:2659`); that this returns is assumed here, and what a cloud
  stream owes to it is `CloseIsAnswered`.
- `SessionArchive`: every promoter, sweeper, deleter and the speech worker's end, weakly. A capture that
  speech recovery owns is given back because that worker has deadlines. Crashes, deletions and expiry owe
  nothing.
- `Retention`: the sweeper's turn comes while nothing vetoes it, it finishes the sweep it began, time passes, a
  recording ends (the session time limit ends it). The command owes nothing.
- `CaptureLeg`: the pump polls until it sees the latch, time passes.
- `SpeechSource`: the worker and the recognizer it waits on run; `cloud_settle` passes after the input closed, so
  that a cloud that never answers is left (strong, since answers may come in between). Neither the pump, Stop
  nor any recovery step is fair.
- `SavedSpeech`: the pass and the job are threads; a native call returns (`JobsEnd` is about a job that waits for
  exactly that).
- `PostPass`: the worker's task runs, its timers fire, a recording loads its model and ends.
- `CloudStream`: while no call hangs, a connection attempt ends and commands are taken; a back-off passes. Of a hung
  connect or send nothing is assumed, since neither has a timeout (`deepgram_stream.rs:458`, 526): `CloseIsAnswered`
  says "unless it hangs for ever" instead.
- `Enrichment`: engine calls end (each has a deadline), the sweep and the hourly loop run; people owe nothing.
- `GithubExport`: `gh` calls return, the worker polls, retry windows and graces run out, passes end or age.
- `LiveAec`: the pump runs and its finish loop is timed; of the native call nothing is assumed.
- `SpeechClient`: some task of the runtime that can run does. One weak-fairness condition for all of them is
  enough because no task loops: every chain of steps ends in an answer, a death or a spent attempt.

## Proofs

TLAPS proves, for any finite set of attempts and any clock bound (`RecorderProofs.tla`):

| Theorem | Statement |
|---|---|
| `RecorderInvariance` | `Spec => []RecorderInv` |
| `RecorderTypes` | `Spec => []TypeOK` |
| `CaptureExclusion` | `Spec => []CaptureOwnsSlot` |
| `CancellationIsFinal` | `Spec => []CancelledMeansNoCapture` |
| `RefusalStops` | `Spec => []RefusedStartIsStopped` |
| `AuditComesFirst` | `Spec => []AuditBeforeAudio`: a start is in the audit log before any tap opens |
| `BadgeIsHonest` | `Spec => []BadgeOverOpenTaps` |
| `StopIsTargeted` | `Spec => []StopReachesOnlyAsked`: a stop meant for one attempt never reaches its successor |
| `DrainSaves`, `DrainIsFinal` | `Spec => []DrainedMeansSaved`, `Spec => DrainedIsFinal` |
| `EndsStayFinal` | `Spec => EndsAreFinal`: the drain's finality, and the end shown while finishing never moves back |

None of these is inductive. `RecorderInv` adds what the interleavings depend on: `PhaseOK` relates, per
attempt, the phases of caller, task, pump and device (which task phases have taps, which have a pump, that a
settled task has neither, that the caller dispatched before the task ran); `SignalOK` relates stop, ready and
failure signals to what was asked and promised; `OwnsSlot` says that whoever reserves, captures or watches a
native worker is in the slot, from which exclusion follows because the slot holds one attempt; and
`WorkAccounted` says the lease counter is the number of attempts holding a lease, which makes the drain's
"nothing outstanding" mean something. The proof that a step preserves them has one step per action. `EndsStayFinal`
needs one fact more, `StopsPast`: a stop is stamped with a time that has come, so that the end which the session
stamps later is no earlier.
Assumptions: `AttemptsAssumption` (finitely many, `None` is none of them) and `MaxTimeAssumption`.

And for any set of sweepers and any number of faults (`StoredAudioProofs.tla`, first part):

| Theorem | Statement |
|---|---|
| `ArchiveInvariance` | `Spec => []ArchiveInv` |
| `ArchiveTypes` | `Spec => []TypeOK` |
| `AudioIsNeverLost` | `Spec => []AudioSurvives` |
| `SpeechIsNeverLost` | `Spec => []RetiredAfterTranscription` |
| `RowsAreBacked` | `Spec => []RowsPointAtAudio` |
| `DeletionStaysFinal` | `Spec => []DeletionIsFinal` |
| `EncodesAreWhole` | `Spec => []EncodedIsWhole`: no manifest names a torn encode |
| `ArchiveImplements` | `Spec => KeepsAudioDurable`: the refinement of `DurableAudio` |

`ArchiveInv` has nine named parts: who holds the capture lock (`LockInv`), what the deleter has done at each
of its steps (`EraseInv`, `ErasedInv`), what each stage of a promotion knows about the tracks it has published
(`HeldInv`, `StageInv`, and for sweepers the tracks they are about to unlink), what a session directory that
is gone implies (`GoneInv`), what rows imply (`RowsInv`), that no manifest on disk or in anybody's hand names
an unfinished encode (`EncodeInv`), and that only an expired meeting loses tracks (`PolicyInv`). The heart is
`StageInv` with `PolicyInv`: between its verification and its rename a retiring promoter relies on media that a
sweep may be removing at that moment, so what it knows is only that every track is published or was evicted,
and that whatever was evicted the policy had asked for. Assumptions:
`SweepersAssumption` (a sweeper is not one of the named actors) and `MaxFaultsAssumption`.

The other ten components are proved along the same lines: an inductive invariant, a lemma per action that it is
preserved, and the properties as theorems that follow from it. `LiveAudioProofs`, `AfterMeetingProofs` and
`StoredAudioProofs` each cover the two or three components a stretch of audio or text passes through, independently
of one another.

| Module | Theorem | Statement |
|---|---|---|
| `SpeechClientProofs` | `ClientInvariance` | `Spec => []ClientInv` |
| | `HelpersStayBounded` | `Spec => []HelpersAreBounded` |
| | `NobodyEverWaitsOnTheDead` | `Spec => []NobodyWaitsOnTheDead` |
| | `HandOverStaysClean` | `Spec => HandOverIsClean` |
| `SpeechSourceProofs` | `SourceInvariance` | `Spec => []SourceInv` |
| | `ReceiptsAlwaysHold` | `Spec => []ReceiptsHold` |
| | `ClaimsStayTrue` | `Spec => []ClaimsAreTrue` |
| | `NothingFollowsTheAnswer` | `Spec => NothingAfterAnswer` |
| `SavedSpeechProofs` | `SavedInvariance`, `SavedTypes` | `Spec => []SavedInv`, `Spec => []TypeOK` |
| | `NativeStaysOwned` | `Spec => []NativeIsOwned` |
| | `AliasesOnlyGrow` | `Spec => AliasOnlyGrows` |
| | `JobsAlwaysHaveCause` | `Spec => JobsHaveCause` |
| `LiveAudioProofs` | `LegHolds` | `LegSpec => []LegInv` |
| | `LegRebuildsAreEarned` | `LegSpec => RebuildsAreEarned` |
| | `LegGapsAreTrue` | `LegSpec => GapsAreTrue` |
| | `LegStormIsBounded` | `LegSpec => []StormIsBounded`, the safety half of `RecoveryIsPrompt` |
| | `AecHolds` | `AecSpec => []AecInv` |
| | `AecMicTiles` | `AecSpec => []MicTiles` |
| | `AecHealthyIsKept` | `AecSpec => []HealthyIsKept` |
| | `StreamInvariance` | `Spec => []StreamInv` |
| | `FinalsAlwaysTile` | `Spec => []ConfirmedFinalsTile` |
| | `ReplayStaysExact` | `Spec => []ReplayIsExact` |
| `AfterMeetingProofs` | `PassHolds` | `PassSpec => []PassInv` |
| | `VersionsAreWhole` | `PassSpec => [](row.words # {} => VersionIsWhole)`, what `CleanedIsWhole` says of the job |
| | `CancelsHold` | `PassSpec => CancelHolds` |
| | `SettledStaysKept` | `PassSpec => SettledIsKept` |
| | `EnrichInvariance`, `EnrichTypes` | `Spec => []EnrichInv`, `Spec => []TypeOK` |
| | `OutputsStayCurrent` | `Spec => OutputsAreCurrent` |
| | `HumanWorkStays` | `Spec => HumanWorkStands` |
| `StoredAudioProofs` | `PlansAreRight` | `SweepSpec => []PlanIsRight` |
| | `SweepsKeep` | `SweepSpec => SweepsKeepTheirWord` |
| `GithubExportProofs` | `ExportInvariance`, `ExportTypes` | `Spec => [](ExportInv /\ TypeRound /\ ScopeInv)`, `Spec => []TypeOK` |
| | `ReceiptsAreTrue` | `Spec => []ReceiptIsTrue` |
| | `NothingPublicByAccident` | `Spec => []NoPublicByAccident` |
| | `RoundsTakeOnlyOwed` | `Spec => RoundTakesOnlyOwed` |

- **`SpeechClient`**, for any callers and what they may call, any restart budget, any number of faults and resets.
  That at most one helper is live is not inductive: a restart may be in the middle of spawning one. `ClientInv` says
  who may be where. A restart holds `spawn_lock` and works on the newest generation, which nobody else knows before
  it is published (`LockInv`); every older generation is over, and a newer one not born (`ConnInv`); each generation
  but the first cost a fault (`FaultInv`), which is why the finite set of generations is never exhausted; shutdown,
  once under way, leaves nothing to restart (`StopInv`). `WaitInv` says that waiting and being registered are the same,
  so that a death that empties the tables has told everybody. `ReplayInv` follows the request of a replay through the
  pipe, from both ends: this is what makes the engine loaded when the helper is published. `NotedInv` adds that the
  copy being replayed is still what is noted, unless a note came late. `TaskInv` and `DiedInv`
  are about a task's own fields. Assumption: `ClientAssumption` (bounds are naturals; a caller is not a generation
  number, `None` or `Stop`).
- **`SpeechSource`**, for any amount of audio, faults, crashes and epochs, with no assumption. `SourceInv`: receipts lie
  within the synced audio and a completion marker covers all of it (`AudioInv`); the worker works on audio that is
  there, just behind the last receipt (`WorkerInv`); closed input stays closed and what a live stream accepted is the
  file, unless a write failed, which leaves the source fenced and never complete (`GateInv`); what was shown is in the journal, in order and without overlap, and the receipt about to be shown
  comes after it (`ShownInv`); success is announced only of a complete source without further input (`DoneInv`);
  after an answer the fence is down or the worker gone (`AnswerInv`); the library holds no more than the journal, and
  retired files have no owner (`LibraryInv`).
- **`SavedSpeech`**, for any recordings, tracks and limits (`SavedBounds`). Job slot, thread, recognizer and lease are
  related by `ThreadInv` and `LeaseInv`; `PassInv` says that a pass told to stop stays told, `DeletedInv` that a deleted
  recording has no alias. `SlotInv` is what the deadline needs: the job's clock is never ahead of the time since its
  last durable advance, unless there is an advance that nobody has looked at yet.
- **`CloudStream`**, for any text, offset of the leg, ring and number of failures (`StreamBounds`). The anchor divides
  the audio: what lies before it is heard or reported lost (`AnchorInv`), what lies behind it is on the open connection,
  whose clock begins where its replay did (`OpenInv`), or next in the inbox (`InboxInv`). `TileInv` says that a confirmed
  stream goes on exactly at its anchor, from which tiling follows.
- **`CaptureLeg`**, for any timeouts, intervals, budgets and clock, with either setting of the two switches
  (`DurationAssumption`: durations and the attempt budget are positive). The properties speak of one step; that they
  hold needs the whole supervisor related to what happened to the leg. `SupInv`: a tap is there, and its callbacks
  admitted, exactly while it is watched, and the next attempt keeps its distance from the last. `TapInv`: a watch, a
  fault and a spell of health began no earlier than the last frames or the last bad poll, and the watch no later than
  `WatchedFrom`. `DownInv`: an outage begins no earlier than the last frames, except one that was there before the
  recording. `PadInv`: what was padded ends where frames begin. A poll is a chain of functions from record to record,
  so each has a lemma that says what it returns (`Made`, `Rebuilt`, `Goes`, `Stays`), and the lemma for a poll
  combines them.
- **`LiveAec`**, for any block, delay, queue and retention sizes and any number of writes, routes and panics
  (`AecBounds`). Tiling is not inductive because an answer still under way may belong to a generation given up. `Sound`: what
  the sink has, the boundary's originals and the coordinator's waiting blocks tile the microphone. `Flow`: among the
  answers and the commands in the pipes there is a point from which all are of the generation still wanted, and from there answers, the
  answer being published, what the adapter holds, the native call and the commands follow one another from where the
  sink ends to where the originals do. So an answer that passes the fence fits the sink exactly. `Calls` relates the
  steps of the owner's current call to the state of the boundary.
- **`PostPass`**, for any track, restarts, upgrades, failures, clicks and recordings (`PassBounds`). `RowInv`: checkpoints
  are of the plan the job was queued with. `RunInv`: past its opening a run's engine is the one that planned the job,
  what it has heard is of that plan, and from diarization on it has heard every window. `ShownInv`: while a pending job is in time nothing
  has been summarised, except in the last instant of the wait of a job whose clock was set exactly on a second (see
  [Disagreements](#disagreements)). The plan of windows is a recursive function over the length of the track;
  that it has a solution, and that the windows are numbered without gaps, is proved first.
- **`Retention`**, for any library, sizes, policies, budgets and clock (`ConstantsAssumption`). The type invariant is
  inductive, and the plan's properties hold in every typed state. `EvictionsInv` is what a sweep still knows of its plan
  while the library moves on: every meeting left in it has its transcript, and is not forever unless its policy was
  saved since the look. `Bytes` is shown to be a sum, whatever order its
  recursion takes (`BytesSplit`); starts and ids to order the meetings, so that there is always an oldest
  (`OldestIs`); and `PassAt` is the invariant of the budget loop: what went after `i` turns are the oldest candidates,
  each taken while the rest was still over budget, and one in every turn unless the budget was met. Minimality and the
  warnings' account follow at the last turn.
- **`Enrichment`**, for any number of edits and restarts (`EnrichmentBounds`). `EnrichInv` ties the stamp of each call
  to what was read with it, and says that a title was the machine's to replace at the epoch it was looked at. The
  epoch only grows, so that a stamp that still matches was taken on the inputs and the title that are there now.
- **`GithubExport`**, for any number of meetings and repositories, any settings and upsets (`ExportBounds`). `ExportInv`:
  a claimed meeting is one push's alone and its snapshot no older than the books (`ClaimInv`); whoever writes holds the
  write lock (`LockInv`); a push past its transcript has left the file its receipts will name, and past its companions their version beside it (`LandedInv`); an
  acknowledgement travels with the repository it was given for (`AckInv`); the stamp of automatic mode separates what
  was recorded under it (`FreshInv`); a round between its two readings lists nothing that the settings it read did not
  ask for (`ScopeInv`); the books name files that are there (`BooksInv`).

Each of these invariants was also checked by TLC, on the instance of its run. Every safety property that a run checks
is proved as it stands, save one half of `CleanedIsWhole`. The
remaining theorems of the first two tables state parts of `RecorderInv` and `ArchiveInv` that a reader will look for
by name.

Induction over data is done without the library's induction theorems, which take an operator as a parameter: the lemmas
`CountUp` and `Climb` pass from a set that contains 0 and every successor to all numbers up to `n`, by a least
counterexample (`WFMin`), and take that set as an ordinary argument.

**Only model-checked**: liveness under fairness, which is beyond the proof system (`RecorderProgresses`, `SessionsSettle`,
`ExpiredAudioGoes`, `RecoveryIsAttempted` of `RecoveryIsPrompt`, `CallsReturn`, `WorkerEnds`, `JobsEnd`, `JobSettles`,
`CloseIsAnswered`, `BacklogDrains`, `BacklogLands`, `StopSettles`); and `MergeIsExact` and `TurnsAreFaithful` of
`CleanupMerge`, the algorithmic half of `CleanedIsWhole`: they compare searches and alignments with reference
definitions over speeches that obey a tolerance, and a proof for every speech would be a development of its own.

## Disagreements

Where a comment or a document says one thing and the code, followed step by step, does another. Each was reached
by TLC as a counterexample of the model, unless marked otherwise; the models follow the code.

- `fotwd/src/session.rs:2558`: the comment at 1457 calls "a red badge, a ticking clock and an empty disk" the
  failure to avoid. When the pump dies of a write error the taps go with it, but `run_supervised` looks at the
  pump only after Stop or the time limit; until then status says recording.
- `fotwd/src/retention.rs:316`: line 19 says a crash between publishing and recording is found and finished by
  `resume_promotions`. `promote` has removed the session directory by then, and `resume_promotions` looks for
  session directories; the media stays without rows.
- `fotw-audio/src/supervisor.rs:1012`: line 59 says a user's retry preserves the outage. The retry of a
  quarantined, starved tap starts its gap at the retry, so that the time before it is not padded.
- `fotw-audio/src/supervisor.rs:1175`: line 1167 says refusing a rebuild soon after the last one "costs nothing real", line
  40 that silence is inserted so that "byte offset stays equal to session time", and `watchdog.rs:240` that a stall's
  `since_ns` is "The start of the hole." The refusal arms the watchdog again, and so does the next one: a tap that dies
  right after a rebuild while notifications keep coming has its hole counted from the last refusal, up to
  `min_rebuild_interval` (15 s) after its last frame. `WatchedFrom` in `OutageIsCovered` allows exactly this; it came
  up in the proof of `LegGapsAreTrue`.
- `fotw-store/src/post_pass.rs:403`: the comment at 265 says "Promote only while summaries and the push still wait for
  it." They wait by a clock cut to whole seconds (`HOLDS_ENRICHMENT`), the completion looks at milliseconds with `<=`. For a
  job queued exactly on a second both sides are open in the last millisecond of the wait: a summary can start from
  the live version and the cleaned one still take over under it. `LateIsOffered` excepts exactly this instant
  (`sharp /\ age = Wait`); without the exception TLC finds it.
- `fotw-speechd-client/src/client.rs:413`: line 391 says a loaded engine "is loaded again after any restart". It is
  noted only when the caller's task gets to run; a helper that dies and is replaced before that is replaced by one
  without the engine, although `load` succeeds. `ReplayedFirst` excepts exactly this (`late`); without the exception
  TLC finds it.
- `fotw-stt/src/deepgram_stream.rs:458`: the comment at 279 has `abort` for "a wedged transport", and 252 speaks of a
  "blocked socket send". `close()` has no way out of either: connect and sends have no deadline, the driver takes no
  command meanwhile, and `close` waits for its answer. The handoff calls `abort`; `main.rs:2297` and `session.rs:2799`
  wait for `close`. `CloseIsAnswered` is stated for a transport that returns.
- `fotwd/src/retention.rs:508`: `sweep` works from the inventory of line 491 to its end, so that a meeting marked forever in
  the dashboard while a sweep is under way still loses its audio, although `fotw-pipeline/src/retention.rs:320` says
  "`forever` means forever"; `SweepsKeepTheirWord` excepts exactly this.
- `fotwd/src/failover/stream.rs:1419`: `docs/DURABLE_SPEECH.md:70` says "Local Stop waits for inference publication
  under its bounded deadline." The worker loads the written end at 1349 and tests `input_closed` at 1419; with audio
  accepted in between it completes at the stale end, `mark_complete` refuses, and `finish` answers false at once.
  The audio is kept and can be resumed.
- `fotwd/src/post_pass/job.rs:193`: `docs/POST_MEETING_CLEANUP.md:51` says a recording that starts while the cleanup
  gives its models back gets Parakeet loaded again. `run` asks `pause` once and then awaits `release`; a recording
  that starts in between finds the model loaded, and loses it. It needs a run that ends before its diarization.
- `fotw-stt/src/deepgram_stream.rs:417`: the comment at 481 says a dangling partial "goes through deduplication
  too", because nothing else would catch what a reconnect restates. When the driver ends after a replay, `run`
  commits the open partial as it is. (Plain mode; confirmed finals are not concerned.)
- `fotwd/src/enrich.rs:831`: line 131 says a rename "typed by a human changes the string, stops matching, and is
  never touched again". `retitle` binds whatever title it finds when a meeting's turn comes, so that a rename made
  after its list was drawn up is replaced; hence `HumanTitleStands` is about the automatic passes.
- `fotw-pipeline/src/aec_worker.rs:235`: `docs/AEC_ADAPTER.md:19` says "Source offsets remain contiguous within an
  external route epoch." `submit_inner` polls at 225 and tests `is_running` at 235: a thread that dies in between
  has its next block published before the originals still held. `MicTiles` excepts exactly this (`unseen`).
- `fotwd/src/post_pass/merge.rs:1`: "without losing or repeating any". A word said twice within `MATCH_TOLERANCE_MS`
  across a window's edge can lose one of the two.
- `fotw-web/src/stream.rs:259` (read, not modelled): `flush` takes the buffer under the lock and sends outside it;
  an announcement between the ticker's take and its send overtakes the last sentence, against "anything already
  buffered keeps its place in publication order".

Noticed while modelling:

- `fotwd/src/recording.rs:1330`: Stop pressed while capture is being set up stamps the finishing clock, and
  the session, if already past the point of no return, later stamps its own end: the clock shown while
  finishing can grow once.
- `fotw-store/src/media.rs:137`: the upsert that resumes a promotion can make a row that retention had closed
  complete again; the plan then evicts it once more.
- `fotwd/src/main.rs:980` says an unpromoted session is archived at the next start; `promote.rs:497` lists
  only sessions that had been claimed.
- `fotw-pipeline/src/retention.rs:376` calls applying a plan idempotent by construction; `fotwd/src/retention.rs:515`
  marks all of a plan's rows deleted when one of its unlinks failed.
- `fotw-audio/src/supervisor.rs:51`: the time a rebuild spends in its own native calls is in no gap.
- `fotw-speechd-client/src/client.rs:778`: a replacement that dies before it is published is replaced only at
  the next call; `client.rs:705`: a version mismatch found by a restart under way can overwrite the failure
  that `shutdown` recorded.
- Cleanup: a cancel while the engine is being made lets one more window run; a
  shutdown between the worker's look at the flag and its announcement of the run is seen only after it;
  `post_pass_retry` keeps the old plan, so that a retry after an engine upgrade fails again.
- Cloud: the tail comparison of plain mode also trims words really said twice; reconnects forced by the session
  limit count against the reconnect budget.
- Enrichment: an edit during a summary makes the status "failed", which the backfill does not retry; two passes
  over one meeting can leave a finished stamp while one still runs (`enrich.rs:121` "0 while one runs"); the
  receipts map is read, changed and written without a transaction (`enrich.rs:420`); a session-end pass is assumed
  to be younger than `ENRICH_GRACE_MS`, else the backfill runs beside it.
- Export: settings saved between a round's two readings (`github.rs:478` and 487) count from the next round on, though
  each push of this one already goes to the new target; a push that fails after its transcript and is repeated after a rename leaves both files; `sync_bundle`
  reads the receipts (`github.rs:1053`) before it takes the write lock, so that an older listing may stand until the
  next push; a crash between the two receipts after a change of target can show "synced" for the old repository.

## Not modelled

- Live transcript hub, native shell and its composition with `Recorder`, detection and consent, model setup, the
  local summary runtime: planned, below.
- The bytes: WAL records and torn tails, the Opus container, frames and JSON of the helper's pipe.
  `SessionArchive` takes a track as whole or absent; the frame codec and the WAL scan are planned as operators.
- Signal processing, diarization, language models, text: numeric or textual code out of TLC's reach.
- Web routing, tokens, MCP, secrets, the rest of the Core Audio bindings and of the Swift helper, `fotw record`, tools: I/O,
  wiring or other programs. The operations they lead to are modelled behind them.
- In `SpeechClient`: progress and the spacing of restarts. In `Recorder`: the transcript path. In
  `SessionArchive` and `SpeechSource`: several sessions or sources (they share no file). In `SavedSpeech`: the
  rebuild of audio from raw tracks is one step that succeeds or fails. In `Enrichment` and `GithubExport`: prompts,
  templates and the text of the exported files. In `LiveAec`: the filters and the delay estimate.

## Plan

1. `MergeIsExact` and `TurnsAreFaithful` for every speech: the merge's search as a function with a loop invariant, like
   the budget pass of `Retention`.
2. `DeltaHub` (flush, announcement and subscription), with the disagreement above as its first question.
3. `Shell` (`fotw-shell/src/state.rs`, `native_host.rs`), composed with `Recorder` through observed targets.
4. `ModelSetup` and the local summary runtime, then detection and consent.
5. `SpeechSource` composed with `SessionArchive`, whose `replay` variable abstracts it, and with `SavedSpeech`, whose
   units of pending audio do; the frame codec and the WAL scan as operators.
