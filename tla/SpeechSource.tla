---------------------------- MODULE SpeechSource ----------------------------
(***************************************************************************)
(* One durable speech source of a recording: the canonical audio file with *)
(* its markers (fotw-pipeline replay), the coverage journal, the stream's  *)
(* worker that turns audio into committed and published transcript, Stop,  *)
(* the crash of the process, the resume from the files, the projection     *)
(* into the library and the retirement of the files.                       *)
(*                                                                         *)
(* Audio is counted in units (a read takes all there is); what the         *)
(* endpointer and the recognizers find in it is any split of the audio     *)
(* they were given.  Text is abstracted to the interval it came from.      *)
(* Error paths of one call are one alternative each; Fault bounds them.    *)
(***************************************************************************)
EXTENDS Integers, Sequences, SequencesExt

CONSTANTS
  MaxAudio,    \* bound: units of audio captured
  MaxFaults,   \* bound: failed disk or native calls
  MaxCrashes,  \* bound: process or power failures
  MaxEpochs    \* bound: provider epochs of one journal

VARIABLES
  disk,      \* the source's files
  st,        \* Shared: the live stream's flags, gate and writer lock
  w,         \* the worker thread
  fin,       \* the stream's caller: "idle", "waiting" in finish, its answer, or "dropped"
  sealer,    \* finish's blocking task: "idle", "queued", "done"
  proj,      \* projection between its SQL commit and its acknowledgement
  rows,      \* journal entries the library holds
  shown,     \* finals sent to the session, in order
  accepted,  \* units whose write returned Ok
  faults, crashes

vars == <<disk, st, w, fin, sealer, proj, rows, shown, accepted, faults, crashes>>
thread == <<w, fin, sealer>>
outside == <<proj, rows>>

None == -1

NoProjection == [len |-> None, through |-> None]
NoFiles == [made |-> "none", plan |-> FALSE, processed |-> FALSE, audio |-> 0, synced |-> 0, half |-> FALSE,
            tags |-> 0, raw |-> 0, journal |-> <<>>, torn |-> FALSE, sealed |-> None,
            complete |-> None, projected |-> NoProjection, retired |-> FALSE]
NoStream == [mode |-> "none", stop |-> FALSE, closed |-> FALSE, end |-> 0, fenced |-> FALSE,
             phase |-> "none", failed |-> FALSE, lock |-> "free"]
NoWorker == [pc |-> "none", local |-> FALSE, end |-> 0, cursor |-> 0, sent |-> 0,
             item |-> None, kind |-> "none", tail |-> FALSE, ok |-> FALSE,
             epoch |-> 0]

Init ==
  /\ disk = NoFiles /\ st = NoStream /\ w = NoWorker
  /\ fin = "idle" /\ sealer = "idle" /\ proj = NoProjection
  /\ rows = 0 /\ shown = <<>> /\ accepted = 0 /\ faults = 0 /\ crashes = 0

Fault == faults < MaxFaults /\ faults' = faults + 1

-----------------------------------------------------------------------------
(* The canonical file and its markers. *)

\* committed_through and current_epoch of a journal: an epoch begins at the
\* boundary committed before it.
Switches(j) == {k \in DOMAIN j : j[k].kind = "switch"}
Committed(j) == IF j = <<>> THEN 0 ELSE Last(j).to
Epoch(j) == Cardinality(Switches(j))

\* Owner locks are free: no stream and no worker holds the files.
Unowned == st.mode = "none" /\ w.pc \in {"none", "native"}

\* boundary: a marker covers the whole aligned file, which is then synced.
CanMark(d, through) == ~d.half /\ through = d.audio

\* sealed_end: absent, or equal to the aligned end; anything else is refused.
SealHolds(d) == d.sealed = None \/ CanMark(d, d.sealed)

\* is_complete and is_projected.
IsComplete(d) == SealHolds(d) /\ d.complete # None /\ CanMark(d, d.complete)
IsProjected(d) == /\ IsComplete(d)
                  /\ d.projected # NoProjection
                  /\ d.projected.through = d.audio
                  /\ d.projected.len = Len(d.journal)
                  /\ ~d.torn

\* ReplayWriter::append: proofs of an earlier end go before the bytes come.
Appended(d) == [d EXCEPT !.complete = None, !.projected = NoProjection, !.audio = @ + 1]

\* mark_complete and seal, after boundary's sync.
MarkComplete(d, through) == [d EXCEPT !.complete = through, !.synced = d.audio]
Seal(d) == [d EXCEPT !.sealed = d.audio, !.synced = d.audio]

\* processing::Journal: an interval is recorded and synced before its audio.
Tagged(d, n) == IF d.processed THEN [d EXCEPT !.tags = @ + n] ELSE d

\* processing::validate: tags cover exactly the retained canonical audio.
TagsHold(d) == d.processed => d.tags = d.audio /\ ~d.half

-----------------------------------------------------------------------------
(* The publication gate. *)

\* Shared::terminal: the first outcome stands, and nothing follows it.
Terminal(s, phase) == IF s.fenced THEN s ELSE [s EXCEPT !.fenced = TRUE, !.phase = phase]
Succeeded(s) == IF s.mode = "prefix" THEN "prefixRecovered" ELSE "complete"

\* Mutant: a fenced source still publishes.
Emitted_Unfenced(s, out, e) == out \o <<e>>

\* Shared::emit.
Emitted(s, out, e) == IF s.fenced THEN out ELSE out \o <<e>>

-----------------------------------------------------------------------------
(* Opening a source: open_cloud, open_local and open_prepared, and launch. *)

Modes == {"cloudOnly", "cloud", "local"}

Launch(mode, d, from, to, frozen) ==
  /\ st' = [NoStream EXCEPT !.mode = mode, !.stop = frozen, !.closed = frozen, !.end = to,
                            !.phase = IF mode \in {"cloudOnly", "cloud"} THEN "cloud" ELSE "local"]
  /\ w' = [NoWorker EXCEPT !.pc = "run", !.local = mode \notin {"cloudOnly", "cloud"},
                           !.cursor = from, !.sent = from, !.epoch = Epoch(d.journal)]
  /\ fin' = "idle" /\ sealer' = "idle"

\* The files are made for a fresh source only.  It may declare an audio
\* processor, before capture and for good.
Opens(mode, plan) ==
  /\ disk.made = "none" /\ Unowned /\ w.pc = "none"
  /\ \E processed \in BOOLEAN :
       disk' = [disk EXCEPT !.made = "all", !.plan = plan, !.processed = processed]
  /\ Launch(mode, disk', 0, 0, FALSE)
  /\ UNCHANGED <<outside, shown, accepted, faults, crashes>>

OpenCloud == Opens("cloudOnly", FALSE)
OpenLocal == Opens("local", TRUE)
OpenPrepared == Opens("cloud", TRUE)

\* A file of the set cannot be made: the recording goes on without this source.
OpenFails ==
  /\ disk.made = "none" /\ Fault
  /\ disk' = [disk EXCEPT !.made = "audio"]
  /\ UNCHANGED <<st, thread, outside, shown, accepted, crashes>>

-----------------------------------------------------------------------------
(* write and write_processed, on the capture pump.  The stop flag is read   *)
(* under the writer lock, and set without it.                               *)

WriteEnters ==
  /\ st.mode \in Modes /\ ~st.stop /\ st.lock = "free" /\ disk.raw < MaxAudio
  /\ st' = [st EXCEPT !.lock = "write"]
  /\ disk' = [disk EXCEPT !.raw = @ + 1]
  /\ UNCHANGED <<thread, outside, shown, accepted, faults, crashes>>

\* The tag is synced first, then the audio appended; a sync a second apart.
WriteAppends ==
  /\ st.lock = "write" /\ ~st.failed
  /\ \E synced \in {disk.synced, disk.audio + 1} :
       disk' = [Appended(Tagged(disk, 1)) EXCEPT !.synced = synced]
  /\ st' = [st EXCEPT !.lock = "free", !.end = disk'.audio]
  /\ accepted' = accepted + 1
  /\ UNCHANGED <<thread, outside, shown, faults, crashes>>

\* A disk error poisons the writer and ends publication.  The file may hold
\* half of the sample, or all of it without the writer counting it.
WriteFails ==
  /\ st.lock = "write"
  /\ \/ st.failed /\ UNCHANGED <<disk, faults>>
     \/ /\ ~st.failed /\ Fault
        /\ \E half \in BOOLEAN, tag \in {0, 1}, whole \in {0, 1} :
             /\ whole = 1 => tag = 1 /\ ~half
             /\ disk' = [Tagged(disk, tag) EXCEPT !.complete = None, !.half = half,
                                                  !.projected = NoProjection, !.audio = @ + whole]
  /\ st' = [Terminal(st, "incomplete") EXCEPT !.lock = "free", !.failed = TRUE]
  /\ UNCHANGED <<thread, outside, shown, accepted, crashes>>

-----------------------------------------------------------------------------
(* finish, and Drop.  Recovery watches a resumed source and never calls    *)
(* finish on it.                                                            *)

FinishStarts ==
  /\ st.mode \in Modes /\ fin = "idle"
  /\ st' = [st EXCEPT !.stop = TRUE]
  /\ fin' = "waiting" /\ sealer' = "queued"
  /\ UNCHANGED <<disk, w, outside, shown, accepted, faults, crashes>>

\* Writer::seal, under the writer lock; input_closed is stored after it.
SealRuns ==
  /\ sealer = "queued" /\ st.mode # "none" /\ st.lock = "free"
  /\ sealer' = "done"
  /\ \/ /\ ~st.failed /\ SealHolds(disk) /\ CanMark(disk, disk.audio)
        /\ disk' = Seal(disk)
        /\ st' = [st EXCEPT !.closed = TRUE]
        /\ UNCHANGED faults
     \/ /\ \/ (st.failed \/ ~SealHolds(disk) \/ disk.half) /\ UNCHANGED faults
           \/ Fault
        /\ st' = [Terminal(st, "incomplete") EXCEPT !.closed = TRUE]
        /\ UNCHANGED disk
  /\ UNCHANGED <<w, fin, outside, shown, accepted, crashes>>

\* The native state is gone (done), or only the data owners are (published).
WorkerIsDone == w.pc = "none" \/ (st.mode = "local" /\ w.pc = "native")

FinishReturns ==
  /\ fin = "waiting" /\ sealer = "done" /\ WorkerIsDone
  /\ fin' = IF st.phase = "complete" THEN "true" ELSE "false"
  /\ UNCHANGED <<disk, st, w, sealer, outside, shown, accepted, faults, crashes>>

\* stop_timeout: the fence falls, whatever the worker and the seal still do.
FinishTimesOut ==
  /\ fin = "waiting"
  /\ st' = Terminal(st, "incomplete")
  /\ fin' = "false"
  /\ UNCHANGED <<disk, w, sealer, outside, shown, accepted, faults, crashes>>

\* The stream is dropped: after finish answered, or instead of it.  A write in
\* progress borrows the stream.
Drop ==
  /\ st.mode # "none" /\ fin # "waiting" /\ sealer # "queued" /\ st.lock = "free"
  /\ w.pc \in {"none", "native"}
  /\ st' = NoStream
  /\ UNCHANGED <<disk, thread, outside, shown, accepted, faults, crashes>>

DropWhileWorking ==
  /\ st.mode # "none" /\ fin # "waiting" /\ st.lock = "free"
  /\ w.pc \notin {"none", "native"}
  /\ ~(st.stop /\ st.closed /\ st.fenced)
  /\ st' = [Terminal(st, "incomplete") EXCEPT !.stop = TRUE, !.closed = TRUE]
  /\ fin' = IF fin = "idle" THEN "dropped" ELSE fin
  /\ UNCHANGED <<disk, w, sealer, outside, shown, accepted, faults, crashes>>

-----------------------------------------------------------------------------
(* The worker's loop (Worker::run). *)

Ends(ok) == w' = [NoWorker EXCEPT !.pc = "exit", !.ok = ok]
others == <<fin, sealer, outside, accepted, crashes>>

Fenced ==
  /\ w.pc \in {"run"} /\ st.fenced
  /\ Ends(FALSE)
  /\ UNCHANGED <<disk, st, shown, faults, others>>

\* A confirmed final of audio the transport was given.
CloudFinal ==
  /\ w.pc = "run" /\ ~w.local /\ ~st.fenced
  /\ \E to \in Committed(disk.journal) + 1 .. w.sent :
       w' = [w EXCEPT !.pc = "commit", !.item = to, !.kind = "text"]
  /\ UNCHANGED <<disk, st, shown, faults, others>>

\* An error the policy surfaces, or any end of the transport without a fallback.
CloudSurfaces ==
  /\ w.pc = "run" /\ ~w.local /\ Fault
  /\ Ends(FALSE)
  /\ UNCHANGED <<disk, st, shown, others>>

\* demote_local: the policy's switch, the transport's end or the settle time.
\* The aborted transport's events are dropped with it.
Demote ==
  /\ w.pc \in {"run", "closing"} /\ ~w.local
  /\ IF ~disk.plan
     THEN Ends(FALSE) /\ UNCHANGED <<disk, st, faults>>
     ELSE \/ /\ disk' = [disk EXCEPT !.journal = @ \o
                          <<[kind |-> "switch", from |-> Committed(@), to |-> Committed(@)]>>]
             /\ IF st.fenced THEN Ends(FALSE) /\ UNCHANGED st
                ELSE /\ w' = [w EXCEPT !.pc = "run", !.local = TRUE, !.epoch = @ + 1,
                                       !.cursor = Committed(disk.journal)]
                     /\ st' = [st EXCEPT !.phase = "local"]
             /\ UNCHANGED faults
          \/ /\ Fault /\ disk' = [disk EXCEPT !.torn = TRUE]
             /\ Ends(FALSE) /\ UNCHANGED st
  /\ UNCHANGED <<shown, others>>

\* The end is read once an iteration, before the input_closed flag.
LoadEnd ==
  /\ w.pc = "run" /\ ~st.fenced
  /\ w' = [w EXCEPT !.end = st.end, !.pc = "step"]
  /\ UNCHANGED <<disk, st, shown, faults, others>>

\* Mutant: the cloud path never looks at input_closed.
CloudStep_NeverCloses ==
  /\ w.pc = "step" /\ ~w.local
  /\ \E sent \in {w.sent, w.end} : w' = [w EXCEPT !.sent = sent, !.pc = "run"]
  /\ UNCHANGED <<disk, st, shown, faults, others>>

\* write_bounded takes the audio, or its queue is full.
CloudStep ==
  /\ w.pc = "step" /\ ~w.local
  /\ \E sent \in {w.sent, w.end} :
       w' = [w EXCEPT !.sent = sent,
                      !.pc = IF ~st.closed THEN "run"
                             ELSE IF Committed(disk.journal) = w.end THEN "complete"
                             ELSE "closing"]
  /\ UNCHANGED <<disk, st, shown, faults, others>>

\* Input closed and not all committed: keep draining until cloud_settle.
CloudSettles ==
  /\ w.pc = "closing" /\ w' = [w EXCEPT !.pc = "run"]
  /\ UNCHANGED <<disk, st, shown, faults, others>>

\* A read of the local path: the endpointer closes an utterance, finds the
\* audio silent so far, or keeps it.
LocalStep ==
  /\ w.pc = "step" /\ w.local
  /\ LET read == [w EXCEPT !.cursor = w.end]
         from == Committed(disk.journal)
     IN  IF w.cursor < w.end
         THEN \/ \E to \in from + 1 .. w.end :
                   w' = [read EXCEPT !.pc = "infer", !.item = to]
              \/ \E to \in from + 1 .. w.end :
                   w' = [read EXCEPT !.pc = "commit", !.item = to, !.kind = "silence"]
              \/ w' = [read EXCEPT !.pc = "check"]
         ELSE w' = [w EXCEPT !.pc = "check"]
  /\ UNCHANGED <<disk, st, shown, faults, others>>

\* Recognizer::transcribe: text; a helper failure that may be retried is a
\* gap; any other ends the source.
Infer ==
  /\ w.pc = "infer"
  /\ \/ /\ ~st.fenced /\ w' = [w EXCEPT !.pc = "commit", !.kind = "text"] /\ UNCHANGED faults
     \/ /\ ~st.fenced /\ Fault /\ w' = [w EXCEPT !.pc = "commit", !.kind = "gap"]
     \/ /\ st.fenced /\ Ends(FALSE) /\ UNCHANGED faults
     \/ /\ Fault /\ Ends(FALSE)
  /\ UNCHANGED <<disk, st, shown, others>>

Entry == [kind |-> w.kind, from |-> Committed(disk.journal), to |-> w.item]

\* CoverageJournal::record: sync the audio, then append and sync the receipt.
Recorded(d, e) == [d EXCEPT !.journal = @ \o <<e>>, !.synced = d.audio]

\* Mutant: the final is shown before its receipt is safe.
Commit_ShownFirst ==
  /\ w.pc = "commit"
  /\ shown' = Emitted(st, shown, Entry)
  /\ \/ disk' = Recorded(disk, Entry) /\ w' = [w EXCEPT !.pc = "run"] /\ UNCHANGED faults
     \/ Fault /\ Ends(FALSE) /\ UNCHANGED disk
  /\ UNCHANGED <<st, others>>

\* commit and skip: fenced first; the receipt before anything is shown.  A
\* failed append leaves nothing, a torn line or the whole line.
Commit ==
  /\ w.pc = "commit"
  /\ IF st.fenced \/ w.epoch # Epoch(disk.journal)
     THEN Ends(FALSE) /\ UNCHANGED <<disk, faults>>
     ELSE \/ /\ disk' = Recorded(disk, Entry)
             /\ w' = [w EXCEPT !.pc = "publish"]
             /\ UNCHANGED faults
          \/ /\ Fault
             /\ \/ disk' = [disk EXCEPT !.torn = TRUE, !.synced = disk.audio]
                \/ disk' = Recorded(disk, Entry)
                \/ UNCHANGED disk
             /\ Ends(FALSE)
  /\ UNCHANGED <<st, shown, others>>

Publish ==
  /\ w.pc = "publish"
  /\ shown' = IF w.kind = "text" THEN Emitted(st, shown, Last(disk.journal)) ELSE shown
  /\ w' = [w EXCEPT !.item = None, !.kind = "none",
                    !.pc = IF w.tail THEN "complete" ELSE IF w.local THEN "check" ELSE "run"]
  /\ UNCHANGED <<disk, st, faults, others>>

\* The end of a local iteration.
LocalCheck ==
  /\ w.pc = "check"
  /\ IF st.closed /\ w.cursor = w.end
     THEN LET left == Committed(disk.journal) < w.end
          IN  \/ w' = [w EXCEPT !.pc = "infer", !.item = w.end, !.tail = TRUE] /\ left
              \/ w' = [w EXCEPT !.pc = "commit", !.item = w.end, !.kind = "silence",
                                !.tail = TRUE] /\ left
              \/ w' = [w EXCEPT !.pc = "complete"] /\ ~left
     ELSE w' = [w EXCEPT !.pc = "run"]
  /\ UNCHANGED <<disk, st, shown, faults, others>>

\* Mutant: the marker is written for the end the worker knows.
Complete_Unchecked ==
  /\ w.pc = "complete"
  /\ disk' = MarkComplete(disk, disk.audio)
  /\ Ends(TRUE)
  /\ UNCHANGED <<st, shown, faults, others>>

\* Worker::complete and mark_complete.
Complete ==
  /\ w.pc = "complete"
  /\ \/ /\ ~st.fenced /\ st.closed /\ Committed(disk.journal) = w.end
        /\ IF st.mode = "prefix" THEN UNCHANGED disk
           ELSE SealHolds(disk) /\ CanMark(disk, w.end) /\ disk' = MarkComplete(disk, w.end)
        /\ Ends(TRUE) /\ UNCHANGED faults
     \/ /\ \/ st.fenced \/ ~st.closed \/ Committed(disk.journal) # w.end
           \/ st.mode # "prefix" /\ ~(SealHolds(disk) /\ CanMark(disk, w.end))
        /\ Ends(FALSE) /\ UNCHANGED <<disk, faults>>
     \/ st.mode # "prefix" /\ Fault /\ Ends(FALSE) /\ UNCHANGED disk
  /\ UNCHANGED <<st, shown, others>>

\* The thread drops its owners, states the outcome, and frees the model last.
WorkerExits ==
  /\ w.pc = "exit"
  /\ st' = Terminal(st, IF w.ok THEN Succeeded(st) ELSE "incomplete")
  /\ w' = [w EXCEPT !.pc = "native"]
  /\ UNCHANGED <<disk, shown, faults, others>>

NativeExits ==
  /\ w.pc = "native" /\ w' = NoWorker
  /\ UNCHANGED <<disk, st, shown, faults, others>>

-----------------------------------------------------------------------------
(* Crash, and recovery from the files. *)

\* Unsynced audio may be lost from the end; synced files are not.
Crash ==
  /\ crashes < MaxCrashes /\ crashes' = crashes + 1
  /\ \E audio \in disk.synced .. disk.audio, half \in BOOLEAN :
       /\ half => audio < disk.audio
       /\ \E raw \in audio .. disk.raw :
            disk' = [disk EXCEPT !.audio = audio, !.raw = raw,
                                 !.half = half \/ (@ /\ audio = disk.audio)]
  /\ st' = NoStream /\ w' = NoWorker /\ fin' = "idle" /\ sealer' = "idle"
  /\ proj' = NoProjection
  /\ UNCHANGED <<rows, shown, accepted, faults>>

\* resume_saved, whole (through = audio) or a prefix.  The model is made only
\* for pending audio; a whole resume seals, then records its epoch.
Repaired(d, prefix) == [d EXCEPT !.half = IF prefix THEN @ ELSE FALSE, !.torn = FALSE]

CanResume(prefix) ==
  /\ disk.made = "all" /\ disk.plan /\ ~disk.retired /\ Epoch(disk.journal) < MaxEpochs
  /\ Unowned /\ w.pc = "none" /\ proj = NoProjection
  /\ TagsHold(disk)
  /\ SealHolds(Repaired(disk, prefix))

Resume ==
  \E prefix \in BOOLEAN : \E through \in Committed(disk.journal) .. disk.audio :
    LET d == Repaired(disk, prefix)
        pending == Committed(d.journal) < through
        frozen == IF prefix THEN d ELSE Seal(d)
        resumed == IF pending
                   THEN [frozen EXCEPT !.journal = @ \o
                           <<[kind |-> "switch", from |-> Committed(@), to |-> Committed(@)]>>]
                   ELSE frozen
    IN  /\ CanResume(prefix)
        /\ prefix \/ through = disk.audio
        /\ disk' = resumed
        /\ Launch(IF prefix THEN "prefix" ELSE "resume", resumed,
                  Committed(d.journal), through, TRUE)
        /\ UNCHANGED <<outside, shown, accepted, faults, crashes>>

\* The model is not there, the seal fails, or the epoch cannot be recorded.
ResumeFails ==
  /\ CanResume(FALSE) /\ Fault
  /\ LET d == Repaired(disk, FALSE)
     IN  disk' \in {d, Seal(d), [Seal(d) EXCEPT !.torn = TRUE]}
  /\ UNCHANGED <<st, thread, outside, shown, accepted, crashes>>

\* complete_confirmed_source: everything is committed, only the proof is missing.
CompleteConfirmed ==
  /\ disk.made = "all" /\ ~disk.retired /\ Unowned /\ proj = NoProjection
  /\ ~IsComplete(disk)
  /\ LET d == Repaired(disk, FALSE)
     IN  /\ SealHolds(d) /\ Committed(d.journal) = d.audio
         /\ disk' = MarkComplete(Seal(d), d.audio)
  /\ UNCHANGED <<st, thread, outside, shown, accepted, faults, crashes>>

\* validate_reconstruction_markers, and restore.
ProofsAllow(d, end) ==
  {d.sealed, d.complete, d.projected.through} \subseteq {None, end}
Restored(d, end) == [d EXCEPT !.audio = end, !.synced = end, !.half = FALSE]

\* raw_replay::repair with ReconstructionOwner: the lost end is made again from
\* the raw capture, when no marker contradicts the longer audio.
Restore ==
  /\ disk.made = "all" /\ ~disk.retired /\ Unowned /\ ~disk.processed
  /\ crashes > 0 /\ proj = NoProjection
  /\ disk.plan /\ disk.audio < disk.raw /\ ProofsAllow(disk, disk.raw)
  /\ disk' = Restored(disk, disk.raw)
  /\ UNCHANGED <<st, thread, outside, shown, accepted, faults, crashes>>

-----------------------------------------------------------------------------
(* The library, and retirement. *)

\* finalize_speech_capture commits a snapshot of the journal, whoever owns it.
Project ==
  /\ disk.made = "all" /\ ~disk.retired /\ proj = NoProjection
  /\ st.mode \notin Modes \/ fin \in {"true", "false"}
  /\ rows' = Len(disk.journal)
  /\ proj' = [len |-> Len(disk.journal), through |-> Committed(disk.journal)]
  /\ UNCHANGED <<disk, st, thread, shown, accepted, faults, crashes>>

\* mark_projected: only a complete source, only the journal that was committed.
Acknowledge ==
  /\ proj # NoProjection /\ proj' = NoProjection
  /\ disk' = IF /\ IsComplete(disk) /\ disk.audio = proj.through
                /\ Len(disk.journal) = proj.len /\ ~disk.torn
             THEN [disk EXCEPT !.projected = proj]
             ELSE disk
  /\ UNCHANGED <<st, thread, rows, shown, accepted, faults, crashes>>

\* retirement_guard: both owner locks, complete and projected.
Retire ==
  /\ disk.made = "all" /\ ~disk.retired /\ Unowned /\ IsProjected(disk)
  /\ disk' = [disk EXCEPT !.retired = TRUE]
  /\ UNCHANGED <<st, thread, outside, shown, accepted, faults, crashes>>

-----------------------------------------------------------------------------

Worker == \/ Fenced \/ CloudFinal \/ CloudSurfaces \/ Demote \/ LoadEnd \/ CloudStep
          \/ CloudSettles \/ LocalStep \/ Infer \/ Commit \/ Publish \/ LocalCheck
          \/ Complete \/ WorkerExits \/ NativeExits
Stop == \/ FinishStarts \/ SealRuns \/ FinishReturns \/ FinishTimesOut
        \/ Drop \/ DropWhileWorking
Next == \/ OpenCloud \/ OpenLocal \/ OpenPrepared \/ OpenFails \/ WriteEnters \/ WriteAppends \/ WriteFails
        \/ Worker \/ Stop
        \/ Crash \/ Resume \/ ResumeFails \/ CompleteConfirmed \/ Restore
        \/ Project \/ Acknowledge \/ Retire

Spec == Init /\ [][Next]_vars

\* The worker thread and the recognizer it waits on keep running; cloud_settle
\* passes after input closed, so a cloud that never answers is left.
FairSpec == /\ Spec
            /\ WF_vars(Fenced \/ LoadEnd \/ CloudStep \/ CloudSettles \/ LocalStep \/ Infer
                       \/ Commit \/ Publish \/ LocalCheck \/ Complete)
            /\ SF_vars(w.pc = "closing" /\ Demote)
            /\ WF_vars(WorkerExits) /\ WF_vars(NativeExits) /\ WF_vars(SealRuns)

-----------------------------------------------------------------------------
(* Properties. *)

\* A receipt never covers audio that a crash could still take away: record
\* syncs the canonical file before the receipt is appended.
ReceiptsAreSafe == Committed(disk.journal) <= disk.synced

\* Every final the session was shown is a receipt on disk, through any crash,
\* and no audio was shown twice, by whichever engine or run of the program.
ShownOnce ==
  /\ \A i \in DOMAIN shown : \E k \in DOMAIN disk.journal : disk.journal[k] = shown[i]
  /\ \A i, j \in DOMAIN shown : i < j => shown[i].to <= shown[j].from

\* Whenever the completion marker is believed, every sample of the file is
\* accounted for by a receipt: no write, crash or restore slips behind it.
CompletionIsTrue == IsComplete(disk) => Committed(disk.journal) = disk.audio

\* finish answers true only for a source whose accepted audio is all there,
\* all accounted for and marked so.
TrueMeansComplete ==
  fin = "true" => IsComplete(disk) /\ disk.audio = accepted

\* Once finish has answered, or the stream is dropped, a late result of the
\* worker is not shown.
NothingAfterAnswer ==
  [][(fin \in {"true", "false", "dropped"} /\ fin' = fin) => shown' = shown]_vars

\* Canonical audio is retired only when the library holds every receipt of a
\* journal that accounts for all of it.
RetiredIsInLibrary ==
  disk.retired => rows = Len(disk.journal) /\ Committed(disk.journal) = disk.audio

\* What was shown was durable first, and is shown once.
ReceiptsHold == ReceiptsAreSafe /\ ShownOnce

\* What the completion marker, finish's answer and the retirement of the files
\* claim of the audio is so.
ClaimsAreTrue == CompletionIsTrue /\ TrueMeansComplete /\ RetiredIsInLibrary

\* A stopped source does not keep its native recognizer for ever.
WorkerEnds == st.closed ~> w.pc = "none"
=============================================================================
