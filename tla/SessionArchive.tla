--------------------------- MODULE SessionArchive ---------------------------
(***************************************************************************)
(* How the audio of one finished session becomes durable media: persist,    *)
(* claim, encode, publish, stamp and retire (fotw-pipeline/src/promote.rs,  *)
(* wal.rs), driven by the recorder that made the session and by the sweeper *)
(* that resumes and then applies retention (fotwd/src/retention.rs), while  *)
(* a user may delete the meeting (fotw-store/src/delete.rs), the speech     *)
(* recovery worker may own the capture, and the process may die.            *)
(*                                                                          *)
(* One session, one meeting: sessions share no file.  The manifest is read  *)
(* and rewritten whole by several actors, and only encode_session and       *)
(* publish hold the capture-owner lock, so a read and the write that uses   *)
(* it are separate steps and `snap' is what the actor read.                 *)
(*                                                                          *)
(* Abstracted: paths, byte counts and formats (a track is there whole or it *)
(* is not; every encode of the same PCM verifies alike), and the speech     *)
(* journals (`replay' is how far they are).  A directory removal is one     *)
(* step.  The session is one the store links to its meeting: every path     *)
(* with a capture clock does.                                               *)
(***************************************************************************)
EXTENDS Naturals, FiniteSets

CONSTANTS Sweepers,   \* the daemon's sweeper and `fotwd retention' processes
          MaxFaults   \* bound on crashes and I/O errors

Recorder == "recorder"   \* persist_and_promote, at the end of the recording
Eraser   == "eraser"     \* a caller of Db::delete_meeting
Speech   == "speech"     \* the saved-speech-recovery worker
NoOne    == "no one"

ASSUME SweepersAssumption ==
  {Recorder, Eraser, Speech, NoOne} \cap Sweepers = {}
ASSUME MaxFaultsAssumption == MaxFaults \in Nat

Legs      == {"system", "mic"}
Promoters == Sweepers \cup {Recorder}
Actors    == Promoters \cup {Eraser}

VARIABLES
  dir,       \* the session directory: as recorded, renamed .retired, or removed
  manifest,  \* manifest.json
  inplace,   \* system.opus and mic.opus beside the PCM
  owner,     \* who holds capture-owner.lock
  replay,    \* the canonical speech input, if any, and its transcript
  dest,      \* media/<yyyy>/<mm>/<meeting> exists
  parts,     \* <leg>.opus.part in it
  media,     \* <leg>.opus in it
  meeting,   \* the meeting's row, or its tombstone
  rows,      \* recordings rows of the meeting
  expired,   \* plan_sweep now evicts this meeting
  evicted,   \* ghost: legs whose published file a sweep has unlinked
  erased,    \* ghost: a delete_meeting has run to its end
  pc, snap, todo,   \* where each actor is, the manifest it read, legs left to do
  faults

files   == <<dir, manifest, inplace, dest, parts, media>>
library == <<meeting, rows, expired, evicted, erased>>
locals  == <<snap, todo>>
vars    == <<files, owner, replay, library, pc, locals, faults>>

Manifests == [ended : BOOLEAN, claim : BOOLEAN,
              encoded : {"none", "inplace", "generation"}, promoted : BOOLEAN]
Blank == [ended |-> FALSE, claim |-> FALSE, encoded |-> "none", promoted |-> FALSE]

Init ==
  /\ dir = "live" /\ manifest = Blank /\ inplace = "none" /\ owner = Recorder
  /\ replay \in {"none", "pending"}
  /\ dest = FALSE /\ parts = {} /\ media = {}
  /\ meeting = "none" /\ rows = [l \in Legs |-> "none"]
  /\ expired = FALSE /\ evicted = {} /\ erased = FALSE
  /\ pc = [a \in Actors |-> IF a = Recorder THEN "recording" ELSE "idle"]
  /\ snap = [a \in Actors |-> Blank] /\ todo = [a \in Actors |-> {}]
  /\ faults = 0

-----------------------------------------------------------------------------
(* Helpers. *)

Go(a, where) == pc' = [pc EXCEPT ![a] = where]

\* Where an actor is when its handler has returned an error: the recorder logs
\* it and is done, the sweeper goes on to apply retention.
AfterError(a) == IF a \in Sweepers THEN "sweep" ELSE "failed"
AfterSuccess(a) == CASE a \in Sweepers -> "sweep"
                     [] a = Recorder   -> "done"
                     [] OTHER          -> "idle"

\* Dropping the CaptureOwner, if this actor has it.
Released(a) == IF owner = a THEN NoOne ELSE owner

\* The locals of a handler that returns.
Forget(a) == /\ snap' = [snap EXCEPT ![a] = Blank]
             /\ todo' = [todo EXCEPT ![a] = {}]

\* The handler returns an error here; nothing it did is undone.
Abort(a) == /\ Go(a, AfterError(a)) /\ owner' = Released(a) /\ Forget(a)
            /\ UNCHANGED <<files, replay, library, faults>>

\* retirement_guard: no speech input, or all of it complete and projected.
Transcribed == replay \in {"none", "projected"}

\* persist_session marks a complete replay as projected.
Projected == IF replay = "complete" THEN "projected" ELSE replay

\* verify: both published tracks are there, whole.
PublishedVerifies == Legs \subseteq media

\* verify_encoded_track on the tracks the manifest names.
EncodedVerifies(m) == m.encoded = "inplace" => inplace = "whole"

\* The tracks go in this order.
NextLeg(legs) == IF "system" \in legs THEN "system" ELSE "mic"

-----------------------------------------------------------------------------
(* The recorder: finalize the WAL, persist the meeting, claim the session. *)

\* SessionWal::finalize, which consumes the WAL and drops its lock.
Finalize ==
  /\ pc[Recorder] = "recording"
  /\ manifest' = [manifest EXCEPT !.ended = TRUE] /\ owner' = NoOne
  /\ \/ replay' = replay
     \/ replay = "pending" /\ replay' = "complete"
  /\ Go(Recorder, "persist")
  /\ UNCHANGED <<dir, inplace, dest, parts, media, library, locals, faults>>

\* persist_session: one transaction, idempotent through the capture link, and
\* refused once the capture was deleted.
PersistMeeting ==
  /\ pc[Recorder] = "persist"
  /\ \/ /\ meeting # "deleted"
        /\ meeting' = "ready" /\ replay' = Projected /\ Go(Recorder, "exists")
        /\ UNCHANGED <<files, owner, rows, expired, evicted, erased, locals, faults>>
     \/ meeting = "deleted" /\ Abort(Recorder)

\* promote_session: meeting_exists.
CheckMeeting ==
  /\ pc[Recorder] = "exists"
  /\ \/ /\ meeting = "ready" /\ Go(Recorder, "claim")
        /\ UNCHANGED <<files, owner, replay, library, locals, faults>>
     \/ meeting # "ready" /\ Abort(Recorder)

\* Reading the manifest to rewrite it; used by claim and by stamp.
ReadManifest(p, from, to) ==
  /\ pc[p] = from
  /\ \/ /\ dir = "live" /\ snap' = [snap EXCEPT ![p] = manifest] /\ Go(p, to)
        /\ UNCHANGED <<files, owner, replay, library, todo, faults>>
     \/ dir # "live" /\ Abort(p)

\* write_manifest_at: the whole document, by rename.
WriteManifest(p, m, to) ==
  \/ /\ dir = "live" /\ manifest' = m
     /\ snap' = [snap EXCEPT ![p] = Blank] /\ Go(p, to)
     /\ owner' = Released(p)
     /\ UNCHANGED <<dir, inplace, dest, parts, media, replay, library,
                    todo, faults>>
  \/ dir # "live" /\ Abort(p)

ClaimRead  == ReadManifest(Recorder, "claim", "claimWrite")
ClaimWrite ==
  /\ pc[Recorder] = "claimWrite"
  /\ WriteManifest(Recorder, [snap[Recorder] EXCEPT !.claim = TRUE], "refresh")

-----------------------------------------------------------------------------
(* publish_claimed: what the recorder and a resuming sweeper both run. *)

\* refresh_speech_projection: nothing to do without journals, an error when
\* the capture is no longer linked to the meeting.
Refresh(p) ==
  /\ pc[p] = "refresh"
  /\ \/ /\ replay = "none" \/ (meeting = "ready" /\ dir = "live")
        /\ replay' = Projected /\ Go(p, "promote")
        /\ UNCHANGED <<files, owner, library, locals, faults>>
     \/ /\ replay # "none" /\ ~(meeting = "ready" /\ dir = "live")
        /\ Abort(p)

\* promote: already published and still there, or the whole sequence.
PromoteStart(p) ==
  /\ pc[p] = "promote"
  /\ \/ /\ dir = "live" /\ manifest.ended /\ manifest.claim
        /\ Go(p, IF manifest.promoted /\ PublishedVerifies THEN "retire" ELSE "encode")
        /\ UNCHANGED <<files, owner, replay, library, locals, faults>>
     \/ ~(dir = "live" /\ manifest.ended /\ manifest.claim) /\ Abort(p)

\* encode's own look at the manifest, before any lock.
EncodeCheck(p) ==
  /\ pc[p] = "encode"
  /\ \/ /\ dir = "live"
        /\ Go(p, IF manifest.encoded # "none" THEN "publish" ELSE "encodeStart")
        /\ UNCHANGED <<files, owner, replay, library, locals, faults>>
     \/ dir # "live" /\ Abort(p)

\* encode_session takes the lock and starts writing Opus: beside the PCM if
\* nothing of that name is there, otherwise in a generation of its own.
EncodesInPlace == manifest.encoded = "none" /\ inplace = "none"

EncodeStart(p) ==
  /\ pc[p] = "encodeStart"
  /\ \/ /\ dir = "live" /\ owner = NoOne
        /\ owner' = p
        /\ inplace' = IF EncodesInPlace THEN "torn" ELSE inplace
        /\ snap' = [snap EXCEPT ![p] =
             [manifest EXCEPT !.encoded =
                IF EncodesInPlace THEN "inplace" ELSE "generation"]]
        /\ Go(p, "encoding")
        /\ UNCHANGED <<dir, manifest, dest, parts, media, replay, library,
                       todo, faults>>
     \/ ~(dir = "live" /\ owner = NoOne) /\ Abort(p)

\* Both tracks are finished and synced.
EncodeFinish(p) ==
  /\ pc[p] = "encoding"
  /\ inplace' = IF snap[p].encoded = "inplace" THEN "whole" ELSE inplace
  /\ Go(p, "encodeWrite")
  /\ UNCHANGED <<dir, manifest, dest, parts, media, owner, replay, library, locals, faults>>

\* The manifest names the encode; the lock goes with the return.
EncodeWrite(p) ==
  /\ pc[p] = "encodeWrite" /\ WriteManifest(p, snap[p], "publish")

\* publish: the lock, the manifest, every encoded track verified.
PublishStart(p) ==
  /\ pc[p] = "publish"
  /\ \/ /\ dir = "live" /\ owner = NoOne
        /\ manifest.ended /\ manifest.claim /\ manifest.encoded # "none"
        /\ EncodedVerifies(manifest)
        /\ owner' = p /\ Go(p, "mkdir")
        /\ UNCHANGED <<files, replay, library, locals, faults>>
     \/ /\ ~(dir = "live" /\ owner = NoOne /\ manifest.ended /\ manifest.claim
             /\ manifest.encoded # "none" /\ EncodedVerifies(manifest))
        /\ Abort(p)

\* create_dir_all on the destination.
MakeDest(p) ==
  /\ pc[p] = "mkdir"
  /\ dest' = TRUE /\ todo' = [todo EXCEPT ![p] = Legs] /\ Go(p, "open")
  /\ UNCHANGED <<dir, manifest, inplace, parts, media, owner, replay, library, snap, faults>>

\* copy_durably opens the source first ...
OpenSource(p) ==
  /\ pc[p] = "open"
  /\ \/ /\ dir = "live" /\ Go(p, "create")
        /\ UNCHANGED <<files, owner, replay, library, locals, faults>>
     \/ dir # "live" /\ Abort(p)

\* ... then creates, writes and syncs the part ...
CreatePart(p) ==
  /\ pc[p] = "create"
  /\ \/ /\ dest /\ parts' = parts \cup {NextLeg(todo[p])} /\ Go(p, "rename")
        /\ UNCHANGED <<dir, manifest, inplace, dest, media, owner, replay, library,
                       locals, faults>>
     \/ ~dest /\ Abort(p)

\* ... and publish_one renames it onto the final name; publish drops the lock
\* after the last track.
RenamePart(p) ==
  LET l == NextLeg(todo[p]) IN
  /\ pc[p] = "rename"
  /\ \/ /\ l \in parts
        /\ parts' = parts \ {l} /\ media' = media \cup {l}
        /\ evicted' = evicted \ {l}
        /\ todo' = [todo EXCEPT ![p] = @ \ {l}]
        /\ Go(p, IF todo[p] = {l} THEN "stamp" ELSE "open")
        /\ owner' = IF todo[p] = {l} THEN NoOne ELSE owner
        /\ UNCHANGED <<dir, manifest, inplace, dest, replay, meeting, rows, expired,
                       erased, snap, faults>>
     \/ l \notin parts /\ Abort(p)

\* stamp: the commit point, without the lock.
StampRead(p)  == ReadManifest(p, "stamp", "stampWrite")
StampWrite(p) ==
  /\ pc[p] = "stampWrite"
  /\ WriteManifest(p, [snap[p] EXCEPT !.promoted = TRUE], "retire")

\* Mutant: retire does not ask for the replay guard.
RetireVerify_IgnoresReplay(p) ==
  /\ pc[p] = "retire" /\ dir = "live" /\ owner = NoOne
  /\ manifest.promoted /\ PublishedVerifies
  /\ owner' = p /\ Go(p, "retireRename")
  /\ UNCHANGED <<files, replay, library, locals, faults>>

\* retire, up to the rename: lock, verify what is published, replay guard.  A
\* held lock and unfinished speech are PendingTranscription: the directory
\* stays and the promotion has succeeded.
RetireVerify(p) ==
  /\ pc[p] = "retire"
  /\ \/ /\ dir = "live" /\ owner = NoOne
        /\ manifest.promoted /\ PublishedVerifies /\ Transcribed
        /\ owner' = p /\ Go(p, "retireRename")
        /\ UNCHANGED <<files, replay, library, locals, faults>>
     \/ /\ dir = "live"
        /\ owner # NoOne \/ (manifest.promoted /\ PublishedVerifies /\ ~Transcribed)
        /\ Go(p, "tombstone")
        /\ UNCHANGED <<files, owner, replay, library, locals, faults>>
     \/ /\ dir # "live" \/ (owner = NoOne /\ ~(manifest.promoted /\ PublishedVerifies))
        /\ Abort(p)

\* The atomic rename to .retired, after which the locks go.
RetireRename(p) ==
  /\ pc[p] = "retireRename"
  /\ \/ /\ dir = "live" /\ dir' = "retired" /\ owner' = NoOne
        /\ Go(p, "retireRemove")
        /\ UNCHANGED <<manifest, inplace, dest, parts, media, replay, library, locals, faults>>
     \/ dir # "live" /\ Abort(p)

\* remove_dir_all of the retired directory: an error if it is already gone.
RetireRemove(p) ==
  /\ pc[p] = "retireRemove"
  /\ \/ /\ dir = "retired" /\ dir' = "gone" /\ Go(p, "tombstone")
        /\ UNCHANGED <<manifest, inplace, dest, parts, media, owner, replay, library,
                       locals, faults>>
     \/ dir # "retired" /\ Abort(p)

\* publish_claimed looks for a tombstone written meanwhile and, if there is
\* one, deletes again: the transaction adds nothing, the unlinking does.
CheckTombstone(p) ==
  /\ pc[p] = "tombstone"
  /\ \/ meeting = "deleted" /\ Go(p, "unlinkSession") /\ todo' = todo
     \/ meeting # "deleted" /\ Go(p, "record") /\ todo' = [todo EXCEPT ![p] = Legs]
  /\ UNCHANGED <<files, owner, replay, library, snap, faults>>

\* record: one upsert per track, refused when the meeting is gone.
Record(p) ==
  LET l == NextLeg(todo[p]) IN
  /\ pc[p] = "record"
  /\ \/ /\ meeting = "ready"
        /\ rows' = [rows EXCEPT ![l] = "complete"]
        /\ todo' = [todo EXCEPT ![p] = @ \ {l}]
        /\ Go(p, IF todo[p] = {l} THEN AfterSuccess(p) ELSE "record")
        /\ UNCHANGED <<files, owner, replay, meeting, expired, evicted, erased,
                       snap, faults>>
     \/ meeting # "ready" /\ Abort(p)

-----------------------------------------------------------------------------
(* The sweeper: resume_promotions, then the retention sweep. *)

RecordingInFlight == pc[Recorder] = "recording" /\ ~manifest.ended

\* Mutant: a session already stamped is taken for finished.
Pending_SkipsStamped ==
  dir = "live" /\ manifest.ended /\ manifest.claim /\ ~manifest.promoted

Pending == dir = "live" /\ manifest.ended /\ manifest.claim

\* What resume_promotions does with the session it finds: promote it, finish an
\* interrupted deletion, or leave it alone.
ResumeAt == CASE Pending /\ meeting = "ready"   -> "refresh"
              [] Pending /\ meeting = "deleted" -> "unlinkSession"
              [] OTHER                          -> "sweep"

\* sweep_once, unless a recording is in flight: remove .retired leftovers, then
\* finish the pending session or finish deleting it.
Resume(s) ==
  /\ pc[s] = "idle" /\ ~RecordingInFlight
  /\ dir' = IF dir = "retired" THEN "gone" ELSE dir
  /\ Go(s, ResumeAt)
  /\ UNCHANGED <<manifest, inplace, dest, parts, media, owner, replay, library, locals, faults>>

\* inventory and plan_sweep: the complete rows of an evictable meeting.
PlanSweep(s) ==
  LET doomed == {l \in Legs : rows[l] = "complete"} IN
  /\ pc[s] = "sweep"
  /\ IF expired /\ meeting = "ready" /\ doomed # {}
     THEN todo' = [todo EXCEPT ![s] = doomed] /\ Go(s, "unlink")
     ELSE todo' = todo /\ Go(s, "idle")
  /\ UNCHANGED <<files, owner, replay, library, snap, faults>>

\* SweepPlan::apply, one file.  A file that will not go is reported and the
\* sweep goes on.
Unlink(s) ==
  LET l == NextLeg(todo[s]) IN
  /\ pc[s] = "unlink"
  /\ \/ /\ media' = media \ {l} /\ evicted' = evicted \cup {l}
        /\ faults' = faults
     \/ /\ faults < MaxFaults /\ faults' = faults + 1
        /\ UNCHANGED <<media, evicted>>
  /\ todo' = [todo EXCEPT ![s] = @ \ {l}]
  /\ Go(s, IF todo[s] = {l} THEN "mark" ELSE "unlink")
  /\ UNCHANGED <<dir, manifest, inplace, dest, parts, owner, replay, meeting, rows,
                 expired, erased, snap>>

\* mark_audio_deleted: every complete row of the meeting; an error is reported.
MarkDeleted(s) ==
  /\ pc[s] = "mark"
  /\ \/ /\ rows' = [l \in Legs |-> IF rows[l] = "complete" THEN "deleted" ELSE rows[l]]
        /\ faults' = faults
     \/ /\ faults < MaxFaults /\ faults' = faults + 1 /\ rows' = rows
  /\ Go(s, "idle")
  /\ UNCHANGED <<files, owner, replay, meeting, expired, evicted, erased, locals>>

-----------------------------------------------------------------------------
(* Deleting a meeting, recovering speech, time, and failure. *)

\* delete_meeting's transaction: the row and its children go, the tombstone
\* and the capture's tombstone come.
EraseMeeting ==
  /\ pc[Eraser] = "idle" /\ meeting = "ready"
  /\ meeting' = "deleted" /\ rows' = [l \in Legs |-> "none"]
  /\ expired' = FALSE /\ evicted' = {}
  /\ Go(Eraser, "unlinkSession")
  /\ UNCHANGED <<files, owner, replay, erased, locals, faults>>

\* Mutant: only a directory already renamed is removed.
UnlinkSession_RetiredOnly(a) ==
  /\ pc[a] = "unlinkSession" /\ Go(a, "unlinkMedia")
  /\ dir' = IF dir = "retired" THEN "gone" ELSE dir
  /\ UNCHANGED <<manifest, inplace, dest, parts, media, owner, replay, library,
                 locals, faults>>

\* unlink_captures: the session directory under either of its names.
UnlinkSession(a) ==
  /\ pc[a] = "unlinkSession" /\ dir' = "gone" /\ Go(a, "unlinkMedia")
  /\ UNCHANGED <<manifest, inplace, dest, parts, media, owner, replay, library, locals, faults>>

\* unlink_media: the meeting's media directory and all that is in it.
UnlinkMedia(a) ==
  /\ pc[a] = "unlinkMedia"
  /\ dest' = FALSE /\ parts' = {} /\ media' = {} /\ erased' = TRUE
  /\ Go(a, IF a = Eraser THEN "idle" ELSE AfterError(a))
  /\ UNCHANGED <<dir, manifest, inplace, owner, replay, meeting, rows, expired,
                 evicted, locals, faults>>

\* The speech worker owns the capture for as long as it transcribes.
SpeechStart ==
  /\ dir = "live" /\ manifest.ended /\ meeting = "ready" /\ ~Transcribed
  /\ owner = NoOne /\ owner' = Speech
  /\ UNCHANGED <<files, replay, library, pc, locals, faults>>

\* It finished and projected, or stopped where it was.
SpeechEnd ==
  /\ owner = Speech /\ owner' = NoOne
  /\ \/ replay' = IF meeting = "ready" /\ dir = "live" THEN "projected" ELSE "complete"
     \/ replay' = replay
  /\ UNCHANGED <<files, library, pc, locals, faults>>

\* import_stopped_captures, at a start of the daemon: a session the store does
\* not know is indexed, never claimed.
ImportCapture ==
  /\ dir = "live" /\ meeting = "none" /\ owner = NoOne
  /\ meeting' = "ready"
  /\ replay' = IF manifest.ended THEN Projected ELSE replay
  /\ UNCHANGED <<files, owner, rows, expired, evicted, erased, pc, locals, faults>>

\* The retention window of a meeting with a transcript elapses.
Expire ==
  /\ ~expired /\ meeting = "ready" /\ expired' = TRUE
  /\ UNCHANGED <<files, owner, replay, meeting, rows, evicted, erased, pc,
                 locals, faults>>

\* A file or database operation of a promotion or a deletion fails.
Promoting == {"refresh", "promote", "encode", "encodeStart", "encoding", "encodeWrite",
              "publish", "mkdir", "open", "create", "rename", "stamp", "stampWrite",
              "retire", "retireRename", "retireRemove", "tombstone", "record"}
Erasing   == {"unlinkSession", "unlinkMedia"}
Fallible  == {"persist", "exists", "claim", "claimWrite"} \cup Promoting \cup Erasing
IoError(a) ==
  /\ faults < MaxFaults /\ pc[a] \in Fallible
  /\ faults' = faults + 1
  /\ Go(a, IF a = Eraser THEN "idle" ELSE AfterError(a)) /\ owner' = Released(a)
  /\ Forget(a) /\ UNCHANGED <<files, replay, library>>

\* Every process dies; locks die with them.  A recorder does not come back.
Crash ==
  /\ faults < MaxFaults /\ faults' = faults + 1
  /\ pc' = [a \in Actors |-> CASE a # Recorder       -> "idle"
                               [] pc[a] = "done"     -> "done"
                               [] OTHER              -> "failed"]
  /\ owner' = NoOne
  /\ snap' = [a \in Actors |-> Blank] /\ todo' = [a \in Actors |-> {}]
  /\ UNCHANGED <<files, replay, library>>

-----------------------------------------------------------------------------
Promote(p) ==
  \/ Refresh(p) \/ PromoteStart(p) \/ EncodeCheck(p) \/ EncodeStart(p)
  \/ EncodeFinish(p) \/ EncodeWrite(p) \/ PublishStart(p) \/ MakeDest(p)
  \/ OpenSource(p) \/ CreatePart(p) \/ RenamePart(p) \/ StampRead(p)
  \/ StampWrite(p) \/ RetireVerify(p) \/ RetireRename(p) \/ RetireRemove(p)
  \/ CheckTombstone(p) \/ Record(p)
Persist == Finalize \/ PersistMeeting \/ CheckMeeting \/ ClaimRead \/ ClaimWrite
Sweep(s) == Resume(s) \/ PlanSweep(s) \/ Unlink(s) \/ MarkDeleted(s)
Erase(a) == UnlinkSession(a) \/ UnlinkMedia(a)
Environment == EraseMeeting \/ SpeechStart \/ ImportCapture \/ Expire \/ Crash

Next ==
  \/ Persist \/ Environment \/ SpeechEnd
  \/ \E p \in Promoters : Promote(p)
  \/ \E s \in Sweepers : Sweep(s)
  \/ \E a \in Actors : Erase(a) \/ IoError(a)

Spec == Init /\ [][Next]_vars

\* A thread that can step does; the sweeper's loop never ends; the speech
\* worker stops at its deadlines.  Nobody has to delete, expire or fail.
FairSpec ==
  /\ Spec /\ WF_vars(Persist) /\ WF_vars(SpeechEnd)
  /\ \A p \in Promoters : WF_vars(Promote(p))
  /\ \A s \in Sweepers : WF_vars(Sweep(s))
  /\ \A a \in Actors : WF_vars(Erase(a))

-----------------------------------------------------------------------------
(* Properties. *)

Positions == {"recording", "persist", "exists", "claim", "claimWrite", "done", "failed",
              "idle", "sweep", "unlink", "mark"} \cup Promoting \cup Erasing

\* Every variable keeps its shape.
TypeFiles ==
  /\ dir \in {"live", "retired", "gone"} /\ inplace \in {"none", "torn", "whole"}
  /\ dest \in BOOLEAN /\ parts \subseteq Legs /\ media \subseteq Legs
  /\ owner \in Promoters \cup {Speech, NoOne}
  /\ replay \in {"none", "pending", "complete", "projected"}
TypeLibrary ==
  /\ meeting \in {"none", "ready", "deleted"}
  /\ rows \in [Legs -> {"none", "complete", "deleted"}]
  /\ expired \in BOOLEAN /\ evicted \subseteq Legs /\ erased \in BOOLEAN
TypeLocals ==
  /\ pc \in [Actors -> Positions] /\ todo \in [Actors -> SUBSET Legs]
  /\ faults \in 0 .. MaxFaults
TypeManifests == manifest \in Manifests /\ snap \in [Actors -> Manifests]
TypeOK == TypeFiles /\ TypeLibrary /\ TypeLocals /\ TypeManifests

\* The session directory is the only copy until the media provably is one: at
\* every moment each track of a meeting nobody deleted is in the session
\* directory, in the media tree, or was unlinked there by a sweep after its
\* retention window had elapsed (retire, promote.rs; sweep, retention.rs).
AudioSurvives ==
  meeting # "deleted" =>
    \A l \in Legs : dir = "live" \/ l \in media \/ (expired /\ l \in evicted)

\* A session directory is given up only when no speech input is waiting in it:
\* everything was transcribed and projected into the library (retire's
\* retirement_guard), or the meeting was deleted.
RetiredAfterTranscription == dir # "live" => Transcribed \/ meeting = "deleted"

\* The library never points at audio that was not published: a complete row has
\* its file, unless a sweep has unlinked it and not yet marked the row
\* (publish_claimed writes rows last; record refuses a deleted meeting).
RowsPointAtAudio == \A l \in Legs : rows[l] = "complete" => l \in media \cup evicted

\* Once a deletion has run to its end no publisher that was under way brings
\* any of the audio back: no track, no partial track, no session directory
\* (delete_meeting_in's order: sources first, then the destination).
DeletionIsFinal == erased => dir = "gone" /\ media = {} /\ parts = {}

\* The manifest never names an encode that is not finished, whichever of two
\* promoters wrote it and wherever one of them died (encode_session's
\* replacement generations).
EncodedIsWhole ==
  dir = "live" /\ manifest.encoded = "inplace" => inplace = "whole"

\* A finalized, claimed and transcribed session is eventually archived and its
\* directory removed, whatever crashes interrupt it (resume_promotions).
ArchivesEventually ==
  (manifest.ended /\ manifest.claim /\ meeting = "ready" /\ Transcribed)
    ~> (dir = "gone" \/ meeting = "deleted")

\* Deleting a meeting whose session was claimed eventually removes the session
\* directory, even when the deletion itself was cut short.
DeletedSessionGoes == (meeting = "deleted" /\ manifest.claim) ~> dir = "gone"

\* A session's directory is settled in the end: archived and removed once it is
\* transcribed, removed once its meeting is deleted, through crashes and errors.
SessionsSettle == ArchivesEventually /\ DeletedSessionGoes

\* Every step of the archive is a step of DurableAudio, or none of its business:
\* nothing gives up the source before the tracks are archived, publishes from a
\* source that is gone, or undoes a deletion that has ended.
Durable == INSTANCE DurableAudio WITH
  Tracks <- Legs, source <- dir = "live", archived <- media,
  evicted <- IF meeting = "deleted" THEN {} ELSE evicted,
  deletion <- IF erased THEN "ended"
              ELSE IF meeting = "deleted" THEN "begun" ELSE "none"
KeepsAudioDurable == Durable!AbstractSpec

(* What the proofs need besides TypeOK; see StoredAudioProofs. *)

Deleted   == meeting = "deleted"
Covered   == Legs \subseteq media \cup evicted
Holding   == {"recording", "encoding", "encodeWrite", "mkdir", "open", "create",
              "rename", "retireRename"}
Copying   == {"open", "create", "rename"}
Published == {"stamp", "stampWrite", "retire", "retireRename", "retireRemove",
              "tombstone", "record"}

\* Exactly the positions between taking the capture-owner lock and dropping it.
LockInv == \A p \in Promoters : pc[p] \in Holding <=> owner = p

\* Whoever holds the lock has the directory, unless a deletion took it.
HeldInv ==
  /\ \A p \in Promoters : pc[p] \in Holding => dir = "live" \/ Deleted
  /\ owner = Speech => Deleted \/ (dir = "live" /\ meeting = "ready")

EraseInv ==
  /\ \A a \in Actors : pc[a] \in Erasing => Deleted
  /\ \A a \in Actors : pc[a] = "unlinkMedia" => dir = "gone"

\* What each stage of a promotion knows of the archive.
StageInv ==
  \A p \in Promoters :
    /\ pc[p] \in Copying => Deleted \/ Legs \ todo[p] \subseteq media \cup evicted
    /\ pc[p] \in Published => Deleted \/ Covered
    /\ pc[p] = "retireRename" => Deleted \/ Transcribed

GoneInv == dir # "live" => Deleted \/ (Covered /\ Transcribed)

ErasedInv ==
  erased => /\ Deleted /\ dir = "gone" /\ media = {} /\ parts = {}
            /\ \A p \in Promoters : pc[p] = "create" => ~dest

RowsInv ==
  /\ \A l \in Legs : rows[l] = "complete" => l \in media \cup evicted
                                              /\ meeting = "ready"
  /\ \A s \in Sweepers : pc[s] = "unlink" =>
       todo[s] # {} /\ (Deleted \/ todo[s] \subseteq media \cup evicted)

\* Only the retention policy evicts.
PolicyInv ==
  \/ Deleted \/ expired
  \/ evicted = {} /\ \A s \in Sweepers : pc[s] # "unlink"

\* No manifest on disk or in hand names an unfinished encode.
EncodeInv ==
  /\ manifest.encoded = "inplace" => inplace = "whole"
  /\ \A a \in Actors :
       pc[a] # "encoding" /\ snap[a].encoded = "inplace" => inplace = "whole"

ArchiveInv == /\ LockInv /\ HeldInv /\ EraseInv /\ StageInv /\ GoneInv
              /\ ErasedInv /\ RowsInv /\ EncodeInv /\ PolicyInv
=============================================================================
