---------------------------- MODULE GithubExport ----------------------------
(***************************************************************************)
(* The GitHub export (fotwd/src/github.rs): a worker that pushes the       *)
(* meetings automatic mode owes, once a minute, and the dashboard's push   *)
(* button.  Both work on one exporter: the library lock is dropped for the *)
(* seconds a sequence of gh calls takes, so everything read before it may  *)
(* be stale after it.  A push is a claim, the shared write lock, a         *)
(* preflight, the files, two receipts; then the bundle's index.            *)
(*                                                                         *)
(* Meetings are numbered in the order they are recorded.  A path is        *)
(* abstracted to the meeting and the title it was made from.  Of what is   *)
(* in a repository, a transcript at its path and the version of the        *)
(* summary and document files beside it are kept: the version all of them  *)
(* have reached, 0 for none.                                               *)
(***************************************************************************)
EXTENDS Naturals, FiniteSets, FiniteSetsExt

CONSTANTS
  Meetings,     \* 1..N, oldest first
  Repos,        \* repositories the target may name
  Public,       \* those GitHub does not confirm as private
  Saveable,     \* the settings a save may store: mode, repo, ack, whole
  MaxPerRound,  \* meetings one automatic round may push
  MaxUpsets     \* bound on saves, presses, late changes, gh faults and restarts

ASSUME ExportBounds ==
  /\ IsFiniteSet(Meetings) /\ Meetings = 1..Cardinality(Meetings)
  /\ Public \subseteq Repos
  /\ Saveable \subseteq [mode : {"off", "manual", "auto"}, repo : Repos, ack : BOOLEAN,
                        whole : BOOLEAN]
  /\ MaxPerRound \in Nat \ {0}
  /\ MaxUpsets \in Nat

VARIABLES
  target,     \* the stored GithubSettings
  recorded,   \* how many meetings there are
  enriched,   \* [Meetings -> where its enrichment stands]
  title,      \* [Meetings -> generation of its title]
  version,    \* [Meetings -> version of its summary and document, 0 for none]
  receipts,   \* [Meetings -> the push receipt, or NoReceipt]
  artifacts,  \* [Meetings -> the companion receipt, or NoArtifact]
  failed,     \* [Meetings -> the retry table: failures, and whether the window is open]
  stall,      \* an environment-wide refusal is remembered
  gh,         \* the environment: gh, its login and the repository answer
  remote,     \* [Repos -> the transcripts there, with their companions' version]
  index,      \* [Repos -> the meetings the bundle's index lists]
  inFlight,   \* the claimed meetings
  writer,     \* the job holding the write lock, or "none"
  job,        \* [Jobs -> the pushes under way]
  round,      \* the worker's remaining candidates, and whether any landed; before
              \* the scan, the settings it has read and (history) whom they owed
  acked,      \* history: repositories that were named with the acknowledgement
  fresh,      \* history: meetings recorded since automatic mode was last switched on
  upsets      \* how many of the bounded events there have been

library == <<recorded, enriched, title, version>>
books == <<receipts, artifacts, failed, stall>>
world == <<gh, remote, index>>
history == <<acked, fresh>>
vars == <<target, library, books, world, inFlight, writer, job, round, history, upsets>>

-----------------------------------------------------------------------------

Jobs == {"worker", "button"}

NoReceipt == [repo |-> "none", path |-> 0]
NoArtifact == [repo |-> "none", version |-> 0]

(* A push under way: its meeting, the one snapshot of settings, path and   *)
(* version it works from, and the failures known before it started.        *)
NoJob == [at |-> "idle", m |-> 0, repo |-> "none", ack |-> FALSE, path |-> 0,
          version |-> 0, before |-> 0, result |-> "none", listing |-> {}]

Unread == [mode |-> "off", repo |-> "none", ack |-> FALSE, whole |-> FALSE, since |-> 0]
NoRound == [todo |-> {}, landed |-> FALSE, read |-> Unread, owes |-> {}]

Init ==
  /\ \E r \in Repos, mode \in {"off", "auto"} :
       target = [mode |-> mode, repo |-> r, ack |-> FALSE, whole |-> FALSE,
                 since |-> IF mode = "auto" THEN 1 ELSE 0]
  /\ recorded = 0
  /\ enriched = [m \in Meetings |-> "open"]
  /\ title = [m \in Meetings |-> 0]
  /\ version = [m \in Meetings |-> 0]
  /\ receipts = [m \in Meetings |-> NoReceipt]
  /\ artifacts = [m \in Meetings |-> NoArtifact]
  /\ failed = [m \in Meetings |-> [failures |-> 0, waiting |-> FALSE]]
  /\ stall = FALSE
  /\ gh = "ok"
  /\ remote = [r \in Repos |-> {}]
  /\ index = [r \in Repos |-> {}]
  /\ inFlight = {}
  /\ writer = "none"
  /\ job = [j \in Jobs |-> NoJob]
  /\ round = NoRound
  /\ acked = {}
  /\ fresh = {}
  /\ upsets = 0

(* One of the events a run has only so many of.                            *)
Upset == upsets < MaxUpsets /\ upsets' = upsets + 1

-----------------------------------------------------------------------------
(* The library and the environment.                                        *)

(* A meeting reaches "ready": its enrichment is still to come.             *)
Record ==
  /\ recorded < Cardinality(Meetings)
  /\ recorded' = recorded + 1
  /\ fresh' = IF target.mode = "auto" THEN fresh \cup {recorded'} ELSE fresh
  /\ UNCHANGED <<target, enriched, title, version, books, world, inFlight, writer, job,
                 round, acked, upsets>>

(* Enrichment ends with a new title and a summary, or without one; or it   *)
(* died before it stamped its end and has grown older than the grace.      *)
Enrich(m) ==
  /\ m <= recorded
  /\ enriched[m] = "open"
  /\ \/ /\ enriched' = [enriched EXCEPT ![m] = "finished"]
        /\ title' = [title EXCEPT ![m] = @ + 1]
        /\ \E v \in {0, 1} : version' = [version EXCEPT ![m] = @ + v]
     \/ /\ enriched' = [enriched EXCEPT ![m] = "lost"]
        /\ UNCHANGED <<title, version>>
  /\ UNCHANGED <<target, recorded, books, world, inFlight, writer, job, round, history, upsets>>

(* A rename, or a new summary or document version.                         *)
Change(m) ==
  /\ m <= recorded
  /\ Upset
  /\ \/ title' = [title EXCEPT ![m] = @ + 1] /\ UNCHANGED version
     \/ version' = [version EXCEPT ![m] = @ + 1] /\ UNCHANGED title
  /\ UNCHANGED <<target, recorded, enriched, books, world, inFlight, writer, job, round,
                 history>>

(* gh goes missing, is logged out, or the repository does; and comes back. *)
Environment ==
  /\ \/ gh = "ok" /\ Upset /\ gh' = "broken"
     \/ gh = "broken" /\ gh' = "ok" /\ UNCHANGED upsets
  /\ UNCHANGED <<target, library, books, remote, index, inFlight, writer, job, round,
                 history>>

(* set_settings: the stamp survives re-saves and dies with auto itself.    *)
Since_Kept(next) ==
  IF next.mode # "auto" THEN target.since
  ELSE IF target.since > 0 THEN target.since
  ELSE recorded + 1
Since(next) ==
  IF next.mode # "auto" THEN 0
  ELSE IF target.mode = "auto" THEN target.since
  ELSE recorded + 1

SetSettings ==
  /\ Upset
  /\ \E next \in Saveable :
       /\ target' = [mode |-> next.mode, repo |-> next.repo, ack |-> next.ack,
                     whole |-> next.whole, since |-> Since(next)]
       /\ acked' = IF next.ack THEN acked \cup {next.repo} ELSE acked
       /\ fresh' = IF next.mode = "auto" /\ target.mode = "auto" THEN fresh ELSE {}
  /\ stall' = FALSE
  /\ UNCHANGED <<library, receipts, artifacts, failed, world, inFlight, writer, job, round>>

-----------------------------------------------------------------------------
(* What a round owes.                                                      *)

(* worker_scope of settings s: the meetings automatic mode owes from its   *)
(* stamp on, or all of them; none when it is off.                          *)
InScope(s, m) ==
  /\ s.mode = "auto"
  /\ s.whole \/ m >= s.since

(* export_ready: a pass that ended, or one that is not coming back.        *)
ExportReady(m) == enriched[m] \in {"finished", "lost"}

(* The companion files repository r would not have.                        *)
Changed(r, m) ==
  /\ version[m] > 0
  /\ artifacts[m] # [repo |-> r, version |-> version[m]]

Owed_Once(s, m) ==
  /\ m <= recorded /\ InScope(s, m) /\ ExportReady(m) /\ ~failed[m].waiting
  /\ receipts[m] = NoReceipt
Owed(s, m) ==
  /\ m <= recorded /\ InScope(s, m) /\ ExportReady(m) /\ ~failed[m].waiting
  /\ receipts[m] = NoReceipt \/ Changed(s.repo, m)

Oldest(S) == {m \in S : Cardinality({n \in S : n < m}) < MaxPerRound}

(* auto_push_pending reads the settings and lets the library go ...        *)
ReadScope ==
  /\ job["worker"].at = "idle"
  /\ target.mode = "auto"
  /\ round' = [round EXCEPT !.read = target,
        !.owes = {m \in Meetings : target.whole \/ m \in fresh \/ m > recorded}]
  /\ job' = [job EXCEPT !["worker"].at = "scan"]
  /\ UNCHANGED <<target, library, books, world, inFlight, writer, history, upsets>>

(* ... and takes it again to list, by those settings, what it owes.        *)
StartRound ==
  /\ job["worker"].at = "scan"
  /\ round' = [NoRound EXCEPT !.todo = Oldest({m \in Meetings : Owed(round.read, m)})]
  /\ job' = [job EXCEPT !["worker"].at = "round"]
  /\ UNCHANGED <<target, library, books, world, inFlight, writer, history, upsets>>

-----------------------------------------------------------------------------
(* One push.                                                               *)

(* record_failure: an environment-wide refusal is remembered once for all; *)
(* anything else opens this meeting's retry window, and a refusal GitHub   *)
(* itself gave disproves a stall.                                          *)
EnterBackoff(m) ==
  failed' = [failed EXCEPT ![m] = [failures |-> @.failures + 1, waiting |-> TRUE]]

(* Where a job goes once its push has returned.                            *)
Returned(j, ok) ==
  IF j = "worker" THEN [NoJob EXCEPT !.at = "round"]
  ELSE IF ok THEN [NoJob EXCEPT !.at = "bundle"] ELSE NoJob

(* push up to the claim, under the library lock: the settings, the path    *)
(* (the receipt's, or one made from the title) and the version, together.  *)
Path(m) == IF receipts[m] = NoReceipt THEN title[m] + 1 ELSE receipts[m].path

Claim(j, m) ==
  /\ target.mode # "off"
  /\ m \notin inFlight
  /\ inFlight' = inFlight \cup {m}
  /\ job' = [job EXCEPT ![j] =
        [NoJob EXCEPT !.at = "lock", !.m = m, !.repo = target.repo, !.ack = target.ack,
                      !.path = Path(m), !.version = version[m],
                      !.before = failed[m].failures]]
  /\ UNCHANGED <<failed, stall>>

(* Refused before the claim: switched off (which answers for every         *)
(* meeting), or a push of this meeting already running (which records      *)
(* nothing) ...                                                            *)
Declined(j, m) ==
  /\ target.mode = "off" \/ m \in inFlight
  /\ stall' = (stall \/ target.mode = "off")
  /\ job' = [job EXCEPT ![j] = Returned(j, FALSE)]
  /\ UNCHANGED <<failed, inFlight>>

(* ... or the library would not give the meeting or its document, before   *)
(* gh was asked anything.                                                  *)
Unreadable(j, m) ==
  /\ target.mode # "off"
  /\ EnterBackoff(m)
  /\ job' = [job EXCEPT ![j] = Returned(j, FALSE)]
  /\ UNCHANGED <<stall, inFlight>>

PushNext ==
  /\ job["worker"].at = "round"
  /\ round.todo # {}
  /\ LET m == Min(round.todo) IN
       /\ \/ (Claim("worker", m) \/ Declined("worker", m)) /\ UNCHANGED upsets
          \/ Unreadable("worker", m) /\ Upset
       /\ round' = [round EXCEPT !.todo = IF target.mode = "off" THEN {} ELSE @ \ {m}]
  /\ UNCHANGED <<target, library, receipts, artifacts, world, writer, history>>

(* The round is over: the bundle once per batch, if anything landed.       *)
EndRound ==
  /\ job["worker"].at = "round"
  /\ round.todo = {}
  /\ job' = [job EXCEPT !["worker"] = IF round.landed THEN [NoJob EXCEPT !.at = "bundle"]
                                      ELSE NoJob]
  /\ round' = NoRound
  /\ UNCHANGED <<target, library, books, world, inFlight, writer, history, upsets>>

(* The dashboard's button, whatever the round is doing.                    *)
PressPush ==
  /\ job["button"].at = "idle"
  /\ Upset
  /\ \E m \in 1..recorded :
       Claim("button", m) \/ Declined("button", m) \/ Unreadable("button", m)
  /\ UNCHANGED <<target, library, receipts, artifacts, world, writer, round, history>>

(* preflight on the push's own snapshot: an answer, and a repository that  *)
(* is private or was acknowledged beside this repository's name.           *)
MayWrite_Stored(j) == gh = "ok" /\ (job[j].repo \in Public => target.ack)
MayWrite(j) == gh = "ok" /\ (job[j].repo \in Public => job[j].ack)

(* push_claimed takes the write lock (GitHub updates one branch), then     *)
(* asks GitHub.  The failures known before the attempt are read some time  *)
(* between the claim and the lock.                                         *)
Preflight(j) ==
  /\ job[j].at = "lock"
  /\ writer = "none"
  /\ writer' = j
  /\ \E known \in {job[j].before, failed[job[j].m].failures} :
       job' = [job EXCEPT ![j].at = IF MayWrite(j) THEN "put" ELSE "release",
                          ![j].result = IF MayWrite(j) THEN "none" ELSE "stall",
                          ![j].before = known]
  /\ UNCHANGED <<target, library, books, world, inFlight, round, history, upsets>>

(* put_file of the transcript, created or updated in place: what lies      *)
(* beside it stays as it is.                                               *)
At(r, m, path) == {f \in remote[r] : f.m = m /\ f.path = path}

Put(j) ==
  LET r == job[j].repo  m == job[j].m  path == job[j].path IN
  /\ job[j].at = "put"
  /\ gh = "ok"
  /\ remote' = IF At(r, m, path) # {} THEN remote
               ELSE [remote EXCEPT ![r] = @ \cup {[m |-> m, path |-> path, version |-> 0]}]
  /\ job' = [job EXCEPT ![j].at = "companions"]
  /\ UNCHANGED <<target, library, books, gh, index, inFlight, writer, round, history, upsets>>

(* The companion files, all of them; nothing to write when there are none. *)
PutCompanions(j) ==
  LET r == job[j].repo  m == job[j].m  path == job[j].path IN
  /\ job[j].at = "companions"
  /\ gh = "ok" \/ job[j].version = 0
  /\ remote' = IF job[j].version = 0 THEN remote
               ELSE [remote EXCEPT ![r] = (@ \ At(r, m, path)) \cup
                       {[m |-> m, path |-> path, version |-> job[j].version]}]
  /\ job' = [job EXCEPT ![j].at = "record"]
  /\ UNCHANGED <<target, library, books, gh, index, inFlight, writer, round, history, upsets>>

(* A gh call in the middle failed: for everybody, or for this push alone.  *)
(* Companions written before it may be newer than the version kept here.   *)
PutFailed(j) ==
  /\ job[j].at \in {"put", "companions"}
  /\ \/ /\ gh = "broken"
        /\ job' = [job EXCEPT ![j].at = "release", ![j].result = "stall"]
        /\ UNCHANGED upsets
     \/ /\ gh = "ok" /\ Upset
        /\ job' = [job EXCEPT ![j].at = "release", ![j].result = "own"]
  /\ UNCHANGED <<target, library, books, world, inFlight, writer, round, history>>

(* The two receipts, the companions' first, from the push's snapshot.      *)
Pushed_Reread(j) == [repo |-> job[j].repo, version |-> version[job[j].m]]
Pushed(j) == [repo |-> job[j].repo, version |-> job[j].version]

RecordPush(j) ==
  /\ job[j].at = "record"
  /\ artifacts' = [artifacts EXCEPT ![job[j].m] = Pushed(j)]
  /\ receipts' = [receipts EXCEPT ![job[j].m] =
        [repo |-> job[j].repo, path |-> job[j].path]]
  /\ job' = [job EXCEPT ![j].at = "release", ![j].result = "ok"]
  /\ UNCHANGED <<target, library, failed, stall, world, inFlight, writer, round, history, upsets>>

(* The library refuses the second receipt: the push stands, a window opens *)
(* so that it is not committed again next minute; or refuses the first.    *)
ReceiptLost(j) ==
  /\ job[j].at = "record"
  /\ Upset
  /\ \/ /\ artifacts' = [artifacts EXCEPT ![job[j].m] = Pushed(j)]
        /\ EnterBackoff(job[j].m)
        /\ job' = [job EXCEPT ![j].at = "release", ![j].result = "ok"]
     \/ /\ job' = [job EXCEPT ![j].at = "release", ![j].result = "own"]
        /\ UNCHANGED <<artifacts, failed>>
  /\ UNCHANGED <<target, library, receipts, stall, world, inFlight, writer, round, history>>

(* The write lock goes with push_claimed, then the claim.                  *)
Release(j) ==
  /\ job[j].at = "release"
  /\ writer' = "none"
  /\ inFlight' = inFlight \ {job[j].m}
  /\ job' = [job EXCEPT ![j].at = "settle"]
  /\ UNCHANGED <<target, library, books, world, round, history, upsets>>

(* The outcome, after the claim is gone.  A window this very push opened   *)
(* stays.  A stall ends the round.                                         *)
Settle(j) ==
  LET m == job[j].m  result == job[j].result IN
  /\ job[j].at = "settle"
  /\ \/ /\ result = "ok"
        /\ failed' = IF failed[m].failures = job[j].before
                     THEN [failed EXCEPT ![m] = [failures |-> 0, waiting |-> FALSE]] ELSE failed
        /\ stall' = FALSE
     \/ result = "stall" /\ stall' = TRUE /\ UNCHANGED failed
     \/ result = "own" /\ stall' = FALSE /\ EnterBackoff(m)
  /\ job' = [job EXCEPT ![j] = Returned(j, result = "ok")]
  /\ round' = IF j # "worker" THEN round
              ELSE [round EXCEPT !.todo = IF result = "stall" THEN {} ELSE @,
                                 !.landed = @ \/ result = "ok"]
  /\ UNCHANGED <<target, library, receipts, artifacts, world, inFlight, writer, history, upsets>>

(* A retry window ends with time.                                          *)
WindowEnds(m) ==
  /\ failed[m].waiting
  /\ failed' = [failed EXCEPT ![m].waiting = FALSE]
  /\ UNCHANGED <<target, library, receipts, artifacts, stall, world, inFlight, writer, job,
                 round, history, upsets>>

-----------------------------------------------------------------------------
(* sync_bundle: what the receipts list, then the write lock, then the      *)
(* index.                                                                  *)

Listing(r) == {m \in Meetings : receipts[m].repo = r}

ReadBundle(j) ==
  /\ job[j].at = "bundle"
  /\ job' = [job EXCEPT ![j] =
        IF target.mode = "off" \/ Listing(target.repo) = {} THEN NoJob
        ELSE [NoJob EXCEPT !.at = "lockIndex", !.repo = target.repo, !.ack = target.ack,
                           !.listing = Listing(target.repo)]]
  /\ UNCHANGED <<target, library, books, world, inFlight, writer, round, history, upsets>>

WriteIndex(j) ==
  /\ job[j].at = "lockIndex"
  /\ writer = "none"
  /\ index' = IF MayWrite(j) THEN [index EXCEPT ![job[j].repo] = job[j].listing] ELSE index
  /\ job' = [job EXCEPT ![j] = NoJob]
  /\ UNCHANGED <<target, library, books, gh, remote, inFlight, writer, round, history, upsets>>

(* The daemon restarts: claims, locks, the round and the stall are memory; *)
(* receipts and the retry table are in the library.  Between the two       *)
(* receipts of a push the first may be there alone.                        *)
Crash ==
  /\ Upset
  /\ \/ UNCHANGED artifacts
     \/ \E j \in Jobs : job[j].at = "record"
          /\ artifacts' = [artifacts EXCEPT ![job[j].m] = Pushed(j)]
  /\ job' = [j \in Jobs |-> NoJob]
  /\ round' = NoRound
  /\ inFlight' = {}
  /\ writer' = "none"
  /\ stall' = FALSE
  /\ UNCHANGED <<target, library, receipts, failed, world, history>>

(* sync_status: what the dashboard says of a meeting.                      *)
SyncStatus(m) ==
  CASE target.mode = "off" -> "off"
    [] target.mode # "off" /\ failed[m].failures > 0 -> "failed"
    [] target.mode # "off" /\ failed[m].failures = 0 /\ receipts[m] = NoReceipt -> "never"
    [] OTHER -> IF Changed(target.repo, m) THEN "changed" ELSE "synced"

-----------------------------------------------------------------------------

Work(j) ==
  \/ Preflight(j) \/ Put(j) \/ PutCompanions(j) \/ PutFailed(j)
  \/ RecordPush(j) \/ ReceiptLost(j) \/ Release(j) \/ Settle(j)
  \/ ReadBundle(j) \/ WriteIndex(j)

Next ==
  \/ Record \/ Environment \/ SetSettings \/ PressPush \/ Crash
  \/ \E m \in Meetings : Enrich(m) \/ Change(m) \/ WindowEnds(m)
  \/ ReadScope \/ StartRound \/ PushNext \/ EndRound
  \/ \E j \in Jobs : Work(j)

(* gh calls return, the worker polls, windows and graces run out, passes   *)
(* end or age.                                                             *)
Fairness ==
  /\ \A j \in Jobs : WF_vars(Work(j))
  /\ WF_vars(ReadScope) /\ WF_vars(StartRound) /\ WF_vars(PushNext) /\ WF_vars(EndRound)
  /\ \A m \in Meetings : WF_vars(WindowEnds(m)) /\ WF_vars(Enrich(m))

Spec == Init /\ [][Next]_vars /\ Fairness

-----------------------------------------------------------------------------
(* Properties *)

TypeOK ==
  /\ target \in [mode : {"off", "manual", "auto"}, repo : Repos, ack : BOOLEAN,
                 whole : BOOLEAN, since : Nat]
  /\ recorded \in 0..Cardinality(Meetings)
  /\ enriched \in [Meetings -> {"open", "finished", "lost"}]
  /\ inFlight \subseteq Meetings
  /\ writer \in Jobs \cup {"none"}
  /\ index \in [Repos -> SUBSET Meetings]

(* What the bookkeeping says has landed has landed: the receipt's          *)
(* transcript is in its repository, the companion receipt claims no        *)
(* version newer than the summary and document files beside it, and a      *)
(* meeting shown as synced has the files of its newest version in the      *)
(* repository now configured, whatever was renamed, summarised,            *)
(* re-targeted or re-pushed while a push was under way.                    *)
ReceiptIsTrue ==
  \A m \in Meetings :
    /\ receipts[m] # NoReceipt => At(receipts[m].repo, m, receipts[m].path) # {}
    /\ artifacts[m] # NoArtifact =>
         \E f \in remote[artifacts[m].repo] : f.m = m /\ f.version >= artifacts[m].version
    /\ SyncStatus(m) = "synced" /\ version[m] > 0 =>
         \E f \in remote[target.repo] : f.m = m /\ f.version >= version[m]

(* Nothing is ever written to a repository GitHub does not confirm as      *)
(* private unless that repository was itself named with the                *)
(* acknowledgement: one saved a moment later for another does not count.   *)
NoPublicByAccident ==
  \A r \in Public : remote[r] # {} \/ index[r] # {} => r \in acked

(* A round takes a meeting only when its enrichment has ended or is not    *)
(* coming back, and only if the settings it read asked for it: automatic   *)
(* mode with the whole library, or with a meeting recorded since it was    *)
(* last switched on, up to the moment the round lists them.  (A save       *)
(* between the two readings is the next round's.)                          *)
RoundTakesOnlyOwed ==
  [][round'.todo \ round.todo # {} =>
       \A m \in round'.todo : enriched[m] \in {"finished", "lost"} /\ m \in round.owes]_vars

(* Once gh answers and automatic mode stays on a repository it may write   *)
(* to, every meeting it owes is pushed with its newest summary and         *)
(* document: failures, stalls, lost receipts and restarts only delay it.   *)
Steady == target.mode = "auto" /\ gh = "ok" /\ (target.repo \in Public => target.ack)

BacklogLands ==
  \A m \in Meetings :
    <>[](Steady /\ m <= recorded /\ InScope(target, m)) =>
      <>[](receipts[m] # NoReceipt /\ ~Changed(target.repo, m))

=============================================================================
