----------------------------- MODULE Enrichment -----------------------------
(***************************************************************************)
(* Enrichment of one stored meeting (fotwd/src/enrich.rs): a title, a      *)
(* summary and a sharing draft made by an engine that takes minutes, while *)
(* people rename the meeting, edit its notes, change the engine or work on *)
(* the draft.  Three passes may run over the same meeting: the one at the  *)
(* end of its session ("end"), the hourly backfill ("fill") and the CLI's  *)
(* retitle ("cli").  Every generated output is published under a stamp of  *)
(* the settings' revision and of the meeting's input epoch                 *)
(* (fotw-store/src/setting_version.rs, fotwd/src/summary_guard.rs).        *)
(*                                                                         *)
(* Settings rows, transcripts and texts are abstracted: a setting is its   *)
(* revision and what it resolves to, the inputs are their epoch, a title   *)
(* is the kind of text it is.                                              *)
(***************************************************************************)
EXTENDS Naturals

CONSTANTS
  MaxEdits,    \* bound on what people do: renames, edits, settings, drafts
  MaxCrashes   \* bound on daemon restarts

ASSUME EnrichmentBounds == MaxEdits \in Nat /\ MaxCrashes \in Nat

VARIABLES
  policy,    \* [rev, engine]: revision of the summary settings, what they resolve to
  epoch,     \* generation of the meeting's inputs
  speech,    \* the stored transcript: "none", "short" (no four-word utterance), "long"
  title,     \* the meeting's title: the kind of text it is
  summary,   \* the current summary's provenance, or NoSummary
  status,    \* meetings.enrich_status
  draft,     \* [rev, base, by]: newest sharing document, what its author had loaded
  auto,      \* the automatic-draft setting
  receipt,   \* the meeting's row of the enrich_receipts map
  pass,      \* [Passes -> ...]: the passes' local state
  sweep,     \* the legacy-title sweep: its place and the map it read
  due,       \* the session-end pass has not run yet
  window,    \* the document window: place, loaded revision, stamp
  edits, crashes

vars == <<policy, epoch, speech, title, summary, status, draft, auto, receipt,
          pass, sweep, due, window, edits, crashes>>

library == <<policy, epoch, speech, title, summary, status, draft, auto>>

-----------------------------------------------------------------------------
(* Types *)

Passes == {"end", "fill", "cli"}

Engines == {"off", "gone", "on"}

Titles == {"placeholder", "utterance", "named", "user"}

Minted == {"", "utterance", "named"}

Places == {"idle", "stamping", "read", "resolve", "title", "naming",
           "summary", "summing", "draft", "drafting", "report", "mint", "finish"}

NoSummary == [from |-> 0, rev |-> 0]

NoReceipt == [run |-> "none", minted |-> ""]

Stamp == [rev : Nat, epoch : Nat]

Now == [rev |-> policy.rev, epoch |-> epoch]

NoStamp == [rev |-> 0, epoch |-> 0]

NoPass == [at |-> "idle", receipt |-> NoReceipt, fallback |-> NoStamp, speech |-> "none",
           heard |-> 0, replaceable |-> FALSE, rev |-> 0, stamp |-> NoStamp, from |-> 0,
           status |-> "none"]

TypeOK ==
  /\ policy \in [rev : Nat, engine : Engines]
  /\ epoch \in Nat
  /\ speech \in {"none", "short", "long"}
  /\ title \in Titles
  /\ summary \in [from : Nat, rev : Nat]
  /\ status \in {"none", "ok", "no_engine", "engine_unresolvable", "failed"}
  /\ draft \in [rev : Nat, base : Nat, by : {"nobody", "engine", "person"}]
  /\ auto \in BOOLEAN
  /\ receipt \in [run : {"none", "running", "finished"}, minted : Minted]
  /\ \A p \in Passes : pass[p].at \in Places
  /\ sweep \in [at : {"due", "read", "done"}, seen : [run : {"none", "running", "finished"}, minted : Minted]]
  /\ due \in BOOLEAN
  /\ window \in [at : {"idle", "generating"}, loaded : Nat, stamp : Stamp]
  /\ edits \in 0..MaxEdits
  /\ crashes \in 0..MaxCrashes

-----------------------------------------------------------------------------
(* A meeting just persisted under its placeholder, or one of an older      *)
(* library, named after its first utterance.                               *)

Init ==
  /\ policy \in {[rev |-> 1, engine |-> e] : e \in {"off", "on"}}
  /\ epoch = 1
  /\ speech \in {"none", "short", "long"}
  /\ title \in {"placeholder", "utterance"}
  /\ title = "utterance" => speech = "long"
  /\ due = (title = "placeholder")
  /\ summary = NoSummary
  /\ status = "none"
  /\ draft = [rev |-> 0, base |-> 0, by |-> "nobody"]
  /\ auto = TRUE
  /\ receipt = NoReceipt
  /\ pass = [p \in Passes |-> NoPass]
  /\ sweep = [at |-> "due", seen |-> NoReceipt]
  /\ window = [at |-> "idle", loaded |-> 0, stamp |-> NoStamp]
  /\ edits = 0
  /\ crashes = 0

-----------------------------------------------------------------------------
(* The fence: a stamp binds the settings' revision and the inputs' epoch;  *)
(* the guarded writes compare both inside their transaction.               *)

Matches_SettingOnly(stamp) == stamp.rev = policy.rev
Matches(stamp) == stamp = Now

(* SettingVersion::with_meeting_inputs on the revision an engine was       *)
(* resolved under, checked by PolicyStamp::capture.                        *)
WithMeetingInputs(rev) == [rev |-> rev, epoch |-> epoch]

(* resolve_engine_detailed: a policy that names no usable engine, a CLI    *)
(* whose binary is not there, or an engine bound to the current revision.  *)
ResolveEngine == policy.engine

(* Whether the machine may name the meeting: its placeholder, or a title   *)
(* the receipt says the machine minted.                                    *)
Replaceable(text, rc) == text = "placeholder" \/ text = rc.minted

(* The backfill's queue: something to summarise, no summary, no engine run *)
(* and failed on it.                                                       *)
Awaiting_Reported ==
  speech # "none" /\ summary = NoSummary /\ status \in {"no_engine", "engine_unresolvable"}
Awaiting ==
  /\ speech # "none"
  /\ summary = NoSummary
  /\ status \in {"none", "no_engine", "engine_unresolvable"}

(* UPDATE meetings SET title: the trigger gives the inputs a new epoch.    *)
SetTitle(text) == title' = text /\ epoch' = epoch + 1

(* The next place; a call's stamp and what it read do not outlive it.      *)
Goto(p, at) ==
  pass' = [pass EXCEPT ![p] = IF at = "idle" THEN NoPass
                              ELSE [@ EXCEPT !.at = at, !.stamp = NoStamp, !.from = 0]]

-----------------------------------------------------------------------------
(* A pass.                                                                 *)

(* enrich_meeting_with, its first lines: the receipt as it stands, with a  *)
(* fresh start and no end.                                                 *)
Begin(p) ==
  /\ pass[p].at = "idle"
  /\ pass' = [pass EXCEPT ![p] =
        [NoPass EXCEPT !.at = "stamping",
                       !.receipt = [run |-> "running", minted |-> receipt.minted]]]

(* The recorder starts one pass when a session's meeting is persisted.     *)
SessionEnd ==
  /\ due
  /\ Begin("end")
  /\ due' = FALSE
  /\ UNCHANGED <<library, receipt, sweep, window, edits, crashes>>

(* enrich_meeting whose keychain or library would not open: nothing stamped.*)
SessionEndLost ==
  /\ due
  /\ due' = FALSE
  /\ UNCHANGED <<library, receipt, pass, sweep, window, edits, crashes>>

(* backfill_once takes the meeting only with an engine to run it on; the   *)
(* legacy sweep comes before the loop's first tick.                        *)
Backfill ==
  /\ sweep.at = "done"
  /\ ResolveEngine = "on"
  /\ Awaiting
  /\ Begin("fill")
  /\ UNCHANGED <<library, receipt, sweep, due, window, edits, crashes>>

(* stamp: the map with this pass's row in it; then the fallback title's    *)
(* observation, before any content is read.                                *)
StampStarted(p) ==
  /\ pass[p].at = "stamping"
  /\ receipt' = pass[p].receipt
  /\ pass' = [pass EXCEPT ![p].at = "read", ![p].fallback = Now]
  /\ UNCHANGED <<library, sweep, due, window, edits, crashes>>

(* The segments and the title; no transcript means no engine call at all.  *)
ReadMeeting(p) ==
  /\ pass[p].at = "read"
  /\ pass' = [pass EXCEPT
        ![p].at = IF speech = "none" THEN "mint" ELSE "resolve",
        ![p].speech = speech,
        ![p].heard = epoch,
        ![p].replaceable = Replaceable(title, pass[p].receipt)]
  /\ UNCHANGED <<library, receipt, sweep, due, window, edits, crashes>>

Resolve(p) ==
  /\ pass[p].at = "resolve"
  /\ pass' = [pass EXCEPT
        ![p].rev = policy.rev,
        ![p].at = CASE ResolveEngine # "on" -> "report"
                    [] pass[p].replaceable -> "title"
                    [] OTHER -> "summary",
        ![p].status = CASE ResolveEngine = "off" -> "no_engine"
                        [] ResolveEngine = "gone" -> "engine_unresolvable"
                        [] OTHER -> "none"]
  /\ UNCHANGED <<library, receipt, sweep, due, window, edits, crashes>>

(* What follows the title call: the CLI's retitle is one title call and    *)
(* nothing else.                                                           *)
AfterTitle(p) == IF p = "cli" THEN "idle" ELSE "summary"

(* PolicyStamp::capture under the engine's revision, then the content; a   *)
(* revision that is no longer in force refuses.  An edit that falls        *)
(* between the two is read by the call but is newer than its stamp: the    *)
(* generations only grow, so the answer is refused, as it is when the edit *)
(* falls right behind this step.                                           *)
Ask(p, waiting) ==
  /\ Matches(WithMeetingInputs(pass[p].rev))
  /\ pass' = [pass EXCEPT ![p].at = waiting,
                          ![p].stamp = WithMeetingInputs(pass[p].rev),
                          ![p].from = epoch]

Refused(p, next) ==
  /\ ~Matches(WithMeetingInputs(pass[p].rev))
  /\ Goto(p, next)

(* title_from_engine up to its call.  A rename during the engine's         *)
(* resolution is seen here; an explicit retitle does not look.             *)
Recheck_Never(p) == TRUE
Recheck(p) == p = "cli" \/ Replaceable(title, pass[p].receipt)

AskTitle(p) ==
  /\ pass[p].at = "title"
  /\ \/ Recheck(p) /\ Ask(p, "naming")
     \/ ~Recheck(p) /\ Matches(WithMeetingInputs(pass[p].rev)) /\ Goto(p, AfterTitle(p))
     \/ Refused(p, AfterTitle(p))
  /\ UNCHANGED <<library, receipt, sweep, due, window, edits, crashes>>

(* set_title_if_setting: the engine's name, if its stamp still holds.      *)
Named(p) ==
  /\ pass[p].at = "naming"
  /\ Matches(pass[p].stamp)
  /\ SetTitle("named")
  /\ pass' = [pass EXCEPT ![p] =
        [NoPass EXCEPT !.at = IF p = "cli" THEN "finish" ELSE "summary",
                       !.rev = pass[p].rev,
                       !.receipt = [pass[p].receipt EXCEPT !.minted = "named"]]]
  /\ UNCHANGED <<policy, speech, summary, status, draft, auto, receipt, sweep, due, window,
                 edits, crashes>>

(* The engine failed, answered no name, or the stamp no longer holds.      *)
NotNamed(p) ==
  /\ pass[p].at = "naming"
  /\ Goto(p, AfterTitle(p))
  /\ UNCHANGED <<library, receipt, sweep, due, window, edits, crashes>>

Outcome(p, code) ==
  pass' = [pass EXCEPT ![p].at = "draft", ![p].status = code,
                       ![p].stamp = NoStamp, ![p].from = 0]

AskSummary(p) ==
  /\ pass[p].at = "summary"
  /\ \/ Ask(p, "summing")
     \/ /\ ~Matches(WithMeetingInputs(pass[p].rev))
        /\ Outcome(p, "failed")
  /\ UNCHANGED <<library, receipt, sweep, due, window, edits, crashes>>

(* insert_summary_if_setting.                                              *)
Summarised(p) ==
  /\ pass[p].at = "summing"
  /\ Matches(pass[p].stamp)
  /\ summary' = [from |-> pass[p].from, rev |-> pass[p].rev]
  /\ Outcome(p, "ok")
  /\ UNCHANGED <<policy, epoch, speech, title, status, draft, auto, receipt, sweep, due,
                 window, edits, crashes>>

NotSummarised(p) ==
  /\ pass[p].at = "summing"
  /\ Outcome(p, "failed")
  /\ UNCHANGED <<library, receipt, sweep, due, window, edits, crashes>>

(* documents::prepare_automatic: nothing when drafts are off or one exists.*)
AskDraft(p) ==
  /\ pass[p].at = "draft"
  /\ \/ auto /\ draft.rev = 0 /\ Ask(p, "drafting")
     \/ (~auto \/ draft.rev > 0) /\ Goto(p, "report")
     \/ auto /\ draft.rev = 0 /\ Refused(p, "report")
  /\ UNCHANGED <<library, receipt, sweep, due, window, edits, crashes>>

(* save_sharing_document_checked: the revision its author loaded must be   *)
(* the newest one.                                                         *)
SaveDocument(expected, author) ==
  /\ draft.rev = expected
  /\ draft' = [rev |-> draft.rev + 1, base |-> expected, by |-> author]

Drafted(p) ==
  /\ pass[p].at = "drafting"
  /\ Matches(pass[p].stamp)
  /\ SaveDocument(0, "engine")
  /\ Goto(p, "report")
  /\ UNCHANGED <<policy, epoch, speech, title, summary, status, auto, receipt, sweep, due,
                 window, edits, crashes>>

NotDrafted(p) ==
  /\ pass[p].at = "drafting"
  /\ Goto(p, "report")
  /\ UNCHANGED <<library, receipt, sweep, due, window, edits, crashes>>

(* set_enrich_report: the summary's outcome; it touches no input.          *)
Report(p) ==
  /\ pass[p].at = "report"
  /\ status' = pass[p].status
  /\ pass' = [pass EXCEPT ![p].at = "mint", ![p].status = "none", ![p].rev = 0]
  /\ UNCHANGED <<policy, epoch, speech, title, summary, draft, auto, receipt, sweep, due,
                 window, edits, crashes>>

(* The local fallback, for what the engine did not name, under the stamp   *)
(* taken before anything was read.  A pass that named the meeting has      *)
(* nothing left to replace.                                                *)
Mints(p) == pass[p].replaceable /\ pass[p].speech = "long"

Ends(p, rc) == pass' = [pass EXCEPT ![p] = [NoPass EXCEPT !.at = "finish", !.receipt = rc]]

Mint(p) ==
  /\ pass[p].at = "mint"
  /\ \/ /\ Mints(p)
        /\ Matches(pass[p].fallback)
        /\ SetTitle("utterance")
        /\ Ends(p, [pass[p].receipt EXCEPT !.minted = "utterance"])
     \/ /\ ~(Mints(p) /\ Matches(pass[p].fallback))
        /\ Ends(p, pass[p].receipt)
        /\ UNCHANGED <<title, epoch>>
  /\ UNCHANGED <<policy, speech, summary, status, draft, auto, receipt, sweep, due, window,
                 edits, crashes>>

(* The last stamp, on every path: this pass's copy of the row, ended.  A   *)
(* retitle writes the clocks it read.                                      *)
Finish(p) ==
  /\ pass[p].at = "finish"
  /\ receipt' = IF p = "cli" THEN pass[p].receipt
                ELSE [pass[p].receipt EXCEPT !.run = "finished"]
  /\ pass' = [pass EXCEPT ![p] = NoPass]
  /\ UNCHANGED <<library, sweep, due, window, edits, crashes>>

-----------------------------------------------------------------------------
(* The legacy-title sweep and the CLI's retitle.                           *)

SweepRead ==
  /\ sweep.at = "due"
  /\ sweep' = [at |-> "read", seen |-> receipt]
  /\ UNCHANGED <<library, receipt, pass, due, window, edits, crashes>>

(* A title that is byte for byte the first utterance and that no receipt   *)
(* claims was minted by an older build.                                    *)
Adopted(rc) ==
  IF title = "utterance" /\ rc.minted = "" THEN [rc EXCEPT !.minted = title] ELSE rc

(* The whole map goes back as it was read, if anything in the library was  *)
(* adopted.                                                                *)
SweepWrite ==
  /\ sweep.at = "read"
  /\ \E others \in BOOLEAN :
        receipt' = IF others \/ Adopted(sweep.seen) # sweep.seen
                   THEN Adopted(sweep.seen) ELSE receipt
  /\ sweep' = [at |-> "done", seen |-> NoReceipt]
  /\ UNCHANGED <<library, pass, due, window, edits, crashes>>

(* fotwd retitle-legacy --apply: a meeting wearing its first utterance,    *)
(* with an engine; then the row is read, and one title call follows.       *)
Retitle ==
  /\ pass["cli"].at = "idle"
  /\ edits < MaxEdits
  /\ edits' = edits + 1
  /\ title = "utterance"
  /\ receipt.minted \in {"", title}
  /\ ResolveEngine = "on"
  /\ pass' = [pass EXCEPT !["cli"] =
        [NoPass EXCEPT !.at = "title", !.rev = policy.rev, !.speech = speech,
                       !.receipt = [receipt EXCEPT !.minted = title]]]
  /\ receipt' = [receipt EXCEPT !.minted = title]
  /\ UNCHANGED <<library, sweep, due, window, crashes>>

-----------------------------------------------------------------------------
(* People.                                                                 *)

Edit == edits < MaxEdits /\ edits' = edits + 1

(* DocumentAction::Rename. *)
Rename ==
  /\ Edit
  /\ SetTitle("user")
  /\ UNCHANGED <<policy, speech, summary, status, draft, auto, receipt, pass, sweep, due,
                 window, crashes>>

(* A note, a transcript or a speech row changed: a new epoch by trigger.   *)
EditInputs ==
  /\ Edit
  /\ epoch' = epoch + 1
  /\ UNCHANGED <<policy, speech, title, summary, status, draft, auto, receipt, pass, sweep,
                 due, window, crashes>>

(* The settings row, written with the next revision even when its value    *)
(* comes back.                                                             *)
ChangeSettings ==
  /\ Edit
  /\ \E e \in Engines : policy' = [rev |-> policy.rev + 1, engine |-> e]
  /\ UNCHANGED <<epoch, speech, title, summary, status, draft, auto, receipt, pass, sweep,
                 due, window, crashes>>

(* DocumentAction::Configure. *)
Configure ==
  /\ Edit
  /\ auto' = ~auto
  /\ UNCHANGED <<policy, epoch, speech, title, summary, status, draft, receipt, pass, sweep,
                 due, window, crashes>>

(* DocumentAction::Load: what the editor works from.                       *)
LoadDocument ==
  /\ window.at = "idle"
  /\ window.loaded # draft.rev
  /\ window' = [window EXCEPT !.loaded = draft.rev]
  /\ UNCHANGED <<library, receipt, pass, sweep, due, edits, crashes>>

(* DocumentAction::Save and CorrectName on the revision the editor loaded; *)
(* a correction also copies the current summary with the name replaced,    *)
(* whose provenance is the copied one's.                                   *)
SaveEdited ==
  /\ Edit
  /\ window.at = "idle"
  /\ draft.rev > 0
  /\ SaveDocument(window.loaded, "person")
  /\ window' = [window EXCEPT !.loaded = draft'.rev]
  /\ UNCHANGED <<policy, epoch, speech, title, summary, status, auto, receipt, pass, sweep,
                 due, crashes>>

(* DocumentAction::Generate: one at a time, on the loaded revision, with   *)
(* the stamp taken under the same lock as the inputs.                      *)
Generate ==
  /\ Edit
  /\ window.at = "idle"
  /\ draft.rev = window.loaded
  /\ ResolveEngine = "on"
  /\ speech # "none"
  /\ window' = [window EXCEPT !.at = "generating", !.stamp = Now]
  /\ UNCHANGED <<library, receipt, pass, sweep, due, crashes>>

Generated ==
  /\ window.at = "generating"
  /\ \/ /\ Matches(window.stamp)
        /\ SaveDocument(window.loaded, "engine")
        /\ window' = [window EXCEPT !.at = "idle", !.stamp = NoStamp,
                                    !.loaded = draft'.rev]
     \/ /\ window' = [window EXCEPT !.at = "idle", !.stamp = NoStamp]
        /\ UNCHANGED draft
  /\ UNCHANGED <<policy, epoch, speech, title, summary, status, auto, receipt, pass, sweep,
                 due, edits, crashes>>

(* The daemon dies: its passes, its sweep and its window's call with it.   *)
(* The library stays, and a restarted daemon sweeps again unless marked.   *)
Crash ==
  /\ crashes < MaxCrashes
  /\ crashes' = crashes + 1
  /\ pass' = [p \in Passes |-> IF p = "cli" THEN pass[p] ELSE NoPass]
  /\ sweep' = IF sweep.at = "done" THEN sweep ELSE [at |-> "due", seen |-> NoReceipt]
  /\ window' = [window EXCEPT !.at = "idle", !.stamp = NoStamp]
  /\ due' = FALSE
  /\ UNCHANGED <<library, receipt, edits>>

-----------------------------------------------------------------------------

Step(p) ==
  \/ StampStarted(p) \/ ReadMeeting(p) \/ Resolve(p)
  \/ AskTitle(p) \/ Named(p) \/ NotNamed(p)
  \/ AskSummary(p) \/ Summarised(p) \/ NotSummarised(p)
  \/ AskDraft(p) \/ Drafted(p) \/ NotDrafted(p)
  \/ Report(p) \/ Mint(p) \/ Finish(p)

Next ==
  \/ SessionEnd \/ SessionEndLost \/ Backfill
  \/ \E p \in Passes : Step(p)
  \/ SweepRead \/ SweepWrite \/ Retitle
  \/ Rename \/ EditInputs \/ ChangeSettings \/ Configure
  \/ LoadDocument \/ SaveEdited \/ Generate \/ Generated
  \/ Crash

(* Engine calls end (each has a deadline), the sweep and the hourly loop   *)
(* run; nobody is obliged to do anything.                                  *)
Fairness ==
  /\ \A p \in Passes : WF_vars(Step(p))
  /\ WF_vars(SweepRead) /\ WF_vars(SweepWrite) /\ WF_vars(Backfill)

Spec == Init /\ [][Next]_vars /\ Fairness

-----------------------------------------------------------------------------
(* Properties *)

(* A generated title, summary or draft is published only while the meeting *)
(* is still what the engine was given to read and the settings are the     *)
(* ones it was asked under: an edit or a settings change during the        *)
(* minutes of a call costs the result, never publishes it late.            *)
Publishes(p) ==
  /\ pass'[p] # pass[p]
  /\ <<title, summary, draft>>' # <<title, summary, draft>>

OutputsAreCurrent ==
  [][/\ \A p \in Passes :
          Publishes(p) => IF pass[p].at = "mint" THEN pass[p].heard = epoch
                          ELSE pass[p].from = epoch /\ pass[p].rev = policy.rev
     /\ (window.at = "generating" /\ window' # window /\ draft' # draft)
          => window.stamp.epoch = epoch]_vars

(* A name typed by a person is never replaced by an automatic pass,        *)
(* whenever it was typed: before the pass, while its engine was being      *)
(* resolved, or while the engine was naming the meeting.                   *)
HumanTitleStands ==
  [][\A p \in {"end", "fill"} :
       (pass'[p] # pass[p] /\ title = "user") => title' = "user"]_vars

(* No revision of the sharing document is lost: each is written by someone *)
(* who had loaded the one before it, and the automatic draft is only ever  *)
(* the first.                                                              *)
NoDraftIsLost ==
  [][draft' # draft =>
       /\ draft'.base = draft.rev
       /\ (draft'.by = "engine" /\ window'.at = window.at) => draft.rev = 0]_vars

(* What a person typed, a name or a revision of the draft, outlives every  *)
(* automatic pass that began before it.                                    *)
HumanWorkStands == HumanTitleStands /\ NoDraftIsLost

(* With an engine that stays, no meeting waits for its summary forever: it *)
(* gets one or a report that a run failed, restarts and lost session-end   *)
(* passes included.                                                        *)
BacklogDrains ==
  <>[](policy.engine = "on")
    => <>[](speech = "none" \/ summary # NoSummary \/ status = "failed")

=============================================================================
