----------------------------- MODULE CaptureLeg -----------------------------
(***************************************************************************)
(* One supervised capture leg of a recording: CaptureSupervisor with its   *)
(* stall Watchdog and device-change Debounce (fotw-audio), the             *)
(* CaptureMonitor through which the user asks for a retry, and the part of *)
(* the pump that writes the supervisor's gaps into the session             *)
(* (supervise_channel_observed).                                           *)
(*                                                                         *)
(* The supervisor is a plain struct that the pump polls; its methods are   *)
(* functions from a supervisor record to the next one, applied by one      *)
(* action per call.  The activity counters are abstracted to what a poll   *)
(* finds new in them: no buffers, only silent ones, or audible ones.       *)
(* Native calls (open, start, stop) fail, leave resources behind, and take *)
(* time.  Time is the host clock in units; polls have distinct times.  The *)
(* counters belong to the leg and outlive its taps, so they never run      *)
(* backwards.  Output activity is the platform's for the system leg and    *)
(* never `active' for the microphone: the model allows both.               *)
(***************************************************************************)
EXTENDS Integers

CONSTANTS
  NoBufferTimeout, SilenceTimeout, QuietNotice, \* WatchdogConfig
  EmitsSilence,        \* WatchdogConfig::emits_silence_when_idle
  DebounceQuiet, DebounceCeiling, RetryBackoff, MaxBackoff, MinInterval,
  MaxAttempts, MaxIneffective, RebuildOnChange, \* SupervisorConfig
  HealthyFor,          \* the ten seconds of observe_delivery
  MaxNow,              \* bound on the clock
  MaxNative            \* bound on the time one poll spends in native calls

ASSUME DurationAssumption ==
  /\ {NoBufferTimeout, SilenceTimeout, QuietNotice, HealthyFor, DebounceQuiet,
      DebounceCeiling, RetryBackoff, MaxBackoff, MinInterval,
      MaxAttempts} \subseteq Nat \ {0}
  /\ {MaxIneffective, MaxNow, MaxNative} \subseteq Nat
  /\ {EmitsSilence, RebuildOnChange} \subseteq BOOLEAN

None == -1   \* no time: Option::None

VARIABLES
  now,       \* Clock::now_ns
  sup,       \* the CaptureSupervisor
  signal,    \* DeviceChangeSignal: a rebuild trigger is pending
  monitor,   \* CaptureMonitor: [shown, queued, closed]
  polled,    \* the pump polled at this time already
  startupPadded, \* ChannelMeta::startup_padded_until
  paddedTo,  \* end of the last unwritten gap put into the session
  padded,    \* the gap the last step padded, or NoGap
  lastHeard, \* last poll that counted new frames, or when the tap started
  lastBad,   \* last poll that could not vouch for delivery
  leaked     \* some cleanup did not release everything

writer == <<startupPadded, paddedTo, padded>>
ghosts == <<lastHeard, lastBad, leaked>>
legVars == <<now, sup, signal, monitor, polled, writer, ghosts>>

NoGap == [start |-> None, end |-> None]
Greater(a, b) == IF a < b THEN b ELSE a
Lesser(a, b)  == IF a < b THEN a ELSE b

-----------------------------------------------------------------------------
(* Watchdog. *)

\* Watchdog::arm.
Arm(t) == [base |-> FALSE, polled |-> t, frames |-> t, quiet |-> None,
           corroborated |-> None, audible |-> FALSE]

Verdict(kind, since) == [kind |-> kind, since |-> since]

\* starvation_verdict.
Starvation(w, t, active) ==
  IF t - w.frames < NoBufferTimeout THEN Verdict("healthy", None)
  ELSE IF ~EmitsSilence /\ ~active THEN Verdict("noAudio", None)
  ELSE Verdict("noBuffers", w.frames)

\* What new buffers change (poll's bookkeeping before any verdict).
Heard(w, t, d) ==
  [w EXCEPT !.base = TRUE, !.polled = t,
            !.frames = IF d = "none" THEN @ ELSE t,
            !.quiet = CASE d = "audible"              -> None
                        [] d = "silent" /\ @ = None   -> w.polled
                        [] OTHER                      -> @,
            !.corroborated = IF d = "audible" THEN None ELSE @,
            !.audible = @ \/ d = "audible"]

\* Watchdog::poll.  The first reading after arming is only a baseline.
WatchdogPoll(w, t, d, active) ==
  LET h == Heard(w, t, d)
      starved == Starvation(h, t, active)
      c == [h EXCEPT !.corroborated =
              IF h.quiet = None \/ ~active THEN None
              ELSE IF @ = None THEN w.polled ELSE @]
  IN  IF ~w.base
      THEN LET first == [w EXCEPT !.base = TRUE, !.polled = t]
           IN  [w |-> first, verdict |-> Starvation(first, t, active)]
      ELSE IF starved.kind = "noBuffers" THEN [w |-> h, verdict |-> starved]
      ELSE [w |-> c, verdict |->
              IF c.corroborated # None /\ t - c.corroborated >= SilenceTimeout
              THEN Verdict("silent", c.quiet)
              ELSE IF c.quiet # None /\ t - c.quiet >= QuietNotice
              THEN Verdict("noAudio", None) ELSE Verdict("healthy", None)]

-----------------------------------------------------------------------------
(* Debounce. *)

NoChange == [first |-> None, last |-> None]

\* Debounce::signal and poll.
DebounceSignal(b, t) == [first |-> IF b.first = None THEN t ELSE b.first, last |-> t]
DebounceDue(b, t) ==
  b.first # None /\ (t - b.last >= DebounceQuiet \/ t - b.first >= DebounceCeiling)

-----------------------------------------------------------------------------
(* CaptureSupervisor. *)

NoRecovery == [start |-> None, reason |-> "none", next |-> None]

New == [state |-> "idle", tap |-> FALSE, active |-> FALSE, fault |-> None,
        recovery |-> NoRecovery, attempts |-> 0, ineffective |-> 0,
        lastAttempt |-> None, lastRebuild |-> None, retry |-> FALSE,
        blocked |-> FALSE, confirmed |-> FALSE, healthySince |-> None,
        prev |-> None, noAudio |-> FALSE, watchdog |-> Arm(0),
        debounce |-> NoChange, gap |-> NoGap]

Unproven(s) == [s EXCEPT !.confirmed = FALSE, !.healthySince = None, !.prev = None]

\* backoff.
Backoff(n) == Lesser(RetryBackoff * 2 ^ (n - 1), MaxBackoff)

\* next_attempt_at.
NextAttemptAt(s, t) ==
  IF s.lastAttempt = None THEN t ELSE Greater(t, s.lastAttempt + MinInterval)

\* What one try at a tap can come to.  "ok"; "open": it does not open; "start":
\* it opens, gets its sink and does not start; "leak": an error whose cleanup
\* did not release everything.
Outcomes == {"ok", "open", "start", "leak"}

\* open, start_observed and remember_cleanup: a tap that opens gets a sink, and
\* with it a fault cell, of its own; the callbacks of one that fails are retired.
TapOpened(s, o) ==
  [s EXCEPT !.blocked = @ \/ o = "leak", !.tap = (o = "ok"), !.active = (o = "ok"),
            !.fault = IF o = "open" THEN @ ELSE None]

GivesUp(s) == s.blocked \/ s.attempts >= MaxAttempts

\* attempt_rebuild, from a recovery whose time has come.
AttemptRebuild(s, t, o) ==
  LET tried == [TapOpened(s, o) EXCEPT !.attempts = @ + 1, !.lastAttempt = t]
  IN  IF o = "ok"
      THEN [Unproven(tried) EXCEPT
              !.state = "running", !.recovery = NoRecovery, !.lastRebuild = t,
              !.watchdog = Arm(t), !.debounce = NoChange, !.noAudio = FALSE,
              !.gap = [start |-> s.recovery.start, end |-> t]]
      ELSE IF GivesUp(tried)
      THEN [tried EXCEPT !.state = "abandoned"]
      ELSE [tried EXCEPT !.state = "recovering",
              !.recovery.next = t + Greater(Backoff(tried.attempts), MinInterval)]

\* begin_recovery.  leak: stopping the old tap left something behind.
BeginRecovery(s, t, start, reason, leak, o) ==
  IF s.attempts >= MaxAttempts
  THEN [s EXCEPT !.state = "quarantined"]
  ELSE LET ended == [s EXCEPT !.active = FALSE, !.tap = FALSE, !.blocked = @ \/ leak,
                         !.recovery = [start |-> start, reason |-> reason,
                                       next |-> NextAttemptAt(s, t)]]
       IN  IF leak
           THEN [ended EXCEPT !.state = "abandoned"]
           ELSE IF t < ended.recovery.next
           THEN [ended EXCEPT !.state = "recovering"]
           ELSE AttemptRebuild(ended, t, o)

\* Mutant: two deliveries in a row are health enough.
Healthy_Burst(s, t, d, v, w) ==
  IF s.prev # None /\ d # "none" THEN t - HealthyFor ELSE None

\* observe_delivery: since when delivery has been healthy, or None.
Healthy(s, t, d, v, w) ==
  IF \/ s.prev = None \/ t - s.prev >= NoBufferTimeout \/ d = "none"
     \/ v.kind # "healthy" \/ ~w.audible
  THEN None ELSE IF s.healthySince = None THEN t ELSE s.healthySince

\* Mutant: the outage begins when the stall is noticed.
ActOnFault_FromNow(s, t, v, leak, o) ==
  LET counted == [s EXCEPT !.confirmed = FALSE, !.ineffective = @ + 1]
  IN  IF s.state = "quarantined" THEN [s EXCEPT !.confirmed = FALSE]
      ELSE IF counted.ineffective > MaxIneffective
      THEN [Unproven(counted) EXCEPT !.state = "quarantined", !.watchdog = Arm(t)]
      ELSE BeginRecovery(counted, t, t, "stalledNoBuffers", leak, o)

\* The stall branch of poll_watching.
ActOnFault(s, t, v, leak, o) ==
  LET counted == [s EXCEPT !.confirmed = FALSE, !.ineffective = @ + 1]
  IN  IF s.state = "quarantined" THEN [s EXCEPT !.confirmed = FALSE]
      ELSE IF counted.ineffective > MaxIneffective
      THEN [Unproven(counted) EXCEPT !.state = "quarantined", !.watchdog = Arm(t)]
      ELSE IF v.kind = "noBuffers"
      THEN BeginRecovery(counted, t, v.since, "stalledNoBuffers", leak, o)
      ELSE BeginRecovery(counted, t, t, "rebuildWindow", leak, o)

\* The device-change branch, once the debounce is due.
ActOnChange(s, t, stable, leak, o) ==
  LET taken   == [s EXCEPT !.debounce.first = None]
      tooSoon == s.lastRebuild # None /\ t - s.lastRebuild < MinInterval
  IN  IF s.state = "quarantined" /\ ~stable THEN taken
      ELSE IF tooSoon \/ ~RebuildOnChange
      THEN [Unproven(taken) EXCEPT !.watchdog = Arm(t)]
      ELSE BeginRecovery(taken, t, t, "deviceChanged", leak, o)

\* poll_watching.
PollWatching(s, t, d, active, leak, o) ==
  IF s.fault # None
  THEN IF s.state = "quarantined" THEN Unproven(s)
       ELSE BeginRecovery(Unproven(s), t, s.fault, "callbackFault", leak, o)
  ELSE
    LET p      == WatchdogPoll(s.watchdog, t, d, active)
        v      == p.verdict
        since  == Healthy(s, t, d, v, p.w)
        stable == since # None /\ t - since >= HealthyFor
        seen   == [s EXCEPT !.watchdog = p.w, !.prev = t, !.healthySince = since]
        judged == IF stable
                  THEN [seen EXCEPT !.confirmed = TRUE, !.attempts = 0,
                          !.ineffective = 0, !.state = "running"]
                  ELSE seen
    IN  IF v.kind \in {"noBuffers", "silent"} THEN ActOnFault(judged, t, v, leak, o)
        ELSE IF DebounceDue(judged.debounce, t)
        THEN ActOnChange(judged, t, stable, leak, o)
        ELSE IF judged.debounce.first # None THEN judged
        ELSE IF v.kind = "noAudio"
        THEN [judged EXCEPT !.confirmed = FALSE, !.noAudio = TRUE]
        ELSE [judged EXCEPT !.noAudio = FALSE]

\* The part of poll that takes a manual retry.
TakeRetry(s, t, leak, o) ==
  LET fresh == [s EXCEPT !.retry = FALSE, !.attempts = 0, !.ineffective = 0,
                  !.debounce = NoChange]
  IN  IF s.state = "abandoned"
      THEN LET again == [fresh EXCEPT !.state = "recovering",
                           !.recovery.next = NextAttemptAt(s, t)]
           IN  IF t >= again.recovery.next THEN AttemptRebuild(again, t, o) ELSE again
      ELSE IF s.fault = None
      THEN BeginRecovery(fresh, t, t, "rebuildWindow", leak, o)
      ELSE BeginRecovery(fresh, t, s.fault, "callbackFault", leak, o)

\* Mutant: a change while recovering starts the wait for the next attempt over.
SupPoll_ChangePostpones(s0, t, changed, d, active, leak, o) ==
  LET s == [s0 EXCEPT !.gap = NoGap]
      m == IF changed THEN [s EXCEPT !.debounce = DebounceSignal(@, t)] ELSE s
  IN  IF s.state = "idle" \/ s.blocked THEN s
      ELSE IF s.retry THEN TakeRetry(s, t, leak, o)
      ELSE CASE s.state = "recovering" ->
                  IF changed THEN [m EXCEPT !.recovery.next = t + MinInterval]
                  ELSE IF t >= s.recovery.next THEN AttemptRebuild(m, t, o) ELSE m
             [] s.state = "abandoned" -> [m EXCEPT !.debounce = NoChange]
             [] OTHER -> PollWatching(m, t, d, active, leak, o)

\* CaptureSupervisor::poll.
SupPoll(s0, t, changed, d, active, leak, o) ==
  LET s == [s0 EXCEPT !.gap = NoGap]
      m == IF changed THEN [s EXCEPT !.debounce = DebounceSignal(@, t)] ELSE s
  IN  IF s.state = "idle" \/ s.blocked THEN s
      ELSE IF s.retry THEN TakeRetry(s, t, leak, o)
      ELSE CASE s.state = "recovering" ->
                  IF t >= s.recovery.next THEN AttemptRebuild(m, t, o) ELSE m
             [] s.state = "abandoned" -> [m EXCEPT !.debounce = NoChange]
             [] OTHER -> PollWatching(m, t, d, active, leak, o)

\* start and start_recovering, from t to end (a system leg that does not start
\* ends the session instead: only the microphone recovers from here).
SupStart(t, end, o) ==
  LET s == TapOpened(New, o)
      fell == [s EXCEPT !.attempts = 1, !.lastAttempt = t,
                   !.recovery = [start |-> t, reason |-> "initiallyUnavailable",
                                 next |-> end + Greater(Backoff(1), MinInterval)]]
  IN  IF o = "ok" THEN [s EXCEPT !.state = "running", !.watchdog = Arm(end)]
      ELSE [fell EXCEPT !.state = IF GivesUp(fell) THEN "abandoned" ELSE "recovering"]

\* take_running_tap, and stop.
SupStop(s) == [s EXCEPT !.state = "idle", !.active = FALSE, !.tap = FALSE,
                 !.recovery = NoRecovery, !.retry = FALSE, !.debounce = NoChange,
                 !.gap = NoGap]

\* request_retry.
SupRetry(s) ==
  [s EXCEPT !.retry = @ \/ (~s.blocked /\ s.state \in {"abandoned", "quarantined"})]

\* recovery_status.
Status(s) ==
  CASE s.blocked                                               -> "cleanupBlocked"
    [] ~s.blocked /\ s.state = "idle"                          -> "stopped"
    [] ~s.blocked /\ s.state = "recovering"                    -> "recovering"
    [] ~s.blocked /\ s.state \in {"abandoned", "quarantined"}  -> "exhausted"
    [] OTHER -> IF s.noAudio THEN "quiet" ELSE IF s.confirmed THEN "healthy"
                ELSE "confirming"

-----------------------------------------------------------------------------
(* The leg. *)

LegInit ==
  /\ now = 0 /\ sup = New /\ signal = FALSE /\ polled = FALSE
  /\ monitor = [shown |-> "unavailable", queued |-> FALSE, closed |-> FALSE]
  /\ startupPadded = None /\ paddedTo = None /\ padded = NoGap
  /\ lastHeard = None /\ lastBad = None /\ leaked = FALSE

\* CaptureMonitor::publish and close.
Publish(m, s) == IF m.closed THEN m ELSE [m EXCEPT !.shown = Status(s)]
Closed == [shown |-> "stopped", queued |-> FALSE, closed |-> TRUE]

\* run_supervised starts the leg; the session's time begins once it has.
Start ==
  /\ monitor.shown = "unavailable"
  /\ \E o \in Outcomes, k \in 0 .. MaxNative :
       /\ now + k <= MaxNow /\ now' = now + k
       /\ sup' = SupStart(now, now', o)
       /\ startupPadded' = IF o = "ok" THEN None ELSE now'
       /\ leaked' = (o = "leak")
  /\ monitor' = Publish(monitor, sup')
  /\ lastHeard' = now' /\ lastBad' = now' /\ paddedTo' = now'
  /\ UNCHANGED <<signal, polled, padded>>

\* apply_leg_gap: an empty gap is nothing.
Pad(start, end) ==
  IF end > start THEN padded' = [start |-> start, end |-> end] /\ paddedTo' = end
  ELSE padded' = NoGap /\ UNCHANGED paddedTo

\* What supervise_channel_observed does with the supervisor's events: the gap
\* of a rebuild, less what was padded while the device had not come up yet; or
\* another piece of that startup outage.
WriteGaps(s, t, end) ==
  IF s.gap # NoGap
  THEN Pad(Greater(s.gap.start, startupPadded), s.gap.end) /\ startupPadded' = None
  ELSE IF startupPadded # None
  THEN Pad(startupPadded, end) /\ startupPadded' = end
  ELSE padded' = NoGap /\ UNCHANGED <<paddedTo, startupPadded>>

\* The pump polls the leg: the queued retry, the supervisor, its status, its
\* gaps.  Native calls made by the poll take k units.
Poll(d, active, leak, o, k) ==
  LET asked == IF monitor.queued THEN SupRetry(sup) ELSE sup
      live  == sup.tap /\ sup.fault = None
      tried == sup'.lastAttempt # sup.lastAttempt
      torn  == sup.tap /\ (tried \/ ~sup'.tap)
  IN
  /\ sup.state # "idle" /\ ~polled
  /\ d # "none" => live
  /\ sup' = SupPoll(asked, now, signal, d, active, leak, o)
  /\ k > 0 => tried \/ torn
  /\ leaked' = (leaked \/ (torn /\ leak) \/ (tried /\ o = "leak"))
  /\ now + k <= MaxNow /\ now' = now + k /\ polled' = TRUE
  /\ signal' = (signal /\ sup.blocked)
  /\ monitor' = Publish([monitor EXCEPT !.queued = FALSE], sup')
  /\ WriteGaps(sup', now, now')
  /\ lastHeard' = IF sup'.gap # NoGap \/ (d # "none" /\ sup.watchdog.base)
                  THEN now ELSE lastHeard
  /\ lastBad' = IF \/ d = "none" \/ sup'.gap # NoGap
                   \/ now - sup.watchdog.polled >= NoBufferTimeout
                THEN now ELSE lastBad

\* A platform listener reports a change that is worth a rebuild.
DeviceChanged ==
  /\ sup.state # "idle" /\ ~signal /\ signal' = TRUE
  /\ UNCHANGED <<now, sup, monitor, polled, writer, ghosts>>

\* FaultObservingSink::on_error: the device was invalidated under the callback,
\* which delivers nothing from here on.
CallbackFault ==
  /\ sup.active /\ sup.fault = None
  /\ sup' = [sup EXCEPT !.fault = now]
  /\ UNCHANGED <<now, signal, monitor, polled, writer, ghosts>>

\* CaptureMonitor::request_retry, from the dashboard.
RetryCapture ==
  /\ ~monitor.closed /\ ~monitor.queued /\ monitor.shown = "exhausted"
  /\ monitor' = [monitor EXCEPT !.queued = TRUE]
  /\ UNCHANGED <<now, sup, signal, polled, writer, ghosts>>

\* stop_live closes the monitor; the pump goes on until it sees the latch.
UserStop ==
  /\ ~monitor.closed /\ monitor.shown # "unavailable" /\ monitor' = Closed
  /\ UNCHANGED <<now, sup, signal, polled, writer, ghosts>>

\* The pump sees the latch: what is left of a startup outage is padded, the tap
\* is handed out and the supervisor is idle with a new mailbox.
PumpStop ==
  /\ monitor.closed /\ sup.state # "idle"
  /\ sup' = SupStop(sup) /\ signal' = FALSE
  /\ IF sup.recovery.reason = "initiallyUnavailable"
     THEN Pad(Greater(sup.recovery.start, startupPadded), now)
     ELSE padded' = NoGap /\ UNCHANGED paddedTo
  /\ UNCHANGED <<now, monitor, polled, startupPadded, ghosts>>

Tick == /\ sup.state # "idle" /\ now < MaxNow /\ now' = now + 1 /\ polled' = FALSE
        /\ UNCHANGED <<sup, signal, monitor, writer, ghosts>>

PollAny == \E d \in {"none", "silent", "audible"}, active \in BOOLEAN, leak \in BOOLEAN,
              o \in Outcomes, k \in 0 .. MaxNative : Poll(d, active, leak, o, k)

LegNext == \/ Start \/ PollAny \/ DeviceChanged \/ CallbackFault
        \/ RetryCapture \/ UserStop \/ PumpStop \/ Tick

LegSpec == LegInit /\ [][LegNext]_legVars

\* Of the actions only a poll sets polled: a step that does is a poll.
Turn == sup.state # "idle" /\ ~polled /\ polled' = TRUE

\* The pump comes round again and again until it sees the latch, and time passes.
LegFairSpec == LegSpec /\ WF_polled(Turn) /\ WF_now(Tick)

-----------------------------------------------------------------------------
(* Properties. *)

States  == {"idle", "running", "recovering", "abandoned", "quarantined"}
Reasons == {"none", "stalledNoBuffers", "rebuildWindow", "deviceChanged",
            "callbackFault", "initiallyUnavailable"}
Later   == Nat \cup {None}

\* Every variable keeps its type; the budget is never overdrawn.
LegTypeOK ==
  /\ now \in Nat /\ {signal, polled} \subseteq BOOLEAN
  /\ sup.state \in States
  /\ {sup.tap, sup.active, sup.retry, sup.blocked, sup.confirmed, sup.noAudio} \subseteq BOOLEAN
  /\ {sup.fault, sup.lastAttempt, sup.lastRebuild, sup.healthySince, sup.prev} \subseteq Later
  /\ sup.recovery \in [start : Later, reason : Reasons, next : Later]
  /\ sup.attempts \in 0 .. Greater(MaxAttempts, 1)
  /\ sup.ineffective \in 0 .. MaxIneffective + 1
  /\ sup.watchdog \in [base : BOOLEAN, polled : Nat, frames : Nat, quiet : Later,
                        corroborated : Later, audible : BOOLEAN]
  /\ sup.debounce \in [first : Later, last : Later]
  /\ {startupPadded, paddedTo, lastHeard, lastBad} \subseteq Later

\* A leg that is watched has a tap whose callbacks are admitted, and one that
\* is recovering, given up or stopped has neither: nothing an old tap delivers
\* late reaches the session (retire_callbacks before every teardown).
OneLiveTap ==
  /\ sup.tap <=> sup.state \in {"running", "quarantined"}
  /\ sup.active <=> sup.tap

\* Once a teardown left native resources behind nothing is opened again: not by
\* a retry, a device change, or the passage of time (cleanup_blocked).
LeaksFence == [][leaked => ~sup'.tap /\ sup'.lastAttempt = sup.lastAttempt]_legVars

\* Two attempts are never closer than min_rebuild_interval, "including failed
\* opens, device changes, and explicit manual retries" (supervisor.rs:463).
AttemptsAreSpaced ==
  [][sup'.lastAttempt # sup.lastAttempt /\ sup.lastAttempt # None =>
       sup'.lastAttempt - sup.lastAttempt >= MinInterval]_legVars

\* A spent budget comes back only for a retry the user asked for or for
\* HealthyFor of delivery without a poll that found nothing new, a rebuild or a
\* pump too late to vouch for it: a brief burst from a flapping device does not
\* earn one (supervisor.rs:74).
BudgetIsEarned ==
  [][sup'.attempts < sup.attempts =>
       monitor.queued \/ now - lastBad >= HealthyFor]_legVars

\* Padding never overlaps earlier padding, nor frames the watchdog counted: one
\* stretch of time is not put into the file twice (apply_leg_gap, and
\* startup_padded_until for an outage that began before the recording).
PaddedOnce ==
  [][padded' # NoGap /\ padded' # padded =>
       padded'.start >= paddedTo /\ padded'.start >= lastHeard]_legVars

\* The latest moment from which the watch on the tap may be counting: the last
\* frames or, so soon after a rebuild that a device change is refused, that
\* refusal, which arms the watchdog again.
WatchedFrom ==
  IF sup.lastRebuild = None THEN lastHeard
  ELSE Greater(lastHeard, sup.lastRebuild + MinInterval - 1)

\* A recovery's gap begins where the watch began to count, or for a device change
\* within NoBufferTimeout of it: a longer hole in the file was a stall, and the
\* stall's own beginning is kept through every failed attempt.  (For a leg that
\* delivers silence when idle and is rebuilt on a change.  A rebuild out of
\* quarantine is the exception: its gap begins at the retry.)
OutageIsCovered ==
  EmitsSilence /\ RebuildOnChange =>
    /\ sup.recovery.reason = "stalledNoBuffers" => sup.recovery.start <= WatchedFrom
    /\ sup.recovery.reason = "deviceChanged" =>
         sup.recovery.start < WatchedFrom + NoBufferTimeout

\* A storm of notifications postpones the rebuild no longer than the ceiling: a
\* poll of a live tap leaves no older change pending (Debounce).
StormIsBounded ==
  polled /\ sup.state = "running" /\ sup.fault = None /\ sup.debounce.first # None =>
    now - sup.debounce.first < DebounceCeiling

\* A leg without a tap does not wait for ever: once the longest wait is over the
\* next attempt is made, whatever the user and the devices do meanwhile.
RecoveryIsAttempted ==
  LET Overdue == /\ sup.state = "recovering"
                 /\ now >= sup.lastAttempt + MaxNative + Greater(MaxBackoff, MinInterval)
  IN  Overdue ~> ~Overdue

\* Nothing is opened behind a leak, before its time or on a budget nobody earned,
\* and callbacks are admitted exactly from the tap that is watched.
RebuildsAreEarned == []OneLiveTap /\ LeaksFence /\ AttemptsAreSpaced /\ BudgetIsEarned

\* The gap a leg reports covers its outage and is written once.
GapsAreTrue == [][OutageIsCovered']_legVars /\ PaddedOnce

\* Neither a storm of notifications nor a row of failures postpones an attempt
\* for ever.
RecoveryIsPrompt == []StormIsBounded /\ RecoveryIsAttempted
=============================================================================
