-------------------------- MODULE LiveAudioProofs --------------------------
(***************************************************************************)
(* Proofs about the three modules live audio passes through, each for      *)
(* itself: the supervised capture leg (CaptureLeg), live echo cancellation *)
(* (LiveAec) and the streaming recognizer (CloudStream).                   *)
(*                                                                         *)
(* The leg, for any timeouts, budgets and clock: a tap is there exactly    *)
(* while it is watched, what the watch counts from is tied to the last     *)
(* frames heard and to the last rebuild, and what was padded ends where    *)
(* frames begin.  Echo cancellation, for any block and queue sizes: sink,  *)
(* boundary and coordinator tile the microphone, and the answers and       *)
(* commands of the generation still wanted continue one another from the   *)
(* sink to the boundary.  The stream, for any text, leg offset, replay     *)
(* window and number of failures: the anchor divides the audio into what   *)
(* is heard or reported lost, and what is on the connection or will be     *)
(* replayed to the next one.                                               *)
(***************************************************************************)
EXTENDS CaptureLeg, LiveAec, CloudStream, SequenceTheorems, WellFoundedInduction,
        NaturalsInduction, TLAPS

-----------------------------------------------------------------------------
(* The supervised leg: the inductive invariant.                            *)

Recovery == [start : Later, reason : Reasons, next : Later]
Watch    == [base : BOOLEAN, polled : Nat, frames : Nat, quiet : Later,
             corroborated : Later, audible : BOOLEAN]
Span     == [start : Later, end : Later]
Sup == [state : States, tap : BOOLEAN, active : BOOLEAN, fault : Later,
        recovery : Recovery, attempts : Nat, ineffective : Nat,
        lastAttempt : Later, lastRebuild : Later, retry : BOOLEAN,
        blocked : BOOLEAN, confirmed : BOOLEAN, healthySince : Later,
        prev : Later, noAudio : BOOLEAN, watchdog : Watch,
        debounce : [first : Later, last : Later], gap : Span]

Monitor == [shown : {"unavailable", "stopped", "cleanupBlocked", "recovering", "exhausted",
                     "quiet", "healthy", "confirming"},
            queued : BOOLEAN, closed : BOOLEAN]

(* The next attempt keeps its distance from the last.                      *)
Spaced(s) ==
  s.state = "recovering" =>
    /\ s.recovery.next \in Nat
    /\ s.lastAttempt # None => s.lastAttempt + MinInterval <= s.recovery.next

(* What a supervisor is between two calls.  A tap is there, and admitted,  *)
(* exactly while it is watched; behind a leak there is none; a retry is    *)
(* taken by the poll that hears of it; the last look at deliveries was the *)
(* watchdog's last poll; and what the watchdog has heard it heard after    *)
(* its baseline.                                                           *)
SupInv(s) ==
  /\ s \in Sup
  /\ s.tap <=> s.state \in {"running", "quarantined"}
  /\ s.active <=> s.tap
  /\ s.blocked => s.state \in {"abandoned", "idle"}
  /\ ~s.retry
  /\ s.tap => s.recovery = NoRecovery
  /\ s.prev # None => s.prev = s.watchdog.polled
  /\ s.watchdog.audible => s.watchdog.base
  /\ Spaced(s)

(* The moment from which the watch on s may be counting.                   *)
From(s, alive) ==
  IF s.lastRebuild = None THEN alive ELSE Greater(alive, s.lastRebuild + MinInterval - 1)

(* The supervisor against what has happened by time t: `alive' is the last *)
(* poll that counted frames, `bad' the last that could not vouch for them. *)
(* A tap's watch began no earlier than it was heard, and a fault came no   *)
(* earlier; health counts from after the last bad poll.                    *)
TapInv(s, t, alive, bad) ==
  s.tap =>
    /\ alive <= s.watchdog.frames /\ s.watchdog.frames <= t
    /\ s.fault # None => alive <= s.fault /\ s.fault <= t
    /\ s.healthySince # None => bad <= s.healthySince /\ s.healthySince <= t
    /\ s.watchdog.audible => s.watchdog.frames = alive
    /\ s.state = "running" /\ EmitsSilence /\ RebuildOnChange =>
         s.watchdog.frames <= From(s, alive)

(* An outage begins no earlier than the last frames, but for one that was  *)
(* there before the recording, whose padding has begun.                    *)
DownInv(s, t, alive, startup) ==
  s.state \in {"recovering", "abandoned"} =>
    /\ s.recovery.start \in Nat /\ s.recovery.start <= t
    /\ startup = None => alive <= s.recovery.start
    /\ s.recovery.reason = "initiallyUnavailable" => startup # None

(* What was padded ends where frames begin, or where padding goes on.      *)
PadInv ==
  sup.state # "idle" =>
    /\ startupPadded = None => paddedTo <= lastHeard
    /\ startupPadded # None =>
         paddedTo = startupPadded /\ lastHeard <= startupPadded
           /\ startupPadded <= now /\ ~sup.tap

ClockInv ==
  /\ now \in Nat /\ signal \in BOOLEAN /\ polled \in BOOLEAN /\ leaked \in BOOLEAN
  /\ {startupPadded, paddedTo, lastHeard, lastBad} \subseteq Later
  /\ lastHeard <= now /\ lastBad <= now

(* Before the start nothing has happened.                                  *)
StartInv ==
  /\ monitor.shown = "unavailable" => sup = New /\ ~leaked /\ ~monitor.closed
  /\ monitor \in Monitor

LegInv ==
  /\ ClockInv /\ SupInv(sup) /\ TapInv(sup, now, lastHeard, lastBad)
  /\ DownInv(sup, now, lastHeard, startupPadded) /\ PadInv /\ StartInv
  /\ leaked => sup.blocked
  /\ OutageIsCovered /\ StormIsBounded
-----------------------------------------------------------------------------
(* What the supervisor's functions return.                                 *)

(* The last look at deliveries was the watchdog's, which hears nothing     *)
(* before its baseline; and a retry is not left lying.                     *)
Honest(s) ==
  /\ ~s.retry
  /\ s.prev # None => s.prev = s.watchdog.polled
  /\ s.watchdog.audible => s.watchdog.base

(* r came from s at time t by at most one attempt with outcome o.          *)
Made(s, r, t, o) ==
  /\ r \in Sup
  /\ Honest(r)
  /\ r.lastAttempt # s.lastAttempt => r.lastAttempt = t /\ (o = "leak" => r.blocked)
  /\ r.lastAttempt # s.lastAttempt /\ s.lastAttempt # None =>
       t - s.lastAttempt >= MinInterval

(* r has just been rebuilt, at t, after an outage from start.              *)
Rebuilt(r, t, start) ==
  /\ r.state = "running" /\ r.tap /\ r.active /\ ~r.blocked
  /\ r.recovery = NoRecovery /\ r.fault = None /\ r.lastRebuild = t
  /\ r.watchdog = Arm(t) /\ r.debounce = NoChange
  /\ r.prev = None /\ r.healthySince = None
  /\ r.gap = [start |-> start, end |-> t]

(* r is without a tap, since start and for that reason.                    *)
Down(s, r, start, reason) ==
  /\ r.state \in {"recovering", "abandoned"} /\ ~r.tap /\ ~r.active
  /\ r.blocked => r.state = "abandoned"
  /\ r.recovery.start = start /\ r.recovery.reason = reason
  /\ r.lastRebuild = s.lastRebuild /\ r.gap = NoGap
  /\ Spaced(r)

(* r watches the tap s did.                                                *)
Watching(s, r) ==
  /\ r.state \in {"running", "quarantined"} /\ r.tap /\ r.active /\ ~r.blocked
  /\ r.recovery = NoRecovery /\ r.fault = s.fault
  /\ r.lastRebuild = s.lastRebuild /\ r.lastAttempt = s.lastAttempt
  /\ r.gap = NoGap

(* A supervisor whose poll may go on.                                      *)
Polling(s) == s \in Sup /\ Honest(s) /\ ~s.blocked /\ s.gap = NoGap

(* The next attempt waits for at least MinInterval.                        *)
LEMMA WaitIsLong ==
  ASSUME NEW t \in Nat, NEW n \in Nat
  PROVE  /\ t + Greater(Backoff(n), MinInterval) \in Nat
         /\ t + Greater(Backoff(n), MinInterval) >= t + MinInterval
<1>1. /\ RetryBackoff \in Nat /\ MaxBackoff \in Nat /\ MinInterval \in Nat
  BY DurationAssumption
<1>2. 2 ^ (n - 1) \in Int
  BY SMT
<1> DEFINE p == 2 ^ (n - 1)
<1>3. Backoff(n) = Lesser(RetryBackoff * p, MaxBackoff)
  BY DEF Backoff
<1> HIDE DEF p
<1>4. p \in Int
  BY <1>2 DEF p
<1>5. RetryBackoff * p \in Int
  BY <1>1, <1>4
<1>6. Backoff(n) \in Int
  BY <1>1, <1>3, <1>5 DEF Lesser
<1> QED BY <1>1, <1>6 DEF Greater

(* A tap that opens is there and admitted; one that does not leaves none.  *)
OpenedAs(s, o, r) ==
  /\ r \in Sup
  /\ r = [s EXCEPT !.blocked = r.blocked, !.tap = r.tap, !.active = r.active,
                   !.fault = r.fault]
  /\ r.blocked = (s.blocked \/ o = "leak")
  /\ r.tap = (o = "ok") /\ r.active = (o = "ok")
  /\ o # "open" => r.fault = None

LEMMA OpenedIs ==
  ASSUME NEW s \in Sup, NEW o \in Outcomes
  PROVE  OpenedAs(s, o, TapOpened(s, o))
<1> DEFINE b == s.blocked \/ o = "leak"
           f == IF o = "open" THEN s.fault ELSE None
           k == (o = "ok")
           r == TapOpened(s, o)
<1>1. TapOpened(s, o) = [s EXCEPT !.blocked = b, !.tap = k, !.active = k, !.fault = f]
  BY DEF TapOpened, Sup
<1>2. b \in BOOLEAN /\ k \in BOOLEAN
  BY DEF Sup
<1>3. f \in Later
  BY DEF Sup, Later
<1>4. o # "open" => f = None
  OBVIOUS
<1> HIDE DEF b, f, k
<1>5. [s EXCEPT !.blocked = b, !.tap = k, !.active = k, !.fault = f] \in Sup
  BY <1>2, <1>3 DEF Sup
<1>6. r = [s EXCEPT !.blocked = b, !.tap = k, !.active = k, !.fault = f]
  BY <1>1
<1>7. r.blocked = b /\ r.tap = k /\ r.active = k /\ r.fault = f
  BY <1>6 DEF Sup
<1> QED BY <1>4, <1>5, <1>6, <1>7 DEF b, k, OpenedAs

(* An attempt rebuilds the tap or leaves the leg down, its outage's        *)
(* beginning and reason kept (attempt_rebuild).                            *)
LEMMA AttemptIs ==
  ASSUME NEW s, Polling(s), NEW t \in Nat, NEW o \in Outcomes,
         s.recovery.start \in Nat,
         s.lastAttempt # None => t - s.lastAttempt >= MinInterval
  PROVE  LET r == AttemptRebuild(s, t, o) IN
         /\ Made(s, r, t, o) /\ r.attempts = s.attempts + 1
         /\ \/ Rebuilt(r, t, s.recovery.start)
            \/ Down(s, r, s.recovery.start, s.recovery.reason)
<1> DEFINE r == AttemptRebuild(s, t, o)
           q == TapOpened(s, o)
           tried == [q EXCEPT !.attempts = s.attempts + 1, !.lastAttempt = t]
<1>0. MinInterval \in Nat \ {0}
  BY DurationAssumption
<1>1. /\ s \in Sup /\ Honest(s) /\ ~s.blocked /\ s.gap = NoGap
      /\ s.attempts \in Nat /\ s.recovery \in Recovery
  BY DEF Polling, Sup
<1>2. /\ q \in Sup
      /\ q = [s EXCEPT !.blocked = q.blocked, !.tap = q.tap, !.active = q.active,
                       !.fault = q.fault]
      /\ q.blocked = (o = "leak") /\ q.tap = (o = "ok") /\ q.active = (o = "ok")
      /\ o # "open" => q.fault = None
  <2>1. /\ q \in Sup
        /\ q = [s EXCEPT !.blocked = q.blocked, !.tap = q.tap, !.active = q.active,
                         !.fault = q.fault]
        /\ q.blocked = (s.blocked \/ o = "leak")
        /\ q.tap = (o = "ok") /\ q.active = (o = "ok")
        /\ o # "open" => q.fault = None
    <3>1. OpenedAs(s, o, q)
      BY <1>1, OpenedIs
    <3> HIDE DEF q
    <3> QED BY <3>1 DEF OpenedAs
  <2>2. q.blocked = (o = "leak")
    BY <1>1, <2>1
  <2> QED BY <2>1, <2>2
<1>3. /\ q.attempts = s.attempts /\ q.recovery = s.recovery /\ q.lastRebuild = s.lastRebuild
      /\ q.watchdog = s.watchdog /\ q.prev = s.prev /\ q.gap = s.gap /\ q.retry = s.retry
      /\ q.lastAttempt = s.lastAttempt
  BY <1>1, <1>2 DEF Sup
<1>4. /\ tried \in Sup
      /\ tried = [TapOpened(s, o) EXCEPT !.attempts = @ + 1, !.lastAttempt = t]
  <2>1. s.attempts + 1 \in Nat /\ t \in Later
    BY <1>1 DEF Later
  <2>2. tried \in Sup
    BY <1>2, <2>1 DEF Sup
  <2>3. tried = [TapOpened(s, o) EXCEPT !.attempts = @ + 1, !.lastAttempt = t]
    BY <1>2, <1>3 DEF Sup
  <2> QED BY <2>2, <2>3
<1>5. /\ tried.blocked = (o = "leak") /\ tried.tap = (o = "ok") /\ tried.active = (o = "ok")
      /\ o # "open" => tried.fault = None
      /\ tried.recovery = s.recovery /\ tried.lastRebuild = s.lastRebuild
      /\ tried.watchdog = s.watchdog /\ tried.prev = s.prev /\ tried.gap = NoGap
      /\ ~tried.retry /\ tried.attempts = s.attempts + 1 /\ tried.lastAttempt = t
  BY <1>1, <1>2, <1>3 DEF Sup, Honest
<1> HIDE DEF q, tried
<1>6. ASSUME o = "ok"
      PROVE  Made(s, r, t, o) /\ r.attempts = s.attempts + 1 /\ Rebuilt(r, t, s.recovery.start)
  <2> DEFINE g == [start |-> s.recovery.start, end |-> t]
  <2>1. r = [Unproven(tried) EXCEPT
              !.state = "running", !.recovery = NoRecovery, !.lastRebuild = t,
              !.watchdog = Arm(t), !.debounce = NoChange, !.noAudio = FALSE,
              !.gap = g]
    BY <1>4, <1>6 DEF AttemptRebuild
  <2>2. /\ g \in Span /\ NoRecovery \in Recovery /\ Arm(t) \in Watch
        /\ NoChange \in [first : Later, last : Later] /\ "running" \in States
        /\ t \in Later /\ None \in Later /\ ~Arm(t).audible
    BY DEF Span, NoRecovery, Recovery, Arm, Watch, NoChange, States, Later, Reasons, None
  <2> HIDE DEF g
  <2>3. r = [tried EXCEPT !.confirmed = FALSE, !.healthySince = None, !.prev = None,
              !.state = "running", !.recovery = NoRecovery, !.lastRebuild = t,
              !.watchdog = Arm(t), !.debounce = NoChange, !.noAudio = FALSE,
              !.gap = g]
    BY <2>1 DEF Unproven
  <2>4. r \in Sup
    <3> DEFINE u == [tried EXCEPT !.confirmed = FALSE, !.healthySince = None, !.prev = None]
    <3>1. u \in Sup
      BY <1>4, <2>2, ZenonT(40) DEF Sup
    <3>2. r = [u EXCEPT !.state = "running", !.recovery = NoRecovery, !.lastRebuild = t,
                 !.watchdog = Arm(t), !.debounce = NoChange, !.noAudio = FALSE, !.gap = g]
      BY <2>1 DEF Unproven
    <3> HIDE DEF u
    <3> QED BY <2>2, <3>1, <3>2, ZenonT(40) DEF Sup
  <2>5. /\ r.state = "running" /\ r.tap = tried.tap /\ r.active = tried.active
        /\ r.blocked = tried.blocked /\ r.recovery = NoRecovery /\ r.fault = tried.fault
        /\ r.lastRebuild = t /\ r.watchdog = Arm(t) /\ r.debounce = NoChange
        /\ r.prev = None /\ r.healthySince = None /\ r.gap = g
        /\ r.retry = tried.retry /\ r.attempts = tried.attempts
        /\ r.lastAttempt = tried.lastAttempt
    BY <1>4, <2>3 DEF Sup
  <2>6. Rebuilt(r, t, s.recovery.start)
    BY <1>5, <1>6, <2>5 DEF Rebuilt, g
  <2>7. Made(s, r, t, o)
    BY <1>5, <1>6, <2>2, <2>4, <2>5 DEF Made, Honest
  <2> QED BY <1>5, <2>5, <2>6, <2>7
<1>7. ASSUME o # "ok", GivesUp(tried)
      PROVE  /\ Made(s, r, t, o) /\ r.attempts = s.attempts + 1
             /\ Down(s, r, s.recovery.start, s.recovery.reason)
  <2>1. r = [tried EXCEPT !.state = "abandoned"]
    BY <1>4, <1>7 DEF AttemptRebuild
  <2>2. r \in Sup
    BY <1>4, <2>1, ZenonT(40) DEF Sup, States
  <2>3. /\ r.state = "abandoned" /\ r.tap = tried.tap /\ r.active = tried.active
        /\ r.blocked = tried.blocked /\ r.recovery = tried.recovery
        /\ r.lastRebuild = tried.lastRebuild /\ r.watchdog = tried.watchdog
        /\ r.prev = tried.prev /\ r.gap = tried.gap
        /\ r.retry = tried.retry /\ r.attempts = tried.attempts
        /\ r.lastAttempt = tried.lastAttempt
    BY <1>4, <2>1 DEF Sup
  <2>4. Down(s, r, s.recovery.start, s.recovery.reason)
    BY <1>5, <1>7, <2>3 DEF Down, Spaced
  <2>5. Made(s, r, t, o)
    BY <1>1, <1>5, <2>2, <2>3 DEF Made, Honest
  <2> QED BY <1>5, <2>3, <2>4, <2>5
<1>8. ASSUME o # "ok", ~GivesUp(tried)
      PROVE  /\ Made(s, r, t, o) /\ r.attempts = s.attempts + 1
             /\ Down(s, r, s.recovery.start, s.recovery.reason)
  <2> DEFINE n == t + Greater(Backoff(tried.attempts), MinInterval)
  <2>1. r = [tried EXCEPT !.state = "recovering", !.recovery.next = n]
    BY <1>4, <1>8 DEF AttemptRebuild
  <2>2. n \in Nat /\ n >= t + MinInterval
    <3>1. tried.attempts \in Nat
      BY <1>1, <1>5
    <3> QED BY <3>1, WaitIsLong
  <2> HIDE DEF n
  <2> DEFINE c == [tried.recovery EXCEPT !.next = n]
  <2>3. /\ c \in Recovery /\ c.start = s.recovery.start /\ c.reason = s.recovery.reason
        /\ c.next = n
    BY <1>1, <1>5, <2>2 DEF Recovery, Later
  <2>4. r = [tried EXCEPT !.state = "recovering", !.recovery = c]
    BY <1>4, <2>1 DEF Sup
  <2> HIDE DEF c
  <2>5. r \in Sup
    BY <1>4, <2>3, <2>4, ZenonT(40) DEF Sup, States
  <2>6. /\ r.state = "recovering" /\ r.tap = tried.tap /\ r.active = tried.active
        /\ r.blocked = tried.blocked /\ r.recovery = c
        /\ r.lastRebuild = tried.lastRebuild /\ r.watchdog = tried.watchdog
        /\ r.prev = tried.prev /\ r.gap = tried.gap
        /\ r.retry = tried.retry /\ r.attempts = tried.attempts
        /\ r.lastAttempt = tried.lastAttempt
    BY <1>4, <2>4 DEF Sup
  <2>7. ~r.blocked
    BY <1>8, <2>6 DEF GivesUp
  <2>8. Spaced(r)
    BY <1>0, <1>5, <2>2, <2>3, <2>6 DEF Spaced
  <2>9. Down(s, r, s.recovery.start, s.recovery.reason)
    BY <1>5, <1>8, <2>3, <2>6, <2>7, <2>8 DEF Down
  <2>10. Made(s, r, t, o)
    BY <1>1, <1>5, <1>8, <2>5, <2>6, <2>7 DEF Made, Honest
  <2> QED BY <1>5, <2>6, <2>9, <2>10
<1> QED BY <1>6, <1>7, <1>8

(* What a supervisor does about its tap: it goes on with the one it has,   *)
(* or the tap is torn down and either rebuilt or not.                      *)
Settled(r, t) ==
  r.debounce.first = None \/ t - r.debounce.first < DebounceCeiling

Stays(s, r, t) ==
  /\ Watching(s, r)
  /\ r.state = "running" => s.state = "running"
  /\ r.watchdog = s.watchdog
       \/ /\ r.watchdog = Arm(t)
          /\ \/ r.state = "quarantined" \/ ~RebuildOnChange
             \/ s.lastRebuild # None /\ t - s.lastRebuild < MinInterval
  /\ r.healthySince = s.healthySince \/ r.healthySince = None

Goes(s, r, t, start, reason, leak) ==
  \/ Rebuilt(r, t, start) /\ ~leak
  \/ Down(s, r, start, reason) /\ (leak => r.blocked /\ r.lastAttempt = s.lastAttempt)

(* A tap under watch.                                                      *)
Tapped(s) ==
  /\ Polling(s) /\ s.state \in {"running", "quarantined"}
  /\ s.tap /\ s.active /\ s.recovery = NoRecovery

(* begin_recovery keeps the tap only when the budget is spent.             *)
LEMMA BeginIs ==
  ASSUME NEW s, Tapped(s), NEW t \in Nat, NEW start \in Nat, NEW reason \in Reasons,
         NEW leak \in BOOLEAN, NEW o \in Outcomes
  PROVE  LET r == BeginRecovery(s, t, start, reason, leak, o) IN
         /\ Made(s, r, t, o) /\ r.attempts >= s.attempts
         /\ \/ /\ s.attempts >= MaxAttempts
               /\ Stays(s, r, t) /\ r.state = "quarantined"
            \/ Goes(s, r, t, start, reason, leak)
<1> DEFINE r == BeginRecovery(s, t, start, reason, leak, o)
           n == NextAttemptAt(s, t)
           c == [start |-> start, reason |-> reason, next |-> n]
           b == s.blocked \/ leak
           ended == [s EXCEPT !.active = FALSE, !.tap = FALSE, !.blocked = b,
                                !.recovery = c]
<1>0. MinInterval \in Nat \ {0}
  BY DurationAssumption
<1>1. /\ s \in Sup /\ Honest(s) /\ ~s.blocked /\ s.gap = NoGap
      /\ s.attempts \in Nat /\ s.lastAttempt \in Later
      /\ s.state \in {"running", "quarantined"} /\ s.tap /\ s.active
      /\ s.recovery = NoRecovery
  BY DEF Tapped, Polling, Sup
<1>2. /\ n \in Nat /\ n >= t
      /\ s.lastAttempt # None => s.lastAttempt + MinInterval <= n
      /\ n = t \/ n = s.lastAttempt + MinInterval
  BY <1>0, <1>1 DEF NextAttemptAt, Greater, Later, None
<1>3. ended = [s EXCEPT !.active = FALSE, !.tap = FALSE, !.blocked = @ \/ leak,
                         !.recovery = [start |-> start, reason |-> reason,
                                       next |-> NextAttemptAt(s, t)]]
  BY <1>1 DEF Sup
<1> HIDE DEF n
<1>4. c \in Recovery /\ c.start = start /\ c.reason = reason /\ c.next = n
  BY <1>2 DEF Recovery, Later
<1>5. b = leak /\ b \in BOOLEAN
  BY <1>1
<1> HIDE DEF c, b
<1>6. ended \in Sup
  BY <1>1, <1>4, <1>5 DEF Sup
<1>7. /\ ~ended.active /\ ~ended.tap /\ ended.blocked = leak /\ ended.recovery = c
      /\ ended.attempts = s.attempts /\ ended.lastAttempt = s.lastAttempt
      /\ ended.lastRebuild = s.lastRebuild /\ ended.watchdog = s.watchdog
      /\ ended.prev = s.prev /\ ended.gap = NoGap /\ ended.retry = s.retry
  BY <1>1, <1>5 DEF Sup
<1>8. ASSUME s.attempts >= MaxAttempts
      PROVE  /\ Made(s, r, t, o) /\ r.attempts >= s.attempts
             /\ Stays(s, r, t) /\ r.state = "quarantined"
  <2>1. r = [s EXCEPT !.state = "quarantined"]
    BY <1>8 DEF BeginRecovery
  <2>2. r \in Sup
    BY <1>1, <2>1 DEF Sup, States
  <2>3. /\ r.state = "quarantined" /\ r.tap = s.tap /\ r.active = s.active
        /\ r.blocked = s.blocked /\ r.recovery = s.recovery /\ r.fault = s.fault
        /\ r.lastRebuild = s.lastRebuild /\ r.lastAttempt = s.lastAttempt
        /\ r.gap = s.gap /\ r.watchdog = s.watchdog /\ r.healthySince = s.healthySince
        /\ r.prev = s.prev /\ r.retry = s.retry /\ r.attempts = s.attempts
    BY <1>1, <2>1 DEF Sup
  <2>4. Stays(s, r, t)
    BY <1>1, <2>3 DEF Stays, Watching
  <2>5. Made(s, r, t, o)
    BY <1>1, <2>2, <2>3 DEF Made, Honest
  <2> QED BY <1>1, <2>3, <2>4, <2>5
<1>9. r = IF s.attempts >= MaxAttempts THEN [s EXCEPT !.state = "quarantined"]
          ELSE IF leak THEN [ended EXCEPT !.state = "abandoned"]
          ELSE IF t < ended.recovery.next THEN [ended EXCEPT !.state = "recovering"]
          ELSE AttemptRebuild(ended, t, o)
  BY <1>3 DEF BeginRecovery
<1> HIDE DEF ended, r
<1>10. ASSUME ~(s.attempts >= MaxAttempts), leak \/ t < n
       PROVE  /\ Made(s, r, t, o) /\ r.attempts >= s.attempts
              /\ Goes(s, r, t, start, reason, leak)
  <2> DEFINE x == IF leak THEN "abandoned" ELSE "recovering"
  <2>1. r = [ended EXCEPT !.state = x]
    BY <1>4, <1>7, <1>9, <1>10
  <2>2. x \in States /\ x \in {"recovering", "abandoned"} /\ (leak <=> x = "abandoned")
    BY DEF States
  <2> HIDE DEF x
  <2>3. r \in Sup
    BY <1>6, <2>1, <2>2 DEF Sup
  <2>4. /\ r.state = x /\ r.tap = ended.tap /\ r.active = ended.active
        /\ r.blocked = ended.blocked /\ r.recovery = ended.recovery
        /\ r.lastRebuild = ended.lastRebuild /\ r.lastAttempt = ended.lastAttempt
        /\ r.gap = ended.gap /\ r.watchdog = ended.watchdog
        /\ r.prev = ended.prev /\ r.retry = ended.retry
        /\ r.attempts = ended.attempts
    BY <1>6, <2>1 DEF Sup
  <2>5. Spaced(r)
    BY <1>2, <1>4, <1>7, <2>4 DEF Spaced
  <2>6. Down(s, r, start, reason)
    BY <1>4, <1>7, <2>2, <2>4, <2>5 DEF Down
  <2>7. Made(s, r, t, o)
    BY <1>1, <1>7, <2>3, <2>4 DEF Made, Honest
  <2>8. leak => r.blocked /\ r.lastAttempt = s.lastAttempt
    BY <1>7, <2>4
  <2> QED BY <1>1, <1>7, <2>4, <2>6, <2>7, <2>8 DEF Goes
<1>11. ASSUME ~(s.attempts >= MaxAttempts), ~leak, ~(t < n)
       PROVE  /\ Made(s, r, t, o) /\ r.attempts >= s.attempts
              /\ Goes(s, r, t, start, reason, leak)
  <2>1. r = AttemptRebuild(ended, t, o)
    BY <1>4, <1>7, <1>9, <1>11
  <2>2. Polling(ended)
    BY <1>1, <1>6, <1>7, <1>11 DEF Polling, Honest
  <2>3. ended.lastAttempt # None => t - ended.lastAttempt >= MinInterval
    BY <1>0, <1>1, <1>2, <1>7, <1>11 DEF Later, None
  <2>4. /\ Made(ended, r, t, o) /\ r.attempts = ended.attempts + 1
        /\ \/ Rebuilt(r, t, start)
           \/ Down(ended, r, start, reason)
    BY <1>4, <1>7, <2>1, <2>2, <2>3, AttemptIs
  <2>5. Made(s, r, t, o)
    BY <1>7, <2>4 DEF Made
  <2>6. Down(ended, r, start, reason) => Down(s, r, start, reason)
    BY <1>7 DEF Down
  <2> QED BY <1>1, <1>7, <1>11, <2>4, <2>5, <2>6 DEF Goes
<1> QED
  <2>1. s.attempts >= MaxAttempts \/ ~(s.attempts >= MaxAttempts)
    OBVIOUS
  <2> QED BY <1>8, <1>10, <1>11 DEF r

(* What one look at the watchdog returns (Watchdog::poll).                 *)
Looked(w, p, t, d) ==
  /\ p.w \in Watch /\ p.w.polled = t /\ p.w.base
  /\ p.w.frames = IF w.base /\ d # "none" THEN t ELSE w.frames
  /\ p.w.audible => w.base /\ (d = "none" => w.audible)
  /\ p.verdict.kind \in {"healthy", "noAudio", "noBuffers", "silent"}
  /\ p.verdict.kind = "noBuffers" => p.verdict.since = w.frames /\ p.w.frames = w.frames
  /\ EmitsSilence /\ p.verdict.kind # "noBuffers" => t - p.w.frames < NoBufferTimeout

LEMMA LookIs ==
  ASSUME NEW w \in Watch, NEW t \in Nat, NEW d \in {"none", "silent", "audible"},
         NEW active \in BOOLEAN, w.audible => w.base
  PROVE  Looked(w, WatchdogPoll(w, t, d, active), t, d)
<1> DEFINE p == WatchdogPoll(w, t, d, active)
           front == [w EXCEPT !.base = TRUE, !.polled = t]
           fr == IF d = "none" THEN w.frames ELSE t
           qu == CASE d = "audible" -> None
                   [] d = "silent" /\ w.quiet = None -> w.polled
                   [] OTHER -> w.quiet
           co == IF d = "audible" THEN None ELSE w.corroborated
           au == w.audible \/ d = "audible"
           h == Heard(w, t, d)
           cc == IF h.quiet = None \/ ~active THEN None
                 ELSE IF h.corroborated = None THEN w.polled ELSE h.corroborated
           c == [h EXCEPT !.corroborated = cc]
<1> SUFFICES Looked(w, p, t, d)
  OBVIOUS
<1>0. NoBufferTimeout \in Nat \ {0} /\ EmitsSilence \in BOOLEAN
  BY DurationAssumption
<1>1. /\ w.polled \in Nat /\ w.frames \in Nat /\ w.quiet \in Later
      /\ w.corroborated \in Later /\ w.audible \in BOOLEAN /\ w.base \in BOOLEAN
  BY DEF Watch
<1>2. h = [w EXCEPT !.base = TRUE, !.polled = t, !.frames = fr, !.quiet = qu,
                    !.corroborated = co, !.audible = au]
  BY DEF Heard, Watch
<1>3. fr \in Nat /\ qu \in Later /\ co \in Later /\ au \in BOOLEAN
  BY <1>1 DEF Later, None
<1>4. (d # "none" => fr = t) /\ (d = "none" => fr = w.frames) /\ (au /\ d = "none" => w.audible)
  BY <1>1
<1> HIDE DEF fr, qu, co, au, h
<1>5. /\ h \in Watch /\ h.polled = t /\ h.base /\ h.frames = fr
      /\ h.audible /\ d = "none" => w.audible
  BY <1>2, <1>3, <1>4 DEF Watch
<1>6. cc \in Later
  BY <1>1, <1>5 DEF Later, None, Watch
<1>7. c = [h EXCEPT !.corroborated = IF h.quiet = None \/ ~active THEN None
                                      ELSE IF @ = None THEN w.polled ELSE @]
  BY <1>5 DEF Watch
<1> HIDE DEF cc
<1>8. /\ c \in Watch /\ c.polled = t /\ c.base /\ c.frames = fr
      /\ c.audible /\ d = "none" => w.audible
  BY <1>5, <1>6 DEF Watch
<1>9. /\ front \in Watch /\ front.polled = t /\ front.base /\ front.frames = w.frames
      /\ front.audible => w.audible
  BY DEF Watch
<1>10. \A x \in Watch : LET v == Starvation(x, t, active) IN
         /\ v.kind \in {"healthy", "noAudio", "noBuffers"}
         /\ v.kind = "noBuffers" => v.since = x.frames /\ t - x.frames >= NoBufferTimeout
         /\ EmitsSilence /\ v.kind # "noBuffers" => t - x.frames < NoBufferTimeout
  BY <1>0 DEF Starvation, Verdict, Watch
<1>11. CASE ~w.base
  <2>1. p = [w |-> front, verdict |-> Starvation(front, t, active)]
    BY <1>11 DEF WatchdogPoll
  <2> DEFINE st == Starvation(front, t, active)
  <2>2. /\ st.kind \in {"healthy", "noAudio", "noBuffers"}
        /\ st.kind = "noBuffers" => st.since = w.frames
        /\ EmitsSilence /\ st.kind # "noBuffers" => t - w.frames < NoBufferTimeout
    BY <1>9, <1>10
  <2>3. p.w = front /\ p.verdict = st
    BY <2>1
  <2> HIDE DEF p, front, st
  <2>4. ~front.audible
    BY <1>9, <1>11
  <2> QED BY <1>9, <1>11, <2>2, <2>3, <2>4 DEF Looked
<1>12. CASE w.base
  <2> DEFINE st == Starvation(h, t, active)
             v == IF c.corroborated # None /\ t - c.corroborated >= SilenceTimeout
                  THEN Verdict("silent", c.quiet)
                  ELSE IF c.quiet # None /\ t - c.quiet >= QuietNotice
                  THEN Verdict("noAudio", None) ELSE Verdict("healthy", None)
  <2>1. p = IF st.kind = "noBuffers" THEN [w |-> h, verdict |-> st]
            ELSE [w |-> c, verdict |-> v]
    BY <1>7, <1>12 DEF WatchdogPoll, h
  <2>2. v.kind \in {"silent", "noAudio", "healthy"}
    BY DEF Verdict
  <2>3. /\ st.kind \in {"healthy", "noAudio", "noBuffers"}
        /\ st.kind = "noBuffers" => st.since = fr /\ t - fr >= NoBufferTimeout
        /\ EmitsSilence /\ st.kind # "noBuffers" => t - fr < NoBufferTimeout
    BY <1>5, <1>10
  <2> HIDE DEF p, c, v, st
  <2>4. CASE st.kind = "noBuffers"
    <3>1. p.w = h /\ p.verdict = st
      BY <2>1, <2>4
    <3>2. d = "none" /\ fr = w.frames
      BY <1>0, <1>4, <2>3, <2>4
    <3> QED BY <1>4, <1>5, <1>12, <2>3, <2>4, <3>1, <3>2 DEF Looked
  <2>5. CASE st.kind # "noBuffers"
    <3>1. p.w = c /\ p.verdict = v
      BY <2>1, <2>5
    <3> QED BY <1>4, <1>8, <1>12, <2>2, <2>3, <2>5, <3>1 DEF Looked
  <2> QED BY <2>4, <2>5
<1> QED BY <1>1, <1>11, <1>12

(* Two supervisors that differ only in what a branch books beforehand.     *)
SameLeg(s, x) ==
  /\ x.state = s.state /\ x.fault = s.fault /\ x.watchdog = s.watchdog
  /\ x.lastRebuild = s.lastRebuild /\ x.lastAttempt = s.lastAttempt
  /\ x.healthySince = s.healthySince /\ x.attempts = s.attempts

LEMMA SameLegIs ==
  ASSUME NEW s, NEW x, SameLeg(s, x), NEW r, NEW t, NEW o
  PROVE  /\ Made(x, r, t, o) => Made(s, r, t, o)
         /\ Stays(x, r, t) => Stays(s, r, t)
         /\ \A start, reason, leak :
              Goes(x, r, t, start, reason, leak) => Goes(s, r, t, start, reason, leak)
<1>1. Made(x, r, t, o) => Made(s, r, t, o)
  BY DEF SameLeg, Made
<1>2. Stays(x, r, t) => Stays(s, r, t)
  BY DEF SameLeg, Stays, Watching
<1>3. ASSUME NEW start, NEW reason, NEW leak, Goes(x, r, t, start, reason, leak)
      PROVE  Goes(s, r, t, start, reason, leak)
  BY <1>3 DEF SameLeg, Goes, Down
<1> QED BY <1>1, <1>2, <1>3

(* A stall ends in quarantine, or in a recovery from where it began        *)
(* (poll_watching).                                                        *)
LEMMA FaultIs ==
  ASSUME NEW s, Tapped(s), NEW t \in Nat, NEW v, v.kind = "noBuffers" => v.since \in Nat,
         NEW leak \in BOOLEAN, NEW o \in Outcomes
  PROVE  LET r == ActOnFault(s, t, v, leak, o) IN
         /\ Made(s, r, t, o) /\ r.attempts >= s.attempts
         /\ \/ Stays(s, r, t) /\ r.state = "quarantined"
            \/ /\ s.state = "running" /\ v.kind = "noBuffers"
               /\ Goes(s, r, t, v.since, "stalledNoBuffers", leak)
            \/ Goes(s, r, t, t, "rebuildWindow", leak)
<1> DEFINE r == ActOnFault(s, t, v, leak, o)
           n == s.ineffective + 1
           counted == [s EXCEPT !.confirmed = FALSE, !.ineffective = n]
<1>1. /\ s \in Sup /\ Honest(s) /\ ~s.blocked /\ s.gap = NoGap
      /\ s.attempts \in Nat /\ s.ineffective \in Nat /\ n \in Nat
      /\ s.state \in {"running", "quarantined"} /\ s.tap /\ s.active
      /\ s.recovery = NoRecovery
  BY DEF Tapped, Polling, Sup
<1>2. counted = [s EXCEPT !.confirmed = FALSE, !.ineffective = @ + 1]
  BY <1>1 DEF Sup
<1>3. r = IF s.state = "quarantined" THEN [s EXCEPT !.confirmed = FALSE]
          ELSE IF counted.ineffective > MaxIneffective
          THEN [Unproven(counted) EXCEPT !.state = "quarantined", !.watchdog = Arm(t)]
          ELSE IF v.kind = "noBuffers"
          THEN BeginRecovery(counted, t, v.since, "stalledNoBuffers", leak, o)
          ELSE BeginRecovery(counted, t, t, "rebuildWindow", leak, o)
  BY <1>2 DEF ActOnFault
<1> HIDE DEF n
<1>4. counted \in Sup
  BY <1>1 DEF Sup
<1>5. /\ SameLeg(s, counted) /\ counted.tap = s.tap /\ counted.active = s.active
      /\ counted.recovery = s.recovery /\ counted.retry = s.retry /\ counted.prev = s.prev
      /\ counted.blocked = s.blocked /\ counted.gap = s.gap
  BY <1>1 DEF Sup, SameLeg
<1>6. Tapped(counted)
  BY <1>1, <1>4, <1>5 DEF Tapped, Polling, Honest, SameLeg
<1> HIDE DEF r, counted
<1> SUFFICES /\ Made(s, r, t, o) /\ r.attempts >= s.attempts
             /\ \/ Stays(s, r, t) /\ r.state = "quarantined"
                \/ /\ s.state = "running" /\ v.kind = "noBuffers"
                   /\ Goes(s, r, t, v.since, "stalledNoBuffers", leak)
                \/ Goes(s, r, t, t, "rebuildWindow", leak)
  BY DEF r
<1>7. CASE s.state = "quarantined"
  <2>1. r = [s EXCEPT !.confirmed = FALSE]
    BY <1>3, <1>7
  <2>2. r \in Sup
    BY <1>1, <2>1 DEF Sup
  <2>3. /\ r.tap = s.tap /\ r.active = s.active /\ r.recovery = s.recovery
        /\ r.retry = s.retry /\ r.prev = s.prev /\ r.blocked = s.blocked /\ r.gap = s.gap
        /\ r.state = s.state /\ r.fault = s.fault /\ r.watchdog = s.watchdog
        /\ r.lastRebuild = s.lastRebuild /\ r.lastAttempt = s.lastAttempt
        /\ r.healthySince = s.healthySince /\ r.attempts = s.attempts
    BY <1>1, <2>1 DEF Sup
  <2>4. Made(s, r, t, o)
    BY <1>1, <2>2, <2>3 DEF Made, Honest
  <2>5. Stays(s, r, t)
    BY <1>1, <2>3 DEF Stays, Watching
  <2> QED BY <1>1, <1>7, <2>3, <2>4, <2>5
<1>8. CASE s.state # "quarantined" /\ counted.ineffective > MaxIneffective
  <2>1. r = [Unproven(counted) EXCEPT !.state = "quarantined", !.watchdog = Arm(t)]
    BY <1>3, <1>8
  <2>2. r = [counted EXCEPT !.confirmed = FALSE, !.healthySince = None, !.prev = None,
                            !.state = "quarantined", !.watchdog = Arm(t)]
    BY <2>1 DEF Unproven
  <2>3. /\ Arm(t) \in Watch /\ None \in Later /\ "quarantined" \in States
        /\ ~Arm(t).audible
    BY DEF Arm, Watch, Later, None, States
  <2>4. r \in Sup
    BY <1>4, <2>2, <2>3 DEF Sup
  <2>5. /\ r.tap = counted.tap /\ r.active = counted.active /\ r.recovery = counted.recovery
        /\ r.retry = counted.retry /\ r.prev = None /\ r.blocked = counted.blocked
        /\ r.gap = counted.gap /\ r.state = "quarantined" /\ r.fault = counted.fault
        /\ r.watchdog = Arm(t) /\ r.lastRebuild = counted.lastRebuild
        /\ r.lastAttempt = counted.lastAttempt /\ r.healthySince = None
        /\ r.attempts = counted.attempts
    BY <1>4, <2>2 DEF Sup
  <2>6. Made(s, r, t, o)
    BY <1>1, <1>5, <2>3, <2>4, <2>5 DEF Made, Honest, SameLeg
  <2>7. Stays(s, r, t)
    BY <1>1, <1>5, <2>5 DEF Stays, Watching, SameLeg
  <2> QED BY <1>1, <1>5, <2>5, <2>6, <2>7 DEF SameLeg
<1>9. CASE s.state # "quarantined" /\ ~(counted.ineffective > MaxIneffective)
  <2>1. ASSUME NEW start \in Nat, NEW reason \in Reasons,
               r = BeginRecovery(counted, t, start, reason, leak, o)
        PROVE  /\ Made(s, r, t, o) /\ r.attempts >= s.attempts
               /\ \/ Stays(s, r, t) /\ r.state = "quarantined"
                  \/ Goes(s, r, t, start, reason, leak)
    <3>1. /\ Made(counted, r, t, o) /\ r.attempts >= counted.attempts
          /\ \/ Stays(counted, r, t) /\ r.state = "quarantined"
             \/ Goes(counted, r, t, start, reason, leak)
      BY <1>6, <2>1, BeginIs
    <3>2. /\ Made(counted, r, t, o) => Made(s, r, t, o)
          /\ Stays(counted, r, t) => Stays(s, r, t)
          /\ Goes(counted, r, t, start, reason, leak) => Goes(s, r, t, start, reason, leak)
      BY <1>5, SameLegIs
    <3>3. counted.attempts = s.attempts
      BY <1>5 DEF SameLeg
    <3> QED BY <3>1, <3>2, <3>3
  <2>2. s.state = "running"
    BY <1>1, <1>9
  <2>3. CASE v.kind = "noBuffers"
    <3>1. r = BeginRecovery(counted, t, v.since, "stalledNoBuffers", leak, o)
      BY <1>3, <1>9, <2>3
    <3>2. v.since \in Nat /\ "stalledNoBuffers" \in Reasons
      BY <2>3 DEF Reasons
    <3> QED BY <2>1, <2>2, <2>3, <3>1, <3>2
  <2>4. CASE v.kind # "noBuffers"
    <3>1. r = BeginRecovery(counted, t, t, "rebuildWindow", leak, o)
      BY <1>3, <1>9, <2>4
    <3>2. "rebuildWindow" \in Reasons
      BY DEF Reasons
    <3> QED BY <2>1, <3>1, <3>2
  <2> QED BY <2>3, <2>4
<1> QED BY <1>7, <1>8, <1>9

(* A device change is dropped, refused or acted on; nothing is left        *)
(* pending (poll_watching).                                                *)
LEMMA ChangeIs ==
  ASSUME NEW s, Tapped(s), NEW t \in Nat, NEW stable \in BOOLEAN,
         NEW leak \in BOOLEAN, NEW o \in Outcomes
  PROVE  LET r == ActOnChange(s, t, stable, leak, o) IN
         /\ Made(s, r, t, o) /\ r.attempts >= s.attempts
         /\ \/ Stays(s, r, t) /\ (r.state = "running" => Settled(r, t))
            \/ /\ s.state = "running" \/ stable
               /\ Goes(s, r, t, t, "deviceChanged", leak)
<1> DEFINE r == ActOnChange(s, t, stable, leak, o)
           z == [s.debounce EXCEPT !.first = None]
           taken == [s EXCEPT !.debounce = z]
           tooSoon == s.lastRebuild # None /\ t - s.lastRebuild < MinInterval
<1>1. /\ s \in Sup /\ Honest(s) /\ ~s.blocked /\ s.gap = NoGap /\ s.attempts \in Nat
      /\ s.state \in {"running", "quarantined"} /\ s.tap /\ s.active
      /\ s.recovery = NoRecovery /\ s.debounce \in [first : Later, last : Later]
  BY DEF Tapped, Polling, Sup
<1>2. taken = [s EXCEPT !.debounce.first = None]
  BY <1>1 DEF Sup
<1>3. z \in [first : Later, last : Later] /\ z.first = None
  BY <1>1 DEF Later, None
<1>4. r = IF s.state = "quarantined" /\ ~stable THEN taken
          ELSE IF tooSoon \/ ~RebuildOnChange
          THEN [Unproven(taken) EXCEPT !.watchdog = Arm(t)]
          ELSE BeginRecovery(taken, t, t, "deviceChanged", leak, o)
  BY <1>2 DEF ActOnChange
<1> HIDE DEF z
<1>5. taken \in Sup
  BY <1>1, <1>3 DEF Sup
<1>6. /\ SameLeg(s, taken) /\ taken.tap = s.tap /\ taken.active = s.active
      /\ taken.recovery = s.recovery /\ taken.retry = s.retry /\ taken.prev = s.prev
      /\ taken.blocked = s.blocked /\ taken.gap = s.gap /\ taken.debounce = z
  BY <1>1 DEF Sup, SameLeg
<1>7. Tapped(taken)
  BY <1>1, <1>5, <1>6 DEF Tapped, Polling, Honest, SameLeg
<1> HIDE DEF r, taken, tooSoon
<1> SUFFICES /\ Made(s, r, t, o) /\ r.attempts >= s.attempts
             /\ \/ Stays(s, r, t) /\ (r.state = "running" => Settled(r, t))
                \/ /\ s.state = "running" \/ stable
                   /\ Goes(s, r, t, t, "deviceChanged", leak)
  BY DEF r
<1>8. CASE s.state = "quarantined" /\ ~stable
  <2>1. r = taken
    BY <1>4, <1>8
  <2>2. Made(s, r, t, o)
    BY <1>1, <1>5, <1>6, <2>1 DEF Made, Honest, SameLeg
  <2>3. Stays(s, r, t)
    BY <1>1, <1>6, <2>1 DEF Stays, Watching, SameLeg
  <2> QED BY <1>1, <1>3, <1>6, <2>1, <2>2, <2>3 DEF SameLeg, Settled
<1>9. CASE ~(s.state = "quarantined" /\ ~stable) /\ (tooSoon \/ ~RebuildOnChange)
  <2>1. r = [taken EXCEPT !.confirmed = FALSE, !.healthySince = None, !.prev = None,
                          !.watchdog = Arm(t)]
    BY <1>4, <1>9 DEF Unproven
  <2>2. Arm(t) \in Watch /\ None \in Later /\ ~Arm(t).audible
    BY DEF Arm, Watch, Later, None
  <2>3. r \in Sup
    BY <1>5, <2>1, <2>2 DEF Sup
  <2>4. /\ r.tap = taken.tap /\ r.active = taken.active /\ r.recovery = taken.recovery
        /\ r.retry = taken.retry /\ r.prev = None /\ r.blocked = taken.blocked
        /\ r.gap = taken.gap /\ r.state = taken.state /\ r.fault = taken.fault
        /\ r.watchdog = Arm(t) /\ r.lastRebuild = taken.lastRebuild
        /\ r.lastAttempt = taken.lastAttempt /\ r.healthySince = None
        /\ r.attempts = taken.attempts /\ r.debounce = taken.debounce
    BY <1>5, <2>1 DEF Sup
  <2>5. Made(s, r, t, o)
    BY <1>1, <1>6, <2>2, <2>3, <2>4 DEF Made, Honest, SameLeg
  <2>6. Stays(s, r, t)
    BY <1>1, <1>6, <1>9, <2>4 DEF Stays, Watching, SameLeg, tooSoon
  <2> QED BY <1>1, <1>3, <1>6, <2>4, <2>5, <2>6 DEF SameLeg, Settled
<1>10. CASE ~(s.state = "quarantined" /\ ~stable) /\ ~(tooSoon \/ ~RebuildOnChange)
  <2>1. r = BeginRecovery(taken, t, t, "deviceChanged", leak, o)
    BY <1>4, <1>10
  <2>2. "deviceChanged" \in Reasons
    BY DEF Reasons
  <2>3. /\ Made(taken, r, t, o) /\ r.attempts >= taken.attempts
        /\ \/ Stays(taken, r, t) /\ r.state = "quarantined"
           \/ Goes(taken, r, t, t, "deviceChanged", leak)
    BY <1>7, <2>1, <2>2, BeginIs
  <2>4. /\ Made(taken, r, t, o) => Made(s, r, t, o)
        /\ Stays(taken, r, t) => Stays(s, r, t)
        /\ Goes(taken, r, t, t, "deviceChanged", leak) =>
             Goes(s, r, t, t, "deviceChanged", leak)
    BY <1>6, SameLegIs
  <2>5. taken.attempts = s.attempts
    BY <1>6 DEF SameLeg
  <2> QED BY <1>1, <1>10, <2>3, <2>4, <2>5
<1> QED BY <1>8, <1>9, <1>10

(* What one poll leaves behind: `alive' and `bad' after it.                *)
HeardBy(s, r, t, d, alive) ==
  IF r.gap # NoGap \/ (d # "none" /\ s.watchdog.base) THEN t ELSE alive
BadBy(s, r, t, d, bad) ==
  IF d = "none" \/ r.gap # NoGap \/ t - s.watchdog.polled >= NoBufferTimeout
  THEN t ELSE bad

(* The outage under way begins where the watch on the tap did.             *)
Covered(r, alive) ==
  EmitsSilence /\ RebuildOnChange =>
    /\ r.recovery.reason = "stalledNoBuffers" => r.recovery.start <= From(r, alive)
    /\ r.recovery.reason = "deviceChanged" =>
         r.recovery.start < From(r, alive) + NoBufferTimeout

(* The whole effect of a poll at t of a supervisor s that has a tap.       *)
Handled(s, r, t, d, leak, o, alive, bad) ==
  /\ Made(s, r, t, o) /\ SupInv(r) /\ r.state # "idle"
  /\ TapInv(r, t, HeardBy(s, r, t, d, alive), BadBy(s, r, t, d, bad))
  /\ r.gap # NoGap =>
       r.tap /\ r.gap.end = t /\ r.gap.start \in Nat /\ r.gap.start >= alive
  /\ ~r.tap =>
       /\ r.recovery.start \in Nat /\ r.recovery.start <= t
       /\ HeardBy(s, r, t, d, alive) <= r.recovery.start
       /\ r.recovery.reason # "initiallyUnavailable"
  /\ leak /\ (r.lastAttempt # s.lastAttempt \/ ~r.tap) => r.blocked
  /\ r.state = "running" /\ r.fault = None => Settled(r, t)
  /\ r.tap /\ r.lastAttempt # s.lastAttempt => r.debounce = NoChange
  /\ Covered(r, HeardBy(s, r, t, d, alive))

LEMMA StaysIs ==
  ASSUME NEW s, Tapped(s), NEW t \in Nat, NEW o, NEW h \in Later, NEW b \in Later,
         h <= t, TapInv(s, t, h, b), NEW r, Stays(s, r, t), Made(s, r, t, o)
  PROVE  /\ SupInv(r) /\ TapInv(r, t, h, b) /\ Covered(r, h)
         /\ r.state # "idle" /\ r.gap = NoGap /\ r.tap /\ r.lastAttempt = s.lastAttempt
<1>0. MinInterval \in Nat
  BY DurationAssumption
<1>1. /\ s.watchdog.frames \in Nat /\ s.lastRebuild \in Later /\ s.tap
  BY DEF Tapped, Polling, Sup, Watch
<1>2. SupInv(r)
  BY DEF Made, Honest, Stays, Watching, SupInv, Spaced
<1>3. Covered(r, h)
  BY DEF Covered, Stays, Watching, NoRecovery
<1>4. /\ Arm(t).frames = t /\ ~Arm(t).audible
  BY DEF Arm
<1>5. TapInv(r, t, h, b)
  <2>1. /\ h <= s.watchdog.frames /\ s.watchdog.frames <= t
        /\ s.fault # None => h <= s.fault /\ s.fault <= t
        /\ s.healthySince # None => b <= s.healthySince /\ s.healthySince <= t
        /\ s.watchdog.audible => s.watchdog.frames = h
        /\ s.state = "running" /\ EmitsSilence /\ RebuildOnChange =>
             s.watchdog.frames <= From(s, h)
    BY <1>1 DEF TapInv
  <2>2. /\ r.fault = s.fault /\ r.lastRebuild = s.lastRebuild
        /\ r.state = "running" => s.state = "running"
        /\ r.healthySince = s.healthySince \/ r.healthySince = None
        /\ r.watchdog = s.watchdog
           \/ /\ r.watchdog = Arm(t)
              /\ \/ r.state = "quarantined" \/ ~RebuildOnChange
                 \/ s.lastRebuild # None /\ t - s.lastRebuild < MinInterval
    BY DEF Stays, Watching
  <2>3. From(r, h) = From(s, h)
    BY <2>2 DEF From
  <2>4. s.lastRebuild # None /\ t - s.lastRebuild < MinInterval => t <= From(s, h)
    BY <1>0, <1>1 DEF From, Greater, Later, None
  <2>5. /\ h <= r.watchdog.frames /\ r.watchdog.frames <= t
        /\ r.watchdog.audible => r.watchdog.frames = h
    BY <1>4, <2>1, <2>2
  <2>6. r.state = "running" /\ EmitsSilence /\ RebuildOnChange =>
          r.watchdog.frames <= From(r, h)
    BY <1>4, <2>1, <2>2, <2>3, <2>4
  <2>7. /\ r.fault # None => h <= r.fault /\ r.fault <= t
        /\ r.healthySince # None => b <= r.healthySince /\ r.healthySince <= t
    BY <2>1, <2>2
  <2> QED BY <2>5, <2>6, <2>7 DEF TapInv
<1>6. r.state # "idle" /\ r.gap = NoGap /\ r.tap /\ r.lastAttempt = s.lastAttempt
  BY DEF Stays, Watching
<1> QED BY <1>2, <1>3, <1>5, <1>6

LEMMA RebuiltIs ==
  ASSUME NEW t \in Nat, NEW start, NEW r \in Sup, Honest(r), Rebuilt(r, t, start), NEW b
  PROVE  /\ SupInv(r) /\ TapInv(r, t, t, b) /\ Covered(r, t) /\ r.state = "running"
         /\ r.tap /\ r.gap # NoGap /\ r.gap.start = start /\ r.gap.end = t
         /\ r.debounce = NoChange /\ Settled(r, t)
<1>0. MinInterval \in Nat
  BY DurationAssumption
<1>1. SupInv(r)
  BY DEF Honest, Rebuilt, SupInv, Spaced
<1>2. Covered(r, t)
  BY DEF Covered, Rebuilt, NoRecovery
<1>3. /\ Arm(t).frames = t /\ ~Arm(t).audible
  BY DEF Arm
<1>4. t <= From(r, t)
  BY <1>0 DEF From, Greater, Rebuilt
<1>5. TapInv(r, t, t, b)
  BY <1>3, <1>4 DEF TapInv, Rebuilt
<1>6. r.gap # NoGap /\ r.gap.start = start /\ r.gap.end = t
  BY DEF Rebuilt, NoGap, None
<1>7. Settled(r, t) /\ r.debounce = NoChange /\ r.state = "running" /\ r.tap
  BY DEF Rebuilt, Settled, NoChange
<1> QED BY <1>1, <1>2, <1>5, <1>6, <1>7

LEMMA DownIs ==
  ASSUME NEW s, NEW t, NEW start, NEW reason, NEW r \in Sup, Honest(r),
         Down(s, r, start, reason), NEW h, NEW b
  PROVE  /\ SupInv(r) /\ TapInv(r, t, h, b) /\ ~r.tap /\ r.gap = NoGap
         /\ r.state \in {"recovering", "abandoned"}
         /\ r.recovery.start = start /\ r.recovery.reason = reason
         /\ r.lastRebuild = s.lastRebuild
<1>1. SupInv(r)
  BY DEF Honest, Down, SupInv, Sup
<1>2. TapInv(r, t, h, b)
  BY DEF TapInv, Down
<1> QED BY <1>1, <1>2 DEF Down

(* A tap torn down at t, for an outage from start on, is handled.          *)
LEMMA GoesIs ==
  ASSUME NEW s, NEW j, NEW t \in Nat, NEW d, NEW leak \in BOOLEAN, NEW o,
         NEW alive \in Later, NEW bad, alive <= t,
         NEW start \in Nat, NEW reason, NEW r, Goes(j, r, t, start, reason, leak),
         Made(s, r, t, o), j.lastAttempt = s.lastAttempt, j.lastRebuild = s.lastRebuild,
         alive <= start, start <= t, reason # "initiallyUnavailable",
         d # "none" /\ s.watchdog.base => start = t,
         NEW h, h = (IF d # "none" /\ s.watchdog.base THEN t ELSE alive),
         EmitsSilence /\ RebuildOnChange =>
           /\ reason = "stalledNoBuffers" => start <= From(s, h)
           /\ reason = "deviceChanged" => start < From(s, h) + NoBufferTimeout
  PROVE  Handled(s, r, t, d, leak, o, alive, bad)
<1> DEFINE h2 == HeardBy(s, r, t, d, alive)
           b2 == BadBy(s, r, t, d, bad)
<1>0. r \in Sup /\ Honest(r)
  BY DEF Made
<1>1. CASE Rebuilt(r, t, start) /\ ~leak
  <2> HIDE DEF b2
  <2>1. /\ SupInv(r) /\ TapInv(r, t, t, b2) /\ Covered(r, t) /\ r.state = "running"
        /\ r.tap /\ r.gap # NoGap /\ r.gap.start = start /\ r.gap.end = t
        /\ r.debounce = NoChange /\ Settled(r, t)
    BY <1>0, <1>1, RebuiltIs
  <2>2. h2 = t
    BY <2>1 DEF HeardBy, h2
  <2> HIDE DEF h2, b2
  <2>3. Handled(s, r, t, d, leak, o, alive, bad) <=>
        /\ Made(s, r, t, o) /\ SupInv(r) /\ r.state # "idle"
        /\ TapInv(r, t, h2, b2)
        /\ r.gap # NoGap =>
             r.tap /\ r.gap.end = t /\ r.gap.start \in Nat /\ r.gap.start >= alive
        /\ ~r.tap =>
             /\ r.recovery.start \in Nat /\ r.recovery.start <= t
             /\ h2 <= r.recovery.start
             /\ r.recovery.reason # "initiallyUnavailable"
        /\ leak /\ (r.lastAttempt # s.lastAttempt \/ ~r.tap) => r.blocked
        /\ r.state = "running" /\ r.fault = None => Settled(r, t)
        /\ r.tap /\ r.lastAttempt # s.lastAttempt => r.debounce = NoChange
        /\ Covered(r, h2)
    BY DEF Handled, h2, b2
  <2> QED BY <1>1, <2>1, <2>2, <2>3 DEF Later, None
<1>2. CASE Down(j, r, start, reason) /\ (leak => r.blocked /\ r.lastAttempt = j.lastAttempt)
  <2> HIDE DEF h2, b2
  <2>1. /\ SupInv(r) /\ TapInv(r, t, h2, b2) /\ ~r.tap /\ r.gap = NoGap
        /\ r.state \in {"recovering", "abandoned"}
        /\ r.recovery.start = start /\ r.recovery.reason = reason
        /\ r.lastRebuild = s.lastRebuild
    BY <1>0, <1>2, DownIs
  <2>2. h2 = h
    BY <2>1 DEF HeardBy, h2
  <2>3. h <= start
    OBVIOUS
  <2>4. Covered(r, h)
    BY <2>1 DEF Covered, From
  <2> HIDE DEF h2, b2
  <2>5. leak => r.blocked
    BY <1>2
  <2> QED BY <2>1, <2>2, <2>3, <2>4, <2>5 DEF Handled, h2, b2
<1> QED BY <1>1, <1>2 DEF Goes

(* A tap that is kept is handled: j is s with this poll's bookkeeping.     *)
LEMMA KeptIs ==
  ASSUME NEW s, NEW j, Tapped(j), NEW t \in Nat, NEW d, NEW leak \in BOOLEAN, NEW o,
         NEW alive \in Later, NEW bad \in Later, alive <= t,
         NEW h, h = (IF d # "none" /\ s.watchdog.base THEN t ELSE alive),
         NEW b, b = (IF d = "none" \/ t - s.watchdog.polled >= NoBufferTimeout
                     THEN t ELSE bad),
         TapInv(j, t, h, b), j.lastAttempt = s.lastAttempt,
         NEW r, Stays(j, r, t), Made(s, r, t, o),
         r.state = "running" /\ r.fault = None => Settled(r, t)
  PROVE  Handled(s, r, t, d, leak, o, alive, bad)
<1>1. h \in Later /\ b \in Later /\ h <= t
  BY DEF Later
<1>2. Made(j, r, t, o)
  BY DEF Made
<1>3. /\ SupInv(r) /\ TapInv(r, t, h, b) /\ Covered(r, h)
      /\ r.state # "idle" /\ r.gap = NoGap /\ r.tap /\ r.lastAttempt = s.lastAttempt
  BY <1>1, <1>2, StaysIs
<1>4. HeardBy(s, r, t, d, alive) = h /\ BadBy(s, r, t, d, bad) = b
  BY <1>3 DEF HeardBy, BadBy
<1> QED BY <1>3, <1>4 DEF Handled

(* poll_watching.                                                          *)
LEMMA WatchIs ==
  ASSUME NEW s, Tapped(s), NEW t \in Nat, NEW d \in {"none", "silent", "audible"},
         NEW active \in BOOLEAN, NEW leak \in BOOLEAN, NEW o \in Outcomes,
         NEW alive \in Later, NEW bad \in Later, alive <= t, bad <= t,
         TapInv(s, t, alive, bad), d # "none" => s.fault = None
  PROVE  LET r == PollWatching(s, t, d, active, leak, o) IN
         /\ Handled(s, r, t, d, leak, o, alive, bad)
         /\ r.attempts < s.attempts => t - bad >= HealthyFor
<1> DEFINE r == PollWatching(s, t, d, active, leak, o)
           h == IF d # "none" /\ s.watchdog.base THEN t ELSE alive
           b == IF d = "none" \/ t - s.watchdog.polled >= NoBufferTimeout THEN t ELSE bad
<1> SUFFICES /\ Handled(s, r, t, d, leak, o, alive, bad)
             /\ r.attempts < s.attempts => t - bad >= HealthyFor
  OBVIOUS
<1>0. /\ NoBufferTimeout \in Nat \ {0} /\ HealthyFor \in Nat \ {0} /\ MinInterval \in Nat
      /\ EmitsSilence \in BOOLEAN /\ RebuildOnChange \in BOOLEAN
  BY DurationAssumption
<1>1. /\ s \in Sup /\ Honest(s) /\ ~s.blocked /\ s.gap = NoGap /\ s.attempts \in Nat
      /\ s.state \in {"running", "quarantined"} /\ s.tap /\ s.active
      /\ s.recovery = NoRecovery /\ s.fault \in Later /\ s.watchdog \in Watch
      /\ s.healthySince \in Later /\ s.prev \in Later /\ s.lastRebuild \in Later
      /\ s.watchdog.frames \in Nat /\ s.watchdog.polled \in Nat
      /\ ~s.retry /\ (s.prev # None => s.prev = s.watchdog.polled)
      /\ (s.watchdog.audible => s.watchdog.base)
  BY DEF Tapped, Polling, Sup, Watch, Honest
<1>2. /\ alive <= s.watchdog.frames /\ s.watchdog.frames <= t
      /\ s.fault # None => alive <= s.fault /\ s.fault <= t
      /\ s.healthySince # None => bad <= s.healthySince /\ s.healthySince <= t
      /\ s.watchdog.audible => s.watchdog.frames = alive
      /\ s.state = "running" /\ EmitsSilence /\ RebuildOnChange =>
           s.watchdog.frames <= From(s, alive)
  BY <1>1 DEF TapInv
<1>3. CASE s.fault # None
  <2> DEFINE u == [s EXCEPT !.confirmed = FALSE, !.healthySince = None, !.prev = None]
  <2>1. r = IF s.state = "quarantined" THEN u
            ELSE BeginRecovery(u, t, s.fault, "callbackFault", leak, o)
    BY <1>3 DEF PollWatching, Unproven
  <2>2. u \in Sup
    BY <1>1 DEF Sup, Later, None
  <2>3. /\ u.tap = s.tap /\ u.active = s.active /\ u.recovery = s.recovery
        /\ u.retry = s.retry /\ u.prev = None /\ u.blocked = s.blocked /\ u.gap = s.gap
        /\ u.state = s.state /\ u.fault = s.fault /\ u.watchdog = s.watchdog
        /\ u.lastRebuild = s.lastRebuild /\ u.lastAttempt = s.lastAttempt
        /\ u.healthySince = None /\ u.attempts = s.attempts
    BY <1>1 DEF Sup
  <2> HIDE DEF u, r
  <2>4. Tapped(u)
    BY <1>1, <2>2, <2>3 DEF Tapped, Polling, Honest
  <2>5. h = alive /\ b = t
    BY <1>3
  <2>6. TapInv(u, t, h, b)
    BY <1>2, <2>3, <2>5 DEF TapInv, From
  <2>7. ASSUME Stays(u, r, t), Made(u, r, t, o), r.attempts >= u.attempts
        PROVE  Handled(s, r, t, d, leak, o, alive, bad) /\ r.attempts >= s.attempts
    <3>1. Made(s, r, t, o)
      BY <2>3, <2>7 DEF Made
    <3>2. r.fault # None
      BY <1>3, <2>3, <2>7 DEF Stays, Watching
    <3> HIDE DEF h, b
    <3>3. /\ h = (IF d # "none" /\ s.watchdog.base THEN t ELSE alive)
          /\ b = (IF d = "none" \/ t - s.watchdog.polled >= NoBufferTimeout
                  THEN t ELSE bad)
      BY DEF h, b
    <3> QED BY <2>3, <2>4, <2>6, <2>7, <3>1, <3>2, <3>3, KeptIs
  <2>8. CASE s.state = "quarantined"
    <3>1. r = u
      BY <2>1, <2>8
    <3>2. Stays(u, r, t)
      BY <1>1, <2>3, <3>1 DEF Stays, Watching
    <3>3. Made(u, r, t, o) /\ r.attempts >= u.attempts
      BY <1>1, <2>2, <2>3, <3>1 DEF Made, Honest
    <3>4. r.attempts \in Nat
      BY <1>1, <2>3, <3>1
    <3> QED BY <1>1, <2>7, <3>2, <3>3, <3>4
  <2>9. CASE s.state # "quarantined"
    <3>1. r = BeginRecovery(u, t, s.fault, "callbackFault", leak, o)
      BY <2>1, <2>9
    <3>2. s.fault \in Nat /\ "callbackFault" \in Reasons
      BY <1>1, <1>3 DEF Later, Reasons
    <3>3. /\ Made(u, r, t, o) /\ r.attempts >= u.attempts
          /\ \/ Stays(u, r, t) /\ r.state = "quarantined"
             \/ Goes(u, r, t, s.fault, "callbackFault", leak)
      BY <2>4, <3>1, <3>2, BeginIs
    <3>4. Made(s, r, t, o) /\ r.attempts \in Nat
      BY <2>3, <3>3 DEF Made, Sup
    <3>5. ASSUME Goes(u, r, t, s.fault, "callbackFault", leak)
          PROVE  Handled(s, r, t, d, leak, o, alive, bad)
      <4>1. d = "none" /\ alive <= s.fault /\ s.fault <= t
        BY <1>2, <1>3
      <4>2. h = (IF d # "none" /\ s.watchdog.base THEN t ELSE alive)
        OBVIOUS
      <4> HIDE DEF h
      <4> DEFINE why == "callbackFault"
      <4>3. why \notin {"stalledNoBuffers", "deviceChanged", "initiallyUnavailable"}
        OBVIOUS
      <4>4. Goes(u, r, t, s.fault, why, leak)
        BY <3>5
      <4> HIDE DEF why
      <4> QED BY <2>3, <3>2, <3>4, <4>1, <4>2, <4>3, <4>4, GoesIs
    <3> QED BY <1>1, <2>3, <2>7, <3>3, <3>4, <3>5
  <2> QED BY <2>8, <2>9
<1>4. CASE s.fault = None
  <2> DEFINE p == WatchdogPoll(s.watchdog, t, d, active)
             v == p.verdict
             since == Healthy(s, t, d, v, p.w)
             stable == since # None /\ t - since >= HealthyFor
             seen == [s EXCEPT !.watchdog = p.w, !.prev = t, !.healthySince = since]
             judged == IF stable
                       THEN [seen EXCEPT !.confirmed = TRUE, !.attempts = 0,
                               !.ineffective = 0, !.state = "running"]
                       ELSE seen
  <2>1. r = IF v.kind \in {"noBuffers", "silent"} THEN ActOnFault(judged, t, v, leak, o)
            ELSE IF DebounceDue(judged.debounce, t)
            THEN ActOnChange(judged, t, stable, leak, o)
            ELSE IF judged.debounce.first # None THEN judged
            ELSE IF v.kind = "noAudio"
            THEN [judged EXCEPT !.confirmed = FALSE, !.noAudio = TRUE]
            ELSE [judged EXCEPT !.noAudio = FALSE]
    BY <1>4 DEF PollWatching
  <2>2. Looked(s.watchdog, p, t, d)
    BY <1>1, LookIs
  <2> HIDE DEF p, v
  <2>3. /\ since \in Later
        /\ since # None =>
             /\ s.prev # None /\ t - s.watchdog.polled < NoBufferTimeout /\ d # "none"
             /\ v.kind = "healthy" /\ p.w.audible
             /\ IF s.healthySince = None THEN since = t ELSE since = s.healthySince
    BY <1>0, <1>1 DEF Healthy, Later, None
  <2> USE DEF v
  <2>4. /\ p.w \in Watch /\ p.w.polled = t /\ p.w.base
        /\ p.w.frames = IF s.watchdog.base /\ d # "none" THEN t ELSE s.watchdog.frames
        /\ p.w.audible => s.watchdog.base /\ (d = "none" => s.watchdog.audible)
        /\ v.kind \in {"healthy", "noAudio", "noBuffers", "silent"}
        /\ v.kind = "noBuffers" => v.since = s.watchdog.frames /\ p.w.frames = s.watchdog.frames
        /\ EmitsSilence /\ v.kind # "noBuffers" => t - p.w.frames < NoBufferTimeout
    BY <2>2 DEF Looked
  <2> HIDE DEF since
  <2>5. stable => /\ since = s.healthySince /\ t - bad >= HealthyFor /\ h = t
                  /\ d # "none" /\ s.watchdog.base /\ v.kind = "healthy"
    BY <1>0, <1>1, <1>2, <2>3, <2>4 DEF Later, None
  <2>6. stable \in BOOLEAN
    OBVIOUS
  <2>7. seen \in Sup
    BY <1>1, <2>3, <2>4 DEF Sup, Later
  <2>8. /\ seen.tap = s.tap /\ seen.active = s.active /\ seen.recovery = s.recovery
        /\ seen.retry = s.retry /\ seen.prev = t /\ seen.blocked = s.blocked
        /\ seen.gap = s.gap /\ seen.state = s.state /\ seen.fault = s.fault
        /\ seen.watchdog = p.w /\ seen.lastRebuild = s.lastRebuild
        /\ seen.lastAttempt = s.lastAttempt /\ seen.healthySince = since
        /\ seen.attempts = s.attempts /\ seen.debounce = s.debounce
    BY <1>1 DEF Sup
  <2> HIDE DEF seen, stable
  <2>9. judged \in Sup
    BY <2>7 DEF Sup, States
  <2>10. /\ judged.tap = s.tap /\ judged.active = s.active /\ judged.recovery = s.recovery
         /\ judged.retry = s.retry /\ judged.prev = t /\ judged.blocked = s.blocked
         /\ judged.gap = s.gap /\ judged.fault = s.fault
         /\ judged.watchdog = p.w /\ judged.lastRebuild = s.lastRebuild
         /\ judged.lastAttempt = s.lastAttempt /\ judged.healthySince = since
         /\ judged.debounce = s.debounce
         /\ judged.state = IF stable THEN "running" ELSE s.state
         /\ judged.attempts = IF stable THEN 0 ELSE s.attempts
    BY <2>7, <2>8 DEF Sup
  <2> HIDE DEF judged, r, v
  <2>11. Tapped(judged)
    BY <1>1, <2>4, <2>9, <2>10 DEF Tapped, Polling, Honest
  <2>12. h \in Later /\ b \in Later /\ h <= t /\ alive <= h
    BY DEF Later, None
  <2>13. h <= p.w.frames /\ p.w.frames <= t /\ p.w.frames \in Nat
         /\ (p.w.audible => p.w.frames = h)
    BY <1>1, <1>2, <2>4
  <2>14. TapInv(judged, t, h, b)
    <3>1. since # None => b <= since /\ since <= t
      BY <1>0, <1>1, <1>2, <2>3 DEF Later, None
    <3>2. judged.state = "running" /\ EmitsSilence /\ RebuildOnChange =>
            p.w.frames <= From(judged, h)
      <4>1. SUFFICES ASSUME judged.state = "running", EmitsSilence, RebuildOnChange
                     PROVE  p.w.frames <= From(judged, h)
        OBVIOUS
      <4>2. From(judged, h) = From(s, h)
        BY <2>10 DEF From
      <4>3. From(s, h) \in Int /\ h <= From(s, h) /\ From(s, alive) <= From(s, h)
            /\ From(s, alive) \in Int
        BY <1>0, <1>1, <2>12 DEF From, Greater, Later, None
      <4>4. CASE s.watchdog.base /\ d # "none"
        BY <2>4, <4>2, <4>3, <4>4
      <4>5. CASE ~(s.watchdog.base /\ d # "none")
        <5>1. ~stable
          BY <2>5, <4>5
        <5>2. s.state = "running"
          BY <2>10, <4>1, <5>1
        <5>3. p.w.frames = s.watchdog.frames /\ s.watchdog.frames <= From(s, alive)
          BY <1>2, <2>4, <4>1, <4>5, <5>2
        <5> QED BY <1>1, <4>2, <4>3, <5>3
      <4> QED BY <4>4, <4>5
    <3> HIDE DEF h, b
    <3> QED BY <1>4, <2>10, <2>13, <3>1, <3>2 DEF TapInv
  <2>15. ASSUME Stays(judged, r, t), Made(judged, r, t, o), r.attempts >= judged.attempts,
                r.state = "running" => Settled(r, t)
         PROVE  /\ Handled(s, r, t, d, leak, o, alive, bad)
                /\ r.attempts < s.attempts => t - bad >= HealthyFor
    <3>1. Made(s, r, t, o) /\ r.attempts \in Nat
      BY <2>10, <2>15 DEF Made, Sup
    <3> HIDE DEF h, b
    <3>2. /\ h = (IF d # "none" /\ s.watchdog.base THEN t ELSE alive)
          /\ b = (IF d = "none" \/ t - s.watchdog.polled >= NoBufferTimeout
                  THEN t ELSE bad)
      BY DEF h, b
    <3>3. Handled(s, r, t, d, leak, o, alive, bad)
      BY <2>10, <2>11, <2>14, <2>15, <3>1, <3>2, KeptIs
    <3>4. r.attempts < s.attempts => t - bad >= HealthyFor
      BY <1>1, <2>5, <2>10, <2>15, <3>1
    <3> QED BY <3>3, <3>4
  <2>16. ASSUME NEW start \in Nat, NEW reason, Goes(judged, r, t, start, reason, leak),
                Made(judged, r, t, o), r.attempts >= judged.attempts,
                h <= start, start <= t, reason # "initiallyUnavailable",
                EmitsSilence /\ RebuildOnChange =>
                  /\ reason = "stalledNoBuffers" => start <= From(s, h)
                  /\ reason = "deviceChanged" => start < From(s, h) + NoBufferTimeout
         PROVE  /\ Handled(s, r, t, d, leak, o, alive, bad)
                /\ r.attempts < s.attempts => t - bad >= HealthyFor
    <3>1. Made(s, r, t, o) /\ r.attempts \in Nat
      BY <2>10, <2>16 DEF Made, Sup
    <3>2. /\ alive <= start
          /\ d # "none" /\ s.watchdog.base => start = t
      BY <2>12, <2>16 DEF Later
    <3>3. h = (IF d # "none" /\ s.watchdog.base THEN t ELSE alive)
      OBVIOUS
    <3> HIDE DEF h
    <3>6. judged.lastAttempt = s.lastAttempt /\ judged.lastRebuild = s.lastRebuild
      BY <2>10
    <3>7. /\ Goes(judged, r, t, start, reason, leak) /\ start <= t
          /\ reason # "initiallyUnavailable"
          /\ EmitsSilence /\ RebuildOnChange =>
               /\ reason = "stalledNoBuffers" => start <= From(s, h)
               /\ reason = "deviceChanged" => start < From(s, h) + NoBufferTimeout
      BY <2>16
    <3>5. Handled(s, r, t, d, leak, o, alive, bad)
      BY <3>1, <3>2, <3>3, <3>6, <3>7, GoesIs
    <3>4. r.attempts < s.attempts => t - bad >= HealthyFor
      BY <1>1, <2>5, <2>10, <2>16, <3>1
    <3> QED BY <3>4, <3>5
  <2>17. CASE v.kind \in {"noBuffers", "silent"}
    <3>1. r = ActOnFault(judged, t, v, leak, o)
      BY <2>1, <2>17
    <3>2. v.kind = "noBuffers" => v.since \in Nat
      BY <1>1, <2>4
    <3>3. /\ Made(judged, r, t, o) /\ r.attempts >= judged.attempts
          /\ \/ Stays(judged, r, t) /\ r.state = "quarantined"
             \/ /\ judged.state = "running" /\ v.kind = "noBuffers"
                /\ Goes(judged, r, t, v.since, "stalledNoBuffers", leak)
             \/ Goes(judged, r, t, t, "rebuildWindow", leak)
      BY <2>11, <3>1, <3>2, FaultIs
    <3>4. ASSUME judged.state = "running", v.kind = "noBuffers"
          PROVE  /\ h <= v.since /\ v.since <= t
                 /\ EmitsSilence /\ RebuildOnChange => v.since <= From(s, h)
      <4>1. ~stable
        BY <2>5, <3>4
      <4>2. v.since = p.w.frames
        BY <2>4, <3>4
      <4>3. From(judged, h) = From(s, h)
        BY <2>10 DEF From
      <4>4. EmitsSilence /\ RebuildOnChange => p.w.frames <= From(judged, h)
        BY <1>1, <2>10, <2>14, <3>4 DEF TapInv
      <4> QED BY <2>13, <4>2, <4>3, <4>4
    <3> HIDE DEF h
    <3>5. CASE judged.state = "running" /\ v.kind = "noBuffers"
               /\ Goes(judged, r, t, v.since, "stalledNoBuffers", leak)
      BY <2>16, <3>2, <3>3, <3>4, <3>5
    <3>6. CASE Goes(judged, r, t, t, "rebuildWindow", leak)
      BY <2>12, <2>16, <3>3, <3>6
    <3> QED BY <2>15, <3>3, <3>5, <3>6
  <2>18. CASE v.kind \notin {"noBuffers", "silent"} /\ DebounceDue(judged.debounce, t)
    <3>1. r = ActOnChange(judged, t, stable, leak, o)
      BY <2>1, <2>18
    <3>2. /\ Made(judged, r, t, o) /\ r.attempts >= judged.attempts
          /\ \/ Stays(judged, r, t) /\ (r.state = "running" => Settled(r, t))
             \/ /\ judged.state = "running" \/ stable
                /\ Goes(judged, r, t, t, "deviceChanged", leak)
      BY <2>6, <2>11, <3>1, ChangeIs DEF stable
    <3>3. ASSUME judged.state = "running" \/ stable, EmitsSilence, RebuildOnChange
          PROVE  t < From(s, h) + NoBufferTimeout
      <4>1. judged.state = "running"
        BY <2>10, <3>3
      <4>2. From(judged, h) = From(s, h)
        BY <2>10 DEF From
      <4>3. p.w.frames <= From(s, h)
        BY <1>1, <2>10, <2>14, <3>3, <4>1, <4>2 DEF TapInv
      <4>4. t - p.w.frames < NoBufferTimeout
        BY <2>4, <2>18, <3>3
      <4>5. From(s, h) \in Int
        BY <1>0, <1>1, <2>12 DEF From, Greater, Later, None
      <4> HIDE DEF h
      <4> QED BY <1>0, <2>13, <4>3, <4>4, <4>5
    <3> HIDE DEF h
    <3>4. CASE (judged.state = "running" \/ stable) /\ Goes(judged, r, t, t, "deviceChanged", leak)
      BY <2>12, <2>16, <3>2, <3>3, <3>4
    <3> QED BY <2>15, <3>2, <3>4
  <2>19. CASE v.kind \notin {"noBuffers", "silent"} /\ ~DebounceDue(judged.debounce, t)
    <3> DEFINE c == judged.confirmed /\ v.kind # "noAudio"
               n == v.kind = "noAudio"
    <3>1. \/ r = judged
          \/ r = [judged EXCEPT !.confirmed = FALSE, !.noAudio = TRUE]
          \/ r = [judged EXCEPT !.noAudio = FALSE]
      BY <2>1, <2>19
    <3>2. r \in Sup
      BY <2>9, <3>1, ZenonT(40) DEF Sup
    <3>3. /\ r.tap = judged.tap /\ r.active = judged.active /\ r.recovery = judged.recovery
          /\ r.retry = judged.retry /\ r.prev = judged.prev /\ r.blocked = judged.blocked
          /\ r.gap = judged.gap /\ r.state = judged.state /\ r.fault = judged.fault
          /\ r.watchdog = judged.watchdog /\ r.lastRebuild = judged.lastRebuild
          /\ r.lastAttempt = judged.lastAttempt /\ r.healthySince = judged.healthySince
          /\ r.attempts = judged.attempts /\ r.debounce = judged.debounce
      BY <2>9, <3>1, ZenonT(40) DEF Sup
    <3>4. Stays(judged, r, t)
      BY <2>11, <3>3 DEF Tapped, Polling, Stays, Watching
    <3>5. Made(judged, r, t, o)
      BY <2>11, <3>2, <3>3 DEF Tapped, Polling, Made, Honest
    <3>6. Settled(r, t)
      BY <2>9, <2>19, <3>3, DurationAssumption DEF DebounceDue, Settled, Sup, Later, None
    <3>7. r.attempts >= judged.attempts
      BY <2>9, <3>3 DEF Sup
    <3> QED BY <2>15, <3>4, <3>5, <3>6, <3>7
  <2> QED BY <2>17, <2>18, <2>19
<1> QED BY <1>3, <1>4

(* CaptureSupervisor::poll of a leg without a tap: an attempt when its     *)
(* time has come, at once for a retry, and otherwise nothing.              *)
LEMMA DownPollIs ==
  ASSUME NEW s \in Sup, ~s.blocked, s.state \in {"recovering", "abandoned"},
         ~s.tap, ~s.active, s.prev # None => s.prev = s.watchdog.polled,
         s.watchdog.audible => s.watchdog.base, Spaced(s), s.recovery.start \in Nat,
         s.retry => s.state = "abandoned",
         NEW t \in Nat, NEW changed \in BOOLEAN, NEW d, NEW active, NEW leak,
         NEW o \in Outcomes
  PROVE  LET r == SupPoll(s, t, changed, d, active, leak, o) IN
         /\ Made(s, r, t, o) /\ (s.retry \/ r.attempts >= s.attempts)
         /\ \/ Rebuilt(r, t, s.recovery.start)
            \/ Down(s, r, s.recovery.start, s.recovery.reason)
<1> DEFINE r == SupPoll(s, t, changed, d, active, leak, o)
           q == [s EXCEPT !.gap = NoGap]
           m == IF changed THEN [q EXCEPT !.debounce = DebounceSignal(@, t)] ELSE q
<1> SUFFICES /\ Made(s, r, t, o) /\ (s.retry \/ r.attempts >= s.attempts)
             /\ \/ Rebuilt(r, t, s.recovery.start)
                \/ Down(s, r, s.recovery.start, s.recovery.reason)
  OBVIOUS
<1>0. MinInterval \in Nat \ {0}
  BY DurationAssumption
<1>1. /\ s.attempts \in Nat /\ s.lastAttempt \in Later /\ s.recovery \in Recovery
      /\ s.retry \in BOOLEAN /\ s.debounce \in [first : Later, last : Later]
      /\ NoGap \in Span /\ NoChange \in [first : Later, last : Later]
  BY DEF Sup, NoGap, Span, Later, None, NoChange
<1>2. /\ q \in Sup /\ q.gap = NoGap /\ q.state = s.state /\ q.blocked = s.blocked
      /\ q.retry = s.retry /\ q.recovery = s.recovery /\ q.debounce = s.debounce
      /\ q.attempts = s.attempts /\ q.lastAttempt = s.lastAttempt
      /\ q.lastRebuild = s.lastRebuild /\ q.watchdog = s.watchdog /\ q.prev = s.prev
      /\ q.tap = s.tap /\ q.active = s.active
  BY <1>1 DEF Sup
<1>3. r = IF s.retry THEN TakeRetry(q, t, leak, o)
          ELSE IF s.state = "recovering"
          THEN IF t >= s.recovery.next THEN AttemptRebuild(m, t, o) ELSE m
          ELSE [m EXCEPT !.debounce = NoChange]
  BY <1>2 DEF SupPoll
<1> HIDE DEF q, r
<1>4. ASSUME NEW x \in Sup, x.gap = NoGap, x.retry = FALSE, x.blocked = s.blocked,
             x.recovery.start = s.recovery.start, x.recovery.reason = s.recovery.reason,
             x.lastAttempt = s.lastAttempt, x.lastRebuild = s.lastRebuild,
             x.watchdog = s.watchdog, x.prev = s.prev, x.tap = s.tap, x.active = s.active,
             s.retry \/ x.attempts = s.attempts
      PROVE  /\ /\ r = x /\ x.state \in {"recovering", "abandoned"} /\ Spaced(x)
                => /\ Made(s, r, t, o) /\ (s.retry \/ r.attempts >= s.attempts)
                   /\ Down(s, r, s.recovery.start, s.recovery.reason)
             /\ /\ r = AttemptRebuild(x, t, o)
                /\ s.lastAttempt # None => t - s.lastAttempt >= MinInterval
                => /\ Made(s, r, t, o) /\ (s.retry \/ r.attempts >= s.attempts)
                   /\ \/ Rebuilt(r, t, s.recovery.start)
                      \/ Down(s, r, s.recovery.start, s.recovery.reason)
  <2>1. ASSUME r = x, x.state \in {"recovering", "abandoned"}, Spaced(x)
        PROVE  /\ Made(s, r, t, o) /\ (s.retry \/ r.attempts >= s.attempts)
               /\ Down(s, r, s.recovery.start, s.recovery.reason)
    <3>1. Made(s, r, t, o)
      BY <1>4, <2>1 DEF Made, Honest
    <3>2. Down(s, r, s.recovery.start, s.recovery.reason)
      BY <1>4, <2>1 DEF Down
    <3> QED BY <1>1, <1>4, <2>1, <3>1, <3>2
  <2>2. ASSUME r = AttemptRebuild(x, t, o),
               s.lastAttempt # None => t - s.lastAttempt >= MinInterval
        PROVE  /\ Made(s, r, t, o) /\ (s.retry \/ r.attempts >= s.attempts)
               /\ \/ Rebuilt(r, t, s.recovery.start)
                  \/ Down(s, r, s.recovery.start, s.recovery.reason)
    <3>1. Polling(x)
      BY <1>4 DEF Polling, Honest
    <3>2. /\ Made(x, r, t, o) /\ r.attempts = x.attempts + 1
          /\ \/ Rebuilt(r, t, x.recovery.start)
             \/ Down(x, r, x.recovery.start, x.recovery.reason)
      BY <1>4, <2>2, <3>1, AttemptIs
    <3>3. Made(s, r, t, o)
      BY <1>4, <3>2 DEF Made
    <3>4. Down(x, r, x.recovery.start, x.recovery.reason) =>
            Down(s, r, s.recovery.start, s.recovery.reason)
      BY <1>4 DEF Down
    <3> QED BY <1>1, <1>4, <3>2, <3>3, <3>4
  <2> QED BY <2>1, <2>2
<1>5. CASE s.retry
  <2> DEFINE fresh == [q EXCEPT !.retry = FALSE, !.attempts = 0, !.ineffective = 0,
                         !.debounce = NoChange]
             n == NextAttemptAt(q, t)
             c == [q.recovery EXCEPT !.next = n]
             again == [fresh EXCEPT !.state = "recovering", !.recovery = c]
  <2>1. /\ n \in Nat /\ n >= t /\ (s.lastAttempt # None => s.lastAttempt + MinInterval <= n)
    BY <1>0, <1>1, <1>2 DEF NextAttemptAt, Greater, Later, None
  <2>2. again = [fresh EXCEPT !.state = "recovering", !.recovery.next = n]
    BY <1>2 DEF Sup
  <2>3. r = IF t >= again.recovery.next THEN AttemptRebuild(again, t, o) ELSE again
    BY <1>2, <1>3, <1>5, <2>2 DEF TakeRetry
  <2> HIDE DEF n
  <2>4. c \in Recovery /\ c.next = n /\ c.start = s.recovery.start
        /\ c.reason = s.recovery.reason
    BY <1>1, <1>2, <2>1 DEF Recovery, Later
  <2> HIDE DEF c
  <2>5. again \in Sup
    BY <1>1, <1>2, <2>4 DEF Sup, States
  <2>6. /\ again.gap = NoGap /\ again.retry = FALSE /\ again.blocked = s.blocked
        /\ again.recovery = c /\ again.lastAttempt = s.lastAttempt
        /\ again.lastRebuild = s.lastRebuild /\ again.watchdog = s.watchdog
        /\ again.prev = s.prev /\ again.tap = s.tap /\ again.active = s.active
        /\ again.state = "recovering"
    BY <1>2 DEF Sup
  <2> HIDE DEF again
  <2>7. Spaced(again)
    BY <2>1, <2>4, <2>6 DEF Spaced
  <2>8. CASE t >= n
    <3>1. r = AttemptRebuild(again, t, o)
      BY <2>3, <2>4, <2>6, <2>8
    <3>2. s.lastAttempt # None => t - s.lastAttempt >= MinInterval
      BY <1>0, <1>1, <2>1, <2>8 DEF Later, None
    <3> QED BY <1>4, <1>5, <2>4, <2>5, <2>6, <3>1, <3>2
  <2>9. CASE ~(t >= n)
    <3>1. r = again
      BY <2>3, <2>4, <2>6, <2>9
    <3> QED BY <1>4, <1>5, <2>4, <2>5, <2>6, <2>7, <3>1
  <2> QED BY <2>8, <2>9
<1>6. CASE ~s.retry
  <2> DEFINE z == IF changed THEN DebounceSignal(s.debounce, t) ELSE s.debounce
             y == IF s.state = "recovering" THEN z ELSE NoChange
             x == [q EXCEPT !.debounce = y]
  <2>1. z \in [first : Later, last : Later]
    BY <1>1 DEF DebounceSignal, Later, None
  <2>2. m = [q EXCEPT !.debounce = z]
    BY <1>2 DEF Sup
  <2>3. y \in [first : Later, last : Later]
    BY <1>1, <2>1
  <2> HIDE DEF z
  <2>4. [m EXCEPT !.debounce = NoChange] = [q EXCEPT !.debounce = NoChange]
    BY <1>2, <2>2 DEF Sup
  <2>5. r = IF s.state = "recovering" /\ t >= s.recovery.next THEN AttemptRebuild(x, t, o)
            ELSE x
    BY <1>3, <1>6, <2>2, <2>4
  <2> HIDE DEF y, m
  <2>6. x \in Sup
    BY <1>2, <2>3 DEF Sup
  <2>7. /\ x.gap = NoGap /\ x.retry = FALSE /\ x.blocked = s.blocked
        /\ x.recovery = s.recovery /\ x.lastAttempt = s.lastAttempt
        /\ x.lastRebuild = s.lastRebuild /\ x.watchdog = s.watchdog
        /\ x.prev = s.prev /\ x.tap = s.tap /\ x.active = s.active
        /\ x.state = s.state /\ x.attempts = s.attempts
    BY <1>1, <1>2, <1>6 DEF Sup
  <2> HIDE DEF x
  <2>8. Spaced(x)
    BY <2>7 DEF Spaced
  <2>9. CASE s.state = "recovering" /\ t >= s.recovery.next
    <3>1. r = AttemptRebuild(x, t, o)
      BY <2>5, <2>9
    <3>2. s.lastAttempt # None => t - s.lastAttempt >= MinInterval
      BY <1>0, <1>1, <2>9 DEF Later, None, Spaced
    <3> QED BY <1>4, <1>6, <2>6, <2>7, <3>1, <3>2
  <2>10. CASE ~(s.state = "recovering" /\ t >= s.recovery.next)
    <3>1. r = x
      BY <2>5, <2>10
    <3> QED BY <1>4, <1>6, <2>6, <2>7, <2>8, <3>1
  <2> QED BY <2>9, <2>10
<1> QED BY <1>5, <1>6

(* Handling is the same for two supervisors that agree on the tap.         *)
LEMMA HandledAlike ==
  ASSUME NEW s, NEW x, SameLeg(s, x), NEW r, NEW t, NEW d, NEW leak, NEW o,
         NEW alive, NEW bad, Handled(x, r, t, d, leak, o, alive, bad)
  PROVE  Handled(s, r, t, d, leak, o, alive, bad)
<1>1. /\ HeardBy(s, r, t, d, alive) = HeardBy(x, r, t, d, alive)
      /\ BadBy(s, r, t, d, bad) = BadBy(x, r, t, d, bad)
      /\ x.lastAttempt = s.lastAttempt
  BY DEF SameLeg, HeardBy, BadBy
<1>2. Made(s, r, t, o)
  BY DEF SameLeg, Handled, Made
<1> QED BY <1>1, <1>2 DEF Handled

(* CaptureSupervisor::poll of a leg that watches its tap.                  *)
LEMMA TapPollIs ==
  ASSUME NEW s \in Sup, ~s.blocked, s.state \in {"running", "quarantined"},
         s.tap, s.active, s.recovery = NoRecovery,
         s.prev # None => s.prev = s.watchdog.polled,
         s.watchdog.audible => s.watchdog.base,
         NEW t \in Nat, NEW changed \in BOOLEAN, NEW d \in {"none", "silent", "audible"},
         NEW active \in BOOLEAN, NEW leak \in BOOLEAN, NEW o \in Outcomes,
         NEW alive \in Later, NEW bad \in Later, alive <= t, bad <= t,
         TapInv(s, t, alive, bad), d # "none" => s.fault = None
  PROVE  LET r == SupPoll(s, t, changed, d, active, leak, o) IN
         /\ Handled(s, r, t, d, leak, o, alive, bad)
         /\ r.attempts < s.attempts => s.retry \/ t - bad >= HealthyFor
<1> DEFINE r == SupPoll(s, t, changed, d, active, leak, o)
           q == [s EXCEPT !.gap = NoGap]
           m == IF changed THEN [q EXCEPT !.debounce = DebounceSignal(@, t)] ELSE q
<1> SUFFICES /\ Handled(s, r, t, d, leak, o, alive, bad)
             /\ r.attempts < s.attempts => s.retry \/ t - bad >= HealthyFor
  OBVIOUS
<1>0. MaxAttempts \in Nat \ {0}
  BY DurationAssumption
<1>1. /\ s.attempts \in Nat /\ s.fault \in Later
      /\ s.retry \in BOOLEAN /\ s.debounce \in [first : Later, last : Later]
      /\ NoGap \in Span /\ NoChange \in [first : Later, last : Later]
  BY DEF Sup, NoGap, Span, Later, None, NoChange
<1>2. /\ q \in Sup /\ q.gap = NoGap /\ q.state = s.state /\ q.blocked = s.blocked
      /\ q.retry = s.retry /\ q.recovery = s.recovery /\ q.debounce = s.debounce
      /\ q.attempts = s.attempts /\ q.lastAttempt = s.lastAttempt
      /\ q.lastRebuild = s.lastRebuild /\ q.watchdog = s.watchdog /\ q.prev = s.prev
      /\ q.tap = s.tap /\ q.active = s.active /\ q.fault = s.fault
      /\ q.healthySince = s.healthySince
  BY <1>1 DEF Sup
<1>3. r = IF s.retry THEN TakeRetry(q, t, leak, o)
          ELSE PollWatching(m, t, d, active, leak, o)
  BY <1>2 DEF SupPoll
<1> HIDE DEF q, r
<1>4. CASE s.retry
  <2> DEFINE x == [q EXCEPT !.retry = FALSE, !.attempts = 0, !.ineffective = 0,
                     !.debounce = NoChange]
             start == IF s.fault = None THEN t ELSE s.fault
             reason == IF s.fault = None THEN "rebuildWindow" ELSE "callbackFault"
  <2>1. r = BeginRecovery(x, t, start, reason, leak, o)
    BY <1>2, <1>3, <1>4 DEF TakeRetry
  <2>2. /\ start \in Nat /\ alive <= start /\ start <= t
        /\ d # "none" /\ s.watchdog.base => start = t
    BY <1>1 DEF Later, None, TapInv
  <2>3. /\ reason \in Reasons
        /\ reason \notin {"stalledNoBuffers", "deviceChanged", "initiallyUnavailable"}
    BY DEF Reasons
  <2> HIDE DEF start, reason
  <2>4. x \in Sup
    BY <1>1, <1>2 DEF Sup
  <2>5. /\ x.gap = NoGap /\ ~x.retry /\ x.blocked = s.blocked /\ x.state = s.state
        /\ x.recovery = s.recovery /\ x.lastAttempt = s.lastAttempt
        /\ x.lastRebuild = s.lastRebuild /\ x.watchdog = s.watchdog
        /\ x.prev = s.prev /\ x.tap = s.tap /\ x.active = s.active /\ x.attempts = 0
    BY <1>2 DEF Sup
  <2> HIDE DEF x
  <2>6. Tapped(x)
    BY <2>4, <2>5 DEF Tapped, Polling, Honest
  <2>7. /\ Made(x, r, t, o)
        /\ \/ x.attempts >= MaxAttempts
           \/ Goes(x, r, t, start, reason, leak)
    BY <2>1, <2>2, <2>3, <2>6, BeginIs
  <2>8. Goes(x, r, t, start, reason, leak)
    BY <1>0, <2>5, <2>7
  <2>9. Made(s, r, t, o)
    BY <2>5, <2>7 DEF Made
  <2> DEFINE h == IF d # "none" /\ s.watchdog.base THEN t ELSE alive
  <2>10. h = (IF d # "none" /\ s.watchdog.base THEN t ELSE alive)
    OBVIOUS
  <2> HIDE DEF h
  <2>11. Handled(s, r, t, d, leak, o, alive, bad)
    BY <2>2, <2>3, <2>5, <2>8, <2>9, <2>10, GoesIs, ZenonT(40)
  <2> QED BY <1>4, <2>11
<1>5. CASE ~s.retry
  <2> DEFINE z == IF changed THEN DebounceSignal(s.debounce, t) ELSE s.debounce
  <2>1. z \in [first : Later, last : Later]
    BY <1>1 DEF DebounceSignal, Later, None
  <2>2. m = [q EXCEPT !.debounce = z]
    BY <1>2 DEF Sup
  <2> HIDE DEF z, m
  <2>3. m \in Sup
    BY <1>2, <2>1, <2>2 DEF Sup
  <2>4. /\ m.gap = NoGap /\ m.retry = s.retry /\ m.blocked = s.blocked /\ m.state = s.state
        /\ m.recovery = s.recovery /\ m.lastAttempt = s.lastAttempt
        /\ m.lastRebuild = s.lastRebuild /\ m.watchdog = s.watchdog
        /\ m.prev = s.prev /\ m.tap = s.tap /\ m.active = s.active
        /\ m.attempts = s.attempts /\ m.fault = s.fault /\ m.healthySince = s.healthySince
    BY <1>2, <2>2 DEF Sup
  <2>5. Tapped(m)
    BY <1>5, <2>3, <2>4 DEF Tapped, Polling, Honest
  <2>6. TapInv(m, t, alive, bad)
    BY <2>4 DEF TapInv, From
  <2>7. r = PollWatching(m, t, d, active, leak, o)
    BY <1>3, <1>5 DEF m
  <2>8. /\ Handled(m, r, t, d, leak, o, alive, bad)
        /\ r.attempts < m.attempts => t - bad >= HealthyFor
    BY <2>4, <2>5, <2>6, <2>7, WatchIs
  <2>9. SameLeg(s, m)
    BY <2>4 DEF SameLeg
  <2> QED BY <2>4, <2>8, <2>9, HandledAlike
<1> QED BY <1>4, <1>5

-----------------------------------------------------------------------------
(* The leg: every step keeps the invariant, and what a step may do.        *)

FencedStep == leaked => ~sup'.tap /\ sup'.lastAttempt = sup.lastAttempt
SpacedStep ==
  sup'.lastAttempt # sup.lastAttempt /\ sup.lastAttempt # None =>
    sup'.lastAttempt - sup.lastAttempt >= MinInterval
EarnedStep ==
  sup'.attempts < sup.attempts => monitor.queued \/ now - lastBad >= HealthyFor
PaddedStep ==
  padded' # NoGap /\ padded' # padded =>
    padded'.start >= paddedTo /\ padded'.start >= lastHeard

LegStep == FencedStep /\ SpacedStep /\ EarnedStep /\ PaddedStep

LEMMA LegInvLater ==
  ASSUME ClockInv', SupInv(sup'), TapInv(sup', now', lastHeard', lastBad'),
         DownInv(sup', now', lastHeard', startupPadded'), PadInv', StartInv',
         leaked' => sup'.blocked, Covered(sup', lastHeard'), StormIsBounded'
  PROVE  LegInv'
<1>1. SupInv(sup)'
  BY DEF SupInv, Sup, Spaced, Recovery, Watch, Span
<1>2. TapInv(sup, now, lastHeard, lastBad)'
  BY DEF TapInv, From, Greater
<1>3. DownInv(sup, now, lastHeard, startupPadded)'
  BY DEF DownInv
<1>4. OutageIsCovered'
  BY DEF OutageIsCovered, Covered, WatchedFrom, From, Greater
<1> QED BY <1>1, <1>2, <1>3, <1>4 DEF LegInv

(* Time passing changes nothing about a tap or an outage.                  *)
LEMMA InvAges ==
  ASSUME NEW s \in Sup, NEW t \in Nat, NEW u \in Nat, t <= u, NEW h, NEW b, NEW p
  PROVE  /\ TapInv(s, t, h, b) => TapInv(s, u, h, b)
         /\ DownInv(s, t, h, p) => DownInv(s, u, h, p)
<1>1. /\ s.watchdog.frames \in Nat /\ s.fault \in Later /\ s.healthySince \in Later
  BY DEF Sup, Watch
<1>2. ASSUME TapInv(s, t, h, b) PROVE TapInv(s, u, h, b)
  BY <1>1, <1>2 DEF TapInv, Later, None
<1>3. ASSUME DownInv(s, t, h, p) PROVE DownInv(s, u, h, p)
  BY <1>3 DEF DownInv
<1> QED BY <1>2, <1>3

(* The supervisor of one poll, whatever it was doing.                      *)
PollFacts(r, leak, o, alive, bad) ==
  /\ SupInv(r) /\ r.state # "idle"
  /\ TapInv(r, now, alive, bad) /\ Covered(r, alive)
  /\ r.gap # NoGap =>
       /\ r.tap /\ r.gap.end = now /\ r.gap.start \in Nat
       /\ startupPadded = None => r.gap.start >= lastHeard
  /\ r.tap /\ startupPadded # None => r.gap # NoGap
  /\ ~r.tap => DownInv(r, now, alive, startupPadded)
  /\ r.state = "running" /\ r.fault = None => Settled(r, now)
  /\ r.tap /\ (r.lastAttempt # sup.lastAttempt \/ ~sup.tap) => r.debounce = NoChange
  /\ leaked => r.blocked /\ ~r.tap /\ r.lastAttempt = sup.lastAttempt
  /\ leak /\ sup.tap /\ (r.lastAttempt # sup.lastAttempt \/ ~r.tap) => r.blocked
  /\ o = "leak" /\ r.lastAttempt # sup.lastAttempt => r.blocked
  /\ r.lastAttempt # sup.lastAttempt /\ sup.lastAttempt # None =>
       r.lastAttempt - sup.lastAttempt >= MinInterval
  /\ r.attempts < sup.attempts => monitor.queued \/ now - lastBad >= HealthyFor

LEMMA PollIs ==
  ASSUME LegInv, sup.state # "idle", NEW d \in {"none", "silent", "audible"},
         NEW active \in BOOLEAN, NEW leak \in BOOLEAN, NEW o \in Outcomes,
         d # "none" => sup.tap /\ sup.fault = None,
         NEW r, r = SupPoll(IF monitor.queued THEN SupRetry(sup) ELSE sup,
                            now, signal, d, active, leak, o)
  PROVE  PollFacts(r, leak, o, HeardBy(sup, r, now, d, lastHeard),
                   BadBy(sup, r, now, d, lastBad))
<1> DEFINE a == IF monitor.queued THEN SupRetry(sup) ELSE sup
           y == sup.retry \/ (~sup.blocked /\ sup.state \in {"abandoned", "quarantined"})
           x == IF monitor.queued THEN y ELSE FALSE
           alive == HeardBy(sup, r, now, d, lastHeard)
           bad == BadBy(sup, r, now, d, lastBad)
<1>0. /\ now \in Nat /\ signal \in BOOLEAN /\ lastHeard \in Later /\ lastBad \in Later
      /\ lastHeard <= now /\ lastBad <= now /\ startupPadded \in Later
      /\ leaked => sup.blocked
  BY DEF LegInv, ClockInv
<1>1. /\ sup \in Sup /\ (sup.tap <=> sup.state \in {"running", "quarantined"})
      /\ (sup.active <=> sup.tap) /\ (sup.blocked => sup.state \in {"abandoned", "idle"})
      /\ ~sup.retry /\ (sup.tap => sup.recovery = NoRecovery)
      /\ (sup.prev # None => sup.prev = sup.watchdog.polled)
      /\ (sup.watchdog.audible => sup.watchdog.base) /\ Spaced(sup)
  BY DEF LegInv, SupInv
<1>2. sup.retry = FALSE /\ sup.attempts \in Nat /\ sup.lastAttempt \in Later /\ sup.state \in States
      /\ sup.watchdog.polled \in Nat /\ sup.lastRebuild \in Later
  BY <1>1 DEF Sup, Watch
<1>3. a = [sup EXCEPT !.retry = x]
  <2>1. CASE monitor.queued
    <3>1. SupRetry(sup) = [sup EXCEPT !.retry = y]
      BY <1>1 DEF SupRetry, Sup
    <3> QED BY <2>1, <3>1
  <2>2. CASE ~monitor.queued
    BY <1>1, <1>2, <2>2 DEF Sup
  <2> QED BY <2>1, <2>2
<1>4. /\ x \in BOOLEAN
      /\ x => monitor.queued /\ ~sup.blocked /\ sup.state \in {"abandoned", "quarantined"}
  BY <1>1
<1>5. r = SupPoll(a, now, signal, d, active, leak, o)
  OBVIOUS
<1> HIDE DEF x, y, a
<1>6. /\ a \in Sup /\ a.retry = x /\ a.state = sup.state /\ a.tap = sup.tap
      /\ a.active = sup.active /\ a.fault = sup.fault /\ a.recovery = sup.recovery
      /\ a.attempts = sup.attempts /\ a.lastAttempt = sup.lastAttempt
      /\ a.lastRebuild = sup.lastRebuild /\ a.blocked = sup.blocked
      /\ a.healthySince = sup.healthySince /\ a.prev = sup.prev
      /\ a.watchdog = sup.watchdog /\ a.debounce = sup.debounce
  BY <1>1, <1>3, <1>4 DEF Sup
<1>7. /\ TapInv(sup, now, lastHeard, lastBad)
      /\ DownInv(sup, now, lastHeard, startupPadded) /\ Covered(sup, lastHeard)
  BY DEF LegInv, OutageIsCovered, Covered, WatchedFrom, From
<1>8. CASE sup.blocked
  <2>1. r = [a EXCEPT !.gap = NoGap]
    <3>1. [a EXCEPT !.gap = NoGap].blocked
      BY <1>6, <1>8 DEF Sup
    <3> QED BY <1>5, <3>1 DEF SupPoll
  <2>2. NoGap \in Span
    BY DEF NoGap, Span, Later, None
  <2>3. r \in Sup
    BY <1>6, <2>1, <2>2 DEF Sup
  <2>4. /\ r.gap = NoGap /\ r.retry = x /\ r.state = sup.state /\ r.tap = sup.tap
        /\ r.active = sup.active /\ r.fault = sup.fault /\ r.recovery = sup.recovery
        /\ r.attempts = sup.attempts /\ r.lastAttempt = sup.lastAttempt
        /\ r.lastRebuild = sup.lastRebuild /\ r.blocked = sup.blocked
        /\ r.healthySince = sup.healthySince /\ r.prev = sup.prev
        /\ r.watchdog = sup.watchdog
    BY <1>6, <2>1 DEF Sup
  <2>5. /\ sup.state = "abandoned" /\ ~sup.tap /\ ~x /\ d = "none"
    BY <1>1, <1>4, <1>8
  <2>6. SupInv(r)
    BY <1>1, <1>4, <2>3, <2>4, <2>5 DEF SupInv, Spaced
  <2>7. alive = lastHeard
    BY <2>4, <2>5 DEF HeardBy
  <2> HIDE DEF alive, bad
  <2>8. /\ TapInv(r, now, alive, bad) /\ Covered(r, alive)
        /\ DownInv(r, now, alive, startupPadded)
    BY <1>7, <2>4, <2>5, <2>7 DEF TapInv, DownInv, Covered, From
  <2>9. PollFacts(r, leak, o, alive, bad)
    <3>1. r.blocked /\ ~r.tap /\ r.state = "abandoned"
      BY <1>8, <2>4, <2>5, Zenon
    <3>2. ~(r.attempts < sup.attempts)
      BY <1>2, <2>4
    <3> QED BY <2>4, <2>6, <2>8, <3>1, <3>2 DEF PollFacts
  <2> QED BY <2>9 DEF alive, bad
<1>9. CASE ~sup.blocked /\ sup.state \in {"running", "quarantined"}
  <2>1. sup.tap /\ startupPadded = None
    BY <1>1, <1>9 DEF LegInv, PadInv
  <2>2. TapInv(a, now, lastHeard, lastBad)
    BY <1>6, <1>7 DEF TapInv, From
  <2>3. /\ Handled(a, r, now, d, leak, o, lastHeard, lastBad)
        /\ r.attempts < a.attempts => a.retry \/ now - lastBad >= HealthyFor
    <3>1. /\ a \in Sup /\ ~a.blocked /\ a.state \in {"running", "quarantined"} /\ a.tap
          /\ a.active /\ a.recovery = NoRecovery
          /\ a.prev # None => a.prev = a.watchdog.polled
          /\ a.watchdog.audible => a.watchdog.base
          /\ d # "none" => a.fault = None
      BY <1>1, <1>6, <1>9, <2>1
    <3> QED BY <1>0, <1>5, <2>2, <3>1, TapPollIs
  <2>4. Handled(sup, r, now, d, leak, o, lastHeard, lastBad)
    BY <1>6, <2>3, HandledAlike DEF SameLeg
  <2> HIDE DEF alive, bad
  <2>5. /\ Made(sup, r, now, o) /\ SupInv(r) /\ r.state # "idle"
        /\ TapInv(r, now, alive, bad)
        /\ r.gap # NoGap => r.tap /\ r.gap.end = now /\ r.gap.start \in Nat /\ r.gap.start >= lastHeard
        /\ ~r.tap =>
             /\ r.recovery.start \in Nat /\ r.recovery.start <= now
             /\ alive <= r.recovery.start
             /\ r.recovery.reason # "initiallyUnavailable"
        /\ leak /\ (r.lastAttempt # sup.lastAttempt \/ ~r.tap) => r.blocked
        /\ r.state = "running" /\ r.fault = None => Settled(r, now)
        /\ r.tap /\ r.lastAttempt # sup.lastAttempt => r.debounce = NoChange
        /\ Covered(r, alive)
    BY <2>4 DEF Handled, alive, bad
  <2>6. ~r.tap => DownInv(r, now, alive, startupPadded)
    BY <2>1, <2>5 DEF DownInv
  <2>7. ~leaked
    BY <1>0, <1>9
  <2>8. PollFacts(r, leak, o, alive, bad)
    BY <1>2, <1>4, <1>6, <2>1, <2>3, <2>5, <2>6, <2>7 DEF PollFacts, Made
  <2> QED BY <2>8 DEF alive, bad
<1>10. CASE ~sup.blocked /\ sup.state \in {"recovering", "abandoned"}
  <2>1. ~sup.tap /\ ~sup.active /\ d = "none"
    BY <1>1, <1>10
  <2>2. /\ sup.recovery.start \in Nat /\ sup.recovery.start <= now
        /\ startupPadded = None => lastHeard <= sup.recovery.start
        /\ sup.recovery.reason = "initiallyUnavailable" => startupPadded # None
    BY <1>7, <1>10 DEF DownInv
  <2>3. Spaced(a) /\ (a.retry => a.state = "abandoned")
    BY <1>1, <1>4, <1>6, <1>10 DEF Spaced
  <2>4. /\ Made(a, r, now, o) /\ (a.retry \/ r.attempts >= a.attempts)
        /\ \/ Rebuilt(r, now, a.recovery.start)
           \/ Down(a, r, a.recovery.start, a.recovery.reason)
    BY <1>0, <1>1, <1>5, <1>6, <1>10, <2>1, <2>2, <2>3, DownPollIs
  <2>5. /\ Made(sup, r, now, o) /\ r \in Sup /\ Honest(r) /\ r.attempts \in Nat
    BY <1>6, <2>4 DEF Made, Sup
  <2>6. /\ ~leaked
        /\ r.attempts < sup.attempts => monitor.queued
    BY <1>0, <1>2, <1>4, <1>6, <1>10, <2>4, <2>5
  <2> HIDE DEF alive, bad
  <2>7. CASE Rebuilt(r, now, sup.recovery.start)
    <3>1. /\ SupInv(r) /\ TapInv(r, now, now, bad) /\ Covered(r, now) /\ r.state = "running"
          /\ r.tap /\ r.gap # NoGap /\ r.gap.start = sup.recovery.start /\ r.gap.end = now
          /\ r.debounce = NoChange /\ Settled(r, now)
      BY <1>0, <2>5, <2>7, RebuiltIs
    <3>2. alive = now
      BY <3>1 DEF HeardBy, alive
    <3>3. PollFacts(r, leak, o, alive, bad)
      BY <1>0, <2>1, <2>2, <2>5, <2>6, <3>1, <3>2 DEF PollFacts, Made, Later, None
    <3> QED BY <3>3 DEF alive, bad
  <2>8. CASE Down(sup, r, sup.recovery.start, sup.recovery.reason)
    <3>1. /\ SupInv(r) /\ TapInv(r, now, alive, bad) /\ ~r.tap /\ r.gap = NoGap
          /\ r.state \in {"recovering", "abandoned"}
          /\ r.recovery.start = sup.recovery.start /\ r.recovery.reason = sup.recovery.reason
          /\ r.lastRebuild = sup.lastRebuild
      BY <2>5, <2>8, DownIs
    <3>2. alive = lastHeard
      BY <2>1, <3>1 DEF HeardBy, alive
    <3>3. DownInv(r, now, alive, startupPadded) /\ Covered(r, alive)
      BY <1>7, <2>2, <3>1, <3>2 DEF DownInv, Covered, From
    <3>4. PollFacts(r, leak, o, alive, bad)
      BY <2>1, <2>5, <2>6, <3>1, <3>3 DEF PollFacts, Made
    <3> QED BY <3>4 DEF alive, bad
  <2>9. Down(a, r, a.recovery.start, a.recovery.reason) =>
          Down(sup, r, sup.recovery.start, sup.recovery.reason)
    BY <1>6 DEF Down
  <2> QED BY <1>6, <2>4, <2>7, <2>8, <2>9
<1> QED BY <1>1, <1>2, <1>8, <1>9, <1>10 DEF States

(* A status is never "unavailable", and a monitor keeps its form.          *)
LEMMA PublishIs ==
  ASSUME NEW m \in Monitor, m.shown # "unavailable", NEW s
  PROVE  Publish(m, s).shown # "unavailable" /\ Publish(m, s) \in Monitor
<1> DEFINE z == Status(s)
<1>1. z \in {"stopped", "cleanupBlocked", "recovering", "exhausted", "quiet", "healthy",
            "confirming"}
  BY DEF Status
<1>2. Publish(m, s) = IF m.closed THEN m ELSE [m EXCEPT !.shown = z]
  BY DEF Publish
<1> HIDE DEF z
<1> QED BY <1>1, <1>2 DEF Monitor

LEMMA LegPoll ==
  ASSUME LegInv, NEW d \in {"none", "silent", "audible"}, NEW active \in BOOLEAN,
         NEW leak \in BOOLEAN, NEW o \in Outcomes, NEW k \in 0 .. MaxNative,
         Poll(d, active, leak, o, k)
  PROVE  LegInv' /\ LegStep
<1> DEFINE r == SupPoll(IF monitor.queued THEN SupRetry(sup) ELSE sup,
                        now, signal, d, active, leak, o)
           alive == HeardBy(sup, r, now, d, lastHeard)
           bad == BadBy(sup, r, now, d, lastBad)
<1>0. MaxNative \in Nat /\ k \in Nat
  BY DurationAssumption
<1>1. /\ now \in Nat /\ signal \in BOOLEAN /\ leaked \in BOOLEAN
      /\ lastHeard \in Later /\ lastBad \in Later /\ startupPadded \in Later
      /\ paddedTo \in Later /\ lastHeard <= now /\ lastBad <= now
  BY DEF LegInv, ClockInv
<1>2. /\ sup.state # "idle" /\ ~polled /\ sup' = r
      /\ d # "none" => sup.tap /\ sup.fault = None
      /\ k > 0 => sup'.lastAttempt # sup.lastAttempt \/ (sup.tap /\ ~sup'.tap)
      /\ leaked' = (leaked \/ (sup.tap /\ (sup'.lastAttempt # sup.lastAttempt \/ ~sup'.tap) /\ leak)
                     \/ (sup'.lastAttempt # sup.lastAttempt /\ o = "leak"))
      /\ now' = now + k /\ polled' = TRUE
      /\ signal' = (signal /\ sup.blocked)
      /\ monitor' = Publish([monitor EXCEPT !.queued = FALSE], sup')
      /\ WriteGaps(sup', now, now')
      /\ lastHeard' = HeardBy(sup, sup', now, d, lastHeard)
      /\ lastBad' = BadBy(sup, sup', now, d, lastBad)
  BY DEF Poll, HeardBy, BadBy
<1>3. PollFacts(r, leak, o, alive, bad)
  BY <1>2, PollIs
<1> HIDE DEF r
<1>4. lastHeard' = alive /\ lastBad' = bad
  BY <1>2
<1>5. /\ alive \in Later /\ bad \in Later /\ alive <= now /\ bad <= now /\ lastHeard <= alive
      /\ r.gap # NoGap => alive = now
  BY <1>1 DEF HeardBy, BadBy, Later, None
<1> HIDE DEF alive, bad
<1>6. /\ SupInv(r) /\ r.state # "idle"
      /\ TapInv(r, now, alive, bad) /\ Covered(r, alive)
      /\ r.gap # NoGap =>
           /\ r.tap /\ r.gap.end = now /\ r.gap.start \in Nat
           /\ startupPadded = None => r.gap.start >= lastHeard
      /\ r.tap /\ startupPadded # None => r.gap # NoGap
      /\ ~r.tap => DownInv(r, now, alive, startupPadded)
      /\ r.state = "running" /\ r.fault = None => Settled(r, now)
      /\ r.tap /\ (r.lastAttempt # sup.lastAttempt \/ ~sup.tap) => r.debounce = NoChange
      /\ leaked => r.blocked /\ ~r.tap /\ r.lastAttempt = sup.lastAttempt
      /\ leak /\ sup.tap /\ (r.lastAttempt # sup.lastAttempt \/ ~r.tap) => r.blocked
      /\ o = "leak" /\ r.lastAttempt # sup.lastAttempt => r.blocked
      /\ r.lastAttempt # sup.lastAttempt /\ sup.lastAttempt # None =>
           r.lastAttempt - sup.lastAttempt >= MinInterval
      /\ r.attempts < sup.attempts => monitor.queued \/ now - lastBad >= HealthyFor
  BY <1>3 DEF PollFacts
<1>7. r \in Sup /\ now' \in Nat /\ now <= now'
      /\ (r.tap <=> r.state \in {"running", "quarantined"})
  <2>1. r \in Sup /\ (r.tap <=> r.state \in {"running", "quarantined"})
    BY <1>6 DEF SupInv
  <2>2. now' \in Nat /\ now <= now'
    BY <1>0, <1>1, <1>2
  <2> QED BY <2>1, <2>2
<1>8. FencedStep /\ SpacedStep /\ EarnedStep
  BY <1>2, <1>6 DEF FencedStep, SpacedStep, EarnedStep
<1>9. /\ startupPadded = None => paddedTo <= lastHeard
      /\ startupPadded # None => paddedTo = startupPadded /\ lastHeard <= startupPadded
                                  /\ startupPadded <= now /\ ~sup.tap
  BY <1>2 DEF LegInv, PadInv
<1>10. /\ PadInv' /\ PaddedStep /\ startupPadded' \in Later /\ paddedTo' \in Later
       /\ ~r.tap => (startupPadded' = None <=> startupPadded = None)
  <2>1. CASE r.gap # NoGap
    <3> DEFINE g == Greater(r.gap.start, startupPadded)
    <3>1. Pad(g, r.gap.end) /\ startupPadded' = None
      BY <1>2, <2>1 DEF WriteGaps
    <3>2. g \in Nat /\ g >= r.gap.start /\ g >= startupPadded
      BY <1>1, <1>6, <2>1 DEF Greater, Later, None
    <3>3. g >= paddedTo /\ g >= lastHeard
      BY <1>1, <1>6, <1>9, <2>1, <3>2 DEF Later, None
    <3> HIDE DEF g
    <3>4. \/ padded' = [start |-> g, end |-> r.gap.end] /\ paddedTo' = r.gap.end
          \/ padded' = NoGap /\ paddedTo' = paddedTo
      BY <3>1 DEF Pad
    <3>5. PaddedStep
      BY <3>3, <3>4 DEF PaddedStep
    <3>6. paddedTo' <= lastHeard' /\ paddedTo' \in Later
      BY <1>1, <1>4, <1>5, <1>6, <1>9, <2>1, <3>4 DEF Later, None
    <3>7. PadInv'
      BY <3>1, <3>6 DEF PadInv
    <3> QED BY <1>6, <2>1, <3>1, <3>5, <3>6, <3>7 DEF Later
  <2>2. CASE r.gap = NoGap /\ startupPadded # None
    <3>1. Pad(startupPadded, now') /\ startupPadded' = now'
      BY <1>2, <2>2 DEF WriteGaps
    <3>2. \/ padded' = [start |-> startupPadded, end |-> now'] /\ paddedTo' = now'
          \/ padded' = NoGap /\ paddedTo' = paddedTo /\ ~(now' > startupPadded)
      BY <3>1 DEF Pad
    <3>3. startupPadded \in Nat /\ startupPadded <= now'
      BY <1>1, <1>7, <1>9, <2>2 DEF Later
    <3>4. paddedTo' = now'
      BY <1>7, <1>9, <2>2, <3>2, <3>3
    <3>5. PaddedStep
      BY <1>1, <1>9, <2>2, <3>2, <3>3 DEF PaddedStep, Later
    <3>6. ~r.tap
      BY <1>6, <2>2
    <3>7. lastHeard' <= now'
      BY <1>1, <1>4, <1>5, <1>7 DEF Later, None
    <3>8. PadInv'
      <4>1. ~sup'.tap
        BY <1>2, <3>6
      <4>2. startupPadded' # None
        BY <1>7, <3>1 DEF None
      <4> QED BY <1>7, <3>1, <3>4, <3>7, <4>1, <4>2 DEF PadInv
    <3> QED BY <1>7, <2>2, <3>1, <3>4, <3>5, <3>8 DEF Later, None
  <2>3. CASE r.gap = NoGap /\ startupPadded = None
    <3>1. padded' = NoGap /\ paddedTo' = paddedTo /\ startupPadded' = startupPadded
      BY <1>2, <2>3 DEF WriteGaps
    <3>2. paddedTo' <= lastHeard'
      BY <1>1, <1>4, <1>5, <1>9, <2>3, <3>1 DEF Later, None
    <3>3. PadInv'
      BY <2>3, <3>1, <3>2 DEF PadInv
    <3> QED BY <1>1, <2>3, <3>1, <3>3 DEF PaddedStep
  <2> QED BY <2>1, <2>2, <2>3
<1>11. ClockInv'
  <2>1. leaked' \in BOOLEAN /\ signal' \in BOOLEAN /\ polled' \in BOOLEAN
    BY <1>2
  <2>2. lastHeard' <= now' /\ lastBad' <= now'
    BY <1>1, <1>4, <1>5, <1>7 DEF Later, None
  <2> QED BY <1>4, <1>5, <1>7, <1>10, <2>1, <2>2 DEF ClockInv
<1>12. TapInv(sup', now', lastHeard', lastBad')
  BY <1>1, <1>2, <1>4, <1>6, <1>7, InvAges
<1>13. DownInv(sup', now', lastHeard', startupPadded')
  <2>1. CASE r.tap
    BY <1>2, <1>7, <2>1 DEF DownInv
  <2>2. CASE ~r.tap
    <3>1. DownInv(r, now', alive, startupPadded)
      BY <1>1, <1>6, <1>7, <2>2, InvAges
    <3> QED BY <1>2, <1>4, <1>10, <2>2, <3>1 DEF DownInv
  <2> QED BY <2>1, <2>2
<1>14. StartInv'
  <2> DEFINE m == [monitor EXCEPT !.queued = FALSE]
  <2>1. monitor \in Monitor /\ monitor.shown # "unavailable"
    BY <1>2 DEF LegInv, StartInv, New
  <2>2. m \in Monitor /\ m.shown = monitor.shown
    BY <2>1 DEF Monitor
  <2> HIDE DEF m
  <2>3. monitor' = Publish(m, sup')
    BY <1>2 DEF m
  <2>4. monitor'.shown # "unavailable" /\ monitor' \in Monitor
    BY <2>1, <2>2, <2>3, PublishIs
  <2>5. (monitor \in Monitor)'
    BY <2>4 DEF Monitor
  <2> QED BY <2>4, <2>5 DEF StartInv
<1>15. leaked' => sup'.blocked
  BY <1>2, <1>6
<1>16. StormIsBounded'
  <2>1. SUFFICES ASSUME r.state = "running", r.fault = None, r.debounce.first # None
                 PROVE  now' - r.debounce.first < DebounceCeiling
    BY <1>2 DEF StormIsBounded
  <2>2. k = 0
    <3>1. r.debounce # NoChange /\ r.tap
      BY <1>7, <2>1 DEF NoChange
    <3> QED BY <1>0, <1>2, <1>6, <3>1
  <2> QED BY <1>1, <1>2, <1>6, <2>1, <2>2 DEF Settled
<1>17. LegInv'
  BY <1>2, <1>4, <1>6, <1>10, <1>11, <1>12, <1>13, <1>14, <1>15, <1>16, LegInvLater
<1> QED BY <1>8, <1>10, <1>17 DEF LegStep

LEMMA NewIs == New \in Sup
<1>1. /\ Arm(0) \in Watch /\ NoRecovery \in Recovery /\ NoGap \in Span
      /\ NoChange \in [first : Later, last : Later] /\ None \in Later
      /\ "idle" \in States
  BY DEF Arm, Watch, NoRecovery, Recovery, NoGap, Span, NoChange, Later, None, Reasons, States
<1> QED BY <1>1 DEF New, Sup

LEMMA LegStarts == LegInit => LegInv
<1> SUFFICES ASSUME LegInit PROVE LegInv
  OBVIOUS
<1>1. /\ sup = New /\ sup.state = "idle" /\ sup.tap = FALSE /\ sup.active = FALSE
      /\ sup.blocked = FALSE /\ sup.retry = FALSE /\ sup.prev = None
      /\ sup.recovery = NoRecovery /\ sup.watchdog.audible = FALSE
  BY DEF LegInit, New, Arm
<1>2. SupInv(sup)
  <2>1. sup \in Sup
    BY <1>1, NewIs
  <2>2. sup.state \notin {"running", "quarantined"} /\ ~sup.tap /\ ~sup.active
    BY <1>1
  <2>3. Spaced(sup)
    BY <1>1 DEF Spaced
  <2> QED BY <1>1, <2>1, <2>2, <2>3 DEF SupInv
<1>3. /\ TapInv(sup, now, lastHeard, lastBad)
      /\ DownInv(sup, now, lastHeard, startupPadded) /\ PadInv /\ StormIsBounded
  BY <1>1 DEF TapInv, DownInv, PadInv, StormIsBounded
<1>4. ClockInv
  <2>1. None \in Later /\ None <= 0
    BY DEF Later, None
  <2> QED BY <2>1 DEF LegInit, ClockInv
<1>5. StartInv
  BY <1>1 DEF LegInit, StartInv, Monitor
<1>6. OutageIsCovered
  BY <1>1 DEF OutageIsCovered, NoRecovery
<1> QED BY <1>2, <1>3, <1>4, <1>5, <1>6 DEF LegInv, LegInit

(* start and start_recovering.                                             *)
LEMMA StartIs ==
  ASSUME NEW t \in Nat, NEW u \in Nat, t <= u, NEW o \in Outcomes
  PROVE  LET r == SupStart(t, u, o) IN
         /\ SupInv(r) /\ (r.blocked <=> o = "leak") /\ (r.tap <=> o = "ok")
         /\ r.state # "idle" /\ r.debounce = NoChange /\ r.attempts >= 0
         /\ TapInv(r, u, u, u)
         /\ o # "ok" => /\ r.recovery.start = t
                        /\ r.recovery.reason = "initiallyUnavailable"
<1> DEFINE r == SupStart(t, u, o)
           s == TapOpened(New, o)
           n == u + Greater(Backoff(1), MinInterval)
           c == [start |-> t, reason |-> "initiallyUnavailable", next |-> n]
           fell == [s EXCEPT !.attempts = 1, !.lastAttempt = t, !.recovery = c]
           x == IF GivesUp(fell) THEN "abandoned" ELSE "recovering"
<1> SUFFICES
         /\ SupInv(r) /\ (r.blocked <=> o = "leak") /\ (r.tap <=> o = "ok")
         /\ r.state # "idle" /\ r.debounce = NoChange /\ r.attempts >= 0
         /\ TapInv(r, u, u, u)
         /\ o # "ok" => /\ r.recovery.start = t
                        /\ r.recovery.reason = "initiallyUnavailable"
  OBVIOUS
<1>0. MinInterval \in Nat \ {0}
  BY DurationAssumption
<1>1. /\ ~New.blocked /\ New.prev = None /\ New.recovery = NoRecovery /\ ~New.retry
      /\ New.debounce = NoChange /\ New.healthySince = None /\ New.lastRebuild = None
      /\ New.attempts = 0 /\ ~New.watchdog.audible /\ New.lastAttempt = None
  BY DEF New, Arm
<1>2. OpenedAs(New, o, s)
  BY NewIs, OpenedIs
<1>3. r = IF o = "ok" THEN [s EXCEPT !.state = "running", !.watchdog = Arm(u)]
          ELSE [fell EXCEPT !.state = x]
  BY DEF SupStart
<1>4. n \in Nat /\ n >= u + MinInterval
  BY WaitIsLong
<1> HIDE DEF s, n, r
<1>5. /\ s \in Sup /\ (s.blocked <=> o = "leak") /\ (s.tap <=> o = "ok")
      /\ s.active = s.tap
      /\ s = [New EXCEPT !.blocked = s.blocked, !.tap = s.tap, !.active = s.active,
                         !.fault = s.fault]
      /\ o # "open" => s.fault = None
  BY <1>1, <1>2 DEF OpenedAs
<1>6. /\ s.prev = None /\ s.recovery = NoRecovery /\ s.retry = New.retry
      /\ s.debounce = NoChange /\ s.healthySince = None /\ s.lastRebuild = None
      /\ s.attempts = 0 /\ s.watchdog = New.watchdog /\ s.lastAttempt = None
  BY <1>1, <1>5, NewIs DEF Sup
<1>7. CASE o = "ok"
  <2>1. r = [s EXCEPT !.state = "running", !.watchdog = Arm(u)]
    BY <1>3, <1>7
  <2>2. Arm(u) \in Watch /\ Arm(u).frames = u /\ ~Arm(u).audible
    BY DEF Arm, Watch, Later, None
  <2>3. r \in Sup
    BY <1>5, <2>1, <2>2 DEF Sup, States
  <2>4. /\ r.state = "running" /\ r.watchdog = Arm(u) /\ r.tap = s.tap /\ r.active = s.active
        /\ r.blocked = s.blocked /\ r.retry = s.retry /\ r.prev = None
        /\ r.recovery = NoRecovery /\ r.debounce = NoChange /\ r.healthySince = None
        /\ r.fault = s.fault /\ r.lastRebuild = None /\ r.attempts = 0
    BY <1>5, <1>6, <2>1 DEF Sup
  <2>5. r.tap /\ r.active /\ ~r.blocked /\ ~r.retry /\ r.fault = None
    BY <1>1, <1>5, <1>6, <1>7, <2>4
  <2>6. SupInv(r)
    BY <2>2, <2>3, <2>4, <2>5 DEF SupInv, Spaced, Sup
  <2>7. TapInv(r, u, u, u)
    BY <2>2, <2>4, <2>5 DEF TapInv, From
  <2> QED BY <1>7, <2>4, <2>5, <2>6, <2>7
<1>8. CASE o # "ok"
  <2>1. r = [fell EXCEPT !.state = x]
    BY <1>3, <1>8
  <2>2. c \in Recovery /\ c.start = t /\ c.reason = "initiallyUnavailable" /\ c.next = n
    BY <1>4 DEF Recovery, Reasons, Later
  <2> HIDE DEF c
  <2>3. fell \in Sup
    BY <1>5, <2>2 DEF Sup, Later
  <2>4. /\ fell.tap = s.tap /\ fell.active = s.active /\ fell.blocked = s.blocked
        /\ fell.retry = s.retry /\ fell.prev = None /\ fell.recovery = c
        /\ fell.debounce = NoChange /\ fell.watchdog = New.watchdog
        /\ fell.attempts = 1 /\ fell.lastAttempt = t
    BY <1>5, <1>6 DEF Sup
  <2>5. x \in {"abandoned", "recovering"} /\ (fell.blocked => x = "abandoned")
    BY DEF GivesUp
  <2> HIDE DEF fell, x
  <2>6. r \in Sup
    BY <2>1, <2>3, <2>5 DEF Sup, States
  <2>7. /\ r.state = x /\ r.tap = fell.tap /\ r.active = fell.active
        /\ r.blocked = fell.blocked /\ r.retry = fell.retry /\ r.prev = fell.prev
        /\ r.recovery = fell.recovery /\ r.debounce = fell.debounce
        /\ r.watchdog = fell.watchdog /\ r.attempts = fell.attempts
        /\ r.lastAttempt = fell.lastAttempt
    BY <2>1, <2>3 DEF Sup
  <2>8. ~r.tap /\ ~r.active /\ ~r.retry /\ (r.blocked <=> o = "leak")
        /\ (r.blocked => r.state = "abandoned")
    BY <1>1, <1>5, <1>6, <1>8, <2>4, <2>5, <2>7
  <2>9. Spaced(r)
    BY <1>0, <1>4, <2>2, <2>4, <2>7 DEF Spaced
  <2>10. SupInv(r)
    BY <1>1, <2>4, <2>5, <2>6, <2>7, <2>8, <2>9 DEF SupInv, Sup
  <2>11. TapInv(r, u, u, u)
    BY <2>8 DEF TapInv
  <2> QED BY <1>8, <2>2, <2>4, <2>5, <2>7, <2>8, <2>10, <2>11
<1> QED BY <1>7, <1>8

LEMMA LegStart == ASSUME LegInv, Start PROVE LegInv' /\ LegStep
<1>0. /\ now \in Nat /\ sup = New /\ ~leaked /\ signal \in BOOLEAN /\ polled \in BOOLEAN
      /\ monitor \in Monitor /\ monitor.shown = "unavailable"
  BY DEF LegInv, ClockInv, StartInv, Start
<1>1. PICK o \in Outcomes, k \in 0 .. MaxNative :
        /\ now' = now + k /\ sup' = SupStart(now, now', o)
        /\ startupPadded' = IF o = "ok" THEN None ELSE now'
        /\ leaked' = (o = "leak")
  BY DEF Start
<1>2. /\ monitor' = Publish(monitor, sup') /\ lastHeard' = now' /\ lastBad' = now'
      /\ paddedTo' = now' /\ signal' = signal /\ polled' = polled /\ padded' = padded
  BY DEF Start
<1>3. now' \in Nat /\ now <= now'
  BY <1>0, <1>1, DurationAssumption
<1>4. /\ SupInv(sup') /\ (sup'.blocked <=> o = "leak") /\ (sup'.tap <=> o = "ok")
      /\ sup'.state # "idle" /\ sup'.debounce = NoChange /\ sup'.attempts >= 0
      /\ TapInv(sup', now', now', now')
      /\ o # "ok" => /\ sup'.recovery.start = now
                     /\ sup'.recovery.reason = "initiallyUnavailable"
  BY <1>0, <1>1, <1>3, StartIs
<1>5. (sup'.tap <=> sup'.state \in {"running", "quarantined"}) /\ (sup'.tap => sup'.recovery = NoRecovery)
  BY <1>4 DEF SupInv
<1>6. ClockInv'
  BY <1>0, <1>1, <1>2, <1>3 DEF ClockInv, Later, None
<1>7. TapInv(sup', now', lastHeard', lastBad')
  BY <1>2, <1>4
<1>8. DownInv(sup', now', lastHeard', startupPadded')
  <2>1. CASE o = "ok"
    BY <1>4, <1>5, <2>1 DEF DownInv
  <2>2. CASE o # "ok"
    <3>1. startupPadded' # None
      BY <1>1, <1>3, <2>2 DEF None
    <3> QED BY <1>0, <1>3, <1>4, <2>2, <3>1 DEF DownInv
  <2> QED BY <2>1, <2>2
<1>9. PadInv'
  BY <1>1, <1>2, <1>3, <1>4 DEF PadInv, None
<1>10. StartInv'
  <2>1. monitor'.shown # "unavailable" /\ monitor' \in Monitor
    <3> DEFINE z == Status(sup')
    <3>1. z \in {"stopped", "cleanupBlocked", "recovering", "exhausted", "quiet", "healthy",
                "confirming"}
      BY DEF Status
    <3>2. monitor' = IF monitor.closed THEN monitor ELSE [monitor EXCEPT !.shown = z]
      BY <1>2 DEF Publish
    <3> HIDE DEF z
    <3>3. ~monitor.closed
      BY <1>0 DEF LegInv, StartInv
    <3> QED BY <1>0, <3>1, <3>2, <3>3 DEF Monitor
  <2>2. (monitor \in Monitor)'
    BY <2>1 DEF Monitor
  <2> QED BY <2>1, <2>2 DEF StartInv
<1>11. Covered(sup', lastHeard')
  <2>1. sup'.recovery.reason \notin {"stalledNoBuffers", "deviceChanged"}
    BY <1>4, <1>5 DEF NoRecovery
  <2> QED BY <2>1 DEF Covered
<1>12. StormIsBounded'
  BY <1>4 DEF StormIsBounded, NoChange
<1>13. LegInv'
  BY <1>1, <1>4, <1>6, <1>7, <1>8, <1>9, <1>10, <1>11, <1>12, LegInvLater
<1>14. LegStep
  <2>1. New.attempts = 0 /\ New.lastAttempt = None
    BY DEF New
  <2>2. ~(sup'.attempts < sup.attempts)
    <3>1. sup'.attempts \in Nat
      BY <1>4 DEF SupInv, Sup
    <3> QED BY <1>0, <2>1, <3>1
  <2> QED BY <1>0, <1>2, <2>1, <2>2 DEF LegStep, FencedStep, SpacedStep, EarnedStep, PaddedStep
<1> QED BY <1>13, <1>14

(* The other steps leave the supervisor's tap and outage as they are.      *)
LEMMA LegQuiet ==
  ASSUME LegInv,
         \/ DeviceChanged \/ RetryCapture \/ UserStop \/ Tick \/ UNCHANGED legVars
  PROVE  LegInv' /\ LegStep
<1>1. sup' = sup /\ UNCHANGED <<writer, ghosts>>
  BY DEF DeviceChanged, RetryCapture, UserStop, Tick, legVars
<1>2. /\ startupPadded' = startupPadded /\ paddedTo' = paddedTo /\ padded' = padded
      /\ lastHeard' = lastHeard /\ lastBad' = lastBad /\ leaked' = leaked
  BY <1>1 DEF writer, ghosts
<1>3. /\ now \in Nat /\ sup \in Sup /\ lastHeard \in Later /\ lastBad \in Later
      /\ lastHeard <= now /\ lastBad <= now /\ startupPadded \in Later
      /\ sup.attempts \in Nat /\ signal \in BOOLEAN /\ polled \in BOOLEAN
      /\ monitor \in Monitor
  BY DEF LegInv, ClockInv, SupInv, Sup, StartInv
<1>4. /\ now' \in Nat /\ now <= now' /\ signal' \in BOOLEAN /\ polled' \in BOOLEAN
      /\ polled' => polled /\ now' = now
  <2>1. CASE Tick
    <3>1. now' = now + 1 /\ ~polled' /\ polled' \in BOOLEAN /\ signal' = signal
      BY <2>1 DEF Tick
    <3>2. now' \in Nat /\ now <= now'
      BY <1>3, <3>1
    <3> QED BY <1>3, <3>1, <3>2, Zenon
  <2>2. CASE DeviceChanged \/ RetryCapture \/ UserStop \/ UNCHANGED legVars
    <3>1. now' = now /\ polled' = polled /\ (signal' = signal \/ signal' = TRUE)
      BY <2>2 DEF DeviceChanged, RetryCapture, UserStop, legVars
    <3>2. now' \in Nat /\ now <= now'
      BY <1>3, <3>1
    <3>3. signal' \in BOOLEAN /\ polled' \in BOOLEAN /\ (polled' => polled)
      BY <1>3, <3>1, Zenon
    <3> QED BY <3>1, <3>2, <3>3, Zenon
  <2> QED BY <2>1, <2>2
<1>5. ClockInv'
  BY <1>2, <1>3, <1>4 DEF LegInv, ClockInv, Later, None
<1>6. /\ SupInv(sup) /\ TapInv(sup, now, lastHeard, lastBad)
      /\ DownInv(sup, now, lastHeard, startupPadded) /\ Covered(sup, lastHeard)
      /\ leaked => sup.blocked
  BY DEF LegInv, OutageIsCovered, Covered, WatchedFrom, From
<1>7. /\ TapInv(sup', now', lastHeard', lastBad')
      /\ DownInv(sup', now', lastHeard', startupPadded')
  BY <1>1, <1>2, <1>3, <1>4, <1>6, InvAges
<1>8. PadInv'
  BY <1>1, <1>2, <1>3, <1>4 DEF LegInv, PadInv, Later, None
<1>9. StormIsBounded'
  BY <1>1, <1>4 DEF LegInv, StormIsBounded
<1>10. StartInv'
  <2>0. \/ monitor' = monitor
        \/ monitor.shown = "exhausted" /\ monitor' = [monitor EXCEPT !.queued = TRUE]
        \/ monitor.shown # "unavailable" /\ monitor' = Closed
    BY DEF DeviceChanged, RetryCapture, UserStop, Tick, legVars
  <2>1. (monitor.shown # "unavailable" /\ monitor'.shown # "unavailable") \/ monitor' = monitor
    <3>1. [monitor EXCEPT !.queued = TRUE].shown = monitor.shown
      BY <1>3 DEF Monitor
    <3>2. Closed.shown # "unavailable"
      BY DEF Closed
    <3> QED BY <2>0, <3>1, <3>2
  <2>2. monitor' \in Monitor
    <3>1. [monitor EXCEPT !.queued = TRUE] \in Monitor
      BY <1>3 DEF Monitor
    <3>2. Closed \in Monitor
      BY DEF Closed, Monitor
    <3> QED BY <1>3, <2>0, <3>1, <3>2
  <2>3. (monitor \in Monitor)'
    BY <2>2 DEF Monitor
  <2>4. (monitor.shown = "unavailable" => sup = New /\ ~leaked /\ ~monitor.closed)'
    BY <1>1, <1>2, <2>1 DEF LegInv, StartInv, New, Arm, NoRecovery, NoChange, NoGap
  <2> QED BY <2>3, <2>4 DEF StartInv
<1>11. LegInv'
  BY <1>1, <1>2, <1>5, <1>6, <1>7, <1>8, <1>9, <1>10, LegInvLater
<1>12. LegStep
  <2>1. leaked => ~sup.tap
    BY DEF LegInv, SupInv
  <2> QED BY <1>1, <1>2, <1>3, <2>1 DEF LegStep, FencedStep, SpacedStep, EarnedStep, PaddedStep
<1> QED BY <1>11, <1>12

(* FaultObservingSink::on_error: the fault is as late as the frames.       *)
LEMMA LegFault == ASSUME LegInv, CallbackFault PROVE LegInv' /\ LegStep
<1>1. /\ sup.active /\ sup.fault = None /\ sup' = [sup EXCEPT !.fault = now]
      /\ now' = now /\ signal' = signal /\ monitor' = monitor /\ polled' = polled
      /\ startupPadded' = startupPadded /\ paddedTo' = paddedTo /\ padded' = padded
      /\ lastHeard' = lastHeard /\ lastBad' = lastBad /\ leaked' = leaked
  BY DEF CallbackFault, writer, ghosts
<1>2. SupInv(sup) /\ sup \in Sup /\ now \in Nat /\ lastHeard <= now /\ sup.attempts \in Nat
  BY DEF LegInv, ClockInv, SupInv, Sup
<1>3. /\ sup' \in Sup /\ sup'.fault = now /\ sup'.state = sup.state /\ sup'.tap = sup.tap
      /\ sup'.active = sup.active /\ sup'.recovery = sup.recovery
      /\ sup'.attempts = sup.attempts /\ sup'.lastAttempt = sup.lastAttempt
      /\ sup'.lastRebuild = sup.lastRebuild /\ sup'.retry = sup.retry
      /\ sup'.blocked = sup.blocked /\ sup'.healthySince = sup.healthySince
      /\ sup'.prev = sup.prev /\ sup'.watchdog = sup.watchdog
      /\ sup'.debounce = sup.debounce
  BY <1>1, <1>2, ZenonT(40) DEF Sup, Later
<1>4. SupInv(sup')
  BY <1>2, <1>3 DEF SupInv, Spaced
<1>5. /\ TapInv(sup', now', lastHeard', lastBad')
      /\ DownInv(sup', now', lastHeard', startupPadded')
  BY <1>1, <1>2, <1>3 DEF LegInv, TapInv, DownInv, From
<1>6. /\ PadInv' /\ ClockInv'
  BY <1>1, <1>3 DEF LegInv, PadInv, ClockInv
<1>7. StormIsBounded'
  BY <1>2, <1>3 DEF StormIsBounded, None
<1>8. sup # New
  BY <1>1 DEF New
<1>9. StartInv'
  BY <1>1, <1>8 DEF LegInv, StartInv, Monitor
<1>10. Covered(sup', lastHeard')
  BY <1>1, <1>3 DEF LegInv, OutageIsCovered, Covered, WatchedFrom, From
<1>11. leaked' => sup'.blocked
  BY <1>1, <1>3 DEF LegInv
<1>12. LegInv'
  BY <1>4, <1>5, <1>6, <1>7, <1>9, <1>10, <1>11, LegInvLater
<1>13. LegStep
  <2>1. leaked => ~sup'.tap
    BY <1>1, <1>4, <1>11 DEF SupInv
  <2> QED BY <1>1, <1>2, <1>3, <2>1 DEF LegStep, FencedStep, SpacedStep, EarnedStep, PaddedStep
<1> QED BY <1>12, <1>13

(* The pump sees the latch.                                                *)
LEMMA LegStop == ASSUME LegInv, PumpStop PROVE LegInv' /\ LegStep
<1>1. /\ sup.state # "idle" /\ monitor.closed /\ signal' = FALSE /\ sup' = SupStop(sup)
      /\ now' = now /\ monitor' = monitor /\ polled' = polled
      /\ startupPadded' = startupPadded
      /\ lastHeard' = lastHeard /\ lastBad' = lastBad /\ leaked' = leaked
  BY DEF PumpStop, ghosts
<1>2. /\ SupInv(sup) /\ sup \in Sup /\ now \in Nat /\ lastHeard <= now /\ sup.attempts \in Nat
      /\ lastHeard \in Later /\ paddedTo \in Later /\ startupPadded \in Later
      /\ sup.recovery \in Recovery
  BY DEF LegInv, ClockInv, SupInv, Sup
<1>3. NoRecovery \in Recovery /\ NoGap \in Span /\ NoChange \in [first : Later, last : Later]
  BY DEF NoRecovery, Recovery, NoGap, Span, NoChange, Later, None, Reasons
<1>4. sup' \in Sup
  BY <1>1, <1>2, <1>3 DEF SupStop, Sup, States
<1>5. /\ sup'.state = "idle" /\ ~sup'.tap /\ ~sup'.active /\ ~sup'.retry
      /\ sup'.recovery = NoRecovery /\ sup'.attempts = sup.attempts
      /\ sup'.lastAttempt = sup.lastAttempt /\ sup'.blocked = sup.blocked
      /\ sup'.prev = sup.prev /\ sup'.watchdog = sup.watchdog
  BY <1>1, <1>2 DEF SupStop, Sup
<1>6. SupInv(sup')
  BY <1>2, <1>4, <1>5 DEF SupInv, Spaced, Sup
<1>7. /\ TapInv(sup', now', lastHeard', lastBad') /\ Covered(sup', lastHeard')
      /\ DownInv(sup', now', lastHeard', startupPadded') /\ PadInv' /\ StormIsBounded'
  BY <1>5 DEF TapInv, DownInv, Covered, PadInv, StormIsBounded, NoRecovery
<1>8. paddedTo' \in Later /\ PaddedStep
  <2>1. CASE sup.recovery.reason = "initiallyUnavailable"
    <3> DEFINE g == Greater(sup.recovery.start, startupPadded)
    <3>1. Pad(g, now)
      BY <2>1 DEF PumpStop
    <3>2. ~sup.tap /\ sup.state \in {"recovering", "abandoned"}
      BY <1>1, <1>2, <2>1 DEF SupInv, NoRecovery, Sup, States
    <3>3. startupPadded \in Nat /\ sup.recovery.start \in Nat
      BY <1>2, <2>1, <3>2 DEF LegInv, DownInv, Later
    <3>4. g >= startupPadded /\ g \in Nat
      BY <3>3 DEF Greater
    <3>5. paddedTo = startupPadded /\ lastHeard <= startupPadded
      BY <1>1, <3>3 DEF LegInv, PadInv, None
    <3> HIDE DEF g
    <3>6. \/ padded' = [start |-> g, end |-> now] /\ paddedTo' = now
          \/ padded' = NoGap /\ paddedTo' = paddedTo
      BY <3>1 DEF Pad
    <3>7. g >= paddedTo /\ g >= lastHeard
      BY <1>2, <3>3, <3>4, <3>5 DEF Later, None
    <3>8. PaddedStep
      BY <3>6, <3>7 DEF PaddedStep
    <3>9. paddedTo' \in Later
      BY <1>2, <3>6 DEF Later
    <3> QED BY <3>8, <3>9
  <2>2. CASE sup.recovery.reason # "initiallyUnavailable"
    <3>1. padded' = NoGap /\ paddedTo' = paddedTo
      BY <2>2 DEF PumpStop
    <3> QED BY <1>2, <3>1 DEF PaddedStep
  <2> QED BY <2>1, <2>2
<1>9. ClockInv'
  BY <1>1, <1>8 DEF LegInv, ClockInv
<1>10. StartInv'
  BY <1>1 DEF LegInv, StartInv, Monitor
<1>11. leaked' => sup'.blocked
  BY <1>1, <1>5 DEF LegInv
<1>12. LegInv'
  BY <1>6, <1>7, <1>9, <1>10, <1>11, LegInvLater
<1> QED BY <1>2, <1>5, <1>8, <1>12 DEF LegStep, FencedStep, SpacedStep, EarnedStep

LEMMA LegMoves == LegInv /\ [LegNext]_legVars => LegInv' /\ LegStep
<1> SUFFICES ASSUME LegInv, [LegNext]_legVars PROVE LegInv' /\ LegStep
  OBVIOUS
<1>1. CASE Start
  BY <1>1, LegStart
<1>2. CASE PollAny
  <2>1. PICK d \in {"none", "silent", "audible"}, active \in BOOLEAN, leak \in BOOLEAN,
             o \in Outcomes, k \in 0 .. MaxNative : Poll(d, active, leak, o, k)
    BY <1>2 DEF PollAny
  <2> QED BY <2>1, LegPoll
<1>3. CASE DeviceChanged \/ RetryCapture \/ UserStop \/ Tick \/ UNCHANGED legVars
  BY <1>3, LegQuiet
<1>4. CASE CallbackFault
  BY <1>4, LegFault
<1>5. CASE PumpStop
  BY <1>5, LegStop
<1> QED BY <1>1, <1>2, <1>3, <1>4, <1>5 DEF LegNext

(* The invariant of the supervised leg holds at every step.                *)
THEOREM LegHolds == LegSpec => []LegInv
<1>1. LegInit => LegInv
  BY LegStarts
<1>2. LegInv /\ [LegNext]_legVars => LegInv'
  BY LegMoves
<1> QED BY <1>1, <1>2, PTL DEF LegSpec

(* CaptureSupervisor: nothing is opened behind a leak, before its time or  *)
(* on a budget nobody earned, and callbacks are admitted exactly from the  *)
(* tap that is watched.                                                    *)
THEOREM LegRebuildsAreEarned == LegSpec => RebuildsAreEarned
<1>1. LegInv => OneLiveTap
  BY DEF LegInv, SupInv, OneLiveTap, Sup
<1>2. LegInv /\ [LegNext]_legVars => [leaked => ~sup'.tap /\ sup'.lastAttempt = sup.lastAttempt]_legVars
  BY LegMoves DEF LegStep, FencedStep
<1>3. LegInv /\ [LegNext]_legVars =>
        [sup'.lastAttempt # sup.lastAttempt /\ sup.lastAttempt # None =>
           sup'.lastAttempt - sup.lastAttempt >= MinInterval]_legVars
  BY LegMoves DEF LegStep, SpacedStep
<1>4. LegInv /\ [LegNext]_legVars =>
        [sup'.attempts < sup.attempts =>
           monitor.queued \/ now - lastBad >= HealthyFor]_legVars
  BY LegMoves DEF LegStep, EarnedStep
<1> QED BY <1>1, <1>2, <1>3, <1>4, LegHolds, PTL
      DEF LegSpec, RebuildsAreEarned, LeaksFence, AttemptsAreSpaced, BudgetIsEarned

(* supervise_channel_observed: the gap a leg reports covers its outage and *)
(* is written once.                                                        *)
THEOREM LegGapsAreTrue == LegSpec => GapsAreTrue
<1>1. LegInv /\ [LegNext]_legVars => [OutageIsCovered']_legVars
  BY LegMoves DEF LegInv
<1>2. LegInv /\ [LegNext]_legVars =>
        [padded' # NoGap /\ padded' # padded =>
           padded'.start >= paddedTo /\ padded'.start >= lastHeard]_legVars
  BY LegMoves DEF LegStep, PaddedStep
<1> QED BY <1>1, <1>2, LegHolds, PTL DEF LegSpec, GapsAreTrue, PaddedOnce

(* Debounce: a storm of notifications postpones the rebuild no longer than *)
(* its ceiling, the safety half of RecoveryIsPrompt.                       *)
THEOREM LegStormIsBounded == LegSpec => []StormIsBounded
<1>1. LegInv => StormIsBounded
  BY DEF LegInv
<1> QED BY <1>1, LegHolds, PTL

-----------------------------------------------------------------------------
(* Live echo cancellation: the inductive invariant.                        *)

(* An interval of the microphone clock, what the thread is asked and what  *)
(* it answers, and the owner's fields a call transforms.                   *)
Interval == [from : Nat, to : Nat]
Request == [fence : Nat, from : Nat, to : Nat, reference : BOOLEAN, last : BOOLEAN]
Answer == [fence : Nat, from : Nat, to : Nat]
Owners == [pending : Seq(Interval), retained : Nat, waiting : Seq(Interval), fence : Nat,
           open : BOOLEAN, pub : [at : Nat, fits : BOOLEAN]]

(* The intervals of s follow one another from frame a to frame b.          *)
Tiled(s, a, b) ==
  /\ \A i \in 1 .. Len(s) : s[i].from < s[i].to
  /\ \A i, j \in 1 .. Len(s) : i < j => s[i].to <= s[j].from
  /\ \A i \in 1 .. Len(s) - 1 : s[i].to = s[i + 1].from
  /\ IF s = <<>> THEN a = b ELSE s[1].from = a /\ s[Len(s)].to = b

(* The sink, the worker boundary and the coordinator hold the microphone   *)
(* up to frame e; m is where the boundary's originals end.                 *)
Front(o, m) == o.pub.fits /\ Tiled(o.pending, o.pub.at, m) /\ o.retained = m - o.pub.at
Sound(o, m, e) == Front(o, m) /\ Tiled(o.waiting, m, e)

(* What is in the pipes towards fence f: the first k items are of older    *)
(* generations, all others of this one.                                    *)
Fenced(s, k, f) ==
  \A i \in 1 .. Len(s) : s[i].fence <= f /\ (s[i].fence = f <=> i > k)

(* The items of s behind its first k follow one another from a to b.       *)
Follow(s, k, a, b) ==
  /\ \A i \in k + 1 .. Len(s) : s[i].from < s[i].to /\ s[i].to <= b
  /\ \A i \in k + 1 .. Len(s) - 1 : s[i].to = s[i + 1].from
  /\ IF k = Len(s) THEN a = b ELSE s[k + 1].from = a /\ s[Len(s)].to = b

(* The frames between the last current answer and the next current         *)
(* command: an answer under way, what the adapter holds, a native call.    *)
Between(x, y, th, ad) ==
  /\ ad.from <= ad.to
  /\ IF th.at = "publish" THEN th.answer.from = x /\ th.answer.to = ad.from /\ x < ad.from
                          ELSE x = ad.from
  /\ IF th.at = "native" THEN th.job.from = ad.to /\ th.job.to = y /\ ad.to < y
                         ELSE y = ad.to

(* Seen from a sink at frame a, the answers of the current generation, the *)
(* thread and the commands follow one another up to frame m.               *)
FlowAt(f, a, m, rs, cs, th, ad, k, j, x, y) ==
  /\ Fenced(rs, k, f) /\ Fenced(cs, j, f)
  /\ \A i \in 1 .. Len(cs) : ~cs[i].last
  /\ Follow(cs, j, y, m)
  /\ ad.fence <= f
  /\ th.at = "publish" => th.answer.fence = ad.fence
  /\ th.at = "native" => th.job.fence = ad.fence /\ ~th.job.last
  /\ IF ad.fence = f THEN Follow(rs, k, a, x) /\ Between(x, y, th, ad)
                     ELSE k = Len(rs) /\ y = a

Flow(f, a, m, rs, cs, th, ad) ==
  \E k \in 0 .. Len(rs), j \in 0 .. Len(cs), x \in Nat, y \in Nat :
    FlowAt(f, a, m, rs, cs, th, ad, k, j, x, y)

(* The worker is in use: its thread runs and nobody stopped it.            *)
Live == thread.at # "gone" /\ ~stopped /\ ~failed

Threads == [at : {"recv", "native", "publish", "gone"}, job : Request, answer : Answer]
Adapters == [fence : Nat, from : Nat, to : Nat, failed : BOOLEAN]

(* The steps a call of the owner is made of.                               *)
Steps == Admits \cup {"force", "enqueue", "poll", "drain", "close", "wait", "over"}

(* A plan without a submission under way, before the last wait.            *)
Quiet(p) == \A i \in 1 .. Len(p) : p[i] \notin Admits \cup {"wait"}

AecTyped ==
  /\ Owner \in Owners /\ next \in Nat
  /\ stopped \in BOOLEAN /\ failed \in BOOLEAN
  /\ plan \in Seq(Steps) /\ cmds \in Seq(Request) /\ results \in Seq(Answer)
  /\ thread \in Threads /\ adapter \in Adapters

(* Only the first step of a plan may be a submission, for a block that is  *)
(* there, after a poll that would have seen the thread gone; a boundary    *)
(* given up holds nothing, but for what finish waits for.                  *)
Calls ==
  /\ plan # <<>> => Quiet(Tail(plan))
  /\ plan # <<>> /\ Head(plan) = "wait" => plan = <<"wait">> /\ stopped
  /\ Admitting => Len(plan) >= 2 /\ waiting # <<>>
  /\ Admitting /\ open => thread.at # "gone"
  /\ ~open => pending = <<>> \/ plan = <<"wait">>
  /\ thread.at = "gone" /\ open => Len(results) <= Queue
  /\ failed => pending = <<>> /\ waiting = <<>> /\ plan = <<>>

AecSeen ==
  /\ AecTyped /\ Calls
  /\ \E m \in Nat : /\ Sound(Owner, m, next)
                    /\ Live => open /\ Flow(fence, pub.at, m, results, cmds, thread, adapter)

AecInv ==
  /\ unseen \in BOOLEAN
  /\ IF unseen THEN thread.at = "gone" ELSE AecSeen
-----------------------------------------------------------------------------
(* Sequences of intervals *)

(* An order never skips: what holds of 0 and of each successor up to n     *)
(* holds of n.                                                             *)
LEMMA Climb ==
  ASSUME NEW n \in Nat, NEW G, 0 \in G, \A i \in 1 .. n : i - 1 \in G => i \in G
  PROVE  n \in G
<1> DEFINE Bad == {k \in Nat : k <= n /\ k \notin G}
<1> SUFFICES ASSUME Bad # {} PROVE FALSE
  OBVIOUS
<1>1. IsWellFoundedOn(OpToRel(<, Nat), Nat)
  BY NatLessThanWellFounded
<1>2. PICK k \in Bad : \A y \in Bad : ~(<<y, k>> \in OpToRel(<, Nat))
  BY <1>1, WFMin
<1>3. k \in Nat /\ k <= n /\ k \notin G /\ k # 0
  BY <1>2
<1>4. k - 1 \in Nat /\ k - 1 < k /\ k \in 1 .. n
  BY <1>3
<1>5. k - 1 \notin Bad
  BY <1>2, <1>4 DEF OpToRel
<1> QED BY <1>3, <1>4, <1>5

(* A tiling runs forward.                                                  *)
LEMMA TiledRuns ==
  ASSUME NEW S, NEW s \in Seq(S), NEW a \in Nat, NEW b \in Nat, Tiled(s, a, b),
         \A i \in 1 .. Len(s) : s[i].from \in Nat /\ s[i].to \in Nat
  PROVE  /\ a <= b /\ (s # <<>> => a < b)
         /\ \A i \in 1 .. Len(s) : a <= s[i].from /\ s[i].to <= b
<1>1. CASE s = <<>>
  BY <1>1 DEF Tiled
<1>2. CASE s # <<>>
  <2>1. Len(s) \in Nat /\ Len(s) >= 1 /\ s[1].from = a /\ s[Len(s)].to = b
    BY <1>2 DEF Tiled
  <2>2. ASSUME NEW i \in 1 .. Len(s) PROVE a <= s[i].from /\ s[i].to <= b
    <3>1. s[i].from < s[i].to /\ s[1].from < s[1].to /\ s[Len(s)].from < s[Len(s)].to
      BY <2>1 DEF Tiled
    <3>2. 1 < i => s[1].to <= s[i].from
      BY <2>1 DEF Tiled
    <3>3. i < Len(s) => s[i].to <= s[Len(s)].from
      BY <2>1 DEF Tiled
    <3> QED BY <2>1, <3>1, <3>2, <3>3
  <2>3. s[1].from < s[1].to
    BY <2>1 DEF Tiled
  <2> QED BY <1>2, <2>1, <2>2, <2>3
<1> QED BY <1>1, <1>2

LEMMA TiledNone ==
  ASSUME NEW a PROVE Tiled(<<>>, a, a)
BY DEF Tiled

LEMMA TiledAppend ==
  ASSUME NEW S, NEW s \in Seq(S), NEW a \in Nat, NEW b \in Nat, Tiled(s, a, b),
         \A i \in 1 .. Len(s) : s[i].from \in Nat /\ s[i].to \in Nat,
         NEW r \in S, r.from = b, r.to \in Nat, r.from < r.to
  PROVE  Tiled(Append(s, r), a, r.to)
<1> DEFINE t == Append(s, r)
<1>1. /\ Len(t) = Len(s) + 1 /\ Len(s) \in Nat /\ t # <<>>
      /\ \A i \in 1 .. Len(s) : t[i] = s[i]
      /\ t[Len(t)] = r
  OBVIOUS
<1>2. \A i \in 1 .. Len(s) : s[i].to <= b
  BY TiledRuns
<1> HIDE DEF t
<1>3. \A i \in 1 .. Len(t) : t[i].from < t[i].to
  BY <1>1, SMTT(30) DEF Tiled
<1>4. ASSUME NEW i \in 1 .. Len(t), NEW j \in 1 .. Len(t), i < j
      PROVE  t[i].to <= t[j].from
  <2>1. i \in 1 .. Len(s) /\ t[i] = s[i]
    BY <1>1, <1>4
  <2>2. CASE j \in 1 .. Len(s)
    BY <1>1, <1>4, <2>1, <2>2 DEF Tiled
  <2>3. CASE j = Len(t)
    BY <1>1, <1>2, <2>1, <2>3
  <2> QED BY <1>1, <2>2, <2>3
<1>5. ASSUME NEW i \in 1 .. Len(t) - 1 PROVE t[i].to = t[i + 1].from
  <2>1. i \in 1 .. Len(s) /\ t[i] = s[i]
    BY <1>1
  <2>2. CASE i = Len(s)
    BY <1>1, <2>1, <2>2 DEF Tiled
  <2>3. CASE i < Len(s)
    BY <1>1, <2>1, <2>3 DEF Tiled
  <2> QED BY <1>1, <2>1, <2>2, <2>3
<1>6. t[1].from = a
  <2>1. CASE s = <<>>
    BY <1>1, <2>1 DEF Tiled
  <2>2. CASE s # <<>>
    <3>1. s[1].from = a /\ 1 \in 1 .. Len(s)
      BY <2>2 DEF Tiled
    <3> QED BY <1>1, <3>1
  <2> QED BY <2>1, <2>2
<1>7. Tiled(t, a, r.to)
  BY <1>1, <1>3, <1>4, <1>5, <1>6 DEF Tiled
<1> QED BY <1>7 DEF t

LEMMA TiledTail ==
  ASSUME NEW S, NEW s \in Seq(S), s # <<>>, NEW a \in Nat, NEW b \in Nat, Tiled(s, a, b)
  PROVE  Tiled(Tail(s), s[1].to, b)
<1> DEFINE t == Tail(s)
<1>1. /\ Len(t) = Len(s) - 1 /\ Len(s) \in Nat /\ Len(s) >= 1
      /\ \A i \in 1 .. Len(t) : t[i] = s[i + 1]
      /\ t = <<>> <=> Len(s) = 1
      /\ t \in Seq(S)
  <2>1. t \in Seq(S) /\ Len(s) \in Nat /\ Len(s) >= 1
    OBVIOUS
  <2>2. Len(t) = Len(s) - 1
    OBVIOUS
  <2>3. \A i \in 1 .. Len(t) : t[i] = s[i + 1]
    OBVIOUS
  <2>4. t = <<>> <=> Len(t) = 0
    <3> HIDE DEF t
    <3> QED BY <2>1
  <2> QED BY <2>1, <2>2, <2>3, <2>4
<1> HIDE DEF t
<1>2. \A i \in 1 .. Len(t) : t[i].from < t[i].to
  BY <1>1 DEF Tiled
<1>3. ASSUME NEW i \in 1 .. Len(t), NEW j \in 1 .. Len(t), i < j
      PROVE  t[i].to <= t[j].from
  <2>1. t[i] = s[i + 1] /\ t[j] = s[j + 1]
    BY <1>1
  <2>2. i + 1 \in 1 .. Len(s) /\ j + 1 \in 1 .. Len(s) /\ i + 1 < j + 1
    BY <1>1, <1>3
  <2>3. s[i + 1].to <= s[j + 1].from
    BY <2>2 DEF Tiled
  <2> QED BY <2>1, <2>3
<1>4. \A i \in 1 .. Len(t) - 1 : t[i].to = t[i + 1].from
  BY <1>1, SMTT(30) DEF Tiled
<1>5. CASE Len(s) = 1
  BY <1>1, <1>2, <1>3, <1>4, <1>5 DEF Tiled, t
<1>6. CASE Len(s) > 1
  <2>1. t # <<>> /\ t[1] = s[2] /\ t[Len(t)] = s[Len(s)] /\ s[1].to = s[2].from
    BY <1>1, <1>6 DEF Tiled
  <2>2. s[Len(s)].to = b
    BY DEF Tiled
  <2> QED BY <1>2, <1>3, <1>4, <2>1, <2>2 DEF Tiled, t
<1> QED BY <1>1, <1>5, <1>6

(* Publishing a tiling that starts where the sink stands fits, and leaves  *)
(* the sink at its end.                                                    *)
LEMMA PublishTiled ==
  ASSUME NEW p \in [at : Nat, fits : BOOLEAN], p.fits,
         NEW S, NEW s \in Seq(S), NEW b \in Nat, Tiled(s, p.at, b)
  PROVE  /\ Published(p, s) \in [at : Nat, fits : BOOLEAN]
         /\ Published(p, s).fits /\ Published(p, s).at = b
<1>1. CASE s = <<>>
  BY <1>1 DEF Tiled, Published
<1>2. CASE s # <<>>
  <2> DEFINE good == /\ p.fits /\ s[1].from = p.at
                     /\ \A i \in 1 .. Len(s) - 1 : s[i].to = s[i + 1].from
  <2>1. good /\ s[Len(s)].to = b
    BY <1>2 DEF Tiled
  <2>2. Published(p, s) = [at |-> s[Len(s)].to, fits |-> good]
    BY <1>2 DEF Published
  <2> HIDE DEF good
  <2>3. good \in BOOLEAN /\ Published(p, s) = [at |-> b, fits |-> good]
    <3>1. good \in BOOLEAN
      BY DEF good
    <3> QED BY <2>1, <2>2, <3>1
  <2> QED BY <2>1, <2>3
<1> QED BY <1>1, <1>2

LEMMA IntervalsAre ==
  ASSUME NEW s \in Seq(Interval)
  PROVE  /\ Len(s) \in Nat
         /\ \A i \in 1 .. Len(s) : s[i] \in Interval /\ s[i].from \in Nat /\ s[i].to \in Nat
<1>1. Len(s) \in Nat /\ \A i \in 1 .. Len(s) : s[i] \in Interval
  OBVIOUS
<1>2. \A r \in Interval : r.from \in Nat /\ r.to \in Nat
  BY DEF Interval
<1> QED BY <1>1, <1>2

(* accept walks the originals up to where an answer ends: there is one     *)
(* place where those it covers stop.                                       *)
LEMMA UsedIs ==
  ASSUME NEW s \in Seq(Interval), NEW a \in Nat, NEW b \in Nat, Tiled(s, a, b), NEW c \in Nat
  PROVE  /\ Used(s, c) \in 0 .. Len(s)
         /\ \A i \in 1 .. Len(s) : i <= Used(s, c) <=> s[i].to <= c
<1> DEFINE P(n) == \A i \in 1 .. Len(s) : i <= n <=> s[i].to <= c
<1>t. /\ Len(s) \in Nat
      /\ \A i \in 1 .. Len(s) : s[i].from \in Nat /\ s[i].to \in Nat
  BY IntervalsAre
<1>m. ASSUME NEW i \in 1 .. Len(s), NEW j \in 1 .. Len(s), i < j PROVE s[i].to < s[j].to
  <2>1. s[i].to <= s[j].from /\ s[j].from < s[j].to
    BY <1>m DEF Tiled
  <2> QED BY <1>t, <2>1
<1>1. \E n \in 0 .. Len(s) : P(n)
  <2>1. CASE \A i \in 1 .. Len(s) : s[i].to <= c
    <3>1. P(Len(s))
      BY <1>t, <2>1
    <3>2. Len(s) \in 0 .. Len(s)
      BY <1>t
    <3> HIDE DEF P
    <3> QED BY <3>1, <3>2
  <2>2. CASE \E i \in 1 .. Len(s) : ~(s[i].to <= c)
    <3> DEFINE B == {i \in Nat : i \in 1 .. Len(s) /\ ~(s[i].to <= c)}
    <3>1. IsWellFoundedOn(OpToRel(<, Nat), Nat)
      BY NatLessThanWellFounded
    <3>2. B # {} /\ B \subseteq Nat
      BY <1>t, <2>2
    <3>3. PICK k \in B : \A y \in B : ~(<<y, k>> \in OpToRel(<, Nat))
      BY <3>1, <3>2, WFMin
    <3>4. k \in 1 .. Len(s) /\ k \in Nat /\ ~(s[k].to <= c)
      BY <3>3
    <3>5. ASSUME NEW i \in 1 .. Len(s), i < k PROVE s[i].to <= c
      <4>1. i \in Nat
        BY <1>t
      <4>2. <<i, k>> \in OpToRel(<, Nat)
        BY <3>4, <3>5, <4>1 DEF OpToRel
      <4>3. i \notin B
        BY <3>3, <4>2
      <4> QED BY <4>1, <4>3
    <3>6. ASSUME NEW i \in 1 .. Len(s), ~(i < k) PROVE ~(s[i].to <= c)
      <4>1. CASE i = k
        BY <3>4, <4>1
      <4>2. CASE i # k
        <5>1. s[k].to < s[i].to
          BY <1>m, <3>4, <3>6, <4>2
        <5> QED BY <1>t, <3>4, <5>1
      <4> QED BY <4>1, <4>2
    <3>7. P(k - 1) /\ k - 1 \in 0 .. Len(s)
      BY <1>t, <3>4, <3>5, <3>6
    <3> QED BY <3>7
  <2> QED BY <2>1, <2>2
<1>2. Used(s, c) = CHOOSE n \in 0 .. Len(s) : P(n)
  BY DEF Used
<1> QED BY <1>1, <1>2

(* What is left of a tiling behind an answer that ends inside it.          *)
LEMMA UnusedTiled ==
  ASSUME NEW s \in Seq(Interval), NEW a \in Nat, NEW b \in Nat, Tiled(s, a, b),
         s # <<>>, NEW c \in Nat, a < c, c <= b
  PROVE  Unused(s, c) \in Seq(Interval) /\ Tiled(Unused(s, c), c, b)
<1> DEFINE n == Used(s, c)
           left == SubSeq(s, n + 1, Len(s))
           t == [left EXCEPT ![1].from = c]
<1>t. /\ Len(s) \in Nat /\ Len(s) >= 1
      /\ \A i \in 1 .. Len(s) : s[i] \in Interval /\ s[i].from \in Nat /\ s[i].to \in Nat
  BY IntervalsAre
<1>1. /\ n \in 0 .. Len(s)
      /\ \A i \in 1 .. Len(s) : i <= n <=> s[i].to <= c
  BY UsedIs
<1>2. Unused(s, c) = IF left = <<>> THEN left ELSE t
  BY DEF Unused
<1> HIDE DEF n
<1>3. /\ left \in Seq(Interval) /\ Len(left) = Len(s) - n
      /\ \A i \in 1 .. Len(s) - n : left[i] = s[n + i]
  BY <1>1, <1>t
<1> HIDE DEF left
<1>e. left = <<>> <=> n = Len(s)
  BY <1>1, <1>3, <1>t
<1>5. CASE n = Len(s)
  <2>1. s[Len(s)].to <= c /\ s[Len(s)].to = b
    BY <1>1, <1>5, <1>t DEF Tiled
  <2>2. c = b
    BY <2>1, <1>t
  <2> QED BY <1>2, <1>3, <1>e, <1>5, <2>2, TiledNone
<1>6. CASE n # Len(s)
  <2>1. n < Len(s) /\ n + 1 \in 1 .. Len(s) /\ left # <<>> /\ Len(left) >= 1
    BY <1>1, <1>3, <1>6, <1>e, <1>t
  <2>2. c < s[n + 1].to
    BY <1>1, <2>1, <1>t
  <2>3. left[1] \in Interval
    BY <1>3, <2>1
  <2> DEFINE h == [left[1] EXCEPT !.from = c]
  <2>4. h \in Interval /\ h.from = c /\ h.to = s[n + 1].to
    <3>1. left[1] = s[n + 1]
      BY <1>3, <1>1, <2>1, <1>t
    <3>2. \A q \in Interval : LET g == [q EXCEPT !.from = c]
                             IN  g \in Interval /\ g.from = c /\ g.to = q.to
      BY DEF Interval
    <3> QED BY <2>3, <3>1, <3>2
  <2>5. t = [left EXCEPT ![1] = h]
    OBVIOUS
  <2> HIDE DEF h
  <2>6. /\ t \in Seq(Interval) /\ Len(t) = Len(s) - n /\ t # <<>>
        /\ t[1] = h
        /\ \A i \in 2 .. Len(s) - n : t[i] = s[n + i]
    <3>1. t \in Seq(Interval) /\ Len(t) = Len(left)
      <4>1. 1 \in 1 .. Len(left)
        BY <1>3, <1>1, <2>1, <1>t
      <4>2. \A q \in Seq(Interval), g \in Interval :
              1 \in 1 .. Len(q) => /\ [q EXCEPT ![1] = g] \in Seq(Interval)
                                  /\ Len([q EXCEPT ![1] = g]) = Len(q)
        OBVIOUS
      <4> QED BY <1>3, <2>4, <2>5, <4>1, <4>2
    <3>2. t[1] = h /\ \A i \in 2 .. Len(left) : t[i] = left[i]
      BY <1>3, <2>1, <2>5
    <3>3. t # <<>>
      <4> HIDE DEF t
      <4> QED BY <2>1, <3>1
    <3> HIDE DEF t
    <3> QED BY <1>1, <1>3, <1>t, <3>1, <3>2, <3>3
  <2> HIDE DEF t
  <2>7. ASSUME NEW i \in 1 .. Len(t)
        PROVE  t[i].from < t[i].to /\ t[i].to = s[n + i].to /\ n + i \in 1 .. Len(s)
    <3>1. CASE i = 1
      BY <1>1, <1>t, <2>1, <2>2, <2>4, <2>6, <3>1
    <3>2. CASE i # 1
      <4>1. t[i] = s[n + i] /\ n + i \in 1 .. Len(s)
        BY <1>1, <1>t, <2>6, <3>2
      <4> QED BY <4>1 DEF Tiled
    <3> QED BY <3>1, <3>2
  <2>8. ASSUME NEW i \in 1 .. Len(t), NEW j \in 1 .. Len(t), i < j
        PROVE  t[i].to <= t[j].from /\ (j = i + 1 => t[i].to = t[j].from)
    <3>1. t[j] = s[n + j] /\ n + j \in 1 .. Len(s) /\ n + i \in 1 .. Len(s) /\ n + i < n + j
      BY <1>1, <1>t, <2>6, <2>8
    <3>2. t[i].to = s[n + i].to
      BY <2>7
    <3>3. s[n + i].to <= s[n + j].from
      BY <3>1 DEF Tiled
    <3>4. j = i + 1 => s[n + i].to = s[n + j].from
      <4>1. SUFFICES ASSUME j = i + 1 PROVE s[n + i].to = s[n + j].from
        OBVIOUS
      <4>2. n + i \in 1 .. Len(s) - 1 /\ n + j = (n + i) + 1
        BY <1>1, <1>t, <3>1, <4>1
      <4> QED BY <4>2 DEF Tiled
    <3> QED BY <3>1, <3>2, <3>3, <3>4
  <2>9. t[Len(t)].to = b
    <3>1. Len(t) \in 1 .. Len(t) /\ n + Len(t) = Len(s)
      BY <1>1, <1>t, <2>1, <2>6
    <3>2. t[Len(t)].to = s[Len(s)].to
      BY <2>7, <3>1
    <3> QED BY <3>2 DEF Tiled
  <2>10. \A i \in 1 .. Len(t) - 1 : t[i].to = t[i + 1].from
    <3>1. Len(t) \in Nat
      BY <2>6, <1>1, <1>t
    <3>2. \A i \in 1 .. Len(t) - 1 : i \in 1 .. Len(t) /\ i + 1 \in 1 .. Len(t) /\ i < i + 1
      BY <3>1
    <3> QED BY <2>8, <3>2
  <2>11. Tiled(t, c, b)
    BY <2>4, <2>6, <2>7, <2>8, <2>9, <2>10 DEF Tiled
  <2> QED BY <1>2, <2>1, <2>6, <2>11
<1> QED BY <1>5, <1>6

-----------------------------------------------------------------------------
(* The worker boundary *)

LEMMA OwnersAre ==
  ASSUME NEW o \in Owners
  PROVE  /\ o.pending \in Seq(Interval) /\ o.retained \in Nat /\ o.waiting \in Seq(Interval)
         /\ o.fence \in Nat /\ o.open \in BOOLEAN
         /\ o.pub \in [at : Nat, fits : BOOLEAN] /\ o.pub.at \in Nat
BY DEF Owners

(* A call changes the owner's fields from o to t without touching what     *)
(* waits; it never reopens the boundary, and closing it empties it.        *)
Keeps(o, t) ==
  /\ t.waiting = o.waiting
  /\ o.pending = <<>> => t.pending = <<>>
  /\ ~o.open => ~t.open
  /\ o.open /\ ~t.open => t.pending = <<>>

LEMMA ShutIs ==
  ASSUME NEW o \in Owners
  PROVE  LET t == [o EXCEPT !.open = FALSE] IN
         /\ t \in Owners /\ t.open = FALSE /\ t.pending = o.pending
         /\ t.retained = o.retained /\ t.waiting = o.waiting
         /\ t.fence = o.fence /\ t.pub = o.pub
         /\ \A m, e : Sound(o, m, e) => Sound(t, m, e)
<1> DEFINE t == [o EXCEPT !.open = FALSE]
<1>1. /\ t \in Owners /\ t.open = FALSE /\ t.pending = o.pending
      /\ t.retained = o.retained /\ t.waiting = o.waiting
      /\ t.fence = o.fence /\ t.pub = o.pub
  BY DEF Owners
<1> HIDE DEF t
<1>2. \A m, e : Sound(o, m, e) => Sound(t, m, e)
  BY <1>1 DEF Sound, Front
<1> QED BY <1>1, <1>2 DEF t

(* fallback publishes every original the boundary holds, in order.         *)
LEMMA FallbackFront ==
  ASSUME NEW o \in Owners, NEW m \in Nat, Front(o, m)
  PROVE  /\ Fallback(o) \in Owners /\ Front(Fallback(o), m)
         /\ Fallback(o).pending = <<>> /\ Fallback(o).retained = 0
         /\ Fallback(o).fence = o.fence + 1 /\ Fallback(o).open = o.open
         /\ Fallback(o).waiting = o.waiting /\ Fallback(o).pub.at = m
<1> DEFINE p == Published(o.pub, o.pending)
           t == [o EXCEPT !.fence = o.fence + 1, !.pub = p, !.pending = <<>>, !.retained = 0]
<1>0. /\ o.pending \in Seq(Interval) /\ o.retained \in Nat /\ o.waiting \in Seq(Interval)
      /\ o.fence \in Nat /\ o.open \in BOOLEAN
      /\ o.pub \in [at : Nat, fits : BOOLEAN]
  BY OwnersAre
<1>1. p \in [at : Nat, fits : BOOLEAN] /\ p.fits /\ p.at = m
  BY <1>0, PublishTiled DEF Front
<1>2. Fallback(o) = t
  BY <1>0 DEF Fallback
<1> HIDE DEF p
<1>3. <<>> \in Seq(Interval) /\ o.fence + 1 \in Nat
  BY <1>0
<1>4. /\ t \in Owners /\ t.pending = <<>> /\ t.retained = 0 /\ t.fence = o.fence + 1
      /\ t.open = o.open /\ t.waiting = o.waiting /\ t.pub = p
  BY <1>1, <1>3 DEF Owners
<1> HIDE DEF t
<1>5. Front(t, m)
  <2>1. Tiled(<<>>, m, m)
    BY TiledNone
  <2>3. m - m = 0
    OBVIOUS
  <2> QED BY <1>1, <1>4, <2>1, <2>3 DEF Front
<1> QED BY <1>1, <1>2, <1>4, <1>5

LEMMA FallbackIs ==
  ASSUME NEW o \in Owners, NEW m \in Nat, NEW e \in Nat, Sound(o, m, e)
  PROVE  /\ Fallback(o) \in Owners /\ Sound(Fallback(o), m, e)
         /\ Fallback(o).pending = <<>> /\ Fallback(o).retained = 0
         /\ Fallback(o).fence = o.fence + 1 /\ Fallback(o).open = o.open
         /\ Fallback(o).waiting = o.waiting /\ Fallback(o).pub.at = m
BY FallbackFront DEF Sound

(* accept cuts the originals where the answer ends.                        *)
LEMMA AcceptIs ==
  ASSUME NEW o \in Owners, NEW m \in Nat, NEW e \in Nat, Sound(o, m, e),
         NEW r \in Answer, Fits(o, r)
  PROVE  /\ Accept(o, r) \in Owners /\ Sound(Accept(o, r), m, e)
         /\ Accept(o, r).fence = o.fence /\ Accept(o, r).open = o.open
         /\ Accept(o, r).waiting = o.waiting /\ Accept(o, r).pub.at = r.to
<1> DEFINE p == Published(o.pub, <<r>>)
           u == Unused(o.pending, r.to)
           n == o.retained - (r.to - r.from)
           t == [o EXCEPT !.pending = u, !.retained = n, !.pub = p]
<1>0. /\ o.pending \in Seq(Interval) /\ o.retained \in Nat /\ o.waiting \in Seq(Interval)
      /\ o.fence \in Nat /\ o.open \in BOOLEAN
      /\ o.pub \in [at : Nat, fits : BOOLEAN] /\ o.pub.at \in Nat
  BY OwnersAre
<1>r. r.from \in Nat /\ r.to \in Nat
  BY DEF Answer
<1>s. /\ o.pub.fits /\ Tiled(o.pending, o.pub.at, m) /\ Tiled(o.waiting, m, e)
      /\ o.retained = m - o.pub.at
  BY DEF Sound, Front
<1>f. /\ o.pending # <<>> /\ r.from = o.pending[1].from
      /\ r.from < r.to /\ r.to - r.from <= o.retained
  BY <1>0 DEF Fits
<1>1. r.from = o.pub.at /\ r.to <= m
  <2>1. o.pending[1].from = o.pub.at
    BY <1>s, <1>f DEF Tiled
  <2> QED BY <1>0, <1>r, <1>s, <1>f, <2>1
<1>2. u \in Seq(Interval) /\ Tiled(u, r.to, m)
  BY <1>0, <1>r, <1>s, <1>f, <1>1, UnusedTiled
<1>3. p \in [at : Nat, fits : BOOLEAN] /\ p.fits /\ p.at = r.to
  <2>1. Tiled(<<r>>, o.pub.at, r.to)
    BY <1>r, <1>f, <1>1 DEF Tiled
  <2>2. <<r>> \in Seq(Answer)
    OBVIOUS
  <2> QED BY <1>0, <1>r, <1>s, <2>1, <2>2, PublishTiled
<1>4. Accept(o, r) = t
  BY <1>0 DEF Accept
<1>5. n \in Nat /\ n = m - r.to
  BY <1>0, <1>r, <1>s, <1>f, <1>1
<1> HIDE DEF p, u, n
<1>6. /\ t \in Owners /\ t.pending = u /\ t.retained = n /\ t.pub = p
      /\ t.fence = o.fence /\ t.open = o.open /\ t.waiting = o.waiting
  BY <1>2, <1>3, <1>5 DEF Owners
<1> HIDE DEF t
<1>7. Sound(t, m, e)
  BY <1>2, <1>3, <1>5, <1>6, <1>s DEF Sound, Front
<1> QED BY <1>3, <1>4, <1>6, <1>7

(* One answer: an old one changes nothing, a fitting one is accepted, any  *)
(* other gives the worker up.                                              *)
LEMMA TakeIs ==
  ASSUME NEW o \in Owners, NEW m \in Nat, NEW e \in Nat, Sound(o, m, e), NEW r \in Answer
  PROVE  /\ Take(o, r) \in Owners /\ Sound(Take(o, r), m, e) /\ Keeps(o, Take(o, r))
         /\ r.fence # o.fence => Take(o, r) = o
         /\ r.fence = o.fence /\ o.pub.at = r.from /\ r.from < r.to /\ r.to <= m
              => /\ Take(o, r).fence = o.fence /\ Take(o, r).open = o.open
                 /\ Take(o, r).pub.at = r.to
<1>0. /\ o.pending \in Seq(Interval) /\ o.retained \in Nat /\ o.open \in BOOLEAN
      /\ o.pub.at \in Nat
  BY OwnersAre
<1>r. r.from \in Nat /\ r.to \in Nat
  BY DEF Answer
<1>1. CASE r.fence # o.fence
  <2>1. Take(o, r) = o
    BY <1>1 DEF Take
  <2> QED BY <1>1, <2>1 DEF Keeps
<1>2. CASE r.fence = o.fence /\ Fits(o, r)
  <2>1. Take(o, r) = Accept(o, r)
    BY <1>2 DEF Take
  <2>2. o.pending # <<>>
    BY <1>2 DEF Fits
  <2> QED BY <1>0, <1>2, <2>1, <2>2, AcceptIs DEF Keeps
<1>3. CASE r.fence = o.fence /\ ~Fits(o, r)
  <2> DEFINE f == Fallback(o)
  <2>1. Take(o, r) = [f EXCEPT !.open = FALSE]
    BY <1>3 DEF Take
  <2>2. f \in Owners /\ Sound(f, m, e) /\ f.pending = <<>> /\ f.waiting = o.waiting
    BY FallbackIs
  <2> HIDE DEF f
  <2>3. /\ Take(o, r) \in Owners /\ Sound(Take(o, r), m, e) /\ Take(o, r).open = FALSE
        /\ Take(o, r).pending = <<>> /\ Take(o, r).waiting = o.waiting
    BY <2>1, <2>2, ShutIs
  <2>4. Keeps(o, Take(o, r))
    BY <2>3 DEF Keeps
  <2>5. ~(o.pub.at = r.from /\ r.from < r.to /\ r.to <= m)
    <3> SUFFICES ASSUME o.pub.at = r.from /\ r.from < r.to /\ r.to <= m PROVE Fits(o, r)
      BY <1>3
    <3>1. Tiled(o.pending, o.pub.at, m) /\ o.retained = m - o.pub.at
      BY DEF Sound, Front
    <3>2. o.pending # <<>> /\ o.pending[1].from = o.pub.at
      BY <3>1, <1>0, <1>r DEF Tiled
    <3> QED BY <1>0, <1>r, <3>1, <3>2 DEF Fits
  <2> QED BY <1>3, <2>3, <2>4, <2>5
<1> QED BY <1>1, <1>2, <1>3

LEMMA KeepsOn ==
  ASSUME NEW o, NEW t, NEW u, Keeps(o, t), Keeps(t, u)
  PROVE  Keeps(o, u)
BY DEF Keeps

-----------------------------------------------------------------------------
(* Worker::poll: the answers one after the other *)

(* f[i] is the owner after the first i answers of the mailbox.             *)
Folded(f, o, n) ==
  /\ f = [i \in 0 .. n |-> f[i]] /\ f[0] = o
  /\ \A i \in 1 .. n : f[i] = Take(f[i - 1], results[i])

LEMMA FoldExists ==
  ASSUME NEW o, NEW n \in Nat PROVE \E f : Folded(f, o, n)
<1> DEFINE G == {k \in Nat : \E f : Folded(f, o, k)}
<1>1. 0 \in G
  <2> DEFINE f == [i \in 0 .. 0 |-> o]
  <2>1. Folded(f, o, 0)
    BY DEF Folded
  <2> QED BY <2>1
<1>2. ASSUME NEW k \in 1 .. n, k - 1 \in G PROVE k \in G
  <2>1. k \in Nat /\ k - 1 \in Nat
    BY <1>2
  <2>2. PICK f : Folded(f, o, k - 1)
    BY <1>2
  <2> DEFINE g == [i \in 0 .. k |-> IF i = k THEN Take(f[k - 1], results[k]) ELSE f[i]]
  <2>3. g = [i \in 0 .. k |-> g[i]] /\ g[0] = o
    BY <2>1, <2>2 DEF Folded
  <2>4. ASSUME NEW i \in 1 .. k PROVE g[i] = Take(g[i - 1], results[i])
    <3>1. CASE i = k
      BY <2>1, <3>1
    <3>2. CASE i # k
      <4>1. i \in 1 .. k - 1 /\ g[i] = f[i] /\ g[i - 1] = f[i - 1]
        BY <2>1, <3>2
      <4> QED BY <2>2, <4>1 DEF Folded
    <3> QED BY <3>1, <3>2
  <2>5. Folded(g, o, k)
    <3> HIDE DEF g
    <3> QED BY <2>3, <2>4 DEF Folded
  <2> QED BY <2>1, <2>5
<1>3. n \in G
  <2> HIDE DEF G
  <2> QED BY <1>1, <1>2, Climb
<1> QED BY <1>3

LEMMA AnsweredIs ==
  ASSUME NEW o, Len(results) \in Nat
  PROVE  \E f : Folded(f, o, Len(results)) /\ Answered(o) = f[Len(results)]
<1> DEFINE F(f) == [i \in 0 .. Len(results) |-> IF i = 0 THEN o ELSE Take(f[i - 1], results[i])]
           s == CHOOSE f : f = F(f)
<1>1. Answered(o) = s[Len(results)]
  BY DEF Answered
<1>2. \E f : f = F(f)
  <2>1. PICK f : Folded(f, o, Len(results))
    BY FoldExists
  <2>2. f = F(f)
    BY <2>1 DEF Folded
  <2> QED BY <2>2
<1>3. s = F(s)
  BY <1>2
<1> HIDE DEF s
<1>4. Folded(s, o, Len(results))
  BY <1>3 DEF Folded
<1> QED BY <1>1, <1>4

(* Whatever the mailbox holds, no frame is lost or published twice.        *)
LEMMA AnsweredSound ==
  ASSUME NEW o \in Owners, NEW m \in Nat, NEW e \in Nat, Sound(o, m, e),
         results \in Seq(Answer)
  PROVE  /\ Answered(o) \in Owners /\ Sound(Answered(o), m, e) /\ Keeps(o, Answered(o))
<1> DEFINE n == Len(results)
<1>1. n \in Nat /\ \A i \in 1 .. n : results[i] \in Answer
  OBVIOUS
<1>2. PICK f : Folded(f, o, n) /\ Answered(o) = f[n]
  BY <1>1, AnsweredIs
<1> DEFINE Good(i) == f[i] \in Owners /\ Sound(f[i], m, e) /\ Keeps(o, f[i])
           G == {i \in 0 .. n : Good(i)}
<1>3. 0 \in G
  <2>1. f[0] = o /\ Keeps(o, o)
    BY <1>2 DEF Folded, Keeps
  <2> QED BY <1>1, <2>1
<1>4. ASSUME NEW i \in 1 .. n, i - 1 \in G PROVE i \in G
  <2>1. f[i] = Take(f[i - 1], results[i])
    BY <1>2 DEF Folded
  <2>2. Good(i - 1)
    BY <1>4
  <2>3. /\ f[i] \in Owners /\ Sound(f[i], m, e) /\ Keeps(f[i - 1], f[i])
    BY <1>1, <2>1, <2>2, TakeIs
  <2>4. Keeps(o, f[i])
    BY <2>2, <2>3, KeepsOn
  <2> QED BY <1>1, <2>3, <2>4
<1>5. n \in G
  <2> HIDE DEF G, n
  <2> QED BY <1>1, <1>3, <1>4, Climb
<1> QED BY <1>2, <1>5

(* Answers that continue one another from where the sink stands are all    *)
(* accepted: the worker stays in use.                                      *)
LEMMA AnsweredFlow ==
  ASSUME NEW o \in Owners, NEW m \in Nat, NEW e \in Nat, Sound(o, m, e),
         results \in Seq(Answer), NEW k \in 0 .. Len(results), Fenced(results, k, o.fence),
         NEW x \in Nat, Follow(results, k, o.pub.at, x), x <= m
  PROVE  /\ Answered(o).fence = o.fence /\ Answered(o).open = o.open
         /\ Answered(o).pub.at = x
<1> DEFINE n == Len(results)
           slot(i) == IF i <= k THEN o.pub.at ELSE results[i].to
<1>1. n \in Nat /\ \A i \in 1 .. n : results[i] \in Answer
  OBVIOUS
<1>t. \A i \in 1 .. n : results[i].to \in Nat /\ results[i].from \in Nat
  BY <1>1 DEF Answer
<1>2. PICK f : Folded(f, o, n) /\ Answered(o) = f[n]
  BY <1>1, AnsweredIs
<1> DEFINE Good(i) == /\ f[i] \in Owners /\ Sound(f[i], m, e)
                      /\ f[i].fence = o.fence /\ f[i].open = o.open /\ f[i].pub.at = slot(i)
           G == {i \in 0 .. n : Good(i)}
<1>3. 0 \in G
  <2>1. f[0] = o
    BY <1>2 DEF Folded
  <2> QED BY <1>1, <2>1
<1>4. ASSUME NEW i \in 1 .. n, i - 1 \in G PROVE i \in G
  <2>1. f[i] = Take(f[i - 1], results[i])
    BY <1>2 DEF Folded
  <2>2. Good(i - 1)
    BY <1>4
  <2>3. f[i] \in Owners /\ Sound(f[i], m, e)
    BY <1>1, <2>1, <2>2, TakeIs
  <2>4. CASE i <= k
    <3>1. results[i].fence # o.fence /\ slot(i) = o.pub.at /\ slot(i - 1) = o.pub.at
      BY <1>1, <2>4 DEF Fenced
    <3>2. f[i] = f[i - 1]
      BY <1>1, <2>1, <2>2, <3>1, TakeIs
    <3> HIDE DEF slot
    <3> QED BY <1>1, <2>2, <2>3, <3>1, <3>2
  <2>5. CASE i > k
    <3>1. results[i].fence = o.fence /\ i \in k + 1 .. n
      BY <1>1, <2>5 DEF Fenced
    <3>2. results[i].from < results[i].to /\ results[i].to <= x /\ k # n
      BY <1>1, <3>1 DEF Follow
    <3>3. slot(i - 1) = results[i].from
      <4>1. CASE i = k + 1
        BY <1>1, <3>2, <4>1 DEF Follow
      <4>2. CASE i # k + 1
        <5>1. i - 1 \in k + 1 .. n - 1 /\ (i - 1) + 1 = i /\ ~(i - 1 <= k)
          BY <1>1, <3>1, <4>2
        <5>2. results[i - 1].to = results[i].from
          BY <5>1 DEF Follow
        <5> QED BY <5>1, <5>2
      <4> QED BY <4>1, <4>2
    <3>4. slot(i) = results[i].to
      BY <1>1, <3>1
    <3>5. results[i].to <= m
      BY <1>t, <3>2
    <3> HIDE DEF slot
    <3>6. f[i].fence = o.fence /\ f[i].open = o.open /\ f[i].pub.at = results[i].to
      BY <1>1, <2>1, <2>2, <3>1, <3>2, <3>3, <3>5, TakeIs, SMTT(30)
    <3> QED BY <1>1, <2>3, <3>4, <3>6
  <2> QED BY <1>1, <2>4, <2>5
<1>5. n \in G
  <2> HIDE DEF G, n
  <2> QED BY <1>1, <1>3, <1>4, Climb
<1>6. slot(n) = x
  BY <1>1 DEF Follow
<1> QED BY <1>2, <1>5, <1>6

-----------------------------------------------------------------------------
(* The pipes between the owner and the thread *)

LEMMA CommandsAre ==
  ASSUME NEW cs \in Seq(Request)
  PROVE  /\ Len(cs) \in Nat
         /\ \A i \in 1 .. Len(cs) : /\ cs[i] \in Request /\ cs[i].from \in Nat
                                    /\ cs[i].to \in Nat /\ cs[i].fence \in Nat
<1>1. Len(cs) \in Nat /\ \A i \in 1 .. Len(cs) : cs[i] \in Request
  OBVIOUS
<1> QED BY <1>1 DEF Request

LEMMA AnswersAre ==
  ASSUME NEW rs \in Seq(Answer)
  PROVE  /\ Len(rs) \in Nat
         /\ \A i \in 1 .. Len(rs) : /\ rs[i] \in Answer /\ rs[i].from \in Nat
                                    /\ rs[i].to \in Nat /\ rs[i].fence \in Nat
<1>1. Len(rs) \in Nat /\ \A i \in 1 .. Len(rs) : rs[i] \in Answer
  OBVIOUS
<1> QED BY <1>1 DEF Answer

(* Under a newer fence nothing in the pipes counts any more, and the sink  *)
(* stands where the originals end.                                         *)
LEMMA FlowAhead ==
  ASSUME NEW f \in Nat, NEW g \in Nat, f < g, NEW a, NEW b \in Nat, NEW m \in Nat,
         NEW rs \in Seq(Answer), NEW cs \in Seq(Request), NEW th, NEW ad, ad.fence \in Nat,
         Flow(f, a, m, rs, cs, th, ad)
  PROVE  /\ Flow(g, b, b, rs, cs, th, ad) /\ Fenced(rs, Len(rs), g)
         /\ Flow(g, b, b, <<>>, cs, th, ad)
<1>1. PICK k \in 0 .. Len(rs), j \in 0 .. Len(cs), x \in Nat, y \in Nat :
        FlowAt(f, a, m, rs, cs, th, ad, k, j, x, y)
  BY DEF Flow
<1>t. /\ Len(rs) \in Nat /\ \A i \in 1 .. Len(rs) : rs[i].fence \in Nat
      /\ Len(cs) \in Nat /\ \A i \in 1 .. Len(cs) : cs[i].fence \in Nat
  BY AnswersAre, CommandsAre
<1>2. Fenced(rs, Len(rs), g) /\ Fenced(cs, Len(cs), g)
  BY <1>1, <1>t, SMTT(30) DEF FlowAt, Fenced
<1>3. ad.fence <= g /\ ad.fence # g
  BY <1>1 DEF FlowAt
<1>4. Follow(cs, Len(cs), b, b)
  BY <1>t DEF Follow
<1>5. FlowAt(g, b, b, rs, cs, th, ad, Len(rs), Len(cs), b, b)
  BY <1>1, <1>2, <1>3, <1>4 DEF FlowAt
<1>6. FlowAt(g, b, b, <<>>, cs, th, ad, 0, Len(cs), b, b)
  BY <1>1, <1>2, <1>3, <1>4 DEF FlowAt, Fenced
<1>7. Len(rs) \in 0 .. Len(rs) /\ Len(cs) \in 0 .. Len(cs) /\ 0 \in 0 .. Len(<<>>)
  BY <1>t
<1> QED BY <1>2, <1>5, <1>6, <1>7 DEF Flow

(* Everything in the pipes lies before the end of the originals.           *)
LEMMA FollowRuns ==
  ASSUME NEW S, NEW s \in Seq(S), NEW k \in 0 .. Len(s), NEW a \in Nat, NEW b \in Nat,
         \A i \in 1 .. Len(s) : s[i].from \in Nat /\ s[i].to \in Nat, Follow(s, k, a, b)
  PROVE  a <= b
<1>1. CASE k = Len(s)
  BY <1>1 DEF Follow
<1>2. CASE k # Len(s)
  <2>1. k + 1 \in k + 1 .. Len(s) /\ k + 1 \in 1 .. Len(s)
    BY <1>2
  <2>2. s[k + 1].from = a /\ s[k + 1].from < s[k + 1].to /\ s[k + 1].to <= b
    BY <1>2, <2>1 DEF Follow
  <2> QED BY <2>1, <2>2
<1> QED BY <1>1, <1>2

(* A poll takes everything a thread in use has answered and keeps it in    *)
(* use; a thread that is gone is given up, its originals published.        *)
LEMMA TimelyIs ==
  ASSUME NEW o \in Owners, NEW m \in Nat, NEW e \in Nat, Sound(o, m, e), NEW late
  PROVE  /\ Timely(o, late) \in Owners /\ Sound(Timely(o, late), m, e)
         /\ Keeps(o, Timely(o, late)) /\ Timely(o, late).open = o.open
         /\ \/ Timely(o, late) = o
            \/ Timely(o, late).fence = o.fence + 1 /\ Timely(o, late).pub.at = m
<1>1. CASE late /\ o.pending # <<>>
  <2>1. Timely(o, late) = Fallback(o)
    BY <1>1 DEF Timely
  <2> QED BY <2>1, FallbackIs DEF Keeps
<1>2. CASE ~(late /\ o.pending # <<>>)
  <2>1. Timely(o, late) = o
    BY <1>2 DEF Timely
  <2> QED BY <2>1 DEF Keeps
<1> QED BY <1>1, <1>2

LEMMA ObservedIs ==
  ASSUME NEW o \in Owners, NEW m \in Nat, NEW e \in Nat, Sound(o, m, e)
  PROVE  /\ Observed(o) \in Owners /\ Sound(Observed(o), m, e) /\ Keeps(o, Observed(o))
         /\ thread.at = "gone" /\ Len(results) <= Queue
              => Observed(o).pending = <<>> /\ ~Observed(o).open
         /\ thread.at # "gone" => Observed(o) = o
<1>1. CASE /\ thread.at = "gone" /\ Len(results) <= Queue
           /\ o.open \/ o.pending # <<>>
  <2> DEFINE f == Fallback(o)
  <2>1. Observed(o) = [f EXCEPT !.open = FALSE]
    BY <1>1 DEF Observed
  <2>2. f \in Owners /\ Sound(f, m, e) /\ f.pending = <<>> /\ f.waiting = o.waiting
    BY FallbackIs
  <2> HIDE DEF f
  <2>3. /\ Observed(o) \in Owners /\ Sound(Observed(o), m, e) /\ Observed(o).open = FALSE
        /\ Observed(o).pending = <<>> /\ Observed(o).waiting = o.waiting
    BY <2>1, <2>2, ShutIs
  <2> QED BY <1>1, <2>3 DEF Keeps
<1>2. CASE ~ /\ thread.at = "gone" /\ Len(results) <= Queue
             /\ o.open \/ o.pending # <<>>
  <2>1. Observed(o) = o
    BY <1>2 DEF Observed
  <2> QED BY <1>2, <2>1 DEF Keeps
<1> QED BY <1>1, <1>2

LEMMA WorkerPollIs ==
  ASSUME NEW o \in Owners, NEW m \in Nat, NEW e \in Nat, Sound(o, m, e), NEW late,
         results \in Seq(Answer), cmds \in Seq(Request), thread \in Threads,
         adapter \in Adapters, NEW p, p = WorkerPoll(o, late)
  PROVE  /\ p \in Owners /\ Sound(p, m, e) /\ Keeps(o, p)
         /\ thread.at = "gone" /\ Len(results) <= Queue => p.pending = <<>> /\ ~p.open
         /\ thread.at # "gone" /\ Flow(o.fence, o.pub.at, m, results, cmds, thread, adapter)
              => /\ p.open = o.open
                 /\ Flow(p.fence, p.pub.at, m, <<>>, cmds, thread, adapter)
<1> DEFINE t == Timely(o, late)
           u == Answered(t)
<1>0. p = Observed(u)
  BY DEF WorkerPoll
<1>1. /\ t \in Owners /\ Sound(t, m, e) /\ Keeps(o, t) /\ t.open = o.open
      /\ t = o \/ (t.fence = o.fence + 1 /\ t.pub.at = m)
  <2>1. /\ Timely(o, late) \in Owners /\ Sound(Timely(o, late), m, e)
        /\ Keeps(o, Timely(o, late)) /\ Timely(o, late).open = o.open
    BY TimelyIs
  <2>2. \/ Timely(o, late) = o
        \/ Timely(o, late).fence = o.fence + 1 /\ Timely(o, late).pub.at = m
    BY TimelyIs
  <2> QED BY <2>1, <2>2
<1> HIDE DEF t
<1>2. u \in Owners /\ Sound(u, m, e) /\ Keeps(t, u)
  BY <1>1, AnsweredSound
<1>3. /\ p \in Owners /\ Sound(p, m, e) /\ Keeps(u, p)
      /\ thread.at = "gone" /\ Len(results) <= Queue => p.pending = <<>> /\ ~p.open
      /\ thread.at # "gone" => p = u
  <2> HIDE DEF u
  <2> QED BY <1>0, <1>2, ObservedIs
<1>4. Keeps(o, p)
  <2> HIDE DEF u
  <2>1. Keeps(o, u)
    BY <1>1, <1>2, KeepsOn
  <2> QED BY <1>3, <2>1, KeepsOn
<1>5. ASSUME Flow(o.fence, o.pub.at, m, results, cmds, thread, adapter)
      PROVE  u.open = o.open /\ Flow(u.fence, u.pub.at, m, <<>>, cmds, thread, adapter)
  <2>t. /\ o.fence \in Nat /\ o.pub.at \in Nat /\ Len(results) \in Nat
        /\ adapter.fence \in Nat /\ adapter.from \in Nat /\ adapter.to \in Nat
    BY OwnersAre DEF Adapters
  <2>1. CASE t.fence = o.fence + 1 /\ t.pub.at = m
    <3>1. /\ Fenced(results, Len(results), t.fence) /\ t.fence \in Nat
          /\ Flow(t.fence, m, m, <<>>, cmds, thread, adapter)
      <4>1. t.fence \in Nat /\ o.fence < t.fence
        BY <2>t, <2>1
      <4>2. \A a, th, ad : ad.fence \in Nat /\ Flow(o.fence, a, m, results, cmds, th, ad)
              => Fenced(results, Len(results), t.fence) /\ Flow(t.fence, m, m, <<>>, cmds, th, ad)
        BY <2>t, <4>1, FlowAhead
      <4> QED BY <1>5, <2>t, <4>1, <4>2
    <3>2. Follow(results, Len(results), t.pub.at, m) /\ Len(results) \in 0 .. Len(results)
      BY <2>1, <2>t DEF Follow
    <3>3. u.fence = t.fence /\ u.open = t.open /\ u.pub.at = m
      BY <1>1, <3>1, <3>2, AnsweredFlow
    <3> QED BY <1>1, <3>1, <3>3
  <2>2. CASE t = o
    <3>1. PICK k \in 0 .. Len(results), j \in 0 .. Len(cmds), x \in Nat, y \in Nat :
            FlowAt(o.fence, o.pub.at, m, results, cmds, thread, adapter, k, j, x, y)
      BY <1>5 DEF Flow
    <3>f. Fenced(<<>>, 0, o.fence) /\ 0 \in 0 .. Len(<<>>)
      BY DEF Fenced
    <3>2. CASE adapter.fence = o.fence
      <4>1. /\ Fenced(results, k, o.fence) /\ Follow(results, k, o.pub.at, x)
            /\ Between(x, y, thread, adapter) /\ Follow(cmds, j, y, m)
        BY <3>1, <3>2 DEF FlowAt
      <4>2. y <= m
        BY <4>1, CommandsAre, FollowRuns
      <4>3. x <= adapter.from /\ adapter.from <= adapter.to /\ adapter.to <= y
        BY <2>t, <4>1 DEF Between
      <4>4. x <= m
        BY <2>t, <4>2, <4>3
      <4>5. u.fence = o.fence /\ u.open = o.open /\ u.pub.at = x
        BY <1>1, <2>2, <4>1, <4>4, AnsweredFlow
      <4>6. Follow(<<>>, 0, x, x)
        BY DEF Follow
      <4>7. FlowAt(o.fence, x, m, <<>>, cmds, thread, adapter, 0, j, x, y)
        BY <3>1, <3>2, <3>f, <4>1, <4>6 DEF FlowAt
      <4>8. Flow(o.fence, x, m, <<>>, cmds, thread, adapter)
        BY <3>f, <4>7 DEF Flow
      <4> QED BY <4>5, <4>8
    <3>3. CASE adapter.fence # o.fence
      <4>1. /\ Fenced(results, k, o.fence) /\ k = Len(results) /\ y = o.pub.at
            /\ Follow(cmds, j, y, m)
        BY <3>1, <3>3 DEF FlowAt
      <4>2. y <= m
        BY <4>1, CommandsAre, FollowRuns
      <4>3. Follow(results, k, o.pub.at, y)
        BY <2>t, <4>1 DEF Follow
      <4>5. u.fence = o.fence /\ u.open = o.open /\ u.pub.at = y
        BY <1>1, <2>2, <4>1, <4>2, <4>3, AnsweredFlow
      <4>7. FlowAt(o.fence, y, m, <<>>, cmds, thread, adapter, 0, j, x, y)
        BY <3>1, <3>3, <3>f, <4>1 DEF FlowAt
      <4>8. Flow(o.fence, y, m, <<>>, cmds, thread, adapter)
        BY <3>f, <4>7 DEF Flow
      <4> QED BY <4>5, <4>8
    <3> QED BY <3>2, <3>3
  <2> QED BY <1>1, <2>1, <2>2
<1> QED BY <1>3, <1>4, <1>5

-----------------------------------------------------------------------------
(* The owner's steps *)

LEMMA SeenIs ==
  ASSUME AecSeen
  PROVE  /\ AecTyped /\ Calls /\ Owner \in Owners /\ next \in Nat
         /\ pending \in Seq(Interval) /\ retained \in Nat /\ waiting \in Seq(Interval)
         /\ fence \in Nat /\ open \in BOOLEAN /\ pub \in [at : Nat, fits : BOOLEAN]
         /\ stopped \in BOOLEAN /\ failed \in BOOLEAN
         /\ plan \in Seq(Steps) /\ cmds \in Seq(Request) /\ results \in Seq(Answer)
         /\ thread \in Threads /\ adapter \in Adapters
         /\ Owner.pending = pending /\ Owner.retained = retained /\ Owner.waiting = waiting
         /\ Owner.fence = fence /\ Owner.open = open /\ Owner.pub = pub
<1>1. AecTyped /\ Calls /\ Owner \in Owners
  BY DEF AecSeen, AecTyped
<1>2. /\ Owner.pending = pending /\ Owner.retained = retained /\ Owner.waiting = waiting
      /\ Owner.fence = fence /\ Owner.open = open /\ Owner.pub = pub
  BY DEF Owner
<1>3. /\ pending \in Seq(Interval) /\ retained \in Nat /\ waiting \in Seq(Interval)
      /\ fence \in Nat /\ open \in BOOLEAN /\ pub \in [at : Nat, fits : BOOLEAN]
  BY <1>1, <1>2, OwnersAre
<1> QED BY <1>1, <1>2, <1>3 DEF AecTyped

LEMMA OwnerLater ==
  ASSUME NEW o \in Owners, Becomes(o)
  PROVE  Owner' = o
<1>1. o = [pending |-> o.pending, retained |-> o.retained, waiting |-> o.waiting,
           fence |-> o.fence, open |-> o.open, pub |-> o.pub]
  BY DEF Owners
<1>2. Owner' = [pending |-> pending', retained |-> retained', waiting |-> waiting',
                fence |-> fence', open |-> open', pub |-> pub']
  BY DEF Owner
<1> QED BY <1>1, <1>2 DEF Becomes

LEMMA BecomesOwner ==
  ASSUME UNCHANGED <<waiting, worker, pub>>
  PROVE  Becomes(Owner)
BY DEF Becomes, Owner, worker

(* What the sink, the boundary and the pipes must satisfy after a step of  *)
(* the owner that leaves no submission under way.                          *)
LEMMA OwnerStep ==
  ASSUME AecSeen, NEW o \in Owners, Becomes(o), NEW m \in Nat, next' \in Nat,
         Sound(o, m, next'), stopped' \in BOOLEAN, failed' \in BOOLEAN,
         plan' \in Seq(Steps), Quiet(plan') \/ (plan' = <<"wait">> /\ stopped'),
         cmds' \in Seq(Request), results' \in Seq(Answer), UNCHANGED <<thread, adapter>>,
         o.open \/ o.pending = <<>> \/ plan' = <<"wait">>,
         thread.at = "gone" /\ o.open => Len(results') <= Queue,
         failed' => o.pending = <<>> /\ o.waiting = <<>> /\ plan' = <<>>,
         thread.at # "gone" /\ ~stopped' /\ ~failed'
           => o.open /\ Flow(o.fence, o.pub.at, m, results', cmds', thread, adapter)
  PROVE  AecSeen'
<1>0. /\ Owner' = o /\ pending' = o.pending /\ waiting' = o.waiting /\ open' = o.open
      /\ fence' = o.fence /\ pub' = o.pub
  BY OwnerLater DEF Becomes
<1>1. AecTyped'
  <2>1. thread' \in Threads /\ adapter' \in Adapters
    BY SeenIs
  <2> QED BY <1>0, <2>1 DEF AecTyped
<1>2. Calls'
  <2>1. CASE Quiet(plan')
    <3>1. plan' # <<>> => /\ Quiet(Tail(plan')) /\ Head(plan') \notin Admits
                          /\ Head(plan') # "wait"
      <4> SUFFICES ASSUME plan' # <<>>
                   PROVE  /\ Quiet(Tail(plan')) /\ Head(plan') \notin Admits
                          /\ Head(plan') # "wait"
        OBVIOUS
      <4>1. Len(plan') \in Nat /\ Len(plan') >= 1 /\ Head(plan') = plan'[1]
        OBVIOUS
      <4>2. \A i \in 1 .. Len(Tail(plan')) : /\ Tail(plan')[i] = plan'[i + 1]
                                             /\ i + 1 \in 1 .. Len(plan')
        OBVIOUS
      <4> QED BY <2>1, <4>1, <4>2 DEF Quiet
    <3>2. ~Admitting'
      BY <3>1 DEF Admitting, Admits
    <3> QED BY <1>0, <3>1, <3>2 DEF Calls, Admits, Quiet
  <2>2. CASE plan' = <<"wait">> /\ stopped'
    <3>1. ~Admitting' /\ Tail(plan') = <<>> /\ Quiet(<<>>) /\ plan' # <<>>
      BY <2>2 DEF Admitting, Admits, Quiet
    <3> QED BY <1>0, <2>2, <3>1 DEF Calls, Admits, Quiet
  <2> QED BY <2>1, <2>2
<1>3. Sound(Owner', m, next')
  BY <1>0
<1>4. Live' => open' /\ Flow(fence', pub'.at, m, results', cmds', thread', adapter')
  BY <1>0 DEF Live
<1> QED BY <1>1, <1>2, <1>3, <1>4 DEF AecSeen

LEMMA SeenFlow ==
  ASSUME AecSeen
  PROVE  \E m \in Nat : /\ Sound(Owner, m, next)
                        /\ Live => open /\ Flow(fence, pub.at, m, results, cmds, thread, adapter)
BY DEF AecSeen

(* Plans put together of quiet steps are quiet.                            *)
LEMMA QuietJoin ==
  ASSUME NEW p \in Seq(Steps), NEW q \in Seq(Steps), Quiet(p), Quiet(q)
  PROVE  p \o q \in Seq(Steps) /\ Quiet(p \o q)
<1>1. /\ p \o q \in Seq(Steps) /\ Len(p) \in Nat /\ Len(q) \in Nat
      /\ Len(p \o q) = Len(p) + Len(q)
  OBVIOUS
<1>2. \A i \in 1 .. Len(p) + Len(q) :
        \/ i \in 1 .. Len(p) /\ (p \o q)[i] = p[i]
        \/ i - Len(p) \in 1 .. Len(q) /\ (p \o q)[i] = q[i - Len(p)]
  BY <1>1
<1> QED BY <1>1, <1>2 DEF Quiet

LEMMA QuietPlans ==
  /\ <<>> \in Seq(Steps) /\ Quiet(<<>>)
  /\ <<"force">> \in Seq(Steps) /\ Quiet(<<"force">>)
  /\ <<"over">> \in Seq(Steps) /\ Quiet(<<"over">>)
  /\ <<"poll", "drain">> \in Seq(Steps) /\ Quiet(<<"poll", "drain">>)
  /\ <<"force", "close">> \in Seq(Steps) /\ Quiet(<<"force", "close">>)
  /\ <<"enqueue", "poll", "drain">> \in Seq(Steps)
  /\ Quiet(<<"enqueue", "poll", "drain">>)
<1> DEFINE force == "force"
           over == "over"
           poll == "poll"
           drain == "drain"
           close == "close"
           enqueue == "enqueue"
           Calm == Steps \ (Admits \cup {"wait"})
<1>2. /\ force \in Calm /\ over \in Calm /\ poll \in Calm
      /\ drain \in Calm /\ close \in Calm /\ enqueue \in Calm
  BY DEF Steps, Admits
<1>3. Quiet(<<>>) /\ <<>> \in Seq(Steps)
  BY DEF Quiet
<1> SUFFICES /\ <<force>> \in Seq(Steps) /\ Quiet(<<force>>)
             /\ <<over>> \in Seq(Steps) /\ Quiet(<<over>>)
             /\ <<poll, drain>> \in Seq(Steps) /\ Quiet(<<poll, drain>>)
             /\ <<force, close>> \in Seq(Steps) /\ Quiet(<<force, close>>)
             /\ <<enqueue, poll, drain>> \in Seq(Steps) /\ Quiet(<<enqueue, poll, drain>>)
  BY <1>3
<1> HIDE DEF force, over, poll, drain, close, enqueue
<1>4. ASSUME NEW a \in Calm, NEW b \in Calm, NEW c \in Calm
      PROVE  /\ <<a>> \in Seq(Steps) /\ Quiet(<<a>>)
             /\ <<a, b>> \in Seq(Steps) /\ Quiet(<<a, b>>)
             /\ <<a, b, c>> \in Seq(Steps) /\ Quiet(<<a, b, c>>)
  <2>1. <<a>> \in Seq(Steps) /\ <<a, b>> \in Seq(Steps) /\ <<a, b, c>> \in Seq(Steps)
    OBVIOUS
  <2>2. Quiet(<<a>>)
    BY DEF Quiet
  <2>3. Quiet(<<a, b>>)
    <3>1. \A i \in 1 .. Len(<<a, b>>) : i = 1 \/ i = 2
      OBVIOUS
    <3> QED BY <3>1 DEF Quiet
  <2>4. Quiet(<<a, b, c>>)
    <3>1. \A i \in 1 .. Len(<<a, b, c>>) : i = 1 \/ i = 2 \/ i = 3
      OBVIOUS
    <3> QED BY <3>1 DEF Quiet
  <2> QED BY <2>1, <2>2, <2>3, <2>4
<1> HIDE DEF Calm
<1> QED BY <1>2, <1>4

(* A plan loses its first step.                                            *)
LEMMA PlanTail ==
  ASSUME AecSeen, plan # <<>>
  PROVE  Tail(plan) \in Seq(Steps) /\ Quiet(Tail(plan)) /\ ~failed
<1>1. plan \in Seq(Steps) /\ Calls
  BY SeenIs
<1> QED BY <1>1 DEF Calls

(* Steps that only change what the call under way has left to do.          *)
LEMMA PlanStep ==
  ASSUME AecSeen, UNCHANGED <<next, waiting, worker, stopped, failed, cmds, results, native, pub>>,
         plan' \in Seq(Steps), Quiet(plan'), ~failed, plan = <<>> \/ Head(plan) # "wait"
  PROVE  AecSeen'
<1>1. PICK m \in Nat : /\ Sound(Owner, m, next)
                       /\ Live => open /\ Flow(fence, pub.at, m, results, cmds, thread, adapter)
  BY SeenFlow
<1>2. Becomes(Owner) /\ UNCHANGED <<thread, adapter>>
  BY BecomesOwner DEF native
<1>3. open \/ pending = <<>>
  <2>1. plan # <<"wait">>
    OBVIOUS
  <2> QED BY <2>1, SeenIs DEF Calls
<1>4. thread.at = "gone" /\ open => Len(results) <= Queue
  BY SeenIs DEF Calls
<1> QED BY <1>1, <1>2, <1>3, <1>4, SeenIs, OwnerStep DEF Live

LEMMA StepWriteMic ==
  ASSUME AecSeen, WriteMic PROVE AecSeen'
<1> DEFINE q == <<"enqueue", "poll", "drain">>
           r == IF Len(waiting) * Block + Block > WaitCap THEN <<"force">> ELSE <<>>
<1>1. q \in Seq(Steps) /\ Quiet(q)
  BY QuietPlans
<1>2. r \in Seq(Steps) /\ Quiet(r)
  BY QuietPlans
<1>3. /\ UNCHANGED <<next, waiting, worker, stopped, failed, cmds, results, native, pub>>
      /\ plan' = r \o q /\ plan = <<>> /\ ~failed
  BY DEF WriteMic, Free
<1> HIDE DEF q, r
<1>4. r \o q \in Seq(Steps) /\ Quiet(r \o q)
  BY <1>1, <1>2, QuietJoin
<1> QED BY <1>3, <1>4, PlanStep

LEMMA StepPollCall ==
  ASSUME AecSeen, PollCall PROVE AecSeen'
<1>1. <<"poll", "drain">> \in Seq(Steps) /\ Quiet(<<"poll", "drain">>)
  BY QuietPlans
<1>2. /\ UNCHANGED <<next, waiting, worker, stopped, failed, cmds, results, native, pub>>
      /\ plan' = <<"poll", "drain">> /\ plan = <<>> /\ ~failed
  BY DEF PollCall, Free
<1> QED BY <1>1, <1>2, PlanStep

LEMMA StepDrainStops ==
  ASSUME AecSeen, DrainStops PROVE AecSeen'
<1>1. /\ UNCHANGED <<next, waiting, worker, stopped, failed, cmds, results, native, pub>>
      /\ plan' = Tail(plan) /\ plan # <<>> /\ Head(plan) # "wait"
  BY DEF DrainStops, Draining
<1> QED BY <1>1, PlanTail, PlanStep

LEMMA StepAdmitLater ==
  ASSUME AecSeen, AdmitLater PROVE AecSeen'
<1>1. /\ UNCHANGED <<next, waiting, worker, stopped, failed, cmds, results, native, pub>>
      /\ plan' = Tail(Tail(plan)) /\ plan # <<>> /\ Head(plan) # "wait" /\ Admitting
  BY DEF AdmitLater, Admitting, Admits
<1> DEFINE q == Tail(plan)
<1>2. q \in Seq(Steps) /\ Quiet(q) /\ ~failed
  BY <1>1, PlanTail
<1>3. q # <<>>
  <2>1. Len(plan) >= 2 /\ plan \in Seq(Steps)
    BY <1>1, SeenIs DEF Calls
  <2>2. Len(q) = Len(plan) - 1 /\ Len(plan) \in Nat
    BY <1>1, <2>1
  <2> HIDE DEF q
  <2> QED BY <1>2, <2>1, <2>2
<1> HIDE DEF q
<1>4. Tail(q) \in Seq(Steps) /\ Quiet(Tail(q))
  <2>1. Tail(q) \in Seq(Steps)
    BY <1>2, <1>3
  <2>2. \A i \in 1 .. Len(Tail(q)) : Tail(q)[i] = q[i + 1] /\ i + 1 \in 1 .. Len(q)
    BY <1>2, <1>3
  <2> QED BY <1>2, <2>1, <2>2 DEF Quiet
<1> QED BY <1>1, <1>2, <1>4, PlanStep DEF q

LEMMA StepFinish ==
  ASSUME AecSeen, Finish PROVE AecSeen'
<1>0. /\ UNCHANGED <<next, waiting, worker, failed, cmds, results, native, pub>> /\ plan = <<>>
  BY DEF Finish
<1>1. CASE failed
  <2>1. stopped' = TRUE /\ plan' = <<>>
    BY <1>0, <1>1 DEF Finish
  <2>2. PICK m \in Nat : Sound(Owner, m, next)
    BY SeenFlow
  <2>3. Becomes(Owner) /\ UNCHANGED <<thread, adapter>>
    BY <1>0, BecomesOwner DEF native
  <2>4. /\ pending = <<>> /\ waiting = <<>>
        /\ thread.at = "gone" /\ open => Len(results) <= Queue
    BY <1>1, SeenIs DEF Calls
  <2>5. Quiet(<<>>) /\ <<>> \in Seq(Steps)
    BY DEF Quiet
  <2> QED BY <1>0, <2>1, <2>2, <2>3, <2>4, <2>5, SeenIs, OwnerStep
<1>2. CASE ~failed
  <2>1. UNCHANGED stopped /\ plan' = <<"force", "close">>
    BY <1>0, <1>2 DEF Finish
  <2>2. <<"force", "close">> \in Seq(Steps) /\ Quiet(<<"force", "close">>)
    BY QuietPlans
  <2> QED BY <1>0, <1>2, <2>1, <2>2, PlanStep
<1> QED BY <1>1, <1>2

(* write_mic after processing was given up.                                *)
LEMMA StepWriteRaw ==
  ASSUME AecSeen, WriteRaw PROVE AecSeen'
<1> DEFINE r == [from |-> next, to |-> next + Block]
           p == Published(pub, <<r>>)
           o == [Owner EXCEPT !.pub = p]
<1>b. Block \in Nat /\ Block > 0
  BY AecBounds
<1>0. /\ failed /\ plan = <<>> /\ next' = next + Block /\ pub' = p
      /\ UNCHANGED <<waiting, worker, stopped, failed, plan, cmds, results, native>>
  BY DEF WriteRaw
<1>1. /\ pending = <<>> /\ waiting = <<>>
      /\ thread.at = "gone" /\ open => Len(results) <= Queue
  BY <1>0, SeenIs DEF Calls
<1>2. pub.fits /\ pub.at = next /\ retained = 0
  <2>1. PICK m \in Nat : Sound(Owner, m, next)
    BY SeenFlow
  <2>2. pub.fits /\ Tiled(<<>>, pub.at, m) /\ Tiled(<<>>, m, next) /\ retained = m - pub.at
    BY <1>1, <2>1, SeenIs DEF Sound, Front
  <2>3. pub.at = m /\ m = next
    BY <2>2 DEF Tiled
  <2> QED BY <2>2, <2>3
<1>3. p \in [at : Nat, fits : BOOLEAN] /\ p.fits /\ p.at = next + Block
  <2>1. <<r>> \in Seq(Interval)
    BY <1>b, SeenIs DEF Interval
  <2>2. Tiled(<<r>>, pub.at, next + Block)
    BY <1>b, <1>2, SeenIs DEF Tiled
  <2>3. next + Block \in Nat /\ pub \in [at : Nat, fits : BOOLEAN]
    BY <1>b, SeenIs
  <2> HIDE DEF r
  <2> QED BY <1>2, <2>1, <2>2, <2>3, PublishTiled
<1> HIDE DEF p
<1>4. /\ o \in Owners /\ o.pending = <<>> /\ o.waiting = <<>> /\ o.retained = 0 /\ o.pub = p
      /\ o.open = open /\ o.fence = fence
  <2>1. \A q \in Owners : LET z == [q EXCEPT !.pub = p] IN
          /\ z \in Owners /\ z.pending = q.pending /\ z.waiting = q.waiting
          /\ z.retained = q.retained /\ z.pub = p /\ z.open = q.open /\ z.fence = q.fence
    BY <1>3 DEF Owners
  <2> QED BY <1>1, <1>2, <2>1, SeenIs
<1>5. Becomes(o)
  <2> HIDE DEF o
  <2> QED BY <1>0, <1>1, <1>2, <1>4 DEF Becomes, worker
<1> HIDE DEF o
<1>6. Sound(o, next + Block, next + Block) /\ next + Block \in Nat
  <2>1. (next + Block) - (next + Block) = 0 /\ next + Block \in Nat
    BY <1>b, SeenIs
  <2>2. Tiled(<<>>, next + Block, next + Block)
    BY TiledNone
  <2> QED BY <1>3, <1>4, <2>1, <2>2 DEF Sound, Front
<1>7. UNCHANGED <<thread, adapter>>
  BY <1>0 DEF native
<1> QED BY <1>0, <1>1, <1>4, <1>5, <1>6, <1>7, QuietPlans, SeenIs, OwnerStep

(* push_mic keeps the block until it can be submitted.                     *)
LEMMA StepEnqueue ==
  ASSUME AecSeen, Enqueue PROVE AecSeen'
<1> DEFINE r == [from |-> next, to |-> next + Block]
           w == Append(waiting, r)
           o == [Owner EXCEPT !.waiting = w]
<1>b. Block \in Nat /\ Block > 0
  BY AecBounds
<1>0. /\ plan # <<>> /\ Head(plan) = "enqueue" /\ next' = next + Block /\ waiting' = w
      /\ plan' = Tail(plan)
      /\ UNCHANGED <<worker, stopped, failed, cmds, results, native, pub>>
  BY DEF Enqueue
<1>1. PICK m \in Nat : /\ Sound(Owner, m, next)
                       /\ Live => open /\ Flow(fence, pub.at, m, results, cmds, thread, adapter)
  BY SeenFlow
<1>2. w \in Seq(Interval) /\ Tiled(w, m, next + Block)
  <2>1. r \in Interval /\ r.from = next /\ r.to = next + Block /\ r.to \in Nat /\ r.from < r.to
    BY <1>b, SeenIs DEF Interval
  <2>2. Tiled(waiting, m, next)
    BY <1>1, SeenIs DEF Sound
  <2> HIDE DEF r
  <2>3. waiting \in Seq(Interval)
    BY SeenIs
  <2>4. \A i \in 1 .. Len(waiting) : waiting[i].from \in Nat /\ waiting[i].to \in Nat
    BY <2>3, IntervalsAre
  <2>5. Tiled(Append(waiting, r), m, r.to)
    BY <1>1, <2>1, <2>2, <2>3, <2>4, SeenIs, TiledAppend
  <2> QED BY <2>1, <2>3, <2>5
<1> HIDE DEF w
<1>4. /\ o \in Owners /\ o.pending = pending /\ o.waiting = w /\ o.retained = retained
      /\ o.pub = pub /\ o.open = open /\ o.fence = fence
  <2>1. \A q \in Owners : LET z == [q EXCEPT !.waiting = w] IN
          /\ z \in Owners /\ z.pending = q.pending /\ z.waiting = w
          /\ z.retained = q.retained /\ z.pub = q.pub /\ z.open = q.open /\ z.fence = q.fence
    BY <1>2 DEF Owners
  <2> QED BY <2>1, SeenIs
<1> HIDE DEF o
<1>5. Becomes(o)
  BY <1>0, <1>4 DEF Becomes, worker
<1>6. Sound(o, m, next + Block) /\ next + Block \in Nat
  BY <1>1, <1>2, <1>4, <1>b, SeenIs DEF Sound, Front
<1>7. UNCHANGED <<thread, adapter>>
  BY <1>0 DEF native
<1>8. /\ open \/ pending = <<>>
      /\ thread.at = "gone" /\ open => Len(results) <= Queue
  <2>1. plan # <<"wait">>
    BY <1>0
  <2> QED BY <2>1, SeenIs DEF Calls
<1>9. Tail(plan) \in Seq(Steps) /\ Quiet(Tail(plan)) /\ ~failed
  BY <1>0, PlanTail
<1> QED BY <1>0, <1>1, <1>4, <1>5, <1>6, <1>7, <1>8, <1>9, SeenIs, OwnerStep DEF Live

(* The steps that poll the worker.                                         *)
LEMMA PollStepIs ==
  ASSUME AecSeen, NEW late \in BOOLEAN, NEW o, o = WorkerPoll(Owner, late)
  PROVE  /\ o \in Owners /\ Keeps(Owner, o)
         /\ thread.at = "gone" => ~o.open
         /\ \E m \in Nat :
              /\ Sound(o, m, next)
              /\ Live => o.open /\ Flow(o.fence, o.pub.at, m, <<>>, cmds, thread, adapter)
<1>1. PICK m \in Nat : /\ Sound(Owner, m, next)
                       /\ Live => open /\ Flow(fence, pub.at, m, results, cmds, thread, adapter)
  BY SeenFlow
<1>2. /\ o \in Owners /\ Sound(o, m, next) /\ Keeps(Owner, o)
      /\ thread.at = "gone" /\ Len(results) <= Queue => o.pending = <<>> /\ ~o.open
      /\ thread.at # "gone" /\ Flow(Owner.fence, Owner.pub.at, m, results, cmds, thread, adapter)
           => /\ o.open = Owner.open
              /\ Flow(o.fence, o.pub.at, m, <<>>, cmds, thread, adapter)
  BY <1>1, SeenIs, WorkerPollIs
<1>3. thread.at = "gone" => ~o.open
  <2>1. open => Len(results) <= Queue \/ thread.at # "gone"
    BY SeenIs DEF Calls
  <2>2. ~open => ~o.open
    BY <1>2, SeenIs DEF Keeps
  <2> QED BY <1>2, <2>1, <2>2
<1>4. Live => o.open /\ Flow(o.fence, o.pub.at, m, <<>>, cmds, thread, adapter)
  BY <1>1, <1>2, SeenIs DEF Live
<1> QED BY <1>2, <1>3, <1>4

LEMMA PollAndPlan ==
  ASSUME AecSeen, NEW late \in BOOLEAN, Becomes(WorkerPoll(Owner, late)), results' = <<>>,
         UNCHANGED <<next, stopped, failed, cmds, native>>, ~failed,
         plan' \in Seq(Steps),
         (Quiet(plan') /\ (plan = <<>> \/ Head(plan) # "wait")) \/ (plan' = <<"wait">> /\ stopped)
  PROVE  AecSeen'
<1> DEFINE o == WorkerPoll(Owner, late)
<1>1. o \in Owners /\ Keeps(Owner, o) /\ (thread.at = "gone" => ~o.open)
  BY PollStepIs, SeenIs DEF Keeps
<1>2. PICK m \in Nat :
        /\ Sound(o, m, next)
        /\ Live => o.open /\ Flow(o.fence, o.pub.at, m, <<>>, cmds, thread, adapter)
  BY PollStepIs
<1>3. Becomes(o) /\ UNCHANGED <<thread, adapter>> /\ <<>> \in Seq(Answer)
  BY DEF native
<1> HIDE DEF o
<1>4. o.open \/ o.pending = <<>> \/ plan' = <<"wait">>
  <2>1. CASE plan' = <<"wait">>
    BY <2>1
  <2>2. CASE plan' # <<"wait">>
    <3>1. plan # <<"wait">>
      BY <2>2
    <3>2. open \/ pending = <<>>
      BY <3>1, SeenIs DEF Calls
    <3> QED BY <1>1, <3>2, SeenIs DEF Keeps
  <2> QED BY <2>1, <2>2
<1> QED BY <1>1, <1>2, <1>3, <1>4, SeenIs, OwnerStep DEF Live

LEMMA StepPollStep ==
  ASSUME AecSeen, PollStep PROVE AecSeen'
<1>1. PICK late \in BOOLEAN : Becomes(WorkerPoll(Owner, late))
  BY DEF PollStep
<1>2. /\ plan # <<>> /\ Head(plan) # "wait" /\ results' = <<>> /\ plan' = Tail(plan)
      /\ UNCHANGED <<next, stopped, failed, cmds, native>>
  BY DEF PollStep
<1> QED BY <1>1, <1>2, PlanTail, PollAndPlan

LEMMA StepWaitPolls ==
  ASSUME AecSeen, WaitPolls PROVE AecSeen'
<1>1. PICK late \in BOOLEAN : Becomes(WorkerPoll(Owner, late))
  BY DEF WaitPolls
<1>2. /\ plan = <<"wait">> /\ results' = <<>> /\ plan' = plan
      /\ UNCHANGED <<next, stopped, failed, cmds, native>>
  BY DEF WaitPolls
<1>3. plan # <<>> /\ Head(plan) = "wait"
  BY <1>2
<1>4. stopped /\ plan \in Seq(Steps) /\ ~failed
  BY <1>3, SeenIs, PlanTail DEF Calls
<1> QED BY <1>1, <1>2, <1>4, PollAndPlan

(* The poll inside a submission: the block is there, and the thread was    *)
(* seen not to be gone, or the boundary is empty.                          *)
LEMMA StepDrainNext ==
  ASSUME AecSeen, DrainNext PROVE AecSeen'
<1>1. PICK late \in BOOLEAN : Becomes(WorkerPoll(Owner, late))
  BY DEF DrainNext
<1>2. PICK s \in Admits : plan' = <<s>> \o plan
  <2>1. PICK must \in BOOLEAN, aligned \in BOOLEAN :
          plan' = <<IF must THEN (IF aligned THEN "submitAligned" ELSE "submitAlone")
                    ELSE "try">> \o plan
    BY DEF DrainNext
  <2>2. (IF must THEN (IF aligned THEN "submitAligned" ELSE "submitAlone") ELSE "try") \in Admits
    BY DEF Admits
  <2> QED BY <2>1, <2>2
<1>3. /\ plan # <<>> /\ Head(plan) \in {"drain", "force"} /\ waiting # <<>> /\ results' = <<>>
      /\ UNCHANGED <<next, stopped, failed, cmds, native>>
  BY DEF DrainNext, Draining
<1> DEFINE o == WorkerPoll(Owner, late)
<1>4. o \in Owners /\ Keeps(Owner, o) /\ (thread.at = "gone" => ~o.open)
  BY PollStepIs, SeenIs DEF Keeps
<1>5. PICK m \in Nat :
        /\ Sound(o, m, next)
        /\ Live => o.open /\ Flow(o.fence, o.pub.at, m, <<>>, cmds, thread, adapter)
  BY PollStepIs
<1>6. Becomes(o) /\ UNCHANGED <<thread, adapter>> /\ <<>> \in Seq(Answer)
  BY <1>1, <1>3 DEF native
<1> HIDE DEF o
<1>7. /\ Owner' = o /\ pending' = o.pending /\ waiting' = o.waiting /\ open' = o.open
      /\ fence' = o.fence /\ pub' = o.pub
  BY <1>4, <1>6, OwnerLater DEF Becomes
<1>8. plan \in Seq(Steps) /\ Quiet(plan) /\ ~failed /\ plan # <<"wait">>
  <2>1. plan \in Seq(Steps) /\ Quiet(Tail(plan)) /\ ~failed
    BY <1>3, SeenIs, PlanTail
  <2>2. Head(plan) \notin Admits \cup {"wait"}
    BY <1>3 DEF Admits
  <2>3. \A i \in 1 .. Len(plan) : \/ i = 1 /\ plan[i] = Head(plan)
                                  \/ i - 1 \in 1 .. Len(Tail(plan)) /\ plan[i] = Tail(plan)[i - 1]
    BY <1>3, <2>1
  <2> QED BY <1>3, <2>1, <2>2, <2>3 DEF Quiet
<1>9. /\ plan' \in Seq(Steps) /\ plan' # <<>> /\ Head(plan') = s /\ Tail(plan') = plan
      /\ Len(plan') >= 2
  <2>1. s \in Steps
    BY DEF Steps
  <2>2. \A q \in Seq(Steps) : q # <<>> =>
          /\ <<s>> \o q \in Seq(Steps) /\ <<s>> \o q # <<>> /\ Head(<<s>> \o q) = s
          /\ Tail(<<s>> \o q) = q /\ Len(<<s>> \o q) >= 2
    BY <2>1
  <2> QED BY <1>2, <1>3, <1>8, <2>2
<1>10. Calls'
  <2>1. open \/ pending = <<>>
    BY <1>8, SeenIs DEF Calls
  <2>2. o.open \/ o.pending = <<>>
    BY <1>4, <2>1, SeenIs DEF Keeps
  <2>3. o.waiting = waiting
    BY <1>4, SeenIs DEF Keeps
  <2>4. s # "wait"
    BY DEF Admits
  <2> QED BY <1>3, <1>4, <1>6, <1>7, <1>8, <1>9, <2>2, <2>3, <2>4 DEF Calls
<1>11. AecTyped'
  BY <1>3, <1>4, <1>6, <1>7, <1>9, SeenIs DEF AecTyped
<1>12. Sound(Owner', m, next')
  BY <1>3, <1>5, <1>7
<1>13. Live' => open' /\ Flow(fence', pub'.at, m, results', cmds', thread', adapter')
  BY <1>3, <1>5, <1>6, <1>7 DEF Live
<1> QED BY <1>10, <1>11, <1>12, <1>13 DEF AecSeen

(* cancel, invalidate and reconfigure publish the boundary's originals and *)
(* then the waiting ones.                                                  *)
LEMMA ReleaseIs ==
  ASSUME NEW o \in Owners, NEW m \in Nat, NEW e \in Nat, Sound(o, m, e)
  PROVE  /\ Release(o) \in Owners /\ Sound(Release(o), e, e)
         /\ Release(o).pending = <<>> /\ Release(o).waiting = <<>>
         /\ Release(o).fence = o.fence + 1 /\ Release(o).open = o.open
         /\ Release(o).pub.at = e
<1> DEFINE f == Fallback(o)
           p == Published(f.pub, o.waiting)
           t == [f EXCEPT !.pub = p, !.waiting = <<>>]
<1>0. /\ f \in Owners /\ f.pending = <<>> /\ f.retained = 0 /\ f.fence = o.fence + 1
      /\ f.open = o.open /\ f.pub.at = m /\ Front(f, m)
  BY FallbackIs DEF Sound
<1>1. f.pub \in [at : Nat, fits : BOOLEAN] /\ o.waiting \in Seq(Interval)
  <2> HIDE DEF f
  <2> QED BY <1>0, OwnersAre
<1>2. Release(o) = t
  BY DEF Release
<1> HIDE DEF f
<1>3. p \in [at : Nat, fits : BOOLEAN] /\ p.fits /\ p.at = e
  BY <1>0, <1>1, PublishTiled DEF Sound, Front
<1> HIDE DEF p
<1>4. <<>> \in Seq(Interval)
  OBVIOUS
<1>5. /\ t \in Owners /\ t.pending = <<>> /\ t.retained = 0 /\ t.fence = o.fence + 1
      /\ t.open = o.open /\ t.waiting = <<>> /\ t.pub = p
  BY <1>0, <1>3, <1>4 DEF Owners
<1> HIDE DEF t
<1>6. Sound(t, e, e)
  <2>1. Tiled(<<>>, e, e) /\ e - e = 0
    BY TiledNone
  <2> QED BY <1>3, <1>5, <2>1 DEF Sound, Front
<1> QED BY <1>2, <1>3, <1>5, <1>6

LEMMA StepNewRoute ==
  ASSUME AecSeen, NewRoute PROVE AecSeen'
<1> DEFINE o == Release(Owner)
<1>0. /\ plan = <<>> /\ plan' = <<>> /\ ~failed /\ Becomes(o)
      /\ UNCHANGED <<next, stopped, failed, cmds, results, thread, adapter>>
  BY DEF NewRoute, Free, native
<1>1. PICK m \in Nat : /\ Sound(Owner, m, next)
                       /\ Live => open /\ Flow(fence, pub.at, m, results, cmds, thread, adapter)
  BY SeenFlow
<1>2. /\ o \in Owners /\ Sound(o, next, next) /\ o.pending = <<>> /\ o.fence = fence + 1
      /\ o.open = open /\ o.pub.at = next
  BY <1>1, SeenIs, ReleaseIs
<1> HIDE DEF o
<1>3. Live => o.open /\ Flow(o.fence, o.pub.at, next, results, cmds, thread, adapter)
  <2> SUFFICES ASSUME Live
               PROVE  o.open /\ Flow(o.fence, o.pub.at, next, results, cmds, thread, adapter)
    OBVIOUS
  <2>1. /\ fence \in Nat /\ fence + 1 \in Nat /\ fence < fence + 1 /\ next \in Nat
        /\ adapter.fence \in Nat /\ results \in Seq(Answer) /\ cmds \in Seq(Request)
    BY SeenIs DEF Adapters
  <2>2. \A a, th, ad : ad.fence \in Nat /\ Flow(fence, a, m, results, cmds, th, ad)
          => Flow(fence + 1, next, next, results, cmds, th, ad)
    BY <2>1, FlowAhead
  <2> QED BY <1>1, <1>2, <2>1, <2>2
<1>4. thread.at = "gone" /\ open => Len(results) <= Queue
  BY SeenIs DEF Calls
<1> QED BY <1>0, <1>2, <1>3, <1>4, QuietPlans, SeenIs, OwnerStep DEF Live

(* Giving processing up leaves nothing behind.                             *)
LEMMA GivenUp ==
  ASSUME AecSeen, NEW o, o = [Release(Owner) EXCEPT !.open = FALSE]
  PROVE  /\ o \in Owners /\ Sound(o, next, next) /\ o.pending = <<>> /\ o.waiting = <<>>
         /\ o.open = FALSE
<1> DEFINE r == Release(Owner)
<1>1. PICK m \in Nat : Sound(Owner, m, next)
  BY SeenFlow
<1>2. r \in Owners /\ Sound(r, next, next) /\ r.pending = <<>> /\ r.waiting = <<>>
  BY <1>1, SeenIs, ReleaseIs
<1> HIDE DEF r
<1>3. o = [r EXCEPT !.open = FALSE]
  BY DEF r
<1>4. /\ o \in Owners /\ o.open = FALSE /\ o.pending = r.pending /\ o.waiting = r.waiting
      /\ o.pub = r.pub /\ o.retained = r.retained
  BY <1>2, <1>3, ShutIs
<1>5. Sound(o, next, next)
  BY <1>2, <1>4 DEF Sound, Front
<1> QED BY <1>2, <1>4, <1>5

LEMMA StepFail ==
  ASSUME AecSeen, Fail PROVE AecSeen'
<1> DEFINE o == [Release(Owner) EXCEPT !.open = FALSE]
<1>0. /\ plan = <<>> /\ plan' = <<>> /\ failed' = TRUE /\ Becomes(o)
      /\ UNCHANGED <<next, stopped, cmds, results, thread, adapter>>
  BY DEF Fail, Free, native
<1>1. /\ o \in Owners /\ Sound(o, next, next) /\ o.pending = <<>> /\ o.waiting = <<>>
      /\ o.open = FALSE
  BY GivenUp
<1> HIDE DEF o
<1> QED BY <1>0, <1>1, QuietPlans, SeenIs, OwnerStep

LEMMA StepWaitEnds ==
  ASSUME AecSeen, WaitEnds PROVE AecSeen'
<1>0. /\ plan = <<"wait">> /\ plan' = <<"over">>
      /\ UNCHANGED <<next, stopped, failed, cmds, results, thread, adapter>>
  BY DEF WaitEnds, native
<1>s. stopped /\ ~failed
  <2>1. plan # <<>> /\ Head(plan) = "wait"
    BY <1>0
  <2> QED BY <2>1, SeenIs DEF Calls
<1>1. CASE Drained
  <2>1. Becomes(Owner) /\ pending = <<>>
    BY <1>1 DEF WaitEnds, Drained
  <2>2. PICK m \in Nat : Sound(Owner, m, next)
    BY SeenFlow
  <2>3. thread.at = "gone" /\ open => Len(results) <= Queue
    BY SeenIs DEF Calls
  <2> QED BY <1>0, <1>s, <2>1, <2>2, <2>3, QuietPlans, SeenIs, OwnerStep
<1>2. CASE ~Drained
  <2> DEFINE o == [Release(Owner) EXCEPT !.open = FALSE]
  <2>1. Becomes(o)
    BY <1>2 DEF WaitEnds, TimeUp
  <2>2. /\ o \in Owners /\ Sound(o, next, next) /\ o.pending = <<>> /\ o.open = FALSE
    BY GivenUp
  <2> HIDE DEF o
  <2> QED BY <1>0, <1>s, <2>1, <2>2, QuietPlans, SeenIs, OwnerStep
<1> QED BY <1>1, <1>2

(* finish asks for the tail, or publishes everything when it cannot.       *)
LEMMA StepCloseQueue ==
  ASSUME AecSeen, CloseQueue PROVE AecSeen'
<1>0. /\ plan # <<>> /\ plan' = <<"wait">> /\ stopped' = TRUE /\ results' = <<>>
      /\ UNCHANGED <<next, failed, thread, adapter>>
  BY DEF CloseQueue, native
<1>1. PICK late \in BOOLEAN :
        LET o == WorkerPoll(Owner, late)
            sent == o.open /\ thread.at # "gone" /\ Len(cmds) < Queue IN
          /\ Becomes([(IF o.open /\ ~sent THEN Fallback(o) ELSE o) EXCEPT !.open = FALSE])
          /\ cmds' = IF sent THEN Append(cmds, [NoJob EXCEPT !.last = TRUE]) ELSE cmds
  BY DEF CloseQueue
<1> DEFINE o == WorkerPoll(Owner, late)
           sent == o.open /\ thread.at # "gone" /\ Len(cmds) < Queue
           q == IF o.open /\ ~sent THEN Fallback(o) ELSE o
           t == [q EXCEPT !.open = FALSE]
<1>2. Becomes(t) /\ cmds' = IF sent THEN Append(cmds, [NoJob EXCEPT !.last = TRUE]) ELSE cmds
  BY <1>1
<1>3. cmds' \in Seq(Request)
  <2>1. [NoJob EXCEPT !.last = TRUE] \in Request
    BY DEF NoJob, Request
  <2>2. cmds' = Append(cmds, [NoJob EXCEPT !.last = TRUE]) \/ cmds' = cmds
    BY <1>2
  <2>3. cmds \in Seq(Request)
    BY SeenIs
  <2> QED BY <2>1, <2>2, <2>3
<1>4. o \in Owners /\ \E m \in Nat : Sound(o, m, next)
  BY PollStepIs
<1>5. PICK m \in Nat : Sound(o, m, next)
  BY <1>4
<1> HIDE DEF o, sent
<1>6. q \in Owners /\ Sound(q, m, next)
  BY <1>4, <1>5, SeenIs, FallbackIs
<1> HIDE DEF q
<1>7. t \in Owners /\ Sound(t, m, next) /\ t.open = FALSE
  BY <1>6, ShutIs
<1> HIDE DEF t
<1>8. ~failed /\ <<"wait">> \in Seq(Steps) /\ <<>> \in Seq(Answer)
  <2>1. "wait" \in Steps
    BY DEF Steps
  <2>2. \A a \in Steps : <<a>> \in Seq(Steps)
    OBVIOUS
  <2>3. ~failed
    BY <1>0, PlanTail
  <2> DEFINE w == "wait"
  <2> SUFFICES <<w>> \in Seq(Steps)
    BY <2>3
  <2>4. w \in Steps
    BY <2>1
  <2> HIDE DEF w
  <2> QED BY <2>2, <2>4
<1> QED BY <1>0, <1>2, <1>3, <1>7, <1>8, SeenIs, OwnerStep

(* submit_inner: the front block leaves the coordinator.                   *)
LEMMA RoomIs ==
  ASSUME AecSeen, Admitting, NEW m \in Nat, Sound(Owner, m, next)
  PROVE  /\ Room \in Owners /\ Front(Room, m) /\ Room.waiting = Tail(waiting)
         /\ Room.open = open /\ Head(waiting) \in Interval
         /\ Head(waiting).from = m /\ Head(waiting).to \in Nat /\ m < Head(waiting).to
         /\ Tiled(Tail(waiting), Head(waiting).to, next)
         /\ pending = <<>> => Room.pending = <<>>
         /\ \/ Room.fence = fence /\ Room.pub = pub
            \/ Room.fence = fence + 1 /\ Room.pub.at = m
<1> DEFINE w == Tail(waiting)
           rest == [Owner EXCEPT !.waiting = w]
<1>1. waiting # <<>> /\ waiting \in Seq(Interval) /\ next \in Nat
  BY SeenIs DEF Calls
<1>2. Tiled(waiting, m, next) /\ Front(Owner, m)
  BY SeenIs DEF Sound
<1>3. w \in Seq(Interval) /\ Head(waiting) = waiting[1] /\ 1 \in 1 .. Len(waiting)
  BY <1>1
<1>4. waiting[1] \in Interval /\ waiting[1].from \in Nat /\ waiting[1].to \in Nat
  BY <1>1, <1>3, IntervalsAre
<1>5. waiting[1].from = m /\ waiting[1].from < waiting[1].to
  BY <1>1, <1>2, <1>3 DEF Tiled
<1>6. Tiled(w, waiting[1].to, next)
  BY <1>1, <1>2, TiledTail
<1>7. Room = IF Full THEN Fallback(rest) ELSE rest
  BY SeenIs DEF Room
<1> HIDE DEF w
<1>8. /\ rest \in Owners /\ rest.pending = pending /\ rest.waiting = w /\ rest.retained = retained
      /\ rest.pub = pub /\ rest.open = open /\ rest.fence = fence
  <2>1. \A q \in Owners : LET z == [q EXCEPT !.waiting = w] IN
          /\ z \in Owners /\ z.pending = q.pending /\ z.waiting = w
          /\ z.retained = q.retained /\ z.pub = q.pub /\ z.open = q.open /\ z.fence = q.fence
    BY <1>3 DEF Owners
  <2> QED BY <2>1, SeenIs
<1> HIDE DEF rest
<1>9. Front(rest, m)
  BY <1>2, <1>8, SeenIs DEF Front
<1>10. CASE Full
  BY <1>3, <1>4, <1>5, <1>6, <1>7, <1>8, <1>9, <1>10, FallbackFront DEF w
<1>11. CASE ~Full
  BY <1>3, <1>4, <1>5, <1>6, <1>7, <1>8, <1>9, <1>11 DEF w
<1> QED BY <1>10, <1>11

LEMMA KeptJobIs ==
  ASSUME NEW o \in Owners, NEW m \in Nat, Front(o, m),
         NEW r \in Interval, r.from = m, m < r.to
  PROVE  /\ Kept(o, r) \in Owners /\ Front(Kept(o, r), r.to)
         /\ Kept(o, r).waiting = o.waiting /\ Kept(o, r).open = o.open
         /\ Kept(o, r).fence = o.fence /\ Kept(o, r).pub = o.pub
<1> DEFINE p == Append(o.pending, r)
           n == o.retained + (r.to - r.from)
           t == [o EXCEPT !.pending = p, !.retained = n]
<1>0. /\ o.pending \in Seq(Interval) /\ o.retained \in Nat /\ o.pub.at \in Nat
      /\ r.from \in Nat /\ r.to \in Nat
  BY OwnersAre DEF Interval
<1>1. Tiled(o.pending, o.pub.at, m) /\ o.pub.fits /\ o.retained = m - o.pub.at
  BY DEF Front
<1>2. p \in Seq(Interval) /\ Tiled(p, o.pub.at, r.to)
  BY <1>0, <1>1, IntervalsAre, TiledAppend
<1>3. n \in Nat /\ n = r.to - o.pub.at
  <2>1. \A u, v, x, y \in Nat : u = x - v /\ x < y => u + (y - x) \in Nat /\ u + (y - x) = y - v
    OBVIOUS
  <2> QED BY <1>0, <1>1, <2>1
<1>4. Kept(o, r) = t
  BY DEF Kept
<1> HIDE DEF p, n
<1>5. /\ t \in Owners /\ t.pending = p /\ t.retained = n /\ t.waiting = o.waiting
      /\ t.open = o.open /\ t.fence = o.fence /\ t.pub = o.pub
  BY <1>2, <1>3 DEF Owners
<1> HIDE DEF t
<1> QED BY <1>1, <1>2, <1>3, <1>4, <1>5 DEF Front

(* A command of the current generation goes to the end of the pipe.        *)
LEMMA FlowCommand ==
  ASSUME NEW f \in Nat, NEW a \in Nat, NEW m \in Nat, NEW rs, NEW cs \in Seq(Request),
         NEW th, NEW ad, Flow(f, a, m, rs, cs, th, ad),
         NEW c \in Request, c.fence = f, c.from = m, m < c.to, ~c.last
  PROVE  Flow(f, a, c.to, rs, Append(cs, c), th, ad)
<1> DEFINE t == Append(cs, c)
<1>1. PICK k \in 0 .. Len(rs), j \in 0 .. Len(cs), x \in Nat, y \in Nat :
        FlowAt(f, a, m, rs, cs, th, ad, k, j, x, y)
  BY DEF Flow
<1>2. /\ Len(cs) \in Nat /\ Len(t) = Len(cs) + 1 /\ t[Len(t)] = c
      /\ \A i \in 1 .. Len(cs) : t[i] = cs[i]
  OBVIOUS
<1>c. c.to \in Nat /\ c.from \in Nat /\ c.fence \in Nat
  BY DEF Request
<1>d. \A i \in 1 .. Len(cs) : cs[i].from \in Nat /\ cs[i].to \in Nat /\ cs[i].fence \in Nat
  BY CommandsAre
<1> HIDE DEF t
<1>3. Fenced(t, j, f)
  <2>1. Fenced(cs, j, f)
    BY <1>1 DEF FlowAt
  <2>2. ASSUME NEW i \in 1 .. Len(t) PROVE t[i].fence <= f /\ (t[i].fence = f <=> i > j)
    <3>1. CASE i = Len(t)
      BY <1>2, <1>c, <3>1
    <3>2. CASE i # Len(t)
      <4>1. i \in 1 .. Len(cs)
        BY <1>2, <3>2
      <4> QED BY <1>2, <2>1, <4>1 DEF Fenced
    <3> QED BY <3>1, <3>2
  <2> QED BY <2>2 DEF Fenced
<1>4. \A i \in 1 .. Len(t) : ~t[i].last
  BY <1>1, <1>2, SMTT(30) DEF FlowAt
<1>5. Follow(t, j, y, c.to)
  <2>1. Follow(cs, j, y, m)
    BY <1>1 DEF FlowAt
  <2>2. ASSUME NEW i \in j + 1 .. Len(t) PROVE t[i].from < t[i].to /\ t[i].to <= c.to
    <3>1. CASE i = Len(t)
      BY <1>2, <1>c, <3>1
    <3>2. CASE i # Len(t)
      <4>1. i \in j + 1 .. Len(cs) /\ i \in 1 .. Len(cs)
        BY <1>2, <3>2
      <4>2. cs[i].from < cs[i].to /\ cs[i].to <= m
        BY <2>1, <4>1 DEF Follow
      <4> QED BY <1>2, <1>c, <1>d, <4>1, <4>2
    <3> QED BY <3>1, <3>2
  <2>3. ASSUME NEW i \in j + 1 .. Len(t) - 1 PROVE t[i].to = t[i + 1].from
    <3>0. i \in 1 .. Len(cs)
      BY <1>2
    <3>1. CASE i = Len(cs)
      BY <1>2, <2>1, <3>0, <3>1 DEF Follow
    <3>2. CASE i # Len(cs)
      <4>1. i \in j + 1 .. Len(cs) - 1 /\ i + 1 \in 1 .. Len(cs)
        BY <1>2, <3>2
      <4>2. cs[i].to = cs[i + 1].from
        BY <2>1, <4>1 DEF Follow
      <4> QED BY <1>2, <3>0, <4>1, <4>2
    <3> QED BY <3>1, <3>2
  <2>4. j # Len(t) /\ t[j + 1].from = y
    <3>1. CASE j = Len(cs)
      BY <1>2, <2>1, <3>1 DEF Follow
    <3>2. CASE j # Len(cs)
      <4>1. j + 1 \in 1 .. Len(cs)
        BY <1>2, <3>2
      <4> QED BY <1>2, <2>1, <3>2, <4>1 DEF Follow
    <3> QED BY <3>1, <3>2
  <2> QED BY <1>2, <2>2, <2>3, <2>4 DEF Follow
<1>6. FlowAt(f, a, c.to, rs, t, th, ad, k, j, x, y)
  BY <1>1, <1>3, <1>4, <1>5 DEF FlowAt
<1>7. j \in 0 .. Len(t)
  BY <1>2
<1>8. Flow(f, a, c.to, rs, t, th, ad)
  BY <1>6, <1>7 DEF Flow
<1> QED BY <1>8 DEF t

(* No worker any more: nothing is pending, so the block may go first.      *)
LEMMA StepAdmitRaw ==
  ASSUME AecSeen, AdmitRaw PROVE AecSeen'
<1> DEFINE w == Head(waiting)
           p == Published(Room.pub, <<w>>)
           o == [Room EXCEPT !.pub = p]
<1>0. /\ Admitting /\ ~Running /\ Becomes(o) /\ plan' = Tail(plan) /\ plan # <<>>
      /\ UNCHANGED <<next, stopped, failed, cmds, results, thread, adapter>>
  BY DEF AdmitRaw, native, Admitting
<1>1. PICK m \in Nat : /\ Sound(Owner, m, next)
                       /\ Live => open /\ Flow(fence, pub.at, m, results, cmds, thread, adapter)
  BY SeenFlow
<1>2. /\ Room \in Owners /\ Front(Room, m) /\ Room.waiting = Tail(waiting)
      /\ Room.open = open /\ w \in Interval /\ w.from = m /\ w.to \in Nat /\ m < w.to
      /\ Tiled(Tail(waiting), w.to, next) /\ (pending = <<>> => Room.pending = <<>>)
  BY <1>0, <1>1, RoomIs
<1>3. ~open /\ pending = <<>>
  <2>1. ~open
    BY <1>0, SeenIs DEF Running, Calls
  <2>2. plan # <<"wait">>
    BY <1>0 DEF Admitting, Admits
  <2> QED BY <2>1, <2>2, SeenIs DEF Calls
<1>4. /\ Room.pending = <<>> /\ Room.pub.at = m /\ Room.retained = 0 /\ Room.pub.fits
      /\ Room.pub \in [at : Nat, fits : BOOLEAN]
  <2>1. Room.pending = <<>>
    BY <1>2, <1>3
  <2>2. /\ Tiled(Room.pending, Room.pub.at, m) /\ Room.pub.fits
        /\ Room.retained = m - Room.pub.at
    BY <1>2 DEF Front
  <2>3. Room.pub.at = m
    BY <2>1, <2>2 DEF Tiled
  <2> QED BY <1>2, <2>1, <2>2, <2>3, OwnersAre
<1>5. p \in [at : Nat, fits : BOOLEAN] /\ p.fits /\ p.at = w.to
  <2>1. <<w>> \in Seq(Interval) /\ Tiled(<<w>>, Room.pub.at, w.to)
    <3> HIDE DEF w
    <3> QED BY <1>2, <1>4 DEF Tiled
  <2> QED BY <1>2, <1>4, <2>1, PublishTiled, ZenonT(40)
<1> HIDE DEF p
<1>6. /\ o \in Owners /\ o.pending = <<>> /\ o.retained = 0 /\ o.waiting = Tail(waiting)
      /\ o.open = open /\ o.pub = p
  <2>1. \A q \in Owners : LET z == [q EXCEPT !.pub = p] IN
          /\ z \in Owners /\ z.pending = q.pending /\ z.waiting = q.waiting
          /\ z.retained = q.retained /\ z.pub = p /\ z.open = q.open /\ z.fence = q.fence
    BY <1>5 DEF Owners
  <2> QED BY <1>2, <1>4, <2>1
<1> HIDE DEF o, w
<1>7. Sound(o, w.to, next)
  <2>1. Tiled(<<>>, w.to, w.to) /\ w.to - w.to = 0
    BY <1>2, TiledNone
  <2> QED BY <1>2, <1>5, <1>6, <2>1 DEF Sound, Front
<1>8. Tail(plan) \in Seq(Steps) /\ Quiet(Tail(plan)) /\ ~failed
  BY <1>0, PlanTail
<1> QED BY <1>0, <1>1, <1>2, <1>3, <1>6, <1>7, <1>8, SeenIs, OwnerStep DEF Live

(* Of the pipes, after a full boundary was emptied or not.                 *)
LEMMA RoomFlow ==
  ASSUME AecSeen, Admitting, NEW m \in Nat, Sound(Owner, m, next),
         Flow(fence, pub.at, m, results, cmds, thread, adapter)
  PROVE  Flow(Room.fence, Room.pub.at, m, results, cmds, thread, adapter)
<1>1. \/ Room.fence = fence /\ Room.pub = pub
      \/ Room.fence = fence + 1 /\ Room.pub.at = m
  BY RoomIs
<1>2. /\ fence \in Nat /\ fence + 1 \in Nat /\ fence < fence + 1 /\ adapter.fence \in Nat
      /\ results \in Seq(Answer) /\ cmds \in Seq(Request)
  BY SeenIs DEF Adapters
<1>3. \A a, th, ad : ad.fence \in Nat /\ Flow(fence, a, m, results, cmds, th, ad)
        => Flow(fence + 1, m, m, results, cmds, th, ad)
  BY <1>2, FlowAhead
<1> QED BY <1>1, <1>2, <1>3

LEMMA StepAdmitJob ==
  ASSUME AecSeen, AdmitJob PROVE AecSeen'
<1> DEFINE w == Head(waiting)
           c == Job(Room, w, Head(plan) # "submitAlone")
           o == Kept(Room, w)
<1>0. /\ Admitting /\ Running /\ Becomes(o) /\ cmds' = Append(cmds, c)
      /\ plan' = Tail(plan) /\ plan # <<>>
      /\ UNCHANGED <<next, stopped, failed, results, thread, adapter>>
  BY DEF AdmitJob, native, Admitting
<1>1. PICK m \in Nat : /\ Sound(Owner, m, next)
                       /\ Live => open /\ Flow(fence, pub.at, m, results, cmds, thread, adapter)
  BY SeenFlow
<1>2. /\ Room \in Owners /\ Front(Room, m) /\ Room.waiting = Tail(waiting)
      /\ Room.open = open /\ w \in Interval /\ w.from = m /\ w.to \in Nat /\ m < w.to
      /\ Tiled(Tail(waiting), w.to, next)
  BY <1>0, <1>1, RoomIs
<1>r. Room.fence \in Nat /\ Room.pub.at \in Nat
  BY <1>2, OwnersAre
<1>3. /\ o \in Owners /\ Front(o, w.to) /\ o.waiting = Tail(waiting) /\ o.open = open
      /\ o.fence = Room.fence /\ o.pub = Room.pub
  <2> HIDE DEF w
  <2> QED BY <1>2, KeptJobIs
<1>4. c \in Request /\ c.fence = Room.fence /\ c.from = m /\ c.to = w.to /\ ~c.last
  <2> DEFINE b == Head(plan) # "submitAlone"
  <2>1. b \in BOOLEAN
    OBVIOUS
  <2>2. c = [fence |-> Room.fence, from |-> w.from, to |-> w.to, reference |-> b, last |-> FALSE]
    BY DEF Job
  <2> HIDE DEF b, w, c
  <2> QED BY <1>2, <1>r, <2>1, <2>2 DEF Request
<1>5. Live => Flow(o.fence, o.pub.at, w.to, results, cmds', thread, adapter)
  <2> SUFFICES ASSUME Live PROVE Flow(o.fence, o.pub.at, w.to, results, cmds', thread, adapter)
    OBVIOUS
  <2>1. Flow(Room.fence, Room.pub.at, m, results, cmds, thread, adapter)
    BY <1>0, <1>1, RoomFlow
  <2>2. cmds \in Seq(Request)
    BY SeenIs
  <2> HIDE DEF c, w, o
  <2>3. Flow(Room.fence, Room.pub.at, c.to, results, Append(cmds, c), thread, adapter)
    BY <1>2, <1>4, <1>r, <2>1, <2>2, FlowCommand
  <2> QED BY <1>0, <1>3, <1>4, <2>3
<1>6. cmds' \in Seq(Request)
  <2> HIDE DEF c
  <2> QED BY <1>0, <1>4, SeenIs
<1> HIDE DEF o, w, c
<1>7. Sound(o, w.to, next)
  BY <1>2, <1>3 DEF Sound
<1>8. Tail(plan) \in Seq(Steps) /\ Quiet(Tail(plan)) /\ ~failed
  BY <1>0, PlanTail
<1>9. open /\ thread.at # "gone"
  BY <1>0 DEF Running
<1> QED BY <1>0, <1>2, <1>3, <1>5, <1>6, <1>7, <1>8, <1>9, SeenIs, OwnerStep DEF Live

LEMMA StepAdmitBusy ==
  ASSUME AecSeen, AdmitBusy PROVE AecSeen'
<1> DEFINE w == Head(waiting)
           k == Kept(Room, w)
           o == Fallback(k)
<1>0. /\ Admitting /\ Running /\ Becomes(o) /\ plan' = Tail(plan) /\ plan # <<>>
      /\ UNCHANGED <<next, stopped, failed, cmds, results, thread, adapter>>
  BY DEF AdmitBusy, Busy, native, Admitting
<1>1. PICK m \in Nat : /\ Sound(Owner, m, next)
                       /\ Live => open /\ Flow(fence, pub.at, m, results, cmds, thread, adapter)
  BY SeenFlow
<1>2. /\ Room \in Owners /\ Front(Room, m) /\ Room.waiting = Tail(waiting)
      /\ Room.open = open /\ w \in Interval /\ w.from = m /\ w.to \in Nat /\ m < w.to
      /\ Tiled(Tail(waiting), w.to, next)
  BY <1>0, <1>1, RoomIs
<1>r. Room.fence \in Nat /\ Room.pub.at \in Nat
  BY <1>2, OwnersAre
<1>3. /\ k \in Owners /\ Front(k, w.to) /\ k.waiting = Tail(waiting) /\ k.open = open
      /\ k.fence = Room.fence /\ k.pub = Room.pub
  <2> HIDE DEF w
  <2> QED BY <1>2, KeptJobIs
<1> HIDE DEF k
<1>4. /\ o \in Owners /\ Front(o, w.to) /\ o.waiting = Tail(waiting) /\ o.open = open
      /\ o.fence = Room.fence + 1 /\ o.pub.at = w.to
  BY <1>2, <1>3, FallbackFront
<1> HIDE DEF o
<1>5. Live => Flow(o.fence, o.pub.at, w.to, results, cmds, thread, adapter)
  <2> SUFFICES ASSUME Live PROVE Flow(o.fence, o.pub.at, w.to, results, cmds, thread, adapter)
    OBVIOUS
  <2>1. Flow(Room.fence, Room.pub.at, m, results, cmds, thread, adapter)
    BY <1>0, <1>1, RoomFlow
  <2>2. /\ Room.fence + 1 \in Nat /\ Room.fence < Room.fence + 1 /\ adapter.fence \in Nat
        /\ results \in Seq(Answer) /\ cmds \in Seq(Request)
    BY <1>r, SeenIs, SMTT(30) DEF Adapters
  <2>3. \A a, th, ad : ad.fence \in Nat /\ Flow(Room.fence, a, m, results, cmds, th, ad)
          => Flow(Room.fence + 1, w.to, w.to, results, cmds, th, ad)
    BY <1>2, <1>r, <2>2, FlowAhead
  <2> QED BY <1>4, <2>1, <2>2, <2>3
<1> HIDE DEF w
<1>7. Sound(o, w.to, next)
  BY <1>2, <1>4 DEF Sound
<1>8. Tail(plan) \in Seq(Steps) /\ Quiet(Tail(plan)) /\ ~failed
  BY <1>0, PlanTail
<1>9. open /\ thread.at # "gone"
  BY <1>0 DEF Running
<1> QED BY <1>0, <1>2, <1>4, <1>5, <1>7, <1>8, <1>9, SeenIs, OwnerStep DEF Live

(* A submission that finds the thread gone is one the poll before it missed. *)
LEMMA StepAdmitLost ==
  ASSUME AecSeen, AdmitLost PROVE AecSeen'
<1>1. Admitting /\ open /\ thread.at = "gone"
  BY DEF AdmitLost
<1> QED BY <1>1, SeenIs DEF Calls

-----------------------------------------------------------------------------
(* The native thread's steps *)

LEMMA ThreadStep ==
  ASSUME AecSeen, UNCHANGED <<owner, pub>>, cmds' \in Seq(Request), results' \in Seq(Answer),
         thread' \in Threads, adapter' \in Adapters, thread.at # "gone",
         thread'.at = "gone" /\ open => ~Admitting /\ Len(results') <= Queue,
         \A m \in Nat : Live /\ thread'.at # "gone"
                          /\ Flow(fence, pub.at, m, results, cmds, thread, adapter)
                          => Flow(fence, pub.at, m, results', cmds', thread', adapter')
  PROVE  AecSeen'
<1>0. /\ UNCHANGED <<next, waiting, pending, retained, fence, open, stopped, failed, plan, pub>>
  BY DEF owner, worker
<1>1. Owner' = Owner
  BY <1>0 DEF Owner
<1>2. AecTyped'
  BY <1>0, <1>1, SeenIs DEF AecTyped
<1>3. Calls'
  <2>1. Admitting' <=> Admitting
    BY <1>0 DEF Admitting, Admits
  <2> QED BY <1>0, <2>1, SeenIs DEF Calls
<1>4. PICK m \in Nat : /\ Sound(Owner, m, next)
                       /\ Live => open /\ Flow(fence, pub.at, m, results, cmds, thread, adapter)
  BY SeenFlow
<1>5. Live' => open' /\ Flow(fence', pub'.at, m, results', cmds', thread', adapter')
  <2>1. Live' => Live /\ thread'.at # "gone"
    BY <1>0 DEF Live
  <2> QED BY <1>0, <1>4, <2>1
<1>6. Sound(Owner', m, next')
  BY <1>0, <1>1, <1>4
<1> QED BY <1>2, <1>3, <1>5, <1>6 DEF AecSeen

LEMMA ThreadIs ==
  ASSUME AecSeen
  PROVE  /\ thread.at \in {"recv", "native", "publish", "gone"} /\ thread.job \in Request
         /\ thread.answer \in Answer
         /\ thread.job.from \in Nat /\ thread.job.to \in Nat /\ thread.job.fence \in Nat
         /\ thread.answer.from \in Nat /\ thread.answer.to \in Nat /\ thread.answer.fence \in Nat
         /\ adapter.fence \in Nat /\ adapter.from \in Nat /\ adapter.to \in Nat
         /\ adapter.failed \in BOOLEAN
         /\ Idle \in Threads /\ Idle.at = "recv" /\ [Idle EXCEPT !.at = "gone"] \in Threads
         /\ [Idle EXCEPT !.at = "gone"].at = "gone" /\ NoJob \in Request
<1>1. thread \in Threads /\ adapter \in Adapters
  BY SeenIs
<1>2. /\ thread.at \in {"recv", "native", "publish", "gone"} /\ thread.job \in Request
      /\ thread.answer \in Answer
      /\ adapter.fence \in Nat /\ adapter.from \in Nat /\ adapter.to \in Nat
      /\ adapter.failed \in BOOLEAN
  BY <1>1 DEF Threads, Adapters
<1>3. \A c \in Request : c.from \in Nat /\ c.to \in Nat /\ c.fence \in Nat
  BY DEF Request
<1>4. \A a \in Answer : a.from \in Nat /\ a.to \in Nat /\ a.fence \in Nat
  BY DEF Answer
<1>5. NoJob \in Request /\ [fence |-> 0, from |-> 0, to |-> 0] \in Answer
  BY DEF NoJob, Request, Answer
<1>6. Idle \in Threads /\ Idle.at = "recv"
  BY <1>5 DEF Idle, Threads
<1>7. [Idle EXCEPT !.at = "gone"] \in Threads /\ [Idle EXCEPT !.at = "gone"].at = "gone"
  BY <1>6 DEF Threads
<1> QED BY <1>2, <1>3, <1>4, <1>5, <1>6, <1>7

LEMMA StepThreadEnds ==
  ASSUME AecSeen, ThreadEnds PROVE AecSeen'
<1>1. /\ UNCHANGED <<owner, pub>> /\ cmds' = cmds /\ results' = results /\ adapter' = adapter
      /\ thread' = [Idle EXCEPT !.at = "gone"] /\ ~open /\ thread.at = "recv"
  BY DEF ThreadEnds
<1>2. thread' \in Threads /\ thread'.at = "gone" /\ thread.at # "gone"
  BY <1>1, ThreadIs
<1> QED BY <1>1, <1>2, SeenIs, ThreadStep

LEMMA StepPanic ==
  ASSUME AecSeen, Panic, ~unseen' PROVE AecSeen'
<1>1. /\ UNCHANGED <<owner, pub>> /\ cmds' = <<>> /\ results' = results /\ adapter' = adapter
      /\ thread' = [Idle EXCEPT !.at = "gone"] /\ thread.at = "native"
      /\ ~Admitting /\ ~(Len(results) > Queue)
  BY DEF Panic
<1>2. thread' \in Threads /\ thread'.at = "gone" /\ thread.at # "gone"
  BY <1>1, ThreadIs
<1>3. Len(results') <= Queue /\ <<>> \in Seq(Request)
  <2>1. Len(results) \in Nat /\ Queue \in Nat
    BY SeenIs, AecBounds
  <2> QED BY <1>1, <2>1
<1> QED BY <1>1, <1>2, <1>3, SeenIs, ThreadStep

(* An answer goes into the mailbox behind the others of its generation.    *)
LEMMA FlowAnswer ==
  ASSUME NEW f \in Nat, NEW a \in Nat, NEW m \in Nat, NEW rs \in Seq(Answer), NEW cs,
         NEW th \in Threads, NEW ad \in Adapters, NEW t2, t2.at = "recv", th.at = "publish",
         Flow(f, a, m, rs, cs, th, ad)
  PROVE  /\ th.answer.fence # f => Flow(f, a, m, rs, cs, t2, ad)
         /\ th.answer.fence = f => Flow(f, a, m, Append(rs, th.answer), cs, t2, ad)
<1>1. PICK k \in 0 .. Len(rs), j \in 0 .. Len(cs), x \in Nat, y \in Nat :
        FlowAt(f, a, m, rs, cs, th, ad, k, j, x, y)
  BY DEF Flow
<1>0. th.answer.fence = ad.fence
  BY <1>1 DEF FlowAt
<1>2. CASE ad.fence # f
  <2>1. FlowAt(f, a, m, rs, cs, t2, ad, k, j, x, y)
    BY <1>1, <1>2 DEF FlowAt
  <2> QED BY <1>0, <1>2, <2>1 DEF Flow
<1>3. CASE ad.fence = f
  <2> DEFINE c == th.answer
             t == Append(rs, c)
  <2>1. /\ Fenced(rs, k, f) /\ Follow(rs, k, a, x) /\ Between(x, y, th, ad)
        /\ Fenced(cs, j, f) /\ (\A i \in 1 .. Len(cs) : ~cs[i].last) /\ Follow(cs, j, y, m)
    BY <1>1, <1>3 DEF FlowAt
  <2>2. c \in Answer /\ c.fence \in Nat /\ c.from \in Nat /\ c.to \in Nat
    <3>1. c \in Answer
      BY DEF Threads
    <3> QED BY <3>1 DEF Answer
  <2>3. c.from = x /\ c.to = ad.from /\ x < ad.from /\ ad.from <= ad.to /\ y = ad.to
    BY <2>1 DEF Between
  <2>4. Between(ad.from, y, t2, ad)
    BY <2>3 DEF Between
  <2> HIDE DEF c
  <2>5. /\ Len(rs) \in Nat /\ Len(t) = Len(rs) + 1 /\ t[Len(t)] = c
        /\ \A i \in 1 .. Len(rs) : t[i] = rs[i]
    BY <2>2
  <2>d. \A i \in 1 .. Len(rs) : rs[i].from \in Nat /\ rs[i].to \in Nat /\ rs[i].fence \in Nat
    BY AnswersAre
  <2> HIDE DEF t
  <2>6. Fenced(t, k, f)
    <3>1. ASSUME NEW i \in 1 .. Len(t) PROVE t[i].fence <= f /\ (t[i].fence = f <=> i > k)
      <4>1. CASE i = Len(t)
        BY <1>0, <1>3, <2>5, <4>1 DEF c
      <4>2. CASE i # Len(t)
        <5>1. i \in 1 .. Len(rs)
          BY <2>5, <4>2
        <5> QED BY <2>1, <2>5, <5>1 DEF Fenced
      <4> QED BY <4>1, <4>2
    <3> QED BY <3>1 DEF Fenced
  <2>7. Follow(t, k, a, ad.from)
    <3>2. ASSUME NEW i \in k + 1 .. Len(t) PROVE t[i].from < t[i].to /\ t[i].to <= ad.from
      <4>1. CASE i = Len(t)
        BY <2>2, <2>3, <2>5, <4>1
      <4>2. CASE i # Len(t)
        <5>1. i \in k + 1 .. Len(rs) /\ i \in 1 .. Len(rs)
          BY <2>5, <4>2
        <5>2. rs[i].from < rs[i].to /\ rs[i].to <= x
          BY <2>1, <5>1 DEF Follow
        <5> QED BY <2>2, <2>3, <2>5, <2>d, <5>1, <5>2, SMTT(30)
      <4> QED BY <4>1, <4>2
    <3>3. ASSUME NEW i \in k + 1 .. Len(t) - 1 PROVE t[i].to = t[i + 1].from
      <4>0. i \in 1 .. Len(rs)
        BY <2>5
      <4>1. CASE i = Len(rs)
        BY <2>1, <2>3, <2>5, <4>0, <4>1 DEF Follow
      <4>2. CASE i # Len(rs)
        <5>1. i \in k + 1 .. Len(rs) - 1 /\ i + 1 \in 1 .. Len(rs)
          BY <2>5, <4>2
        <5>2. rs[i].to = rs[i + 1].from
          BY <2>1, <5>1 DEF Follow
        <5> QED BY <2>5, <4>0, <5>1, <5>2
      <4> QED BY <4>1, <4>2
    <3>4. k # Len(t) /\ t[k + 1].from = a
      <4>1. CASE k = Len(rs)
        BY <2>1, <2>3, <2>5, <4>1 DEF Follow
      <4>2. CASE k # Len(rs)
        <5>1. k + 1 \in 1 .. Len(rs)
          BY <2>5, <4>2
        <5> QED BY <2>1, <2>5, <4>2, <5>1 DEF Follow
      <4> QED BY <4>1, <4>2
    <3> QED BY <2>3, <2>5, <3>2, <3>3, <3>4 DEF Follow
  <2>8. FlowAt(f, a, m, t, cs, t2, ad, k, j, ad.from, y)
    BY <1>1, <1>3, <2>1, <2>4, <2>6, <2>7 DEF FlowAt
  <2>9. k \in 0 .. Len(t) /\ ad.from \in Nat
    BY <2>2, <2>3, <2>5
  <2>10. Flow(f, a, m, t, cs, t2, ad)
    BY <2>8, <2>9 DEF Flow
  <2> QED BY <1>0, <1>3, <2>10 DEF t, c
<1> QED BY <1>2, <1>3

LEMMA StepPublishAnswer ==
  ASSUME AecSeen, PublishAnswer PROVE AecSeen'
<1>0. /\ UNCHANGED <<owner, pub>> /\ cmds' = cmds /\ adapter' = adapter
      /\ thread' = Idle /\ thread.at = "publish"
      /\ \/ thread.answer.fence # fence /\ results' = results
         \/ thread.answer.fence = fence /\ results' = Append(results, thread.answer)
  BY DEF PublishAnswer, Unwanted
<1>1. /\ thread' \in Threads /\ thread'.at = "recv" /\ thread.at # "gone"
      /\ thread'.at # "gone" /\ thread.answer \in Answer /\ results' \in Seq(Answer)
  <2>1. thread.answer \in Answer /\ results \in Seq(Answer)
    BY ThreadIs, SeenIs
  <2>2. results' \in Seq(Answer)
    BY <1>0, <2>1
  <2> QED BY <1>0, <2>1, <2>2, ThreadIs
<1>2. ASSUME NEW m \in Nat, Flow(fence, pub.at, m, results, cmds, thread, adapter)
      PROVE  Flow(fence, pub.at, m, results', cmds', thread', adapter')
  <2>1. fence \in Nat /\ pub.at \in Nat /\ results \in Seq(Answer) /\ thread \in Threads
          /\ adapter \in Adapters
    BY SeenIs
  <2>2. /\ thread.answer.fence # fence
             => Flow(fence, pub.at, m, results, cmds, thread', adapter)
        /\ thread.answer.fence = fence
             => Flow(fence, pub.at, m, Append(results, thread.answer), cmds, thread', adapter)
    BY <1>0, <1>1, <1>2, <2>1, FlowAnswer
  <2> QED BY <1>0, <2>2
<1> QED BY <1>0, <1>1, <1>2, SeenIs, ThreadStep

(* The first command leaves the queue.                                     *)
LEMMA PipeTail ==
  ASSUME NEW cs \in Seq(Request), cs # <<>>, NEW j \in 0 .. Len(cs), NEW f \in Nat,
         NEW y \in Nat, NEW m \in Nat, Fenced(cs, j, f), Follow(cs, j, y, m),
         \A i \in 1 .. Len(cs) : ~cs[i].last
  PROVE  /\ Tail(cs) \in Seq(Request) /\ cs[1] = Head(cs) /\ ~cs[1].last
         /\ \A i \in 1 .. Len(Tail(cs)) : ~Tail(cs)[i].last
         /\ cs[1].fence # f => /\ j - 1 \in 0 .. Len(Tail(cs))
                               /\ Fenced(Tail(cs), j - 1, f) /\ Follow(Tail(cs), j - 1, y, m)
         /\ cs[1].fence = f => /\ Fenced(Tail(cs), 0, f) /\ Follow(Tail(cs), 0, cs[1].to, m)
                               /\ cs[1].from = y /\ y < cs[1].to
<1> DEFINE t == Tail(cs)
           z == IF j = 0 THEN cs[1].to ELSE y
           i0 == IF j = 0 THEN 0 ELSE j - 1
<1>1. /\ t \in Seq(Request) /\ Len(cs) \in Nat /\ Len(cs) >= 1 /\ cs[1] = Head(cs)
      /\ Len(t) = Len(cs) - 1
  OBVIOUS
<1>2. \A i \in 1 .. Len(t) : t[i] = cs[i + 1] /\ i + 1 \in 1 .. Len(cs)
  OBVIOUS
<1> HIDE DEF t
<1>3. i0 \in 0 .. Len(t) /\ i0 \in Nat
  BY <1>1
<1>4. Fenced(t, i0, f)
  <2>1. ASSUME NEW i \in 1 .. Len(t) PROVE t[i].fence <= f /\ (t[i].fence = f <=> i > i0)
    <3>1. t[i] = cs[i + 1] /\ i + 1 \in 1 .. Len(cs)
      BY <1>2
    <3>2. cs[i + 1].fence <= f /\ (cs[i + 1].fence = f <=> i + 1 > j)
      BY <3>1 DEF Fenced
    <3>3. i + 1 > j <=> i > i0
      BY <1>1
    <3> QED BY <3>1, <3>2, <3>3
  <2> QED BY <2>1 DEF Fenced
<1>5. \A i \in 1 .. Len(t) : ~t[i].last
  BY <1>2
<1>6. Follow(t, i0, z, m)
  <2>1. ASSUME NEW i \in i0 + 1 .. Len(t) PROVE t[i].from < t[i].to /\ t[i].to <= m
    <3>1. i + 1 \in j + 1 .. Len(cs) /\ i \in 1 .. Len(t)
      BY <1>1, <1>3
    <3>2. cs[i + 1].from < cs[i + 1].to /\ cs[i + 1].to <= m
      BY <3>1 DEF Follow
    <3> QED BY <1>2, <3>1, <3>2
  <2>2. ASSUME NEW i \in i0 + 1 .. Len(t) - 1 PROVE t[i].to = t[i + 1].from
    <3>1. i + 1 \in j + 1 .. Len(cs) - 1 /\ i \in 1 .. Len(t) /\ i + 1 \in 1 .. Len(t)
      BY <1>1, <1>3
    <3>2. cs[i + 1].to = cs[(i + 1) + 1].from
      BY <3>1 DEF Follow
    <3> QED BY <1>2, <3>1, <3>2
  <2>3. IF i0 = Len(t) THEN z = m ELSE t[i0 + 1].from = z /\ t[Len(t)].to = m
    <3>1. CASE j = 0
      <4>1. cs[Len(cs)].to = m
        BY <1>1, <3>1 DEF Follow
      <4>2. CASE Len(t) = 0
        <5>1. Len(cs) = 1
          BY <1>1, <4>2
        <5>2. cs[1].to = m
          BY <4>1, <5>1
        <5> QED BY <3>1, <4>2, <5>2
      <4>3. CASE Len(t) # 0
        <5>1. /\ 1 \in j + 1 .. Len(cs) - 1 /\ 1 \in 1 .. Len(t) /\ Len(t) \in 1 .. Len(t)
              /\ Len(t) + 1 = Len(cs)
          BY <1>1, <3>1, <4>3
        <5>2. cs[1].to = cs[1 + 1].from
          BY <5>1 DEF Follow
        <5> QED BY <1>2, <3>1, <4>1, <4>3, <5>1, <5>2
      <4> QED BY <4>2, <4>3
    <3>2. CASE j # 0
      <4>1. CASE j = Len(cs)
        BY <1>1, <3>2, <4>1 DEF Follow
      <4>2. CASE j # Len(cs)
        <5>1. /\ i0 + 1 \in 1 .. Len(t) /\ (i0 + 1) + 1 = j + 1 /\ Len(t) \in 1 .. Len(t)
              /\ Len(t) + 1 = Len(cs) /\ i0 # Len(t)
          BY <1>1, <3>2, <4>2
        <5>2. cs[j + 1].from = y /\ cs[Len(cs)].to = m
          BY <4>2 DEF Follow
        <5> QED BY <1>2, <3>2, <5>1, <5>2
      <4> QED BY <4>1, <4>2
    <3> QED BY <3>1, <3>2
  <2> HIDE DEF i0, z
  <2> QED BY <2>1, <2>2, <2>3 DEF Follow
<1>7. cs[1].fence = f <=> j = 0
  BY <1>1 DEF Fenced
<1>8. j = 0 => cs[1].from = y /\ y < cs[1].to
  <2> SUFFICES ASSUME j = 0 PROVE cs[1].from = y /\ y < cs[1].to
    OBVIOUS
  <2>1. 1 \in j + 1 .. Len(cs) /\ j # Len(cs) /\ j + 1 = 1
    BY <1>1
  <2> QED BY <2>1 DEF Follow
<1>9. 1 \in 1 .. Len(cs)
  BY <1>1
<1> QED BY <1>1, <1>3, <1>4, <1>5, <1>6, <1>7, <1>8, <1>9 DEF t

LEMMA StepReceive ==
  ASSUME AecSeen, Receive PROVE AecSeen'
<1> DEFINE job == Head(cmds)
<1>0. /\ UNCHANGED <<owner, results, pub>> /\ thread.at = "recv" /\ cmds # <<>>
      /\ cmds' = Tail(cmds)
      /\ \/ /\ job.last /\ adapter' = adapter
            /\ thread' = thread \/ thread' = [thread EXCEPT !.at = "native", !.job = job]
         \/ /\ ~job.last /\ job.fence # fence /\ adapter' = adapter /\ thread' = thread
         \/ /\ ~job.last /\ job.fence = fence
            /\ thread' = [thread EXCEPT !.at = "native", !.job = job]
            /\ \E broken \in BOOLEAN :
                 adapter' = IF adapter.fence = fence THEN adapter
                            ELSE [fence |-> fence, from |-> job.from, to |-> job.from,
                                  failed |-> broken]
  BY DEF Receive, native
<1>1. /\ cmds \in Seq(Request) /\ Tail(cmds) \in Seq(Request) /\ job \in Request
      /\ job.from \in Nat /\ job.to \in Nat /\ fence \in Nat
      /\ job = cmds[1] /\ results \in Seq(Answer) /\ pub.at \in Nat
  <2>1. cmds \in Seq(Request) /\ fence \in Nat /\ results \in Seq(Answer) /\ pub.at \in Nat
    BY SeenIs
  <2>2. Tail(cmds) \in Seq(Request) /\ job \in Request /\ job = cmds[1]
    BY <1>0, <2>1
  <2>3. \A c \in Request : c.from \in Nat /\ c.to \in Nat
    BY DEF Request
  <2> QED BY <2>1, <2>2, <2>3
<1> HIDE DEF job
<1> DEFINE started == [thread EXCEPT !.at = "native", !.job = job]
<1>2. /\ started \in Threads /\ started.at = "native" /\ started.job = job /\ thread \in Threads
  <2>1. thread \in Threads
    BY SeenIs
  <2> QED BY <1>1, <2>1 DEF Threads
<1> HIDE DEF started
<1>3. adapter \in Adapters /\ adapter' \in Adapters
  <2>1. adapter \in Adapters
    BY SeenIs
  <2>2. \A broken \in BOOLEAN :
          [fence |-> fence, from |-> job.from, to |-> job.from, failed |-> broken] \in Adapters
    BY <1>1 DEF Adapters
  <2> QED BY <1>0, <2>1, <2>2
<1>4. thread' \in Threads /\ thread'.at # "gone" /\ thread.at # "gone"
  BY <1>0, <1>2 DEF started
<1>5. ASSUME NEW m \in Nat, Flow(fence, pub.at, m, results, cmds, thread, adapter)
      PROVE  Flow(fence, pub.at, m, results', cmds', thread', adapter')
  <2>1. PICK k \in 0 .. Len(results), j \in 0 .. Len(cmds), x \in Nat, y \in Nat :
          FlowAt(fence, pub.at, m, results, cmds, thread, adapter, k, j, x, y)
    BY <1>5 DEF Flow
  <2>2. /\ Fenced(cmds, j, fence) /\ Follow(cmds, j, y, m) /\ adapter.fence <= fence
        /\ Fenced(results, k, fence) /\ \A i \in 1 .. Len(cmds) : ~cmds[i].last
    BY <2>1 DEF FlowAt
  <2>3. /\ ~job.last /\ \A i \in 1 .. Len(Tail(cmds)) : ~Tail(cmds)[i].last
    BY <1>0, <1>1, <2>2, PipeTail
  <2>4. CASE job.fence # fence
    <3>1. adapter' = adapter /\ thread' = thread
      BY <1>0, <2>3, <2>4
    <3>2. /\ j - 1 \in 0 .. Len(Tail(cmds)) /\ Fenced(Tail(cmds), j - 1, fence)
          /\ Follow(Tail(cmds), j - 1, y, m)
      BY <1>0, <1>1, <2>2, <2>4, PipeTail
    <3>3. FlowAt(fence, pub.at, m, results, Tail(cmds), thread, adapter, k, j - 1, x, y)
      BY <2>1, <2>3, <3>2 DEF FlowAt
    <3>4. Flow(fence, pub.at, m, results, Tail(cmds), thread, adapter)
      BY <3>2, <3>3 DEF Flow
    <3> QED BY <1>0, <3>1, <3>4
  <2>5. CASE job.fence = fence
    <3>1. /\ thread' = started
          /\ \/ adapter.fence = fence /\ adapter' = adapter
             \/ /\ adapter.fence # fence
                /\ \E broken \in BOOLEAN :
                     adapter' = [fence |-> fence, from |-> job.from, to |-> job.from,
                                 failed |-> broken]
      BY <1>0, <2>3, <2>5 DEF started
    <3>2. /\ Fenced(Tail(cmds), 0, fence) /\ Follow(Tail(cmds), 0, job.to, m)
          /\ job.from = y /\ y < job.to
      BY <1>0, <1>1, <2>2, <2>5, PipeTail
    <3>3. CASE adapter.fence = fence
      <4>1. Follow(results, k, pub.at, x) /\ Between(x, y, thread, adapter) /\ adapter' = adapter
        BY <2>1, <3>1, <3>3 DEF FlowAt
      <4>2. Between(x, job.to, started, adapter)
        BY <1>0, <1>2, <3>2, <4>1 DEF Between
      <4>3. FlowAt(fence, pub.at, m, results, Tail(cmds), started, adapter, k, 0, x, job.to)
        BY <1>2, <2>2, <2>3, <2>5, <3>2, <3>3, <4>1, <4>2 DEF FlowAt
      <4>4. 0 \in 0 .. Len(Tail(cmds))
        BY <1>1
      <4>5. Flow(fence, pub.at, m, results, Tail(cmds), started, adapter)
        BY <1>1, <4>3, <4>4 DEF Flow
      <4> QED BY <1>0, <3>1, <4>1, <4>5
    <3>4. CASE adapter.fence # fence
      <4>1. k = Len(results) /\ y = pub.at
        BY <2>1, <3>4 DEF FlowAt
      <4>2. /\ adapter'.fence = fence /\ adapter'.from = job.from /\ adapter'.to = job.from
        BY <3>1, <3>4
      <4>3. Between(y, job.to, started, adapter')
        BY <1>1, <1>2, <3>2, <4>2 DEF Between
      <4>4. Follow(results, k, pub.at, y)
        BY <1>1, <4>1 DEF Follow
      <4>5. FlowAt(fence, pub.at, m, results, Tail(cmds), started, adapter', k, 0, y, job.to)
        BY <1>1, <1>2, <2>2, <2>3, <2>5, <3>2, <4>2, <4>3, <4>4 DEF FlowAt
      <4>6. 0 \in 0 .. Len(Tail(cmds))
        BY <1>1
      <4>7. Flow(fence, pub.at, m, results, Tail(cmds), started, adapter')
        BY <1>1, <4>5, <4>6 DEF Flow
      <4> QED BY <1>0, <3>1, <4>7
    <3> QED BY <3>3, <3>4
  <2> QED BY <2>4, <2>5
<1> QED BY <1>0, <1>1, <1>3, <1>4, <1>5, ThreadStep

(* The native call: what it returns continues what the adapter held, and   *)
(* never reaches further than the block it was given.                      *)
LEMMA StepNative ==
  ASSUME AecSeen, Native PROVE AecSeen'
<1> DEFINE job == thread.job
           to == IF job.last THEN adapter.to ELSE job.to
<1>0. UNCHANGED <<owner, cmds, results, pub>> /\ thread.at = "native"
  BY DEF Native
<1>1. PICK ok \in BOOLEAN :
        LET upto == IF to - Held(job, ok) > adapter.from THEN to - Held(job, ok)
                    ELSE adapter.from IN
        /\ adapter' = [adapter EXCEPT !.from = upto, !.to = to, !.failed = @ \/ ~ok]
        /\ thread' = IF upto = adapter.from THEN [thread EXCEPT !.at = "recv", !.job = NoJob]
                     ELSE [at |-> "publish", job |-> NoJob,
                           answer |-> [fence |-> adapter.fence, from |-> adapter.from,
                                       to |-> upto]]
  BY DEF Native
<1> DEFINE h == Held(job, ok)
           upto == IF to - h > adapter.from THEN to - h ELSE adapter.from
           bad == adapter.failed \/ ~ok
           idle == [thread EXCEPT !.at = "recv", !.job = NoJob]
           ans == [fence |-> adapter.fence, from |-> adapter.from, to |-> upto]
           done == [at |-> "publish", job |-> NoJob, answer |-> ans]
<1>t. /\ job \in Request /\ job.from \in Nat /\ job.to \in Nat
      /\ adapter.fence \in Nat /\ adapter.from \in Nat /\ adapter.to \in Nat
      /\ adapter.failed \in BOOLEAN /\ adapter \in Adapters /\ thread \in Threads
      /\ NoJob \in Request
  BY SeenIs, ThreadIs
<1>h. h \in Nat
  <2>1. h = 0 \/ h = Delay
    BY DEF Held
  <2>2. Delay \in Nat
    BY AecBounds
  <2> QED BY <2>1, <2>2
<1>2. /\ adapter' = [adapter EXCEPT !.from = upto, !.to = to, !.failed = bad]
      /\ thread' = IF upto = adapter.from THEN idle ELSE done
  BY <1>1
<1> HIDE DEF h
<1>3. to \in Nat /\ upto \in Nat /\ adapter.from <= upto
  BY <1>t, <1>h
<1>4. ~job.last => to = job.to
  OBVIOUS
<1>5. adapter.from <= to => upto <= to
  BY <1>t, <1>h, <1>3
<1>6. bad \in BOOLEAN
  OBVIOUS
<1> HIDE DEF upto, to, bad
<1>7. /\ adapter' \in Adapters /\ adapter'.fence = adapter.fence /\ adapter'.from = upto
      /\ adapter'.to = to
  BY <1>2, <1>3, <1>6, <1>t DEF Adapters
<1>8. idle \in Threads /\ idle.at = "recv"
  BY <1>t DEF Threads
<1>9. /\ done \in Threads /\ done.at = "publish" /\ done.answer = ans
      /\ ans.fence = adapter.fence /\ ans.from = adapter.from /\ ans.to = upto
  <2>1. ans \in Answer /\ ans.fence = adapter.fence /\ ans.from = adapter.from /\ ans.to = upto
    BY <1>3, <1>t DEF Answer
  <2> HIDE DEF ans
  <2> QED BY <1>t, <2>1 DEF Threads
<1> HIDE DEF idle, done, ans
<1>10. thread' \in Threads /\ thread'.at # "gone" /\ thread.at # "gone"
  BY <1>0, <1>2, <1>8, <1>9
<1>11. ASSUME NEW m \in Nat, Flow(fence, pub.at, m, results, cmds, thread, adapter)
       PROVE  Flow(fence, pub.at, m, results, cmds, thread', adapter')
  <2>1. PICK k \in 0 .. Len(results), j \in 0 .. Len(cmds), x \in Nat, y \in Nat :
          FlowAt(fence, pub.at, m, results, cmds, thread, adapter, k, j, x, y)
    BY <1>11 DEF Flow
  <2>2. ~job.last /\ to = job.to
    BY <1>0, <1>4, <2>1 DEF FlowAt
  <2>3. CASE adapter.fence # fence
    <3>1. thread'.at = "publish" => thread'.answer.fence = adapter'.fence
      BY <1>2, <1>7, <1>8, <1>9
    <3>2. thread'.at # "native"
      BY <1>2, <1>8, <1>9
    <3>3. FlowAt(fence, pub.at, m, results, cmds, thread', adapter', k, j, x, y)
      BY <1>7, <2>1, <2>3, <3>1, <3>2 DEF FlowAt
    <3> QED BY <3>3 DEF Flow
  <2>4. CASE adapter.fence = fence
    <3>1. Follow(results, k, pub.at, x) /\ Between(x, y, thread, adapter)
      BY <2>1, <2>4 DEF FlowAt
    <3>2. /\ x = adapter.from /\ job.from = adapter.to /\ job.to = y /\ adapter.to < y
          /\ adapter.from <= adapter.to
      BY <1>0, <3>1 DEF Between
    <3>3. upto <= to /\ to = y
      BY <1>5, <1>t, <2>2, <3>2
    <3>4. Between(x, y, thread', adapter')
      <4>1. CASE upto = adapter.from
        BY <1>2, <1>7, <1>8, <3>2, <3>3, <4>1 DEF Between
      <4>2. CASE upto # adapter.from
        <5>1. thread' = done /\ adapter.from < upto
          BY <1>2, <1>3, <1>t, <4>2
        <5> QED BY <1>7, <1>9, <3>2, <3>3, <5>1 DEF Between
      <4> QED BY <4>1, <4>2
    <3>5. thread'.at = "publish" => thread'.answer.fence = adapter'.fence
      BY <1>2, <1>7, <1>8, <1>9
    <3>6. thread'.at # "native"
      BY <1>2, <1>8, <1>9
    <3>7. FlowAt(fence, pub.at, m, results, cmds, thread', adapter', k, j, x, y)
      BY <1>7, <2>1, <2>4, <3>1, <3>4, <3>5, <3>6 DEF FlowAt
    <3> QED BY <3>7 DEF Flow
  <2> QED BY <2>3, <2>4
<1> QED BY <1>0, <1>7, <1>10, <1>11, SeenIs, ThreadStep

-----------------------------------------------------------------------------
(* The theorems *)

LEMMA AecStarts ==
  ASSUME AecInit PROVE AecInv
<1>0. /\ next = 0 /\ waiting = <<>> /\ pending = <<>> /\ retained = 0 /\ fence = 2
      /\ open = TRUE /\ stopped = FALSE /\ failed = FALSE /\ plan = <<>>
      /\ cmds = <<>> /\ results = <<>> /\ thread = Idle
      /\ adapter = [fence |-> 1, from |-> 0, to |-> 0, failed |-> FALSE]
      /\ pub = [at |-> 0, fits |-> TRUE] /\ unseen = FALSE
  BY DEF AecInit
<1>e. /\ <<>> \in Seq(Interval) /\ <<>> \in Seq(Request) /\ <<>> \in Seq(Answer)
      /\ <<>> \in Seq(Steps) /\ Len(<<>>) = 0
  OBVIOUS
<1>1. Owner \in Owners /\ Owner.pub = pub /\ Owner.pending = <<>> /\ Owner.waiting = <<>>
        /\ Owner.retained = 0
  BY <1>0, <1>e DEF Owner, Owners
<1>2. thread \in Threads /\ thread.at = "recv"
  <2>1. NoJob \in Request /\ [fence |-> 0, from |-> 0, to |-> 0] \in Answer
    BY DEF NoJob, Request, Answer
  <2> QED BY <1>0, <2>1 DEF Idle, Threads
<1>3. adapter \in Adapters /\ adapter.fence = 1
  BY <1>0 DEF Adapters
<1>4. AecTyped
  BY <1>0, <1>e, <1>1, <1>2, <1>3 DEF AecTyped
<1>5. Calls
  BY <1>0, <1>2 DEF Calls, Admitting
<1>6. Sound(Owner, 0, next)
  BY <1>0, <1>1, TiledNone DEF Sound, Front
<1>7. Flow(fence, pub.at, 0, results, cmds, thread, adapter)
  <2>1. FlowAt(2, 0, 0, <<>>, <<>>, thread, adapter, 0, 0, 0, 0)
    BY <1>2, <1>3 DEF FlowAt, Fenced, Follow
  <2>2. fence = 2 /\ pub.at = 0 /\ 0 \in 0 .. Len(<<>>) /\ 0 \in Nat
    BY <1>0
  <2>3. Flow(2, 0, 0, <<>>, <<>>, thread, adapter)
    BY <2>1, <2>2 DEF Flow
  <2> QED BY <1>0, <2>2, <2>3
<1>8. AecSeen
  BY <1>0, <1>4, <1>5, <1>6, <1>7 DEF AecSeen
<1> QED BY <1>0, <1>8 DEF AecInv

LEMMA AecSteps ==
  ASSUME AecInv, [AecNext]_aecVars PROVE AecInv'
<1>1. CASE unseen
  <2>1. thread.at = "gone"
    BY <1>1 DEF AecInv
  <2>2. UNCHANGED <<thread, unseen>>
    <3>1. CASE UNCHANGED aecVars
      BY <3>1 DEF aecVars, native
    <3>2. CASE WriteMic \/ WriteRaw \/ PollCall \/ NewRoute \/ Fail \/ Finish
      BY <3>2 DEF WriteMic, WriteRaw, PollCall, NewRoute, Fail, Finish, native
    <3>3. CASE OwnerSteps \/ WaitEnds
      BY <3>3 DEF OwnerSteps, WaitEnds, Enqueue, PollStep, DrainStops, DrainNext, Admit,
                  AdmitLater, AdmitRaw, AdmitJob, AdmitBusy, AdmitLost, CloseQueue, WaitPolls, native
    <3>4. CASE Receive \/ Native \/ Panic \/ PublishAnswer \/ ThreadEnds
      BY <2>1, <3>4 DEF Receive, Native, Panic, PublishAnswer, ThreadEnds
    <3> QED BY <3>1, <3>2, <3>3, <3>4 DEF AecNext
  <2> QED BY <1>1, <2>1, <2>2 DEF AecInv
<1>2. CASE ~unseen
  <2>0. AecSeen /\ unseen = FALSE
    BY <1>2 DEF AecInv
  <2>1. CASE Panic
    <3>1. unseen' \in BOOLEAN /\ thread'.at = "gone"
      BY <2>0, <2>1, ThreadIs DEF Panic
    <3> QED BY <2>0, <2>1, <3>1, StepPanic DEF AecInv
  <2>2. CASE UNCHANGED aecVars
    <3>1. UNCHANGED <<next, waiting, pending, retained, fence, open, stopped, failed, plan,
                      cmds, results, thread, adapter, unseen, pub>>
      BY <2>2 DEF aecVars, owner, worker, native
    <3>2. Owner' = Owner /\ (Admitting' <=> Admitting) /\ (Live' <=> Live)
      BY <3>1 DEF Owner, Admitting, Live
    <3>3. PICK m \in Nat : /\ Sound(Owner, m, next)
                           /\ Live => open /\ Flow(fence, pub.at, m, results, cmds, thread, adapter)
      BY <2>0, SeenFlow
    <3>4. AecTyped'
      BY <2>0, <3>1, <3>2, SeenIs DEF AecTyped
    <3>5. Calls'
      BY <2>0, <3>1, <3>2, SeenIs DEF Calls
    <3>6. AecSeen'
      BY <3>1, <3>2, <3>3, <3>4, <3>5 DEF AecSeen
    <3> QED BY <2>0, <3>1, <3>6 DEF AecInv
  <2>3. CASE AecNext /\ ~Panic
    <3>1. unseen' = unseen
      <4>1. CASE WriteMic \/ WriteRaw \/ PollCall \/ NewRoute \/ Fail \/ Finish
        BY <4>1 DEF WriteMic, WriteRaw, PollCall, NewRoute, Fail, Finish, native
      <4>2. CASE OwnerSteps \/ WaitEnds
        BY <4>2 DEF OwnerSteps, WaitEnds, Enqueue, PollStep, DrainStops, DrainNext, Admit,
                    AdmitLater, AdmitRaw, AdmitJob, AdmitBusy, AdmitLost, CloseQueue, WaitPolls, native
      <4>3. CASE Receive \/ Native \/ PublishAnswer \/ ThreadEnds
        BY <4>3 DEF Receive, Native, PublishAnswer, ThreadEnds, native
      <4> QED BY <2>3, <4>1, <4>2, <4>3 DEF AecNext
    <3>2. AecSeen'
      <4>1. CASE WriteMic \/ WriteRaw \/ PollCall \/ NewRoute \/ Fail \/ Finish
        BY <2>0, <4>1, StepWriteMic, StepWriteRaw, StepPollCall, StepNewRoute, StepFail, StepFinish
      <4>2. CASE OwnerSteps \/ WaitEnds
        BY <2>0, <4>2, StepEnqueue, StepPollStep, StepDrainStops, StepDrainNext, StepAdmitLater,
           StepAdmitRaw, StepAdmitJob, StepAdmitBusy, StepAdmitLost, StepCloseQueue, StepWaitPolls, StepWaitEnds
           DEF OwnerSteps, Admit
      <4>3. CASE Receive \/ Native \/ PublishAnswer \/ ThreadEnds
        BY <2>0, <4>3, StepReceive, StepNative, StepPublishAnswer, StepThreadEnds
      <4> QED BY <2>3, <4>1, <4>2, <4>3 DEF AecNext
    <3> QED BY <2>0, <3>1, <3>2 DEF AecInv
  <2> QED BY <2>1, <2>2, <2>3
<1>3. unseen \in BOOLEAN
  BY DEF AecInv
<1> QED BY <1>1, <1>2, <1>3

(* The invariant of live echo cancellation: in every reachable state       *)
(* (unless the thread died where a submission's poll cannot see it) sink,  *)
(* boundary and coordinator tile the microphone, and the generations in    *)
(* the pipes continue one another.                                         *)
THEOREM AecHolds == AecSpec => []AecInv
<1>1. AecInit => AecInv
  BY AecStarts
<1>2. AecInv /\ [AecNext]_aecVars => AecInv'
  BY AecSteps
<1> QED BY <1>1, <1>2, PTL DEF AecSpec

(* The sink gets every microphone frame once and in order, whatever was    *)
(* late, refused, reset, overtaken or cancelled (fotw-pipeline             *)
(* aec_worker.rs, fotwd live_aec/coordinator.rs).                          *)
THEOREM AecMicTiles == AecSpec => []MicTiles
<1>1. AecInv => MicTiles
  <2> SUFFICES ASSUME AecInv, ~unseen PROVE MicTiles
    BY DEF MicTiles
  <2>0. AecSeen
    BY DEF AecInv
  <2>1. PICK m \in Nat : Sound(Owner, m, next)
    BY <2>0, SeenFlow
  <2>2. /\ pub.fits /\ Tiled(pending, pub.at, m) /\ Tiled(waiting, m, next)
        /\ pending \in Seq(Interval) /\ waiting \in Seq(Interval)
    BY <2>0, <2>1, SeenIs DEF Sound, Front
  <2> DEFINE rest == pending \o waiting
  <2>3. /\ Len(pending) \in Nat /\ Len(waiting) \in Nat
        /\ Len(rest) = Len(pending) + Len(waiting) /\ rest \in Seq(Interval)
        /\ pending = <<>> <=> Len(pending) = 0
        /\ waiting = <<>> <=> Len(waiting) = 0
    BY <2>2
  <2>4. /\ \A i \in 1 .. Len(pending) : rest[i] = pending[i]
        /\ \A i \in 1 .. Len(waiting) : rest[Len(pending) + i] = waiting[i]
    BY <2>2
  <2> HIDE DEF rest
  <2>5. rest = <<>> => pub.at = next
    <3> SUFFICES ASSUME rest = <<>> PROVE pub.at = next
      OBVIOUS
    <3>1. pending = <<>> /\ waiting = <<>>
      BY <2>3
    <3> QED BY <2>2, <3>1 DEF Tiled
  <2>6. rest # <<>> => rest[1].from = pub.at /\ rest[Len(rest)].to = next
    <3> SUFFICES ASSUME rest # <<>> PROVE rest[1].from = pub.at /\ rest[Len(rest)].to = next
      OBVIOUS
    <3>0. pending # <<>> \/ waiting # <<>>
      BY <2>3
    <3>1. rest[1].from = pub.at
      <4>1. CASE pending = <<>>
        <5>1. rest[1] = waiting[1] /\ pub.at = m
          BY <2>2, <2>3, <2>4, <3>0, <4>1 DEF Tiled
        <5> QED BY <2>2, <3>0, <4>1, <5>1 DEF Tiled
      <4>2. CASE pending # <<>>
        BY <2>2, <2>3, <2>4, <4>2 DEF Tiled
      <4> QED BY <4>1, <4>2
    <3>2. rest[Len(rest)].to = next
      <4>1. CASE waiting = <<>>
        <5>1. m = next /\ Len(rest) = Len(pending) /\ Len(pending) \in 1 .. Len(pending)
          BY <2>2, <2>3, <3>0, <4>1 DEF Tiled
        <5>2. pending[Len(pending)].to = m
          BY <2>2, <3>0, <4>1 DEF Tiled
        <5> QED BY <2>4, <5>1, <5>2
      <4>2. CASE waiting # <<>>
        <5>1. Len(waiting) \in 1 .. Len(waiting)
          BY <2>3, <4>2
        <5>2. waiting[Len(waiting)].to = next
          BY <2>2, <4>2 DEF Tiled
        <5> QED BY <2>3, <2>4, <5>1, <5>2
      <4> QED BY <4>1, <4>2
    <3> QED BY <3>1, <3>2
  <2>7. ASSUME NEW i \in 1 .. Len(rest) - 1 PROVE rest[i].to = rest[i + 1].from
    <3>1. CASE i < Len(pending)
      <4>1. /\ i \in 1 .. Len(pending) - 1 /\ i \in 1 .. Len(pending) /\ i + 1 \in 1 .. Len(pending)
        BY <2>3, <3>1
      <4>2. pending[i].to = pending[i + 1].from
        BY <2>2, <4>1 DEF Tiled
      <4> QED BY <2>4, <4>1, <4>2
    <3>2. CASE i = Len(pending)
      <4>1. /\ i \in 1 .. Len(pending) /\ 1 \in 1 .. Len(waiting)
            /\ pending # <<>> /\ waiting # <<>>
        BY <2>3, <3>2
      <4>2. rest[i] = pending[i] /\ rest[i + 1] = waiting[1]
        BY <2>4, <3>2, <4>1
      <4>3. pending[i].to = m /\ waiting[1].from = m
        BY <2>2, <3>2, <4>1 DEF Tiled
      <4> QED BY <4>2, <4>3
    <3>3. CASE i > Len(pending)
      <4> DEFINE n == i - Len(pending)
      <4>1. /\ n \in 1 .. Len(waiting) - 1 /\ n \in 1 .. Len(waiting) /\ n + 1 \in 1 .. Len(waiting)
            /\ Len(pending) + n = i /\ Len(pending) + (n + 1) = i + 1
        BY <2>3, <3>3
      <4> HIDE DEF n
      <4>2. waiting[n].to = waiting[n + 1].from
        BY <2>2, <4>1 DEF Tiled
      <4>3. rest[i] = waiting[n] /\ rest[i + 1] = waiting[n + 1]
        BY <2>4, <4>1
      <4> QED BY <4>2, <4>3
    <3> QED BY <2>3, <3>1, <3>2, <3>3
  <2> QED BY <2>2, <2>5, <2>6, <2>7 DEF MicTiles, rest
<1> QED BY <1>1, AecHolds, PTL

(* A backend whose thread runs and that nobody stopped stays in use: every *)
(* answer of the current generation that reaches the owner continues where *)
(* the sink stands (fotw-pipeline aec_worker.rs poll, accept).             *)
THEOREM AecHealthyIsKept == AecSpec => []HealthyIsKept
<1>1. AecInv => HealthyIsKept
  <2> SUFFICES ASSUME AecInv, thread.at # "gone", ~stopped, ~failed PROVE open
    BY DEF HealthyIsKept
  <2>1. AecSeen /\ Live
    BY DEF AecInv, Live
  <2> QED BY <2>1, SeenFlow
<1> QED BY <1>1, AecHolds, PTL

-----------------------------------------------------------------------------
(* The streaming recognizer: the inductive invariant.                      *)

(* The last confirmed sample, on the leg's own clock.                      *)
Done == LegMs(anchor)

(* Where the utterance in progress begins on this connection.              *)
Base == IF norm.held # Nothing THEN norm.held[1] ELSE wire.chunk

ShapeInv ==
    /\ confirmed \in BOOLEAN /\ fed \in 0..Len(Text) /\ anchor \in Nat
    /\ heard \subseteq Samples /\ lost \subseteq Nat
    /\ at \in {"connecting", "open", "waiting", "done"}
    /\ ring \in [first: Nat, last: Nat] /\ ring.first <= ring.last /\ ring.last <= fed
    /\ wire \in [start: Nat, sent: Nat, chunk: Nat]
    /\ norm \in [conn: Nat, held: Nat \X Nat, open: Nat \X Nat]

(* The samples on their way are the next ones, in order.                   *)
InboxInv ==
    /\ inbox \in Seq(Samples \cup {FlushCmd, CloseCmd})
    /\ \A i \in DOMAIN inbox : inbox[i] \in Samples => ring.last < inbox[i] /\ inbox[i] <= fed
    /\ \A i, k \in DOMAIN inbox :
          i < k /\ inbox[i] \in Samples /\ inbox[k] \in Samples => inbox[i] < inbox[k]

(* The anchor is the end of the last utterance heard; nothing before it is *)
(* unaccounted for, and before the first connection nothing has moved.     *)
AnchorInv ==
    /\ \/ heard = {} /\ anchor = 0
       \/ \E a \in heard : anchor = Offset + a /\ \A p \in heard : p <= a
    /\ Done <= ring.last
    /\ \A p \in 1..Done : p \in heard \cup lost
    /\ first => /\ anchor = 0 /\ ring.last = 0 /\ norm.conn = 0
                /\ at \in {"connecting", "done"}

(* An open connection has been sent all there is, its clock is where its   *)
(* replay began, and what lies before the utterance is accounted for.      *)
OpenInv ==
    at = "open" =>
        /\ wire.sent = ring.last /\ norm.conn = wire.start
        /\ wire.start <= Base /\ Base <= wire.chunk /\ wire.chunk <= wire.sent
        /\ \A p \in 1..Base : p \in heard \cup lost

(* A confirmed stream goes on exactly at its anchor.                       *)
TileInv ==
    confirmed =>
        /\ armed = FALSE
        /\ at = "open" => Base = Done
        /\ \A p \in Samples : shown[p] = IF p <= Done THEN 1 ELSE 0

StreamInv == ShapeInv /\ InboxInv /\ AnchorInv /\ OpenInv /\ TileInv

-----------------------------------------------------------------------------
(* Lemmas about the operators.                                             *)

\* The larger of two numbers.
LEMMA MaxTwo ==
  ASSUME NEW a \in Int, NEW b \in Int
  PROVE  Max({a, b}) = IF a >= b THEN a ELSE b
<1> DEFINE m == IF a >= b THEN a ELSE b
<1>1. m \in {a, b} /\ \A y \in {a, b} : m >= y
  OBVIOUS
<1>2. \A x \in {a, b} : (\A y \in {a, b} : x >= y) => x = m
  OBVIOUS
<1> HIDE DEF m
<1>3. Max({a, b}) = m
  BY <1>1, <1>2 DEF Max
<1>4. QED
  BY <1>3 DEF m

\* The smaller of two numbers.
LEMMA MinTwo ==
  ASSUME NEW a \in Int, NEW b \in Int
  PROVE  Min({a, b}) = IF a <= b THEN a ELSE b
<1> DEFINE m == IF a <= b THEN a ELSE b
<1>1. m \in {a, b} /\ \A y \in {a, b} : m <= y
  OBVIOUS
<1>2. \A x \in {a, b} : (\A y \in {a, b} : x <= y) => x = m
  OBVIOUS
<1> HIDE DEF m
<1>3. Min({a, b}) = m
  BY <1>1, <1>2 DEF Min
<1>4. QED
  BY <1>3 DEF m

\* The largest of a set is the member no other exceeds.
LEMMA MaxIs ==
  ASSUME NEW S \in SUBSET Int, NEW a \in S, \A p \in S : p <= a
  PROVE  Max(S) = a
<1>1. \A y \in S : a >= y
  OBVIOUS
<1>2. \A x \in S : (\A y \in S : x >= y) => x = a
  OBVIOUS
<1>3. QED
  BY <1>1, <1>2 DEF Max

\* A session time on the leg's clock: the leg's offset less, and never negative.
LEMMA LegFacts ==
  ASSUME NEW t \in Nat
  PROVE  /\ LegMs(t) \in Nat
         /\ LegMs(t) = IF t >= Offset THEN t - Offset ELSE 0
<1>1. Offset \in Nat /\ t - Offset \in Int /\ 0 \in Int
  BY StreamBounds
<1>2. LegMs(t) = IF 0 >= t - Offset THEN 0 ELSE t - Offset
  BY <1>1, MaxTwo DEF LegMs
<1>3. QED
  BY <1>1, <1>2

\* The anchor's sample is the last one heard.
LEMMA DoneFacts ==
  ASSUME ShapeInv, AnchorInv
  PROVE  /\ Done \in Nat
         /\ heard = {} => Done = 0 /\ anchor = 0
         /\ heard # {} => Done \in heard /\ anchor = Offset + Done /\ \A p \in heard : p <= Done
<1>1. anchor \in Nat /\ heard \subseteq Nat /\ Offset \in Nat
  BY StreamBounds DEF ShapeInv, Samples
<1>2. CASE heard = {}
  BY <1>1, <1>2, LegFacts DEF AnchorInv, Done
<1>3. CASE heard # {}
  <2>1. PICK a \in heard : anchor = Offset + a /\ \A p \in heard : p <= a
    BY <1>3 DEF AnchorInv
  <2>2. Done = a
    BY <1>1, <2>1, LegFacts DEF Done
  <2>3. QED
    BY <1>1, <1>3, <2>1, <2>2
<1>4. QED
  BY <1>2, <1>3

\* The ring slides over one sample more.
LEMMA PushedFacts ==
  ASSUME ShapeInv
  PROVE  /\ Pushed \in [first: Nat, last: Nat] /\ Pushed.last = ring.last + 1
         /\ Pushed.first <= Pushed.last
<1>1. ring.first \in Nat /\ ring.last \in Nat /\ ring.first <= ring.last /\ Window \in Nat
  BY StreamBounds DEF ShapeInv
<1> DEFINE f == Max({ring.first, ring.last + 1 - Window})
<1>2. f \in Nat /\ f <= ring.last + 1
  BY <1>1, MaxTwo
<1> HIDE DEF f
<1>3. Pushed = [first |-> f, last |-> ring.last + 1]
  BY DEF Pushed, f
<1>4. QED
  BY <1>1, <1>2, <1>3

\* The replay starts inside what the ring retains, where it was asked if it can.
LEMMA ReplayFacts ==
  ASSUME ShapeInv, AnchorInv
  PROVE  /\ Replay \in Nat /\ Replay <= ring.last /\ Requested = Done
         /\ Replay >= Done
<1>1. /\ ring.first \in Nat /\ ring.last \in Nat /\ ring.first <= ring.last /\ Done \in Nat
      /\ Done <= ring.last /\ Requested = Done
  BY DoneFacts DEF ShapeInv, AnchorInv, Requested, Done
<1> DEFINE m == Max({ring.first, Requested})
<1>2. m = IF ring.first >= Done THEN ring.first ELSE Done
  BY <1>1, MaxTwo
<1>3. m \in Nat
  BY <1>1, <1>2
<1>4. Replay = Min({ring.last, m})
  BY DEF Replay
<1> HIDE DEF m
<1>5. Replay = IF ring.last <= m THEN ring.last ELSE m
  BY <1>1, <1>3, <1>4, MinTwo
<1>6. QED
  BY <1>1, <1>2, <1>3, <1>5

\* A command, or the next sample, joins the queue.
LEMMA InboxGrows ==
  ASSUME StreamInv, UNCHANGED ring,
         \/ /\ fed < Len(Text) /\ fed' = fed + 1 /\ inbox' = Append(inbox, fed + 1)
         \/ fed' = fed /\ \E c \in {FlushCmd, CloseCmd} : inbox' = Append(inbox, c)
         \/ UNCHANGED <<fed, inbox>>
  PROVE  InboxInv' /\ fed' \in 0..Len(Text) /\ fed <= fed'
<1>1. /\ fed \in 0..Len(Text) /\ ring.last \in Nat /\ ring.last <= fed /\ Len(Text) \in Nat
      /\ inbox \in Seq(Samples \cup {FlushCmd, CloseCmd})
  BY StreamBounds DEF StreamInv, ShapeInv, InboxInv
<1>2. \A i \in DOMAIN inbox : inbox[i] \in Samples => ring.last < inbox[i] /\ inbox[i] <= fed
  BY DEF StreamInv, InboxInv
<1>3. \A i, k \in DOMAIN inbox :
          i < k /\ inbox[i] \in Samples /\ inbox[k] \in Samples => inbox[i] < inbox[k]
  BY DEF StreamInv, InboxInv
<1>4. CASE UNCHANGED <<fed, inbox>>
  BY <1>1, <1>4 DEF StreamInv, InboxInv
<1>5. CASE ~UNCHANGED <<fed, inbox>>
  <2>1. PICK c \in Samples \cup {FlushCmd, CloseCmd} :
           /\ inbox' = Append(inbox, c)
           /\ c \in Samples => c = fed + 1 /\ fed' = fed + 1
           /\ fed' \in {fed, fed + 1} /\ fed' \in 0..Len(Text)
    BY <1>1, <1>5 DEF Samples, FlushCmd, CloseCmd
  <2>0. fed \in Nat /\ fed' \in Nat /\ fed <= fed'
    BY <1>1, <2>1
  <2>2. /\ inbox' \in Seq(Samples \cup {FlushCmd, CloseCmd}) /\ Len(inbox') = Len(inbox) + 1
        /\ Len(inbox) \in Nat /\ DOMAIN inbox = 1..Len(inbox) /\ DOMAIN inbox' = 1..Len(inbox')
        /\ \A i \in DOMAIN inbox : inbox'[i] = inbox[i]
        /\ inbox'[Len(inbox')] = c
    BY <1>1, <2>1, AppendProperties, LenProperties
  <2>3. \A i \in DOMAIN inbox' : i \in DOMAIN inbox \/ i = Len(inbox')
    BY <2>2
  <2>4. \A i \in DOMAIN inbox' : inbox'[i] \in Samples => ring.last < inbox'[i] /\ inbox'[i] <= fed'
    <3> SUFFICES ASSUME NEW i \in DOMAIN inbox', inbox'[i] \in Samples
                 PROVE  ring.last < inbox'[i] /\ inbox'[i] <= fed'
      OBVIOUS
    <3>1. CASE i \in DOMAIN inbox
      <4>1. inbox[i] \in Nat /\ inbox'[i] = inbox[i] /\ ring.last < inbox[i] /\ inbox[i] <= fed
        BY <1>2, <2>2, <3>1 DEF Samples
      <4>2. QED
        BY <1>1, <2>0, <4>1
    <3>2. CASE i = Len(inbox')
      <4>1. inbox'[i] = c /\ c = fed + 1 /\ fed' = fed + 1
        BY <2>1, <2>2, <3>2
      <4>2. QED
        BY <1>1, <4>1
    <3>3. QED
      BY <2>3, <3>1, <3>2
  <2>5. \A i, k \in DOMAIN inbox' :
          i < k /\ inbox'[i] \in Samples /\ inbox'[k] \in Samples => inbox'[i] < inbox'[k]
    <3> SUFFICES ASSUME NEW i \in DOMAIN inbox', NEW k \in DOMAIN inbox', i < k,
                        inbox'[i] \in Samples, inbox'[k] \in Samples
                 PROVE  inbox'[i] < inbox'[k]
      OBVIOUS
    <3>1. i \in DOMAIN inbox /\ inbox'[i] = inbox[i] /\ inbox[i] \in Nat
      BY <2>2 DEF Samples
    <3>2. CASE k \in DOMAIN inbox
      BY <1>3, <2>2, <3>1, <3>2
    <3>3. CASE k = Len(inbox')
      <4>1. inbox'[k] = c /\ c = fed + 1
        BY <2>1, <2>2, <3>3
      <4>2. inbox[i] <= fed
        BY <1>2, <3>1
      <4>3. QED
        BY <2>0, <3>1, <4>1, <4>2
    <3>4. QED
      BY <2>3, <3>2, <3>3
  <2>6. InboxInv'
    BY <2>2, <2>4, <2>5 DEF InboxInv
  <2>7. QED
    BY <2>0, <2>1, <2>6
<1>6. QED
  BY <1>4, <1>5

\* The first command is taken; a sample goes into the ring as its next.
LEMMA InboxTaken ==
  ASSUME StreamInv, inbox # <<>>, inbox' = Tail(inbox), UNCHANGED fed,
         ring' = (IF Head(inbox) \in Samples THEN Pushed ELSE ring)
  PROVE  /\ InboxInv' /\ ring' \in [first: Nat, last: Nat] /\ ring'.first <= ring'.last
         /\ ring'.last <= fed /\ ring.last <= ring'.last
<1>1. /\ fed \in Nat /\ ring.last \in Nat /\ ring.last <= fed /\ ring \in [first: Nat, last: Nat]
      /\ ring.first <= ring.last
      /\ inbox \in Seq(Samples \cup {FlushCmd, CloseCmd}) /\ ShapeInv
  BY StreamBounds, SMTT(30) DEF StreamInv, ShapeInv, InboxInv
<1>2. /\ inbox' \in Seq(Samples \cup {FlushCmd, CloseCmd}) /\ Len(inbox) \in Nat
      /\ Len(inbox') = Len(inbox) - 1 /\ DOMAIN inbox = 1..Len(inbox)
      /\ DOMAIN inbox' = 1..Len(inbox') /\ Head(inbox) = inbox[1] /\ 1 \in DOMAIN inbox
      /\ \A i \in DOMAIN inbox' : inbox'[i] = inbox[i + 1] /\ i + 1 \in DOMAIN inbox
  <2>1. Len(inbox) \in Nat /\ Len(inbox) # 0
    BY <1>1, EmptySeq, LenProperties
  <2>2. QED
    BY <1>1, <2>1, HeadTailProperties, LenProperties
<1>3. \A i \in DOMAIN inbox : inbox[i] \in Samples => ring.last < inbox[i] /\ inbox[i] <= fed
  BY DEF StreamInv, InboxInv
<1>4. \A i, k \in DOMAIN inbox :
          i < k /\ inbox[i] \in Samples /\ inbox[k] \in Samples => inbox[i] < inbox[k]
  BY DEF StreamInv, InboxInv
<1>5. /\ ring' \in [first: Nat, last: Nat] /\ ring'.first <= ring'.last
      /\ ring'.last = IF Head(inbox) \in Samples THEN ring.last + 1 ELSE ring.last
  BY <1>1, PushedFacts
<1>6. ring'.last <= fed /\ ring.last <= ring'.last
  <2>1. inbox[1] \in Samples => inbox[1] \in Nat /\ ring.last < inbox[1] /\ inbox[1] <= fed
    BY <1>2, <1>3 DEF Samples
  <2>2. QED
    BY <1>1, <1>2, <1>5, <2>1
<1>7. \A i \in DOMAIN inbox' : inbox'[i] \in Samples => ring'.last < inbox'[i] /\ inbox'[i] <= fed
  <2> SUFFICES ASSUME NEW i \in DOMAIN inbox', inbox'[i] \in Samples
               PROVE  ring'.last < inbox'[i] /\ inbox'[i] <= fed
    OBVIOUS
  <2>1. /\ i + 1 \in DOMAIN inbox /\ inbox'[i] = inbox[i + 1] /\ inbox[i + 1] \in Nat
        /\ ring.last < inbox[i + 1] /\ inbox[i + 1] <= fed /\ 1 < i + 1
    BY <1>2, <1>3 DEF Samples
  <2>2. inbox[1] \in Samples => /\ inbox[1] \in Nat /\ inbox[1] < inbox[i + 1]
                                /\ ring.last < inbox[1]
    BY <1>2, <1>3, <1>4, <2>1 DEF Samples
  <2>3. QED
    BY <1>1, <1>2, <1>5, <2>1, <2>2
<1>8. \A i, k \in DOMAIN inbox' :
          i < k /\ inbox'[i] \in Samples /\ inbox'[k] \in Samples => inbox'[i] < inbox'[k]
  BY <1>2, <1>4
<1>9. QED
  BY <1>2, <1>5, <1>6, <1>7, <1>8 DEF InboxInv

-----------------------------------------------------------------------------
(* The steps.                                                              *)

\* A stream begins with nothing fed, heard or shown.
LEMMA InitInv ==
  ASSUME Init
  PROVE  StreamInv
<1>1. Len(Text) \in Nat /\ Modes \subseteq BOOLEAN /\ Offset \in Nat
  BY StreamBounds
<1>2. Done = 0
  BY <1>1, LegFacts DEF Init, Done
<1>3. Base = 0
  BY DEF Init, Base, Nothing
<1>4. ShapeInv
  BY <1>1 DEF Init, ShapeInv, Nothing
<1>5. InboxInv
  BY EmptySeq DEF Init, InboxInv
<1>6. AnchorInv
  BY <1>2 DEF Init, AnchorInv
<1>7. OpenInv
  BY DEF Init, OpenInv
<1>8. TileInv
  BY <1>2 DEF Init, TileInv, Samples
<1>9. QED
  BY <1>4, <1>5, <1>6, <1>7, <1>8 DEF StreamInv

\* A step that hears nothing keeps the invariant: the ring may grow, and a
\* connection that stays open is sent what entered it.
LEMMA NothingHeard ==
  ASSUME StreamInv, InboxInv', UNCHANGED <<confirmed, anchor, heard, lost>>,
         fed' \in 0..Len(Text), ring' \in [first: Nat, last: Nat],
         ring'.first <= ring'.last, ring'.last <= fed', ring.last <= ring'.last,
         first' => first /\ ring' = ring /\ norm'.conn = norm.conn
                         /\ at' \in {"connecting", "done"},
         at' \in {"connecting", "open", "waiting", "done"},
         wire' \in [start: Nat, sent: Nat, chunk: Nat],
         norm' \in [conn: Nat, held: Nat \X Nat, open: Nat \X Nat],
         confirmed => armed' = armed /\ shown' = shown,
         at' = "open" => /\ at = "open" /\ norm' = norm /\ wire'.start = wire.start
                         /\ wire'.chunk = wire.chunk /\ wire'.sent = ring'.last
  PROVE  StreamInv'
<1>1. ShapeInv /\ AnchorInv /\ OpenInv /\ TileInv
  BY DEF StreamInv
<1>2. Done' = Done /\ Done \in Nat /\ ring.last \in Nat /\ ring'.last \in Nat
  BY <1>1, DoneFacts DEF Done, ShapeInv, LegMs
<1>3. at' = "open" => Base' = Base
  BY DEF Base
<1>4. ShapeInv'
  BY <1>1 DEF ShapeInv
<1>5. AnchorInv'
  BY <1>1, <1>2, SMTT(30) DEF AnchorInv
<1>6. OpenInv'
  <2> SUFFICES ASSUME at' = "open"
               PROVE  /\ wire'.sent = ring'.last /\ norm'.conn = wire'.start
                      /\ wire'.start <= Base' /\ Base' <= wire'.chunk
                      /\ wire'.chunk <= wire'.sent
                      /\ \A p \in 1..Base' : p \in heard' \cup lost'
    BY DEF OpenInv
  <2>1. wire.sent = ring.last /\ norm.conn = wire.start /\ wire.start <= Base
        /\ Base <= wire.chunk /\ wire.chunk <= wire.sent /\ wire.chunk \in Nat
        /\ \A p \in 1..Base : p \in heard \cup lost
    BY <1>1 DEF OpenInv, ShapeInv
  <2>2. QED
    BY <1>2, <1>3, <2>1
<1>7. TileInv'
  BY <1>1, <1>2, <1>3 DEF TileInv
<1>8. QED
  BY <1>4, <1>5, <1>6, <1>7 DEF StreamInv

\* The pipeline's calls, and an abort, only queue or stop.
LEMMA PipelineInv ==
  ASSUME StreamInv, Write \/ Flush \/ Close \/ Abort
  PROVE  StreamInv'
<1>1. /\ UNCHANGED <<ring, confirmed, anchor, heard, lost, first, wire, norm, armed, shown>>
      /\ at' = at \/ at' = "done"
  BY DEF Write, Flush, Close, Abort, driver, speech
<1>2. \/ fed < Len(Text) /\ fed' = fed + 1 /\ inbox' = Append(inbox, fed + 1)
      \/ fed' = fed /\ \E c \in {FlushCmd, CloseCmd} : inbox' = Append(inbox, c)
      \/ UNCHANGED <<fed, inbox>>
  BY DEF Write, Flush, Close, Abort
<1>3. InboxInv' /\ fed' \in 0..Len(Text) /\ fed <= fed'
  BY <1>1, <1>2, InboxGrows
<1>4. ShapeInv /\ OpenInv /\ AnchorInv
  BY DEF StreamInv
<1>5. /\ ring' \in [first: Nat, last: Nat] /\ ring'.first <= ring'.last
      /\ ring'.last <= fed' /\ ring.last <= ring'.last
  <2>1. /\ ring \in [first: Nat, last: Nat] /\ ring.first <= ring.last /\ ring.last <= fed
        /\ fed \in Nat /\ ring.last \in Nat
    BY <1>4, StreamBounds DEF ShapeInv
  <2>2. QED
    BY <1>1, <1>3, <2>1, StreamBounds
<1>6. /\ at' = "open" => at = "open" /\ wire.sent = ring.last
      /\ at' \in {"connecting", "open", "waiting", "done"}
      /\ first => at' \in {"connecting", "done"}
  BY <1>1, <1>4 DEF OpenInv, ShapeInv, AnchorInv
<1>7. /\ wire' \in [start: Nat, sent: Nat, chunk: Nat]
      /\ norm' \in [conn: Nat, held: Nat \X Nat, open: Nat \X Nat]
  BY <1>1, <1>4 DEF ShapeInv
<1>8. QED
  BY <1>1, <1>3, <1>5, <1>6, <1>7, NothingHeard

\* The end of a run gives up the utterance in progress; a confirmed stream does
\* not show it.
LEMMA EndsFacts ==
  ASSUME StreamInv, Ends
  PROVE  /\ at' = "done" /\ norm'.conn = norm.conn
         /\ norm' \in [conn: Nat, held: Nat \X Nat, open: Nat \X Nat]
         /\ confirmed => shown' = shown
<1>1. norm \in [conn: Nat, held: Nat \X Nat, open: Nat \X Nat]
  BY DEF StreamInv, ShapeInv
<1>2. QED
  BY <1>1 DEF Ends, Nothing

\* A failure waits or ends the run.
LEMMA FailedFacts ==
  ASSUME StreamInv, NEW class, Failed(class)
  PROVE  /\ at' \in {"waiting", "done"} /\ norm'.conn = norm.conn
         /\ norm' \in [conn: Nat, held: Nat \X Nat, open: Nat \X Nat]
         /\ confirmed => shown' = shown
<1>1. norm \in [conn: Nat, held: Nat \X Nat, open: Nat \X Nat]
  BY DEF StreamInv, ShapeInv
<1>2. \/ at' = "waiting" /\ UNCHANGED <<norm, shown>>
      \/ Ends
  BY DEF Failed
<1>3. QED
  BY <1>1, <1>2, EndsFacts

\* A refused or broken connection, and the end of a back-off.
LEMMA BreakInv ==
  ASSUME StreamInv, Refused \/ Broken \/ Retry
  PROVE  StreamInv'
<1>1. /\ UNCHANGED <<ring, fed, inbox, confirmed, anchor, heard, lost, wire, armed>>
      /\ first' => first /\ at # "connecting"
  BY DEF Refused, Broken, Retry, speech
<1>2. ShapeInv /\ InboxInv /\ AnchorInv
  BY DEF StreamInv
<1>3. /\ at' \in {"waiting", "done", "connecting"} /\ norm'.conn = norm.conn
      /\ norm' \in [conn: Nat, held: Nat \X Nat, open: Nat \X Nat]
      /\ confirmed => shown' = shown
  <2>1. CASE Retry
    BY <1>2, <2>1 DEF Retry, speech, ShapeInv
  <2>2. CASE Refused \/ Broken
    <3>1. PICK class : Failed(class)
      BY <2>2 DEF Refused, Broken
    <3>2. QED
      BY <3>1, FailedFacts
  <2>3. QED
    BY <2>1, <2>2
<1>4. ~first'
  BY <1>1, <1>2 DEF AnchorInv, Refused, Broken, Retry
<1>5. InboxInv' /\ fed' \in 0..Len(Text) /\ ring' \in [first: Nat, last: Nat]
      /\ ring'.first <= ring'.last /\ ring'.last <= fed' /\ ring.last <= ring'.last
      /\ wire' \in [start: Nat, sent: Nat, chunk: Nat]
  BY <1>1, <1>2 DEF InboxInv, ShapeInv
<1>6. QED
  BY <1>1, <1>3, <1>4, <1>5, NothingHeard

\* A command taken on an open connection, or while the driver waits.
LEMMA CommandInv ==
  ASSUME StreamInv, Command \/ Waits
  PROVE  StreamInv'
<1>1. /\ inbox # <<>> /\ inbox' = Tail(inbox) /\ at \in {"open", "waiting"}
      /\ UNCHANGED <<fed, confirmed, anchor, heard, lost, armed>>
      /\ ring' = IF Head(inbox) \in Samples THEN Pushed ELSE ring
  BY StreamBounds DEF Command, Waits, Samples, FlushCmd, CloseCmd
<1>2. /\ InboxInv' /\ ring' \in [first: Nat, last: Nat] /\ ring'.first <= ring'.last
      /\ ring'.last <= fed /\ ring.last <= ring'.last
  BY <1>1, InboxTaken
<1>3. ShapeInv /\ AnchorInv /\ OpenInv
  BY DEF StreamInv
<1>4. ~first /\ first' = first
  BY <1>1, <1>3 DEF AnchorInv, Command, Waits, driver
<1>5. CASE at' = "open"
  <2>1. at = "open" /\ Command
    <3>1. Waits => at = "waiting" /\ (at' = at \/ at' = "done")
      BY DEF Waits, driver, Ends
    <3>2. Command => at = "open"
      BY DEF Command
    <3>3. QED
      BY <1>5, <3>1, <3>2
  <2>2. /\ UNCHANGED <<norm, shown>>
        /\ \/ Head(inbox) \in Samples /\ wire' = [wire EXCEPT !.sent = Pushed.last]
           \/ Head(inbox) = FlushCmd /\ UNCHANGED <<ring, wire>>
    BY <1>5, <2>1, EndsFacts, FailedFacts DEF Command
  <2>3. Pushed.last \in Nat
    BY <1>3, PushedFacts DEF ShapeInv
  <2>4. /\ wire' \in [start: Nat, sent: Nat, chunk: Nat] /\ wire'.start = wire.start
        /\ wire'.chunk = wire.chunk /\ wire'.sent = ring'.last
    BY <1>1, <1>3, <2>1, <2>2, <2>3 DEF ShapeInv, OpenInv
  <2>5. QED
    BY <1>1, <1>2, <1>3, <1>4, <1>5, <2>1, <2>2, <2>4, NothingHeard DEF ShapeInv
<1>6. CASE at' # "open"
  <2>1. \/ UNCHANGED <<at, norm, shown, wire>>
        \/ Ends /\ UNCHANGED wire
        \/ Failed("network") /\ UNCHANGED wire
    BY <1>1, <1>6 DEF Command, Waits, driver
  <2>2. /\ at' \in {"waiting", "done"} /\ UNCHANGED wire
        /\ norm' \in [conn: Nat, held: Nat \X Nat, open: Nat \X Nat]
        /\ confirmed => shown' = shown
    BY <1>1, <1>3, <1>6, <2>1, EndsFacts, FailedFacts DEF ShapeInv
  <2>3. wire' \in [start: Nat, sent: Nat, chunk: Nat] /\ fed' \in 0..Len(Text)
    BY <1>1, <1>3, <2>2 DEF ShapeInv
  <2>4. QED
    BY <1>1, <1>2, <1>4, <1>6, <2>2, <2>3, NothingHeard
<1>7. QED
  BY <1>5, <1>6

\* A connection opens: its replay starts where everything before is accounted
\* for, and what the ring could not cover is reported.
LEMMA OpenedInv ==
  ASSUME StreamInv, Opened
  PROVE  StreamInv'
<1> DEFINE missing == (Requested + 1)..Replay
           seg == IF Dangling THEN Trimmed(norm.open) ELSE Nothing
           conn == IF first THEN norm.conn ELSE Rebased
<1>1. ShapeInv /\ AnchorInv /\ InboxInv /\ TileInv
  BY DEF StreamInv
<1>2. Replay \in Nat /\ Replay <= ring.last /\ Requested = Done /\ Replay >= Done
      /\ Done \in Nat /\ ring.last \in Nat
  BY <1>1, ReplayFacts, DoneFacts DEF ShapeInv
<1>3. conn \in Nat /\ conn = Replay
  BY <1>1, <1>2 DEF AnchorInv, Rebased
<1>4. missing \subseteq Nat /\ missing = (Done + 1)..Replay
  BY <1>2
<1>5. /\ UNCHANGED <<confirmed, fed, inbox, ring, anchor, heard>> /\ ~first'
      /\ norm' = [norm EXCEPT !.conn = conn, !.held = Nothing, !.open = Nothing]
      /\ armed' = (~first /\ ~confirmed)
      /\ IF missing # {} /\ confirmed
         THEN at' = "done" /\ UNCHANGED <<wire, lost>>
         ELSE /\ at' = "open"
              /\ wire' = [start |-> Replay, sent |-> ring.last, chunk |-> Replay]
              /\ lost' = lost \cup missing
  BY DEF Opened
<1>6. confirmed => shown' = shown
  <2>1. IF seg[1] < seg[2] THEN CommitFinal(seg) ELSE UNCHANGED <<shown, tail>>
    BY DEF Opened
  <2>2. confirmed => seg = <<0, 0>>
    BY DEF Dangling, Nothing
  <2> HIDE DEF seg
  <2>3. QED
    BY <2>1, <2>2
<1> HIDE DEF missing, seg, conn
<1>7. norm' \in [conn: Nat, held: Nat \X Nat, open: Nat \X Nat] /\ norm'.conn = Replay
      /\ norm'.held = Nothing
  BY <1>1, <1>3, <1>5 DEF ShapeInv, Nothing
<1>8. Done' = Done
  BY <1>5 DEF Done, LegMs
<1>9. lost \subseteq lost' /\ lost' \subseteq Nat
  BY <1>1, <1>4, <1>5 DEF ShapeInv
<1>10. ShapeInv'
  <2>1. wire' \in [start: Nat, sent: Nat, chunk: Nat]
    BY <1>1, <1>2, <1>5 DEF ShapeInv
  <2>2. QED
    BY <1>1, <1>5, <1>7, <1>9, <2>1 DEF ShapeInv
<1>11. InboxInv'
  BY <1>1, <1>5 DEF InboxInv
<1>12. AnchorInv'
  BY <1>1, <1>5, <1>8, <1>9 DEF AnchorInv
<1>13. at' = "open" => Base' = Replay
  BY <1>5, <1>7 DEF Base
<1>14. OpenInv'
  <2> SUFFICES ASSUME at' = "open"
               PROVE  /\ wire'.sent = ring'.last /\ norm'.conn = wire'.start
                      /\ wire'.start <= Base' /\ Base' <= wire'.chunk
                      /\ wire'.chunk <= wire'.sent
                      /\ \A p \in 1..Base' : p \in heard' \cup lost'
    BY DEF OpenInv
  <2>1. wire' = [start |-> Replay, sent |-> ring.last, chunk |-> Replay]
        /\ lost' = lost \cup missing
    BY <1>5
  <2>2. \A p \in 1..Replay : p \in heard \cup lost'
    <3> SUFFICES ASSUME NEW p \in 1..Replay PROVE p \in heard \cup lost'
      OBVIOUS
    <3>1. p \in 1..Done \/ p \in (Done + 1)..Replay
      BY <1>2
    <3>2. QED
      BY <1>1, <1>4, <2>1, <3>1 DEF AnchorInv
  <2>3. QED
    BY <1>2, <1>5, <1>7, <1>13, <2>1, <2>2
<1>15. TileInv'
  <2>1. confirmed /\ at' = "open" => Replay = Done
    BY <1>2, <1>4, <1>5
  <2>2. QED
    BY <1>1, <1>5, <1>6, <1>8, <1>13, <2>1 DEF TileInv
<1>16. QED
  BY <1>10, <1>11, <1>12, <1>14, <1>15 DEF StreamInv

\* An interim or a settled chunk moves no boundary.
LEMMA PartialInv ==
  ASSUME StreamInv, at = "open", NEW to \in (wire.chunk + 1)..wire.sent,
         NEW settled \in BOOLEAN, Partial(to, settled),
         UNCHANGED <<confirmed, fed, inbox, closed, ring, driver, lost, fails>>
  PROVE  StreamInv'
<1>1. ShapeInv /\ AnchorInv /\ InboxInv /\ OpenInv /\ TileInv
  BY DEF StreamInv
<1>2. /\ UNCHANGED <<armed, anchor, shown, heard, first>> /\ at' = "open" /\ Done' = Done
      /\ norm' = [norm EXCEPT !.open = Segment(to),
                              !.held = IF settled THEN Segment(to) ELSE norm.held]
      /\ wire' = IF settled THEN [wire EXCEPT !.chunk = to] ELSE wire
  BY DEF Partial, driver, Done, LegMs
<1>3. /\ wire.start \in Nat /\ wire.sent \in Nat /\ wire.chunk \in Nat /\ to \in Nat
      /\ wire.chunk < to /\ to <= wire.sent /\ Base \in Nat
      /\ norm \in [conn: Nat, held: Nat \X Nat, open: Nat \X Nat]
      /\ wire \in [start: Nat, sent: Nat, chunk: Nat]
  BY <1>1 DEF ShapeInv, Base
<1>4. Segment(to) = <<Base, to>> /\ Segment(to) \in Nat \X Nat /\ Segment(to) # Nothing
  BY <1>3 DEF Segment, Base, Nothing
<1> DEFINE h == IF settled THEN Segment(to) ELSE norm.held
<1>5. h \in Nat \X Nat
  BY <1>3, <1>4
<1>6. /\ norm' \in [conn: Nat, held: Nat \X Nat, open: Nat \X Nat]
      /\ norm'.conn = norm.conn /\ norm'.held = h
  <2>1. norm' = [norm EXCEPT !.open = Segment(to), !.held = h]
    BY <1>2
  <2> HIDE DEF h
  <2>2. QED
    BY <1>3, <1>4, <1>5, <2>1
<1>7. /\ wire' \in [start: Nat, sent: Nat, chunk: Nat] /\ wire'.start = wire.start
      /\ wire'.sent = wire.sent /\ wire.chunk <= wire'.chunk /\ wire'.chunk <= wire.sent
      /\ ~settled => wire'.chunk = wire.chunk
  BY <1>1, <1>2, <1>3 DEF OpenInv
<1>8. Base' = Base
  <2>1. CASE settled
    <3>1. norm'.held = <<Base, to>> /\ norm'.held # Nothing
      BY <1>4, <1>6, <2>1
    <3>2. QED
      BY <3>1 DEF Base
  <2>2. CASE ~settled
    BY <1>6, <1>7, <2>2 DEF Base
  <2>3. QED
    BY <2>1, <2>2
<1>9. ShapeInv'
  BY <1>1, <1>2, <1>6, <1>7 DEF ShapeInv
<1>10. InboxInv'
  BY <1>1 DEF InboxInv
<1>11. AnchorInv'
  BY <1>1, <1>2, <1>6 DEF AnchorInv
<1>12. OpenInv'
  <2>1. wire.sent = ring.last /\ norm.conn = wire.start /\ wire.start <= Base
        /\ Base <= wire.chunk /\ \A p \in 1..Base : p \in heard \cup lost
    BY <1>1 DEF OpenInv
  <2>2. QED
    BY <1>2, <1>3, <1>6, <1>7, <1>8, <2>1 DEF OpenInv
<1>13. TileInv'
  BY <1>1, <1>2, <1>8 DEF TileInv
<1>14. QED
  BY <1>9, <1>10, <1>11, <1>12, <1>13 DEF StreamInv

\* A final moves the anchor to its own end, and hears what lies before it.
LEMMA FinalInv ==
  ASSUME StreamInv, at = "open", NEW to \in (wire.chunk + 1)..wire.sent, Final(to),
         UNCHANGED <<confirmed, fed, inbox, closed, ring, driver, lost, fails>>
  PROVE  StreamInv'
<1> DEFINE seg == IF armed THEN Trimmed(Segment(to)) ELSE Segment(to)
<1>1. ShapeInv /\ AnchorInv /\ InboxInv /\ OpenInv /\ TileInv
  BY DEF StreamInv
<1>2. /\ norm' = [norm EXCEPT !.open = Nothing, !.held = Nothing]
      /\ wire' = [wire EXCEPT !.chunk = to] /\ armed' = FALSE
      /\ anchor' = Max({anchor, SessionMs(to)})
      /\ heard' = heard \cup In(Segment(to))
      /\ IF seg[1] < seg[2] THEN CommitFinal(seg) ELSE UNCHANGED <<shown, tail>>
      /\ at' = "open" /\ first' = first
  BY DEF Final, driver
<1> HIDE DEF seg
<1>3. /\ wire.start \in Nat /\ wire.sent \in Nat /\ wire.chunk \in Nat /\ to \in Nat
      /\ wire.chunk < to /\ to <= wire.sent /\ Base \in Nat
      /\ norm \in [conn: Nat, held: Nat \X Nat, open: Nat \X Nat]
      /\ wire \in [start: Nat, sent: Nat, chunk: Nat] /\ anchor \in Nat /\ Offset \in Nat
      /\ Len(Text) \in Nat /\ fed \in 0..Len(Text) /\ ring.last \in Nat /\ ring.last <= fed
  BY <1>1, StreamBounds, SMTT(30) DEF ShapeInv, Base
<1>4. /\ wire.sent = ring.last /\ norm.conn = wire.start /\ wire.start <= Base
      /\ Base <= wire.chunk /\ \A p \in 1..Base : p \in heard \cup lost
  BY <1>1 DEF OpenInv
<1>5. Segment(to) = <<Base, to>> /\ In(Segment(to)) = (Base + 1)..to
  BY DEF Segment, Base, In
<1>6. SessionMs(to) = Offset + to
  BY <1>3, <1>4 DEF SessionMs
<1>7. /\ Done \in Nat
      /\ heard = {} => Done = 0 /\ anchor = 0
      /\ heard # {} => Done \in heard /\ anchor = Offset + Done /\ \A p \in heard : p <= Done
  BY <1>1, DoneFacts
<1> DEFINE a == IF Done >= to THEN Done ELSE to
<1>8. a \in Nat /\ Done <= a /\ to <= a /\ a \in {Done, to} /\ to >= 1
      /\ (Done >= to => a = Done) /\ (Done < to => a = to)
  BY <1>3, <1>7
<1> HIDE DEF a
<1>9. anchor' = Offset + a
  <2>1. anchor' = IF anchor >= Offset + to THEN anchor ELSE Offset + to
    BY <1>2, <1>3, <1>6, MaxTwo, SMTT(30)
  <2>2. anchor >= Offset + to <=> heard # {} /\ Done >= to
    BY <1>3, <1>7, <1>8
  <2>3. heard = {} => a = to
    BY <1>3, <1>7, <1>8
  <2>4. QED
    BY <1>3, <1>7, <1>8, <2>1, <2>2, <2>3
<1>10. anchor' \in Nat /\ Done' = a
  BY <1>3, <1>8, <1>9, LegFacts DEF Done
<1>11. /\ heard' = heard \cup ((Base + 1)..to) /\ heard' \subseteq Samples
       /\ heard \subseteq Nat
  <2>1. heard' = heard \cup ((Base + 1)..to)
    BY <1>2, <1>5
  <2>2. heard \subseteq 1..Len(Text)
    BY <1>1 DEF ShapeInv, Samples
  <2>3. (Base + 1)..to \subseteq 1..Len(Text)
    BY <1>3, <1>4
  <2>4. QED
    BY <1>3, <2>1, <2>2, <2>3 DEF Samples
<1>12. a \in heard' /\ \A p \in heard' : p <= a
  <2>1. to \in heard'
    BY <1>3, <1>4, <1>11
  <2>2. heard = {} => a = to
    BY <1>3, <1>7, <1>8
  <2>3. \A p \in heard : p <= Done
    BY <1>7
  <2>4. QED
    BY <1>3, <1>7, <1>8, <1>11, <2>1, <2>2, <2>3
<1>13. \A p \in 1..to : p \in heard' \cup lost
  BY <1>3, <1>4, <1>11
<1>14. /\ norm' \in [conn: Nat, held: Nat \X Nat, open: Nat \X Nat]
       /\ norm'.conn = norm.conn /\ norm'.held = Nothing
       /\ wire' \in [start: Nat, sent: Nat, chunk: Nat] /\ wire'.start = wire.start
       /\ wire'.sent = wire.sent /\ wire'.chunk = to
  BY <1>2, <1>3 DEF Nothing
<1>15. Base' = to
  BY <1>14 DEF Base
<1>16. ShapeInv'
  BY <1>1, <1>2, <1>10, <1>11, <1>14 DEF ShapeInv
<1>17. InboxInv'
  BY <1>1 DEF InboxInv
<1>18. AnchorInv'
  <2>1. Done <= ring.last /\ (\A p \in 1..Done : p \in heard \cup lost) /\ ~first
    BY <1>1 DEF AnchorInv
  <2>2. a <= ring.last
    BY <1>3, <1>4, <1>8, <2>1
  <2>3. \A p \in 1..a : p \in heard' \cup lost
    BY <1>8, <1>11, <1>13, <2>1
  <2>4. \E b \in heard' : anchor' = Offset + b /\ \A p \in heard' : p <= b
    BY <1>9, <1>12
  <2>5. QED
    BY <1>2, <1>10, <2>1, <2>2, <2>3, <2>4 DEF AnchorInv
<1>19. OpenInv'
  BY <1>3, <1>4, <1>13, <1>14, <1>15, SMTT(30) DEF OpenInv
<1>20. TileInv'
  <2> SUFFICES ASSUME confirmed
               PROVE  Done' = to /\ \A p \in Samples : shown'[p] = IF p <= Done' THEN 1 ELSE 0
    BY <1>2, <1>15 DEF TileInv
  <2>1. /\ armed = FALSE /\ Base = Done
        /\ \A p \in Samples : shown[p] = IF p <= Done THEN 1 ELSE 0
    BY <1>1 DEF TileInv
  <2>2. Done' = to /\ Done < to
    BY <1>3, <1>4, <1>8, <1>10, <2>1
  <2>3. seg = <<Done, to>>
    BY <1>5, <2>1 DEF seg
  <2>4. shown' = [p \in Samples |->
                    IF p \in (Done + 1)..to THEN Min({2, shown[p] + 1}) ELSE shown[p]]
    BY <1>2, <2>2, <2>3 DEF CommitFinal, In
  <2>5. Min({2, 0 + 1}) = 1
    BY MinTwo
  <2>6. ASSUME NEW p \in Samples PROVE shown'[p] = IF p <= to THEN 1 ELSE 0
    <3>1. p \in Nat /\ p >= 1
      BY <1>3 DEF Samples
    <3>2. CASE p <= Done
      BY <1>3, <1>7, <2>1, <2>2, <2>4, <3>1, <3>2
    <3>3. CASE Done < p /\ p <= to
      <4>1. p \in (Done + 1)..to /\ shown[p] = 0
        BY <1>3, <1>7, <2>1, <3>1, <3>3
      <4>2. QED
        BY <2>4, <2>5, <3>3, <4>1
    <3>4. CASE to < p
      BY <1>3, <1>7, <2>1, <2>2, <2>4, <3>1, <3>4
    <3>5. QED
      BY <1>3, <1>7, <3>1, <3>2, <3>3, <3>4
  <2>7. QED
    BY <2>2, <2>6
<1>21. QED
  BY <1>16, <1>17, <1>18, <1>19, <1>20 DEF StreamInv

\* Every step keeps the invariant.
LEMMA NextInv ==
  ASSUME StreamInv, [Next]_vars
  PROVE  StreamInv'
<1>1. CASE Write \/ Flush \/ Close \/ Abort
  BY <1>1, PipelineInv
<1>2. CASE Refused \/ Broken \/ Retry
  BY <1>2, BreakInv
<1>3. CASE Command \/ Waits
  BY <1>3, CommandInv
<1>4. CASE Opened
  BY <1>4, OpenedInv
<1>5. CASE Frame
  <2>1. PICK to \in (wire.chunk + 1)..wire.sent :
           Final(to) \/ \E settled \in BOOLEAN : Partial(to, settled)
    BY <1>5 DEF Frame
  <2>2. at = "open" /\ UNCHANGED <<confirmed, fed, inbox, closed, ring, driver, lost, fails>>
    BY <1>5 DEF Frame
  <2>3. CASE Final(to)
    BY <2>2, <2>3, FinalInv
  <2>4. CASE \E settled \in BOOLEAN : Partial(to, settled)
    BY <2>2, <2>4, PartialInv
  <2>5. QED
    BY <2>1, <2>3, <2>4
<1>6. CASE Hang \/ Unblocked \/ UNCHANGED vars
  <2>1. UNCHANGED <<confirmed, fed, inbox, closed, ring, driver, speech, lost>>
    BY <1>6 DEF Hang, Unblocked, vars
  <2>2. QED
    BY <2>1 DEF driver, speech, StreamInv, ShapeInv, InboxInv, AnchorInv, OpenInv,
                TileInv, Done, Base, LegMs
<1>7. QED
  BY <1>1, <1>2, <1>3, <1>4, <1>5, <1>6 DEF Next, Driver

-----------------------------------------------------------------------------
(* The theorems about the streaming recognizer.                            *)

\* deepgram_stream.rs: StreamInv holds throughout, over any number of failed,
\* refused and replayed connections.
THEOREM StreamInvariance == Spec => []StreamInv
<1>1. Init => StreamInv
  BY InitInv
<1>2. StreamInv /\ [Next]_vars => StreamInv'
  BY NextInv
<1>3. QED
  BY <1>1, <1>2, PTL DEF Spec

\* The finals of a confirmed stream tile the audio up to the anchor: each word
\* before it is emitted once, and none behind it, over any number of reconnects.
THEOREM FinalsAlwaysTile == Spec => []ConfirmedFinalsTile
<1>1. StreamInv => ConfirmedFinalsTile
  BY DEF StreamInv, TileInv, ConfirmedFinalsTile, Done
<1>2. QED
  BY <1>1, StreamInvariance, PTL

\* A reconnect misses no audio and shifts no time: what the provider has not
\* confirmed is on the connection or reported as lost, and the anchor is the end
\* of the last utterance confirmed, whatever the leg's offset and the ring.
THEOREM ReplayStaysExact == Spec => []ReplayIsExact
<1>1. StreamInv => GaplessReplay
  <2> SUFFICES ASSUME StreamInv, at = "open", NEW p \in 1..ring.last
               PROVE  p \in heard \cup lost \/ (wire.start < p /\ p <= wire.sent)
    BY DEF GaplessReplay
  <2>1. /\ wire.sent = ring.last /\ wire.start <= Base
        /\ \A q \in 1..Base : q \in heard \cup lost
    BY DEF StreamInv, OpenInv
  <2>2. wire.start \in Nat /\ ring.last \in Nat /\ Base \in Nat
    BY DEF StreamInv, ShapeInv, Base
  <2>3. QED
    BY <2>1, <2>2
<1>2. StreamInv => AnchorIsTrue
  <2> SUFFICES ASSUME StreamInv, heard # {} PROVE anchor = Offset + Max(heard)
    BY DEF AnchorIsTrue
  <2>1. Done \in heard /\ anchor = Offset + Done /\ \A p \in heard : p <= Done
    BY DoneFacts DEF StreamInv
  <2>2. heard \in SUBSET Int
    BY DEF StreamInv, ShapeInv, Samples
  <2>3. Max(heard) = Done
    BY <2>1, <2>2, MaxIs
  <2>4. QED
    BY <2>1, <2>3
<1>3. QED
  BY <1>1, <1>2, StreamInvariance, PTL DEF ReplayIsExact

=============================================================================
