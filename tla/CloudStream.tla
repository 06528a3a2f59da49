---------------------------- MODULE CloudStream ----------------------------
(***************************************************************************)
(* One leg's cloud recognizer connection (fotw-stt/src/deepgram_stream.rs  *)
(* with its normalizer, replay ring, transcript tail, session clock and    *)
(* reconnect budget).  Audio is counted in words: sample p of the leg is   *)
(* the word Text[p], and a segment is an interval <<lo, hi>>, the words    *)
(* lo + 1 .. hi.  The provider is external: it may answer with any chunk   *)
(* of the audio this connection was sent, and may fail at any moment.      *)
(***************************************************************************)
EXTENDS Integers, Sequences, FiniteSets, FiniteSetsExt

CONSTANTS
    Text,        \* the words spoken, one per sample
    Modes,       \* confirmed_finals_only: which of FALSE and TRUE to explore
    Offset,      \* session_offset_ms: where the leg starts on the session clock
    Window,      \* the replay ring, in samples
    Maximum,     \* write_bounded's limit on queued samples
    TailTokens,  \* how much committed text is kept for comparison
    Attempts,    \* reconnects inside the rolling window
    MaxFailures  \* bound: connections that fail, break or hang

ASSUME StreamBounds ==
    Len(Text) \in Nat /\ Modes \subseteq BOOLEAN /\ {Offset, Window} \subseteq Nat

VARIABLES
    confirmed,  \* this stream's confirmed_finals_only
    fed,        \* samples the pipeline has handed over or dropped
    inbox,      \* commands: sample numbers, FlushCmd, CloseCmd
    closed,     \* close() was called
    ring,       \* [first, last]: the samples retained are first + 1 .. last
    at,         \* the driver: "connecting" | "open" | "waiting" | "done"
    first,      \* no connection was tried before this one
    tries,      \* attempts inside the rolling window
    stuck,      \* a connect or a send under way does not return
    wire,       \* [start, sent, chunk]: this connection's audio, and how much of
                \* it the provider has settled
    norm,       \* [conn, held, open]: the normalizer's clock, settled chunks and
                \* open utterance
    tail,       \* the last words committed
    armed,      \* dedupe_armed
    anchor,     \* last_final_end_ms, on the session clock
    shown,      \* history: how often each word was emitted in a final
    heard,      \* history: words in utterances the provider closed
    lost,       \* history: words reported as lost
    fails       \* failures left

driver == <<at, first, tries>>
speech == <<wire, norm, tail, armed, anchor, shown, heard>>
vars   == <<confirmed, fed, inbox, closed, ring, driver, stuck, speech, lost, fails>>

Samples == 1..Len(Text)
FlushCmd == 0
CloseCmd == -1
Nothing == <<0, 0>>                          \* no interval
Words(seg) == SubSeq(Text, seg[1] + 1, seg[2])
In(seg) == (seg[1] + 1)..seg[2]

TypeOK ==
    /\ at \in {"connecting", "open", "waiting", "done"}
    /\ ring.first <= ring.last /\ ring.last <= fed
    /\ wire.start <= wire.chunk /\ wire.chunk <= wire.sent
    /\ stuck \in BOOLEAN /\ (stuck => at \in {"connecting", "open"})
    /\ tries \in 0..Attempts /\ shown \in [Samples -> 0..2]

Init ==
    /\ confirmed \in Modes
    /\ fed = 0 /\ inbox = <<>> /\ closed = FALSE
    /\ ring = [first |-> 0, last |-> 0]
    /\ at = "connecting" /\ first = TRUE /\ tries = 0 /\ stuck = FALSE
    /\ wire = [start |-> 0, sent |-> 0, chunk |-> 0]
    /\ norm = [conn |-> 0, held |-> Nothing, open |-> Nothing]
    /\ tail = <<>> /\ armed = FALSE /\ anchor = 0
    /\ shown = [p \in Samples |-> 0] /\ heard = {} /\ lost = {}
    /\ fails = MaxFailures

(***************************************************************************)
(* The pipeline's side: write_bounded, flush and close.                    *)
(***************************************************************************)
Queued == Cardinality({i \in 1..Len(inbox) : inbox[i] \in Samples})

\* a sample is queued only if it fits; a caller that is refused keeps its cursor
Write ==
    /\ fed < Len(Text) /\ ~closed /\ at # "done" /\ Queued < Maximum
    /\ fed' = fed + 1
    /\ inbox' = Append(inbox, fed + 1)
    /\ UNCHANGED <<confirmed, closed, ring, driver, stuck, speech, lost, fails>>

Flush ==
    /\ ~closed /\ at # "done" /\ \A i \in 1..Len(inbox) : inbox[i] # FlushCmd
    /\ inbox' = Append(inbox, FlushCmd)
    /\ UNCHANGED <<confirmed, fed, closed, ring, driver, stuck, speech, lost, fails>>

Close ==
    /\ ~closed
    /\ closed' = TRUE
    /\ inbox' = IF at = "done" THEN inbox ELSE Append(inbox, CloseCmd)
    /\ UNCHANGED <<confirmed, fed, ring, driver, stuck, speech, lost, fails>>

\* abort(): the handoff gives up a wedged transport, whatever it is in; no event
\* is promised
Abort ==
    /\ at # "done"
    /\ closed' = TRUE /\ at' = "done" /\ stuck' = FALSE
    /\ UNCHANGED <<confirmed, fed, inbox, ring, first, tries, speech, lost, fails>>

(***************************************************************************)
(* Committing, and removing what a replay restates.                        *)
(***************************************************************************)
\* PcmRing::push: the window slides over the samples written
Pushed == [first |-> Max({ring.first, ring.last + 1 - Window}), last |-> ring.last + 1]

\* the longest suffix of the tail that begins the text
Overlap(text) ==
    Max({0} \cup {n \in 1..Min({Len(tail), Len(text)}) :
                    SubSeq(tail, Len(tail) - n + 1, Len(tail)) = SubSeq(text, 1, n)})

Clipped(s) == SubSeq(s, Max({1, Len(s) - TailTokens + 1}), Len(s))

\* commit_final: emitted and remembered; the replay anchor is not its business
CommitFinal(seg) ==
    /\ shown' = [p \in Samples |->
                    IF p \in In(seg) THEN Min({2, shown[p] + 1}) ELSE shown[p]]
    /\ tail' = Clipped(tail \o Words(seg))

Trimmed(seg) == <<seg[1] + Overlap(Words(seg)), seg[2]>>

(***************************************************************************)
(* The driver.                                                             *)
(***************************************************************************)
Retryable(class) ==
    class \in {"rate_limit", "concurrency", "network", "server", "session_limit"}

\* run()'s tail: the utterance in progress is closed, unless finals are the
\* provider's alone
Ends ==
    /\ at' = "done"
    /\ norm' = [norm EXCEPT !.open = Nothing, !.held = Nothing]
    /\ IF norm.open # Nothing /\ ~confirmed THEN CommitFinal(norm.open)
       ELSE UNCHANGED <<shown, tail>>

\* ReconnectBudget: only time makes the rolling window forget attempts
Remembered == 0..tries

\* backoff_then_retry
Failed(class) ==
    \E k \in Remembered :
       IF Retryable(class) /\ k < Attempts
       THEN /\ at' = "waiting" /\ tries' = k + 1
            /\ UNCHANGED <<norm, shown, tail>>
       ELSE Ends /\ tries' = k

Fault == fails > 0 /\ fails' = fails - 1

\* the transport hangs: connect_async and the sink's sends (the replay, audio, a
\* flush, a close frame, a keepalive) are awaited without a deadline, and the
\* driver takes no command and reads no frame before they return
Hang ==
    /\ at \in {"connecting", "open"} /\ ~stuck /\ Fault
    /\ stuck' = TRUE
    /\ UNCHANGED <<confirmed, fed, inbox, closed, ring, driver, speech, lost>>

\* it returns after all, and the driver goes on with what it returned
Unblocked ==
    /\ stuck /\ stuck' = FALSE
    /\ UNCHANGED <<confirmed, fed, inbox, closed, ring, driver, speech, lost, fails>>

\* how the provider's answers are classed: map_http_status and map_close
HandshakeClasses == {"auth", "quota", "rate_limit", "bad_request", "server", "network"}
CloseClasses     == {"network", "server", "session_limit", "audio_format"}

\* the handshake fails
Refused ==
    /\ at = "connecting" /\ ~stuck /\ Fault
    /\ \E class \in HandshakeClasses : Failed(class)
    /\ first' = FALSE
    /\ UNCHANGED <<confirmed, fed, inbox, closed, ring, stuck, wire, armed, anchor, heard, lost>>

\* a session position on this leg's own clock
LegMs(t) == Max({0, t - Offset})

Requested_Session == anchor
Requested == LegMs(anchor)

\* PcmRing::replay_from: clamped into what is retained
Replay == Min({ring.last, Max({ring.first, Requested})})

\* the new connection's zero is where the replay really starts
Rebased == Replay

Dangling_Always == norm.open # Nothing
\* the utterance that was cut off is settled, but only where nobody replays it
Dangling == norm.open # Nothing /\ ~confirmed

\* pump()'s start: the replay position is read before the cut-off utterance is
\* committed; a confirmed stream stops where the ring cannot cover the gap
Opened ==
    /\ at = "connecting" /\ ~stuck
    /\ LET missing == (Requested + 1)..Replay
           seg == IF Dangling THEN Trimmed(norm.open) ELSE Nothing
           kept == [norm EXCEPT !.conn = IF first THEN @ ELSE Rebased,
                                !.held = Nothing, !.open = Nothing]
       IN /\ IF seg[1] < seg[2] THEN CommitFinal(seg) ELSE UNCHANGED <<shown, tail>>
          /\ armed' = (~first /\ ~confirmed)
          /\ norm' = kept
          /\ IF missing # {} /\ confirmed
             THEN at' = "done" /\ UNCHANGED <<wire, lost>>
             ELSE /\ at' = "open"
                  /\ wire' = [start |-> Replay, sent |-> ring.last, chunk |-> Replay]
                  /\ lost' = lost \cup missing
    /\ first' = FALSE
    /\ UNCHANGED <<confirmed, fed, inbox, closed, ring, tries, stuck, anchor, heard, fails>>

\* the socket breaks, or the provider closes it, between any two frames
Broken ==
    /\ at = "open" /\ ~stuck /\ Fault
    /\ \E class \in CloseClasses : Failed(class)
    /\ UNCHANGED <<confirmed, fed, inbox, closed, ring, first, stuck, wire, armed, anchor, heard,
                   lost>>

\* pump()'s commands; a failed send has put the audio into the ring already
Command ==
    /\ at = "open" /\ ~stuck /\ inbox # <<>>
    /\ inbox' = Tail(inbox)
    /\ \/ /\ Head(inbox) \in Samples
          /\ ring' = Pushed
          /\ \/ /\ wire' = [wire EXCEPT !.sent = Pushed.last]
                /\ UNCHANGED <<driver, norm, tail, shown, fails>>
             \/ Fault /\ Failed("network") /\ UNCHANGED <<first, wire>>
       \/ /\ Head(inbox) = FlushCmd
          /\ UNCHANGED <<ring, wire, driver, norm, tail, shown, fails>>
       \/ /\ Head(inbox) = CloseCmd
          /\ Ends /\ UNCHANGED <<ring, wire, first, tries, fails>>
    /\ UNCHANGED <<confirmed, fed, closed, stuck, armed, anchor, heard, lost>>

Waits_On ==
    /\ at = "waiting" /\ inbox # <<>>
    /\ inbox' = Tail(inbox)
    /\ ring' = IF Head(inbox) \in Samples THEN Pushed ELSE ring
    /\ UNCHANGED <<confirmed, fed, closed, driver, stuck, speech, lost, fails>>

\* drain_while_waiting: audio keeps entering the ring, a flush has nothing to do
Waits ==
    /\ at = "waiting" /\ inbox # <<>>
    /\ inbox' = Tail(inbox)
    /\ \/ /\ Head(inbox) \in Samples
          /\ ring' = Pushed /\ UNCHANGED <<driver, norm, tail, shown>>
       \/ Head(inbox) = FlushCmd /\ UNCHANGED <<ring, driver, norm, tail, shown>>
       \/ Head(inbox) = CloseCmd /\ Ends /\ UNCHANGED <<ring, first, tries>>
    /\ UNCHANGED <<confirmed, fed, closed, stuck, wire, armed, anchor, heard, lost, fails>>

Retry ==
    /\ at = "waiting"
    /\ at' = "connecting"
    /\ UNCHANGED <<confirmed, fed, inbox, closed, ring, first, tries, stuck, speech, lost, fails>>

(***************************************************************************)
(* The provider's frames.                                                  *)
(***************************************************************************)
\* the words of the settled chunks and of this one
Segment(to) == <<IF norm.held # Nothing THEN norm.held[1] ELSE wire.chunk, to>>

\* the provider's times, rebased by the leg's anchor and the connection's start
SessionMs(to) == Offset + norm.conn + (to - wire.start)

\* an interim or a settled chunk of an utterance that goes on: not shown again
\* while it only restates a replay
Partial(to, settled) ==
    /\ norm' = [norm EXCEPT !.open = Segment(to),
                            !.held = IF settled THEN Segment(to) ELSE @]
    /\ wire' = IF settled THEN [wire EXCEPT !.chunk = to] ELSE wire
    /\ UNCHANGED <<armed, anchor, tail, shown, heard>>

\* speech_final: the first one after a reconnect loses what the tail already has
Final(to) ==
    LET seg == IF armed THEN Trimmed(Segment(to)) ELSE Segment(to)
    IN /\ norm' = [norm EXCEPT !.open = Nothing, !.held = Nothing]
       /\ wire' = [wire EXCEPT !.chunk = to]
       /\ armed' = FALSE
       /\ anchor' = Max({anchor, SessionMs(to)})
       /\ heard' = heard \cup In(Segment(to))
       /\ IF seg[1] < seg[2] THEN CommitFinal(seg) ELSE UNCHANGED <<shown, tail>>

Frame ==
    /\ at = "open" /\ ~stuck
    /\ \E to \in (wire.chunk + 1)..wire.sent :
          Final(to) \/ \E settled \in BOOLEAN : Partial(to, settled)
    /\ UNCHANGED <<confirmed, fed, inbox, closed, ring, driver, stuck, lost, fails>>

Driver == Opened \/ Refused \/ Command \/ Waits \/ Retry
Next   == Write \/ Flush \/ Close \/ Abort \/ Driver \/ Broken \/ Frame \/ Hang \/ Unblocked

Spec == Init /\ [][Next]_vars
\* a driver that hangs in no connect and in no send ends its attempt and takes its
\* commands, and a back-off is over some day; nothing makes a hung call return
FairSpec == Spec /\ WF_vars(Opened \/ Refused) /\ WF_vars(Command) /\ WF_vars(Waits)
                 /\ WF_vars(Retry)

(***************************************************************************)
(* Properties.                                                             *)
(***************************************************************************)
\* Finals of a confirmed stream tile the audio: every word before the anchor is
\* emitted exactly once and none behind it, over any number of reconnects.  The
\* handoff takes the rest of the audio over from there.
ConfirmedFinalsTile ==
    confirmed => \A p \in Samples : shown[p] = IF p <= LegMs(anchor) THEN 1 ELSE 0

\* Gapless replay: all audio the provider has not confirmed is on the current
\* connection, or was reported as lost, whatever the leg's offset and the ring.
GaplessReplay ==
    at = "open" => \A p \in 1..ring.last :
                      p \in heard \cup lost \/ (wire.start < p /\ p <= wire.sent)

\* The anchor is the true end of the last confirmed utterance: times stay right
\* after a replay that had to start later than it was asked to.
AnchorIsTrue ==
    heard # {} => anchor = Offset + Max(heard)

\* A reconnect misses no audio and shifts no time.
ReplayIsExact == GaplessReplay /\ AnchorIsTrue

\* close() is answered in whichever state it finds the driver, unless a connect or
\* a send never returns again: close() waits for its answer without a deadline,
\* and only abort() ends a wedged transport.
CloseIsAnswered == []<>~stuck => (closed ~> at = "done")
===========================================================================
