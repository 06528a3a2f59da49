---------------------------- MODULE CleanupMerge ----------------------------
(***************************************************************************)
(* The pure part of the post-meeting cleanup (fotwd/src/post_pass): the    *)
(* plan of overlapping windows a saved track is read in (windows.rs) and   *)
(* the merge of what was heard through them (merge.rs).  A word is         *)
(* [t, s, e]: its comparison key and its times; a window is [s, e, words,  *)
(* est], est if its word times were estimated.                             *)
(***************************************************************************)
EXTENDS Naturals, Sequences, SequencesExt

CONSTANTS
  Window, Overlap,   \* WINDOW_MS, OVERLAP_MS
  Guard,             \* EDGE_GUARD_MS
  Tolerance,         \* MATCH_TOLERANCE_MS
  MaxMatch,          \* MAX_MATCH_WORDS
  Total,             \* the track's length
  MergeGap, ShortGap, ShortVisible, LongTurn, SpanGap, Nearest,  \* the limits of turns.rs
  Sentences,         \* keys that end a sentence
  Speeches, Talks, SpanSets  \* the tracks and spans the algorithms are checked on

ASSUME MergeBounds ==
  /\ {Window, Overlap, Guard, Tolerance, MaxMatch, Total} \subseteq Nat
  /\ Guard < Overlap /\ Overlap < Window /\ 0 < MaxMatch

-----------------------------------------------------------------------------

Least(a, b) == IF a < b THEN a ELSE b
Most(a, b) == IF a > b THEN a ELSE b
Dist(a, b) == Most(a, b) - Least(a, b)

(* plan: the last window ends with the track, the others overlap.          *)
Plan ==
  LET from[s \in 0..Total] ==
        IF s + Window >= Total THEN <<[s |-> s, e |-> Total]>>
        ELSE <<[s |-> s, e |-> s + Window]>> \o from[s + Window - Overlap]
  IN IF Total = 0 THEN <<>> ELSE from[0]

Windows == DOMAIN Plan

Mid(w) == w.s + (w.e - w.s) \div 2

(* How many words lead, or end, a sequence of words.                       *)
Leading(ws, P(_)) == LET n == SelectInSeq(ws, LAMBDA w : ~P(w)) IN IF n = 0 THEN Len(ws) ELSE n - 1
Ending(ws, P(_)) == Leading(Reverse(ws), P)

DropFirst(ws, n) == SubSeq(ws, n + 1, Len(ws))
DropLast(ws, n) == SubSeq(ws, 1, Len(ws) - n)

(* shared_run, and the same by text alone: the longest run that ends the   *)
(* one and starts the other; 0 if there is none.                           *)
SharedRun(tail, head, Same(_, _)) ==
  LET limit == Least(MaxMatch, Least(Len(tail), Len(head)))
      runs == {n \in 1..limit : \A i \in 1..n : Same(tail[Len(tail) - n + i], head[i])}
  IN IF runs = {} THEN 0 ELSE CHOOSE n \in runs : \A m \in runs : m <= n

SameWord(a, b) == a.t = b.t /\ Dist(a.s, b.s) <= Tolerance
SameText(a, b) == a.t = b.t

(* The words the next window hears whole are left to it.                   *)
Trimmed(windows, k) ==
  IF /\ k < Len(windows) /\ windows[k + 1].s < windows[k].e
     /\ ~windows[k].est /\ ~windows[k + 1].est
  THEN SelectSeq(windows[k].words, LAMBDA w : w.e + Guard < windows[k].e)
  ELSE windows[k].words

(* A boundary whose times are the engine's own.                            *)
JoinTimed(out, words, from, to) ==
  LET cut == from + (to - from) \div 2
      kept == Ending(out, LAMBDA w : w.e > from)
      tail == SubSeq(out, Len(out) - kept + 1, Len(out))
      fresh == SelectSeq(words, LAMBDA w :
                 w.s > from + Guard \/ ~\E i \in DOMAIN tail : tail[i].s < w.e /\ w.s < tail[i].e)
      head == SubSeq(fresh, 1, Leading(fresh, LAMBDA w : w.s < to))
      n == SharedRun(tail, head, SameWord)
      early(ws) == Len(SelectSeq(ws, LAMBDA w : Mid(w) < cut)) IN
  IF n > 0 THEN out \o DropFirst(fresh, n)
  ELSE DropLast(out, kept - early(tail)) \o DropFirst(fresh, early(head))

(* A boundary with estimated times: by text alone, or cut at the middle.   *)
JoinEstimated(out, words, from, to) ==
  LET cut == from + (to - from) \div 2
      n == SharedRun(out, words, SameText) IN
  IF n > 0 THEN out \o DropFirst(words, n)
  ELSE DropLast(out, Ending(out, LAMBDA w : w.e > from /\ Mid(w) >= cut))
         \o SelectSeq(words, LAMBDA w : w.s >= to \/ Mid(w) >= cut)

(* merge_windows.                                                          *)
MergeWindows(windows) ==
  FoldLeft(LAMBDA out, k :
    LET words == Trimmed(windows, k) IN
    IF k = 1 \/ windows[k - 1].e <= windows[k].s THEN out \o words
    ELSE IF windows[k].est \/ windows[k - 1].est
    THEN JoinEstimated(out, words, windows[k].s, windows[k - 1].e)
    ELSE JoinTimed(out, words, windows[k].s, windows[k - 1].e),
    <<>>, [k \in 1..Len(windows) |-> k])

-----------------------------------------------------------------------------
(* What an engine may hear of a speech through the plan's windows: every   *)
(* word a window overlaps, clipped to it; a clipped word may be misheard.  *)

Misheard == "?"
HeardThrough(speech, est, wrong) ==
  LET in(w, r) == w.s < r.e /\ w.e > r.s
      clipped(w, r) == w.s < r.s \/ w.e > r.e
      hear(w, r) == [t |-> IF wrong /\ clipped(w, r) THEN Misheard ELSE w.t,
                     s |-> Most(w.s, r.s), e |-> Least(w.e, r.e)]
      through(r) == LET ws == SelectSeq(speech, LAMBDA w : in(w, r))
                    IN [i \in DOMAIN ws |-> hear(ws[i], r)]
  IN [k \in DOMAIN Plan |-> [s |-> Plan[k].s, e |-> Plan[k].e, est |-> est,
                             words |-> through(Plan[k])]]

Texts(ws) == [i \in DOMAIN ws |-> ws[i].t]

(* "Joining overlapping windows' words without losing or repeating any":   *)
(* the merge returns the words that were spoken, each once and whole, in   *)
(* order, also where a window's edge cuts a word and the cut is misheard.  *)
(* With estimated times it returns their texts, if no word is said twice.  *)
MergeIsExact ==
  \A sp \in Speeches :
    /\ \A wrong \in BOOLEAN : MergeWindows(HeardThrough(sp, FALSE, wrong)) = sp
    /\ IsInjective(Texts(sp)) => Texts(MergeWindows(HeardThrough(sp, TRUE, FALSE))) = Texts(sp)

-----------------------------------------------------------------------------
(* Turns (turns.rs): words grouped by channel and speaker.  A key counts   *)
(* as one visible character; a diarized span is [s, e, who].               *)

NoSpeaker == "nobody"

(* join_spans.                                                             *)
JoinSpans(spans) ==
  FoldLeft(LAMBDA out, sp :
    IF out # <<>> /\ Last(out).who = sp.who /\ sp.s <= Last(out).e + SpanGap
    THEN [out EXCEPT ![Len(out)].e = Most(@, sp.e)]
    ELSE Append(out, sp),
    <<>>, SortSeq(spans, LAMBDA a, b : a.s < b.s \/ (a.s = b.s /\ a.e < b.e)))

(* speaker_at: the span that overlaps the word most, of such the earliest, *)
(* then the last listed; else the nearest one that is near enough.         *)
SpeakerAt(spans, w) ==
  LET shared(sp) == IF Least(sp.e, w.e) > Most(sp.s, w.s)
                    THEN Least(sp.e, w.e) - Most(sp.s, w.s) ELSE 0
      away(sp) == IF sp.e <= w.s THEN w.s - sp.e
                  ELSE IF sp.s > w.e THEN sp.s - w.e ELSE 0
      over == {i \in DOMAIN spans : shared(spans[i]) > 0}
      near == {i \in DOMAIN spans : away(spans[i]) <= Nearest}
      best == CHOOSE i \in over : \A j \in over :
                \/ shared(spans[i]) > shared(spans[j])
                \/ shared(spans[i]) = shared(spans[j]) /\ spans[i].s < spans[j].s
                \/ shared(spans[i]) = shared(spans[j]) /\ spans[i].s = spans[j].s /\ i >= j
      next == CHOOSE i \in near : \A j \in near :
                \/ away(spans[i]) < away(spans[j])
                \/ away(spans[i]) = away(spans[j]) /\ spans[i].s < spans[j].s
                \/ away(spans[i]) = away(spans[j]) /\ spans[i].s = spans[j].s /\ i <= j
  IN IF over # {} THEN spans[best].who ELSE IF near # {} THEN spans[next].who ELSE NoSpeaker

(* The speakers of a channel's words: a word nobody is near to goes on     *)
(* with the speaker before it.                                             *)
Labelled(words, spans) ==
  FoldLeft(LAMBDA out, w :
    LET who == SpeakerAt(spans, w) IN
    Append(out, [w |-> w, who |-> IF who = NoSpeaker /\ out # <<>> THEN Last(out).who ELSE who]),
    <<>>, words)

(* channel_turns: a word joins the running turn of its speaker across a    *)
(* small gap, or a larger one after a fragment, unless somebody began to   *)
(* speak on the other channel in the gap or the turn is long and its       *)
(* sentence over.                                                          *)
Interrupted(end, word, other) == \E i \in DOMAIN other : end < other[i].s /\ other[i].s < word.s

ChannelTurns(channel, labelled, other) ==
  FoldLeft(LAMBDA turns, lw :
    LET turn == Last(turns)
        gap == IF lw.w.s > turn.e THEN lw.w.s - turn.e ELSE 0
        joins == gap <= MergeGap \/ (gap <= ShortGap /\ Len(turn.words) < ShortVisible)
        long == turn.e - turn.s >= LongTurn /\ Last(turn.words).t \in Sentences IN
    IF turns # <<>> /\ turn.who = lw.who /\ joins /\ ~long /\ ~Interrupted(turn.e, lw.w, other)
    THEN [turns EXCEPT ![Len(turns)].e = Most(@, lw.w.e), ![Len(turns)].words = Append(@, lw.w)]
    ELSE Append(turns, [channel |-> channel, who |-> lw.who, s |-> lw.w.s, e |-> lw.w.e,
                        words |-> <<lw.w>>]),
    <<>>, labelled)

(* build_turns: both channels' turns in time order.                        *)
BuildTurns(mic, system, spans) ==
  LET mine == [i \in DOMAIN mic |-> [w |-> mic[i], who |-> "me"]]
      before(a, b) ==
        \/ a.s < b.s
        \/ a.s = b.s /\ a.channel = "mic" /\ b.channel = "system"
        \/ a.s = b.s /\ a.channel = b.channel /\ a.e < b.e
  IN SortSeq(ChannelTurns("mic", mine, system)
               \o ChannelTurns("system", Labelled(system, spans), mic), before)

(* Every word of both channels is in exactly one turn, in its channel's    *)
(* order, and a back-and-forth reads in the order it was said: who began   *)
(* to speak in another's pause is read before what follows the pause.      *)
TurnsAreFaithful ==
  \A mic, system \in Talks : \A spans \in SpanSets :
    LET turns == BuildTurns(mic, system, JoinSpans(spans))
        of(c) == FlattenSeq([i \in DOMAIN turns |->
                   IF turns[i].channel = c THEN turns[i].words ELSE <<>>])
        at(c, w) == CHOOSE i \in DOMAIN turns :
                      turns[i].channel = c /\ Contains(turns[i].words, w)
        ordered(c, ws, d, other) ==
          \A i \in 2..Len(ws), j \in DOMAIN other :
            (ws[i - 1].e < other[j].s /\ other[j].s < ws[i].s) => at(d, other[j]) < at(c, ws[i])
    IN /\ of("mic") = mic /\ of("system") = system
       /\ ordered("mic", mic, "system", system) /\ ordered("system", system, "mic", mic)

=============================================================================
