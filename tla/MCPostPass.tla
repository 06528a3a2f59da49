----------------------------- MODULE MCPostPass -----------------------------
(* Bounded tracks for the merge: up to three words, one after the other,   *)
(* around the edges of two windows.                                        *)
EXTENDS PostPass

Words(starts, lengths, keys) ==
  {[t |-> t, s |-> s, e |-> s + l] : t \in keys, s \in starts, l \in lengths}

Spoken(words, most) ==
  {sp \in UNION {[1..n -> words] : n \in 0..most} :
     \A i \in DOMAIN sp : sp[i].e <= Total /\ (i > 1 => sp[i - 1].e <= sp[i].s)}

\* A word that is said again is said later than two hearings of one word may
\* differ: said faster across an edge, a repetition can be taken for it.
MCSpeeches ==
  {sp \in Spoken(Words({2, 3, 4, 5, 6, 9, 10, 11, 12, 13}, {1, 2}, {"a", "b"}), 3) :
     \A i, j \in DOMAIN sp :
       (i < j /\ sp[i].t = sp[j].t) => sp[j].s - sp[i].s > Tolerance}

MCTalks == Spoken(Words({0, 1, 3, 4, 6}, {1, 2}, {"a", "."}), 2)

Span(s, e, who) == [s |-> s, e |-> e, who |-> who]
MCSpanSets ==
  {<<>>, <<Span(0, 2, "x"), Span(4, 8, "y")>>, <<Span(4, 7, "x"), Span(0, 3, "x")>>}
=============================================================================
