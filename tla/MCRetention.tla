---------------------------- MODULE MCRetention ----------------------------
(* The library's sizes and policies for TLC: a null, a set and an unreachable *)
(* day count beside the two policies without one.                           *)
EXTENDS Retention

P(kind, days) == [kind |-> kind, days |-> days]

Sizes == [m \in Meetings |-> m]
AllPolicies ==
  {P("forever", None), P("until_transcribed", None), P("days", None), P("days", 2),
   P("days", 9)}
=============================================================================
