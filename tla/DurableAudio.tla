---------------------------- MODULE DurableAudio ----------------------------
(***************************************************************************)
(* What the archive promises about the audio of one meeting, without        *)
(* saying how: there is a source (the session directory) and an archive of  *)
(* tracks; the source is given up only for a complete archive, the          *)
(* retention policy takes tracks out of the archive, and a deletion, once   *)
(* it has ended, leaves nothing and is never undone.                        *)
(***************************************************************************)
CONSTANT Tracks

VARIABLES
  source,    \* the session directory holds the recording
  archived,  \* tracks in the media tree
  evicted,   \* tracks the retention policy took out of it
  deletion   \* "none", "begun" (tombstoned) or "ended"

audio == <<source, archived, evicted, deletion>>

AbstractInit ==
  source = TRUE /\ archived = {} /\ evicted = {} /\ deletion = "none"

\* A track is copied out of the source.  A copy begun before a deletion may
\* still land while that deletion is under way, never after it.
Publish(t) ==
  /\ source \/ deletion = "begun"
  /\ deletion # "ended"
  /\ archived' = archived \cup {t} /\ evicted' = evicted \ {t}
  /\ UNCHANGED <<source, deletion>>

\* The source is given up: every track is, or has been, in the archive.
Retire ==
  /\ source /\ Tracks \subseteq archived \cup evicted
  /\ source' = FALSE /\ UNCHANGED <<archived, evicted, deletion>>

Evict(t) ==
  /\ t \in archived
  /\ archived' = archived \ {t}
  /\ evicted' = IF deletion = "none" THEN evicted \cup {t} ELSE evicted
  /\ UNCHANGED <<source, deletion>>

BeginDeletion ==
  /\ deletion = "none" /\ deletion' = "begun" /\ evicted' = {}
  /\ UNCHANGED <<source, archived>>

RemoveSource ==
  /\ deletion # "none" /\ source' = FALSE
  /\ UNCHANGED <<archived, evicted, deletion>>

EndDeletion ==
  /\ deletion # "none" /\ ~source
  /\ archived' = {} /\ deletion' = "ended" /\ UNCHANGED <<source, evicted>>

AbstractNext ==
  \/ \E t \in Tracks : Publish(t) \/ Evict(t)
  \/ Retire \/ BeginDeletion \/ RemoveSource \/ EndDeletion

AbstractSpec == AbstractInit /\ [][AbstractNext]_audio
=============================================================================
