--------------------------- MODULE MCGithubExport ---------------------------
EXTENDS GithubExport

(* Off, automatic on the private repository with and without the whole     *)
(* library, and the public one named with and without the acknowledgement. *)
MCSaveable ==
  {[mode |-> "off", repo |-> "private", ack |-> FALSE, whole |-> FALSE],
   [mode |-> "auto", repo |-> "private", ack |-> FALSE, whole |-> FALSE],
   [mode |-> "auto", repo |-> "private", ack |-> TRUE, whole |-> TRUE],
   [mode |-> "manual", repo |-> "public", ack |-> FALSE, whole |-> FALSE],
   [mode |-> "auto", repo |-> "public", ack |-> TRUE, whole |-> FALSE]}

=============================================================================
