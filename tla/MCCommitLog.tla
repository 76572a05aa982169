---------------------------- MODULE MCCommitLog ----------------------------
(* CommitLog for TLC: its calls race for one stream.  No symmetry, which     *)
(* the liveness property would not allow.                                   *)
EXTENDS CommitLog
=============================================================================
