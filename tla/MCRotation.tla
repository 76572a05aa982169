----------------------------- MODULE MCRotation -----------------------------
(* Rotation for TLC: the RotationConfigs of a run.                          *)
EXTENDS Rotation

EveryTrigger == [size : BOOLEAN, time : BOOLEAN, gz : BOOLEAN]

\* The README's: max_size_mb, rotation_interval and compress_backups.
Documented == {[size |-> TRUE, time |-> TRUE, gz |-> TRUE]}
=============================================================================
