--------------------------- MODULE MCArchiveWorker ---------------------------
(* Instances of ArchiveWorker for TLC: the constants of each run. *)
EXTENDS ArchiveWorkerInvariant, TLC

CONSTANTS psx, pc98

\* One system with all kinds of archive, one with a datfile only.
AllKinds == [s \in Systems |-> IF s = psx THEN {"dat", "cue"} ELSE {"dat"}]
=============================================================================
