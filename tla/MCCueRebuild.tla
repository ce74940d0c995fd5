---------------------------- MODULE MCCueRebuild ----------------------------
(* Instances of CueRebuild for TLC. *)
EXTENDS CueRebuild, TLC

CONSTANTS b1, b2, t1, t2, usa, us, r1, r2

SameRebuilders == Permutations(Rebuilders)
=============================================================================
