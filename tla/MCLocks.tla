-------------------------------- MODULE MCLocks -------------------------------
(***************************************************************************)
(* Instances of MasterLocks for TLC.                                       *)
(***************************************************************************)
EXTENDS MasterLocks, TLC

CONSTANTS p1, p2, s1, s2

\* Two plugins in one shard.
OneShard == [p \in Plugin |-> s1]

WorkerSymmetry == Permutations(Worker)
===============================================================================
