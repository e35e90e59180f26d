--------------------------- MODULE MCCrontabLock ---------------------------
(* Three processes racing for one crontab. *)
EXTENDS CrontabLock, TLC

CONSTANTS p1, p2, p3

ThreeProcs == {p1, p2, p3}
Symmetry == Permutations(ThreeProcs)
=============================================================================
