--------------------------------- MODULE MCFiles ---------------------------------
(***************************************************************************)
(* Bounds for TLC: the directories are counted far enough for two forks    *)
(* with an exit in between that gives nothing back, and for a path.        *)
(***************************************************************************)
EXTENDS Files, TLC

SmallCounts == [v \in Vnodes |-> IF v = Root THEN 7 ELSE IF v = Top THEN 6 ELSE 2]

Symmetry == Permutations(Handles)
=============================================================================
