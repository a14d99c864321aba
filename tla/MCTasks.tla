---------------------------------- MODULE MCTasks ----------------------------------
(***************************************************************************)
(* Small instances of Tasks for TLC.                                       *)
(***************************************************************************)
EXTENDS Tasks, TLC

\* Stacks and directories are interchangeable: nothing orders them.
Symmetry == Permutations(KStacks) \cup Permutations(Dirs)
=============================================================================
