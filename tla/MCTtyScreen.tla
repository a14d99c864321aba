------------------------------ MODULE MCTtyScreen ------------------------------
(***************************************************************************)
(* Small screens for TLC.                                                  *)
(***************************************************************************)
EXTENDS TtyScreen

\* A missing parameter and the code of a colour.
ModeNumbers == {ABSENT, 41}

\* Missing, 0, ordinary and too large.
FewNumbers == {ABSENT, 0, 1, 2, 3}
=============================================================================
