--------------------------------- MODULE MCDevLock ---------------------------------
(***************************************************************************)
(* Small instances of DevLock for TLC.                                     *)
(***************************************************************************)
EXTENDS DevLock
=============================================================================
