-------------------------------- MODULE Calls --------------------------------
(***************************************************************************)
(* Calls of the sequential functions of the system.  A behaviour is a      *)
(* series of calls; call is the one under way, with its arguments, or      *)
(* Idle.                                                                   *)
(***************************************************************************)
CONSTANT Calls      \* sets of calls: records with the function in field fn

VARIABLE call

Idle == [fn |-> "idle"]

CallsInit == call = Idle
Call == call = Idle /\ \E k \in DOMAIN Calls : call' \in Calls[k]
Return == call # Idle /\ call' = Idle
CallsNext == Call \/ Return
CallsSpec == CallsInit /\ [][CallsNext]_call
=============================================================================
