------------------------------ MODULE MCPacing ------------------------------
(***************************************************************************)
(* TLC instance of the walk in time: the default settings, a unit of time  *)
(* being half a minute.                                                    *)
(***************************************************************************)
EXTENDS Pacing

MCConfigured == [joinDelay |-> <<1, 3>>, maxJoinsPerHour |-> 8]
=============================================================================
