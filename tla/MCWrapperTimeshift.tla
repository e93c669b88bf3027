-------------------------- MODULE MCWrapperTimeshift --------------------------
(* WrapperTimeshift with three segments of two blocks or more, limits at   *)
(* which the oldest ones are removed, and a playback that starts, seeks,   *)
(* changes its speed and stops.                                            *)
EXTENDS WrapperTimeshift
===============================================================================
