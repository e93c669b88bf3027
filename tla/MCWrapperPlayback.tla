------------------------- MODULE MCWrapperPlayback -------------------------
(* Two segments of twice what a resume asks for, and three calls: a start, *)
(* and two more in any order.                                              *)
EXTENDS WrapperPlayback
=============================================================================
