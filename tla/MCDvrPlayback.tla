--------------------------- MODULE MCDvrPlayback ---------------------------
(* Two segments of up to three units with blocks of two: the first ends in *)
(* a cut block, the decoder holds two blocks, and three calls are made.    *)
EXTENDS DvrPlayback
=============================================================================
