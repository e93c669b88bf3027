----------------------------- MODULE MCDvrMutex -----------------------------
(* DvrMutex on three threads: two that lock and one more that may sit in   *)
(* the timed wait meanwhile.                                               *)
EXTENDS DvrMutex
=============================================================================
