--------------------------- MODULE MCWrapperMutex ---------------------------
(* WrapperMutex with the owner and two more threads, so that a signal has  *)
(* a choice of whom to wake.                                               *)
EXTENDS WrapperMutex
=============================================================================
