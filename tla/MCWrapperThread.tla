--------------------------- MODULE MCWrapperThread ---------------------------
(* WrapperThread with two contexts, so that a session can be opened while  *)
(* another one is closed and a context can be used again.                  *)
EXTENDS WrapperThread
=============================================================================
