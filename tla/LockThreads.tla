---------------------------- MODULE LockThreads ----------------------------
(***************************************************************************)
(* The threads that use the two locks of the library, DvrMutex (the        *)
(* player's) and WrapperMutex (that of a wrapper context).                 *)
(***************************************************************************)
CONSTANTS Threads, NoThread

ASSUME NoThreadAssumption == NoThread \notin Threads
=============================================================================
