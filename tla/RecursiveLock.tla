---------------------------- MODULE RecursiveLock ----------------------------
(***************************************************************************)
(* What dvr_mutex.c promises its callers: one lock with one owner, that    *)
(* the owner may enter again, and that the owner gives up completely while *)
(* it waits on a condition variable and gets back, at the same depth, when *)
(* it wakes.  Abstract: no field of dvr_mutex_t and no pthread call.       *)
(***************************************************************************)
EXTENDS Naturals

CONSTANTS Threads, NoThread

VARIABLES owner,    \* the thread inside the lock, or NoThread
          count,    \* how many times the owner has entered
          parked    \* per thread: the depth it left behind to wait

absVars == <<owner, count, parked>>

AbsInit == /\ owner = NoThread
           /\ count = 0
           /\ parked = [t \in Threads |-> 0]

Enter(t) == /\ owner = NoThread
            /\ owner' = t
            /\ count' = 1
            /\ UNCHANGED parked

Reenter(t) == /\ owner = t
              /\ count' = count + 1
              /\ UNCHANGED <<owner, parked>>

Leave(t) == /\ owner = t
            /\ count > 0
            /\ count' = count - 1
            /\ owner' = IF count = 1 THEN NoThread ELSE t
            /\ UNCHANGED parked

Park(t) == /\ owner = t
           /\ owner' = NoThread
           /\ count' = 0
           /\ parked' = [parked EXCEPT ![t] = count]

Unpark(t) == /\ owner = NoThread
             /\ parked[t] > 0
             /\ owner' = t
             /\ count' = parked[t]
             /\ parked' = [parked EXCEPT ![t] = 0]

AbsNext == \E t \in Threads :
             Enter(t) \/ Reenter(t) \/ Leave(t) \/ Park(t) \/ Unpark(t)

AbsSpec == AbsInit /\ [][AbsNext]_absVars
=============================================================================
