------------------------------ MODULE DvrMutex ------------------------------
(***************************************************************************)
(* src/dvr_mutex.c: the recursive mutex of the playback player, built from *)
(* a pthread mutex, the id of its owner and a count, together with the one *)
(* use of save/restore, the timed wait of the playback thread.             *)
(*                                                                         *)
(* Every read and write of a field is a step of its own: _dvr_mutex_lock   *)
(* and _dvr_mutex_unlock read mtx->thread with no lock held, so another    *)
(* thread may be between any two of its assignments.                       *)
(***************************************************************************)
EXTENDS Integers, LockThreads

CONSTANT MaxDepth               \* bound on the nesting of lock calls

ASSUME MaxDepthAssumption == MaxDepth \in Nat \ {0}

VARIABLES lock,       \* pthread mutex mtx->lock: its holder or NoThread
          thread,     \* mtx->thread
          lock_cnt,   \* mtx->lock_cnt
          pc,         \* where each thread is
          val,        \* per thread: the count _dvr_mutex_save returned
          depth       \* per thread: lock calls it has returned from and not
                      \* undone, as its caller counts them

vars == <<lock, thread, lock_cnt, pc, val, depth>>

(* "out": in the caller's code.  "acquire": in pthread_mutex_lock.         *)
(* "lock*", "unlock*", "save*", "restore*": between two assignments.       *)
(* "wait": in pthread_cond_timedwait.                                      *)
Locations == {"out", "acquire", "lockThread", "lockCnt",
              "unlockThread", "unlockLock",
              "saveCnt", "saveThread", "saveLock", "wait", "restoreCnt", "restoreThread"}

Init == /\ lock = NoThread
        /\ thread = NoThread
        /\ lock_cnt = 0
        /\ pc = [t \in Threads |-> "out"]
        /\ val = [t \in Threads |-> 0]
        /\ depth = [t \in Threads |-> 0]

Goto(t, loc) == pc' = [pc EXCEPT ![t] = loc]

(* _dvr_mutex_lock *)
LockAgain(t) == /\ pc[t] = "out"
                /\ thread = t
                /\ lock_cnt < MaxDepth
                /\ lock_cnt' = lock_cnt + 1
                /\ depth' = [depth EXCEPT ![t] = @ + 1]
                /\ UNCHANGED <<lock, thread, pc, val>>

LockOther(t) == /\ pc[t] = "out"
                /\ thread # t
                /\ Goto(t, "acquire")
                /\ UNCHANGED <<lock, thread, lock_cnt, val, depth>>

Acquire(t) == /\ pc[t] = "acquire"
              /\ lock = NoThread
              /\ lock' = t
              /\ Goto(t, "lockThread")
              /\ UNCHANGED <<thread, lock_cnt, val, depth>>

LockSetThread(t) == /\ pc[t] = "lockThread"
                    /\ thread' = t
                    /\ Goto(t, "lockCnt")
                    /\ UNCHANGED <<lock, lock_cnt, val, depth>>

LockSetCnt(t) == /\ pc[t] = "lockCnt"
                 /\ lock_cnt' = 1
                 /\ depth' = [depth EXCEPT ![t] = @ + 1]
                 /\ Goto(t, "out")
                 /\ UNCHANGED <<lock, thread, val>>

(* _dvr_mutex_unlock.  Any thread may call it: when mtx->thread is not the *)
(* caller it only logs "not own mutex", which is no step of this system.   *)
UnlockOwned(t) == /\ pc[t] = "out"
                  /\ thread = t
                  /\ lock_cnt' = lock_cnt - 1
                  /\ depth' = [depth EXCEPT ![t] = @ - 1]
                  /\ Goto(t, IF lock_cnt = 1 THEN "unlockThread" ELSE "out")
                  /\ UNCHANGED <<lock, thread, val>>

(* mutant: the owner is not cleared *)
UnlockKeepsThread(t) == /\ pc[t] = "unlockThread"
                        /\ Goto(t, "unlockLock")
                        /\ UNCHANGED <<lock, thread, lock_cnt, val, depth>>

UnlockSetThread(t) == /\ pc[t] = "unlockThread"
                      /\ thread' = NoThread
                      /\ Goto(t, "unlockLock")
                      /\ UNCHANGED <<lock, lock_cnt, val, depth>>

UnlockLock(t) == /\ pc[t] = "unlockLock"
                 /\ lock' = NoThread
                 /\ Goto(t, "out")
                 /\ UNCHANGED <<thread, lock_cnt, val, depth>>

(* _dvr_playback_timeoutwait: dvr_mutex_save, pthread_cond_timedwait and   *)
(* dvr_mutex_restore, called by a thread inside the lock                   *)
SaveVal(t) == /\ pc[t] = "out"
              /\ depth[t] > 0
              /\ val' = [val EXCEPT ![t] = lock_cnt]
              /\ Goto(t, "saveCnt")
              /\ UNCHANGED <<lock, thread, lock_cnt, depth>>

SaveSetCnt(t) == /\ pc[t] = "saveCnt"
                 /\ lock_cnt' = 0
                 /\ Goto(t, "saveThread")
                 /\ UNCHANGED <<lock, thread, val, depth>>

SaveSetThread(t) == /\ pc[t] = "saveThread"
                    /\ thread' = NoThread
                    /\ Goto(t, "saveLock")
                    /\ UNCHANGED <<lock, lock_cnt, val, depth>>

(* mutant: the wait is on another mutex than mtx->lock *)
WaitHolding(t) == /\ pc[t] = "saveLock"
                  /\ Goto(t, "wait")
                  /\ UNCHANGED <<lock, thread, lock_cnt, val, depth>>

(* pthread_cond_timedwait gives the pthread mutex up ... *)
Wait(t) == /\ pc[t] = "saveLock"
           /\ lock' = NoThread
           /\ Goto(t, "wait")
           /\ UNCHANGED <<thread, lock_cnt, val, depth>>

(* ... and takes it back: a signal, the timeout and a spurious wake-up are *)
(* all the same to the mutex                                               *)
Wake(t) == /\ pc[t] = "wait"
           /\ lock = NoThread
           /\ lock' = t
           /\ Goto(t, "restoreCnt")
           /\ UNCHANGED <<thread, lock_cnt, val, depth>>

(* mutant: the count starts again at 1, as after a lock *)
RestoreOne(t) == /\ pc[t] = "restoreCnt"
                 /\ lock_cnt' = 1
                 /\ Goto(t, "restoreThread")
                 /\ UNCHANGED <<lock, thread, val, depth>>

RestoreCnt(t) == /\ pc[t] = "restoreCnt"
                 /\ lock_cnt' = val[t]
                 /\ Goto(t, "restoreThread")
                 /\ UNCHANGED <<lock, thread, val, depth>>

RestoreThread(t) == /\ pc[t] = "restoreThread"
                    /\ thread' = t
                    /\ val' = [val EXCEPT ![t] = 0]
                    /\ Goto(t, "out")
                    /\ UNCHANGED <<lock, lock_cnt, depth>>

Step(t) == \/ LockAgain(t) \/ LockOther(t) \/ Acquire(t)
           \/ LockSetThread(t) \/ LockSetCnt(t)
           \/ UnlockOwned(t) \/ UnlockSetThread(t) \/ UnlockLock(t)
           \/ SaveVal(t) \/ SaveSetCnt(t) \/ SaveSetThread(t)
           \/ Wait(t) \/ Wake(t) \/ RestoreCnt(t) \/ RestoreThread(t)

Next == \E t \in Threads : Step(t)

Spec == Init /\ [][Next]_vars

-----------------------------------------------------------------------------
(* The fields hold what C lets them hold: a thread id or 0, a count that   *)
(* is never negative and never above the deepest nesting.                  *)
TypeOK == /\ lock \in Threads \cup {NoThread}
          /\ thread \in Threads \cup {NoThread}
          /\ lock_cnt \in 0 .. MaxDepth
          /\ pc \in [Threads -> Locations]
          /\ val \in [Threads -> 0 .. MaxDepth]
          /\ depth \in [Threads -> 0 .. MaxDepth]

(* A thread whose lock call has returned and that is not inside a timed    *)
(* wait or an unlock: it runs code the mutex must protect.                 *)
Inside(t) == pc[t] = "out" /\ depth[t] > 0

(* Two threads never run protected code of the player together, although   *)
(* _dvr_mutex_lock decides by an unlocked read of mtx->thread whether it   *)
(* has to wait (dvr_mutex.c:35).                                           *)
MutualExclusion == \A s, t \in Threads : Inside(s) /\ Inside(t) => s = t

(* A thread inside the lock is its recorded owner and the count is the     *)
(* number of unlocks it still owes, also after a timed wait that began at  *)
(* any depth: so its last unlock, and no earlier one, lets others in.      *)
CountIsDepth == \A t \in Threads :
                  Inside(t) => /\ lock = t
                               /\ thread = t
                               /\ lock_cnt = depth[t]

(* The pthread mutex is never left locked: a thread that has given back    *)
(* every lock call and stands outside holds nothing, so a waiter can enter *)
NothingLeaked == \A t \in Threads :
                   pc[t] \in {"out", "acquire"} /\ depth[t] = 0 => lock # t

-----------------------------------------------------------------------------
(* The inductive invariant: what each location of a thread implies.        *)
HoldsLock(t) == \/ Inside(t)
                \/ pc[t] \in {"lockThread", "lockCnt", "unlockThread", "unlockLock",
                             "saveCnt", "saveThread", "saveLock",
                             "restoreCnt", "restoreThread"}

Recorded(t) == \/ Inside(t)
               \/ pc[t] \in {"lockCnt", "unlockThread", "saveCnt", "saveThread"}

Waiting(t) == pc[t] \in {"saveCnt", "saveThread", "saveLock", "wait",
                        "restoreCnt", "restoreThread"}

(* The holder of the pthread mutex is exactly the thread past acquire and  *)
(* not yet past release; mtx->thread names it except in the windows of     *)
(* lock, unlock, save and restore, and is never the id of another thread:  *)
(* this is why the unlocked read of mtx->thread is harmless.               *)
OwnerInv == \A t \in Threads : /\ lock = t <=> HoldsLock(t)
                               /\ thread = t <=> Recorded(t)

CountInv == \A t \in Threads :
              /\ Inside(t) => lock_cnt = depth[t]
              /\ pc[t] = "unlockThread" => lock_cnt = 0
              /\ pc[t] \in {"saveCnt", "restoreThread"} => lock_cnt = val[t]
              /\ IF Waiting(t) THEN depth[t] > 0 /\ val[t] = depth[t]
                               ELSE val[t] = 0
              /\ pc[t] \in {"acquire", "lockThread", "lockCnt",
                            "unlockThread", "unlockLock"} => depth[t] = 0

(* TypeOK, OwnerInv and CountInv together are preserved by every step; the *)
(* safety properties above follow from them.                               *)
IInv == TypeOK /\ OwnerInv /\ CountInv

-----------------------------------------------------------------------------
(* dvr_mutex.c implements the recursive lock of RecursiveLock: the owner   *)
(* is the holder of the pthread mutex; its count is 1 while a field is     *)
(* being set at either end, and the saved count around a timed wait.       *)
countBar == IF lock = NoThread THEN 0
            ELSE CASE pc[lock] \in {"lockThread", "lockCnt",
                                    "unlockThread", "unlockLock"} -> 1
                   [] pc[lock] \in {"saveCnt", "saveThread", "saveLock",
                                    "restoreCnt", "restoreThread"} -> val[lock]
                   [] OTHER -> lock_cnt

parkedBar == [t \in Threads |-> IF pc[t] = "wait" THEN val[t] ELSE 0]

Abs == INSTANCE RecursiveLock
         WITH owner <- lock, count <- countBar, parked <- parkedBar

(* Every behaviour of the code is one of the recursive lock: in particular *)
(* a thread comes back from a timed wait with the depth it left with.      *)
ImplementsRecursiveLock == Abs!AbsSpec
=============================================================================
