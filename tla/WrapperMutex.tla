---------------------------- MODULE WrapperMutex ----------------------------
(***************************************************************************)
(* The lock of a wrapper context, DVR_WrapperMutex_t of src/dvr_wrapper.c: *)
(* a flag guarded by a pthread mutex and a condition variable.             *)
(* wrapper_mutex_lock waits for the flag as long as it takes,              *)
(* wrapper_mutex_timedlock (used by the event task) for one timed wait,    *)
(* and wrapper_mutex_unlock signals after it has left the pthread mutex.   *)
(*                                                                         *)
(* A condition variable is the set of threads blocked on it: a signal      *)
(* removes one of them, and a thread may also leave it by itself, by a     *)
(* spurious wake-up or, in the timed wait, by the timeout.                 *)
(***************************************************************************)
EXTENDS Naturals, LockThreads

VARIABLES mutex,      \* lock->lock: its holder, or NoThread
          locked,     \* lock->locked
          blocked,    \* the threads blocked on lock->cond
          place,      \* where each thread is
          r           \* per thread: the result of its timed wait

flagVars == <<mutex, locked, blocked, place, r>>

Places == {"idle", "held",
           "lock", "lockTest", "lockWait", "lockExit",
           "timed", "timedTest", "timedWait", "timedBack", "timedExit",
           "unlock", "unlockExit", "unlockSignal"}

FlagInit == /\ mutex = NoThread
            /\ locked = FALSE
            /\ blocked = {}
            /\ place = [t \in Threads |-> "idle"]
            /\ r = [t \in Threads |-> "ok"]

Go(t, loc) == place' = [place EXCEPT ![t] = loc]

(* pthread_mutex_lock and pthread_mutex_unlock *)
Enter(t) == mutex = NoThread /\ mutex' = t
Exit == mutex' = NoThread

(* the callers: any thread may ask for the lock, in either way, and unlock *)
(* it once it holds it                                                     *)
Call(t) == /\ \/ place[t] = "idle" /\ (Go(t, "lock") \/ Go(t, "timed"))
              \/ place[t] = "held" /\ Go(t, "unlock")
           /\ UNCHANGED <<mutex, locked, blocked, r>>

-----------------------------------------------------------------------------
(* wrapper_mutex_lock *)
LockEnter(t) == /\ place[t] = "lock"
                /\ Enter(t)
                /\ Go(t, "lockTest")
                /\ UNCHANGED <<locked, blocked, r>>

LockTake(t) == /\ place[t] = "lockTest"
               /\ ~locked
               /\ locked' = TRUE
               /\ Go(t, "lockExit")
               /\ UNCHANGED <<mutex, blocked, r>>

LockBlock(t) == /\ place[t] = "lockTest"
                /\ locked
                /\ Exit
                /\ blocked' = blocked \cup {t}
                /\ Go(t, "lockWait")
                /\ UNCHANGED <<locked, r>>

(* signalled, or awake for no reason: the loop tests the flag again *)
LockWake(t) == /\ place[t] = "lockWait"
               /\ t \notin blocked
               /\ Enter(t)
               /\ Go(t, "lockTest")
               /\ UNCHANGED <<locked, blocked, r>>

LockExit(t) == /\ place[t] = "lockExit"
               /\ Exit
               /\ Go(t, "held")
               /\ UNCHANGED <<locked, blocked, r>>

-----------------------------------------------------------------------------
(* wrapper_mutex_timedlock *)
TimedEnter(t) == /\ place[t] = "timed"
                 /\ Enter(t)
                 /\ r' = [r EXCEPT ![t] = "ok"]
                 /\ Go(t, "timedTest")
                 /\ UNCHANGED <<locked, blocked>>

TimedBlock(t) == /\ place[t] = "timedTest"
                 /\ locked
                 /\ Exit
                 /\ blocked' = blocked \cup {t}
                 /\ Go(t, "timedWait")
                 /\ UNCHANGED <<locked, r>>

(* the wait is over by a timeout; r says so even when the lock is free *)
TimedOut(t) == /\ place[t] = "timedWait"
               /\ t \in blocked
               /\ blocked' = blocked \ {t}
               /\ r' = [r EXCEPT ![t] = "ETIMEDOUT"]
               /\ UNCHANGED <<mutex, locked, place>>

TimedWake(t) == /\ place[t] = "timedWait"
                /\ t \notin blocked
                /\ Enter(t)
                /\ Go(t, "timedBack")
                /\ UNCHANGED <<locked, blocked, r>>

(* mutant: a wait that did not time out takes the lock without a look *)
TimedTakeBlind(t) == /\ \/ place[t] = "timedTest" /\ ~locked
                        \/ place[t] = "timedBack" /\ r[t] = "ok"
                     /\ locked' = TRUE
                     /\ Go(t, "timedExit")
                     /\ UNCHANGED <<mutex, blocked, r>>

(* if (r == 0): take the lock if it is free, else report a timeout *)
TimedTake(t) == /\ \/ place[t] = "timedTest" /\ ~locked
                   \/ place[t] = "timedBack" /\ ~locked /\ r[t] = "ok"
                /\ locked' = TRUE
                /\ Go(t, "timedExit")
                /\ UNCHANGED <<mutex, blocked, r>>

TimedFail(t) == /\ place[t] = "timedBack"
                /\ locked \/ r[t] # "ok"
                /\ r' = [r EXCEPT ![t] = "ETIMEDOUT"]
                /\ Go(t, "timedExit")
                /\ UNCHANGED <<mutex, locked, blocked>>

TimedExit(t) == /\ place[t] = "timedExit"
                /\ Exit
                /\ Go(t, IF r[t] = "ok" THEN "held" ELSE "idle")
                /\ UNCHANGED <<locked, blocked, r>>

-----------------------------------------------------------------------------
(* wrapper_mutex_unlock *)
UnlockEnter(t) == /\ place[t] = "unlock"
                  /\ Enter(t)
                  /\ locked' = FALSE
                  /\ Go(t, "unlockExit")
                  /\ UNCHANGED <<blocked, r>>

(* mutant: no signal *)
UnlockSilent(t) == /\ place[t] = "unlockExit"
                   /\ Exit
                   /\ Go(t, "idle")
                   /\ UNCHANGED <<locked, blocked, r>>

UnlockExit(t) == /\ place[t] = "unlockExit"
                 /\ Exit
                 /\ Go(t, "unlockSignal")
                 /\ UNCHANGED <<locked, blocked, r>>

UnlockSignal(t) == /\ place[t] = "unlockSignal"
                   /\ \/ blocked = {} /\ UNCHANGED blocked
                      \/ \E w \in blocked : blocked' = blocked \ {w}
                   /\ Go(t, "idle")
                   /\ UNCHANGED <<mutex, locked, r>>

(* the condition variable lets a blocked thread go without a signal *)
SpuriousWake(t) == /\ t \in blocked
                   /\ blocked' = blocked \ {t}
                   /\ UNCHANGED <<mutex, locked, place, r>>

-----------------------------------------------------------------------------
(* the steps a thread inside one of the three functions takes on its own *)
Work(t) == \/ LockEnter(t) \/ LockTake(t) \/ LockBlock(t) \/ LockWake(t)
           \/ LockExit(t)
           \/ TimedEnter(t) \/ TimedBlock(t) \/ TimedOut(t) \/ TimedWake(t)
           \/ TimedTake(t) \/ TimedFail(t) \/ TimedExit(t)
           \/ UnlockEnter(t) \/ UnlockExit(t) \/ UnlockSignal(t)

FlagStep(t) == Call(t) \/ Work(t) \/ SpuriousWake(t)

FlagNext == \E t \in Threads : FlagStep(t)

FlagSpec == FlagInit /\ [][FlagNext]_flagVars

(* The scheduler runs every thread that can run; nobody has to call the    *)
(* lock, and a spurious wake-up never has to come.                         *)
FairSpec == FlagSpec /\ \A t \in Threads : WF_flagVars(Work(t))

-----------------------------------------------------------------------------
FlagTypeOK == /\ mutex \in Threads \cup {NoThread}
              /\ locked \in BOOLEAN
              /\ blocked \subseteq Threads
              /\ place \in [Threads -> Places]
              /\ r \in [Threads -> {"ok", "ETIMEDOUT"}]

(* the thread got the flag: in wrapper_mutex_lock, in a wrapper_mutex_-    *)
(* timedlock that will return 0, in its caller, or not yet in the unlock   *)
Owns(t) == \/ place[t] \in {"lockExit", "held", "unlock"}
           \/ place[t] = "timedExit" /\ r[t] = "ok"

(* At most one thread works on a wrapper context, whichever mix of waits,  *)
(* timeouts and spurious wake-ups let the threads in (dvr_wrapper.c:87,    *)
(* 113, 119), and while one does the flag is set, so no other can come.    *)
OneOwner == /\ \A s, t \in Threads : Owns(s) /\ Owns(t) => s = t
            /\ locked <=> \E t \in Threads : Owns(t)

(* A free lock does not keep a waiter asleep: the signal sent after the    *)
(* pthread mutex is left (dvr_wrapper.c:101-102), a waiter that times out   *)
(* and a barging thread together never lose the wake-up.                   *)
Sleeping(t) == place[t] = "lockWait" /\ t \in blocked

NoLostWakeup == ~locked /\ (\E t \in Threads : Sleeping(t))
                  ~> (locked \/ ~ \E t \in Threads : Sleeping(t))

-----------------------------------------------------------------------------
(* OneOwner made inductive: the pthread mutex is held exactly inside its   *)
(* critical sections.                                                      *)
InMutex(t) == place[t] \in {"lockTest", "lockExit", "timedTest", "timedBack",
                            "timedExit", "unlockExit"}

MutexInv == \A t \in Threads : mutex = t <=> InMutex(t)

FlagInv == /\ \A s, t \in Threads : Owns(s) /\ Owns(t) => s = t
           /\ (\E t \in Threads : Owns(t)) => locked
           /\ locked => \E t \in Threads : Owns(t)

(* A thread on a first pass through wrapper_mutex_timedlock has r = 0.     *)
ResultInv == \A t \in Threads : place[t] = "timedTest" => r[t] = "ok"

FlagIInv == FlagTypeOK /\ MutexInv /\ FlagInv /\ ResultInv
=============================================================================
