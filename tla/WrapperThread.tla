---------------------------- MODULE WrapperThread ----------------------------
(***************************************************************************)
(* The sessions of src/dvr_wrapper.c and the event task that serves them:  *)
(* the table of contexts (record_list, or playback_list: the two are       *)
(* served by the same code and never by the same thread), the queue of     *)
(* events the recorders post, the task thread that the first open starts   *)
(* and the last close stops, and wrapper_mutex_lock_if, by which the task  *)
(* locks a context only while it has to go on running.                     *)
(*                                                                         *)
(* The wrapper lock of a context is atomic here (module WrapperMutex).     *)
(* The sections under wrapper_thread.lock do not block and are one step;   *)
(* everything else the code reads without a lock is read in a step of its  *)
(* own: the context table by ctx_get, `running' by the task.               *)
(***************************************************************************)
EXTENDS Integers, Sequences, FiniteSets

CONSTANTS Apps,         \* the application threads that call the API
          Openers,      \* those of them that open and close sessions
          Slots,        \* indices of the context table, 1 .. DVR_WRAPPER_MAX
          Nobody,       \* not an application thread and not a task
          MaxSn,        \* bound: sessions ever opened
          MaxEvents     \* bound: events ever posted

ASSUME SlotsAssumption == Slots \subseteq Nat \ {0} /\ IsFiniteSet(Slots)
ASSUME BoundsAssumption == MaxSn \in Nat \ {0} /\ MaxEvents \in Nat

Tasks == 1 .. MaxSn         \* the threads pthread_create can return
NoSlot == 0

ASSUME NobodyAssumption == Nobody \notin Apps \cup Tasks
ASSUME AppsAssumption == Apps \cap Tasks = {} /\ Openers \subseteq Apps

VARIABLES
  nextSn,       \* the static sn
  sn,           \* per slot: ctx->sn, 0 when free
  locked,       \* per slot: who last set wrapper_lock.locked, or Nobody
  running,      \* thread_ctx->running
  thread,       \* thread_ctx->thread
  queue,        \* record_evt_list: a sequence of events [sn, no]
  posted,       \* how many events were posted so far
  recording,    \* the sessions whose recorder runs and may post events
  handles,      \* the handles the application has and may still close
  app,          \* per application thread: its place in the API
  task          \* per task thread: its place in wrapper_task

vars == <<nextSn, sn, locked, running, thread, queue, posted, recording,
          handles, app, task>>
table == <<nextSn, sn, locked, recording>>

Ops == {"open", "start", "stop", "close"}
AppPlaces == {"idle", "openLock", "openReset", "openThread", "openRecorder",
              "openReturn", "opLock", "opBody", "release", "join", "joining"}
TaskPlaces == {"none", "loop", "get", "wait", "lookup", "check", "timedlock",
               "again", "undo", "return", "handle", "unlock", "next", "exit"}

Event == [sn : 1 .. MaxSn, no : 1 .. MaxEvents]
NoEvent == [sn |-> 0, no |-> 0]

IdleApp == [at |-> "idle", op |-> "open", h |-> 0, slot |-> NoSlot, join |-> 0]
NoTask == [at |-> "none", evt |-> NoEvent, slot |-> NoSlot, r2 |-> "ok"]

Init == /\ nextSn = 1
        /\ sn = [s \in Slots |-> 0]
        /\ locked = [s \in Slots |-> Nobody]
        /\ running = 0
        /\ thread = 0
        /\ queue = <<>>
        /\ posted = 0
        /\ recording = {}
        /\ handles = {}
        /\ app = [a \in Apps |-> IdleApp]
        /\ task = [k \in Tasks |-> NoTask]

(* ctx_get: the first context whose sn is n, read without a lock *)
Matches(n) == {s \in Slots : sn[s] = n}
First(S) == CHOOSE s \in S : \A x \in S : s <= x

Lock(s, who) == locked[s] = Nobody /\ locked' = [locked EXCEPT ![s] = who]
Unlock(s) == locked' = [locked EXCEPT ![s] = Nobody]

AppTo(a, place) == app' = [app EXCEPT ![a].at = place]
TaskTo(k, place) == task' = [task EXCEPT ![k].at = place]

-----------------------------------------------------------------------------
(* wrapper_requestThread: the first session starts the task *)
RequestThread ==
  /\ running' = running + 1
  /\ IF running = 0
       THEN LET k == First({x \in Tasks : task[x].at = "none"})
            IN  /\ thread' = k
                /\ TaskTo(k, "loop")
       ELSE UNCHANGED <<thread, task>>

(* dvr_wrapper_open_record (and _playback) *)
OpenFind(a) ==
  /\ app[a].at = "idle" /\ a \in Openers
  /\ nextSn + Cardinality({b \in Apps : app[b].op = "open" /\ app[b].at # "idle"})
       <= MaxSn
  /\ Matches(0) # {}
  /\ app' = [app EXCEPT ![a] = [IdleApp EXCEPT !.at = "openLock",
                                               !.slot = First(Matches(0))]]
  /\ UNCHANGED <<table, running, thread, queue, posted, handles, task>>

OpenLock(a) ==
  /\ app[a].at = "openLock"
  /\ Lock(app[a].slot, a)
  /\ AppTo(a, "openReset")
  /\ UNCHANGED <<nextSn, sn, running, thread, queue, posted, recording,
                 handles, task>>

(* ctx_reset and ctx->sn = get_sn() *)
OpenReset(a) ==
  /\ app[a].at = "openReset"
  /\ sn' = [sn EXCEPT ![app[a].slot] = nextSn]
  /\ nextSn' = nextSn + 1
  /\ AppTo(a, "openThread")
  /\ UNCHANGED <<locked, running, thread, queue, posted, recording, handles,
                 task>>

OpenThread(a) ==
  /\ app[a].at = "openThread"
  /\ RequestThread
  /\ AppTo(a, "openRecorder")
  /\ UNCHANGED <<table, queue, posted, handles>>

(* dvr_record_open: it succeeds and, the lock given back, the handle is    *)
(* read from the context; or the context is reset and the thread released  *)
OpenDone(a) ==
  /\ app[a].at = "openRecorder"
  /\ Unlock(app[a].slot)
  /\ AppTo(a, "openReturn")
  /\ UNCHANGED <<nextSn, sn, running, thread, queue, posted, recording,
                 handles, task>>

OpenReturn(a) ==
  /\ app[a].at = "openReturn"
  /\ handles' = handles \cup {sn[app[a].slot]}
  /\ app' = [app EXCEPT ![a] = IdleApp]
  /\ UNCHANGED <<table, running, thread, queue, posted, task>>

(* mutant: the thread that the open asked for is not released *)
OpenFailKeepsThread(a) ==
  /\ app[a].at = "openRecorder"
  /\ sn' = [sn EXCEPT ![app[a].slot] = 0]
  /\ Unlock(app[a].slot)
  /\ app' = [app EXCEPT ![a] = IdleApp]
  /\ UNCHANGED <<nextSn, running, thread, queue, posted, recording, handles,
                 task>>

OpenFail(a) ==
  /\ app[a].at = "openRecorder"
  /\ sn' = [sn EXCEPT ![app[a].slot] = 0]
  /\ Unlock(app[a].slot)
  /\ AppTo(a, "release")
  /\ UNCHANGED <<nextSn, running, thread, queue, posted, recording, handles,
                 task>>

-----------------------------------------------------------------------------
(* dvr_wrapper_start_record, _stop_record and _close_record: find the      *)
(* context of the handle, lock it, test ctx_valid, act, unlock.  A handle  *)
(* is closed once; other calls may come while it is being closed.          *)
OpFind(a) ==
  /\ app[a].at = "idle"
  /\ \E h \in handles \ {0}, op \in Ops \ {"open"} :
       /\ op = "close" => a \in Openers
       /\ Matches(h) # {}
       /\ app' = [app EXCEPT ![a] = [at |-> "opLock", op |-> op, h |-> h,
                                     slot |-> First(Matches(h)), join |-> 0]]
       /\ handles' = IF op = "close" THEN handles \ {h} ELSE handles
  /\ UNCHANGED <<table, running, thread, queue, posted, task>>

OpLock(a) ==
  /\ app[a].at = "opLock"
  /\ Lock(app[a].slot, a)
  /\ AppTo(a, "opBody")
  /\ UNCHANGED <<nextSn, sn, running, thread, queue, posted, recording,
                 handles, task>>

(* ctx_valid is false: unlock and return *)
OpInvalid(a) ==
  /\ app[a].at = "opBody"
  /\ sn[app[a].slot] = 0
  /\ Unlock(app[a].slot)
  /\ app' = [app EXCEPT ![a] = IdleApp]
  /\ UNCHANGED <<nextSn, sn, running, thread, queue, posted, recording,
                 handles, task>>

OpStart(a) ==
  /\ app[a].at = "opBody" /\ app[a].op = "start"
  /\ sn[app[a].slot] # 0
  /\ recording' = recording \cup {sn[app[a].slot]}
  /\ Unlock(app[a].slot)
  /\ app' = [app EXCEPT ![a] = IdleApp]
  /\ UNCHANGED <<nextSn, sn, running, thread, queue, posted, handles, task>>

(* dvr_record_stop_segment joins the record thread: no event after it *)
OpStop(a) ==
  /\ app[a].at = "opBody" /\ app[a].op = "stop"
  /\ sn[app[a].slot] # 0
  /\ recording' = recording \ {sn[app[a].slot]}
  /\ Unlock(app[a].slot)
  /\ app' = [app EXCEPT ![a] = IdleApp]
  /\ UNCHANGED <<nextSn, sn, running, thread, queue, posted, handles, task>>

(* stop the segment, close the recorder, ctx_reset, unlock, and only then  *)
(* wrapper_releaseThreadForType                                            *)
OpClose(a) ==
  /\ app[a].at = "opBody" /\ app[a].op = "close"
  /\ sn[app[a].slot] # 0
  /\ recording' = recording \ {sn[app[a].slot]}
  /\ sn' = [sn EXCEPT ![app[a].slot] = 0]
  /\ Unlock(app[a].slot)
  /\ AppTo(a, "release")
  /\ UNCHANGED <<nextSn, running, thread, queue, posted, handles, task>>

(* wrapper_releaseThread: the last session stops the task and joins it; it *)
(* reads thread_ctx->thread after it has left thread_ctx->lock             *)
Release(a) ==
  /\ app[a].at = "release"
  /\ running' = running - 1
  /\ app' = [app EXCEPT ![a] = IF running = 1 THEN [@ EXCEPT !.at = "join"]
                                              ELSE IdleApp]
  /\ UNCHANGED <<table, thread, queue, posted, handles, task>>

Join(a) ==
  /\ app[a].at = "join"
  /\ app' = [app EXCEPT ![a].at = "joining", ![a].join = thread]
  /\ UNCHANGED <<table, running, thread, queue, posted, handles, task>>

Joined(a) ==
  /\ app[a].at = "joining"
  /\ task[app[a].join].at = "exit"
  /\ app' = [app EXCEPT ![a] = IdleApp]
  /\ UNCHANGED <<table, running, thread, queue, posted, handles, task>>

-----------------------------------------------------------------------------
(* wrapper_record_event_handler, on the thread of a recorder, and          *)
(* ctx_addRecordEvent: the event is added at the tail                      *)
PostEvent ==
  /\ posted < MaxEvents
  /\ \E n \in recording : queue' = Append(queue, [sn |-> n, no |-> posted + 1])
  /\ posted' = posted + 1
  /\ UNCHANGED <<table, running, thread, handles, app, task>>

-----------------------------------------------------------------------------
(* mutant: the loop does not look at `running' *)
TaskLoopForever(k) ==
  /\ task[k].at = "loop"
  /\ TaskTo(k, "get")
  /\ UNCHANGED <<table, running, thread, queue, posted, handles, app>>

(* wrapper_task *)
TaskLoop(k) ==
  /\ task[k].at = "loop"
  /\ TaskTo(k, IF running # 0 THEN "get" ELSE "exit")
  /\ UNCHANGED <<table, running, thread, queue, posted, handles, app>>

(* ctx_getEvent: the oldest event, or none *)
TakeEvent(k, empty) ==
  /\ task' = [task EXCEPT ![k] =
               IF queue = <<>> THEN [NoTask EXCEPT !.at = empty]
                               ELSE [NoTask EXCEPT !.at = "lookup",
                                                   !.evt = Head(queue)]]
  /\ queue' = IF queue = <<>> THEN queue ELSE Tail(queue)

TaskGet(k) ==
  /\ task[k].at = "get"
  /\ TakeEvent(k, "wait")
  /\ UNCHANGED <<table, running, thread, posted, handles, app>>

(* a signal or 200 ms, whichever comes first *)
TaskWait(k) ==
  /\ task[k].at = "wait"
  /\ TaskTo(k, "loop")
  /\ UNCHANGED <<table, running, thread, queue, posted, handles, app>>

(* mutant: an event of no session ends the task *)
TaskLookupBreaks(k) ==
  /\ task[k].at = "lookup"
  /\ LET found == Matches(task[k].evt.sn)
     IN  task' = [task EXCEPT ![k].at = IF found = {} THEN "exit" ELSE "check",
                              ![k].slot = IF found = {} THEN NoSlot
                                                        ELSE First(found)]
  /\ UNCHANGED <<table, running, thread, queue, posted, handles, app>>

TaskLookup(k) ==
  /\ task[k].at = "lookup"
  /\ LET found == Matches(task[k].evt.sn)
     IN  task' = [task EXCEPT ![k].at = IF found = {} THEN "next" ELSE "check",
                              ![k].slot = IF found = {} THEN NoSlot
                                                        ELSE First(found)]
  /\ UNCHANGED <<table, running, thread, queue, posted, handles, app>>

TaskCheck(k) ==
  /\ task[k].at = "check"
  /\ TaskTo(k, IF running # 0 THEN "timedlock" ELSE "next")
  /\ UNCHANGED <<table, running, thread, queue, posted, handles, app>>

(* wrapper_mutex_lock_if reads *condition three times: in the loop, for    *)
(* the unlock, and for the value it returns                                *)
LockIfLocked(k) ==
  /\ task[k].at = "timedlock"
  /\ Lock(task[k].slot, k)
  /\ task' = [task EXCEPT ![k].at = "again", ![k].r2 = "ok"]
  /\ UNCHANGED <<nextSn, sn, running, thread, queue, posted, recording,
                 handles, app>>

LockIfTimeout(k) ==
  /\ task[k].at = "timedlock"
  /\ locked[task[k].slot] # Nobody
  /\ task' = [task EXCEPT ![k].at = "again", ![k].r2 = "ETIMEDOUT"]
  /\ UNCHANGED <<table, running, thread, queue, posted, handles, app>>

LockIfAgain(k) ==
  /\ task[k].at = "again"
  /\ TaskTo(k, IF running # 0 /\ task[k].r2 = "ETIMEDOUT" THEN "timedlock"
                                                         ELSE "undo")
  /\ UNCHANGED <<table, running, thread, queue, posted, handles, app>>

LockIfUndo(k) ==
  /\ task[k].at = "undo"
  /\ IF running = 0 /\ task[k].r2 = "ok" THEN Unlock(task[k].slot)
                                         ELSE UNCHANGED locked
  /\ TaskTo(k, "return")
  /\ UNCHANGED <<nextSn, sn, running, thread, queue, posted, recording,
                 handles, app>>

LockIfReturn(k) ==
  /\ task[k].at = "return"
  /\ TaskTo(k, IF running # 0 THEN "handle" ELSE "next")
  /\ UNCHANGED <<table, running, thread, queue, posted, handles, app>>

(* mutant: only ctx_valid is checked under the lock *)
TaskHandleValid(k) ==
  /\ task[k].at = "handle"
  /\ task' = [task EXCEPT
                ![k].at = "unlock",
                ![k].evt = IF sn[task[k].slot] # 0 THEN @ ELSE NoEvent]
  /\ UNCHANGED <<table, running, thread, queue, posted, handles, app>>

(* ctx_valid and the second check of the sn decide whether                 *)
(* process_handleEvents runs; it is running in place "unlock"              *)
TaskHandle(k) ==
  /\ task[k].at = "handle"
  /\ task' = [task EXCEPT
                ![k].at = "unlock",
                ![k].evt = IF sn[task[k].slot] = @.sn THEN @ ELSE NoEvent]
  /\ UNCHANGED <<table, running, thread, queue, posted, handles, app>>

(* wrapper_mutex_unlock does not ask who holds the lock *)
TaskUnlock(k) ==
  /\ task[k].at = "unlock"
  /\ Unlock(task[k].slot)
  /\ TaskTo(k, "next")
  /\ UNCHANGED <<nextSn, sn, running, thread, queue, posted, recording,
                 handles, app>>

(* ctx_freeEvent, then the inner loop's next event *)
TaskNext(k) ==
  /\ task[k].at = "next"
  /\ TakeEvent(k, "loop")
  /\ UNCHANGED <<table, running, thread, posted, handles, app>>

-----------------------------------------------------------------------------
Call(a) == OpenFind(a) \/ OpFind(a)

InCall(a) == \/ OpenLock(a) \/ OpenReset(a) \/ OpenThread(a) \/ OpenDone(a)
             \/ OpenReturn(a) \/ OpenFail(a)
             \/ OpLock(a) \/ OpInvalid(a) \/ OpStart(a) \/ OpStop(a) \/ OpClose(a)
             \/ Release(a) \/ Join(a) \/ Joined(a)

TaskStep(k) == \/ TaskLoop(k) \/ TaskGet(k) \/ TaskWait(k) \/ TaskLookup(k)
               \/ TaskCheck(k) \/ LockIfLocked(k) \/ LockIfTimeout(k)
               \/ LockIfAgain(k) \/ LockIfUndo(k) \/ LockIfReturn(k)
               \/ TaskHandle(k) \/ TaskUnlock(k) \/ TaskNext(k)

Next == \/ \E a \in Apps : Call(a) \/ InCall(a)
        \/ \E k \in Tasks : TaskStep(k)
        \/ PostEvent

Spec == Init /\ [][Next]_vars

(* The scheduler runs every task and every call under way that can run;    *)
(* no application thread has to call, no recorder has to post.             *)
FairSpec == /\ Spec
            /\ \A a \in Apps : WF_vars(InCall(a))
            /\ \A k \in Tasks : WF_vars(TaskStep(k))

-----------------------------------------------------------------------------
AppType == [at : AppPlaces, op : Ops, h : 0 .. MaxSn,
            slot : Slots \cup {NoSlot}, join : Tasks \cup {0}]
TaskType == [at : TaskPlaces, evt : Event \cup {NoEvent},
             slot : Slots \cup {NoSlot}, r2 : {"ok", "ETIMEDOUT"}]

TypeOK ==
  /\ nextSn \in 1 .. MaxSn + 1
  /\ sn \in [Slots -> 0 .. MaxSn]
  /\ locked \in [Slots -> Apps \cup Tasks \cup {Nobody}]
  /\ running \in 0 .. MaxSn
  /\ thread \in Tasks \cup {0}
  /\ queue \in Seq(Event)
  /\ posted \in 0 .. MaxEvents
  /\ recording \subseteq 1 .. MaxSn
  /\ handles \subseteq 0 .. MaxSn
  /\ app \in [Apps -> AppType]
  /\ task \in [Tasks -> TaskType]

Live(k) == task[k].at \notin {"none", "exit"}
Handling(k) == task[k].at = "unlock" /\ task[k].evt # NoEvent

(* An event is handled only under the lock of its own open session: not    *)
(* for a session closed while the event was queued or while the task       *)
(* waited for the lock, and not for the next session of the same context   *)
(* (the lookup at dvr_wrapper.c:621 is unlocked, the check at 637 not).    *)
HandlesOwnSession ==
  \A k \in Tasks : Handling(k) => /\ locked[task[k].slot] = k
                                  /\ sn[task[k].slot] = task[k].evt.sn

(* The event list is served by one task at a time, the one that the last   *)
(* close will join (dvr_wrapper.c:493-516).                                *)
OneTask == \A k \in Tasks : Live(k) => k = thread

(* `running' counts the sessions, with those on their way in and out: the  *)
(* task is neither stopped under a session nor left behind by the last.    *)
RunningCounts ==
  running = Cardinality({s \in Slots : sn[s] # 0})
            - Cardinality({a \in Apps : app[a].at = "openThread"})
            + Cardinality({a \in Apps : app[a].at = "release"})

(* A session's events are handled in the order its recorder posted them:   *)
(* nothing still queued is older than what the task has in hand.           *)
InOrder ==
  \A k \in Tasks : Live(k) /\ task[k].evt # NoEvent =>
    \A i \in DOMAIN queue : queue[i].no > task[k].evt.no

(* dvr_wrapper_close_record returns: the join at dvr_wrapper.c:516 finds a *)
(* task that sees `running' at 0, whatever it was waiting for.  (Provided  *)
(* the other threads do not call for ever: the lock promises no turn.)     *)
CloseReturns ==
  \A a \in Openers :
    <>[](\A b \in Apps \ {a} : app[b].at = "idle")
      => ((app[a].op = "close" /\ app[a].at # "idle") ~> app[a].at = "idle")

(* While a session is open no event stays in the list for good, provided   *)
(* the applications do not call for ever: the task asks for a context lock *)
(* every 10 ms and nothing promises it a turn between two calls.           *)
EventsServed ==
  <>[](\A a \in Apps : app[a].at = "idle")
    => ((running > 0 /\ queue # <<>>) ~> (running = 0 \/ queue = <<>>))

(* Sessions, task and event list agree at every step: one task while there *)
(* are sessions, events in the order they were posted.                     *)
SessionsInv ==
  /\ TypeOK
  /\ OneTask
  /\ RunningCounts
  /\ InOrder
=============================================================================
