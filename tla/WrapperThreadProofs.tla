------------------------- MODULE WrapperThreadProofs -------------------------
(***************************************************************************)
(* Proofs about WrapperThread for any number of contexts, application      *)
(* threads, sessions and events: the event task follows the sessions, and  *)
(* handles an event only under the lock of the session that posted it.     *)
(* One thread opens and closes the sessions: two that open at once may     *)
(* choose the same context, and an open that meets the last close starts a *)
(* second task before the first one has ended.                             *)
(***************************************************************************)
EXTENDS WrapperThread, FiniteSetTheorems, WellFoundedInduction, TLAPS

OneOpener == \A a, b \in Openers : a = b

Opening == {"openLock", "openReset", "openThread", "openRecorder", "openReturn"}
Leaving == {"join", "joining"}
Entering == {"openReset", "openThread", "openRecorder", "opBody"}
Looking == {"check", "timedlock", "again", "undo", "return", "handle", "unlock"}

(* What an application thread in a call has: its slot, the lock of it, and *)
(* when it opens, a session that is not there yet, or already.             *)
AppInv(a) ==
  /\ app[a].at \in Opening \cup Leaving \cup {"release"} => a \in Openers
  /\ app[a].at # "idle" /\ app[a].op \in {"open", "close"} => a \in Openers
  /\ app[a].at \in Opening \cup {"opLock", "opBody"} => app[a].slot \in Slots
  /\ app[a].at \in Entering => locked[app[a].slot] = a
  /\ app[a].at \in {"openLock", "openReset"} =>
       sn[app[a].slot] = 0 /\ nextSn <= MaxSn
  /\ app[a].at \in {"openThread", "openRecorder"} => sn[app[a].slot] # 0
  /\ app[a].at \in Leaving => running = 0 /\ thread \in Tasks
  /\ app[a].at = "joining" => app[a].join = thread
  /\ app[a].at = "openThread" =>
       running + 1 < nextSn /\ \A k \in Tasks : task[k].at # "none" => k + 1 < nextSn

AppsInv == \A a \in Apps : AppInv(a)

(* There is a live task exactly while there are sessions, or the last one  *)
(* is on its way out and waits for it; every task had a session.           *)
ThreadInv ==
  /\ running < nextSn
  /\ \A k \in Tasks : task[k].at # "none" => k < nextSn
  /\ OneTask
  /\ running > 0 => thread \in Tasks /\ Live(thread)
  /\ \A k \in Tasks : Live(k) /\ running = 0 =>
       \E a \in Openers : app[a].at \in Leaving

(* wrapper_mutex_lock_if reads `running' three times, but has the lock     *)
(* whenever it says so: once `running' is 0 it stays so while a task lives.*)
TaskInv(k) ==
  /\ task[k].at \in Looking => task[k].slot \in Slots
  /\ task[k].at \in {"again", "undo"} /\ task[k].r2 = "ok" => locked[task[k].slot] = k
  /\ task[k].at = "undo" /\ task[k].r2 = "ETIMEDOUT" => running = 0
  /\ task[k].at = "return" /\ running # 0 => locked[task[k].slot] = k
  /\ task[k].at \in {"handle", "unlock"} => locked[task[k].slot] = k
  /\ task[k].at = "unlock" /\ task[k].evt # NoEvent => sn[task[k].slot] = task[k].evt.sn

TasksInv == \A k \in Tasks : TaskInv(k)

(* InOrder for every task, with the order of the list itself.              *)
QueueInv ==
  /\ \A i \in DOMAIN queue : queue[i].no <= posted
  /\ \A i, j \in DOMAIN queue : i < j => queue[i].no < queue[j].no
  /\ \A k \in Tasks : task[k].evt # NoEvent =>
       /\ task[k].evt.no <= posted
       /\ \A i \in DOMAIN queue : queue[i].no > task[k].evt.no

IInv == TypeOK /\ AppsInv /\ ThreadInv /\ TasksInv

-----------------------------------------------------------------------------
(* Less-than on the naturals as a well-founded relation.                   *)
LEMMA LessRelation ==
  \E R : IsWellFoundedOn(R, Nat) /\ \A j, k \in Nat : <<j, k>> \in R <=> j < k
<1>1. \A j, k \in Nat : <<j, k>> \in OpToRel(<, Nat) <=> j < k
  BY Zenon DEF OpToRel
<1>. QED
  BY <1>1, NatLessThanWellFounded, Zenon

(* First finds the first context or task if there is one.                  *)
LEMMA FirstOf ==
  ASSUME NEW S, S \subseteq Slots \cup Tasks, S # {}
  PROVE  First(S) \in S /\ \A x \in S : First(S) <= x
<1>0. S \subseteq Nat
  BY SlotsAssumption, BoundsAssumption DEF Tasks
<1>1. PICK R : IsWellFoundedOn(R, Nat) /\ \A j, k \in Nat : <<j, k>> \in R <=> j < k
  BY LessRelation
<1>2. PICK k \in S : \A j \in S : ~ (<<j, k>> \in R)
  <2>1. IsWellFoundedOn(R, Nat)
    BY <1>1
  <2>. QED
    BY <1>0, <2>1, WFMin
<1>3. ASSUME NEW j \in S PROVE k <= j
  <2>1. k \in Nat /\ j \in Nat
    BY <1>0
  <2>2. ~ (j < k)
    BY <1>1, <1>2, <2>1, Zenon
  <2>. QED
    BY <2>1, <2>2
<1>. QED
  BY <1>3 DEF First

(* An application thread goes on to its next place and keeps the rest.     *)
LEMMA AppMoves ==
  ASSUME TypeOK, NEW a \in Apps, NEW place \in AppPlaces, AppTo(a, place)
  PROVE  /\ app' \in [Apps -> AppType]
         /\ app'[a] = [app[a] EXCEPT !.at = place]
         /\ app'[a].at = place /\ app'[a].op = app[a].op /\ app'[a].h = app[a].h
         /\ app'[a].slot = app[a].slot /\ app'[a].join = app[a].join
         /\ \A b \in Apps : b # a => app'[b] = app[b]
<1>1. app[a] \in AppType
  BY DEF TypeOK
<1>2. [app[a] EXCEPT !.at = place] \in AppType
  BY <1>1 DEF AppType
<1>3. /\ app'[a] = [app[a] EXCEPT !.at = place]
      /\ app' \in [Apps -> AppType]
      /\ \A b \in Apps : b # a => app'[b] = app[b]
  BY <1>2 DEF TypeOK, AppTo
<1>4. /\ app'[a].at = place /\ app'[a].op = app[a].op /\ app'[a].h = app[a].h
      /\ app'[a].slot = app[a].slot /\ app'[a].join = app[a].join
  BY <1>1, <1>3 DEF AppType
<1>. QED
  BY <1>3, <1>4

(* The call returns to the application.                                    *)
LEMMA AppReturns ==
  ASSUME TypeOK, NEW a \in Apps, app' = [app EXCEPT ![a] = IdleApp]
  PROVE  /\ app' \in [Apps -> AppType]
         /\ app'[a].at = "idle"
         /\ \A b \in Apps : b # a => app'[b] = app[b]
<1>1. IdleApp \in AppType /\ IdleApp.at = "idle"
  BY BoundsAssumption DEF IdleApp, AppType, AppPlaces, Ops
<1>. QED
  BY <1>1 DEF TypeOK

(* A task goes on to its next place and keeps the rest.                    *)
LEMMA TaskMoves ==
  ASSUME TypeOK, NEW k \in Tasks, NEW place \in TaskPlaces, TaskTo(k, place)
  PROVE  /\ task' \in [Tasks -> TaskType]
         /\ task'[k] = [task[k] EXCEPT !.at = place]
         /\ task'[k].at = place /\ task'[k].evt = task[k].evt
         /\ task'[k].slot = task[k].slot /\ task'[k].r2 = task[k].r2
         /\ \A l \in Tasks : l # k => task'[l] = task[l]
<1>1. task[k] \in TaskType
  BY DEF TypeOK
<1>2. [task[k] EXCEPT !.at = place] \in TaskType
  BY <1>1 DEF TaskType
<1>3. /\ task'[k] = [task[k] EXCEPT !.at = place]
      /\ task' \in [Tasks -> TaskType]
      /\ \A l \in Tasks : l # k => task'[l] = task[l]
  BY <1>2 DEF TypeOK, TaskTo
<1>4. /\ task'[k].at = place /\ task'[k].evt = task[k].evt
      /\ task'[k].slot = task[k].slot /\ task'[k].r2 = task[k].r2
  BY <1>1, <1>3 DEF TaskType
<1>. QED
  BY <1>3, <1>4

(* A thread that takes a lock that is free, or gives back its own.         *)
LEMMA LockMoves ==
  ASSUME TypeOK, NEW s \in Slots, NEW w \in Apps \cup Tasks
  PROVE  /\ Lock(s, w) => /\ locked' \in [Slots -> Apps \cup Tasks \cup {Nobody}]
                          /\ locked[s] = Nobody /\ locked'[s] = w
                          /\ \A r \in Slots : r # s => locked'[r] = locked[r]
         /\ Unlock(s) => /\ locked' \in [Slots -> Apps \cup Tasks \cup {Nobody}]
                         /\ locked'[s] = Nobody
                         /\ \A r \in Slots : r # s => locked'[r] = locked[r]
BY DEF TypeOK, Lock, Unlock

(* A step of an application thread that leaves the task and the count of   *)
(* the sessions alone, and no context but its own.                         *)
LEMMA AppFrame ==
  ASSUME OneOpener, IInv, NEW a \in Apps, TypeOK',
         UNCHANGED <<running, thread, task>>,
         \A b \in Apps : b # a => app'[b] = app[b],
         \A s \in Slots : locked'[s] = locked[s] \/ locked[s] \in {Nobody, a},
         \A s \in Slots : sn'[s] = sn[s] \/ (a \in Openers /\ locked[s] = a),
         nextSn' = nextSn \/ (a \in Openers /\ nextSn' > nextSn),
         app[a].at \in Leaving =>
           app'[a].at \in Leaving \/ \A k \in Tasks : ~ Live(k),
         AppInv(a)'
  PROVE  AppsInv' /\ ThreadInv' /\ TasksInv'
<1>1. AppsInv'
  <2>1. SUFFICES ASSUME NEW b \in Apps, b # a PROVE AppInv(b)'
    BY DEF AppsInv
  <2>2. b \notin Openers \/ a \notin Openers
    BY <2>1 DEF OneOpener
  <2>3. AppInv(b) /\ app'[b] = app[b]
    BY <2>1 DEF IInv, AppsInv
  <2>4. app[b].at \in Entering => locked'[app[b].slot] = b
    <3>1. CASE app[b].at \in Entering
      <4>1. app[b].slot \in Slots /\ locked[app[b].slot] = b
        BY <2>3, <3>1 DEF AppInv, Entering, Opening
      <4>2. b # Nobody
        BY NobodyAssumption
      <4>. QED
        BY <2>1, <4>1, <4>2
    <3>. QED
      BY <3>1
  <2>5. CASE b \in Openers
    <3>1. nextSn' = nextSn /\ \A s \in Slots : sn'[s] = sn[s]
      BY <2>2, <2>5
    <3>. QED
      BY <2>3, <2>4, <3>1 DEF AppInv, Opening
  <2>6. CASE b \notin Openers
    BY <2>3, <2>4, <2>6 DEF AppInv, Opening, Leaving
  <2>. QED
    BY <2>5, <2>6
<1>2. ThreadInv'
  <2>1. running' < nextSn'
    BY DEF IInv, ThreadInv, TypeOK
  <2>2. \A k \in Tasks : task'[k].at # "none" => k < nextSn'
    BY DEF IInv, ThreadInv, TypeOK, Tasks
  <2>3. \A k \in Tasks : Live(k)' <=> Live(k)
    BY DEF Live
  <2>4. OneTask' /\ (running' > 0 => thread' \in Tasks /\ Live(thread)')
    BY <2>3 DEF IInv, ThreadInv, OneTask
  <2>5. ASSUME NEW k \in Tasks, Live(k)', running' = 0
        PROVE  \E b \in Openers : app'[b].at \in Leaving
    <3>1. PICK b \in Openers : app[b].at \in Leaving
      BY <2>3, <2>5 DEF IInv, ThreadInv
    <3>. QED
      BY <2>3, <2>5, <3>1, AppsAssumption
  <2>. QED
    BY <2>1, <2>2, <2>4, <2>5 DEF ThreadInv
<1>3. TasksInv'
  <2>1. SUFFICES ASSUME NEW k \in Tasks PROVE TaskInv(k)'
    BY DEF TasksInv
  <2>2. TaskInv(k) /\ k # Nobody /\ k # a
    BY NobodyAssumption, AppsAssumption DEF IInv, TasksInv
  <2>3. \A s \in Slots : locked[s] = k => locked'[s] = k /\ sn'[s] = sn[s]
    BY <2>2
  <2>. QED
    BY <2>2, <2>3 DEF TaskInv, Looking
<1>. QED
  BY <1>1, <1>2, <1>3

(* A step of a task: it ends only when there is no session left.           *)
LEMMA TaskFrame ==
  ASSUME IInv, NEW k \in Tasks, TypeOK', Live(k),
         UNCHANGED <<nextSn, sn, running, thread, app>>,
         \A l \in Tasks : l # k => task'[l] = task[l],
         \A s \in Slots : locked'[s] = locked[s] \/ locked[s] \in {Nobody, k},
         running > 0 => Live(k)',
         TaskInv(k)'
  PROVE  AppsInv' /\ ThreadInv' /\ TasksInv'
<1>0. \A l \in Tasks : /\ task'[l].at # "none" => task[l].at # "none"
                       /\ Live(l)' => Live(l)
                       /\ Live(l) => Live(l)' \/ l = k
  BY DEF Live
<1>1. AppsInv'
  <2>1. SUFFICES ASSUME NEW a \in Apps PROVE AppInv(a)'
    BY DEF AppsInv
  <2>2. AppInv(a) /\ a # Nobody /\ k # a
    BY NobodyAssumption, AppsAssumption DEF IInv, AppsInv
  <2>3. app[a].at \in Entering => locked'[app[a].slot] = a
    <3>1. app[a].at \in Entering => app[a].slot \in Slots /\ locked[app[a].slot] = a
      BY <2>2 DEF AppInv, Entering, Opening
    <3>. QED
      BY <2>2, <3>1
  <2>. QED
    BY <1>0, <2>2, <2>3 DEF AppInv
<1>2. ThreadInv'
  <2>1. k = thread
    BY DEF IInv, ThreadInv, OneTask
  <2>. QED
    BY <1>0, <2>1 DEF IInv, ThreadInv, OneTask
<1>3. TasksInv'
  <2>1. SUFFICES ASSUME NEW l \in Tasks, l # k PROVE TaskInv(l)'
    BY DEF TasksInv
  <2>2. TaskInv(l) /\ l # Nobody /\ l # k /\ task'[l] = task[l]
    BY <2>1, NobodyAssumption DEF IInv, TasksInv
  <2>3. \A s \in Slots : locked[s] = l => locked'[s] = l
    BY <2>2
  <2>. QED
    BY <2>2, <2>3 DEF TaskInv, Looking
<1>. QED
  BY <1>1, <1>2, <1>3

-----------------------------------------------------------------------------
(* What IInv says of the application thread that takes a step.             *)
LEMMA AppHas ==
  ASSUME IInv, NEW a \in Apps
  PROVE  /\ AppInv(a) /\ app[a] \in AppType /\ a # Nobody
         /\ app[a].at \in Opening \cup {"opLock", "opBody"} => app[a].slot \in Slots
BY NobodyAssumption DEF IInv, AppsInv, AppInv, TypeOK

(* open finds a context without a session, and there are sessions left.    *)
LEMMA OpenFindKeeps ==
  ASSUME OneOpener, IInv, NEW a \in Apps, OpenFind(a)
  PROVE  TypeOK' /\ AppsInv' /\ ThreadInv' /\ TasksInv'
<1>. DEFINE s == First(Matches(0))
            new == [IdleApp EXCEPT !.at = "openLock", !.slot = s]
<1>1. s \in Slots /\ sn[s] = 0
  <2>1. s \in Matches(0)
    BY FirstOf DEF OpenFind, Matches
  <2>. QED
    BY <2>1 DEF Matches
<1>2. /\ app[a].at = "idle" /\ a \in Openers /\ app' = [app EXCEPT ![a] = new]
      /\ UNCHANGED <<table, running, thread, queue, posted, handles, task>>
  BY DEF OpenFind
<1>3. nextSn <= MaxSn
  <2>. DEFINE B == {b \in Apps : app[b].op = "open" /\ app[b].at # "idle"}
  <2>1. B = {}
    <3>1. ASSUME NEW b \in B PROVE FALSE
      <4>1. b \in Openers
        BY <3>1, AppHas DEF AppInv
      <4>. QED
        BY <1>2, <3>1, <4>1 DEF OneOpener
    <3>. QED
      BY <3>1
  <2>2. Cardinality(B) = 0
    BY <2>1, FS_EmptySet
  <2>3. nextSn + Cardinality(B) <= MaxSn
    BY DEF OpenFind
  <2>. QED
    BY <2>2, <2>3 DEF IInv, TypeOK
<1>. HIDE DEF s
<1>4. new \in AppType /\ new.at = "openLock" /\ new.slot = s /\ new.op = "open"
  <2>. DEFINE mid == [IdleApp EXCEPT !.at = "openLock"]
  <2>1. mid = [at |-> "openLock", op |-> "open", h |-> 0, slot |-> NoSlot, join |-> 0]
    BY DEF IdleApp
  <2>. HIDE DEF mid
  <2>2. [mid EXCEPT !.slot = s]
          = [at |-> "openLock", op |-> "open", h |-> 0, slot |-> s, join |-> 0]
    BY <2>1
  <2>3. new = [at |-> "openLock", op |-> "open", h |-> 0, slot |-> s, join |-> 0]
    BY <2>2 DEF mid
  <2>. HIDE DEF new
  <2>. QED
    BY <1>1, <2>3, BoundsAssumption DEF AppType, AppPlaces, Ops
<1>. HIDE DEF new
<1>5. /\ app' \in [Apps -> AppType] /\ app'[a] = new
      /\ \A b \in Apps : b # a => app'[b] = app[b]
  BY <1>2, <1>4 DEF IInv, TypeOK
<1>6. TypeOK'
  BY <1>2, <1>5 DEF IInv, TypeOK, table
<1>7. AppInv(a)'
  BY <1>1, <1>2, <1>3, <1>4, <1>5
     DEF AppInv, Opening, Entering, Leaving, table
<1>. QED
  <2>1. UNCHANGED <<nextSn, sn, locked, running, thread, task>>
    BY <1>2 DEF table
  <2>2. app[a].at \notin Leaving
    BY <1>2 DEF Leaving
  <2>. QED
    BY <1>5, <1>6, <1>7, <2>1, <2>2, AppFrame

(* The open locks the context that it chose.                               *)
LEMMA OpenLockKeeps ==
  ASSUME OneOpener, IInv, NEW a \in Apps, OpenLock(a)
  PROVE  TypeOK' /\ AppsInv' /\ ThreadInv' /\ TasksInv'
<1>. DEFINE s == app[a].slot
<1>1. AppInv(a) /\ app[a].at = "openLock" /\ s \in Slots
  BY AppHas DEF OpenLock, Opening
<1>2. /\ Lock(s, a) /\ AppTo(a, "openReset")
      /\ UNCHANGED <<nextSn, sn, running, thread, queue, posted, recording,
                     handles, task>>
  BY DEF OpenLock
<1>3. /\ app' \in [Apps -> AppType]
      /\ app'[a].at = "openReset" /\ app'[a].slot = s /\ app'[a].op = app[a].op
      /\ \A b \in Apps : b # a => app'[b] = app[b]
  BY <1>2, AppMoves DEF IInv, AppPlaces
<1>. HIDE DEF s
<1>4. /\ locked' \in [Slots -> Apps \cup Tasks \cup {Nobody}]
      /\ locked[s] = Nobody /\ locked'[s] = a
      /\ \A r \in Slots : r # s => locked'[r] = locked[r]
  BY <1>1, <1>2, LockMoves DEF IInv
<1>5. TypeOK'
  BY <1>2, <1>3, <1>4 DEF IInv, TypeOK
<1>6. AppInv(a)'
  BY <1>1, <1>2, <1>3, <1>4 DEF AppInv, Opening, Entering, Leaving, s
<1>7. app[a].at \notin Leaving
  BY <1>1 DEF Leaving
<1>8. \A r \in Slots : locked'[r] = locked[r] \/ locked[r] \in {Nobody, a}
  BY <1>4
<1>. QED
  BY <1>2, <1>3, <1>5, <1>6, <1>7, <1>8, AppFrame

(* A session gets a number that no other has had.                          *)
LEMMA OpenResetKeeps ==
  ASSUME OneOpener, IInv, NEW a \in Apps, OpenReset(a)
  PROVE  TypeOK' /\ AppsInv' /\ ThreadInv' /\ TasksInv'
<1>. DEFINE s == app[a].slot
<1>1. /\ AppInv(a) /\ app[a].at = "openReset" /\ s \in Slots /\ locked[s] = a
      /\ a \in Openers /\ nextSn <= MaxSn
  BY AppHas DEF OpenReset, Opening, AppInv, Entering
<1>2. /\ sn' = [sn EXCEPT ![s] = nextSn] /\ nextSn' = nextSn + 1
      /\ AppTo(a, "openThread")
      /\ UNCHANGED <<locked, running, thread, queue, posted, recording, handles, task>>
  BY DEF OpenReset
<1>3. /\ app' \in [Apps -> AppType]
      /\ app'[a].at = "openThread" /\ app'[a].slot = s /\ app'[a].op = app[a].op
      /\ \A b \in Apps : b # a => app'[b] = app[b]
  BY <1>2, AppMoves DEF IInv, AppPlaces
<1>. HIDE DEF s
<1>4. nextSn \in 1 .. MaxSn /\ nextSn' \in 1 .. MaxSn + 1
  BY <1>1, <1>2, BoundsAssumption DEF IInv, TypeOK
<1>5. sn' \in [Slots -> 0 .. MaxSn] /\ sn'[s] = nextSn
      /\ \A r \in Slots : r # s => sn'[r] = sn[r]
  BY <1>1, <1>2, <1>4, BoundsAssumption DEF IInv, TypeOK
<1>6. TypeOK'
  BY <1>2, <1>3, <1>4, <1>5 DEF IInv, TypeOK
<1>7. /\ running' + 1 < nextSn'
      /\ \A k \in Tasks : task'[k].at # "none" => k + 1 < nextSn'
  BY <1>2, <1>4 DEF IInv, ThreadInv, TypeOK, Tasks
<1>8. AppInv(a)'
  BY <1>1, <1>2, <1>3, <1>4, <1>5, <1>7 DEF AppInv, Opening, Entering, Leaving
<1>9. nextSn' > nextSn
  BY <1>2, <1>4
<1>10. app[a].at \notin Leaving
  BY <1>1 DEF Leaving
<1>11. \A r \in Slots : sn'[r] = sn[r] \/ (a \in Openers /\ locked[r] = a)
  BY <1>1, <1>5
<1>. QED
  BY <1>1, <1>2, <1>3, <1>6, <1>8, <1>9, <1>10, <1>11, AppFrame

(* A call that gives back its lock and goes on, or returns.                *)
LEMMA GivesBack ==
  ASSUME OneOpener, IInv, NEW a \in Apps, app[a].at \in {"openRecorder", "opBody"},
         Unlock(app[a].slot),
         app' \in [Apps -> AppType], \A b \in Apps : b # a => app'[b] = app[b],
         \/ app'[a].at \in {"idle", "release"}
         \/ app'[a].at = "openReturn" /\ app'[a].slot = app[a].slot,
         app'[a].at # "idle" => a \in Openers,
         sn' = sn \/ (a \in Openers /\ sn' = [sn EXCEPT ![app[a].slot] = 0]),
         recording' \subseteq 1 .. MaxSn,
         UNCHANGED <<nextSn, running, thread, queue, posted, handles, task>>
  PROVE  TypeOK' /\ AppsInv' /\ ThreadInv' /\ TasksInv'
<1>. DEFINE s == app[a].slot
<1>1. AppInv(a) /\ s \in Slots /\ locked[s] = a
  BY AppHas DEF Opening, AppInv, Entering
<1>2. /\ locked' \in [Slots -> Apps \cup Tasks \cup {Nobody}]
      /\ locked'[s] = Nobody
      /\ \A r \in Slots : r # s => locked'[r] = locked[r]
  BY <1>1, LockMoves DEF IInv
<1>3. /\ sn' \in [Slots -> 0 .. MaxSn]
      /\ \A r \in Slots : sn'[r] = sn[r] \/ (a \in Openers /\ locked[r] = a)
  <2>1. sn \in [Slots -> 0 .. MaxSn] /\ 0 \in 0 .. MaxSn
    BY BoundsAssumption DEF IInv, TypeOK
  <2>2. CASE sn' = sn
    BY <2>1, <2>2
  <2>3. CASE a \in Openers /\ sn' = [sn EXCEPT ![s] = 0]
    BY <1>1, <2>1, <2>3
  <2>. QED
    BY <2>2, <2>3
<1>4. TypeOK'
  BY <1>2, <1>3 DEF IInv, TypeOK
<1>5. AppInv(a)'
  BY <1>1 DEF AppInv, Opening, Entering, Leaving
<1>6. app[a].at \notin Leaving
  BY DEF Leaving
<1>7. \A r \in Slots : locked'[r] = locked[r] \/ locked[r] \in {Nobody, a}
  BY <1>1, <1>2
<1>. QED
  BY <1>3, <1>4, <1>5, <1>6, <1>7, AppFrame

(* The recorder has been opened, or not; the lock is given back.           *)
LEMMA OpenDoneKeeps ==
  ASSUME OneOpener, IInv, NEW a \in Apps, OpenDone(a) \/ OpenFail(a)
  PROVE  TypeOK' /\ AppsInv' /\ ThreadInv' /\ TasksInv'
<1>1. AppTo(a, "openReturn") \/ AppTo(a, "release")
  BY DEF OpenDone, OpenFail
<1>2. /\ a \in Openers /\ app[a].at = "openRecorder"
  BY AppHas DEF OpenDone, OpenFail, AppInv, Opening
<1>3. /\ app' \in [Apps -> AppType]
      /\ app'[a].at \in {"openReturn", "release"} /\ app'[a].slot = app[a].slot
      /\ \A b \in Apps : b # a => app'[b] = app[b]
  BY <1>1, AppMoves DEF IInv, AppPlaces
<1>4. /\ Unlock(app[a].slot)
      /\ sn' = sn \/ sn' = [sn EXCEPT ![app[a].slot] = 0]
      /\ UNCHANGED <<nextSn, running, thread, queue, posted, handles, task>>
  BY DEF OpenDone, OpenFail
<1>5. recording' \subseteq 1 .. MaxSn
  BY DEF IInv, TypeOK, OpenDone, OpenFail
<1>. QED
  BY <1>2, <1>3, <1>4, <1>5, GivesBack

(* start, stop and close act under the lock and give it back.              *)
LEMMA OpReturnKeeps ==
  ASSUME OneOpener, IInv, NEW a \in Apps,
         OpInvalid(a) \/ OpStart(a) \/ OpStop(a) \/ OpClose(a)
  PROVE  TypeOK' /\ AppsInv' /\ ThreadInv' /\ TasksInv'
<1>1. app[a].at = "opBody" /\ app[a].slot \in Slots
  BY AppHas DEF OpInvalid, OpStart, OpStop, OpClose
<1>2. /\ Unlock(app[a].slot)
      /\ UNCHANGED <<nextSn, running, thread, queue, posted, handles, task>>
      /\ sn' = sn \/ (OpClose(a) /\ sn' = [sn EXCEPT ![app[a].slot] = 0])
  <2>1. CASE OpClose(a)
    BY <2>1 DEF OpClose
  <2>2. CASE OpInvalid(a) \/ OpStart(a) \/ OpStop(a)
    BY <2>2 DEF OpInvalid, OpStart, OpStop
  <2>. QED
    BY <2>1, <2>2
<1>3. recording' \subseteq 1 .. MaxSn
  <2>1. recording' \subseteq recording \cup ({sn[app[a].slot]} \ {0})
    BY DEF OpInvalid, OpStart, OpStop, OpClose
  <2>2. sn[app[a].slot] \in 0 .. MaxSn /\ recording \subseteq 1 .. MaxSn
    BY <1>1 DEF IInv, TypeOK
  <2>. QED
    BY <2>1, <2>2, BoundsAssumption
<1>4. CASE OpClose(a)
  <2>1. a \in Openers
    BY <1>1, <1>4, AppHas DEF OpClose, AppInv
  <2>2. /\ app' \in [Apps -> AppType] /\ app'[a].at = "release"
        /\ \A b \in Apps : b # a => app'[b] = app[b]
    BY <1>4, AppMoves DEF OpClose, IInv, AppPlaces
  <2>. QED
    BY <1>1, <1>2, <1>3, <2>1, <2>2, GivesBack
<1>5. CASE ~ OpClose(a)
  <2>1. app' = [app EXCEPT ![a] = IdleApp]
    BY <1>5 DEF OpInvalid, OpStart, OpStop
  <2>2. /\ app' \in [Apps -> AppType] /\ app'[a].at = "idle"
        /\ \A b \in Apps : b # a => app'[b] = app[b]
    BY <2>1, AppReturns DEF IInv
  <2>3. sn' = sn
    BY <1>2, <1>5
  <2>. QED
    BY <1>1, <1>2, <1>3, <2>2, <2>3, GivesBack
<1>. QED
  BY <1>4, <1>5

(* What the first open of a session means for the application threads.     *)
LEMMA OpenThreadApps ==
  ASSUME OneOpener, IInv, NEW a \in Openers, app[a].at = "openThread",
         app'[a].at = "openRecorder", app'[a].slot = app[a].slot,
         \A b \in Apps : b # a => app'[b] = app[b],
         UNCHANGED <<nextSn, sn, locked>>
  PROVE  AppsInv'
<1>1. AppInv(a) /\ a \in Apps
  BY AppsAssumption DEF IInv, AppsInv
<1>2. AppInv(a)'
  BY <1>1 DEF AppInv, Opening, Entering, Leaving
<1>3. ASSUME NEW b \in Apps, b # a PROVE AppInv(b)'
  <2>1. b \notin Openers /\ AppInv(b) /\ app'[b] = app[b]
    BY <1>3 DEF OneOpener, IInv, AppsInv
  <2>. QED
    BY <2>1 DEF AppInv, Opening, Entering, Leaving
<1>. QED
  BY <1>2, <1>3 DEF AppsInv

(* The first session starts a task; there is none then, because the last   *)
(* close would still wait for it, and it is the opener that closes.        *)
LEMMA OpenThreadKeeps ==
  ASSUME OneOpener, IInv, NEW a \in Apps, OpenThread(a)
  PROVE  TypeOK' /\ AppsInv' /\ ThreadInv' /\ TasksInv'
<1>1. /\ AppInv(a) /\ app[a].at = "openThread" /\ a \in Openers
      /\ app[a].slot \in Slots
  BY AppHas DEF OpenThread, Opening, AppInv
<1>2. /\ AppTo(a, "openRecorder") /\ running' = running + 1
      /\ UNCHANGED <<nextSn, sn, locked, recording, queue, posted, handles>>
  BY DEF OpenThread, RequestThread, table
<1>3. /\ app' \in [Apps -> AppType]
      /\ app'[a].at = "openRecorder" /\ app'[a].slot = app[a].slot
      /\ app'[a].op = app[a].op
      /\ \A b \in Apps : b # a => app'[b] = app[b]
  BY <1>2, AppMoves DEF IInv, AppPlaces
<1>4. /\ running \in Nat /\ nextSn \in 1 .. MaxSn + 1 /\ MaxSn \in Nat
      /\ running + 1 < nextSn
      /\ \A k \in Tasks : task[k].at # "none" => k + 1 < nextSn
  BY <1>1, BoundsAssumption DEF IInv, TypeOK, AppInv
<1>5. \A k \in Tasks : Live(k) => running # 0
  <2>1. SUFFICES ASSUME NEW k \in Tasks, Live(k), running = 0 PROVE FALSE
    OBVIOUS
  <2>2. PICK b \in Openers : app[b].at \in Leaving
    BY <2>1 DEF IInv, ThreadInv
  <2>. QED
    BY <1>1, <2>2 DEF OneOpener, Leaving
<1>6. CASE running = 0
  <2>. DEFINE T == {x \in Tasks : task[x].at = "none"}
              k == First(T)
  <2>1. k \in Tasks /\ task[k].at = "none" /\ k + 1 <= nextSn
    <3>1. nextSn - 1 \in Tasks /\ task[nextSn - 1].at = "none"
      BY <1>4 DEF Tasks
    <3>2. k \in T /\ k <= nextSn - 1
      BY <3>1, FirstOf
    <3>. QED
      BY <1>4, <3>2 DEF Tasks
  <2>2. thread' = k /\ TaskTo(k, "loop")
    BY <1>6 DEF OpenThread, RequestThread
  <2>. HIDE DEF k
  <2>3. /\ task' \in [Tasks -> TaskType] /\ task'[k].at = "loop"
        /\ \A l \in Tasks : l # k => task'[l] = task[l]
        /\ task'[k].evt = task[k].evt
    BY <2>1, <2>2, TaskMoves DEF IInv, TaskPlaces
  <2>4. TypeOK'
    BY <1>2, <1>3, <1>4, <2>1, <2>2, <2>3 DEF IInv, TypeOK
  <2>5. ThreadInv'
    <3>1. \A l \in Tasks : Live(l)' <=> l = k
      BY <1>5, <1>6, <2>1, <2>3 DEF Live
    <3>2. \A l \in Tasks : task'[l].at # "none" => l < nextSn'
      BY <1>2, <1>4, <2>1, <2>3 DEF Tasks
    <3>3. running' < nextSn' /\ running' # 0
      BY <1>2, <1>4
    <3>4. \A l \in Tasks : Live(l)' => l = thread'
      BY <2>2, <3>1
    <3>. QED
      BY <2>1, <2>2, <3>1, <3>2, <3>3, <3>4 DEF ThreadInv, OneTask
  <2>6. TasksInv'
    <3>1. SUFFICES ASSUME NEW l \in Tasks PROVE TaskInv(l)'
      BY DEF TasksInv
    <3>2. task'[l].at \in {"none", "exit", "loop"}
      BY <1>5, <1>6, <2>3 DEF Live
    <3>. QED
      BY <3>2 DEF TaskInv, Looking
  <2>. QED
    BY <1>1, <1>2, <1>3, <2>4, <2>5, <2>6, OpenThreadApps
<1>7. CASE running # 0
  <2>1. UNCHANGED <<thread, task>>
    BY <1>7 DEF OpenThread, RequestThread
  <2>2. TypeOK'
    BY <1>2, <1>3, <1>4, <2>1 DEF IInv, TypeOK
  <2>3. ThreadInv'
    BY <1>2, <1>4, <1>7, <2>1 DEF IInv, ThreadInv, OneTask, Live
  <2>4. TasksInv'
    <3>1. SUFFICES ASSUME NEW l \in Tasks PROVE TaskInv(l)'
      BY DEF TasksInv
    <3>2. TaskInv(l)
      BY DEF IInv, TasksInv
    <3>. QED
      BY <1>2, <1>7, <2>1, <3>2 DEF TaskInv, Looking
  <2>. QED
    BY <1>1, <1>2, <1>3, <2>2, <2>3, <2>4, OpenThreadApps
<1>. QED
  BY <1>6, <1>7


(* The open returns the number of its session.                             *)
LEMMA OpenReturnKeeps ==
  ASSUME OneOpener, IInv, NEW a \in Apps, OpenReturn(a)
  PROVE  TypeOK' /\ AppsInv' /\ ThreadInv' /\ TasksInv'
<1>1. app[a].at = "openReturn" /\ app[a].slot \in Slots
  BY AppHas DEF OpenReturn, Opening
<1>2. /\ app' = [app EXCEPT ![a] = IdleApp] /\ handles' = handles \cup {sn[app[a].slot]}
      /\ UNCHANGED <<nextSn, sn, locked, recording, running, thread, queue, posted, task>>
  BY DEF OpenReturn, table
<1>3. /\ app' \in [Apps -> AppType] /\ app'[a].at = "idle"
      /\ \A b \in Apps : b # a => app'[b] = app[b]
  BY <1>2, AppReturns DEF IInv
<1>4. sn[app[a].slot] \in 0 .. MaxSn
  BY <1>1 DEF IInv, TypeOK
<1>5. TypeOK'
  BY <1>2, <1>3, <1>4 DEF IInv, TypeOK
<1>6. AppInv(a)'
  BY <1>3 DEF AppInv, Opening, Entering, Leaving
<1>7. app[a].at \notin Leaving
  BY <1>1 DEF Leaving
<1>. QED
  BY <1>2, <1>3, <1>5, <1>6, <1>7, AppFrame

(* A call finds the context of its handle, if it is still there.           *)
LEMMA OpFindKeeps ==
  ASSUME OneOpener, IInv, NEW a \in Apps, OpFind(a)
  PROVE  TypeOK' /\ AppsInv' /\ ThreadInv' /\ TasksInv'
<1>1. PICK h \in handles \ {0}, op \in Ops \ {"open"} :
        /\ op = "close" => a \in Openers
        /\ Matches(h) # {}
        /\ app' = [app EXCEPT ![a] = [at |-> "opLock", op |-> op, h |-> h,
                                      slot |-> First(Matches(h)), join |-> 0]]
        /\ handles' \subseteq handles
  BY DEF OpFind
<1>. DEFINE s == First(Matches(h))
            new == [at |-> "opLock", op |-> op, h |-> h, slot |-> s, join |-> 0]
<1>2. s \in Slots
  <2>1. s \in Matches(h)
    BY <1>1, FirstOf DEF Matches
  <2>. QED
    BY <2>1 DEF Matches
<1>. HIDE DEF s
<1>3. new \in AppType /\ new.at = "opLock" /\ new.slot = s /\ new.op = op
  <2>1. h \in 0 .. MaxSn
    BY DEF IInv, TypeOK
  <2>. QED
    BY <1>2, <2>1 DEF AppType, AppPlaces
<1>4. /\ app[a].at = "idle" /\ app' = [app EXCEPT ![a] = new]
      /\ UNCHANGED <<nextSn, sn, locked, recording, running, thread, queue, posted, task>>
  BY <1>1 DEF OpFind, table, s
<1>. HIDE DEF new
<1>5. /\ app' \in [Apps -> AppType] /\ app'[a] = new
      /\ \A b \in Apps : b # a => app'[b] = app[b]
  BY <1>3, <1>4 DEF IInv, TypeOK
<1>6. TypeOK'
  BY <1>1, <1>4, <1>5 DEF IInv, TypeOK
<1>7. AppInv(a)'
  BY <1>1, <1>2, <1>3, <1>5 DEF AppInv, Opening, Entering, Leaving
<1>8. app[a].at \notin Leaving
  BY <1>4 DEF Leaving
<1>. QED
  BY <1>4, <1>5, <1>6, <1>7, <1>8, AppFrame

(* A call on a handle locks the context that it found.                     *)
LEMMA OpLockKeeps ==
  ASSUME OneOpener, IInv, NEW a \in Apps, OpLock(a)
  PROVE  TypeOK' /\ AppsInv' /\ ThreadInv' /\ TasksInv'
<1>. DEFINE s == app[a].slot
<1>1. AppInv(a) /\ app[a].at = "opLock" /\ s \in Slots
  BY AppHas DEF OpLock, Opening
<1>2. /\ Lock(s, a) /\ AppTo(a, "opBody")
      /\ UNCHANGED <<nextSn, sn, running, thread, queue, posted, recording,
                     handles, task>>
  BY DEF OpLock
<1>3. /\ app' \in [Apps -> AppType]
      /\ app'[a].at = "opBody" /\ app'[a].slot = s /\ app'[a].op = app[a].op
      /\ \A b \in Apps : b # a => app'[b] = app[b]
  BY <1>2, AppMoves DEF IInv, AppPlaces
<1>. HIDE DEF s
<1>4. /\ locked' \in [Slots -> Apps \cup Tasks \cup {Nobody}]
      /\ locked[s] = Nobody /\ locked'[s] = a
      /\ \A r \in Slots : r # s => locked'[r] = locked[r]
  BY <1>1, <1>2, LockMoves DEF IInv
<1>5. TypeOK'
  BY <1>2, <1>3, <1>4 DEF IInv, TypeOK
<1>6. AppInv(a)'
  BY <1>1, <1>3, <1>4 DEF AppInv, Opening, Entering, Leaving, s
<1>7. app[a].at \notin Leaving
  BY <1>1 DEF Leaving
<1>8. \A r \in Slots : locked'[r] = locked[r] \/ locked[r] \in {Nobody, a}
  BY <1>4
<1>. QED
  BY <1>2, <1>3, <1>5, <1>6, <1>7, <1>8, AppFrame

(* The last session out stops the task; until it has joined it, nobody     *)
(* opens another one.                                                      *)
LEMMA ReleaseKeeps ==
  ASSUME OneOpener, IInv, NEW a \in Apps, Release(a), running > 0
  PROVE  TypeOK' /\ AppsInv' /\ ThreadInv' /\ TasksInv'
<1>. DEFINE new == IF running = 1 THEN [app[a] EXCEPT !.at = "join"] ELSE IdleApp
<1>1. /\ AppInv(a) /\ app[a] \in AppType /\ app[a].at = "release" /\ a \in Openers
      /\ running' = running - 1 /\ app' = [app EXCEPT ![a] = new]
      /\ UNCHANGED <<nextSn, sn, locked, recording, thread, queue, posted, handles, task>>
  BY AppHas DEF Release, Opening, AppInv, table
<1>2. /\ new \in AppType
      /\ IF running = 1 THEN new.at = "join" ELSE new.at = "idle"
  <2>1. CASE running = 1
    BY <1>1, <2>1 DEF AppType, AppPlaces
  <2>2. CASE running # 1
    <3>1. IdleApp \in AppType /\ IdleApp.at = "idle"
      BY BoundsAssumption DEF IdleApp, AppType, AppPlaces, Ops
    <3>. QED
      BY <2>2, <3>1
  <2>. QED
    BY <2>1, <2>2
<1>. HIDE DEF new
<1>3. /\ app' \in [Apps -> AppType] /\ app'[a] = new
      /\ \A b \in Apps : b # a => app'[b] = app[b]
  BY <1>1, <1>2 DEF IInv, TypeOK
<1>4. running \in 1 .. MaxSn /\ running' \in 0 .. MaxSn
  BY <1>1, BoundsAssumption DEF IInv, TypeOK
<1>5. TypeOK'
  BY <1>1, <1>3, <1>4 DEF IInv, TypeOK
<1>6. thread \in Tasks
  BY DEF IInv, ThreadInv
<1>7. AppsInv'
  <2>1. AppInv(a)'
    BY <1>1, <1>2, <1>3, <1>4, <1>6 DEF AppInv, Opening, Entering, Leaving
  <2>2. ASSUME NEW b \in Apps, b # a PROVE AppInv(b)'
    <3>1. b \notin Openers /\ AppInv(b) /\ app'[b] = app[b]
      BY <1>1, <1>3, <2>2 DEF OneOpener, IInv, AppsInv
    <3>. QED
      BY <1>1, <3>1 DEF AppInv, Opening, Entering, Leaving
  <2>. QED
    BY <2>1, <2>2 DEF AppsInv
<1>8. ThreadInv'
  <2>1. running' = 0 => app'[a].at \in Leaving
    BY <1>1, <1>2, <1>3, <1>4 DEF Leaving
  <2>2. \A k \in Tasks : Live(k)' <=> Live(k)
    BY <1>1 DEF Live
  <2>3. running' < nextSn' /\ (running' > 0 => thread' \in Tasks /\ Live(thread)')
    BY <1>1, <1>4, <1>6, <2>2 DEF IInv, ThreadInv, TypeOK
  <2>4. OneTask' /\ \A k \in Tasks : task'[k].at # "none" => k < nextSn'
    BY <1>1, <2>2 DEF IInv, ThreadInv, OneTask
  <2>. QED
    BY <1>1, <2>1, <2>3, <2>4 DEF ThreadInv
<1>9. TasksInv'
  <2>1. SUFFICES ASSUME NEW l \in Tasks PROVE TaskInv(l)'
    BY DEF TasksInv
  <2>2. TaskInv(l)
    BY DEF IInv, TasksInv
  <2>. QED
    BY <1>1, <1>4, <2>2 DEF TaskInv, Looking
<1>. QED
  BY <1>5, <1>7, <1>8, <1>9

(* The last close reads which thread it has to join.                       *)
LEMMA JoinKeeps ==
  ASSUME OneOpener, IInv, NEW a \in Apps, Join(a)
  PROVE  TypeOK' /\ AppsInv' /\ ThreadInv' /\ TasksInv'
<1>. DEFINE mid == [app[a] EXCEPT !.at = "joining"]
            new == [mid EXCEPT !.join = thread]
<1>1. /\ AppInv(a) /\ app[a] \in AppType /\ app[a].at = "join"
      /\ app' = [app EXCEPT ![a].at = "joining", ![a].join = thread]
      /\ UNCHANGED <<nextSn, sn, locked, recording, running, thread, queue, posted,
                     handles, task>>
  BY AppHas DEF Join, table
<1>2. thread \in Tasks /\ running = 0 /\ a \in Openers
  BY <1>1 DEF AppInv, Leaving
<1>3. mid \in AppType /\ mid.at = "joining"
  BY <1>1 DEF AppType, AppPlaces
<1>4. app' = [app EXCEPT ![a] = new]
  BY <1>1 DEF IInv, TypeOK
<1>. HIDE DEF mid
<1>5. new \in AppType /\ new.at = "joining" /\ new.join = thread
  BY <1>2, <1>3 DEF AppType
<1>. HIDE DEF new
<1>6. /\ app' \in [Apps -> AppType] /\ app'[a] = new
      /\ \A b \in Apps : b # a => app'[b] = app[b]
  BY <1>4, <1>5 DEF IInv, TypeOK
<1>7. TypeOK'
  BY <1>1, <1>6 DEF IInv, TypeOK
<1>8. AppInv(a)'
  BY <1>1, <1>2, <1>5, <1>6 DEF AppInv, Opening, Entering, Leaving
<1>9. app'[a].at \in Leaving
  BY <1>5, <1>6 DEF Leaving
<1>. QED
  BY <1>1, <1>6, <1>7, <1>8, <1>9, AppFrame

(* The task that has ended was the only one.                               *)
LEMMA JoinedKeeps ==
  ASSUME OneOpener, IInv, NEW a \in Apps, Joined(a)
  PROVE  TypeOK' /\ AppsInv' /\ ThreadInv' /\ TasksInv'
<1>1. /\ AppInv(a) /\ app[a].at = "joining" /\ app' = [app EXCEPT ![a] = IdleApp]
      /\ task[app[a].join].at = "exit"
      /\ UNCHANGED <<nextSn, sn, locked, recording, running, thread, queue, posted,
                     handles, task>>
  BY AppHas DEF Joined, table
<1>2. \A k \in Tasks : ~ Live(k)
  BY <1>1 DEF AppInv, Live, IInv, ThreadInv, OneTask
<1>3. /\ app' \in [Apps -> AppType] /\ app'[a].at = "idle"
      /\ \A b \in Apps : b # a => app'[b] = app[b]
  BY <1>1, AppReturns DEF IInv
<1>4. TypeOK'
  BY <1>1, <1>3 DEF IInv, TypeOK
<1>5. AppInv(a)'
  BY <1>3 DEF AppInv, Opening, Entering, Leaving
<1>. QED
  BY <1>1, <1>2, <1>3, <1>4, <1>5, AppFrame

-----------------------------------------------------------------------------
(* A task that takes the oldest event, or finds none.                      *)
LEMMA TakeEventDoes ==
  ASSUME TypeOK, NEW k \in Tasks, NEW empty \in {"wait", "loop"}, TakeEvent(k, empty)
  PROVE  /\ task' \in [Tasks -> TaskType] /\ queue' \in Seq(Event)
         /\ \A l \in Tasks : l # k => task'[l] = task[l]
         /\ \/ /\ queue = <<>> /\ queue' = queue
               /\ task'[k].at = empty /\ task'[k].evt = NoEvent
            \/ /\ queue # <<>> /\ queue' = Tail(queue)
               /\ task'[k].at = "lookup" /\ task'[k].evt = Head(queue)
<1>1. NoTask \in TaskType /\ NoTask.evt = NoEvent
  BY DEF NoTask, TaskType, TaskPlaces
<1>. DEFINE none == [NoTask EXCEPT !.at = empty]
            mid == [NoTask EXCEPT !.at = "lookup"]
            some == [mid EXCEPT !.evt = Head(queue)]
<1>2. none \in TaskType /\ none.at = empty /\ none.evt = NoEvent
  BY <1>1 DEF TaskType, TaskPlaces
<1>3. queue # <<>> => Head(queue) \in Event /\ Tail(queue) \in Seq(Event)
  BY DEF TypeOK
<1>4. mid \in TaskType /\ mid.at = "lookup"
  BY <1>1 DEF TaskType, TaskPlaces
<1>5. task' = [task EXCEPT ![k] = IF queue = <<>> THEN none ELSE some]
  BY DEF TakeEvent
<1>6. queue' = IF queue = <<>> THEN queue ELSE Tail(queue)
  BY DEF TakeEvent
<1>. HIDE DEF mid
<1>7. queue # <<>> => some \in TaskType /\ some.at = "lookup" /\ some.evt = Head(queue)
  BY <1>3, <1>4 DEF TaskType
<1>. HIDE DEF none, some
<1>8. CASE queue = <<>>
  BY <1>2, <1>5, <1>6, <1>8 DEF TypeOK
<1>9. CASE queue # <<>>
  BY <1>3, <1>5, <1>6, <1>7, <1>9 DEF TypeOK
<1>. QED
  BY <1>8, <1>9

(* The steps that neither find a context nor take or give back a lock.     *)
LEMMA TaskPlainKeeps ==
  ASSUME IInv, NEW k \in Tasks,
         TaskLoop(k) \/ TaskGet(k) \/ TaskWait(k) \/ TaskNext(k)
  PROVE  TypeOK' /\ AppsInv' /\ ThreadInv' /\ TasksInv'
<1>1. /\ Live(k)
      /\ UNCHANGED <<nextSn, sn, locked, recording, running, thread, posted, handles, app>>
  BY DEF TaskLoop, TaskGet, TaskWait, TaskNext, Live, table
<1>2. /\ task' \in [Tasks -> TaskType] /\ queue' \in Seq(Event)
      /\ \A l \in Tasks : l # k => task'[l] = task[l]
      /\ task'[k].at \in {"loop", "get", "wait", "lookup", "exit"}
      /\ running > 0 => task'[k].at # "exit"
  <2>1. CASE TaskLoop(k)
    <3>. DEFINE place == IF running # 0 THEN "get" ELSE "exit"
    <3>1. TaskTo(k, place) /\ queue' = queue
      BY <2>1 DEF TaskLoop
    <3>2. /\ place \in TaskPlaces /\ place \in {"get", "exit"}
          /\ running > 0 => place # "exit"
      BY BoundsAssumption DEF TaskPlaces, IInv, TypeOK
    <3>. HIDE DEF place
    <3>3. queue' \in Seq(Event)
      BY <3>1 DEF IInv, TypeOK
    <3>4. /\ task' \in [Tasks -> TaskType] /\ task'[k].at = place
          /\ \A l \in Tasks : l # k => task'[l] = task[l]
      BY <3>1, <3>2, TaskMoves DEF IInv
    <3>. QED
      BY <3>2, <3>3, <3>4
  <2>2. CASE TaskWait(k)
    <3>1. TaskTo(k, "loop") /\ queue' \in Seq(Event) /\ "loop" \in TaskPlaces
      BY <2>2 DEF TaskWait, IInv, TypeOK, TaskPlaces
    <3>. QED
      BY <3>1, TaskMoves DEF IInv
  <2>3. CASE TaskGet(k) \/ TaskNext(k)
    <3>1. TakeEvent(k, "wait") \/ TakeEvent(k, "loop")
      BY <2>3 DEF TaskGet, TaskNext
    <3>. QED
      BY <3>1, TakeEventDoes DEF IInv
  <2>. QED
    BY <2>1, <2>2, <2>3
<1>3. TypeOK'
  BY <1>1, <1>2 DEF IInv, TypeOK
<1>4. TaskInv(k)'
  BY <1>2 DEF TaskInv, Looking
<1>5. running > 0 => Live(k)'
  BY <1>2 DEF Live
<1>. QED
  BY <1>1, <1>2, <1>3, <1>4, <1>5, TaskFrame

(* The task finds the context of its event, without a lock.                *)
LEMMA TaskLookupKeeps ==
  ASSUME IInv, NEW k \in Tasks, TaskLookup(k)
  PROVE  TypeOK' /\ AppsInv' /\ ThreadInv' /\ TasksInv'
<1>. DEFINE found == Matches(task[k].evt.sn)
            place == IF found = {} THEN "next" ELSE "check"
            slot == IF found = {} THEN NoSlot ELSE First(found)
            mid == [task[k] EXCEPT !.at = place]
            new == [mid EXCEPT !.slot = slot]
<1>1. /\ Live(k) /\ task[k] \in TaskType
      /\ task' = [task EXCEPT ![k].at = place, ![k].slot = slot]
      /\ UNCHANGED <<nextSn, sn, locked, recording, running, thread, queue, posted,
                     handles, app>>
  BY DEF TaskLookup, Live, table, IInv, TypeOK
<1>2. /\ place \in {"next", "check"} /\ slot \in Slots \cup {NoSlot}
      /\ place = "check" => slot \in Slots
  BY FirstOf DEF Matches
<1>. HIDE DEF place, slot
<1>3. task' = [task EXCEPT ![k] = new]
  BY <1>1 DEF IInv, TypeOK
<1>4. mid \in TaskType /\ mid.at = place
  BY <1>1, <1>2 DEF TaskType, TaskPlaces
<1>. HIDE DEF mid
<1>5. new \in TaskType /\ new.at = place /\ new.slot = slot
  BY <1>2, <1>4 DEF TaskType
<1>. HIDE DEF new
<1>6. /\ task' \in [Tasks -> TaskType] /\ task'[k] = new
      /\ \A l \in Tasks : l # k => task'[l] = task[l]
  BY <1>3, <1>5 DEF IInv, TypeOK
<1>7. TypeOK'
  BY <1>1, <1>6 DEF IInv, TypeOK
<1>8. TaskInv(k)'
  BY <1>2, <1>5, <1>6 DEF TaskInv, Looking
<1>9. Live(k)'
  BY <1>2, <1>5, <1>6 DEF Live
<1>. QED
  BY <1>1, <1>6, <1>7, <1>8, <1>9, TaskFrame

(* What IInv says of the task that takes a step.                           *)
LEMMA TaskHas ==
  ASSUME IInv, NEW k \in Tasks, task[k].at \in Looking
  PROVE  /\ TaskInv(k) /\ Live(k) /\ task[k].slot \in Slots
         /\ task[k].r2 \in {"ok", "ETIMEDOUT"}
         /\ locked \in [Slots -> Apps \cup Tasks \cup {Nobody}]
BY DEF IInv, TasksInv, TaskInv, Live, Looking, TypeOK, TaskType

(* The steps of wrapper_mutex_lock_if that only look at `running'.         *)
LEMMA TaskReadsKeeps ==
  ASSUME IInv, NEW k \in Tasks, TaskCheck(k) \/ LockIfAgain(k) \/ LockIfReturn(k)
  PROVE  TypeOK' /\ AppsInv' /\ ThreadInv' /\ TasksInv'
<1>1. /\ task[k].at \in {"check", "again", "return"}
      /\ UNCHANGED <<nextSn, sn, locked, recording, running, thread, queue, posted,
                     handles, app>>
  BY DEF TaskCheck, LockIfAgain, LockIfReturn, table
<1>2. /\ TaskInv(k) /\ Live(k) /\ task[k].slot \in Slots
      /\ task[k].r2 \in {"ok", "ETIMEDOUT"}
  BY <1>1, TaskHas DEF Looking
<1>3. PICK place \in {"timedlock", "next", "undo", "handle"} :
        /\ TaskTo(k, place)
        /\ place = "undo" => /\ task[k].at = "again"
                             /\ task[k].r2 = "ETIMEDOUT" => running = 0
        /\ place = "handle" => task[k].at = "return" /\ running # 0
  <2>1. CASE TaskCheck(k)
    BY <2>1 DEF TaskCheck
  <2>2. CASE LockIfAgain(k)
    BY <2>2 DEF LockIfAgain
  <2>3. CASE LockIfReturn(k)
    BY <2>3 DEF LockIfReturn
  <2>. QED
    BY <2>1, <2>2, <2>3
<1>4. /\ task' \in [Tasks -> TaskType] /\ task'[k].at = place
      /\ task'[k].evt = task[k].evt /\ task'[k].slot = task[k].slot
      /\ task'[k].r2 = task[k].r2
      /\ \A l \in Tasks : l # k => task'[l] = task[l]
  BY <1>3, TaskMoves DEF IInv, TaskPlaces
<1>5. TypeOK'
  BY <1>1, <1>4 DEF IInv, TypeOK
<1>6. TaskInv(k)'
  BY <1>1, <1>2, <1>3, <1>4 DEF TaskInv, Looking
<1>7. Live(k)'
  BY <1>4 DEF Live
<1>. QED
  BY <1>1, <1>2, <1>4, <1>5, <1>6, <1>7, TaskFrame

(* wrapper_mutex_timedlock gets the lock, or not.                          *)
LEMMA TimedLockKeeps ==
  ASSUME IInv, NEW k \in Tasks, LockIfLocked(k) \/ LockIfTimeout(k)
  PROVE  TypeOK' /\ AppsInv' /\ ThreadInv' /\ TasksInv'
<1>1. /\ task[k].at = "timedlock"
      /\ UNCHANGED <<nextSn, sn, recording, running, thread, queue, posted, handles, app>>
  BY DEF LockIfLocked, LockIfTimeout, table
<1>2. /\ TaskInv(k) /\ Live(k) /\ task[k].slot \in Slots /\ task[k] \in TaskType
  BY <1>1, TaskHas DEF Looking, IInv, TypeOK
<1>3. PICK r2 \in {"ok", "ETIMEDOUT"} :
        /\ task' = [task EXCEPT ![k].at = "again", ![k].r2 = r2]
        /\ \/ r2 = "ok" /\ Lock(task[k].slot, k)
           \/ r2 = "ETIMEDOUT" /\ UNCHANGED locked
  BY DEF LockIfLocked, LockIfTimeout, table
<1>. DEFINE mid == [task[k] EXCEPT !.at = "again"]
            new == [mid EXCEPT !.r2 = r2]
<1>4. task' = [task EXCEPT ![k] = new]
  BY <1>3 DEF IInv, TypeOK
<1>5. mid \in TaskType /\ mid.at = "again" /\ mid.slot = task[k].slot
  BY <1>2 DEF TaskType, TaskPlaces
<1>. HIDE DEF mid
<1>6. new \in TaskType /\ new.at = "again" /\ new.slot = task[k].slot /\ new.r2 = r2
  BY <1>5 DEF TaskType
<1>. HIDE DEF new
<1>7. /\ task' \in [Tasks -> TaskType] /\ task'[k] = new
      /\ \A l \in Tasks : l # k => task'[l] = task[l]
  BY <1>4, <1>6 DEF IInv, TypeOK
<1>8. /\ locked' \in [Slots -> Apps \cup Tasks \cup {Nobody}]
      /\ r2 = "ok" => locked'[task[k].slot] = k
      /\ \A s \in Slots : locked'[s] = locked[s] \/ locked[s] \in {Nobody, k}
  <2>1. CASE r2 = "ok" /\ Lock(task[k].slot, k)
    BY <1>2, <2>1, LockMoves DEF IInv
  <2>2. CASE r2 = "ETIMEDOUT" /\ UNCHANGED locked
    BY <2>2 DEF IInv, TypeOK
  <2>. QED
    BY <1>3, <2>1, <2>2
<1>9. TypeOK'
  BY <1>1, <1>7, <1>8 DEF IInv, TypeOK
<1>10. TaskInv(k)'
  BY <1>2, <1>6, <1>7, <1>8 DEF TaskInv, Looking
<1>11. Live(k)'
  BY <1>6, <1>7 DEF Live
<1>. QED
  BY <1>1, <1>2, <1>7, <1>8, <1>9, <1>10, <1>11, TaskFrame

(* The lock is given back: it was the task's own.                          *)
LEMMA TaskUnlocksKeeps ==
  ASSUME IInv, NEW k \in Tasks, LockIfUndo(k) \/ TaskUnlock(k)
  PROVE  TypeOK' /\ AppsInv' /\ ThreadInv' /\ TasksInv'
<1>1. /\ task[k].at \in {"undo", "unlock"}
      /\ UNCHANGED <<nextSn, sn, recording, running, thread, queue, posted, handles, app>>
  BY DEF LockIfUndo, TaskUnlock
<1>2. /\ TaskInv(k) /\ Live(k) /\ task[k].slot \in Slots
      /\ task[k].r2 \in {"ok", "ETIMEDOUT"}
  BY <1>1, TaskHas DEF Looking
<1>3. PICK place \in {"return", "next"} :
        /\ TaskTo(k, place)
        /\ \/ Unlock(task[k].slot) /\ locked[task[k].slot] = k
           \/ UNCHANGED locked
        /\ place = "return" /\ running # 0 => /\ UNCHANGED locked
                                              /\ locked[task[k].slot] = k
  <2>1. CASE LockIfUndo(k)
    <3>1. /\ TaskTo(k, "return") /\ task[k].at = "undo"
          /\ IF running = 0 /\ task[k].r2 = "ok" THEN Unlock(task[k].slot)
                                                 ELSE UNCHANGED locked
      BY <2>1 DEF LockIfUndo
    <3>2. /\ task[k].r2 = "ok" => locked[task[k].slot] = k
          /\ running # 0 => task[k].r2 = "ok"
      BY <1>2, <3>1 DEF TaskInv
    <3>. QED
      BY <3>1, <3>2
  <2>2. CASE TaskUnlock(k)
    <3>1. TaskTo(k, "next") /\ task[k].at = "unlock" /\ Unlock(task[k].slot)
      BY <2>2 DEF TaskUnlock
    <3>2. locked[task[k].slot] = k
      BY <1>2, <3>1 DEF TaskInv
    <3>. QED
      BY <3>1, <3>2
  <2>. QED
    BY <2>1, <2>2
<1>4. /\ task' \in [Tasks -> TaskType] /\ task'[k].at = place
      /\ task'[k].slot = task[k].slot
      /\ \A l \in Tasks : l # k => task'[l] = task[l]
  BY <1>3, TaskMoves DEF IInv, TaskPlaces
<1>5. /\ locked' \in [Slots -> Apps \cup Tasks \cup {Nobody}]
      /\ \A s \in Slots : locked'[s] = locked[s] \/ locked[s] \in {Nobody, k}
  <2>1. CASE Unlock(task[k].slot) /\ locked[task[k].slot] = k
    BY <1>2, <2>1, LockMoves DEF IInv
  <2>2. CASE UNCHANGED locked
    BY <2>2 DEF IInv, TypeOK
  <2>. QED
    BY <1>3, <2>1, <2>2
<1>6. TypeOK'
  BY <1>1, <1>4, <1>5 DEF IInv, TypeOK
<1>7. TaskInv(k)'
  BY <1>1, <1>2, <1>3, <1>4 DEF TaskInv, Looking
<1>8. Live(k)'
  BY <1>4 DEF Live
<1>. QED
  BY <1>1, <1>2, <1>4, <1>5, <1>6, <1>7, <1>8, TaskFrame

(* The second look at the context, under its lock, decides.                *)
LEMMA TaskHandleKeeps ==
  ASSUME IInv, NEW k \in Tasks, TaskHandle(k)
  PROVE  TypeOK' /\ AppsInv' /\ ThreadInv' /\ TasksInv'
<1>. DEFINE evt == IF sn[task[k].slot] = task[k].evt.sn THEN task[k].evt ELSE NoEvent
            mid == [task[k] EXCEPT !.at = "unlock"]
            new == [mid EXCEPT !.evt = evt]
<1>1. /\ task[k].at = "handle" /\ task[k] \in TaskType
      /\ UNCHANGED <<nextSn, sn, locked, recording, running, thread, queue, posted,
                     handles, app>>
  BY DEF TaskHandle, table, IInv, TypeOK
<1>2. TaskInv(k) /\ Live(k) /\ task[k].slot \in Slots
  BY <1>1, TaskHas DEF Looking
<1>3. task' = [task EXCEPT ![k] = new]
  BY DEF TaskHandle, IInv, TypeOK
<1>4. /\ evt \in Event \cup {NoEvent}
      /\ evt # NoEvent => evt.sn = sn[task[k].slot]
  BY <1>1 DEF TaskType
<1>. HIDE DEF evt
<1>5. mid \in TaskType /\ mid.at = "unlock" /\ mid.slot = task[k].slot
  BY <1>1 DEF TaskType, TaskPlaces
<1>. HIDE DEF mid
<1>6. new \in TaskType /\ new.at = "unlock" /\ new.slot = task[k].slot /\ new.evt = evt
  BY <1>4, <1>5 DEF TaskType
<1>. HIDE DEF new
<1>7. /\ task' \in [Tasks -> TaskType] /\ task'[k] = new
      /\ \A l \in Tasks : l # k => task'[l] = task[l]
  BY <1>3, <1>6 DEF IInv, TypeOK
<1>8. TypeOK'
  BY <1>1, <1>7 DEF IInv, TypeOK
<1>9. TaskInv(k)'
  BY <1>1, <1>2, <1>4, <1>6, <1>7 DEF TaskInv, Looking
<1>10. Live(k)'
  BY <1>6, <1>7 DEF Live
<1>. QED
  BY <1>1, <1>2, <1>7, <1>8, <1>9, <1>10, TaskFrame

(* A recorder adds an event at the tail of the list.                       *)
LEMMA PostEventDoes ==
  ASSUME TypeOK, PostEvent
  PROVE  \E e \in Event : /\ queue' = Append(queue, e) /\ queue' \in Seq(Event)
                          /\ e.no = posted + 1 /\ posted' = posted + 1
                          /\ posted' \in 0 .. MaxEvents
<1>1. PICK n \in recording : queue' = Append(queue, [sn |-> n, no |-> posted + 1])
  BY DEF PostEvent
<1>2. posted < MaxEvents /\ posted' = posted + 1
  BY DEF PostEvent
<1>3. n \in 1 .. MaxSn /\ posted + 1 \in 1 .. MaxEvents
  BY <1>2, BoundsAssumption DEF TypeOK
<1>. DEFINE e == [sn |-> n, no |-> posted + 1]
<1>4. e \in Event /\ e.no = posted + 1
  BY <1>3 DEF Event
<1>. HIDE DEF e
<1>5. queue' = Append(queue, e)
  BY <1>1 DEF e
<1>6. queue' \in Seq(Event)
  BY <1>4, <1>5 DEF TypeOK
<1>7. posted' \in 0 .. MaxEvents
  BY <1>2, <1>3
<1>. QED
  BY <1>2, <1>4, <1>5, <1>6, <1>7

(* The list is all that a recorder touches.                                *)
LEMMA PostEventKeeps ==
  ASSUME IInv, PostEvent
  PROVE  TypeOK' /\ AppsInv' /\ ThreadInv' /\ TasksInv'
<1>1. UNCHANGED <<nextSn, sn, locked, recording, running, thread, handles, app, task>>
  BY DEF PostEvent, table
<1>2. queue' \in Seq(Event) /\ posted' \in 0 .. MaxEvents
  BY PostEventDoes DEF IInv
<1>3. TypeOK'
  BY <1>1, <1>2 DEF IInv, TypeOK
<1>4. \A k \in Tasks : (Live(k)' <=> Live(k)) /\ (TaskInv(k)' <=> TaskInv(k))
  BY <1>1 DEF Live, TaskInv
<1>5. \A a \in Apps : AppInv(a)' <=> AppInv(a)
  BY <1>1 DEF AppInv
<1>6. ThreadInv'
  BY <1>1, <1>4 DEF IInv, ThreadInv, OneTask, Live
<1>. QED
  BY <1>3, <1>4, <1>5, <1>6 DEF IInv, AppsInv, TasksInv

-----------------------------------------------------------------------------
(* The contexts that have a session when the table is f.                   *)
WithSession(f) == {s \in Slots : f[s] # 0}

(* Only the thread that opens and closes is ever between the table and the *)
(* count, so each of the two sets of RunningCounts has one member or none. *)
LEMMA PlaceCount ==
  ASSUME OneOpener, NEW f, NEW place, NEW a \in Openers,
         \A b \in Apps : f[b].at = place => b \in Openers
  PROVE  /\ f[a].at = place => Cardinality({b \in Apps : f[b].at = place}) = 1
         /\ f[a].at # place => Cardinality({b \in Apps : f[b].at = place}) = 0
<1>. DEFINE B == {b \in Apps : f[b].at = place}
<1>1. a \in Apps /\ \A b \in B : b = a
  BY AppsAssumption DEF OneOpener
<1>2. CASE f[a].at = place
  <2>1. B = {a}
    BY <1>1, <1>2
  <2>2. Cardinality({a}) = 1
    BY FS_Singleton
  <2>. QED
    BY <1>2, <2>1, <2>2
<1>3. CASE f[a].at # place
  <2>1. B = {}
    BY <1>1, <1>3
  <2>2. Cardinality({}) = 0
    BY FS_EmptySet
  <2>. QED
    BY <1>3, <2>1, <2>2
<1>. QED
  BY <1>2, <1>3

(* The same for the thread of a step: RunningCounts in plain numbers.      *)
LEMMA CountsAt ==
  ASSUME OneOpener, AppsInv, NEW a \in Openers, NEW n \in Nat,
         n = Cardinality(WithSession(sn)), running \in Nat
  PROVE  RunningCounts <=> running = n - (IF app[a].at = "openThread" THEN 1 ELSE 0)
                                       + (IF app[a].at = "release" THEN 1 ELSE 0)
<1>1. \A b \in Apps : app[b].at \in {"openThread", "release"} => b \in Openers
  BY DEF AppsInv, AppInv, Opening
<1>2. /\ app[a].at = "openThread" =>
           Cardinality({b \in Apps : app[b].at = "openThread"}) = 1
      /\ app[a].at # "openThread" =>
           Cardinality({b \in Apps : app[b].at = "openThread"}) = 0
  BY <1>1, PlaceCount
<1>3. /\ app[a].at = "release" => Cardinality({b \in Apps : app[b].at = "release"}) = 1
      /\ app[a].at # "release" => Cardinality({b \in Apps : app[b].at = "release"}) = 0
  BY <1>1, PlaceCount
<1>. DEFINE T == Cardinality({b \in Apps : app[b].at = "openThread"})
            R == Cardinality({b \in Apps : app[b].at = "release"})
<1>4. RunningCounts <=> running = n - T + R
  BY DEF RunningCounts, WithSession
<1>5. T = (IF app[a].at = "openThread" THEN 1 ELSE 0)
  BY <1>2
<1>6. R = (IF app[a].at = "release" THEN 1 ELSE 0)
  BY <1>3
<1>. HIDE DEF T, R
<1>. QED
  BY <1>4, <1>5, <1>6

(* The same for the state after the step.                                  *)
LEMMA CountsAtNext ==
  ASSUME OneOpener, AppsInv', NEW a \in Openers, NEW n \in Nat,
         n = Cardinality(WithSession(sn')), running' \in Nat
  PROVE  RunningCounts' <=> running' = n - (IF app'[a].at = "openThread" THEN 1 ELSE 0)
                                         + (IF app'[a].at = "release" THEN 1 ELSE 0)
<1>1. \A b \in Apps : app'[b].at \in {"openThread", "release"} => b \in Openers
  BY DEF AppsInv, AppInv, Opening
<1>. DEFINE T == Cardinality({b \in Apps : app'[b].at = "openThread"})
            R == Cardinality({b \in Apps : app'[b].at = "release"})
<1>2. /\ app'[a].at = "openThread" => T = 1
      /\ app'[a].at # "openThread" => T = 0
  BY <1>1, PlaceCount
<1>3. /\ app'[a].at = "release" => R = 1
      /\ app'[a].at # "release" => R = 0
  BY <1>1, PlaceCount
<1>4. RunningCounts' <=> running' = n - T + R
  BY DEF RunningCounts, WithSession
<1>. HIDE DEF T, R
<1>. QED
  BY <1>2, <1>3, <1>4

(* A context gets a session, or loses it.                                  *)
LEMMA SessionCount ==
  ASSUME NEW s \in Slots, NEW f, NEW g, \A r \in Slots : r # s => g[r] = f[r]
  PROVE  \E m, n \in Nat :
           /\ m = Cardinality(WithSession(f))
           /\ n = Cardinality(WithSession(g))
           /\ f[s] = 0 /\ g[s] # 0 => n = m + 1
           /\ f[s] # 0 /\ g[s] = 0 => n = m - 1
<1>. DEFINE F == WithSession(f)
            G == WithSession(g)
<1>1. IsFiniteSet(F) /\ IsFiniteSet(G)
  BY SlotsAssumption, FS_Subset DEF WithSession
<1>2. Cardinality(F) \in Nat /\ Cardinality(G) \in Nat
  BY <1>1, FS_CardinalityType
<1>3. ASSUME f[s] = 0, g[s] # 0 PROVE Cardinality(G) = Cardinality(F) + 1
  <2>1. G = F \cup {s} /\ s \notin F
    BY <1>3 DEF WithSession
  <2>. QED
    BY <1>1, <2>1, FS_AddElement
<1>4. ASSUME f[s] # 0, g[s] = 0 PROVE Cardinality(G) = Cardinality(F) - 1
  <2>1. G = F \ {s} /\ s \in F
    BY <1>4 DEF WithSession
  <2>. QED
    BY <1>1, <2>1, FS_RemoveElement
<1>. QED
  BY <1>2, <1>3, <1>4

(* Every other step leaves the count and both places alone.                *)
LEMMA CountsStay ==
  ASSUME RunningCounts, running' = running,
         \A s \in Slots : sn'[s] = 0 <=> sn[s] = 0,
         \A a \in Apps : \/ app'[a].at = app[a].at
                         \/ {app[a].at, app'[a].at} \cap {"openThread", "release"} = {}
  PROVE  RunningCounts'
<1>1. WithSession(sn') = WithSession(sn)
  BY DEF WithSession
<1>2. {a \in Apps : app'[a].at = "openThread"} = {a \in Apps : app[a].at = "openThread"}
  OBVIOUS
<1>3. {a \in Apps : app'[a].at = "release"} = {a \in Apps : app[a].at = "release"}
  OBVIOUS
<1>. QED
  BY <1>1, <1>2, <1>3 DEF RunningCounts, WithSession

(* The calls that neither open or close a session nor ask for the task or  *)
(* let it go.                                                              *)
LEMMA PlainCounts ==
  ASSUME IInv, RunningCounts, NEW a \in Apps,
         \/ OpenFind(a) \/ OpenLock(a) \/ OpenDone(a) \/ OpenReturn(a)
         \/ OpFind(a) \/ OpLock(a) \/ OpInvalid(a) \/ OpStart(a) \/ OpStop(a)
         \/ Join(a) \/ Joined(a)
  PROVE  RunningCounts'
<1>. DEFINE Special == {"openThread", "release"}
<1>1. sn' = sn /\ running' = running
  BY DEF OpenFind, OpenLock, OpenDone, OpenReturn, OpFind, OpLock, OpInvalid,
         OpStart, OpStop, Join, Joined, table
<1>2. app[a].at \notin Special
  BY DEF OpenFind, OpenLock, OpenDone, OpenReturn, OpFind, OpLock, OpInvalid,
         OpStart, OpStop, Join, Joined
<1>3. app'[a].at \notin Special /\ \A b \in Apps : b # a => app'[b] = app[b]
  <2>1. CASE OpenFind(a)
    <3>. DEFINE mid == [IdleApp EXCEPT !.at = "openLock"]
                new == [mid EXCEPT !.slot = First(Matches(0))]
    <3>1. app' = [app EXCEPT ![a] = new]
      BY <2>1 DEF OpenFind
    <3>2. mid.at = "openLock" /\ DOMAIN mid = {"at", "op", "h", "slot", "join"}
      BY DEF IdleApp
    <3>3. new.at = mid.at
      <4>. HIDE DEF mid
      <4>. QED
        BY <3>2
    <3>. HIDE DEF new, mid
    <3>. QED
      BY <3>1, <3>2, <3>3 DEF IInv, TypeOK
  <2>2. CASE OpFind(a)
    <3>1. PICK h \in handles \ {0}, op \in Ops \ {"open"} :
            app' = [app EXCEPT ![a] = [at |-> "opLock", op |-> op, h |-> h,
                                       slot |-> First(Matches(h)), join |-> 0]]
      BY <2>2 DEF OpFind
    <3>. QED
      BY <3>1 DEF IInv, TypeOK
  <2>3. CASE OpenLock(a) \/ OpenDone(a) \/ OpLock(a)
    <3>1. PICK place \in {"openReset", "openReturn", "opBody"} : AppTo(a, place)
      BY <2>3 DEF OpenLock, OpenDone, OpLock
    <3>. QED
      BY <3>1, AppMoves DEF IInv, AppPlaces
  <2>4. CASE OpenReturn(a) \/ OpInvalid(a) \/ OpStart(a) \/ OpStop(a) \/ Joined(a)
    <3>1. app' = [app EXCEPT ![a] = IdleApp]
      BY <2>4 DEF OpenReturn, OpInvalid, OpStart, OpStop, Joined
    <3>. QED
      BY <3>1, AppReturns DEF IInv
  <2>5. CASE Join(a)
    <3>. DEFINE mid == [app[a] EXCEPT !.at = "joining"]
                new == [mid EXCEPT !.join = thread]
    <3>1. app' = [app EXCEPT ![a] = new]
      BY <2>5 DEF Join, IInv, TypeOK
    <3>2. mid \in AppType /\ mid.at = "joining"
      BY AppHas DEF AppType, AppPlaces
    <3>3. new.at = mid.at
      <4>. HIDE DEF mid
      <4>. QED
        BY <3>2 DEF AppType
    <3>. HIDE DEF new, mid
    <3>. QED
      BY <3>1, <3>2, <3>3 DEF IInv, TypeOK
  <2>. QED
    BY <2>1, <2>2, <2>3, <2>4, <2>5
<1>4. \A b \in Apps : \/ app'[b].at = app[b].at
                      \/ {app[b].at, app'[b].at} \cap Special = {}
  BY <1>2, <1>3
<1>. QED
  BY <1>1, <1>4, CountsStay

(* A session is counted from the moment it is in the table.                *)
LEMMA ResetCounts ==
  ASSUME OneOpener, IInv, RunningCounts, NEW a \in Apps, OpenReset(a), TypeOK', AppsInv'
  PROVE  RunningCounts'
<1>1. /\ AppInv(a) /\ app[a].at = "openReset" /\ app[a].slot \in Slots
      /\ a \in Openers /\ sn[app[a].slot] = 0
  BY AppHas DEF OpenReset, Opening, AppInv
<1>. DEFINE s == app[a].slot
<1>2. /\ sn' = [sn EXCEPT ![s] = nextSn] /\ AppTo(a, "openThread")
      /\ running' = running /\ running \in Nat /\ nextSn # 0
  BY BoundsAssumption DEF OpenReset, IInv, TypeOK
<1>3. sn'[s] # 0 /\ \A r \in Slots : r # s => sn'[r] = sn[r]
  BY <1>1, <1>2 DEF IInv, TypeOK
<1>4. app'[a].at = "openThread"
  BY <1>2, AppMoves DEF IInv, AppPlaces
<1>5. PICK m, n \in Nat : /\ m = Cardinality(WithSession(sn))
                          /\ n = Cardinality(WithSession(sn'))
                          /\ n = m + 1
  BY <1>1, <1>3, SessionCount
<1>6. running = m
  BY <1>1, <1>2, <1>5, CountsAt DEF IInv
<1>7. RunningCounts' <=> running' = n - 1
  <2>1. running' \in Nat
    BY <1>2
  <2>2. RunningCounts' <=>
          running' = n - (IF app'[a].at = "openThread" THEN 1 ELSE 0)
                       + (IF app'[a].at = "release" THEN 1 ELSE 0)
    BY <1>1, <1>5, <2>1, CountsAtNext
  <2>. QED
    BY <1>4, <2>2
<1>. QED
  BY <1>2, <1>5, <1>6, <1>7

(* A session that leaves the table is still counted until its close has    *)
(* let the task go.                                                        *)
LEMMA CloseCounts ==
  ASSUME OneOpener, IInv, RunningCounts, NEW a \in Apps, OpenFail(a) \/ OpClose(a),
         TypeOK', AppsInv'
  PROVE  RunningCounts'
<1>1. /\ AppInv(a) /\ app[a].at \in {"openRecorder", "opBody"}
      /\ app[a].slot \in Slots /\ a \in Openers /\ sn[app[a].slot] # 0
  BY AppHas DEF OpenFail, OpClose, Opening, AppInv
<1>. DEFINE s == app[a].slot
<1>2. /\ sn' = [sn EXCEPT ![s] = 0] /\ AppTo(a, "release")
      /\ running' = running /\ running \in Nat
  BY BoundsAssumption DEF OpenFail, OpClose, IInv, TypeOK
<1>3. sn'[s] = 0 /\ \A r \in Slots : r # s => sn'[r] = sn[r]
  BY <1>1, <1>2 DEF IInv, TypeOK
<1>4. app'[a].at = "release"
  BY <1>2, AppMoves DEF IInv, AppPlaces
<1>5. PICK m, n \in Nat : /\ m = Cardinality(WithSession(sn))
                          /\ n = Cardinality(WithSession(sn'))
                          /\ n = m - 1
  BY <1>1, <1>3, SessionCount
<1>6. running = m
  BY <1>1, <1>2, <1>5, CountsAt DEF IInv
<1>7. RunningCounts' <=> running' = n + 1
  <2>1. running' \in Nat
    BY <1>2
  <2>2. RunningCounts' <=>
          running' = n - (IF app'[a].at = "openThread" THEN 1 ELSE 0)
                       + (IF app'[a].at = "release" THEN 1 ELSE 0)
    BY <1>1, <1>5, <2>1, CountsAtNext
  <2>. QED
    BY <1>4, <2>2
<1>. QED
  BY <1>2, <1>5, <1>6, <1>7

(* The opener asks for the task, or lets it go: the session was counted.   *)
LEMMA ThreadCounts ==
  ASSUME OneOpener, IInv, RunningCounts, NEW a \in Apps, OpenThread(a) \/ Release(a)
  PROVE  /\ Release(a) => running > 0
         /\ TypeOK' /\ AppsInv' => RunningCounts'
<1>1. /\ AppInv(a) /\ app[a].at \in {"openThread", "release"} /\ a \in Openers
      /\ app[a] \in AppType
  BY AppHas DEF OpenThread, Release, Opening, AppInv
<1>2. /\ sn' = sn /\ running \in Nat
      /\ Release(a) => running' = running - 1 /\ app[a].at = "release"
      /\ OpenThread(a) => running' = running + 1 /\ app[a].at = "openThread"
  BY BoundsAssumption DEF OpenThread, Release, RequestThread, table, IInv, TypeOK
<1>3. app'[a].at \notin {"openThread", "release"}
  <2>1. CASE OpenThread(a)
    <3>1. AppTo(a, "openRecorder")
      BY <2>1 DEF OpenThread
    <3>. QED
      BY <3>1, AppMoves DEF IInv, AppPlaces
  <2>2. CASE Release(a)
    <3>. DEFINE mid == [app[a] EXCEPT !.at = "join"]
    <3>1. app' = [app EXCEPT ![a] = IF running = 1 THEN mid ELSE IdleApp]
      BY <2>2 DEF Release, IInv, TypeOK
    <3>2. mid.at = "join" /\ IdleApp.at = "idle"
      BY <1>1 DEF AppType, IdleApp
    <3>. HIDE DEF mid
    <3>. QED
      BY <3>1, <3>2 DEF IInv, TypeOK
  <2>. QED
    BY <2>1, <2>2
<1>. DEFINE n == Cardinality(WithSession(sn))
<1>4. n \in Nat
  <2>1. IsFiniteSet(WithSession(sn))
    BY SlotsAssumption, FS_Subset DEF WithSession
  <2>. QED
    BY <2>1, FS_CardinalityType
<1>5. RunningCounts <=> running = n - (IF app[a].at = "openThread" THEN 1 ELSE 0)
                                     + (IF app[a].at = "release" THEN 1 ELSE 0)
  BY <1>1, <1>2, <1>4, CountsAt DEF IInv
<1>6. ASSUME TypeOK', AppsInv' PROVE RunningCounts' <=> running' = n
  <2>1. running' \in Nat /\ n = Cardinality(WithSession(sn'))
    BY <1>2, <1>6, BoundsAssumption DEF TypeOK
  <2>. HIDE DEF n
  <2>. QED
    BY <1>1, <1>3, <1>4, <1>6, <2>1, CountsAtNext
<1>. HIDE DEF n
<1>7. Release(a) => running = n + 1
  BY <1>2, <1>4, <1>5
<1>8. OpenThread(a) => running = n - 1
  BY <1>2, <1>4, <1>5
<1>. QED
  BY <1>2, <1>4, <1>6, <1>7, <1>8

-----------------------------------------------------------------------------
(* A step that adds no event and takes none from the list.                 *)
LEMMA QueueStays ==
  ASSUME QueueInv, UNCHANGED <<queue, posted>>,
         \A k \in Tasks : task'[k].evt \in {task[k].evt, NoEvent}
  PROVE  QueueInv'
BY DEF QueueInv

(* The numbers of the events are naturals.                                 *)
LEMMA QueueTypes ==
  ASSUME TypeOK
  PROVE  /\ queue \in Seq(Event) /\ Len(queue) \in Nat /\ posted \in Nat
         /\ \A i \in DOMAIN queue : queue[i].no \in Nat
         /\ \A k \in Tasks : task[k].evt # NoEvent => task[k].evt.no \in Nat
<1>1. \A e \in Event : e.no \in Nat
  BY BoundsAssumption DEF Event
<1>2. queue \in Seq(Event)
  BY DEF TypeOK
<1>3. Len(queue) \in Nat /\ \A i \in DOMAIN queue : queue[i] \in Event
  BY <1>2
<1>4. posted \in Nat
  BY BoundsAssumption DEF TypeOK
<1>5. \A k \in Tasks : task[k].evt # NoEvent => task[k].evt \in Event
  BY DEF TypeOK, TaskType
<1>. QED
  BY <1>1, <1>2, <1>3, <1>4, <1>5

(* The oldest event is taken: it is the smallest, and older ones were      *)
(* taken before.                                                           *)
LEMMA QueueTaken ==
  ASSUME TypeOK, QueueInv, NEW k \in Tasks, NEW empty \in {"wait", "loop"},
         TakeEvent(k, empty), posted' = posted
  PROVE  QueueInv'
<1>1. \A l \in Tasks : l # k => task'[l] = task[l]
  BY TakeEventDoes
<1>2. CASE queue = <<>> /\ queue' = queue /\ task'[k].evt = NoEvent
  BY <1>1, <1>2, QueueStays
<1>3. CASE queue # <<>> /\ queue' = Tail(queue) /\ task'[k].evt = Head(queue)
  <2>1. /\ queue \in Seq(Event) /\ Len(queue) \in Nat /\ Len(queue) > 0
        /\ posted \in Nat /\ \A i \in DOMAIN queue : queue[i].no \in Nat
    BY <1>3, QueueTypes
  <2>2. Head(queue) = queue[1] /\ 1 \in DOMAIN queue
    BY <2>1
  <2>3. \A i \in DOMAIN queue' : i + 1 \in DOMAIN queue /\ queue'[i] = queue[i + 1]
    BY <1>3, <2>1
  <2>4. DOMAIN queue' \subseteq Nat \ {0}
    BY <1>3, <2>1
  <2>5. \A i \in DOMAIN queue' : queue'[i].no <= posted /\ queue'[i].no > queue[1].no
    BY <2>1, <2>2, <2>3, <2>4 DEF QueueInv
  <2>6. \A i, j \in DOMAIN queue' : i < j => queue'[i].no < queue'[j].no
    BY <2>3, <2>4 DEF QueueInv
  <2>7. ASSUME NEW l \in Tasks, task'[l].evt # NoEvent
        PROVE  /\ task'[l].evt.no <= posted
               /\ \A i \in DOMAIN queue' : queue'[i].no > task'[l].evt.no
    <3>1. CASE l = k
      BY <1>3, <2>2, <2>5, <3>1 DEF QueueInv
    <3>2. CASE l # k
      BY <1>1, <2>3, <2>7, <3>2 DEF QueueInv
    <3>. QED
      BY <3>1, <3>2
  <2>. QED
    BY <2>5, <2>6, <2>7 DEF QueueInv
<1>4. \/ queue = <<>> /\ queue' = queue /\ task'[k].evt = NoEvent
      \/ queue # <<>> /\ queue' = Tail(queue) /\ task'[k].evt = Head(queue)
  BY TakeEventDoes
<1>. QED
  BY <1>2, <1>3, <1>4

(* A new event has the greatest number.                                    *)
LEMMA QueuePosted ==
  ASSUME TypeOK, QueueInv, PostEvent
  PROVE  QueueInv'
<1>1. PICK e \in Event : /\ queue' = Append(queue, e) /\ queue' \in Seq(Event)
                         /\ e.no = posted + 1 /\ posted' = posted + 1
  BY PostEventDoes
<1>2. task' = task
  BY DEF PostEvent
<1>3. /\ queue \in Seq(Event) /\ Len(queue) \in Nat /\ posted \in Nat
      /\ \A i \in DOMAIN queue : queue[i].no \in Nat
      /\ \A k \in Tasks : task[k].evt # NoEvent => task[k].evt.no \in Nat
  BY QueueTypes
<1>4. \A i \in DOMAIN queue' : \/ i \in DOMAIN queue /\ queue'[i] = queue[i]
                               \/ i = Len(queue) + 1 /\ queue'[i] = e
  BY <1>1, <1>3
<1>5. \A i \in DOMAIN queue' : queue'[i].no <= posted'
  BY <1>1, <1>3, <1>4 DEF QueueInv
<1>6. ASSUME NEW i \in DOMAIN queue', NEW j \in DOMAIN queue', i < j
      PROVE  queue'[i].no < queue'[j].no
  <2>1. DOMAIN queue' = 1 .. Len(queue) + 1 /\ DOMAIN queue = 1 .. Len(queue)
    BY <1>1, <1>3
  <2>2. i \in DOMAIN queue /\ queue'[i] = queue[i]
    BY <1>3, <1>4, <1>6, <2>1
  <2>3. CASE j \in DOMAIN queue /\ queue'[j] = queue[j]
    BY <1>6, <2>2, <2>3 DEF QueueInv
  <2>4. CASE queue'[j] = e
    BY <1>1, <1>3, <2>2, <2>4 DEF QueueInv
  <2>. QED
    BY <1>4, <2>3, <2>4
<1>7. ASSUME NEW k \in Tasks, task[k].evt # NoEvent
      PROVE  /\ task[k].evt.no <= posted'
             /\ \A i \in DOMAIN queue' : queue'[i].no > task[k].evt.no
  <2>1. /\ task[k].evt.no <= posted /\ task[k].evt.no \in Nat
        /\ \A i \in DOMAIN queue : queue[i].no > task[k].evt.no
    BY <1>3, <1>7 DEF QueueInv
  <2>. QED
    BY <1>1, <1>3, <1>4, <2>1
<1>. QED
  BY <1>2, <1>5, <1>6, <1>7 DEF QueueInv

(* The first open starts the task: no thread has its event changed.        *)
LEMMA QueueRequest ==
  ASSUME TypeOK, QueueInv, NEW a \in Apps, OpenThread(a)
  PROVE  QueueInv'
<1>1. UNCHANGED <<queue, posted>>
  BY DEF OpenThread
<1>2. task' = task \/ \E k : TaskTo(k, "loop")
  BY DEF OpenThread, RequestThread
<1>3. ASSUME NEW k, TaskTo(k, "loop"), NEW l \in Tasks
      PROVE  task'[l].evt = task[l].evt
  <2>1. task[l] \in TaskType
    BY DEF TypeOK
  <2>2. task'[l] = task[l] \/ task'[l] = [task[l] EXCEPT !.at = "loop"]
    BY <1>3 DEF TypeOK, TaskTo
  <2>. QED
    BY <2>1, <2>2 DEF TaskType
<1>. QED
  BY <1>1, <1>2, <1>3, QueueStays

(* A step of the task that takes no event: it keeps the one in hand or     *)
(* drops it.                                                               *)
LEMMA QueueTask ==
  ASSUME TypeOK, QueueInv, NEW k \in Tasks, TaskStep(k), ~ TaskGet(k), ~ TaskNext(k)
  PROVE  QueueInv'
<1>1. UNCHANGED <<queue, posted>>
  BY DEF TaskStep, TaskLoop, TaskWait, TaskLookup, TaskCheck, LockIfLocked,
         LockIfTimeout, LockIfAgain, LockIfUndo, LockIfReturn, TaskHandle, TaskUnlock
<1>2. task[k] \in TaskType
  BY DEF TypeOK
<1>3. \A l \in Tasks : task'[l].evt \in {task[l].evt, NoEvent}
  <2>1. CASE \/ TaskLoop(k) \/ TaskWait(k) \/ TaskCheck(k) \/ LockIfAgain(k)
             \/ LockIfUndo(k) \/ LockIfReturn(k) \/ TaskUnlock(k)
    <3>1. PICK place : TaskTo(k, place)
      BY <2>1 DEF TaskLoop, TaskWait, TaskCheck, LockIfAgain, LockIfUndo, LockIfReturn,
                  TaskUnlock
    <3>2. task' = [task EXCEPT ![k] = [task[k] EXCEPT !.at = place]]
      BY <3>1 DEF TaskTo, TypeOK
    <3>3. [task[k] EXCEPT !.at = place].evt = task[k].evt
      BY <1>2 DEF TaskType
    <3>. QED
      BY <3>2, <3>3 DEF TypeOK
  <2>2. CASE TaskLookup(k)
    <3>1. PICK place, slot : task' = [task EXCEPT ![k].at = place, ![k].slot = slot]
      BY <2>2 DEF TaskLookup
    <3>. DEFINE mid == [task[k] EXCEPT !.at = place]
                new == [mid EXCEPT !.slot = slot]
    <3>2. task' = [task EXCEPT ![k] = new]
      BY <3>1 DEF TypeOK
    <3>3. mid.evt = task[k].evt /\ DOMAIN mid = {"at", "evt", "slot", "r2"}
      BY <1>2 DEF TaskType
    <3>. HIDE DEF mid
    <3>4. new.evt = mid.evt
      BY <3>3
    <3>. HIDE DEF new
    <3>. QED
      BY <3>2, <3>3, <3>4 DEF TypeOK
  <2>3. CASE LockIfLocked(k) \/ LockIfTimeout(k)
    <3>1. PICK r2 : task' = [task EXCEPT ![k].at = "again", ![k].r2 = r2]
      BY <2>3 DEF LockIfLocked, LockIfTimeout
    <3>. DEFINE mid == [task[k] EXCEPT !.at = "again"]
                new == [mid EXCEPT !.r2 = r2]
    <3>2. task' = [task EXCEPT ![k] = new]
      BY <3>1 DEF TypeOK
    <3>3. mid.evt = task[k].evt /\ DOMAIN mid = {"at", "evt", "slot", "r2"}
      BY <1>2 DEF TaskType
    <3>. HIDE DEF mid
    <3>4. new.evt = mid.evt
      BY <3>3
    <3>. HIDE DEF new
    <3>. QED
      BY <3>2, <3>3, <3>4 DEF TypeOK
  <2>4. CASE TaskHandle(k)
    <3>. DEFINE evt == IF sn[task[k].slot] = task[k].evt.sn THEN task[k].evt ELSE NoEvent
                mid == [task[k] EXCEPT !.at = "unlock"]
                new == [mid EXCEPT !.evt = evt]
    <3>1. task' = [task EXCEPT ![k] = new]
      BY <2>4 DEF TaskHandle, TypeOK
    <3>2. evt \in {task[k].evt, NoEvent}
      OBVIOUS
    <3>. HIDE DEF evt
    <3>3. mid \in TaskType
      BY <1>2 DEF TaskType, TaskPlaces
    <3>. HIDE DEF mid
    <3>4. new.evt = evt
      BY <3>3 DEF TaskType
    <3>. HIDE DEF new
    <3>. QED
      BY <3>1, <3>2, <3>4 DEF TypeOK
  <2>. QED
    BY <2>1, <2>2, <2>3, <2>4 DEF TaskStep
<1>. QED
  BY <1>1, <1>3, QueueStays

-----------------------------------------------------------------------------
AllInv == IInv /\ RunningCounts /\ QueueInv

(* No context, no task and no event at the beginning.                      *)
LEMMA InitAll == ASSUME Init PROVE AllInv
<1>1. TypeOK
  <2>1. IdleApp \in AppType /\ NoTask \in TaskType
    BY BoundsAssumption DEF IdleApp, NoTask, AppType, TaskType, AppPlaces, TaskPlaces, Ops
  <2>2. /\ nextSn \in 1 .. MaxSn + 1 /\ sn \in [Slots -> 0 .. MaxSn]
        /\ locked \in [Slots -> Apps \cup Tasks \cup {Nobody}]
        /\ running \in 0 .. MaxSn /\ posted \in 0 .. MaxEvents
    BY BoundsAssumption DEF Init
  <2>3. /\ queue \in Seq(Event) /\ recording \subseteq 1 .. MaxSn
        /\ handles \subseteq 0 .. MaxSn
    BY DEF Init
  <2>. QED
    BY <2>1, <2>2, <2>3 DEF Init, TypeOK
<1>2. \A a \in Apps : app[a].at = "idle"
  BY DEF Init, IdleApp
<1>3. \A k \in Tasks : task[k].at = "none" /\ task[k].evt = NoEvent
  BY DEF Init, NoTask
<1>4. AppsInv
  BY <1>2 DEF AppsInv, AppInv, Opening, Entering, Leaving
<1>5. ThreadInv
  BY <1>3 DEF Init, ThreadInv, OneTask, Live
<1>6. TasksInv
  BY <1>3 DEF TasksInv, TaskInv, Looking
<1>7. RunningCounts
  <2>. DEFINE S == {s \in Slots : sn[s] # 0}
              T == {a \in Apps : app[a].at = "openThread"}
              R == {a \in Apps : app[a].at = "release"}
  <2>1. S = {} /\ T = {} /\ R = {}
    BY <1>2 DEF Init
  <2>2. RunningCounts <=> running = Cardinality(S) - Cardinality(T) + Cardinality(R)
    BY DEF RunningCounts
  <2>. HIDE DEF S, T, R
  <2>3. Cardinality(S) = 0 /\ Cardinality(T) = 0 /\ Cardinality(R) = 0
    BY <2>1, FS_EmptySet
  <2>4. running = 0
    BY DEF Init
  <2>. QED
    BY <2>2, <2>3, <2>4
<1>8. QueueInv
  BY <1>3 DEF Init, QueueInv
<1>. QED
  BY <1>1, <1>4, <1>5, <1>6, <1>7, <1>8 DEF AllInv, IInv

(* A step of an application thread.                                        *)
LEMMA AppStepAll ==
  ASSUME OneOpener, AllInv, NEW a \in Apps, Call(a) \/ InCall(a)
  PROVE  AllInv'
<1>1. IInv /\ RunningCounts /\ QueueInv /\ TypeOK
  BY DEF AllInv, IInv
<1>2. TypeOK' /\ AppsInv' /\ ThreadInv' /\ TasksInv'
  <2>1. CASE OpenFind(a)
    BY <1>1, <2>1, OpenFindKeeps
  <2>2. CASE OpFind(a)
    BY <1>1, <2>2, OpFindKeeps
  <2>3. CASE OpenLock(a)
    BY <1>1, <2>3, OpenLockKeeps
  <2>4. CASE OpenReset(a)
    BY <1>1, <2>4, OpenResetKeeps
  <2>5. CASE OpenThread(a)
    BY <1>1, <2>5, OpenThreadKeeps
  <2>6. CASE OpenDone(a) \/ OpenFail(a)
    BY <1>1, <2>6, OpenDoneKeeps
  <2>7. CASE OpenReturn(a)
    BY <1>1, <2>7, OpenReturnKeeps
  <2>8. CASE OpLock(a)
    BY <1>1, <2>8, OpLockKeeps
  <2>9. CASE OpInvalid(a) \/ OpStart(a) \/ OpStop(a) \/ OpClose(a)
    BY <1>1, <2>9, OpReturnKeeps
  <2>10. CASE Release(a)
    BY <1>1, <2>10, ThreadCounts, ReleaseKeeps
  <2>11. CASE Join(a)
    BY <1>1, <2>11, JoinKeeps
  <2>12. CASE Joined(a)
    BY <1>1, <2>12, JoinedKeeps
  <2>. QED
    BY <2>1, <2>2, <2>3, <2>4, <2>5, <2>6, <2>7, <2>8, <2>9, <2>10, <2>11, <2>12
       DEF Call, InCall
<1>3. RunningCounts'
  <2>1. CASE OpenReset(a)
    BY <1>1, <1>2, <2>1, ResetCounts
  <2>2. CASE OpenFail(a) \/ OpClose(a)
    BY <1>1, <1>2, <2>2, CloseCounts
  <2>3. CASE OpenThread(a) \/ Release(a)
    BY <1>1, <1>2, <2>3, ThreadCounts
  <2>4. CASE \/ OpenFind(a) \/ OpenLock(a) \/ OpenDone(a) \/ OpenReturn(a)
             \/ OpFind(a) \/ OpLock(a) \/ OpInvalid(a) \/ OpStart(a) \/ OpStop(a)
             \/ Join(a) \/ Joined(a)
    BY <1>1, <2>4, PlainCounts
  <2>. QED
    BY <2>1, <2>2, <2>3, <2>4 DEF Call, InCall
<1>4. QueueInv'
  <2>1. CASE OpenThread(a)
    BY <1>1, <2>1, QueueRequest
  <2>2. CASE ~ OpenThread(a)
    <3>1. UNCHANGED <<queue, posted, task>>
      BY <2>2 DEF Call, InCall, OpenFind, OpFind, OpenLock, OpenReset, OpenDone,
                  OpenFail, OpenReturn, OpLock, OpInvalid, OpStart, OpStop, OpClose,
                  Release, Join, Joined
    <3>. QED
      BY <1>1, <3>1, QueueStays
  <2>. QED
    BY <2>1, <2>2
<1>. QED
  BY <1>2, <1>3, <1>4 DEF AllInv, IInv

(* A step of a task, or of a recorder that posts an event.                 *)
LEMMA TaskStepAll ==
  ASSUME AllInv, PostEvent \/ \E k \in Tasks : TaskStep(k)
  PROVE  AllInv'
<1>1. IInv /\ RunningCounts /\ QueueInv /\ TypeOK
  BY DEF AllInv, IInv
<1>2. CASE PostEvent
  <2>1. TypeOK' /\ AppsInv' /\ ThreadInv' /\ TasksInv'
    BY <1>1, <1>2, PostEventKeeps
  <2>2. UNCHANGED <<sn, running, app>>
    BY <1>2 DEF PostEvent, table
  <2>3. RunningCounts'
    BY <1>1, <2>2, CountsStay
  <2>. QED
    BY <1>1, <1>2, <2>1, <2>3, QueuePosted DEF AllInv, IInv
<1>3. ASSUME NEW k \in Tasks, TaskStep(k) PROVE AllInv'
  <2>1. TypeOK' /\ AppsInv' /\ ThreadInv' /\ TasksInv'
    <3>1. CASE TaskLoop(k) \/ TaskGet(k) \/ TaskWait(k) \/ TaskNext(k)
      BY <1>1, <3>1, TaskPlainKeeps
    <3>2. CASE TaskLookup(k)
      BY <1>1, <3>2, TaskLookupKeeps
    <3>3. CASE TaskCheck(k) \/ LockIfAgain(k) \/ LockIfReturn(k)
      BY <1>1, <3>3, TaskReadsKeeps
    <3>4. CASE LockIfLocked(k) \/ LockIfTimeout(k)
      BY <1>1, <3>4, TimedLockKeeps
    <3>5. CASE LockIfUndo(k) \/ TaskUnlock(k)
      BY <1>1, <3>5, TaskUnlocksKeeps
    <3>6. CASE TaskHandle(k)
      BY <1>1, <3>6, TaskHandleKeeps
    <3>. QED
      BY <1>3, <3>1, <3>2, <3>3, <3>4, <3>5, <3>6 DEF TaskStep
  <2>2. UNCHANGED <<sn, running, app>>
    BY <1>3 DEF TaskStep, TaskLoop, TaskGet, TaskWait, TaskNext, TaskLookup, TaskCheck,
                LockIfAgain, LockIfReturn, LockIfLocked, LockIfTimeout, LockIfUndo,
                TaskUnlock, TaskHandle, table
  <2>3. RunningCounts'
    BY <1>1, <2>2, CountsStay
  <2>4. QueueInv'
    <3>1. CASE TaskGet(k)
      BY <1>1, <3>1, QueueTaken DEF TaskGet
    <3>2. CASE TaskNext(k)
      BY <1>1, <3>2, QueueTaken DEF TaskNext
    <3>3. CASE ~ TaskGet(k) /\ ~ TaskNext(k)
      BY <1>1, <1>3, <3>3, QueueTask
    <3>. QED
      BY <3>1, <3>2, <3>3
  <2>. QED
    BY <2>1, <2>3, <2>4 DEF AllInv, IInv
<1>. QED
  BY <1>2, <1>3

(* A step in which no variable changes.                                    *)
LEMMA StutterAll ==
  ASSUME AllInv, UNCHANGED vars
  PROVE  AllInv'
<1>1. /\ TypeOK' /\ \A a \in Apps : AppInv(a)'
      /\ \A k \in Tasks : TaskInv(k)'
  BY DEF AllInv, IInv, TypeOK, AppsInv, AppInv, TasksInv, TaskInv, vars
<1>2. ThreadInv'
  BY DEF AllInv, IInv, ThreadInv, OneTask, Live, vars
<1>3. RunningCounts'
  BY DEF AllInv, RunningCounts, vars
<1>4. QueueInv'
  BY DEF AllInv, QueueInv, vars
<1>. QED
  BY <1>1, <1>2, <1>3, <1>4 DEF AllInv, IInv, AppsInv, TasksInv

(* AllInv holds throughout.                                                *)
LEMMA AllHolds == ASSUME OneOpener PROVE Spec => []AllInv
<1>1. Init => AllInv
  BY InitAll
<1>2. AllInv /\ [Next]_vars => AllInv'
  BY AppStepAll, TaskStepAll, StutterAll DEF Next
<1>. QED
  BY <1>1, <1>2, PTL DEF Spec

(* Sessions, task and event list agree at every step (open, close and the  *)
(* event thread of dvr_wrapper.c): as many sessions as wrapper_requestThread *)
(* counted, one task that serves them, events in the order they came.      *)
THEOREM SessionsAgree == ASSUME OneOpener PROVE Spec => []SessionsInv
<1>1. AllInv => SessionsInv
  BY DEF AllInv, IInv, ThreadInv, QueueInv, InOrder, SessionsInv
<1>. QED
  BY <1>1, AllHolds, PTL

(* process_handleEvents runs only under the lock of the session its event  *)
(* came from, though the context is looked up without a lock and the task  *)
(* leaves wrapper_mutex_lock_if without one when the sessions are gone.    *)
THEOREM HandlesOwn == ASSUME OneOpener PROVE Spec => []HandlesOwnSession
<1>1. AllInv => HandlesOwnSession
  <2>1. SUFFICES ASSUME AllInv, NEW k \in Tasks, Handling(k)
                 PROVE  locked[task[k].slot] = k /\ sn[task[k].slot] = task[k].evt.sn
    BY DEF HandlesOwnSession
  <2>2. TaskInv(k)
    BY <2>1 DEF AllInv, IInv, TasksInv
  <2>. QED
    BY <2>1, <2>2 DEF TaskInv, Handling
<1>. QED
  BY <1>1, AllHolds, PTL

(* A session that is in the table, and whose open has asked for the task,  *)
(* has a task that is alive.                                               *)
SessionsServed ==
  \A s \in Slots :
    (sn[s] # 0 /\ \A a \in Apps : app[a].at = "openThread" => app[a].slot # s)
      => thread \in Tasks /\ Live(thread)

(* No close of another session stops the task under a session: the one     *)
(* that thread_ctx->thread names goes on (wrapper_releaseThread).          *)
THEOREM SessionHasTask == ASSUME OneOpener PROVE Spec => []SessionsServed
<1>1. AllInv => SessionsServed
  <2>1. SUFFICES ASSUME AllInv, NEW s \in Slots, sn[s] # 0,
                        \A a \in Apps : app[a].at = "openThread" => app[a].slot # s
                 PROVE  running > 0
    BY DEF SessionsServed, AllInv, IInv, ThreadInv
  <2>. DEFINE S == WithSession(sn)
              T == {a \in Apps : app[a].at = "openThread"}
              R == {a \in Apps : app[a].at = "release"}
  <2>2. IsFiniteSet(S) /\ s \in S
    BY <2>1, SlotsAssumption, FS_Subset DEF WithSession
  <2>3. Cardinality(S) \in Nat /\ Cardinality(S) > 0
    BY <2>2, FS_EmptySet, FS_CardinalityType
  <2>4. running = Cardinality(S) - Cardinality(T) + Cardinality(R)
    BY <2>1 DEF AllInv, RunningCounts, WithSession
  <2>5. T \cup R \subseteq Openers
    BY <2>1 DEF AllInv, IInv, AppsInv, AppInv, Opening
  <2>6. CASE T = {}
    <3>1. Cardinality(T) = 0
      BY <2>6, FS_EmptySet
    <3>2. Cardinality(R) \in {0, 1}
      <4>1. CASE R = {}
        BY <4>1, FS_EmptySet
      <4>2. CASE R # {}
        <5>1. PICK a \in Openers : a \in R
          BY <2>5, <4>2
        <5>2. R = {a}
          BY <2>5, <5>1 DEF OneOpener
        <5>. QED
          BY <5>2, FS_Singleton
      <4>. QED
        BY <4>1, <4>2
    <3>. HIDE DEF S, T, R
    <3>. QED
      BY <2>3, <2>4, <3>1, <3>2
  <2>7. CASE T # {}
    <3>1. PICK a \in Openers : a \in T
      BY <2>5, <2>7
    <3>2. T = {a} /\ R = {}
      BY <2>5, <3>1 DEF OneOpener
    <3>3. Cardinality({a}) = 1 /\ Cardinality({}) = 0
      BY FS_Singleton, FS_EmptySet
    <3>4. Cardinality(T) = 1 /\ Cardinality(R) = 0
      BY <3>2, <3>3
    <3>5. app[a].slot \in S /\ app[a].slot # s
      BY <2>1, <3>1 DEF AllInv, IInv, AppsInv, AppInv, Opening, WithSession
    <3>6. Cardinality(S \ {s}) = Cardinality(S) - 1
      BY <2>2, FS_RemoveElement
    <3>7. Cardinality(S \ {s}) \in Nat /\ Cardinality(S \ {s}) > 0
      <4>1. IsFiniteSet(S \ {s}) /\ S \ {s} # {}
        BY <2>2, <3>5, FS_Subset
      <4>. QED
        BY <4>1, FS_EmptySet, FS_CardinalityType
    <3>. HIDE DEF S, T, R
    <3>. QED
      BY <2>3, <2>4, <3>4, <3>6, <3>7
  <2>. QED
    BY <2>6, <2>7
<1>. QED
  BY <1>1, AllHolds, PTL
=============================================================================
