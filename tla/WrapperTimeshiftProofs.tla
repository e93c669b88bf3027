------------------------ MODULE WrapperTimeshiftProofs ------------------------
(***************************************************************************)
(* Proofs about WrapperTimeshift for any sizes, limits, number of segments *)
(* and length of the event lists.  The argument: an event of the segment   *)
(* being written never tells more than the recorder has written, so that a *)
(* segment is ended only with its size; the segments on disk are an        *)
(* unbroken run of ids that ends with the newest one, which is never the   *)
(* one to go; and the list of the playback is, but for the places where    *)
(* the record task is about to change it, the list of the recording.  The  *)
(* sums of sizes (task.total, obsolete) need the sizes told of a segment,  *)
(* which never pass its final one, and laws of sums, at the end.           *)
(***************************************************************************)
EXTENDS WrapperTimeshift, FiniteSetTheorems, WellFoundedInduction, TLAPS

(* A status event of the recorder, with any size.                          *)
Event == [id : Ids, size : Nat]

(* The record task is a record of its five fields.                         *)
TaskIs == task = [pc |-> task.pc, evt |-> task.evt, total |-> task.total,
                  actual |-> task.actual, then |-> task.then]

Types ==
  /\ cur \in Ids
  /\ rsize \in Nat
  /\ final \in [Ids -> Nat \cup {None}]
  /\ events \in Seq(Event)
  /\ TaskIs
  /\ task.evt \in Event \cup {NoEvent}
  /\ task.then \in {"idle", "next", "size", "discard"}
  /\ DOMAIN psegs \subseteq Ids
  /\ files \subseteq Ids
  /\ at \in Ids \cup {None}
  /\ playlist \subseteq Ids

(***************************************************************************)
(* The events of the recorder.                                             *)
(***************************************************************************)
(* No event is of a segment to come, or tells of more than was written.    *)
EventsTrue ==
  \A i \in DOMAIN events : /\ events[i].id <= cur
                           /\ events[i].id = cur => events[i].size <= rsize

(* The event that may end the segment is an event of this segment.         *)
Ending == task.pc = "next" \/ (task.pc = "update" /\ task.then = "next")
EventOfCur == Ending => /\ task.evt \in Event
                        /\ task.evt.id = cur /\ task.evt.size <= rsize

(* A segment is removed on behalf of a limit.                              *)
ForALimit == task.pc \in {"remove", "drop"} => task.then \in {"size", "discard"}

(* The bound on the ids: the last segment of the model does not end.       *)
LastIsShort == cur = MaxSegment - 1 => rsize < SegmentSize

(* The segments before the current one have ended, with their size.        *)
EndedFull ==
  \A s \in Ids : /\ s < cur <=> final[s] # None
                 /\ final[s] # None => final[s] >= SegmentSize

EventInv == EventsTrue /\ EventOfCur /\ ForALimit /\ LastIsShort /\ EndedFull

(***************************************************************************)
(* The segments on disk and in the list of the recording.                  *)
(***************************************************************************)
(* The newest segment in the list.                                         *)
Newest == IF task.pc = "updateNext" THEN cur - 1 ELSE cur

(* The list is an unbroken run of ids.                                     *)
Unbroken == /\ DOMAIN rsegs = Oldest .. Newest
            /\ Oldest \in 0 .. Newest

(* The segment that goes is not the one that is written.                   *)
NewestStays == task.pc \in {"remove", "drop"} => Oldest < cur

(* ListIsOnDisk, also while a segment is being started.                    *)
DiskIsList ==
  /\ files \ dying = Oldest .. cur
  /\ dying \subseteq files /\ files \subseteq 0 .. cur

ListInv == Unbroken /\ NewestStays /\ DiskIsList

(***************************************************************************)
(* The list of the playback.                                               *)
(***************************************************************************)
(* A playback that was loaded cleanly follows the list of the recording.   *)
Follows ==
  DOMAIN psegs # {} /\ clean =>
    DOMAIN psegs = CASE task.pc = "addNext" -> DOMAIN rsegs \ {cur}
                     [] task.pc = "drop"    -> DOMAIN rsegs \ {Oldest}
                     [] OTHER               -> DOMAIN rsegs

(* A removal leaves a playback that runs a segment: the newest one, or one *)
(* that the recording has removed already.                                 *)
OneToPlay ==
  task.pc \notin {"updateNext", "addNext"} /\ DOMAIN psegs # {} =>
    cur \in DOMAIN psegs \/ ~ (DOMAIN psegs \subseteq DOMAIN rsegs)

(* The player is in a segment that it has.                                 *)
AtListed == at # None => DOMAIN psegs # {} /\ at \in playlist

PlayInv == Follows /\ OneToPlay /\ AtListed /\ PlayerHasList

IInv == Types /\ EventInv /\ ListInv /\ PlayInv

-----------------------------------------------------------------------------
(* Less-than on the naturals as a well-founded relation.                   *)
LEMMA LessRelation ==
  \E R : IsWellFoundedOn(R, Nat) /\ \A j, k \in Nat : <<j, k>> \in R <=> j < k
<1>1. \A j, k \in Nat : <<j, k>> \in OpToRel(<, Nat) <=> j < k
  BY Zenon DEF OpToRel
<1>. QED
  BY <1>1, NatLessThanWellFounded, Zenon

(* Min finds the least of some numbers.                                    *)
LEMMA MinOf ==
  ASSUME NEW S, S \subseteq Nat, S # {}
  PROVE  Min(S) \in S /\ \A j \in S : Min(S) <= j
<1>1. PICK R : IsWellFoundedOn(R, Nat) /\ \A j, k \in Nat : <<j, k>> \in R <=> j < k
  BY LessRelation
<1>2. PICK k \in S : \A j \in S : ~ (<<j, k>> \in R)
  <2>1. IsWellFoundedOn(R, Nat)
    BY <1>1
  <2>. QED
    BY <2>1, WFMin
<1>3. ASSUME NEW j \in S PROVE k <= j
  <2>1. k \in Nat /\ j \in Nat
    OBVIOUS
  <2>2. ~ (j < k)
    BY <1>1, <1>2, <2>1, Zenon
  <2>. QED
    BY <2>1, <2>2
<1>. QED
  BY <1>3 DEF Min

(* Max finds the greatest of some ids.                                     *)
LEMMA MaxOf ==
  ASSUME NEW S, S \subseteq Ids, S # {}
  PROVE  Max(S) \in S /\ \A j \in S : j <= Max(S)
<1>1. S \subseteq 0 .. MaxSegment - 1 /\ MaxSegment \in Nat
  BY SizeAssumption DEF Ids
<1>. DEFINE T == {MaxSegment - j : j \in S}
<1>2. T \subseteq Nat /\ T # {}
  <2>1. ASSUME NEW j \in S PROVE MaxSegment - j \in Nat
    BY <1>1
  <2>2. PICK j \in S : TRUE
    OBVIOUS
  <2>. QED
    BY <2>1, <2>2
<1>3. PICK k \in S : \A j \in S : MaxSegment - k <= MaxSegment - j
  <2>1. Min(T) \in T /\ \A x \in T : Min(T) <= x
    BY <1>2, MinOf
  <2>2. PICK k \in S : Min(T) = MaxSegment - k
    BY <2>1
  <2>. QED
    BY <2>1, <2>2
<1>4. \A j \in S : k >= j
  BY <1>1, <1>3
<1>5. Max(S) \in S /\ \A j \in S : Max(S) >= j
  BY <1>4 DEF Max
<1>. QED
  BY <1>1, <1>5

(* The least of a run of ids is its first.                                 *)
LEMMA MinOfRun ==
  ASSUME NEW lo \in Nat, NEW hi \in Nat, lo <= hi
  PROVE  Min(lo .. hi) = lo
<1>1. lo \in lo .. hi /\ lo .. hi \subseteq Nat
  OBVIOUS
<1>2. Min(lo .. hi) \in lo .. hi /\ Min(lo .. hi) <= lo
  BY <1>1, MinOf
<1>. QED
  BY <1>2

(* The ids of the model.                                                   *)
LEMMA IdsAre == \A s \in Ids : s \in Nat /\ s < MaxSegment
BY SizeAssumption DEF Ids

-----------------------------------------------------------------------------
(* The steps of the record task, field by field.                           *)
LEMMA TaskGoes ==
  ASSUME TaskIs, NEW p, Goto(p)
  PROVE  /\ TaskIs' /\ task'.pc = p
         /\ task'.evt = task.evt /\ task'.then = task.then
BY DEF TaskIs, Goto

(* The status is generated and the event kept for the steps to come.       *)
LEMMA TaskGenerates ==
  ASSUME TaskIs, NEW segs, NEW e, NEW then, Generate(segs, e, then)
  PROVE  /\ TaskIs' /\ task'.pc = "update" /\ task'.evt = e /\ task'.then = then
         /\ DOMAIN rsegs' = DOMAIN segs
<1>. DEFINE n == e.size + SumFunctionOnSet(segs, DOMAIN segs \ {e.id})
<1>1. /\ rsegs' = Update(segs, e.id, e.size)
      /\ task' = [task EXCEPT !.pc = "update", !.evt = e, !.then = then, !.total = n]
  BY DEF Generate
<1>. HIDE DEF n
<1>2. TaskIs' /\ task'.pc = "update" /\ task'.evt = e /\ task'.then = then
  BY <1>1 DEF TaskIs
<1>3. DOMAIN rsegs' = DOMAIN segs
  BY <1>1 DEF Update
<1>. QED
  BY <1>2, <1>3

(* The limits choose where the task goes.                                  *)
LEMMA TimeGoes ==
  ASSUME TaskIs, TimeLimit
  PROVE  /\ TaskIs' /\ task'.evt = task.evt
         /\ \/ task'.pc = "remove" /\ task'.then = "size" /\ Several
            \/ task'.pc = "size" /\ task'.then = task.then
BY DEF TaskIs, TimeLimit

(* Likewise for the size.                                                  *)
LEMMA SizeGoes ==
  ASSUME TaskIs, SizeLimit
  PROVE  /\ TaskIs'
         /\ \/ task'.pc = "remove" /\ task'.then = "discard" /\ Several
               /\ task'.evt = task.evt
            \/ task'.pc = "discard" /\ task'.then = "discard" /\ task'.evt = task.evt
            \/ task'.pc = "idle" /\ task'.then = "idle" /\ task'.evt = NoEvent
<1>1. CASE task.total >= MaxSize
  <2>. DEFINE p == IF Several THEN "remove" ELSE "discard"
  <2>1. task' = [task EXCEPT !.pc = p, !.then = "discard", !.actual = task.total]
    BY <1>1 DEF SizeLimit
  <2>2. p = "discard" \/ (p = "remove" /\ Several)
    OBVIOUS
  <2>. HIDE DEF p
  <2>3. TaskIs' /\ task'.pc = p /\ task'.then = "discard" /\ task'.evt = task.evt
    BY <2>1 DEF TaskIs
  <2>. QED
    BY <2>2, <2>3
<1>2. CASE ~ (task.total >= MaxSize)
  BY <1>2 DEF SizeLimit, Idle, TaskIs
<1>. QED
  BY <1>1, <1>2

(* What a step does not touch stays true of the events ...                 *)
LEMMA EventFrame ==
  ASSUME Types, EventInv, UNCHANGED <<cur, rsize, final, events>>,
         Ending' => Ending /\ task'.evt = task.evt, ForALimit'
  PROVE  EventInv'
BY DEF EventInv, EventsTrue, EventOfCur, LastIsShort, EndedFull

(* ... of the list of the recording ...                                    *)
LEMMA ListFrame ==
  ASSUME ListInv, UNCHANGED <<cur, files, dying>>, DOMAIN rsegs' = DOMAIN rsegs,
         task'.pc = "updateNext" <=> task.pc = "updateNext",
         task'.pc \in {"remove", "drop"} => task.pc \in {"remove", "drop"}
  PROVE  ListInv'
BY DEF ListInv, Unbroken, NewestStays, DiskIsList, Newest, Oldest

(* ... and of that of the playback.                                        *)
LEMMA PlayFrame ==
  ASSUME PlayInv, UNCHANGED <<cur, clean, at, playlist>>,
         DOMAIN psegs' = DOMAIN psegs, DOMAIN rsegs' = DOMAIN rsegs,
         task'.pc = "updateNext" <=> task.pc = "updateNext",
         task'.pc = "addNext" <=> task.pc = "addNext",
         task'.pc = "drop" <=> task.pc = "drop"
  PROVE  PlayInv'
BY DEF PlayInv, Follows, OneToPlay, AtListed, PlayerHasList, Oldest

-----------------------------------------------------------------------------
(* The events are events.                                                  *)
LEMMA EventsAre ==
  ASSUME Types
  PROVE  \A i \in DOMAIN events : events[i].id \in Nat /\ events[i].size \in Nat
<1>1. \A i \in DOMAIN events : events[i] \in Event
  BY DEF Types
<1>. QED
  BY <1>1, IdsAre DEF Event

(* The first event, and those that are left.                               *)
LEMMA HeadOfEvents ==
  ASSUME Types, EventsTrue, events # <<>>
  PROVE  /\ Head(events) \in Event
         /\ Head(events).id = cur => Head(events).size <= rsize
         /\ Tail(events) \in Seq(Event)
         /\ \A i \in DOMAIN Tail(events) :
              /\ Tail(events)[i].id <= cur
              /\ Tail(events)[i].id = cur => Tail(events)[i].size <= rsize
<1>1. /\ events \in Seq(Event) /\ Len(events) \in Nat /\ Len(events) > 0
      /\ DOMAIN events = 1 .. Len(events)
  BY DEF Types
<1>2. Head(events) = events[1] /\ 1 \in DOMAIN events /\ events[1] \in Event
  BY <1>1
<1>3. Tail(events) \in Seq(Event)
  BY <1>1
<1>4. ASSUME NEW i \in DOMAIN Tail(events)
      PROVE  i + 1 \in DOMAIN events /\ Tail(events)[i] = events[i + 1]
  BY <1>1
<1>. QED
  BY <1>2, <1>3, <1>4 DEF EventsTrue

(* The step that ends a segment: it has its size.                          *)
LEMMA EndsFull ==
  ASSUME Types, EventInv, StartNext
  PROVE  /\ rsize \in Nat /\ rsize >= SegmentSize
         /\ cur \in Nat /\ cur + 1 \in Ids
<1>1. /\ task.evt \in Event /\ task.evt.size <= rsize /\ task.evt.size >= SegmentSize
  BY DEF StartNext, EventInv, EventOfCur, Ending
<1>2. task.evt.size \in Nat /\ rsize \in Nat /\ SegmentSize \in Nat \ {0}
  BY <1>1, SizeAssumption DEF Event, Types
<1>3. rsize >= SegmentSize
  BY <1>1, <1>2
<1>4. cur \in 0 .. MaxSegment - 1 /\ cur # MaxSegment - 1 /\ MaxSegment \in Nat \ {0}
  BY <1>2, <1>3, SizeAssumption DEF EventInv, LastIsShort, Types, Ids
<1>. QED
  BY <1>2, <1>3, <1>4 DEF Ids

(* Every step of the recording keeps the types and what is known of the    *)
(* events.                                                                 *)
LEMMA RecordEvents ==
  ASSUME Types, EventInv, RecWrite \/ Post \/ RecordTask \/ Unlink
  PROVE  Types' /\ EventInv'
<1>. USE DEF recorder, disk, playback, player
<1>1. CASE RecWrite
  <2>1. /\ rsize' = rsize + 1
        /\ UNCHANGED <<cur, task, events, final, psegs, files, at, playlist>>
    BY <1>1 DEF RecWrite
  <2>2. Types'
    BY <2>1 DEF Types, TaskIs
  <2>3. EventsTrue' /\ EventOfCur' /\ ForALimit'
    <3>1. \A i \in DOMAIN events : events[i].size \in Nat
      BY EventsAre
    <3>2. rsize \in Nat /\ (task.evt \in Event => task.evt.size \in Nat)
      BY DEF Types, Event
    <3>3. EventsTrue'
      BY <2>1, <3>1, <3>2 DEF EventInv, EventsTrue
    <3>. QED
      BY <2>1, <3>2, <3>3 DEF EventInv, EventOfCur, ForALimit, Ending
  <2>4. LastIsShort'
    <3>1. cur = MaxSegment - 1 => rsize < SegmentSize - 1
      BY <1>1 DEF RecWrite
    <3>. QED
      BY <2>1, <3>1, SizeAssumption DEF LastIsShort, Types
  <2>5. EndedFull'
    BY <2>1 DEF EventInv, EndedFull
  <2>. QED
    BY <2>2, <2>3, <2>4, <2>5 DEF EventInv
<1>2. CASE Post
  <2>1. /\ events' = Append(events, [id |-> cur, size |-> rsize])
        /\ UNCHANGED <<cur, rsize, task, final, psegs, files, at, playlist>>
    BY <1>2 DEF Post
  <2>2. [id |-> cur, size |-> rsize] \in Event
    BY DEF Types, Event
  <2>3. Types'
    BY <2>1, <2>2 DEF Types, TaskIs
  <2>4. EventsTrue'
    <3>1. /\ Len(events) \in Nat /\ DOMAIN events = 1 .. Len(events)
          /\ DOMAIN events' = 1 .. Len(events) + 1
          /\ \A i \in 1 .. Len(events) : events'[i] = events[i]
          /\ events'[Len(events) + 1] = [id |-> cur, size |-> rsize]
      BY <2>1 DEF Types
    <3>2. cur <= cur /\ rsize <= rsize
      BY IdsAre DEF Types
    <3>. QED
      BY <2>1, <3>1, <3>2 DEF EventInv, EventsTrue
  <2>5. EventOfCur' /\ ForALimit' /\ LastIsShort' /\ EndedFull'
    BY <2>1 DEF EventInv, EventOfCur, ForALimit, Ending, LastIsShort, EndedFull
  <2>. QED
    BY <2>3, <2>4, <2>5 DEF EventInv
<1>3. CASE Take
  <2>1. /\ events # <<>> /\ events' = Tail(events)
        /\ UNCHANGED <<cur, rsize, final, psegs, files, at, playlist>>
    BY <1>3 DEF Take
  <2>2. EventsTrue
    BY DEF EventInv
  <2>3. EventsTrue' /\ LastIsShort' /\ EndedFull'
    BY <2>1, <2>2, HeadOfEvents DEF EventInv, EventsTrue, LastIsShort, EndedFull
  <2>4. CASE Head(events).id = cur
    <3>1. Generate(rsegs, Head(events), "next")
      BY <1>3, <2>4 DEF Take
    <3>2. /\ TaskIs' /\ task'.evt = Head(events) /\ task'.then = "next"
          /\ task'.pc = "update"
      BY <3>1, TaskGenerates DEF Types
    <3>3. Types' /\ EventOfCur' /\ ForALimit'
      BY <2>1, <2>2, <2>4, <3>2, HeadOfEvents DEF Types, EventOfCur, ForALimit
    <3>. QED
      BY <2>3, <3>3 DEF EventInv
  <2>5. CASE Head(events).id # cur
    <3>1. task' = task
      BY <1>3, <2>5 DEF Take
    <3>2. Types' /\ EventOfCur' /\ ForALimit'
      BY <2>1, <2>2, <3>1, HeadOfEvents
      DEF Types, TaskIs, EventInv, EventOfCur, ForALimit, Ending
    <3>. QED
      BY <2>3, <3>2 DEF EventInv
  <2>. QED
    BY <2>4, <2>5
<1>4. CASE UpdatePlayback
  <2>1. /\ DOMAIN psegs' = DOMAIN psegs /\ task.pc = "update" /\ Goto(task.then)
        /\ UNCHANGED <<cur, rsize, events, final, files, at, playlist>>
    BY <1>4 DEF UpdatePlayback, Update
  <2>2. /\ TaskIs' /\ task'.pc = task.then /\ task'.evt = task.evt
        /\ task'.then = task.then
    BY <2>1, TaskGoes DEF Types
  <2>3. Types'
    BY <2>1, <2>2 DEF Types
  <2>4. EventInv'
    BY <2>1, <2>2, EventFrame DEF Types, EventInv, Ending, ForALimit
  <2>. QED
    BY <2>3, <2>4
<1>5. CASE StartNext
  <2>1. /\ Goto("updateNext") /\ final' = [final EXCEPT ![cur] = rsize]
        /\ files' = files \cup {cur + 1} /\ cur' = cur + 1 /\ rsize' = 0
        /\ UNCHANGED <<events, psegs, at, playlist>>
    BY <1>5 DEF StartNext
  <2>2. /\ TaskIs' /\ task'.pc = "updateNext" /\ task'.evt = task.evt
        /\ task'.then = task.then
    BY <2>1, TaskGoes DEF Types
  <2>3. /\ rsize \in Nat /\ rsize >= SegmentSize /\ cur \in Nat /\ cur + 1 \in Ids
    BY <1>5, EndsFull
  <2>4. Types'
    BY <2>1, <2>2, <2>3 DEF Types
  <2>5. EventsTrue'
    <3>1. \A i \in DOMAIN events : events[i].id \in Nat /\ events[i].id <= cur
      BY EventsAre DEF EventInv, EventsTrue
    <3>. QED
      BY <2>1, <2>3, <3>1 DEF EventsTrue
  <2>6. EventOfCur' /\ ForALimit' /\ LastIsShort'
    BY <2>1, <2>2, SizeAssumption DEF EventOfCur, ForALimit, Ending, LastIsShort
  <2>7. EndedFull'
    <3>1. ASSUME NEW s \in Ids, s = cur
          PROVE  s < cur' /\ final'[s] = rsize /\ rsize # None
      <4>1. final'[s] = rsize
        BY <2>1, <3>1 DEF Types
      <4>. QED
        BY <2>1, <2>3, <3>1, <4>1 DEF None
    <3>2. ASSUME NEW s \in Ids, s # cur
          PROVE  (s < cur' <=> s < cur) /\ final'[s] = final[s]
      BY <2>1, <2>3, <3>2, IdsAre DEF Types
    <3>. QED
      BY <2>3, <3>1, <3>2 DEF EventInv, EndedFull
  <2>. QED
    BY <2>4, <2>5, <2>6, <2>7 DEF EventInv
<1>6. CASE UpdateNext
  <2>1. /\ DOMAIN psegs' = DOMAIN psegs /\ Goto("addNext")
        /\ UNCHANGED <<cur, rsize, events, final, files, at, playlist>>
    BY <1>6 DEF UpdateNext, Update
  <2>2. /\ TaskIs' /\ task'.pc = "addNext" /\ task'.evt = task.evt
        /\ task'.then = task.then
    BY <2>1, TaskGoes DEF Types
  <2>3. Types'
    BY <2>1, <2>2 DEF Types
  <2>. QED
    BY <2>1, <2>2, <2>3, EventFrame DEF Ending, ForALimit
<1>7. CASE AddNext
  <2>1. /\ Goto("time") /\ DOMAIN psegs' \subseteq DOMAIN psegs \cup {cur}
        /\ playlist' \subseteq playlist \cup {cur}
        /\ UNCHANGED <<cur, rsize, events, final, files, at>>
    BY <1>7 DEF AddNext, Add
  <2>2. /\ TaskIs' /\ task'.pc = "time" /\ task'.evt = task.evt
        /\ task'.then = task.then
    BY <2>1, TaskGoes DEF Types
  <2>3. Types'
    BY <2>1, <2>2 DEF Types
  <2>. QED
    BY <2>1, <2>2, <2>3, EventFrame DEF Ending, ForALimit
<1>8. CASE TimeLimit
  <2>1. UNCHANGED <<cur, rsize, events, final, psegs, files, at, playlist>>
    BY <1>8 DEF TimeLimit
  <2>2. /\ TaskIs' /\ task'.evt = task.evt /\ task'.pc \in {"remove", "size"}
        /\ task'.then \in {"size", task.then}
        /\ task'.pc = "remove" => task'.then = "size"
    BY <1>8, TimeGoes DEF Types
  <2>3. Types'
    BY <2>1, <2>2 DEF Types
  <2>. QED
    BY <2>1, <2>2, <2>3, EventFrame DEF Ending, ForALimit
<1>9. CASE SizeLimit
  <2>1. UNCHANGED <<cur, rsize, events, final, psegs, files, at, playlist>>
    BY <1>9 DEF SizeLimit
  <2>2. /\ TaskIs' /\ task'.evt \in {task.evt, NoEvent}
        /\ task'.pc \in {"remove", "discard", "idle"}
        /\ task'.then \in {"discard", "idle"}
        /\ task'.pc = "remove" => task'.then = "discard"
    BY <1>9, SizeGoes DEF Types
  <2>3. Types'
    BY <2>1, <2>2 DEF Types
  <2>. QED
    BY <2>1, <2>2, <2>3, EventFrame DEF Ending, ForALimit
<1>10. CASE Overflow
  <2>1. /\ task' = Idle
        /\ UNCHANGED <<cur, rsize, events, final, psegs, files, at, playlist>>
    BY <1>10 DEF Overflow
  <2>2. TaskIs' /\ task'.evt = NoEvent /\ task'.pc = "idle" /\ task'.then = "idle"
    BY <2>1 DEF Idle, TaskIs
  <2>3. Types'
    BY <2>1, <2>2 DEF Types
  <2>. QED
    BY <2>1, <2>2, <2>3, EventFrame DEF Ending, ForALimit
<1>11. CASE Refuse
  <2>1. /\ Generate(rsegs, task.evt, task.then)
        /\ UNCHANGED <<cur, rsize, events, final, psegs, files, at, playlist>>
    BY <1>11 DEF Refuse
  <2>2. /\ TaskIs' /\ task'.pc = "update" /\ task'.evt = task.evt
        /\ task'.then = task.then
    BY <2>1, TaskGenerates DEF Types
  <2>3. task.then \in {"size", "discard"}
    BY <1>11 DEF Refuse, EventInv, ForALimit
  <2>. QED
    BY <2>1, <2>2, <2>3, EventFrame DEF Types, Ending, ForALimit
<1>12. CASE RemovePlayback
  <2>1. /\ Goto("drop") /\ DOMAIN psegs' \subseteq DOMAIN psegs
        /\ at' \in {at} \cup playlist /\ playlist' \subseteq playlist
        /\ UNCHANGED <<cur, rsize, events, final, files>>
    BY <1>12 DEF RemovePlayback, Driven, Found, Remove, Restrict
  <2>2. /\ TaskIs' /\ task'.pc = "drop" /\ task'.evt = task.evt
        /\ task'.then = task.then
    BY <2>1, TaskGoes DEF Types
  <2>3. Types'
    BY <2>1, <2>2 DEF Types
  <2>4. task.then \in {"size", "discard"}
    BY <1>12 DEF RemovePlayback, EventInv, ForALimit
  <2>. QED
    BY <2>1, <2>2, <2>3, <2>4, EventFrame DEF Ending, ForALimit
<1>13. CASE Drop
  <2>1. /\ Generate(Remove(rsegs, Oldest), task.evt, task.then)
        /\ UNCHANGED <<cur, rsize, events, final, psegs, files, at, playlist>>
    BY <1>13 DEF Drop
  <2>2. /\ TaskIs' /\ task'.pc = "update" /\ task'.evt = task.evt
        /\ task'.then = task.then
    BY <2>1, TaskGenerates DEF Types
  <2>3. task.then \in {"size", "discard"}
    BY <1>13 DEF Drop, EventInv, ForALimit
  <2>. QED
    BY <2>1, <2>2, <2>3, EventFrame DEF Types, Ending, ForALimit
<1>14. CASE Unlink
  <2>1. /\ files' \subseteq files
        /\ UNCHANGED <<cur, rsize, events, task, final, psegs, at, playlist>>
    BY <1>14 DEF Unlink
  <2>2. Types'
    BY <2>1 DEF Types, TaskIs
  <2>. QED
    BY <2>1, <2>2, EventFrame DEF EventInv, Ending, ForALimit
<1>. QED
  BY <1>1, <1>2, <1>3, <1>4, <1>5, <1>6, <1>7, <1>8, <1>9, <1>10, <1>11, <1>12,
     <1>13, <1>14 DEF RecordTask

(* The player moves to a segment of its list.                              *)
LEMMA MoveStays ==
  ASSUME playlist \subseteq Ids, PlayerMoves
  PROVE  at' \in playlist
<1>. DEFINE newer == {s \in playlist : s > at}
            older == {s \in playlist : s < at}
<1>1. \/ Move(newer, Min(newer \cap files), Max(newer))
      \/ Move(older, Max(older \cap files), Min(older))
  BY DEF PlayerMoves
<1>2. newer \subseteq playlist /\ older \subseteq playlist
  OBVIOUS
<1>. HIDE DEF newer, older
<1>3. ASSUME NEW S, S \subseteq playlist, S # {}
      PROVE  Min(S) \in playlist /\ Max(S) \in playlist
  <2>1. S \subseteq Ids /\ S \subseteq Nat
    BY <1>3, IdsAre
  <2>. QED
    BY <1>3, <2>1, MinOf, MaxOf
<1>4. CASE Move(newer, Min(newer \cap files), Max(newer))
  BY <1>2, <1>3, <1>4 DEF Move
<1>5. CASE Move(older, Max(older \cap files), Min(older))
  BY <1>2, <1>3, <1>5 DEF Move
<1>. QED
  BY <1>1, <1>4, <1>5

(* So do the calls of the playback and the steps of the player.            *)
LEMMA PlaybackEvents ==
  ASSUME Types, EventInv, Playback
  PROVE  /\ Types' /\ EventInv'
         /\ UNCHANGED <<rsegs, cur, task, files, dying>>
<1>. USE DEF recorder, disk, playback, player
<1>1. UNCHANGED <<rsegs, cur, rsize, final, events, task, files, dying>>
  BY DEF Playback, StartPlayback, StopPlayback, Seek, SetSpeed, PlayerMoves,
         PlayerPosts, TakePlayback
<1>2. /\ DOMAIN psegs' \subseteq Ids
      /\ playlist' \subseteq Ids
      /\ at' \in Ids \cup {None}
  <2>1. CASE StartPlayback
    <3>1. Loaded \subseteq Ids /\ Loaded # {}
      BY <2>1 DEF StartPlayback, Loaded, Types
    <3>2. DOMAIN psegs' = Loaded /\ at' = Min(Loaded) /\ playlist' = playlist \cup Loaded
      BY <2>1 DEF StartPlayback
    <3>3. Min(Loaded) \in Loaded
      BY <3>1, IdsAre, MinOf
    <3>. QED
      BY <3>1, <3>2, <3>3 DEF Types
  <2>2. CASE StopPlayback
    BY <2>2 DEF StopPlayback, Types
  <2>3. CASE Seek
    BY <2>3 DEF Seek, Found, Types
  <2>4. CASE PlayerMoves
    <3>1. at' \in playlist
      BY <2>4, MoveStays DEF Types
    <3>. QED
      BY <2>4, <3>1 DEF PlayerMoves, Types
  <2>5. CASE SetSpeed \/ PlayerPosts \/ TakePlayback
    BY <2>5 DEF SetSpeed, PlayerPosts, TakePlayback, Types
  <2>. QED
    BY <2>1, <2>2, <2>3, <2>4, <2>5 DEF Playback
<1>3. Types'
  BY <1>1, <1>2 DEF Types, TaskIs
<1>4. EventInv'
  BY <1>1, EventFrame DEF EventInv, ForALimit, Ending
<1>. QED
  BY <1>1, <1>3, <1>4

-----------------------------------------------------------------------------
(* The list of the recording and the disk keep in step.                    *)
LEMMA ListNext ==
  ASSUME Types, EventInv, ListInv, Next
  PROVE  ListInv'
<1>. USE DEF recorder, disk, playback, player
<1>0. cur \in Nat /\ Types' /\ None \notin Ids
  BY IdsAre, RecordEvents, PlaybackEvents DEF Next, Types, None
<1>1. CASE RecWrite \/ Post \/ Take \/ UpdatePlayback \/ AddNext \/ Overflow
           \/ Refuse \/ RemovePlayback \/ Playback
  <2>1. UNCHANGED <<cur, files, dying>>
    BY <1>1, PlaybackEvents
    DEF RecWrite, Post, Take, UpdatePlayback, AddNext, Overflow, Refuse, RemovePlayback
  <2>2. /\ DOMAIN rsegs' = DOMAIN rsegs
        /\ task'.pc = "updateNext" <=> task.pc = "updateNext"
        /\ task'.pc \in {"remove", "drop"} => task.pc \in {"remove", "drop"}
    <3>1. CASE RecWrite \/ Post \/ Playback
      BY <3>1, PlaybackEvents DEF RecWrite, Post
    <3>2. CASE Take
      BY <3>2, TaskGenerates DEF Take, Types
    <3>3. CASE UpdatePlayback
      BY <3>3, TaskGoes DEF UpdatePlayback, Types
    <3>4. CASE AddNext
      BY <3>4, TaskGoes DEF AddNext, Types
    <3>5. CASE Overflow
      BY <3>5 DEF Overflow, Idle
    <3>6. CASE Refuse
      BY <3>6, TaskGenerates DEF Refuse, Types
    <3>7. CASE RemovePlayback
      BY <3>7, TaskGoes DEF RemovePlayback, Types
    <3>. QED
      BY <1>1, <3>1, <3>2, <3>3, <3>4, <3>5, <3>6, <3>7
  <2>. QED
    BY <2>1, <2>2, ListFrame
<1>2. CASE StartNext
  <2>1. /\ task.pc = "next" /\ Goto("updateNext")
        /\ files' = files \cup {cur + 1} /\ cur' = cur + 1 /\ dying' = dying
        /\ DOMAIN rsegs' = DOMAIN rsegs
    BY <1>2 DEF StartNext, Update
  <2>2. task'.pc = "updateNext"
    BY <2>1, TaskGoes DEF Types
  <2>3. Unbroken' /\ NewestStays'
    BY <1>0, <2>1, <2>2 DEF ListInv, Unbroken, NewestStays, Newest, Oldest
  <2>4. DiskIsList'
    <3>1. /\ files \ dying = Oldest .. cur /\ dying \subseteq files
          /\ files \subseteq 0 .. cur /\ Oldest \in 0 .. cur
      BY <2>1 DEF ListInv, DiskIsList, Unbroken, Newest
    <3>2. files' \ dying' = (files \ dying) \cup {cur + 1}
      BY <1>0, <2>1, <3>1
    <3>3. Oldest' = Oldest
      BY <2>1 DEF Oldest
    <3>. QED
      BY <1>0, <2>1, <3>1, <3>2, <3>3 DEF DiskIsList
  <2>. QED
    BY <2>3, <2>4 DEF ListInv
<1>3. CASE UpdateNext
  <2>1. /\ task.pc = "updateNext" /\ Goto("addNext")
        /\ DOMAIN rsegs' = DOMAIN rsegs \cup {cur} /\ UNCHANGED <<cur, files, dying>>
    BY <1>3 DEF UpdateNext, Add
  <2>2. task'.pc = "addNext"
    BY <2>1, TaskGoes DEF Types
  <2>3. Oldest \in 0 .. cur - 1 /\ DOMAIN rsegs = Oldest .. cur - 1
    BY <2>1 DEF ListInv, Unbroken, Newest
  <2>. DEFINE lo == Oldest
  <2>. HIDE DEF lo
  <2>4. lo \in Nat /\ lo <= cur /\ DOMAIN rsegs' = lo .. cur
    BY <1>0, <2>1, <2>3 DEF lo
  <2>5. Oldest' = lo
    BY <1>0, <2>4, MinOfRun DEF Oldest
  <2>6. Unbroken' /\ NewestStays'
    BY <1>0, <2>1, <2>2, <2>4, <2>5 DEF Unbroken, NewestStays, Newest
  <2>7. DiskIsList'
    BY <2>1, <2>5 DEF ListInv, DiskIsList, lo
  <2>. QED
    BY <2>6, <2>7 DEF ListInv
<1>4. CASE TimeLimit \/ SizeLimit
  <2>1. UNCHANGED <<rsegs, cur, files, dying>> /\ task.pc # "updateNext"
    BY <1>4 DEF TimeLimit, SizeLimit
  <2>2. \/ task'.pc = "remove" /\ Several
        \/ task'.pc \in {"size", "discard", "idle"}
    BY <1>4, TimeGoes, SizeGoes DEF Types
  <2>3. Several => Oldest < cur
    <3>1. Oldest \in 0 .. cur /\ DOMAIN rsegs = Oldest .. cur
      BY <2>1 DEF ListInv, Unbroken, Newest
    <3>. DEFINE lo == Oldest
    <3>. HIDE DEF lo
    <3>2. lo \in Int /\ cur \in Int /\ lo <= cur
      BY <1>0, <3>1 DEF lo
    <3>3. Cardinality(lo .. cur) = cur - lo + 1
      BY <3>2, FS_Interval
    <3>4. cur - lo + 1 > 1 => lo < cur
      BY <3>2
    <3>. QED
      BY <3>1, <3>3, <3>4 DEF Several, lo
  <2>4. Unbroken' /\ NewestStays' /\ DiskIsList'
    BY <2>1, <2>2, <2>3
    DEF ListInv, Unbroken, NewestStays, DiskIsList, Newest, Oldest
  <2>. QED
    BY <2>4 DEF ListInv
<1>5. CASE Drop
  <2>. DEFINE lo == Oldest
  <2>1. /\ task.pc = "drop" /\ Generate(Remove(rsegs, lo), task.evt, task.then)
        /\ dying' = dying \cup {lo} /\ UNCHANGED <<cur, files>>
    BY <1>5 DEF Drop
  <2>2. lo \in 0 .. cur /\ DOMAIN rsegs = lo .. cur /\ lo < cur
    BY <2>1 DEF ListInv, Unbroken, NewestStays, Newest
  <2>3. DiskIsList /\ files \ dying = lo .. cur
    BY DEF ListInv, DiskIsList
  <2>. HIDE DEF lo
  <2>4. task'.pc = "update" /\ DOMAIN rsegs' = DOMAIN rsegs \ {lo}
    <3>1. DOMAIN Remove(rsegs, lo) = DOMAIN rsegs \ {lo}
      BY DEF Remove, Restrict
    <3>. QED
      BY <2>1, <3>1, TaskGenerates DEF Types
  <2>5. /\ DOMAIN rsegs' = lo + 1 .. cur /\ lo + 1 \in Nat /\ lo + 1 <= cur
    BY <1>0, <2>2, <2>4
  <2>6. Oldest' = lo + 1
    BY <1>0, <2>5, MinOfRun DEF Oldest
  <2>7. Unbroken' /\ NewestStays'
    BY <1>0, <2>1, <2>4, <2>5, <2>6 DEF Unbroken, NewestStays, Newest
  <2>8. DiskIsList'
    BY <1>0, <2>1, <2>2, <2>3, <2>6 DEF DiskIsList
  <2>. QED
    BY <2>7, <2>8 DEF ListInv
<1>6. CASE Unlink
  <2>1. /\ UNCHANGED <<rsegs, cur, task>>
        /\ \E s \in dying : files' = files \ {s} /\ dying' = dying \ {s}
    BY <1>6 DEF Unlink
  <2>2. Unbroken' /\ NewestStays'
    BY <2>1 DEF ListInv, Unbroken, NewestStays, Newest, Oldest
  <2>3. DiskIsList'
    BY <2>1 DEF ListInv, DiskIsList, Oldest
  <2>. QED
    BY <2>2, <2>3 DEF ListInv
<1>. QED
  BY <1>1, <1>2, <1>3, <1>4, <1>5, <1>6 DEF Next, RecordTask

-----------------------------------------------------------------------------
(* What a playback that is started finds: without pending deletions the    *)
(* whole list of the recording, and in any case a segment that will stay.  *)
LEMMA LoadedIs ==
  ASSUME Types, EventInv, ListInv, task.pc # "updateNext"
  PROVE  /\ dying = {} => Loaded = DOMAIN rsegs
         /\ cur \in Loaded \/ ~ (Loaded \subseteq DOMAIN rsegs)
<1>. DEFINE lo == Oldest
<1>1. /\ lo \in 0 .. cur /\ DOMAIN rsegs = lo .. cur /\ cur \in Nat
      /\ files \ dying = lo .. cur /\ dying \subseteq files /\ files \subseteq 0 .. cur
  BY IdsAre DEF ListInv, Unbroken, DiskIsList, Newest, Types
<1>. HIDE DEF lo
<1>2. cur \in files
  BY <1>1
<1>3. CASE 0 \notin files
  <2>1. Loaded = files
    BY <1>3 DEF Loaded
  <2>. QED
    BY <1>1, <1>2, <2>1
<1>4. CASE 0 \in files /\ lo = 0
  <2>1. files = 0 .. cur
    BY <1>1, <1>4
  <2>2. Cardinality(files) = cur + 1
    <3>1. cur \in Int /\ 0 \in Int /\ ~ (0 > cur)
      BY <1>1
    <3>2. Cardinality(0 .. cur) = cur - 0 + 1
      BY <3>1, FS_Interval
    <3>. QED
      BY <1>1, <2>1, <3>2
  <2>3. Loaded = {s \in files : final[s] # None \/ s = cur}
    BY <1>1, <1>4, <2>2 DEF Loaded
  <2>4. ASSUME NEW s \in files, s # cur
        PROVE  final[s] # None
    <3>1. s \in Ids /\ s < cur
      BY <1>1, <2>4 DEF Types
    <3>. QED
      BY <3>1 DEF EventInv, EndedFull
  <2>5. Loaded = files
    BY <2>3, <2>4
  <2>. QED
    BY <1>1, <1>2, <1>4, <2>1, <2>5
<1>5. CASE 0 \in files /\ lo # 0
  <2>1. 0 \in Ids /\ 0 < cur
    BY <1>1, <1>5 DEF Types
  <2>2. 0 \in Loaded
    BY <1>5, <2>1 DEF Loaded, EventInv, EndedFull
  <2>3. 0 \notin DOMAIN rsegs /\ dying # {}
    BY <1>1, <1>5
  <2>. QED
    BY <2>2, <2>3
<1>. QED
  BY <1>3, <1>4, <1>5

(* A segment is taken from the playback and its player: one stays to play, *)
(* and the player is in a segment that it still has.                       *)
LEMMA RemoveKeeps ==
  ASSUME Types, ListInv, PlayInv, RemovePlayback
  PROVE  PlayInv'
<1>. USE DEF recorder, disk, playback, player
<1>. DEFINE id == Oldest
<1>1. /\ task.pc = "remove" /\ Goto("drop") /\ UNCHANGED <<rsegs, cur, clean>>
      /\ id \in DOMAIN psegs =>
           /\ at' = Driven(id) /\ DOMAIN psegs' = DOMAIN psegs \ {id}
           /\ playlist' = IF at' = id THEN playlist ELSE playlist \ {id}
      /\ id \notin DOMAIN psegs => UNCHANGED <<at, playlist, psegs>>
  BY DEF RemovePlayback, Remove, Restrict
<1>2. task'.pc = "drop" /\ Oldest' = id
  BY <1>1, TaskGoes DEF Types, Oldest
<1>3. id # cur /\ id \in DOMAIN rsegs
  BY <1>1, IdsAre DEF ListInv, Unbroken, NewestStays, Newest, Types
<1>4. DOMAIN psegs' = DOMAIN psegs \ {id}
  BY <1>1
<1>5. at # None => at' \in playlist /\ None \notin playlist
  BY <1>1, IdsAre DEF Driven, Found, PlayInv, AtListed, Types, None
<1>6. at = None => at' = None /\ DOMAIN psegs' = {} /\ playlist' = playlist
  BY <1>1 DEF PlayInv, PlayerHasList
<1>. HIDE DEF id
<1>7. Follows'
  BY <1>1, <1>2, <1>4 DEF PlayInv, Follows
<1>8. DOMAIN psegs # {} =>
        /\ DOMAIN psegs' # {}
        /\ cur \in DOMAIN psegs' \/ ~ (DOMAIN psegs' \subseteq DOMAIN rsegs)
  BY <1>1, <1>3, <1>4 DEF PlayInv, OneToPlay
<1>9. OneToPlay'
  BY <1>1, <1>2, <1>4, <1>8 DEF OneToPlay
<1>10. AtListed'
  BY <1>1, <1>5, <1>6, <1>8 DEF PlayInv, AtListed
<1>11. PlayerHasList'
  BY <1>1, <1>4, <1>5, <1>6 DEF PlayInv, PlayerHasList
<1>. QED
  BY <1>7, <1>9, <1>10, <1>11 DEF PlayInv

(* The list of the playback follows.                                       *)
LEMMA PlayNext ==
  ASSUME Types, EventInv, ListInv, PlayInv, Next
  PROVE  PlayInv'
<1>. USE DEF recorder, disk, playback, player
<1>0. cur \in Nat /\ None \notin Ids
  BY IdsAre DEF Types, None
<1>1. CASE RecWrite \/ Post \/ Take \/ UpdatePlayback \/ TimeLimit \/ SizeLimit
           \/ Overflow \/ Refuse \/ Unlink \/ SetSpeed \/ PlayerPosts \/ TakePlayback
  <2>1. UNCHANGED <<cur, clean, at, playlist>> /\ DOMAIN psegs' = DOMAIN psegs
    BY <1>1
    DEF RecWrite, Post, Take, UpdatePlayback, Update, TimeLimit, SizeLimit, Overflow,
        Refuse, Unlink, SetSpeed, PlayerPosts, TakePlayback
  <2>2. /\ DOMAIN rsegs' = DOMAIN rsegs
        /\ \/ task' = task
           \/ /\ task.pc \notin {"updateNext", "addNext", "drop"}
              /\ task'.pc \notin {"updateNext", "addNext", "drop"}
    <3>1. CASE RecWrite \/ Post \/ Unlink \/ SetSpeed \/ PlayerPosts \/ TakePlayback
      BY <3>1 DEF RecWrite, Post, Unlink, SetSpeed, PlayerPosts, TakePlayback
    <3>2. CASE Take
      BY <3>2, TaskGenerates DEF Take, Types
    <3>3. CASE UpdatePlayback
      BY <3>3, TaskGoes DEF UpdatePlayback, Types
    <3>4. CASE TimeLimit
      BY <3>4, TimeGoes DEF TimeLimit, Types
    <3>5. CASE SizeLimit
      BY <3>5, SizeGoes DEF SizeLimit, Types
    <3>6. CASE Overflow
      BY <3>6 DEF Overflow, Idle
    <3>7. CASE Refuse
      BY <3>7, TaskGenerates DEF Refuse, Types
    <3>. QED
      BY <1>1, <3>1, <3>2, <3>3, <3>4, <3>5, <3>6, <3>7
  <2>. QED
    BY <2>1, <2>2, PlayFrame
<1>2. CASE StartNext
  <2>1. /\ task.pc = "next" /\ Goto("updateNext") /\ DOMAIN rsegs' = DOMAIN rsegs
        /\ UNCHANGED <<psegs, clean, at, playlist>>
    BY <1>2 DEF StartNext, Update
  <2>2. task'.pc = "updateNext"
    BY <2>1, TaskGoes DEF Types
  <2>. QED
    BY <2>1, <2>2 DEF PlayInv, Follows, OneToPlay, AtListed, PlayerHasList
<1>3. CASE UpdateNext
  <2>1. /\ task.pc = "updateNext" /\ Goto("addNext")
        /\ DOMAIN rsegs' = DOMAIN rsegs \cup {cur} /\ DOMAIN psegs' = DOMAIN psegs
        /\ UNCHANGED <<cur, clean, at, playlist>>
    BY <1>3 DEF UpdateNext, Add, Update
  <2>2. task'.pc = "addNext"
    BY <2>1, TaskGoes DEF Types
  <2>3. cur \notin DOMAIN rsegs
    BY <1>0, <2>1 DEF ListInv, Unbroken, Newest
  <2>. QED
    BY <2>1, <2>2, <2>3 DEF PlayInv, Follows, OneToPlay, AtListed, PlayerHasList
<1>4. CASE AddNext
  <2>1. /\ task.pc = "addNext" /\ Goto("time") /\ UNCHANGED <<rsegs, cur, clean, at>>
        /\ DOMAIN psegs # {} => /\ DOMAIN psegs' = DOMAIN psegs \cup {cur}
                                /\ playlist' = playlist \cup {cur}
        /\ DOMAIN psegs = {} => UNCHANGED <<psegs, playlist>>
    BY <1>4 DEF AddNext, Add
  <2>2. task'.pc = "time"
    BY <2>1, TaskGoes DEF Types
  <2>3. cur \in DOMAIN rsegs
    BY <1>0, <2>1 DEF ListInv, Unbroken, Newest
  <2>. QED
    BY <2>1, <2>2, <2>3 DEF PlayInv, Follows, OneToPlay, AtListed, PlayerHasList
<1>5. CASE RemovePlayback
  BY <1>5, RemoveKeeps
<1>6. CASE Drop
  <2>1. /\ task.pc = "drop" /\ Generate(Remove(rsegs, Oldest), task.evt, task.then)
        /\ UNCHANGED <<cur, psegs, clean, at, playlist>>
    BY <1>6 DEF Drop
  <2>2. DOMAIN Remove(rsegs, Oldest) = DOMAIN rsegs \ {Oldest}
    BY DEF Remove, Restrict
  <2>3. task'.pc = "update" /\ DOMAIN rsegs' = DOMAIN rsegs \ {Oldest}
    BY <2>1, <2>2, TaskGenerates DEF Types
  <2>. QED
    BY <2>1, <2>3 DEF PlayInv, Follows, OneToPlay, AtListed, PlayerHasList
<1>7. CASE StartPlayback
  <2>1. /\ task.pc = "idle" /\ Loaded # {} /\ UNCHANGED <<rsegs, cur, task>>
        /\ DOMAIN psegs' = Loaded /\ playlist' = playlist \cup Loaded
        /\ at' = Min(Loaded) /\ clean' = (dying = {})
    BY <1>7 DEF StartPlayback
  <2>2. Loaded \subseteq Ids
    BY DEF Loaded, Types
  <2>3. Min(Loaded) \in Loaded
    BY <2>1, <2>2, IdsAre, MinOf
  <2>4. /\ clean' => Loaded = DOMAIN rsegs
        /\ cur \in Loaded \/ ~ (Loaded \subseteq DOMAIN rsegs)
    BY <2>1, LoadedIs
  <2>5. Follows' /\ OneToPlay'
    BY <2>1, <2>4 DEF Follows, OneToPlay
  <2>6. AtListed' /\ PlayerHasList'
    BY <1>0, <2>1, <2>2, <2>3 DEF AtListed, PlayerHasList
  <2>. QED
    BY <2>5, <2>6 DEF PlayInv
<1>8. CASE StopPlayback
  BY <1>8 DEF StopPlayback, PlayInv, Follows, OneToPlay, AtListed, PlayerHasList
<1>9. CASE Seek
  <2>1. /\ at # None /\ UNCHANGED <<rsegs, cur, task, psegs, clean, playlist>>
        /\ at' \in playlist
    BY <1>9 DEF Seek, Found, PlayInv, AtListed
  <2>. QED
    BY <1>0, <2>1
    DEF PlayInv, Follows, OneToPlay, AtListed, PlayerHasList, Oldest, Types
<1>10. CASE PlayerMoves
  <2>1. /\ at # None /\ UNCHANGED <<rsegs, cur, task, psegs, clean, playlist>>
        /\ at' \in playlist
    BY <1>10, MoveStays DEF PlayerMoves, Types
  <2>. QED
    BY <1>0, <2>1
    DEF PlayInv, Follows, OneToPlay, AtListed, PlayerHasList, Oldest, Types
<1>. QED
  BY <1>1, <1>2, <1>3, <1>4, <1>5, <1>6, <1>7, <1>8, <1>9, <1>10
  DEF Next, RecordTask, Playback

-----------------------------------------------------------------------------
(* A recording that has just been started has the invariant.               *)
LEMMA IInvInit == Init => IInv
<1>. SUFFICES ASSUME Init PROVE IInv
  OBVIOUS
<1>. USE DEF Init
<1>1. 0 \in Ids /\ MaxSegment \in Nat \ {0} /\ SegmentSize \in Nat \ {0}
  BY SizeAssumption DEF Ids
<1>2. Types
  BY <1>1 DEF Types, TaskIs, Idle, NoEvent
<1>3. EventInv
  BY <1>1, IdsAre DEF EventInv, EventsTrue, EventOfCur, Ending, ForALimit, LastIsShort,
                      EndedFull, Idle
<1>4. DOMAIN rsegs = 0 .. 0 /\ Oldest = 0
  <2>1. DOMAIN rsegs = 0 .. 0
    OBVIOUS
  <2>2. 0 \in Nat /\ 0 <= 0
    OBVIOUS
  <2>3. Min(0 .. 0) = 0
    BY <2>2, MinOfRun
  <2>. QED
    BY <2>1, <2>3 DEF Oldest
<1>5. ListInv
  BY <1>4 DEF ListInv, Unbroken, NewestStays, DiskIsList, Newest, Idle
<1>6. PlayInv
  BY DEF PlayInv, Follows, OneToPlay, AtListed, PlayerHasList
<1>. QED
  BY <1>2, <1>3, <1>5, <1>6 DEF IInv

(* Every step keeps it.                                                    *)
LEMMA IInvNext == IInv /\ [Next]_vars => IInv'
<1>. SUFFICES ASSUME IInv, [Next]_vars PROVE IInv'
  OBVIOUS
<1>1. CASE Next
  <2>1. Types' /\ EventInv'
    BY <1>1, RecordEvents, PlaybackEvents DEF Next, IInv
  <2>. QED
    BY <1>1, <2>1, ListNext, PlayNext DEF IInv
<1>2. CASE UNCHANGED vars
  <2>1. UNCHANGED <<rsegs, cur, task, events, rsize, files, dying, final, psegs, clean,
                    playlist, at>>
    BY <1>2 DEF vars, recorder, disk, playback, player
  <2>2. Types'
    BY <2>1 DEF IInv, Types, TaskIs
  <2>3. EventInv'
    BY <2>1, EventFrame DEF IInv, Ending, EventInv, ForALimit
  <2>4. ListInv'
    BY <2>1, ListFrame DEF IInv
  <2>5. PlayInv'
    BY <2>1, PlayFrame DEF IInv
  <2>. QED
    BY <2>2, <2>3, <2>4, <2>5 DEF IInv
<1>. QED
  BY <1>1, <1>2

(* The invariant holds in every state.                                     *)
LEMMA Invariant == Spec => []IInv
BY IInvInit, IInvNext, PTL DEF Spec

(* No segment is cut before it has its size: an event that comes late is   *)
(* of a segment that has ended, and one of the current segment tells what  *)
(* has been written (dvr_wrapper.c:2826, 2857).                            *)
THEOREM EndsAreFull == Spec => []NoShortSegment
<1>1. IInv => NoShortSegment
  BY DEF IInv, EventInv, EndedFull, NoShortSegment
<1>. QED
  BY <1>1, Invariant, PTL

(* The list of the recording is what is on disk, whatever the limits, the  *)
(* deletion threads and the playback do (dvr_wrapper.c:2743-2770).         *)
THEOREM DiskIsListed == Spec => []ListIsOnDisk
<1>1. IInv => ListIsOnDisk
  BY DEF IInv, ListInv, Unbroken, DiskIsList, Newest, ListIsOnDisk
<1>. QED
  BY <1>1, Invariant, PTL

(* Neither the recording nor a playback that runs loses its last segment   *)
(* (dvr_wrapper.c:2880).                                                   *)
THEOREM OneStays == Spec => []OneSegmentStays
<1>1. IInv => OneSegmentStays
  BY DEF IInv, ListInv, Unbroken, PlayInv, AtListed, OneSegmentStays
<1>. QED
  BY <1>1, Invariant, PTL

(* Whenever the record context is free, a playback that was started with   *)
(* no deletion pending has the segments of the recording and no other      *)
(* (dvr_wrapper.c:1693), and the player has all that the playback has.     *)
THEOREM PlaybackFollows == Spec => [](PlaylistFollows /\ PlayerHasList)
<1>1. IInv => PlaylistFollows /\ PlayerHasList
  BY DEF IInv, PlayInv, Follows, PlaylistFollows
<1>. QED
  BY <1>1, Invariant, PTL

(***************************************************************************)
(* Sums.  SumFunctionOnSet folds over a finite set in an order of its own; *)
(* what it computes is shown with the smallest subset on which a statement *)
(* fails, for the inclusion of finite sets is well founded.                *)
(***************************************************************************)
(* The element a fold takes next, and the function it computes, on the     *)
(* subsets of S.                                                           *)
Taken(S) == CHOOSE x \in S : TRUE
IsIter(it, f, S) ==
  it = [s \in SUBSET S |-> IF s = {} THEN 0 ELSE f[Taken(s)] + it[s \ {Taken(s)}]]

(* Among some subsets of a finite set there is one that has no other in it.*)
LEMMA LeastSubset ==
  ASSUME NEW S, IsFiniteSet(S), NEW T, T \subseteq SUBSET S, T # {}
  PROVE  \E s \in T : \A u \in T : u \subseteq s => u = s
<1>. DEFINE R == StrictSubsetOrdering(S)
<1>1. IsWellFoundedOn(R, SUBSET S)
  BY FS_StrictSubsetOrderingWellFounded, FS_FiniteSubsetsOfFinite
<1>2. \A s, u \in SUBSET S : u \subseteq s /\ u # s => <<u, s>> \in R
  BY DEF StrictSubsetOrdering
<1>. HIDE DEF R
<1>3. PICK s \in T : \A u \in T : ~ (<<u, s>> \in R)
  BY <1>1, WFMin
<1>. QED
  BY <1>2, <1>3

(* An iter, one step at a time.                                            *)
LEMMA IterStep ==
  ASSUME NEW f, NEW S, NEW it, IsIter(it, f, S), NEW s \in SUBSET S
  PROVE  it[s] = IF s = {} THEN 0 ELSE f[Taken(s)] + it[s \ {Taken(s)}]
BY DEF IsIter

(* The element taken is one of the set, and leaves a smaller one.          *)
LEMMA TakenLeaves ==
  ASSUME NEW S, S # {}
  PROVE  /\ Taken(S) \in S /\ S \ {Taken(S)} \subseteq S
         /\ S \ {Taken(S)} # S
<1>1. Taken(S) \in S
  BY DEF Taken
<1>. QED
  BY <1>1

(* The folds of two sets agree where both are defined.                     *)
LEMMA IterAgree ==
  ASSUME NEW f, NEW S, NEW T, IsFiniteSet(S), NEW g, NEW h,
         IsIter(g, f, S), IsIter(h, f, T), NEW u \in SUBSET S, u \in SUBSET T
  PROVE  g[u] = h[u]
<1>. DEFINE Bad == {s \in SUBSET S : s \in SUBSET T /\ g[s] # h[s]}
<1>. SUFFICES ASSUME Bad # {} PROVE FALSE
  OBVIOUS
<1>1. PICK s \in Bad : \A v \in Bad : v \subseteq s => v = s
  <2>1. Bad \subseteq SUBSET S
    OBVIOUS
  <2>. HIDE DEF Bad
  <2>. QED
    BY <2>1, LeastSubset
<1>2. /\ g[s] = IF s = {} THEN 0 ELSE f[Taken(s)] + g[s \ {Taken(s)}]
      /\ h[s] = IF s = {} THEN 0 ELSE f[Taken(s)] + h[s \ {Taken(s)}]
  <2>1. s \in SUBSET S /\ s \in SUBSET T
    BY <1>1
  <2>2. g[s] = IF s = {} THEN 0 ELSE f[Taken(s)] + g[s \ {Taken(s)}]
    BY <2>1, IterStep
  <2>3. h[s] = IF s = {} THEN 0 ELSE f[Taken(s)] + h[s \ {Taken(s)}]
    BY <2>1, IterStep
  <2>. QED
    BY <2>2, <2>3
<1>3. CASE s = {}
  BY <1>1, <1>2, <1>3
<1>4. CASE s # {}
  <2>1. /\ s \ {Taken(s)} \in SUBSET S /\ s \ {Taken(s)} \in SUBSET T
        /\ s \ {Taken(s)} \subseteq s /\ s \ {Taken(s)} # s
    BY <1>4, TakenLeaves
  <2>2. s \ {Taken(s)} \notin Bad
    BY <1>1, <2>1
  <2>3. g[s \ {Taken(s)}] = h[s \ {Taken(s)}]
    BY <2>1, <2>2
  <2>. QED
    BY <1>1, <1>2, <1>4, <2>3
<1>. QED
  BY <1>3, <1>4

(* What SumFunctionOnSet of the library is.                                *)
LEMMA SumIs ==
  ASSUME NEW f, NEW S
  PROVE  SumFunctionOnSet(f, S) = (CHOOSE it : IsIter(it, f, S))[S]
BY DEF SumFunctionOnSet, FoldFunctionOnSet, MapThenFoldSet, IsIter, Taken

(* Any fold over the set, or over one it is a part of, gives the sum.      *)
LEMMA SumOfIter ==
  ASSUME NEW f, NEW S, IsFiniteSet(S), NEW g, IsIter(g, f, S), NEW T \in SUBSET S,
         \E it : IsIter(it, f, T)
  PROVE  SumFunctionOnSet(f, T) = g[T]
<1>. DEFINE it == CHOOSE h : IsIter(h, f, T)
<1>1. IsIter(it, f, T)
  OBVIOUS
<1>2. SumFunctionOnSet(f, T) = it[T]
  BY SumIs
<1>3. T \in SUBSET T
  OBVIOUS
<1>. HIDE DEF it
<1>4. g[T] = it[T]
  BY <1>1, <1>3, IterAgree
<1>. QED
  BY <1>2, <1>4

(* The fold over a finite set exists.                                      *)
LEMMA IterExists ==
  ASSUME NEW f, NEW S, IsFiniteSet(S)
  PROVE  \E it : IsIter(it, f, S)
<1>. DEFINE Bad == {s \in SUBSET S : ~ \E it : IsIter(it, f, s)}
<1>. SUFFICES ASSUME Bad # {} PROVE FALSE
  OBVIOUS
<1>1. PICK s \in Bad : \A v \in Bad : v \subseteq s => v = s
  <2>1. Bad \subseteq SUBSET S
    OBVIOUS
  <2>. HIDE DEF Bad
  <2>. QED
    BY <2>1, LeastSubset
<1>2. ASSUME NEW u, u \subseteq s, u # s
      PROVE  \E it : IsIter(it, f, u)
  BY <1>1, <1>2
<1>. DEFINE V(u) == SumFunctionOnSet(f, u)
            W(u) == IF u = {} THEN 0 ELSE f[Taken(u)] + V(u \ {Taken(u)})
            g == [u \in SUBSET s |-> W(u)]
<1>3. ASSUME NEW u, u \subseteq s, u # s
      PROVE  V(u) = W(u)
  <2>1. PICK it : IsIter(it, f, u)
    BY <1>2, <1>3
  <2>2. IsFiniteSet(u)
    BY <1>3, FS_Subset
  <2>3. u \in SUBSET u
    OBVIOUS
  <2>4. V(u) = it[u]
    BY <2>1, <2>2, <2>3, SumOfIter
  <2>5. CASE u = {}
    <3>1. it[u] = 0
      BY <2>1, <2>3, <2>5, IterStep
    <3>. QED
      BY <2>4, <2>5, <3>1
  <2>6. CASE u # {}
    <3>. DEFINE v == u \ {Taken(u)}
    <3>1. v \in SUBSET u /\ v # u /\ v \subseteq s /\ v # s
      BY <1>3, <2>6, TakenLeaves
    <3>2. it[u] = f[Taken(u)] + it[v]
      BY <2>1, <2>3, <2>6, IterStep
    <3>. HIDE DEF v
    <3>3. \E h : IsIter(h, f, v)
      BY <3>1, <1>2
    <3>4. V(v) = it[v]
      BY <2>1, <2>2, <3>1, <3>3, SumOfIter
    <3>. QED
      BY <2>4, <2>6, <3>2, <3>4 DEF v
  <2>. QED
    BY <2>5, <2>6
<1>4. ASSUME NEW u \in SUBSET s, u # {}
      PROVE  g[u \ {Taken(u)}] = V(u \ {Taken(u)})
  <2>1. /\ u \ {Taken(u)} \in SUBSET s /\ u \ {Taken(u)} # s
    BY <1>4, TakenLeaves
  <2>2. V(u \ {Taken(u)}) = W(u \ {Taken(u)})
    BY <1>3, <2>1
  <2>. QED
    BY <2>1, <2>2
<1>. DEFINE h == [u \in SUBSET s |-> IF u = {} THEN 0 ELSE f[Taken(u)] + g[u \ {Taken(u)}]]
<1>5. g = h
  <2>1. ASSUME NEW u \in SUBSET s PROVE g[u] = h[u]
    <3>1. CASE u = {}
      BY <3>1
    <3>2. CASE u # {}
      BY <3>2, <1>4
    <3>. QED
      BY <3>1, <3>2
  <2>. QED
    BY <2>1
<1>6. IsIter(g, f, s)
  BY <1>5 DEF IsIter
<1>. QED
  BY <1>1, <1>6

(* The sum, one element at a time.                                         *)
LEMMA SumStep ==
  ASSUME NEW f, NEW S, IsFiniteSet(S)
  PROVE  SumFunctionOnSet(f, S) =
           IF S = {} THEN 0
           ELSE f[Taken(S)] + SumFunctionOnSet(f, S \ {Taken(S)})
<1>1. PICK it : IsIter(it, f, S)
  BY IterExists
<1>2. SumFunctionOnSet(f, S) = it[S]
  BY <1>1, SumOfIter
<1>3. it[S] = IF S = {} THEN 0 ELSE f[Taken(S)] + it[S \ {Taken(S)}]
  BY <1>1, IterStep
<1>4. ASSUME S # {}
      PROVE  it[S \ {Taken(S)}] = SumFunctionOnSet(f, S \ {Taken(S)})
  <2>. DEFINE T == S \ {Taken(S)}
  <2>1. T \in SUBSET S /\ IsFiniteSet(T)
    BY <1>4, FS_Subset
  <2>. HIDE DEF T
  <2>2. \E h : IsIter(h, f, T)
    BY <2>1, IterExists
  <2>3. SumFunctionOnSet(f, T) = it[T]
    BY <1>1, <2>1, <2>2, SumOfIter
  <2>. QED
    BY <2>3 DEF T
<1>. QED
  BY <1>2, <1>3, <1>4

(* A sum of sizes is a size.                                               *)
LEMMA SumIsNat ==
  ASSUME NEW f, NEW S, IsFiniteSet(S), \A x \in S : f[x] \in Nat
  PROVE  SumFunctionOnSet(f, S) \in Nat
<1>. DEFINE Bad == {s \in SUBSET S : SumFunctionOnSet(f, s) \notin Nat}
<1>. SUFFICES ASSUME Bad # {} PROVE FALSE
  OBVIOUS
<1>1. PICK s \in Bad : \A v \in Bad : v \subseteq s => v = s
  <2>1. Bad \subseteq SUBSET S
    OBVIOUS
  <2>. HIDE DEF Bad
  <2>. QED
    BY <2>1, LeastSubset
<1>2. IsFiniteSet(s)
  BY FS_Subset
<1>3. CASE s = {}
  <2>1. SumFunctionOnSet(f, s) = 0
    BY <1>2, <1>3, SumStep
  <2>. QED
    BY <1>1, <2>1
<1>4. CASE s # {}
  <2>1. SumFunctionOnSet(f, s) = f[Taken(s)] + SumFunctionOnSet(f, s \ {Taken(s)})
    BY <1>2, <1>4, SumStep
  <2>2. /\ Taken(s) \in S /\ s \ {Taken(s)} \in SUBSET S
        /\ s \ {Taken(s)} \subseteq s /\ s \ {Taken(s)} # s
    BY <1>4, TakenLeaves
  <2>3. SumFunctionOnSet(f, s \ {Taken(s)}) \in Nat
    BY <1>1, <2>2
  <2>4. f[Taken(s)] \in Nat
    BY <2>2
  <2>. QED
    BY <1>1, <2>1, <2>3, <2>4
<1>. QED
  BY <1>3, <1>4

(* A sum may begin with any element.                                       *)
LEMMA SumTakes ==
  ASSUME NEW f, NEW S, IsFiniteSet(S), \A x \in S : f[x] \in Nat, NEW y \in S
  PROVE  SumFunctionOnSet(f, S) = f[y] + SumFunctionOnSet(f, S \ {y})
<1>. DEFINE V(s) == SumFunctionOnSet(f, s)
            Bad == {s \in SUBSET S : \E z \in s : V(s) # f[z] + V(s \ {z})}
<1>. SUFFICES ASSUME Bad # {} PROVE FALSE
  OBVIOUS
<1>1. PICK s \in Bad : \A v \in Bad : v \subseteq s => v = s
  <2>1. Bad \subseteq SUBSET S
    OBVIOUS
  <2>. HIDE DEF Bad
  <2>. QED
    BY <2>1, LeastSubset
<1>2. PICK z \in s : V(s) # f[z] + V(s \ {z})
  BY <1>1
<1>. DEFINE x == Taken(s)
<1>3. x \in s
  BY TakenLeaves
<1>4. V(s) = f[x] + V(s \ {x})
  <2>1. IsFiniteSet(s)
    BY FS_Subset
  <2>. QED
    BY <2>1, SumStep
<1>. HIDE DEF x
<1>5. x # z
  BY <1>2, <1>4
<1>6. V(s \ {x}) = f[z] + V((s \ {x}) \ {z})
  <2>1. s \ {x} \notin Bad /\ s \ {x} \in SUBSET S /\ z \in s \ {x}
    BY <1>1, <1>3, <1>5
  <2>. QED
    BY <2>1
<1>7. V(s \ {z}) = f[x] + V((s \ {z}) \ {x})
  <2>1. s \ {z} \notin Bad /\ s \ {z} \in SUBSET S /\ x \in s \ {z}
    BY <1>1, <1>3, <1>5
  <2>. QED
    BY <2>1
<1>8. (s \ {x}) \ {z} = (s \ {z}) \ {x}
  OBVIOUS
<1>9. f[x] \in Nat /\ f[z] \in Nat /\ V((s \ {z}) \ {x}) \in Nat
  <2>1. (s \ {z}) \ {x} \subseteq S /\ x \in S /\ z \in S
    BY <1>3
  <2>2. IsFiniteSet((s \ {z}) \ {x})
    BY <2>1, FS_Subset
  <2>. QED
    BY <2>1, <2>2, SumIsNat
<1>. HIDE DEF V
<1>10. V(s) = f[z] + V(s \ {z})
  BY <1>4, <1>6, <1>7, <1>8, <1>9
<1>. QED
  BY <1>2, <1>10

(* The sum looks at the elements of the set only.                          *)
LEMMA SumSame ==
  ASSUME NEW f, NEW g, NEW S, IsFiniteSet(S), \A x \in S : f[x] = g[x]
  PROVE  SumFunctionOnSet(f, S) = SumFunctionOnSet(g, S)
<1>. DEFINE Bad == {s \in SUBSET S : SumFunctionOnSet(f, s) # SumFunctionOnSet(g, s)}
<1>. SUFFICES ASSUME Bad # {} PROVE FALSE
  OBVIOUS
<1>1. PICK s \in Bad : \A v \in Bad : v \subseteq s => v = s
  <2>1. Bad \subseteq SUBSET S
    OBVIOUS
  <2>. HIDE DEF Bad
  <2>. QED
    BY <2>1, LeastSubset
<1>2. IsFiniteSet(s)
  BY FS_Subset
<1>3. CASE s = {}
  BY <1>1, <1>2, <1>3, SumStep
<1>4. CASE s # {}
  <2>1. /\ SumFunctionOnSet(f, s) = f[Taken(s)] + SumFunctionOnSet(f, s \ {Taken(s)})
        /\ SumFunctionOnSet(g, s) = g[Taken(s)] + SumFunctionOnSet(g, s \ {Taken(s)})
    BY <1>2, <1>4, SumStep
  <2>2. /\ Taken(s) \in S /\ s \ {Taken(s)} \in SUBSET S
        /\ s \ {Taken(s)} \subseteq s /\ s \ {Taken(s)} # s
    BY <1>4, TakenLeaves
  <2>3. s \ {Taken(s)} \notin Bad
    BY <1>1, <2>2
  <2>4. SumFunctionOnSet(f, s \ {Taken(s)}) = SumFunctionOnSet(g, s \ {Taken(s)})
    BY <2>2, <2>3
  <2>5. f[Taken(s)] = g[Taken(s)]
    BY <2>2
  <2>. QED
    BY <1>1, <2>1, <2>4, <2>5
<1>. QED
  BY <1>3, <1>4

(* A sum of bounded sizes is bounded.                                      *)
LEMMA SumBound ==
  ASSUME NEW f, NEW S, IsFiniteSet(S), NEW B \in Nat, \A x \in S : f[x] \in 0 .. B
  PROVE  SumFunctionOnSet(f, S) \in 0 .. Cardinality(S) * B
<1>. DEFINE V(s) == SumFunctionOnSet(f, s)
            Bad == {s \in SUBSET S : ~ (V(s) \in 0 .. Cardinality(s) * B)}
<1>. SUFFICES ASSUME Bad # {} PROVE FALSE
  OBVIOUS
<1>1. PICK s \in Bad : \A v \in Bad : v \subseteq s => v = s
  <2>1. Bad \subseteq SUBSET S
    OBVIOUS
  <2>. HIDE DEF Bad
  <2>. QED
    BY <2>1, LeastSubset
<1>2. IsFiniteSet(s)
  BY FS_Subset
<1>3. CASE s = {}
  <2>1. V(s) = 0 /\ Cardinality(s) = 0
    BY <1>2, <1>3, SumStep, FS_EmptySet
  <2>. QED
    BY <1>1, <2>1
<1>4. CASE s # {}
  <2>. DEFINE u == s \ {Taken(s)}
              n == Cardinality(u)
  <2>1. V(s) = f[Taken(s)] + V(u)
    BY <1>2, <1>4, SumStep
  <2>2. Taken(s) \in s /\ Taken(s) \in S /\ u \in SUBSET S /\ u \subseteq s /\ u # s
    BY <1>4, TakenLeaves
  <2>3. V(u) \in 0 .. n * B
    BY <1>1, <2>2
  <2>4. f[Taken(s)] \in 0 .. B
    BY <2>2
  <2>5. n \in Nat /\ Cardinality(s) = n + 1
    BY <1>2, <2>2, FS_RemoveElement, FS_Subset, FS_CardinalityType
  <2>. HIDE DEF n, V
  <2>6. n * B \in Nat /\ (n + 1) * B = n * B + B
    BY <2>5
  <2>7. V(s) \in 0 .. n * B + B
    BY <2>1, <2>3, <2>4, <2>6
  <2>8. V(s) \in 0 .. Cardinality(s) * B
    BY <2>5, <2>6, <2>7
  <2>. QED
    BY <1>1, <2>8
<1>. QED
  BY <1>3, <1>4
-----------------------------------------------------------------------------
(***************************************************************************)
(* Sizes and sums: what the lists add up to, and what of it is obsolete.   *)
(***************************************************************************)
Largest == SegmentSize + Ahead

(* A size that is told of a segment that has ended is not above its own.   *)
Within(id, size) == final[id] # None => size <= final[id]

(* The sizes of the recorder and of its events.                            *)
EventSizes ==
  /\ rsize \in Sizes /\ final \in [Ids -> Sizes \cup {None}]
  /\ events \in Seq(Status)
  /\ \A i \in DOMAIN events : Within(events[i].id, events[i].size)

(* The event that the record task is at.                                   *)
TaskSizes ==
  /\ task.evt \in Status \cup {NoEvent}
  /\ task.pc # "idle" => task.evt \in Status /\ Within(task.evt.id, task.evt.size)

(* The sizes in the lists.                                                 *)
RecordList == rsegs \in Lists /\ \A s \in DOMAIN rsegs : Within(s, rsegs[s])
PlaybackList == psegs \in Lists

(* The sums the record task compares with the limits.                      *)
TaskTotals ==
  /\ task.pc \in Places
  /\ task.total \in Totals /\ task.actual \in Totals

(* ObsoleteIsRemoved, also while a segment goes.                           *)
ObsoleteInv == obsolete \in Nat /\ obsolete <= SumFunctionOnSet(final, Removed)

(* What no size depends on.                                                *)
Others ==
  /\ pevents \in Seq(Ids) /\ pcurrent \in Ids
  /\ discard \in BOOLEAN /\ normal \in BOOLEAN /\ full \in BOOLEAN /\ clean \in BOOLEAN
  /\ calls \in 0 .. MaxCall

SizeInv == /\ EventSizes /\ TaskSizes /\ RecordList /\ PlaybackList
           /\ TaskTotals /\ ObsoleteInv /\ Others

(* The bounds are numbers.                                                 *)
LEMMA BoundsAre ==
  /\ SegmentSize \in Nat \ {0} /\ MaxSize \in Nat \ {0} /\ MaxSegment \in Nat \ {0}
  /\ Ahead \in Nat /\ Largest \in Nat /\ Sizes = 0 .. Largest
  /\ IsFiniteSet(Ids) /\ Cardinality(Ids) = MaxSegment
<1>1. /\ SegmentSize \in Nat \ {0} /\ MaxSize \in Nat \ {0} /\ MaxSegment \in Nat \ {0}
      /\ Ahead \in Nat
  BY SizeAssumption, BoundAssumption
<1>2. 0 \in Int /\ MaxSegment - 1 \in Int /\ ~ (0 > MaxSegment - 1)
  BY <1>1
<1>3. /\ IsFiniteSet(0 .. MaxSegment - 1)
      /\ Cardinality(0 .. MaxSegment - 1) = MaxSegment - 1 - 0 + 1
  BY <1>2, FS_Interval
<1>. QED
  BY <1>1, <1>3 DEF Largest, Sizes, Ids

(* A list gives ids their sizes.                                           *)
LEMMA ListIs ==
  ASSUME NEW f, f \in Lists
  PROVE  /\ DOMAIN f \subseteq Ids /\ \A s \in DOMAIN f : f[s] \in Sizes
         /\ f = [s \in DOMAIN f |-> f[s]]
BY DEF Lists

(* ... and what does so is a list.                                         *)
LEMMA IsList ==
  ASSUME NEW f, f = [s \in DOMAIN f |-> f[s]], DOMAIN f \subseteq Ids,
         \A s \in DOMAIN f : f[s] \in Sizes
  PROVE  f \in Lists
<1>1. f \in [DOMAIN f -> Sizes]
  OBVIOUS
<1>. QED
  BY <1>1 DEF Lists

(* Lists stay lists.                                                       *)
LEMMA ListKept ==
  ASSUME NEW f, f \in Lists, NEW id, NEW size \in Sizes
  PROVE  /\ Update(f, id, size) \in Lists
         /\ Remove(f, id) \in Lists
         /\ id \in Ids => Add(f, id, size) \in Lists
<1>1. DOMAIN f \subseteq Ids /\ \A s \in DOMAIN f : f[s] \in Sizes
  BY ListIs
<1>2. Update(f, id, size) \in [DOMAIN f -> Sizes]
  BY <1>1 DEF Update
<1>3. Remove(f, id) \in [DOMAIN f \ {id} -> Sizes]
  BY <1>1 DEF Remove, Restrict
<1>4. Add(f, id, size) \in [DOMAIN f \cup {id} -> Sizes]
  BY <1>1 DEF Add
<1>. QED
  BY <1>1, <1>2, <1>3, <1>4 DEF Lists

(* More segments of some size have more.                                   *)
LEMMA TimesGrows ==
  ASSUME NEW m \in Nat, NEW n \in Nat, m <= n, NEW B \in Nat
  PROVE  m * B \in Nat /\ n * B \in Nat /\ m * B <= n * B /\ (n + 1) * B = n * B + B
<1>1. PICK k \in Nat : n = m + k
  <2>1. n - m \in Nat /\ n = m + (n - m)
    OBVIOUS
  <2>. QED
    BY <2>1
<1>2. (m + k) * B = m * B + k * B
  OBVIOUS
<1>3. m * B \in Nat /\ k * B \in Nat
  OBVIOUS
<1>4. (n + 1) * B = n * B + B
  OBVIOUS
<1>5. n * B = m * B + k * B
  BY <1>1, <1>2
<1>6. n * B \in Nat /\ m * B <= n * B
  BY <1>3, <1>5
<1>. QED
  BY <1>3, <1>4, <1>6

(* The sizes of some ids add up to no more than all can have.              *)
LEMMA SumOfIds ==
  ASSUME NEW f, NEW S \in SUBSET Ids, \A s \in S : f[s] \in Sizes
  PROVE  /\ IsFiniteSet(S) /\ SumFunctionOnSet(f, S) \in Totals
         /\ \A id \in Ids, e \in Sizes :
              id \notin S => e + SumFunctionOnSet(f, S) \in Totals
<1>. DEFINE n == Cardinality(S)
            V == SumFunctionOnSet(f, S)
<1>1. IsFiniteSet(S) /\ n \in Nat /\ n <= MaxSegment
  BY BoundsAre, FS_Subset, FS_CardinalityType
<1>2. \A s \in S : f[s] \in 0 .. Largest
  BY BoundsAre
<1>3. V \in 0 .. n * Largest
  BY <1>1, <1>2, SumBound, BoundsAre
<1>4. ASSUME NEW id \in Ids, id \notin S PROVE n + 1 <= MaxSegment
  <2>1. S \cup {id} \in SUBSET Ids
    OBVIOUS
  <2>2. Cardinality(S \cup {id}) <= MaxSegment
    BY <2>1, BoundsAre, FS_Subset
  <2>3. Cardinality(S \cup {id}) = n + 1
    BY <1>1, <1>4, FS_AddElement
  <2>. QED
    BY <2>2, <2>3
<1>. HIDE DEF n, V
<1>5. Totals = 0 .. MaxSegment * Largest
  BY DEF Totals, Largest
<1>6. V \in Totals
  <2>1. n * Largest \in Nat /\ MaxSegment * Largest \in Nat /\ n * Largest <= MaxSegment * Largest
    BY <1>1, TimesGrows, BoundsAre
  <2>. QED
    BY <1>3, <1>5, <2>1
<1>7. ASSUME NEW id \in Ids, NEW e \in Sizes, id \notin S
      PROVE  e + V \in Totals
  <2>1. n + 1 <= MaxSegment /\ n + 1 \in Nat /\ MaxSegment \in Nat /\ Largest \in Nat
    BY <1>1, <1>4, <1>7, BoundsAre
  <2>2. (n + 1) * Largest <= MaxSegment * Largest /\ MaxSegment * Largest \in Nat
    BY <2>1, TimesGrows
  <2>3. n * Largest \in Nat /\ (n + 1) * Largest = n * Largest + Largest
    <3>1. n <= n
      BY <1>1
    <3>. QED
      BY <1>1, <2>1, <3>1, TimesGrows
  <2>4. e \in 0 .. Largest
    BY <1>7, BoundsAre
  <2>. QED
    BY <1>3, <1>5, <2>1, <2>2, <2>3, <2>4
<1>. QED
  BY <1>1, <1>6, <1>7 DEF V

(* The status is generated: its sum is a sum of sizes, and the list gets   *)
(* the size of the event.                                                  *)
LEMMA GenerateSizes ==
  ASSUME TaskIs, NEW segs \in Lists, NEW e \in Status, NEW then,
         \A s \in DOMAIN segs : Within(s, segs[s]), Within(e.id, e.size),
         Generate(segs, e, then), final' = final
  PROVE  /\ task'.pc = "update" /\ task'.evt = e /\ task'.total \in Totals
         /\ task'.actual = task.actual /\ TaskSizes'
         /\ RecordList'
<1>. DEFINE n == e.size + SumFunctionOnSet(segs, DOMAIN segs \ {e.id})
<1>1. /\ rsegs' = Update(segs, e.id, e.size)
      /\ task' = [task EXCEPT !.pc = "update", !.evt = e, !.then = then, !.total = n]
  BY DEF Generate
<1>2. e.id \in Ids /\ e.size \in Sizes
  BY DEF Status
<1>3. n \in Totals
  <2>1. DOMAIN segs \ {e.id} \in SUBSET Ids /\ \A s \in DOMAIN segs \ {e.id} : segs[s] \in Sizes
    BY ListIs
  <2>. QED
    BY <1>2, <2>1, SumOfIds
<1>. HIDE DEF n
<1>4. /\ task'.pc = "update" /\ task'.evt = e /\ task'.total = n
      /\ task'.actual = task.actual
  BY <1>1 DEF TaskIs
<1>5. rsegs' \in Lists
  BY <1>1, <1>2, ListKept
<1>6. \A s \in DOMAIN rsegs' : Within(s, rsegs'[s])
  BY <1>1 DEF Update, Within
<1>7. TaskSizes'
  BY <1>4 DEF TaskSizes, Within
<1>. QED
  BY <1>3, <1>4, <1>5, <1>6, <1>7 DEF RecordList, Within

(* A step of the record task that only goes on.                            *)
LEMMA GotoSizes ==
  ASSUME TaskIs, NEW p, Goto(p)
  PROVE  /\ task'.pc = p /\ task'.evt = task.evt
         /\ task'.total = task.total /\ task'.actual = task.actual
BY DEF TaskIs, Goto

(* What the record task and the recorder do not touch.                     *)
LEMMA StillSizes ==
  ASSUME RecWrite \/ Post \/ Unlink \/ Playback
  PROVE  UNCHANGED <<rsegs, cur, final, task, obsolete>>
<1>. USE DEF recorder, disk, playback, player
<1>1. CASE RecWrite \/ Post \/ Unlink
  BY <1>1 DEF RecWrite, Post, Unlink
<1>2. CASE Playback
  BY <1>2 DEF Playback, StartPlayback, StopPlayback, Seek, SetSpeed, PlayerMoves,
              PlayerPosts, TakePlayback
<1>. QED
  BY <1>1, <1>2

(* The segment being written has not ended.                                *)
LEMMA CurIsOpen ==
  ASSUME Types, EventInv
  PROVE  cur \in Ids /\ cur \in Nat /\ final[cur] = None /\ None \notin Nat
BY IdsAre DEF Types, EventInv, EndedFull, None

(* The recorder and its events keep to their bounds.                       *)
LEMMA EventSizesNext ==
  ASSUME Types, EventInv, EventSizes, Next
  PROVE  EventSizes'
<1>. USE DEF recorder, disk, playback, player
<1>0. rsize \in 0 .. Largest /\ Sizes = 0 .. Largest /\ SegmentSize \in Nat /\ Ahead \in Nat
  BY BoundsAre DEF EventSizes
<1>1. CASE RecWrite
  <2>1. /\ rsize' = rsize + 1 /\ UNCHANGED <<final, events>>
        /\ rsize < SegmentSize - 1 \/ rsize < SegmentSize + Ahead
    BY <1>1 DEF RecWrite
  <2>2. rsize' \in Sizes
    BY <1>0, <2>1 DEF Largest
  <2>. QED
    BY <2>1, <2>2 DEF EventSizes, Within
<1>2. CASE Post
  <2>. DEFINE e == [id |-> cur, size |-> rsize]
  <2>1. events' = Append(events, e) /\ UNCHANGED <<rsize, final>>
    BY <1>2 DEF Post
  <2>2. e \in Status /\ Within(e.id, e.size)
    BY CurIsOpen DEF EventSizes, Status, Within
  <2>. HIDE DEF e
  <2>3. /\ events' \in Seq(Status)
        /\ \A i \in DOMAIN events' :
             (i \in DOMAIN events /\ events'[i] = events[i]) \/ events'[i] = e
    BY <2>1, <2>2 DEF EventSizes
  <2>. QED
    BY <2>1, <2>2, <2>3 DEF EventSizes, Within
<1>3. CASE Take
  <2>1. events # <<>> /\ events' = Tail(events) /\ UNCHANGED <<rsize, final>>
    BY <1>3 DEF Take
  <2>2. /\ events' \in Seq(Status)
        /\ \A i \in DOMAIN events' : i + 1 \in DOMAIN events /\ events'[i] = events[i + 1]
    BY <2>1 DEF EventSizes
  <2>. QED
    BY <2>1, <2>2 DEF EventSizes, Within
<1>4. CASE StartNext
  <2>1. final' = [final EXCEPT ![cur] = rsize] /\ rsize' = 0 /\ events' = events
    BY <1>4 DEF StartNext
  <2>2. final' \in [Ids -> Sizes \cup {None}] /\ rsize' \in Sizes
    <3>1. rsize \in Sizes /\ 0 \in Sizes /\ final \in [Ids -> Sizes \cup {None}]
      BY BoundsAre DEF EventSizes
    <3>. QED
      BY <2>1, <3>1
  <2>3. ASSUME NEW i \in DOMAIN events
        PROVE  final'[events[i].id] # None => events[i].size <= final'[events[i].id]
    <3>1. events[i] \in Status
      BY DEF EventSizes
    <3>2. CASE events[i].id = cur
      <4>1. events[i].size <= rsize
        BY <3>2 DEF EventInv, EventsTrue
      <4>. QED
        BY <2>1, <3>2, <4>1, CurIsOpen DEF EventSizes
    <3>3. CASE events[i].id # cur
      BY <2>1, <3>1, <3>3 DEF EventSizes, Within, Status
    <3>. QED
      BY <3>2, <3>3
  <2>. QED
    BY <2>1, <2>2, <2>3 DEF EventSizes, Within
<1>5. CASE \/ UpdatePlayback \/ UpdateNext \/ AddNext \/ TimeLimit \/ SizeLimit
           \/ Overflow \/ Refuse \/ RemovePlayback \/ Drop \/ Unlink \/ Playback
  <2>1. UNCHANGED <<rsize, final, events>>
    <3>1. CASE Playback
      BY <3>1 DEF Playback, StartPlayback, StopPlayback, Seek, SetSpeed, PlayerMoves,
                  PlayerPosts, TakePlayback
    <3>. QED
      BY <1>5, <3>1
      DEF UpdatePlayback, UpdateNext, AddNext, TimeLimit, SizeLimit, Overflow, Refuse,
          RemovePlayback, Drop, Unlink
  <2>. QED
    BY <2>1 DEF EventSizes, Within
<1>. QED
  BY <1>1, <1>2, <1>3, <1>4, <1>5 DEF Next, RecordTask

(* The steps that generate a status: their event and their list have sizes *)
(* that are true.                                                          *)
LEMMA GeneratesTrue ==
  ASSUME Types, EventInv, SizeInv, (Take /\ Head(events).id = cur) \/ Refuse \/ Drop
  PROVE  /\ task'.pc = "update" /\ task'.total \in Totals /\ task'.actual = task.actual
         /\ TaskSizes' /\ RecordList'
<1>. USE DEF recorder, disk, playback, player
<1>1. TaskIs /\ rsegs \in Lists /\ \A s \in DOMAIN rsegs : Within(s, rsegs[s])
  BY DEF Types, SizeInv, RecordList
<1>2. CASE Take /\ Head(events).id = cur
  <2>1. Generate(rsegs, Head(events), "next") /\ events # <<>> /\ final' = final
    BY <1>2 DEF Take
  <2>2. events \in Seq(Status) /\ 1 \in DOMAIN events /\ Head(events) = events[1]
    BY <2>1 DEF SizeInv, EventSizes
  <2>3. Head(events) \in Status /\ Within(Head(events).id, Head(events).size)
    BY <2>2 DEF SizeInv, EventSizes
  <2>. QED
    BY <1>1, <2>1, <2>3, GenerateSizes
<1>3. CASE Refuse
  <2>1. Generate(rsegs, task.evt, task.then) /\ final' = final /\ task.pc = "remove"
    BY <1>3 DEF Refuse
  <2>2. task.evt \in Status /\ Within(task.evt.id, task.evt.size)
    BY <2>1 DEF SizeInv, TaskSizes
  <2>. QED
    BY <1>1, <2>1, <2>2, GenerateSizes
<1>4. CASE Drop
  <2>. DEFINE segs == Remove(rsegs, Oldest)
  <2>1. Generate(segs, task.evt, task.then) /\ final' = final /\ task.pc = "drop"
    BY <1>4 DEF Drop
  <2>2. task.evt \in Status /\ Within(task.evt.id, task.evt.size)
    BY <2>1 DEF SizeInv, TaskSizes
  <2>3. segs \in Lists
    <3>1. 0 \in Sizes
      BY BoundsAre
    <3>. QED
      BY <1>1, <3>1, ListKept
  <2>4. \A s \in DOMAIN segs : Within(s, segs[s])
    BY <1>1 DEF Remove, Restrict
  <2>. HIDE DEF segs
  <2>. QED
    BY <1>1, <2>1, <2>2, <2>3, <2>4, GenerateSizes
<1>. QED
  BY <1>2, <1>3, <1>4

(* The record task's event and its totals.                                 *)
LEMMA TaskSizesNext ==
  ASSUME Types, EventInv, SizeInv, Next
  PROVE  TaskSizes' /\ TaskTotals'
<1>. USE DEF recorder, disk, playback, player
<1>0. TaskIs /\ TaskSizes /\ TaskTotals /\ task.then \in {"idle", "next", "size", "discard"}
  BY DEF SizeInv, Types
<1>1. CASE RecWrite \/ Post \/ Unlink \/ Playback \/ (Take /\ Head(events).id # cur)
  <2>1. UNCHANGED <<task, final>>
    BY <1>1, StillSizes DEF Take
  <2>. QED
    BY <1>0, <2>1 DEF TaskSizes, TaskTotals, Within
<1>2. CASE (Take /\ Head(events).id = cur) \/ Refuse \/ Drop
  <2>1. /\ task'.pc = "update" /\ task'.total \in Totals /\ task'.actual = task.actual
        /\ TaskSizes'
    BY <1>2, GeneratesTrue
  <2>. QED
    BY <1>0, <2>1 DEF TaskTotals, Places
<1>3. CASE UpdatePlayback \/ UpdateNext \/ AddNext \/ RemovePlayback
  <2>1. PICK p \in Places : Goto(p)
    BY <1>0, <1>3 DEF UpdatePlayback, UpdateNext, AddNext, RemovePlayback, Places
  <2>2. task.pc # "idle" /\ final' = final
    BY <1>3 DEF UpdatePlayback, UpdateNext, AddNext, RemovePlayback
  <2>3. /\ task'.pc = p /\ task'.evt = task.evt
        /\ task'.total = task.total /\ task'.actual = task.actual
    BY <1>0, <2>1, GotoSizes
  <2>. QED
    BY <1>0, <2>2, <2>3 DEF TaskSizes, TaskTotals, Within
<1>4. CASE StartNext
  <2>1. Goto("updateNext") /\ task.pc = "next" /\ final' = [final EXCEPT ![cur] = rsize]
    BY <1>4 DEF StartNext
  <2>2. /\ task'.pc = "updateNext" /\ task'.evt = task.evt
        /\ task'.total = task.total /\ task'.actual = task.actual
    BY <1>0, <2>1, GotoSizes
  <2>3. task.evt \in Status /\ task.evt.id = cur /\ task.evt.size <= rsize
    BY <1>0, <2>1 DEF TaskSizes, EventInv, EventOfCur, Ending
  <2>4. final'[cur] = rsize
    BY <2>1, CurIsOpen DEF SizeInv, EventSizes
  <2>. QED
    BY <1>0, <2>2, <2>3, <2>4 DEF TaskSizes, TaskTotals, Within, Places
<1>5. CASE TimeLimit
  <2>1. task.pc # "idle" /\ final' = final
    BY <1>5 DEF TimeLimit
  <2>2. /\ task'.evt = task.evt /\ task'.total = task.total /\ task'.actual = task.actual
        /\ task'.pc \in {"remove", "size"}
    BY <1>0, <1>5 DEF TimeLimit, TaskIs
  <2>. QED
    BY <1>0, <2>1, <2>2 DEF TaskSizes, TaskTotals, Within, Places
<1>6. CASE SizeLimit /\ task.total >= MaxSize
  <2>. DEFINE p == IF Several THEN "remove" ELSE "discard"
  <2>1. /\ task' = [task EXCEPT !.pc = p, !.then = "discard", !.actual = task.total]
        /\ task.pc # "idle" /\ final' = final
    BY <1>6 DEF SizeLimit
  <2>2. p \in Places
    BY DEF Places
  <2>. HIDE DEF p
  <2>3. /\ task'.evt = task.evt /\ task'.total = task.total /\ task'.actual = task.total
        /\ task'.pc = p
    BY <1>0, <2>1 DEF TaskIs
  <2>. QED
    BY <1>0, <2>1, <2>2, <2>3 DEF TaskSizes, TaskTotals, Within
<1>7. CASE (SizeLimit /\ ~ (task.total >= MaxSize)) \/ Overflow
  <2>1. task' = Idle
    BY <1>7 DEF SizeLimit, Overflow
  <2>2. 0 \in Totals
    <3>1. {} \in SUBSET Ids
      OBVIOUS
    <3>2. SumFunctionOnSet(final, {}) = 0
      BY FS_EmptySet, SumStep
    <3>. QED
      BY <3>1, <3>2, SumOfIds
  <2>. QED
    BY <2>1, <2>2 DEF Idle, TaskSizes, TaskTotals, Places
<1>. QED
  BY <1>1, <1>2, <1>3, <1>4, <1>5, <1>6, <1>7 DEF Next, RecordTask

(* The list of the recording.                                              *)
LEMMA RecordListNext ==
  ASSUME Types, EventInv, SizeInv, Next
  PROVE  RecordList'
<1>. USE DEF recorder, disk, playback, player
<1>0. rsegs \in Lists /\ \A s \in DOMAIN rsegs : Within(s, rsegs[s])
  BY DEF SizeInv, RecordList
<1>1. CASE \/ RecWrite \/ Post \/ Unlink \/ Playback \/ (Take /\ Head(events).id # cur)
           \/ UpdatePlayback \/ AddNext \/ TimeLimit \/ SizeLimit \/ Overflow
           \/ RemovePlayback
  <2>1. UNCHANGED <<rsegs, final>>
    BY <1>1, StillSizes
    DEF Take, UpdatePlayback, AddNext, TimeLimit, SizeLimit, Overflow, RemovePlayback
  <2>. QED
    BY <1>0, <2>1 DEF RecordList, Within
<1>2. CASE (Take /\ Head(events).id = cur) \/ Refuse \/ Drop
  BY <1>2, GeneratesTrue
<1>3. CASE StartNext
  <2>1. final' = [final EXCEPT ![cur] = rsize] /\ rsegs' = Update(rsegs, cur, rsize)
    BY <1>3 DEF StartNext
  <2>2. rsegs' \in Lists
    BY <1>0, <2>1, ListKept DEF SizeInv, EventSizes
  <2>3. ASSUME NEW s \in DOMAIN rsegs
        PROVE  final'[s] # None => rsegs'[s] <= final'[s]
    <3>1. s \in Ids
      BY <1>0, ListIs
    <3>2. CASE s = cur
      <4>1. rsegs'[s] = rsize /\ final'[s] = rsize /\ rsize \in Nat
        BY <2>1, <3>1, <3>2 DEF Update, Types
      <4>. QED
        BY <4>1
    <3>3. CASE s # cur
      <4>1. rsegs'[s] = rsegs[s] /\ final'[s] = final[s]
        BY <2>1, <3>1, <3>3 DEF Update, Types
      <4>. QED
        BY <1>0, <4>1 DEF Within
    <3>. QED
      BY <3>2, <3>3
  <2>4. DOMAIN rsegs' = DOMAIN rsegs
    BY <2>1 DEF Update
  <2>. QED
    BY <2>2, <2>3, <2>4 DEF RecordList, Within
<1>4. CASE UpdateNext
  <2>1. rsegs' = Add(rsegs, cur, 0) /\ final' = final
    BY <1>4 DEF UpdateNext
  <2>2. 0 \in Sizes
    BY BoundsAre
  <2>3. rsegs' \in Lists
    BY <1>0, <2>1, <2>2, ListKept, CurIsOpen
  <2>. QED
    BY <1>0, <2>1, <2>3, CurIsOpen DEF RecordList, Within, Add
<1>. QED
  BY <1>1, <1>2, <1>3, <1>4 DEF Next, RecordTask

(* The list of the playback.                                               *)
LEMMA PlaybackListNext ==
  ASSUME Types, EventInv, ListInv, SizeInv, Next
  PROVE  PlaybackList'
<1>. USE DEF recorder, disk, playback, player
<1>0. psegs \in Lists /\ 0 \in Sizes /\ cur \in Ids /\ cur \in Nat
  BY BoundsAre, CurIsOpen DEF SizeInv, PlaybackList
<1>1. CASE UpdatePlayback
  <2>1. psegs' = Update(psegs, task.evt.id, task.evt.size) /\ task.pc = "update"
    BY <1>1 DEF UpdatePlayback
  <2>2. task.evt.size \in Sizes
    BY <2>1 DEF SizeInv, TaskSizes, Status
  <2>. QED
    BY <1>0, <2>1, <2>2, ListKept DEF PlaybackList
<1>2. CASE UpdateNext
  <2>1. psegs' = Update(psegs, cur - 1, final[cur - 1]) /\ task.pc = "updateNext"
    BY <1>2 DEF UpdateNext
  <2>2. cur - 1 \in Ids /\ cur - 1 < cur
    <3>1. cur - 1 >= 0
      BY <1>0, <2>1 DEF ListInv, Unbroken, Newest
    <3>. QED
      BY <1>0, <3>1, BoundsAre DEF Ids
  <2>3. final[cur - 1] # None /\ final[cur - 1] \in Sizes
    BY <2>2 DEF EventInv, EndedFull, SizeInv, EventSizes
  <2>. QED
    BY <1>0, <2>1, <2>3, ListKept DEF PlaybackList
<1>3. CASE AddNext
  BY <1>0, <1>3, ListKept DEF AddNext, PlaybackList
<1>4. CASE RemovePlayback
  <2>1. psegs' = psegs \/ psegs' = Remove(psegs, Oldest)
    BY <1>4 DEF RemovePlayback
  <2>. QED
    BY <1>0, <2>1, ListKept DEF PlaybackList
<1>5. CASE StartPlayback
  <2>. DEFINE top == Max(Loaded)
  <2>1. PICK size \in Stored(top) :
          psegs' = [s \in Loaded |-> IF s = top THEN size ELSE final[s]]
    BY <1>5 DEF StartPlayback
  <2>2. Loaded # {} /\ Loaded \subseteq files /\ files \subseteq Ids /\ task.pc = "idle"
    BY <1>5 DEF StartPlayback, Loaded, Types
  <2>3. top \in Loaded /\ \A s \in Loaded : s <= top
    BY <2>2, MaxOf
  <2>. HIDE DEF top
  <2>4. size \in Sizes
    <3>1. top \in Ids
      BY <2>2, <2>3
    <3>2. final[top] \in Sizes \cup {None} /\ rsize \in Sizes
      BY <3>1 DEF SizeInv, EventSizes
    <3>3. CASE final[top] # None
      BY <2>1, <3>2, <3>3 DEF Stored
    <3>4. CASE final[top] = None
      BY <2>1, <3>2, <3>4, BoundsAre DEF Stored
    <3>. QED
      BY <3>3, <3>4
  <2>5. ASSUME NEW s \in Loaded, s # top PROVE final[s] \in Sizes
    <3>1. s \in Nat /\ s \in Ids /\ top \in Nat /\ s < top
      BY <2>2, <2>3, <2>5, IdsAre
    <3>2. top <= cur
      BY <1>0, <2>2, <2>3 DEF ListInv, DiskIsList
    <3>3. s < cur
      BY <1>0, <3>1, <3>2
    <3>4. final[s] # None
      BY <3>1, <3>3 DEF EventInv, EndedFull
    <3>. QED
      BY <3>1, <3>4 DEF SizeInv, EventSizes
  <2>6. psegs' \in [Loaded -> Sizes]
    BY <2>1, <2>4, <2>5
  <2>. QED
    BY <2>2, <2>6 DEF PlaybackList, Lists
<1>6. CASE StopPlayback
  <2>1. psegs' \in [{} -> Sizes]
    BY <1>6 DEF StopPlayback
  <2>2. {} \in SUBSET Ids
    OBVIOUS
  <2>. QED
    BY <2>1, <2>2 DEF PlaybackList, Lists
<1>7. CASE \/ RecWrite \/ Post \/ Take \/ StartNext \/ TimeLimit \/ SizeLimit \/ Overflow
           \/ Refuse \/ Drop \/ Unlink \/ Seek \/ SetSpeed \/ PlayerMoves
           \/ PlayerPosts \/ TakePlayback
  <2>1. psegs' = psegs
    BY <1>7
    DEF RecWrite, Post, Take, StartNext, TimeLimit, SizeLimit, Overflow, Refuse, Drop,
        Unlink, Seek, SetSpeed, PlayerMoves, PlayerPosts, TakePlayback
  <2>. QED
    BY <1>0, <2>1 DEF PlaybackList
<1>. QED
  BY <1>1, <1>2, <1>3, <1>4, <1>5, <1>6, <1>7 DEF Next, RecordTask, Playback

(* What is counted as obsolete was removed.                                *)
LEMMA ObsoleteNext ==
  ASSUME Types, EventInv, ListInv, SizeInv, Next
  PROVE  ObsoleteInv'
<1>. USE DEF recorder, disk, playback, player
<1>0. /\ obsolete \in Nat /\ obsolete <= SumFunctionOnSet(final, Removed)
      /\ final \in [Ids -> Nat \cup {None}] /\ cur \in Ids /\ cur \in Nat
      /\ final[cur] = None
  BY CurIsOpen DEF SizeInv, ObsoleteInv, Types
<1>10. IsFiniteSet(Removed) /\ Removed \subseteq Ids /\ \A s \in Removed : final[s] \in Nat
  <2>1. Removed \subseteq Ids
    BY DEF Removed
  <2>2. IsFiniteSet(Removed)
    BY <2>1, BoundsAre, FS_Subset
  <2>. QED
    BY <1>0, <2>1, <2>2 DEF Removed
<1>1. CASE \/ RecWrite \/ Post \/ Unlink \/ Playback \/ Take \/ UpdatePlayback \/ AddNext
           \/ TimeLimit \/ SizeLimit \/ Overflow \/ Refuse \/ RemovePlayback
  <2>1. UNCHANGED <<final, obsolete>> /\ DOMAIN rsegs' = DOMAIN rsegs
    BY <1>1, StillSizes
    DEF Take, Generate, Update, UpdatePlayback, AddNext, TimeLimit, SizeLimit, Overflow,
        Refuse, RemovePlayback
  <2>2. Removed' = Removed
    BY <2>1 DEF Removed
  <2>. QED
    BY <1>0, <2>1, <2>2 DEF ObsoleteInv
<1>2. CASE StartNext
  <2>1. /\ final' = [final EXCEPT ![cur] = rsize] /\ obsolete' = obsolete
        /\ DOMAIN rsegs' = DOMAIN rsegs /\ task.pc = "next"
    BY <1>2 DEF StartNext, Update
  <2>2. cur \in DOMAIN rsegs
    BY <1>0, <2>1 DEF ListInv, Unbroken, Newest
  <2>3. \A s \in Ids : s # cur => final'[s] = final[s]
    BY <1>0, <2>1
  <2>4. Removed' = Removed /\ \A s \in Removed : final[s] = final'[s]
    BY <2>1, <2>2, <2>3 DEF Removed
  <2>5. SumFunctionOnSet(final, Removed) = SumFunctionOnSet(final', Removed)
    BY <1>10, <2>4, SumSame
  <2>. QED
    BY <1>0, <2>1, <2>4, <2>5 DEF ObsoleteInv
<1>3. CASE UpdateNext
  <2>1. UNCHANGED <<final, obsolete>> /\ DOMAIN rsegs' = DOMAIN rsegs \cup {cur}
    BY <1>3 DEF UpdateNext, Add
  <2>2. Removed' = Removed
    BY <1>0, <2>1 DEF Removed
  <2>. QED
    BY <1>0, <2>1, <2>2 DEF ObsoleteInv
<1>4. CASE Drop
  <2>. DEFINE lo == Oldest
              segs == Remove(rsegs, lo)
  <2>1. /\ task.pc = "drop" /\ obsolete' = obsolete + rsegs[lo] /\ final' = final
        /\ Generate(segs, task.evt, task.then)
    BY <1>4 DEF Drop
  <2>2. lo \in Nat /\ lo < cur /\ lo \in DOMAIN rsegs
    BY <1>0, <2>1 DEF ListInv, Unbroken, NewestStays, Newest
  <2>. HIDE DEF lo
  <2>3. DOMAIN rsegs' = DOMAIN rsegs \ {lo}
    BY <2>1 DEF Generate, Update, Remove, Restrict
  <2>4. lo \in Ids /\ final[lo] # None /\ final[lo] \in Nat
    <3>1. lo \in Ids
      BY <2>2, ListIs DEF SizeInv, RecordList
    <3>. QED
      BY <1>0, <2>2, <3>1 DEF EventInv, EndedFull
  <2>5. rsegs[lo] \in Nat /\ rsegs[lo] <= final[lo]
    <3>1. rsegs[lo] \in Sizes /\ Within(lo, rsegs[lo])
      BY <2>2, ListIs DEF SizeInv, RecordList
    <3>. QED
      BY <2>4, <3>1, BoundsAre DEF Within
  <2>6. Removed' = Removed \cup {lo} /\ lo \notin Removed
    BY <2>1, <2>2, <2>3, <2>4 DEF Removed
  <2>7. Removed' \ {lo} = Removed
    BY <2>6
  <2>8. SumFunctionOnSet(final, Removed') = final[lo] + SumFunctionOnSet(final, Removed)
    <3>1. IsFiniteSet(Removed')
      BY <1>10, <2>6, FS_AddElement
    <3>2. lo \in Removed' /\ \A s \in Removed' : final[s] \in Nat
      BY <1>10, <2>4, <2>6
    <3>3. SumFunctionOnSet(final, Removed') = final[lo] + SumFunctionOnSet(final, Removed' \ {lo})
      BY <3>1, <3>2, SumTakes
    <3>. QED
      BY <2>7, <3>3
  <2>9. SumFunctionOnSet(final, Removed) \in Nat
    BY <1>10, SumIsNat
  <2>. QED
    BY <1>0, <2>1, <2>4, <2>5, <2>8, <2>9 DEF ObsoleteInv
<1>. QED
  BY <1>1, <1>2, <1>3, <1>4 DEF Next, RecordTask

(* The rest.                                                               *)
LEMMA OthersNext ==
  ASSUME Types, SizeInv, Next
  PROVE  Others'
<1>. USE DEF recorder, disk, playback, player
<1>0. Others /\ MaxCall \in Nat /\ at \in Ids \cup {None}
  BY BoundAssumption DEF SizeInv, Types
<1>1. discard' \in BOOLEAN \/ discard' = discard
  <2>1. CASE SizeLimit \/ Overflow
    BY <1>0, <2>1 DEF SizeLimit, Overflow, Others
  <2>2. CASE \/ RecWrite \/ Post \/ Take \/ UpdatePlayback \/ StartNext \/ UpdateNext
             \/ AddNext \/ TimeLimit \/ Refuse \/ RemovePlayback \/ Drop \/ Unlink
    BY <2>2
    DEF RecWrite, Post, Take, UpdatePlayback, StartNext, UpdateNext, AddNext, TimeLimit,
        Refuse, RemovePlayback, Drop, Unlink
  <2>3. CASE Playback
    BY <2>3 DEF Playback, StartPlayback, StopPlayback, Seek, SetSpeed, PlayerMoves,
                PlayerPosts, TakePlayback
  <2>. QED
    BY <2>1, <2>2, <2>3 DEF Next, RecordTask
<1>2. discard' \in BOOLEAN
  BY <1>0, <1>1 DEF Others
<1>3. full' \in BOOLEAN
  <2>1. CASE Refuse \/ RemovePlayback
    BY <2>1 DEF Refuse, RemovePlayback
  <2>2. CASE Playback
    BY <1>0, <2>2
    DEF Playback, StartPlayback, StopPlayback, Seek, SetSpeed, PlayerMoves, PlayerPosts,
        TakePlayback, Others
  <2>3. CASE \/ RecWrite \/ Post \/ Take \/ UpdatePlayback \/ StartNext \/ UpdateNext
             \/ AddNext \/ TimeLimit \/ SizeLimit \/ Overflow \/ Drop \/ Unlink
    BY <1>0, <2>3
    DEF RecWrite, Post, Take, UpdatePlayback, StartNext, UpdateNext, AddNext, TimeLimit,
        SizeLimit, Overflow, Drop, Unlink, Others
  <2>. QED
    BY <2>1, <2>2, <2>3 DEF Next, RecordTask
<1>4. CASE ~ Playback
  <2>1. UNCHANGED <<normal, clean, pcurrent, pevents, calls>>
    BY <1>4
    DEF Next, RecordTask, RecWrite, Post, Take, UpdatePlayback, StartNext, UpdateNext,
        AddNext, TimeLimit, SizeLimit, Overflow, Refuse, RemovePlayback, Drop, Unlink
  <2>. QED
    BY <1>0, <1>2, <1>3, <2>1 DEF Others
<1>5. CASE Playback
  <2>1. calls' \in 0 .. MaxCall
    BY <1>0, <1>5
    DEF Playback, StartPlayback, StopPlayback, Seek, SetSpeed, Called, PlayerMoves,
        PlayerPosts, TakePlayback, Others
  <2>2. pevents' \in Seq(Ids) /\ pcurrent' \in Ids
    <3>1. CASE PlayerPosts
      BY <1>0, <3>1 DEF PlayerPosts, Others
    <3>2. CASE TakePlayback
      BY <1>0, <3>2 DEF TakePlayback, Others
    <3>3. CASE StartPlayback \/ StopPlayback \/ Seek \/ SetSpeed \/ PlayerMoves
      BY <1>0, <3>3 DEF StartPlayback, StopPlayback, Seek, SetSpeed, PlayerMoves, Others
    <3>. QED
      BY <1>5, <3>1, <3>2, <3>3 DEF Playback
  <2>3. normal' \in BOOLEAN /\ clean' \in BOOLEAN
    <3>1. CASE StartPlayback
      BY <3>1 DEF StartPlayback
    <3>2. CASE SetSpeed
      BY <1>0, <3>2 DEF SetSpeed, Others
    <3>3. CASE StopPlayback \/ Seek \/ PlayerMoves \/ PlayerPosts \/ TakePlayback
      BY <1>0, <3>3 DEF StopPlayback, Seek, PlayerMoves, PlayerPosts, TakePlayback, Others
    <3>. QED
      BY <1>5, <3>1, <3>2, <3>3 DEF Playback
  <2>. QED
    BY <1>2, <1>3, <2>1, <2>2, <2>3 DEF Others
<1>. QED
  BY <1>4, <1>5

(* A recording that has just been started has sizes that are true.         *)
LEMMA SizeInit == Init => SizeInv
<1>. SUFFICES ASSUME Init PROVE SizeInv
  OBVIOUS
<1>. USE DEF Init
<1>1. 0 \in Sizes /\ 0 \in Ids /\ MaxCall \in Nat /\ None \notin Nat
  BY BoundsAre, BoundAssumption DEF Ids, None
<1>2. EventSizes
  BY <1>1 DEF EventSizes
<1>3. TaskSizes
  BY DEF TaskSizes, Idle
<1>4. RecordList
  <2>1. rsegs \in [{0} -> Sizes]
    BY <1>1
  <2>. QED
    BY <1>1, <2>1 DEF RecordList, Lists, Within
<1>5. PlaybackList
  <2>1. psegs \in [{} -> Sizes] /\ {} \in SUBSET Ids
    OBVIOUS
  <2>. QED
    BY <2>1 DEF PlaybackList, Lists
<1>6. TaskTotals
  <2>1. {} \in SUBSET Ids /\ SumFunctionOnSet(final, {}) = 0
    BY FS_EmptySet, SumStep
  <2>2. 0 \in Totals
    BY <2>1, SumOfIds
  <2>. QED
    BY <2>2 DEF TaskTotals, Idle, Places
<1>7. ObsoleteInv
  <2>1. Removed = {}
    BY DEF Removed
  <2>2. SumFunctionOnSet(final, Removed) = 0
    BY <2>1, FS_EmptySet, SumStep
  <2>. QED
    BY <2>2 DEF ObsoleteInv
<1>8. Others
  BY <1>1 DEF Others
<1>. QED
  BY <1>2, <1>3, <1>4, <1>5, <1>6, <1>7, <1>8 DEF SizeInv

(* Every step keeps them true.                                             *)
LEMMA SizeNext == IInv /\ SizeInv /\ [Next]_vars => SizeInv'
<1>. SUFFICES ASSUME IInv, SizeInv, [Next]_vars PROVE SizeInv'
  OBVIOUS
<1>1. CASE Next
  BY <1>1, EventSizesNext, TaskSizesNext, RecordListNext, PlaybackListNext, ObsoleteNext,
     OthersNext DEF IInv, SizeInv
<1>2. CASE UNCHANGED vars
  <2>1. UNCHANGED <<rsegs, obsolete, task, events, rsize, discard, final, psegs, pcurrent,
                    normal, full, clean, pevents, calls>>
    BY <1>2 DEF vars, recorder, disk, playback, player
  <2>2. Removed' = Removed
    BY <2>1 DEF Removed
  <2>3. EventSizes' /\ TaskSizes' /\ RecordList'
    BY <2>1 DEF SizeInv, EventSizes, TaskSizes, RecordList, Within
  <2>4. PlaybackList' /\ TaskTotals' /\ ObsoleteInv' /\ Others'
    BY <2>1, <2>2 DEF SizeInv, PlaybackList, TaskTotals, ObsoleteInv, Others
  <2>. QED
    BY <2>3, <2>4 DEF SizeInv
<1>. QED
  BY <1>1, <1>2

(* No more is counted than all segments can have.                          *)
LEMMA SizesTyped == IInv /\ SizeInv => TypeOK /\ ObsoleteIsRemoved
<1>. SUFFICES ASSUME IInv, SizeInv PROVE TypeOK /\ ObsoleteIsRemoved
  OBVIOUS
<1>1. ObsoleteIsRemoved
  BY DEF SizeInv, ObsoleteInv, ObsoleteIsRemoved
<1>2. obsolete \in Totals
  <2>1. Removed \in SUBSET Ids
    BY DEF Removed
  <2>2. \A s \in Removed : final[s] \in Sizes
    BY DEF Removed, SizeInv, EventSizes
  <2>3. SumFunctionOnSet(final, Removed) \in Totals
    BY <2>1, <2>2, SumOfIds
  <2>4. Totals = 0 .. MaxSegment * Largest
    BY DEF Totals, Largest
  <2>5. MaxSegment * Largest \in Nat
    BY BoundsAre
  <2>. QED
    BY <2>3, <2>4, <2>5 DEF SizeInv, ObsoleteInv
<1>3. task \in [pc : Places, evt : Status \cup {NoEvent}, total : Totals,
                actual : Totals, then : Places]
  <2>1. task.then \in Places
    BY DEF IInv, Types, Places
  <2>. QED
    BY <2>1 DEF IInv, Types, TaskIs, SizeInv, TaskSizes, TaskTotals
<1>4. dying \subseteq Ids
  BY DEF IInv, Types, ListInv, DiskIsList
<1>5. /\ rsegs \in Lists /\ psegs \in Lists /\ events \in Seq(Status) /\ rsize \in Sizes
      /\ final \in [Ids -> Sizes \cup {None}]
  BY DEF SizeInv, EventSizes, RecordList, PlaybackList
<1>6. /\ pevents \in Seq(Ids) /\ pcurrent \in Ids /\ calls \in 0 .. MaxCall
      /\ {discard, normal, full, clean} \subseteq BOOLEAN
  BY DEF SizeInv, Others
<1>7. cur \in Ids /\ files \subseteq Ids /\ at \in Ids \cup {None} /\ playlist \subseteq Ids
  BY DEF IInv, Types
<1>. QED
  BY <1>1, <1>2, <1>3, <1>4, <1>5, <1>6, <1>7 DEF TypeOK

(* The lists say what is on disk, the player has what the wrapper believes *)
(* it has, and never more is reported as obsolete than was removed,        *)
(* whatever the events, the limits and the playback do                     *)
(* (dvr_wrapper.c:168, 922, 2743, 2807).                                   *)
THEOREM TimeshiftCorrect == Spec => []TimeshiftInv
<1>1. IInv /\ SizeInv => TimeshiftInv
  <2>1. IInv => ListIsOnDisk /\ PlayerHasList
    BY DEF IInv, ListInv, Unbroken, DiskIsList, Newest, ListIsOnDisk, PlayInv
  <2>. QED
    BY <2>1, SizesTyped DEF TimeshiftInv
<1>. QED
  BY <1>1, IInvInit, IInvNext, SizeInit, SizeNext, PTL DEF Spec

===============================================================================
