------------------------ MODULE WrapperPlaybackProofs ------------------------
(***************************************************************************)
(* Proofs about WrapperPlayback for any number of segments, events and     *)
(* calls: the list of a playback that follows a recording stays whole, its *)
(* durations are final where they should be, a playback in pause stays so, *)
(* and a seek lands where it was asked to, inside the data of a segment.   *)
(***************************************************************************)
EXTENDS WrapperPlayback, FiniteSetTheorems, WellFoundedInduction, TLAPS

States == {"STOP", "START", "PAUSE"}
TaskPlaces == {"idle", "update", "next", "final", "add", "link"}
Starting == {"record", "lock", "load", "seek", "go"}
AppPlaces == {"idle", "stop", "last"} \cup Starting
Segments == [id : Nat, dur : Nat]

(* What the variables hold; the places of the player and the status noted  *)
(* are any, for most proofs do not look at them; see PlayerInside.         *)
DataShape ==
  /\ mode \in {"timeshift", "recording", "plain"}
  /\ dur \in [Ids -> Nat] /\ cur \in Ids /\ linked \in Nat /\ running \in BOOLEAN
  /\ list \in Seq(Segments)
TaskShape == task \in [pc : TaskPlaces, dur : Nat]
NoteShape ==
  note \in [last : {note.last}, state : {note.state}, seg : {note.seg},
            pos : {note.pos}, speed : {0, 1}]
PlayerShape ==
  player \in [state : States, seg : {player.seg}, pos : {player.pos}, pc : {player.pc},
              seekPause : {player.seekPause}, live : {player.live}]
AppShape == app \in [pc : AppPlaces, rec : BOOLEAN, play : BOOLEAN, live : BOOLEAN]
PastShape ==
  past \in [held : {"no", "yes", "loose"}, masked : {past.masked}, missed : BOOLEAN]

Shape == DataShape /\ TaskShape /\ NoteShape /\ PlayerShape /\ AppShape /\ PastShape

(* What is in pause has speed 0 noted, by which the end of data is not     *)
(* taken for its reason; a player that is being started does not run yet.  *)
HeldInv ==
  /\ past.held = "yes" => note.speed = 0
  /\ app.pc \in Starting => player.state = "STOP"

(* Who holds the record context: a start that follows a timeshift keeps    *)
(* the record task out until it has loaded the list.                       *)
LocksInv ==
  /\ app.rec => task.pc = "idle"
  /\ app.pc \in {"lock", "load"} /\ mode = "timeshift" => app.rec
  /\ app.rec => app.pc = "last" \/ mode # "recording"
  /\ app.pc = "record" => mode # "recording"
  /\ app.pc = "idle" => ~app.play
  /\ app.pc = "idle" /\ mode # "plain" => ~app.rec

(* The list file is a segment behind while the record task changes over.   *)
LinkInv ==
  /\ task.pc = "next" => cur < MaxSegment - 1
  /\ task.pc \in {"final", "add", "link"} => cur > 0
  /\ mode = "recording" =>
       linked = IF task.pc \in {"final", "add", "link"} THEN cur - 1 ELSE cur

(* The list has the segments 0, 1, ... up to the current one, or, before   *)
(* the record task adds that, up to the one before.                        *)
Whole ==
  Follows /\ list # <<>> /\ ~past.missed =>
    /\ Len(list) = IF task.pc \in {"final", "add"} THEN cur ELSE cur + 1
    /\ \A i \in DOMAIN list : list[i].id = i - 1

(* The durations of the segments before the current one are final, but for *)
(* the one the record task has just left.                                  *)
FinalTill == IF task.pc = "final" THEN cur - 1 ELSE cur
Final ==
  Follows => \A i \in DOMAIN list : list[i].id < FinalTill => list[i].dur = dur[list[i].id]

IInv == Shape /\ HeldInv /\ LocksInv /\ LinkInv /\ Whole /\ Final


(***************************************************************************)
(* What the actions share.                                                 *)
(***************************************************************************)

(* The bounds are positive, and the segments are numbers.                  *)
LEMMA Numbers == MaxSegment \in Nat \ {0} /\ MaxDur \in Nat \ {0} /\ Ids \subseteq Nat /\ 0 \in Ids
BY FollowAssumption DEF Ids

(* What a list of segments is, entry by entry.                             *)
LEMMA Lines ==
  ASSUME NEW l \in Seq(Segments)
  PROVE  /\ Len(l) \in Nat /\ DOMAIN l = 1 .. Len(l)
         /\ \A i \in DOMAIN l : l[i].id \in Nat /\ l[i].dur \in Nat
<1>1. Len(l) \in Nat /\ DOMAIN l = 1 .. Len(l)
  OBVIOUS
<1>2. \A i \in DOMAIN l : l[i] \in Segments
  BY <1>1
<1>. QED
  BY <1>1, <1>2 DEF Segments

(* So for the list of the playback.                                       *)
LEMMA ListLines ==
  ASSUME list \in Seq(Segments)
  PROVE  /\ Len(list) \in Nat /\ DOMAIN list = 1 .. Len(list)
         /\ \A i \in DOMAIN list : list[i].id \in Nat /\ list[i].dur \in Nat
BY Lines

(* wrapper_updatePlaybackSegment leaves the ids of the list alone, and a   *)
(* playback of speed 0.                                                    *)
LEMMA UpdateKeeps ==
  ASSUME Shape, NEW s \in Nat, NEW d \in Nat, UpdatePlayback(s, d)
  PROVE  /\ list' \in Seq(Segments) /\ DOMAIN list' = DOMAIN list /\ Len(list') = Len(list)
         /\ \A i \in DOMAIN list :
              /\ list'[i].id = list[i].id
              /\ list[i].id # s => list'[i].dur = list[i].dur
              /\ Follows /\ list[i].id = s => list'[i].dur = d
<1>1. list \in Seq(Segments)
  BY DEF Shape, DataShape
<1>2. CASE Follows /\ list # <<>>
  <2>1. list' = Updated(s, d)
    BY <1>2 DEF UpdatePlayback
  <2>2. Len(list) \in Nat /\ DOMAIN list = 1 .. Len(list)
    BY <1>1, ListLines
  <2>3. ASSUME NEW i \in DOMAIN list
        PROVE  /\ list'[i] \in Segments /\ list'[i].id = list[i].id
               /\ list[i].id # s => list'[i].dur = list[i].dur
               /\ list[i].id = s => list'[i].dur = d
    <3>1. list[i] \in Segments
      BY <1>1
    <3>2. list'[i] = IF list[i].id = s THEN [list[i] EXCEPT !.dur = d] ELSE list[i]
      BY <2>1, <2>3 DEF Updated
    <3>. QED
      BY <3>1, <3>2 DEF Segments
  <2>4. list' = [i \in 1 .. Len(list) |-> list'[i]]
    BY <2>1, <2>2 DEF Updated
  <2>5. list' \in Seq(Segments) /\ Len(list') = Len(list)
    BY <2>2, <2>3, <2>4
  <2>6. DOMAIN list' = DOMAIN list
    BY <2>1 DEF Updated
  <2>. QED
    BY <2>3, <2>5, <2>6
<1>3. CASE ~(Follows /\ list # <<>>)
  <2>1. list' = list
    BY <1>3 DEF UpdatePlayback
  <2>2. Follows => DOMAIN list = {}
    BY <1>3
  <2>. QED
    BY <1>1, <2>1, <2>2
<1>. QED
  BY <1>2, <1>3

(* ... nor does it touch the speed noted, or a player that is stopped.     *)
LEMMA UpdateRecords ==
  ASSUME Shape, NEW s, NEW d, UpdatePlayback(s, d)
  PROVE  /\ note' \in [last : {note'.last}, state : {note'.state}, seg : {note'.seg},
                       pos : {note'.pos}, speed : {0, 1}]
         /\ note'.speed = note.speed
         /\ player' \in [state : States, seg : {player'.seg}, pos : {player'.pos},
                         pc : {player'.pc}, seekPause : {player'.seekPause},
                         live : {player'.live}]
         /\ player.state = "STOP" => player'.state = "STOP"
         /\ note.speed = 0 => player' = player
<1>1. note' = note \/ note' = [note EXCEPT !.last = "OK"]
  BY DEF UpdatePlayback
<1>2. player' = player \/ player' = Going(player)
  BY DEF UpdatePlayback
<1>3. note.speed = 0 => player' = player
  BY DEF UpdatePlayback, MoreData
<1>. QED
  BY <1>1, <1>2, <1>3 DEF Shape, NoteShape, PlayerShape, Going, States


(* Loaded is 0 .. n for an n that is no later than the current segment.    *)
LEMMA LoadedTill ==
  ASSUME Shape, LinkInv
  PROVE  \E n \in Nat : /\ n <= cur /\ n \in Ids /\ Loaded = 0 .. n
                        /\ n = CASE mode = "timeshift" -> cur
                                 [] mode = "recording" -> linked
                                 [] mode = "plain"     -> 0
<1>. DEFINE n == CASE mode = "timeshift" -> cur
                   [] mode = "recording" -> linked
                   [] mode = "plain"     -> 0
<1>1. cur \in 0 .. MaxSegment - 1 /\ MaxSegment \in Nat /\ linked \in Nat
  BY Numbers DEF Shape, DataShape, Ids
<1>2. mode = "recording" => linked <= cur
  BY <1>1 DEF LinkInv
<1>3. n \in Nat /\ n <= cur /\ Loaded = 0 .. n
  <2>1. CASE mode = "timeshift"
    BY <1>1, <2>1 DEF Loaded
  <2>2. CASE mode = "recording"
    BY <1>1, <1>2, <2>2 DEF Loaded
  <2>3. CASE mode = "plain"
    <3>1. Loaded = {0} /\ n = 0
      BY <2>3 DEF Loaded
    <3>2. 0 .. 0 = {0}
      OBVIOUS
    <3>. HIDE DEF n
    <3>. QED
      BY <1>1, <3>1, <3>2
  <2>. QED
    BY <2>1, <2>2, <2>3 DEF Shape, DataShape
<1>. HIDE DEF n
<1>4. n \in Ids
  BY <1>1, <1>3 DEF Ids
<1>. QED
  BY <1>3, <1>4 DEF n

(* How many numbers 0 .. n are, and the greatest of them.                  *)
LEMMA Interval ==
  ASSUME NEW n \in Nat
  PROVE  Cardinality(0 .. n) = n + 1 /\ Max(0 .. n) = n
<1>1. Cardinality(0 .. n) = n + 1
  BY FS_Interval
<1>2. n \in 0 .. n /\ \A y \in 0 .. n : n >= y
  OBVIOUS
<1>3. \A x \in 0 .. n : (\A y \in 0 .. n : x >= y) => x = n
  BY <1>2
<1>. QED
  BY <1>1, <1>2, <1>3 DEF Max

(* The list a start loads: the segments 0 .. n with their durations, final *)
(* where the segment is not the one being recorded.                        *)
LEMMA LoadList ==
  ASSUME Shape, LinkInv, Load
  PROVE  /\ list' \in Seq(Segments) /\ Len(list') = Cardinality(Loaded)
         /\ DOMAIN list' = 1 .. Cardinality(Loaded)
         /\ \A i \in DOMAIN list' :
              /\ list'[i].id = i - 1
              /\ Follows /\ i - 1 # cur => list'[i].dur = dur[i - 1]
<1>1. PICK n \in Nat : n <= cur /\ n \in Ids /\ Loaded = 0 .. n
  BY LoadedTill
<1>2. Cardinality(Loaded) = n + 1 /\ Max(Loaded) = n
  BY <1>1, Interval
<1>3. PICK last \in Durations(Max(Loaded)) :
        list' = [i \in 1 .. Cardinality(Loaded) |->
                  [id |-> i - 1, dur |-> IF i = Cardinality(Loaded) THEN last ELSE Data(i - 1)]]
  BY DEF Load
<1>4. \A s \in Ids : Data(s) \in Nat /\ (Follows => Data(s) = dur[s])
  BY Numbers DEF Shape, DataShape, Data
<1>5. last \in Nat /\ (n # cur => last = Data(n))
  BY <1>1, <1>2, <1>3, <1>4 DEF Durations
<1>6. list' = [i \in 1 .. n + 1 |-> [id |-> i - 1, dur |-> IF i = n + 1 THEN last ELSE Data(i - 1)]]
  BY <1>2, <1>3
<1>7. DOMAIN list' = 1 .. n + 1
  BY <1>6
<1>8. ASSUME NEW i \in 1 .. n + 1
      PROVE  /\ list'[i].id = i - 1 /\ list'[i] \in Segments
             /\ Follows /\ i - 1 # cur => list'[i].dur = dur[i - 1]
  <2>1. list'[i] = [id |-> i - 1, dur |-> IF i = n + 1 THEN last ELSE Data(i - 1)]
    BY <1>6
  <2>2. i - 1 \in Nat /\ i - 1 <= n
    BY <1>1
  <2>3. i - 1 \in Ids
    BY <1>1, <2>2, Numbers DEF Ids
  <2>4. Data(i - 1) \in Nat /\ (Follows => Data(i - 1) = dur[i - 1])
    BY <1>4, <2>3
  <2>5. i = n + 1 => i - 1 = n
    BY <1>1
  <2>. QED
    BY <1>5, <2>1, <2>2, <2>4, <2>5 DEF Segments
<1>9. list' \in Seq(Segments) /\ Len(list') = n + 1
  <2>1. list' \in [1 .. n + 1 -> Segments]
    BY <1>6, <1>8
  <2>. QED
    BY <1>1, <2>1
<1>. QED
  BY <1>2, <1>7, <1>8, <1>9


(* Every step keeps what the variables hold: of the recording, ...         *)
LEMMA DataNext ==
  ASSUME Shape, LinkInv, Next
  PROVE  DataShape'
<1>1. CASE UNCHANGED <<cur, dur, linked, list, mode, running>>
  BY <1>1 DEF Shape, DataShape
<1>2. CASE Record
  <2>1. dur' = [dur EXCEPT ![cur] = @ + 1]
    BY <1>2 DEF Record
  <2>2. dur' \in [Ids -> Nat]
    BY <2>1 DEF Shape, DataShape
  <2>. QED
    BY <1>2, <2>2 DEF Record, Shape, DataShape
<1>3. CASE TaskUpdate
  <2>1. cur \in Nat /\ task.dur \in Nat
    BY <1>3, Numbers DEF TaskUpdate, Shape, DataShape, TaskShape, LinkInv, Ids
  <2>2. UpdatePlayback(cur, task.dur)
    BY <1>3 DEF TaskUpdate
  <2>3. list' \in Seq(Segments)
    BY <2>1, <2>2, UpdateKeeps
  <2>. QED
    BY <1>3, <2>3 DEF TaskUpdate, Shape, DataShape, recording
<1>4. CASE TaskNext
  <2>1. cur' \in Ids
    BY <1>4, FollowAssumption DEF TaskNext, Shape, DataShape, LinkInv, Ids
  <2>. QED
    BY <1>4, <2>1 DEF TaskNext, Shape, DataShape
<1>5. CASE TaskFinal
  <2>1. cur - 1 \in Nat /\ dur[cur - 1] \in Nat
    BY <1>5, Numbers DEF TaskFinal, Shape, DataShape, TaskShape, LinkInv, Ids
  <2>2. UpdatePlayback(cur - 1, dur[cur - 1])
    BY <1>5 DEF TaskFinal
  <2>3. list' \in Seq(Segments)
    BY <2>1, <2>2, UpdateKeeps
  <2>. QED
    BY <1>5, <2>3 DEF TaskFinal, Shape, DataShape, recording
<1>6. CASE TaskAdd
  <2>1. [id |-> cur, dur |-> 0] \in Segments
    BY Numbers DEF Shape, DataShape, Segments
  <2>2. list' \in Seq(Segments)
    BY <1>6, <2>1 DEF TaskAdd, Shape, DataShape
  <2>. QED
    BY <1>6, <2>2 DEF TaskAdd, Shape, DataShape
<1>7. CASE TaskLink
  <2>1. cur \in Nat
    BY Numbers DEF Shape, DataShape
  <2>. QED
    BY <1>7, <2>1 DEF TaskLink, Shape, DataShape
<1>8. CASE Load
  <2>1. list' \in Seq(Segments)
    BY <1>8, LoadList
  <2>. QED
    BY <1>8, <2>1 DEF Load, recording, Shape, DataShape
<1>9. CASE StopSegment
  BY <1>9 DEF StopSegment, RecFree, Shape, DataShape, recording
<1>10. CASE StopUpdate
  <2>1. cur \in Nat /\ dur[cur] \in Nat
    BY <1>10, Numbers DEF StopUpdate, Shape, DataShape, TaskShape, LinkInv, Ids
  <2>2. UpdatePlayback(cur, dur[cur])
    BY <1>10 DEF StopUpdate
  <2>3. list' \in Seq(Segments)
    BY <2>1, <2>2, UpdateKeeps
  <2>. QED
    BY <1>10, <2>3 DEF StopUpdate, Shape, DataShape, recording
<1>11. CASE StopPlayback
  BY <1>11 DEF StopPlayback, Called, Stopped, Holds, Shape, DataShape, recording
<1>. QED
  BY <1>1, <1>2, <1>3, <1>4, <1>5, <1>6, <1>7, <1>8, <1>9, <1>10, <1>11 DEF Next,
    RecordTask, Thread, InCall, Call, Take, HandleEvent, Play, FirstFrame,
    NextSegment, ReachEnd, PauseAtEnd, TellEnd, TellTime, LockRecord, LockPlayback,
    SeekFirst, Go, StartPlayback, PausePlayback, ResumePlayback, SetSpeed,
    SeekPlayback, StopRecord, recording

(* ... the record task, ...                                                *)
LEMMA TaskShapeNext ==
  ASSUME Shape, Next
  PROVE  TaskShape'
<1>1. CASE UNCHANGED <<task>>
  BY <1>1 DEF Shape, TaskShape
<1>2. CASE Take
  <2>1. PICK d \in IF running THEN {dur[cur]} ELSE 1 .. dur[cur] :
          task' = [pc |-> "update", dur |-> d]
    BY <1>2 DEF Take
  <2>2. dur[cur] \in Nat
    BY DEF Shape, DataShape
  <2>3. d \in Nat
    BY <2>1, <2>2
  <2>. QED
    BY <2>1, <2>3 DEF TaskShape, TaskPlaces
<1>3. CASE TaskUpdate
  BY <1>3 DEF TaskUpdate, Goto, Shape, TaskShape, TaskPlaces, recording
<1>4. CASE TaskNext
  BY <1>4 DEF TaskNext, Goto, Shape, TaskShape, TaskPlaces, recording
<1>5. CASE TaskFinal
  BY <1>5 DEF TaskFinal, Goto, Shape, TaskShape, TaskPlaces, recording
<1>6. CASE TaskAdd
  BY <1>6 DEF TaskAdd, Goto, Shape, TaskShape, TaskPlaces, recording
<1>7. CASE TaskLink
  BY <1>7 DEF TaskLink, Goto, Shape, TaskShape, TaskPlaces, recording
<1>. QED
  BY <1>1, <1>2, <1>3, <1>4, <1>5, <1>6, <1>7 DEF Next, RecordTask, Thread, InCall,
    Call, Record, HandleEvent, Play, FirstFrame, NextSegment, ReachEnd, PauseAtEnd,
    TellEnd, TellTime, LockRecord, LockPlayback, Load, SeekFirst, Go, StopSegment,
    StopUpdate, StartPlayback, StopPlayback, PausePlayback, ResumePlayback, SetSpeed,
    SeekPlayback, StopRecord, recording

(* ... what is noted, ...                                                  *)
LEMMA NoteNext ==
  ASSUME Shape, Next
  PROVE  NoteShape'
<1>1. CASE UNCHANGED <<note>>
  BY <1>1 DEF Shape, NoteShape
<1>2. CASE TaskUpdate
  <2>1. UpdatePlayback(cur, task.dur)
    BY <1>2 DEF TaskUpdate
  <2>. QED
    BY <2>1, UpdateRecords DEF NoteShape
<1>3. CASE TaskFinal
  <2>1. UpdatePlayback(cur - 1, dur[cur - 1])
    BY <1>3 DEF TaskFinal
  <2>. QED
    BY <2>1, UpdateRecords DEF NoteShape
<1>4. CASE HandleEvent
  BY <1>4 DEF HandleEvent, PlayFree, Shape, NoteShape
<1>5. CASE TellTime
  BY <1>5 DEF TellTime, PlayFree, Shape, NoteShape
<1>6. CASE Load
  <2>1. \E n \in {0, 1} : note' = [note EXCEPT !.speed = n]
    BY <1>6 DEF Load
  <2>. QED
    BY <2>1 DEF Shape, NoteShape
<1>7. CASE StopUpdate
  <2>1. UpdatePlayback(cur, dur[cur])
    BY <1>7 DEF StopUpdate
  <2>. QED
    BY <2>1, UpdateRecords DEF NoteShape
<1>8. CASE PausePlayback
  BY <1>8 DEF PausePlayback, Called, Paused, Holds, Shape, NoteShape
<1>9. CASE ResumePlayback
  BY <1>9 DEF ResumePlayback, Called, Going, Holds, Shape, NoteShape
<1>10. CASE SetSpeed
  BY <1>10 DEF SetSpeed, Called, Holds, Shape, NoteShape
<1>. QED
  BY <1>1, <1>2, <1>3, <1>4, <1>5, <1>6, <1>7, <1>8, <1>9, <1>10 DEF Next, RecordTask,
    Thread, InCall, Call, Record, Take, TaskNext, TaskAdd, TaskLink, Play, FirstFrame,
    NextSegment, ReachEnd, PauseAtEnd, TellEnd, LockRecord, LockPlayback, SeekFirst,
    Go, StopSegment, StartPlayback, StopPlayback, SeekPlayback, StopRecord, recording

(* ... the player, ...                                                     *)
LEMMA PlayerNext ==
  ASSUME Shape, Next
  PROVE  PlayerShape'
<1>1. CASE UNCHANGED <<player>>
  BY <1>1 DEF Shape, PlayerShape
<1>2. CASE TaskUpdate
  <2>1. UpdatePlayback(cur, task.dur)
    BY <1>2 DEF TaskUpdate
  <2>. QED
    BY <2>1, UpdateRecords DEF PlayerShape
<1>3. CASE TaskFinal
  <2>1. UpdatePlayback(cur - 1, dur[cur - 1])
    BY <1>3 DEF TaskFinal
  <2>. QED
    BY <2>1, UpdateRecords DEF PlayerShape
<1>4. CASE Play
  BY <1>4 DEF Play, Shape, PlayerShape, States
<1>5. CASE FirstFrame
  BY <1>5 DEF FirstFrame, Shape, PlayerShape, States
<1>6. CASE NextSegment
  BY <1>6 DEF NextSegment, Masks, Shape, PlayerShape, States
<1>7. CASE ReachEnd
  BY <1>7 DEF ReachEnd, Shape, PlayerShape, States
<1>8. CASE PauseAtEnd
  BY <1>8 DEF PauseAtEnd, Paused, Shape, PlayerShape, States
<1>9. CASE TellEnd
  BY <1>9 DEF TellEnd, Shape, PlayerShape, States
<1>10. CASE Load
  <2>1. player' = player \/ player' = Sought(player, [seg |-> 0, pos |-> 0])
    BY <1>10 DEF Load
  <2>. QED
    BY <2>1 DEF Shape, PlayerShape, Sought
<1>11. CASE SeekFirst
  BY <1>11 DEF SeekFirst, Sought, Shape, PlayerShape, States
<1>12. CASE Go
  BY <1>12 DEF Go, Free, Shape, PlayerShape, States
<1>13. CASE StopUpdate
  <2>1. UpdatePlayback(cur, dur[cur])
    BY <1>13 DEF StopUpdate
  <2>. QED
    BY <2>1, UpdateRecords DEF PlayerShape
<1>14. CASE StopPlayback
  BY <1>14 DEF StopPlayback, Called, Stopped, Holds, Shape, PlayerShape, States
<1>15. CASE PausePlayback
  BY <1>15 DEF PausePlayback, Called, Paused, Holds, Shape, PlayerShape, States
<1>16. CASE ResumePlayback
  BY <1>16 DEF ResumePlayback, Called, Going, Holds, Shape, PlayerShape, States
<1>17. CASE SeekPlayback
  BY <1>17 DEF SeekPlayback, Called, Sought, Shape, PlayerShape, States
<1>. QED
  BY <1>1, <1>2, <1>3, <1>4, <1>5, <1>6, <1>7, <1>8, <1>9, <1>10, <1>11, <1>12, <1>13,
    <1>14, <1>15, <1>16, <1>17 DEF Next, RecordTask, Thread, InCall, Call, Record,
    Take, TaskNext, TaskAdd, TaskLink, HandleEvent, TellTime, LockRecord,
    LockPlayback, StopSegment, StartPlayback, SetSpeed, StopRecord, recording

(* ... the application, ...                                                *)
LEMMA AppNext ==
  ASSUME Shape, Next
  PROVE  AppShape'
<1>1. CASE UNCHANGED <<app>>
  BY <1>1 DEF Shape, AppShape
<1>2. CASE LockRecord
  BY <1>2 DEF LockRecord, RecFree, Shape, AppShape, AppPlaces, Starting, Free
<1>3. CASE LockPlayback
  BY <1>3 DEF LockPlayback, Shape, AppShape, AppPlaces, Starting, Free
<1>4. CASE Load
  <2>1. \E live, limit \in BOOLEAN :
          app' = [app EXCEPT !.pc = IF limit THEN "seek" ELSE "go", !.play = ~limit,
                             !.live = live]
    BY <1>4 DEF Load
  <2>. QED
    BY <2>1 DEF Shape, AppShape, AppPlaces, Starting
<1>5. CASE SeekFirst
  BY <1>5 DEF SeekFirst, Sought, Shape, AppShape, AppPlaces, Starting, Free
<1>6. CASE Go
  BY <1>6 DEF Go, Free, Shape, AppShape, AppPlaces, Starting
<1>7. CASE StopSegment
  BY <1>7 DEF StopSegment, RecFree, Shape, AppShape, AppPlaces, Starting, Free
<1>8. CASE StopUpdate
  BY <1>8 DEF StopUpdate, Free, Shape, AppShape, AppPlaces, Starting
<1>9. CASE StartPlayback
  BY <1>9 DEF StartPlayback, Called, Shape, AppShape, AppPlaces, Starting, Free
<1>10. CASE StopRecord
  BY <1>10 DEF StopRecord, Called, Shape, AppShape, AppPlaces, Starting, Free
<1>. QED
  BY <1>1, <1>2, <1>3, <1>4, <1>5, <1>6, <1>7, <1>8, <1>9, <1>10 DEF Next, RecordTask,
    Thread, InCall, Call, Record, Take, TaskUpdate, TaskNext, TaskFinal, TaskAdd,
    TaskLink, HandleEvent, Play, FirstFrame, NextSegment, ReachEnd, PauseAtEnd,
    TellEnd, TellTime, StopPlayback, PausePlayback, ResumePlayback, SetSpeed,
    SeekPlayback, recording

(* ... and what the properties remember; ...                               *)
LEMMA PastNext ==
  ASSUME Shape, Next
  PROVE  PastShape'
<1>1. CASE UNCHANGED <<past>>
  BY <1>1 DEF Shape, PastShape
<1>2. CASE FirstFrame
  BY <1>2 DEF FirstFrame, Shape, PastShape
<1>3. CASE NextSegment
  BY <1>3 DEF NextSegment, Masks, Shape, PastShape
<1>4. CASE TellEnd
  BY <1>4 DEF TellEnd, Shape, PastShape
<1>5. CASE Load
  <2>1. \E live, missed \in BOOLEAN :
          past' = [past EXCEPT !.held = IF live THEN "yes" ELSE "no", !.missed = missed]
    BY <1>5 DEF Load
  <2>. QED
    BY <2>1 DEF Shape, PastShape
<1>6. CASE StopPlayback
  BY <1>6 DEF StopPlayback, Called, Stopped, Holds, Shape, PastShape
<1>7. CASE PausePlayback
  BY <1>7 DEF PausePlayback, Called, Paused, Holds, Shape, PastShape
<1>8. CASE ResumePlayback
  BY <1>8 DEF ResumePlayback, Called, Going, Holds, Shape, PastShape
<1>9. CASE SetSpeed
  BY <1>9 DEF SetSpeed, Called, Holds, Shape, PastShape
<1>. QED
  BY <1>1, <1>2, <1>3, <1>4, <1>5, <1>6, <1>7, <1>8, <1>9 DEF Next, RecordTask,
    Thread, InCall, Call, Record, Take, TaskUpdate, TaskNext, TaskFinal, TaskAdd,
    TaskLink, HandleEvent, Play, ReachEnd, PauseAtEnd, TellTime, LockRecord,
    LockPlayback, SeekFirst, Go, StopSegment, StopUpdate, StartPlayback, SeekPlayback,
    StopRecord, recording

(* ... the speed of what is in pause, ...                                  *)
LEMMA HeldNext ==
  ASSUME Shape, HeldInv, Next
  PROVE  HeldInv'
<1>1. CASE UNCHANGED <<app, note, past, player>>
  BY <1>1 DEF HeldInv
<1>2. CASE TaskUpdate
  <2>1. UpdatePlayback(cur, task.dur)
    BY <1>2 DEF TaskUpdate
  <2>2. note'.speed = note.speed /\ (player.state = "STOP" => player'.state = "STOP")
    BY <2>1, UpdateRecords
  <2>. QED
    BY <1>2, <2>2 DEF TaskUpdate, Goto, HeldInv, Starting, Shape, NoteShape,
      PlayerShape, AppShape, PastShape, recording
<1>3. CASE TaskFinal
  <2>1. UpdatePlayback(cur - 1, dur[cur - 1])
    BY <1>3 DEF TaskFinal
  <2>2. note'.speed = note.speed /\ (player.state = "STOP" => player'.state = "STOP")
    BY <2>1, UpdateRecords
  <2>. QED
    BY <1>3, <2>2 DEF TaskFinal, Goto, HeldInv, Starting, Shape, NoteShape,
      PlayerShape, AppShape, PastShape, recording
<1>4. CASE HandleEvent
  BY <1>4 DEF HandleEvent, PlayFree, HeldInv, Shape, NoteShape, PlayerShape, AppShape,
    PastShape, Starting, Free, recording
<1>5. CASE Play
  BY <1>5 DEF Play, HeldInv, Shape, NoteShape, PlayerShape, AppShape, PastShape,
    Starting, Free, recording
<1>6. CASE FirstFrame
  BY <1>6 DEF FirstFrame, HeldInv, Shape, NoteShape, PlayerShape, AppShape, PastShape,
    Starting, Free, recording
<1>7. CASE NextSegment
  BY <1>7 DEF NextSegment, Masks, HeldInv, Shape, NoteShape, PlayerShape, AppShape,
    PastShape, Starting, Free, recording
<1>8. CASE ReachEnd
  BY <1>8 DEF ReachEnd, HeldInv, Shape, NoteShape, PlayerShape, AppShape, PastShape,
    Starting, Free, recording
<1>9. CASE PauseAtEnd
  BY <1>9 DEF PauseAtEnd, Paused, HeldInv, Shape, NoteShape, PlayerShape, AppShape,
    PastShape, Starting, Free, recording
<1>10. CASE TellEnd
  BY <1>10 DEF TellEnd, HeldInv, Shape, NoteShape, PlayerShape, AppShape, PastShape,
    Starting, Free, recording
<1>11. CASE TellTime
  BY <1>11 DEF TellTime, PlayFree, HeldInv, Shape, NoteShape, PlayerShape, AppShape,
    PastShape, Starting, Free, recording
<1>12. CASE LockRecord
  BY <1>12 DEF LockRecord, RecFree, HeldInv, Shape, NoteShape, PlayerShape, AppShape,
    PastShape, Starting, Free, recording
<1>13. CASE LockPlayback
  BY <1>13 DEF LockPlayback, HeldInv, Shape, NoteShape, PlayerShape, AppShape,
    PastShape, Starting, Free, recording
<1>14. CASE Load
  <2>1. PICK live, limit \in BOOLEAN :
          /\ note' = [note EXCEPT !.speed = IF live THEN 0 ELSE 1]
          /\ past' = [past EXCEPT !.held = IF live THEN "yes" ELSE "no",
                                 !.missed = mode = "recording" /\ task.pc = "link"]
          /\ player' = IF limit THEN player ELSE Sought(player, [seg |-> 0, pos |-> 0])
    BY <1>14 DEF Load
  <2>2. past'.held = "yes" => note'.speed = 0
    BY <2>1 DEF Shape, NoteShape, PastShape
  <2>3. player'.state = player.state
    BY <2>1 DEF Shape, PlayerShape, Sought
  <2>4. player.state = "STOP"
    BY <1>14 DEF Load, HeldInv, Starting
  <2>. QED
    BY <2>2, <2>3, <2>4 DEF HeldInv
<1>15. CASE SeekFirst
  BY <1>15 DEF SeekFirst, Sought, HeldInv, Shape, NoteShape, PlayerShape, AppShape,
    PastShape, Starting, Free, recording
<1>16. CASE Go
  BY <1>16 DEF Go, Free, HeldInv, Shape, NoteShape, PlayerShape, AppShape, PastShape,
    Starting, recording
<1>17. CASE StopSegment
  BY <1>17 DEF StopSegment, RecFree, HeldInv, Shape, NoteShape, PlayerShape, AppShape,
    PastShape, Starting, Free, recording
<1>18. CASE StopUpdate
  <2>1. UpdatePlayback(cur, dur[cur])
    BY <1>18 DEF StopUpdate
  <2>2. note'.speed = note.speed /\ (player.state = "STOP" => player'.state = "STOP")
    BY <2>1, UpdateRecords
  <2>. QED
    BY <1>18, <2>2 DEF StopUpdate, Free, HeldInv, Starting, Shape, NoteShape,
      PlayerShape, AppShape, PastShape, recording
<1>19. CASE StartPlayback
  BY <1>19 DEF StartPlayback, Called, HeldInv, Shape, NoteShape, PlayerShape,
    AppShape, PastShape, Starting, Free, recording
<1>20. CASE StopPlayback
  BY <1>20 DEF StopPlayback, Called, Stopped, Holds, HeldInv, Shape, NoteShape,
    PlayerShape, AppShape, PastShape, Starting, Free, recording
<1>21. CASE PausePlayback
  BY <1>21 DEF PausePlayback, Called, Paused, Holds, HeldInv, Shape, NoteShape,
    PlayerShape, AppShape, PastShape, Starting, Free, recording
<1>22. CASE ResumePlayback
  BY <1>22 DEF ResumePlayback, Called, Going, Holds, HeldInv, Shape, NoteShape,
    PlayerShape, AppShape, PastShape, Starting, Free, recording
<1>23. CASE SetSpeed
  BY <1>23 DEF SetSpeed, Called, Holds, HeldInv, Shape, NoteShape, PlayerShape,
    AppShape, PastShape, Starting, Free, recording
<1>24. CASE SeekPlayback
  BY <1>24 DEF SeekPlayback, Called, Sought, HeldInv, Shape, NoteShape, PlayerShape,
    AppShape, PastShape, Starting, Free, recording
<1>25. CASE StopRecord
  BY <1>25 DEF StopRecord, Called, HeldInv, Shape, NoteShape, PlayerShape, AppShape,
    PastShape, Starting, Free, recording
<1>. QED
  BY <1>1, <1>2, <1>3, <1>4, <1>5, <1>6, <1>7, <1>8, <1>9, <1>10, <1>11, <1>12, <1>13,
    <1>14, <1>15, <1>16, <1>17, <1>18, <1>19, <1>20, <1>21, <1>22, <1>23, <1>24, <1>25
    DEF Next, RecordTask, Thread, InCall, Call, Record, Take, TaskNext, TaskAdd,
    TaskLink, recording

(* ... the holder of the record context, ...                               *)
LEMMA LocksNext ==
  ASSUME Shape, LocksInv, Next
  PROVE  LocksInv'
<1>1. CASE UNCHANGED <<app, mode, task>>
  BY <1>1 DEF LocksInv
<1>2. CASE Take
  BY <1>2 DEF Take, RecFree, LocksInv, Shape, AppShape, TaskShape, Free, recording
<1>3. CASE TaskUpdate
  BY <1>3 DEF TaskUpdate, Goto, LocksInv, Shape, AppShape, TaskShape, Free, recording
<1>4. CASE TaskNext
  BY <1>4 DEF TaskNext, Goto, LocksInv, Shape, AppShape, TaskShape, Free, recording
<1>5. CASE TaskFinal
  BY <1>5 DEF TaskFinal, Goto, LocksInv, Shape, AppShape, TaskShape, Free, recording
<1>6. CASE TaskAdd
  BY <1>6 DEF TaskAdd, Goto, LocksInv, Shape, AppShape, TaskShape, Free, recording
<1>7. CASE TaskLink
  BY <1>7 DEF TaskLink, Goto, LocksInv, Shape, AppShape, TaskShape, Free, recording
<1>8. CASE LockRecord
  BY <1>8 DEF LockRecord, RecFree, LocksInv, Shape, AppShape, TaskShape, Free,
    recording
<1>9. CASE LockPlayback
  BY <1>9 DEF LockPlayback, LocksInv, Shape, AppShape, TaskShape, Free, recording
<1>10. CASE Load
  BY <1>10 DEF Load, LocksInv, Shape, AppShape, TaskShape, Free, recording
<1>11. CASE SeekFirst
  BY <1>11 DEF SeekFirst, Sought, LocksInv, Shape, AppShape, TaskShape, Free,
    recording
<1>12. CASE Go
  <2>1. /\ app'.pc = "idle" /\ app'.play = FALSE
        /\ app'.rec <=> app.rec /\ mode # "timeshift"
    BY <1>12 DEF Go, Free
  <2>2. app.pc = "go" /\ task' = task /\ mode' = mode
    BY <1>12 DEF Go, recording
  <2>3. mode # "plain" => ~app'.rec
    BY <2>1, <2>2 DEF LocksInv, Shape, DataShape
  <2>. QED
    BY <2>1, <2>2, <2>3 DEF LocksInv, Shape, DataShape
<1>13. CASE StopSegment
  BY <1>13 DEF StopSegment, RecFree, LocksInv, Shape, AppShape, TaskShape, Free,
    recording
<1>14. CASE StopUpdate
  BY <1>14 DEF StopUpdate, Free, LocksInv, Shape, AppShape, TaskShape, recording
<1>15. CASE StartPlayback
  BY <1>15 DEF StartPlayback, Called, LocksInv, Shape, AppShape, TaskShape, Free,
    recording
<1>16. CASE StopRecord
  BY <1>16 DEF StopRecord, Called, LocksInv, Shape, AppShape, TaskShape, Free,
    recording
<1>. QED
  BY <1>1, <1>2, <1>3, <1>4, <1>5, <1>6, <1>7, <1>8, <1>9, <1>10, <1>11, <1>12, <1>13,
    <1>14, <1>15, <1>16 DEF Next, RecordTask, Thread, InCall, Call, Record,
    HandleEvent, Play, FirstFrame, NextSegment, ReachEnd, PauseAtEnd, TellEnd,
    TellTime, StopPlayback, PausePlayback, ResumePlayback, SetSpeed, SeekPlayback,
    recording

(* ... the newest segment in the list file, ...                            *)
LEMMA LinkNext ==
  ASSUME Shape, LinkInv, Next
  PROVE  LinkInv'
<1>1. CASE UNCHANGED <<cur, linked, mode, task>>
  BY <1>1 DEF LinkInv
<1>2. CASE Take
  BY <1>2 DEF Take, RecFree, LinkInv, Shape, DataShape, TaskShape, Ids, recording
<1>3. CASE TaskUpdate
  BY <1>3 DEF TaskUpdate, Goto, LinkInv, Shape, DataShape, TaskShape, Ids, recording
<1>4. CASE TaskNext
  BY <1>4 DEF TaskNext, Goto, LinkInv, Shape, DataShape, TaskShape, Ids, recording
<1>5. CASE TaskFinal
  BY <1>5 DEF TaskFinal, Goto, LinkInv, Shape, DataShape, TaskShape, Ids, recording
<1>6. CASE TaskAdd
  BY <1>6 DEF TaskAdd, Goto, LinkInv, Shape, DataShape, TaskShape, Ids, recording
<1>7. CASE TaskLink
  BY <1>7 DEF TaskLink, Goto, LinkInv, Shape, DataShape, TaskShape, Ids, recording
<1>. QED
  BY <1>1, <1>2, <1>3, <1>4, <1>5, <1>6, <1>7 DEF Next, RecordTask, Thread, InCall,
    Call, Record, HandleEvent, Play, FirstFrame, NextSegment, ReachEnd, PauseAtEnd,
    TellEnd, TellTime, LockRecord, LockPlayback, Load, SeekFirst, Go, StopSegment,
    StopUpdate, StartPlayback, StopPlayback, PausePlayback, ResumePlayback, SetSpeed,
    SeekPlayback, StopRecord, recording

(* ... the segments of the list ...                                        *)
LEMMA WholeNext ==
  ASSUME Shape, LocksInv, LinkInv, Whole, Next
  PROVE  Whole'
<1>1. CASE UNCHANGED <<cur, list, mode, past, task>>
  BY <1>1 DEF Whole, Follows
<1>2. CASE Take
  BY <1>2 DEF Take, RecFree, Whole, Follows, Free, recording, Shape, DataShape,
    TaskShape, PastShape
<1>3. CASE TaskUpdate
  <2>1. cur \in Nat /\ task.dur \in Nat
    BY <1>3, Numbers DEF TaskUpdate, Shape, DataShape, TaskShape, LinkInv, Ids
  <2>2. UpdatePlayback(cur, task.dur)
    BY <1>3 DEF TaskUpdate
  <2>3. /\ list' \in Seq(Segments) /\ DOMAIN list' = DOMAIN list /\ Len(list') = Len(list)
        /\ \A i \in DOMAIN list :
             /\ list'[i].id = list[i].id
             /\ list[i].id # cur => list'[i].dur = list[i].dur
             /\ Follows /\ list[i].id = cur => list'[i].dur = task.dur
    BY <2>1, <2>2, UpdateKeeps
  <2>4. task.pc = "update" /\ task'.pc \in {"next", "idle"}
    BY <1>3 DEF TaskUpdate, Goto, recording
  <2>5. mode' = mode /\ cur' = cur /\ past' = past
    BY <1>3 DEF TaskUpdate, recording
  <2>6. list' # <<>> => list # <<>>
    BY <2>3 DEF Shape, DataShape
  <2>. QED
    BY <2>3, <2>4, <2>5, <2>6 DEF Whole, Follows
<1>4. CASE TaskNext
  <2>1. cur \in Nat /\ cur' = cur + 1 /\ task.pc = "next" /\ task'.pc = "final"
    BY <1>4, Numbers DEF TaskNext, Goto, Shape, DataShape, TaskShape
  <2>2. list' = list /\ mode' = mode /\ past' = past
    BY <1>4 DEF TaskNext
  <2>. QED
    BY <2>1, <2>2 DEF Whole, Follows
<1>5. CASE TaskFinal
  <2>1. cur - 1 \in Nat /\ dur[cur - 1] \in Nat
    BY <1>5, Numbers DEF TaskFinal, Shape, DataShape, TaskShape, LinkInv, Ids
  <2>2. UpdatePlayback(cur - 1, dur[cur - 1])
    BY <1>5 DEF TaskFinal
  <2>3. /\ list' \in Seq(Segments) /\ DOMAIN list' = DOMAIN list /\ Len(list') = Len(list)
        /\ \A i \in DOMAIN list :
             /\ list'[i].id = list[i].id
             /\ list[i].id # cur - 1 => list'[i].dur = list[i].dur
             /\ Follows /\ list[i].id = cur - 1 => list'[i].dur = dur[cur - 1]
    BY <2>1, <2>2, UpdateKeeps
  <2>4. task.pc = "final" /\ task'.pc = "add"
    BY <1>5 DEF TaskFinal, Goto, recording
  <2>5. mode' = mode /\ cur' = cur /\ past' = past
    BY <1>5 DEF TaskFinal, recording
  <2>6. list' # <<>> => list # <<>>
    BY <2>3 DEF Shape, DataShape
  <2>. QED
    BY <2>3, <2>4, <2>5, <2>6 DEF Whole, Follows
<1>6. CASE TaskAdd
  <2>1. /\ Len(list) \in Nat /\ DOMAIN list = 1 .. Len(list) /\ cur \in Nat
    BY ListLines, Numbers DEF Shape, DataShape
  <2>2. CASE Follows /\ list # <<>>
    <3>1. list' = Append(list, [id |-> cur, dur |-> 0])
      BY <1>6, <2>2 DEF TaskAdd
    <3>2. Len(list') = Len(list) + 1 /\ DOMAIN list' = 1 .. Len(list) + 1
      BY <2>1, <3>1 DEF Shape, DataShape
    <3>3. /\ \A i \in DOMAIN list : list'[i] = list[i]
          /\ list'[Len(list) + 1].id = cur
      BY <2>1, <3>1 DEF Shape, DataShape
    <3>4. ~past.missed => Len(list) = cur /\ \A i \in DOMAIN list : list[i].id = i - 1
      BY <1>6, <2>2 DEF Whole, TaskAdd
    <3>5. /\ mode' = mode /\ cur' = cur /\ past' = past /\ task'.pc = "link"
      BY <1>6 DEF TaskAdd, Goto
    <3>6. \A i \in DOMAIN list' : i \in DOMAIN list \/ i = Len(list) + 1
      BY <2>1, <3>2
    <3>7. ~past.missed => \A i \in DOMAIN list' : list'[i].id = i - 1
      <4>1. ASSUME ~past.missed, NEW i \in DOMAIN list' PROVE list'[i].id = i - 1
        <5>1. CASE i \in DOMAIN list
          BY <3>3, <3>4, <4>1, <5>1
        <5>2. CASE i = Len(list) + 1
          <6>1. Len(list) = cur
            BY <3>4, <4>1
          <6>2. list'[i].id = cur
            BY <3>3, <5>2
          <6>. QED
            BY <2>1, <5>2, <6>1, <6>2
        <5>. QED
          BY <3>6, <5>1, <5>2
      <4>. QED
        BY <4>1
    <3>. QED
      BY <2>1, <3>2, <3>4, <3>5, <3>7 DEF Whole, Follows
  <2>3. CASE ~(Follows /\ list # <<>>)
    BY <1>6, <2>3 DEF TaskAdd, Whole, Follows
  <2>. QED
    BY <2>2, <2>3
<1>7. CASE TaskLink
  BY <1>7 DEF TaskLink, Goto, Whole, Follows, Free, recording, Shape, DataShape,
    TaskShape, PastShape
<1>8. CASE FirstFrame
  BY <1>8 DEF FirstFrame, Whole, Follows, Free, recording, Shape, DataShape,
    TaskShape, PastShape
<1>9. CASE NextSegment
  BY <1>9 DEF NextSegment, Masks, Whole, Follows, Free, recording, Shape, DataShape,
    TaskShape, PastShape
<1>10. CASE TellEnd
  BY <1>10 DEF TellEnd, Whole, Follows, Free, recording, Shape, DataShape, TaskShape,
    PastShape
<1>11. CASE Load
  <2>1. PICK n \in Nat : /\ Loaded = 0 .. n
                        /\ n = CASE mode = "timeshift" -> cur
                                 [] mode = "recording" -> linked
                                 [] mode = "plain"     -> 0
    BY LoadedTill
  <2>2. Len(list') = n + 1 /\ \A i \in DOMAIN list' : list'[i].id = i - 1
    BY <1>11, <2>1, LoadList, Interval
  <2>3. mode' = mode /\ cur' = cur /\ task' = task /\ cur \in Nat
    BY <1>11, Numbers DEF Load, recording, Shape, DataShape
  <2>4. past'.missed = (mode = "recording" /\ task.pc = "link")
    BY <1>11 DEF Load, Shape, PastShape
  <2>5. CASE mode = "timeshift"
    <3>1. task.pc = "idle"
      BY <1>11, <2>5 DEF LocksInv, Load
    <3>. QED
      BY <2>1, <2>2, <2>3, <2>5, <3>1 DEF Whole
  <2>6. CASE mode = "recording" /\ task.pc # "link"
    <3>1. linked = IF task.pc \in {"final", "add"} THEN cur - 1 ELSE cur
      BY <2>6 DEF LinkInv
    <3>2. n + 1 = IF task.pc \in {"final", "add"} THEN cur ELSE cur + 1
      BY <2>1, <2>3, <2>6, <3>1
    <3>. QED
      BY <2>2, <2>3, <3>2 DEF Whole
  <2>7. CASE mode = "recording" /\ task.pc = "link"
    BY <2>4, <2>7 DEF Whole
  <2>8. CASE mode = "plain"
    BY <2>3, <2>8 DEF Whole, Follows
  <2>. QED
    BY <2>5, <2>6, <2>7, <2>8 DEF Shape, DataShape
<1>12. CASE StopUpdate
  <2>1. cur \in Nat /\ dur[cur] \in Nat
    BY <1>12, Numbers DEF StopUpdate, Shape, DataShape, TaskShape, LinkInv, Ids
  <2>2. UpdatePlayback(cur, dur[cur])
    BY <1>12 DEF StopUpdate
  <2>3. /\ list' \in Seq(Segments) /\ DOMAIN list' = DOMAIN list /\ Len(list') = Len(list)
        /\ \A i \in DOMAIN list :
             /\ list'[i].id = list[i].id
             /\ list[i].id # cur => list'[i].dur = list[i].dur
             /\ Follows /\ list[i].id = cur => list'[i].dur = dur[cur]
    BY <2>1, <2>2, UpdateKeeps
  <2>4. task' = task
    BY <1>12 DEF StopUpdate, Free, recording
  <2>5. mode' = mode /\ cur' = cur /\ past' = past
    BY <1>12 DEF StopUpdate, recording
  <2>6. list' # <<>> => list # <<>>
    BY <2>3 DEF Shape, DataShape
  <2>. QED
    BY <2>3, <2>4, <2>5, <2>6 DEF Whole, Follows
<1>13. CASE StopPlayback
  BY <1>13 DEF StopPlayback, Called, Stopped, Holds, Whole, Follows, Free, recording,
    Shape, DataShape, TaskShape, PastShape
<1>14. CASE PausePlayback
  BY <1>14 DEF PausePlayback, Called, Paused, Holds, Whole, Follows, Free, recording,
    Shape, DataShape, TaskShape, PastShape
<1>15. CASE ResumePlayback
  BY <1>15 DEF ResumePlayback, Called, Going, Holds, Whole, Follows, Free, recording,
    Shape, DataShape, TaskShape, PastShape
<1>16. CASE SetSpeed
  BY <1>16 DEF SetSpeed, Called, Holds, Whole, Follows, Free, recording, Shape,
    DataShape, TaskShape, PastShape
<1>. QED
  BY <1>1, <1>2, <1>3, <1>4, <1>5, <1>6, <1>7, <1>8, <1>9, <1>10, <1>11, <1>12, <1>13,
    <1>14, <1>15, <1>16 DEF Next, RecordTask, Thread, InCall, Call, Record,
    HandleEvent, Play, ReachEnd, PauseAtEnd, TellTime, LockRecord, LockPlayback,
    SeekFirst, Go, StopSegment, StartPlayback, SeekPlayback, StopRecord, recording

(* ... and their durations.                                                *)
LEMMA FinalNext ==
  ASSUME Shape, LinkInv, Final, Next
  PROVE  Final'
<1>1. CASE UNCHANGED <<cur, dur, list, mode, task>>
  BY <1>1 DEF Final, FinalTill, Follows
<1>2. CASE Record
  <2>1. /\ dur' = [dur EXCEPT ![cur] = @ + 1] /\ list' = list
        /\ task' = task /\ cur' = cur /\ mode' = mode
    BY <1>2 DEF Record
  <2>2. cur \in Nat /\ \A i \in DOMAIN list : list[i].id \in Nat
    BY ListLines, Numbers DEF Shape, DataShape
  <2>3. FinalTill <= cur /\ FinalTill \in Int
    BY <2>2 DEF FinalTill
  <2>4. \A s \in Nat : s < FinalTill => s # cur
    BY <2>2, <2>3
  <2>5. \A s \in Nat : s # cur => dur'[s] = dur[s]
    <3>1. dur \in [Ids -> Nat]
      BY DEF Shape, DataShape
    <3>. QED
      BY <2>1, <3>1
  <2>. QED
    BY <2>1, <2>2, <2>4, <2>5 DEF Final, FinalTill, Follows
<1>3. CASE Take
  BY <1>3 DEF Take, RecFree, Final, FinalTill, Follows, recording, Shape, DataShape,
    TaskShape
<1>4. CASE TaskUpdate
  <2>1. cur \in Nat /\ task.dur \in Nat
    BY <1>4, Numbers DEF TaskUpdate, Shape, DataShape, TaskShape, LinkInv, Ids
  <2>2. UpdatePlayback(cur, task.dur)
    BY <1>4 DEF TaskUpdate
  <2>3. /\ list' \in Seq(Segments) /\ DOMAIN list' = DOMAIN list /\ Len(list') = Len(list)
        /\ \A i \in DOMAIN list :
             /\ list'[i].id = list[i].id
             /\ list[i].id # cur => list'[i].dur = list[i].dur
             /\ Follows /\ list[i].id = cur => list'[i].dur = task.dur
    BY <2>1, <2>2, UpdateKeeps
  <2>4. task.pc = "update" /\ task'.pc \in {"next", "idle"}
    BY <1>4 DEF TaskUpdate, Goto, recording
  <2>5. mode' = mode /\ cur' = cur /\ dur' = dur
    BY <1>4 DEF TaskUpdate, recording
  <2>6. cur \in Nat /\ \A i \in DOMAIN list : list[i].id \in Nat
    BY ListLines, Numbers DEF Shape, DataShape
  <2>. QED
    BY <2>3, <2>4, <2>5, <2>6 DEF Final, FinalTill, Follows
<1>5. CASE TaskNext
  <2>1. cur \in Nat /\ cur' = cur + 1 /\ task.pc = "next" /\ task'.pc = "final"
    BY <1>5, Numbers DEF TaskNext, Goto, Shape, DataShape, TaskShape
  <2>2. list' = list /\ mode' = mode /\ dur' = dur
    BY <1>5 DEF TaskNext
  <2>. QED
    BY <2>1, <2>2 DEF Final, FinalTill, Follows
<1>6. CASE TaskFinal
  <2>1. cur - 1 \in Nat /\ dur[cur - 1] \in Nat
    BY <1>6, Numbers DEF TaskFinal, Shape, DataShape, TaskShape, LinkInv, Ids
  <2>2. UpdatePlayback(cur - 1, dur[cur - 1])
    BY <1>6 DEF TaskFinal
  <2>3. /\ list' \in Seq(Segments) /\ DOMAIN list' = DOMAIN list /\ Len(list') = Len(list)
        /\ \A i \in DOMAIN list :
             /\ list'[i].id = list[i].id
             /\ list[i].id # cur - 1 => list'[i].dur = list[i].dur
             /\ Follows /\ list[i].id = cur - 1 => list'[i].dur = dur[cur - 1]
    BY <2>1, <2>2, UpdateKeeps
  <2>4. task.pc = "final" /\ task'.pc = "add"
    BY <1>6 DEF TaskFinal, Goto, recording
  <2>5. mode' = mode /\ cur' = cur /\ dur' = dur
    BY <1>6 DEF TaskFinal, recording
  <2>6. cur \in Nat /\ \A i \in DOMAIN list : list[i].id \in Nat
    BY ListLines, Numbers DEF Shape, DataShape
  <2>. QED
    BY <2>3, <2>4, <2>5, <2>6 DEF Final, FinalTill, Follows
<1>7. CASE TaskAdd
  <2>1. /\ Len(list) \in Nat /\ DOMAIN list = 1 .. Len(list) /\ cur \in Nat
    BY ListLines, Numbers DEF Shape, DataShape
  <2>2. /\ mode' = mode /\ cur' = cur /\ dur' = dur
        /\ task.pc = "add" /\ task'.pc = "link"
    BY <1>7 DEF TaskAdd, Goto
  <2>3. CASE Follows /\ list # <<>>
    <3>1. list' = Append(list, [id |-> cur, dur |-> 0])
      BY <1>7, <2>3 DEF TaskAdd
    <3>2. DOMAIN list' = 1 .. Len(list) + 1
      BY <2>1, <3>1 DEF Shape, DataShape
    <3>3. /\ \A i \in DOMAIN list : list'[i] = list[i]
          /\ list'[Len(list) + 1].id = cur
      BY <2>1, <3>1 DEF Shape, DataShape
    <3>4. \A i \in DOMAIN list' : i \in DOMAIN list \/ i = Len(list) + 1
      BY <2>1, <3>2
    <3>. QED
      BY <2>1, <2>2, <3>3, <3>4 DEF Final, FinalTill, Follows
  <2>4. CASE ~(Follows /\ list # <<>>)
    <3>1. list' = list
      BY <1>7, <2>4 DEF TaskAdd
    <3>. QED
      BY <2>2, <3>1 DEF Final, FinalTill, Follows
  <2>. QED
    BY <2>3, <2>4
<1>8. CASE TaskLink
  BY <1>8 DEF TaskLink, Goto, Final, FinalTill, Follows, recording, Shape, DataShape,
    TaskShape
<1>9. CASE Load
  <2>1. \A i \in DOMAIN list' :
          /\ i \in Nat /\ list'[i].id = i - 1
          /\ Follows /\ i - 1 # cur => list'[i].dur = dur[i - 1]
    BY <1>9, LoadList, LoadedTill, Interval
  <2>2. mode' = mode /\ cur' = cur /\ task' = task /\ dur' = dur
    BY <1>9 DEF Load, recording
  <2>3. cur \in Nat
    BY Numbers DEF Shape, DataShape
  <2>4. FinalTill \in Int /\ FinalTill <= cur /\ FinalTill' = FinalTill
    BY <2>2, <2>3 DEF FinalTill
  <2>5. \A i \in DOMAIN list' :
          Follows /\ list'[i].id < FinalTill => list'[i].dur = dur[list'[i].id]
    <3>1. ASSUME NEW i \in DOMAIN list', Follows, list'[i].id < FinalTill
          PROVE  list'[i].dur = dur[list'[i].id]
      <4>1. i \in Nat /\ list'[i].id = i - 1
        BY <2>1, <3>1
      <4>2. i - 1 # cur
        BY <2>3, <2>4, <3>1, <4>1
      <4>. QED
        BY <2>1, <3>1, <4>1, <4>2
    <3>. QED
      BY <3>1
  <2>6. Follows' = Follows
    BY <2>2 DEF Follows
  <2>. QED
    BY <2>2, <2>4, <2>5, <2>6 DEF Final
<1>10. CASE StopUpdate
  <2>1. cur \in Nat /\ dur[cur] \in Nat
    BY <1>10, Numbers DEF StopUpdate, Shape, DataShape, TaskShape, LinkInv, Ids
  <2>2. UpdatePlayback(cur, dur[cur])
    BY <1>10 DEF StopUpdate
  <2>3. /\ list' \in Seq(Segments) /\ DOMAIN list' = DOMAIN list /\ Len(list') = Len(list)
        /\ \A i \in DOMAIN list :
             /\ list'[i].id = list[i].id
             /\ list[i].id # cur => list'[i].dur = list[i].dur
             /\ Follows /\ list[i].id = cur => list'[i].dur = dur[cur]
    BY <2>1, <2>2, UpdateKeeps
  <2>4. task' = task
    BY <1>10 DEF StopUpdate, Free, recording
  <2>5. mode' = mode /\ cur' = cur /\ dur' = dur
    BY <1>10 DEF StopUpdate, recording
  <2>6. cur \in Nat /\ \A i \in DOMAIN list : list[i].id \in Nat
    BY ListLines, Numbers DEF Shape, DataShape
  <2>. QED
    BY <2>3, <2>4, <2>5, <2>6 DEF Final, FinalTill, Follows
<1>11. CASE StopPlayback
  BY <1>11 DEF StopPlayback, Called, Stopped, Holds, Final, FinalTill, Follows,
    recording, Shape, DataShape, TaskShape
<1>. QED
  BY <1>1, <1>2, <1>3, <1>4, <1>5, <1>6, <1>7, <1>8, <1>9, <1>10, <1>11 DEF Next,
    RecordTask, Thread, InCall, Call, HandleEvent, Play, FirstFrame, NextSegment,
    ReachEnd, PauseAtEnd, TellEnd, TellTime, LockRecord, LockPlayback, SeekFirst, Go,
    StopSegment, StartPlayback, PausePlayback, ResumePlayback, SetSpeed, SeekPlayback,
    StopRecord, recording

(* A playback stays that of the timeshift, the recording or neither.       *)
LEMMA ModeStays == [Next]_vars => mode' = mode
<1>. SUFFICES ASSUME [Next]_vars PROVE mode' = mode
  OBVIOUS
<1>1. CASE UNCHANGED vars
  BY <1>1 DEF vars
<1>2. CASE Next
  BY <1>2 DEF Next, RecordTask, Thread, InCall, Call, Record, Take, TaskUpdate, TaskNext,
    TaskFinal, TaskAdd, TaskLink, HandleEvent, Play, FirstFrame, NextSegment, ReachEnd,
    PauseAtEnd, TellEnd, TellTime, LockRecord, LockPlayback, Load, SeekFirst, Go,
    StopSegment, StopUpdate, StartPlayback, StopPlayback, PausePlayback, ResumePlayback,
    SetSpeed, SeekPlayback, StopRecord
<1>. QED
  BY <1>1, <1>2

(***************************************************************************)
(* The theorems.                                                           *)
(***************************************************************************)

(* All of it holds at the start ...                                        *)
LEMMA InitIInv == Init => IInv
<1>. SUFFICES ASSUME Init PROVE IInv
  OBVIOUS
<1>1. mode \in {"timeshift", "recording", "plain"}
  BY FollowAssumption DEF Init
<1>2. Shape
  BY <1>1, Numbers DEF Init, Shape, DataShape, TaskShape, NoteShape, PlayerShape,
    AppShape,
    PastShape, Free, Stopped, TaskPlaces, AppPlaces, States, Segments
<1>3. HeldInv /\ LocksInv
  BY DEF Init, HeldInv, LocksInv, Free, Starting
<1>4. LinkInv
  BY DEF Init, LinkInv
<1>5. Whole /\ Final
  BY DEF Init, Whole, Final
<1>. QED
  BY <1>2, <1>3, <1>4, <1>5 DEF IInv

(* ... and is kept by every step.                                          *)
LEMMA NextIInv == IInv /\ [Next]_vars => IInv'
<1>. SUFFICES ASSUME IInv, [Next]_vars PROVE IInv'
  OBVIOUS
<1>1. CASE Next
  BY <1>1, DataNext, TaskShapeNext, NoteNext, PlayerNext, AppNext, PastNext, HeldNext,
    LocksNext, LinkNext, WholeNext,
    FinalNext DEF IInv, Shape
<1>2. CASE UNCHANGED vars
  BY <1>2 DEF vars, IInv, Shape, DataShape, TaskShape, NoteShape, PlayerShape,
    AppShape, PastShape, HeldInv, LocksInv, LinkInv, Whole, Final, FinalTill, Follows
<1>. QED
  BY <1>1, <1>2

(* The list of a playback, the list file, the speed noted and the context  *)
(* locks agree with the place of the record task and of the application at *)
(* every moment (dvr_wrapper.c:683, 1558, 2680).                           *)
THEOREM FollowCorrect == Spec => []IInv
BY InitIInv, NextIInv, PTL DEF Spec

(* Whenever the record context is free, the list of a playback that is     *)
(* loaded has each segment of the recording once and in order.             *)
THEOREM ListIsWhole == Spec => []ListWhole
<1>1. IInv => ListWhole
  BY DEF IInv, Whole, ListWhole
<1>. QED
  BY <1>1, FollowCorrect, PTL

(* ... and the final durations of those that ended, ...                    *)
THEOREM EndedAreFinal == Spec => []EndedIsFinal
<1>1. IInv => EndedIsFinal
  BY DEF IInv, Final, FinalTill, EndedIsFinal
<1>. QED
  BY <1>1, FollowCorrect, PTL

(* An application at rest holds no context lock, if its playback is that   *)
(* of the timeshift or of the recording (dvr_wrapper.c:1977).              *)
THEOREM LocksAreGivenBack ==
  ASSUME "plain" \notin Modes
  PROVE  Spec => []LocksGivenBack
<1>1. Init => mode # "plain"
  BY DEF Init
<1>2. mode # "plain" /\ [Next]_vars => (mode # "plain")'
  BY ModeStays
<1>3. IInv /\ mode # "plain" => LocksGivenBack
  BY DEF IInv, LocksInv, LocksGivenBack
<1>. QED
  BY <1>1, <1>2, <1>3, FollowCorrect, PTL DEF Spec

(* What the application has put in pause nobody else sets going: not the   *)
(* record task, whatever end of data is told, nor the player's thread.     *)
THEOREM HeldIsLeft == Spec => HeldStays
<1>. DEFINE Left == past.held = "yes" /\ past'.held = "yes" /\ player.state = "PAUSE"
                      => player'.state # "START"
<1>1. IInv /\ [Next]_vars => [Left]_vars
  <2>. SUFFICES ASSUME IInv, Next, past.held = "yes", past'.held = "yes",
                       player.state = "PAUSE"
                PROVE  player'.state # "START"
    OBVIOUS
  <2>1. note.speed = 0 /\ app.pc \notin Starting
    BY DEF IInv, HeldInv
  <2>2. CASE player' = player
    BY <2>2
  <2>3. CASE TaskUpdate
    <3>1. UpdatePlayback(cur, task.dur)
      BY <2>3 DEF TaskUpdate
    <3>. QED
      BY <2>1, <3>1, UpdateRecords DEF IInv
  <2>4. CASE TaskFinal
    <3>1. UpdatePlayback(cur - 1, dur[cur - 1])
      BY <2>4 DEF TaskFinal
    <3>. QED
      BY <2>1, <3>1, UpdateRecords DEF IInv
  <2>5. CASE Play
    BY <2>1, <2>5 DEF Play, IInv, Shape, PlayerShape, Sought, Starting
  <2>6. CASE FirstFrame
    BY <2>1, <2>6 DEF FirstFrame, IInv, Shape, PlayerShape, Sought, Starting
  <2>7. CASE NextSegment
    BY <2>1, <2>7 DEF NextSegment, Masks, IInv, Shape, PlayerShape, Sought, Starting
  <2>8. CASE ReachEnd
    BY <2>1, <2>8 DEF ReachEnd, IInv, Shape, PlayerShape, Sought, Starting
  <2>9. CASE PauseAtEnd
    BY <2>1, <2>9 DEF PauseAtEnd, Paused, IInv, Shape, PlayerShape, Sought, Starting
  <2>10. CASE TellEnd
    BY <2>1, <2>10 DEF TellEnd, IInv, Shape, PlayerShape, Sought, Starting
  <2>11. CASE Load
    BY <2>1, <2>11 DEF Load, IInv, Shape, PlayerShape, Sought, Starting
  <2>12. CASE SeekFirst
    BY <2>1, <2>12 DEF SeekFirst, Sought, IInv, Shape, PlayerShape, Starting
  <2>13. CASE Go
    BY <2>1, <2>13 DEF Go, Free, IInv, Shape, PlayerShape, Sought, Starting
  <2>14. CASE StopUpdate
    <3>1. UpdatePlayback(cur, dur[cur])
      BY <2>14 DEF StopUpdate
    <3>. QED
      BY <2>1, <3>1, UpdateRecords DEF IInv
  <2>15. CASE StopPlayback
    BY <2>1, <2>15 DEF StopPlayback, Called, Stopped, Holds, IInv, Shape,
      PlayerShape, Sought, Starting
  <2>16. CASE PausePlayback
    BY <2>1, <2>16 DEF PausePlayback, Called, Paused, Holds, IInv, Shape,
      PlayerShape, Sought, Starting
  <2>17. CASE ResumePlayback
    BY <2>1, <2>17 DEF ResumePlayback, Called, Going, Holds, IInv, Shape,
      PlayerShape, Sought, Starting
  <2>18. CASE SeekPlayback
    BY <2>1, <2>18 DEF SeekPlayback, Called, Sought, IInv, Shape, PlayerShape,
      Starting
  <2>. QED
    BY <2>2, <2>3, <2>4, <2>5, <2>6, <2>7, <2>8, <2>9, <2>10, <2>11, <2>12, <2>13,
      <2>14, <2>15, <2>16, <2>17, <2>18 DEF Next, RecordTask, Thread, InCall, Call,
      Record, Take, TaskNext, TaskAdd, TaskLink, HandleEvent, TellTime, LockRecord,
      LockPlayback, StopSegment, StartPlayback, SetSpeed, StopRecord, recording
<1>. QED
  BY <1>1, FollowCorrect, PTL DEF HeldStays, Spec

(***************************************************************************)
(* Sums of durations, and where a seek lands.                              *)
(***************************************************************************)
(* Among some numbers there is a least one, ...                            *)
LEMMA LeastOf ==
  ASSUME NEW S, S \subseteq Nat, S # {}
  PROVE  \E k \in S : \A j \in S : k <= j
<1>1. PICK R : IsWellFoundedOn(R, Nat) /\ \A j, k \in Nat : <<j, k>> \in R <=> j < k
  <2>1. \A j, k \in Nat : <<j, k>> \in OpToRel(<, Nat) <=> j < k
    BY Zenon DEF OpToRel
  <2>. QED
    BY <2>1, NatLessThanWellFounded, Zenon
<1>2. PICK k \in S : \A j \in S : ~ (<<j, k>> \in R)
  <2>1. IsWellFoundedOn(R, Nat)
    BY <1>1
  <2>. QED
    BY <2>1, WFMin
<1>3. ASSUME NEW j \in S PROVE k <= j
  <2>1. k \in Nat /\ j \in Nat
    OBVIOUS
  <2>2. ~ (j < k)
    BY <1>1, <1>2, <2>1, Zenon
  <2>. QED
    BY <2>1, <2>2
<1>. QED
  BY <1>3

(* ... which Min finds.                                                    *)
LEMMA MinOf ==
  ASSUME NEW S, S \subseteq Nat, S # {}
  PROVE  Min(S) \in S /\ \A j \in S : Min(S) <= j
BY LeastOf DEF Min

(* The smaller and the greater of two numbers.                             *)
LEMMA OfTwo ==
  ASSUME NEW a \in Nat, NEW b \in Nat
  PROVE  /\ Min({a, b}) = IF a <= b THEN a ELSE b
         /\ Max({a, b}) = IF a <= b THEN b ELSE a
<1>1. Min({a, b}) = IF a <= b THEN a ELSE b
  <2>1. Min({a, b}) \in {a, b} /\ \A j \in {a, b} : Min({a, b}) <= j
    BY MinOf
  <2>. QED
    BY <2>1
<1>2. Max({a, b}) = IF a <= b THEN b ELSE a
  <2>. DEFINE m == IF a <= b THEN b ELSE a
  <2>1. m \in {a, b} /\ \A y \in {a, b} : m >= y
    OBVIOUS
  <2>2. \A x \in {a, b} : (\A y \in {a, b} : x >= y) => x = m
    OBVIOUS
  <2>. HIDE DEF m
  <2>3. Max({a, b}) = m
    BY <2>1, <2>2 DEF Max
  <2>. QED
    BY <2>3 DEF m
<1>. QED
  BY <1>1, <1>2

(* The totals of the first durations of a list, up to the k-th, exist, ... *)
IsTotal(g, l, k) == g = [n \in 0 .. k |-> IF n = 0 THEN 0 ELSE g[n - 1] + l[n].dur]

(* ... by the least k for which they would not, ...                        *)
LEMMA TotalExists ==
  ASSUME NEW l, NEW k \in Nat
  PROVE  \E g : IsTotal(g, l, k)
<1>. DEFINE Bad == {n \in Nat : ~ \E g : IsTotal(g, l, n)}
<1>. SUFFICES ASSUME Bad # {} PROVE FALSE
  OBVIOUS
<1>1. PICK m \in Bad : \A j \in Bad : m <= j
  BY LeastOf
<1>2. CASE m = 0
  <2>. DEFINE h == [n \in 0 .. 0 |-> 0]
  <2>1. IsTotal(h, l, 0)
    <3>1. \A n \in 0 .. 0 : n = 0
      OBVIOUS
    <3>. QED
      BY <3>1 DEF IsTotal
  <2>. QED
    BY <1>1, <1>2, <2>1
<1>3. CASE m # 0
  <2>1. m - 1 \in Nat /\ m - 1 < m /\ m \in Nat
    BY <1>3
  <2>2. PICK g : IsTotal(g, l, m - 1)
    BY <1>1, <2>1
  <2>. DEFINE h == [n \in 0 .. m |-> IF n = m THEN g[m - 1] + l[m].dur ELSE g[n]]
  <2>3. \A n \in 0 .. m : h[n] = IF n = 0 THEN 0 ELSE h[n - 1] + l[n].dur
    <3>1. ASSUME NEW n \in 0 .. m - 1 PROVE g[n] = IF n = 0 THEN 0 ELSE g[n - 1] + l[n].dur
      BY <2>2 DEF IsTotal
    <3>2. ASSUME NEW n \in 0 .. m PROVE h[n] = IF n = 0 THEN 0 ELSE h[n - 1] + l[n].dur
      <4>1. CASE n = m
        <5>1. n - 1 \in 0 .. m /\ n - 1 # m
          BY <2>1, <4>1
        <5>. QED
          BY <1>3, <4>1, <5>1
      <4>2. CASE n # m
        <5>1. n \in 0 .. m - 1
          BY <2>1, <4>2
        <5>2. n # 0 => n - 1 \in 0 .. m /\ n - 1 # m
          BY <2>1, <5>1
        <5>. QED
          BY <3>1, <4>2, <5>1, <5>2
      <4>. QED
        BY <4>1, <4>2
    <3>. QED
      BY <3>2
  <2>4. IsTotal(h, l, m)
    <3>1. h = [n \in 0 .. m |-> h[n]]
      OBVIOUS
    <3>. HIDE DEF h
    <3>. QED
      BY <2>3, <3>1 DEF IsTotal
  <2>. QED
    BY <1>1, <2>4
<1>. QED
  BY <1>2, <1>3

(* ... so that Sum adds them one by one, ...                               *)
LEMMA SumSteps ==
  ASSUME NEW l \in Seq(Segments)
  PROVE  /\ Sum(0, l) = 0
         /\ \A i \in DOMAIN l : Sum(i, l) = Sum(i - 1, l) + l[i].dur
<1>. DEFINE t == CHOOSE g : IsTotal(g, l, Len(l))
<1>1. IsTotal(t, l, Len(l))
  BY TotalExists
<1>2. \A i : Sum(i, l) = t[i]
  BY DEF Sum, IsTotal
<1>. HIDE DEF t
<1>3. Len(l) \in Nat /\ DOMAIN l = 1 .. Len(l)
  OBVIOUS
<1>4. \A i \in 0 .. Len(l) : t[i] = IF i = 0 THEN 0 ELSE t[i - 1] + l[i].dur
  BY <1>1 DEF IsTotal
<1>. QED
  BY <1>2, <1>3, <1>4

(* ... to a number.                                                        *)
LEMMA SumIsNat ==
  ASSUME NEW l \in Seq(Segments)
  PROVE  \A i \in 0 .. Len(l) : Sum(i, l) \in Nat
<1>. DEFINE Bad == {i \in 0 .. Len(l) : ~(Sum(i, l) \in Nat)}
<1>. SUFFICES ASSUME Bad # {} PROVE FALSE
  OBVIOUS
<1>1. Len(l) \in Nat /\ DOMAIN l = 1 .. Len(l) /\ \A i \in DOMAIN l : l[i].dur \in Nat
  BY Lines
<1>2. PICK m \in Bad : \A j \in Bad : m <= j
  <2>1. Bad \subseteq Nat
    BY <1>1
  <2>. HIDE DEF Bad
  <2>. QED
    BY <2>1, LeastOf
<1>3. m # 0
  BY SumSteps
<1>4. m \in DOMAIN l /\ m - 1 \in 0 .. Len(l) /\ m - 1 < m
  BY <1>1, <1>3
<1>5. Sum(m - 1, l) \in Nat
  BY <1>2, <1>4
<1>6. Sum(m, l) = Sum(m - 1, l) + l[m].dur
  BY <1>4, SumSteps
<1>. QED
  BY <1>1, <1>4, <1>5, <1>6

(* No part of a list is longer than the whole.                             *)
LEMMA SumGrows ==
  ASSUME NEW l \in Seq(Segments), NEW i \in 0 .. Len(l)
  PROVE  Sum(i, l) <= Sum(Len(l), l)
<1>. DEFINE Bad == {j \in i .. Len(l) : ~(Sum(i, l) <= Sum(j, l))}
<1>1. Len(l) \in Nat /\ DOMAIN l = 1 .. Len(l) /\ \A j \in DOMAIN l : l[j].dur \in Nat
  BY Lines
<1>2. \A j \in 0 .. Len(l) : Sum(j, l) \in Nat
  BY SumIsNat
<1>3. SUFFICES ASSUME Bad # {} PROVE FALSE
  BY <1>1
<1>4. PICK m \in Bad : \A j \in Bad : m <= j
  <2>1. Bad \subseteq Nat
    BY <1>1
  <2>. HIDE DEF Bad
  <2>. QED
    BY <1>3, <2>1, LeastOf
<1>5. m # i
  BY <1>2
<1>6. m \in DOMAIN l /\ m - 1 \in i .. Len(l) /\ m - 1 < m
  BY <1>1, <1>5
<1>7. Sum(i, l) <= Sum(m - 1, l)
  BY <1>4, <1>6
<1>8. Sum(m, l) = Sum(m - 1, l) + l[m].dur
  BY <1>6, SumSteps
<1>. QED
  BY <1>1, <1>2, <1>6, <1>7, <1>8

(* A seek lands in one of the segments, at most at its end, and what its   *)
(* place is from the begin on is the time asked for, or the nearest.       *)
LEMMA PlaceOfSeek ==
  ASSUME NEW l \in Seq(Segments), l # <<>>, NEW obsolete \in Nat, NEW t \in Nat
  PROVE  \E k \in DOMAIN l : \E pos \in 0 .. l[k].dur :
           /\ SeekPlace(l, obsolete, t) = [seg |-> l[k].id, pos |-> pos]
           /\ obsolete + Sum(k - 1, l) + pos =
                IF t <= obsolete THEN obsolete
                ELSE IF t <= obsolete + Sum(Len(l), l) THEN t
                ELSE obsolete + Sum(Len(l), l)
<1>1. /\ Len(l) \in Nat /\ Len(l) > 0 /\ DOMAIN l = 1 .. Len(l)
      /\ \A i \in DOMAIN l : l[i].dur \in Nat
  <2>1. Len(l) > 0
    OBVIOUS
  <2>. QED
    BY <2>1, Lines
<1>2. \A i \in 0 .. Len(l) : Sum(i, l) \in Nat /\ Sum(i, l) <= Sum(Len(l), l)
  BY SumIsNat, SumGrows
<1>3. Sum(0, l) = 0 /\ \A i \in DOMAIN l : Sum(i, l) = Sum(i - 1, l) + l[i].dur
  BY SumSteps
<1>. DEFINE hit == {i \in DOMAIN l : obsolete + Sum(i, l) >= t}
<1>4. CASE t <= obsolete
  <2>1. SeekPlace(l, obsolete, t) = [seg |-> l[1].id, pos |-> 0]
    BY <1>4 DEF SeekPlace
  <2>2. 1 \in DOMAIN l /\ 0 \in 0 .. l[1].dur
    BY <1>1
  <2>3. obsolete + Sum(1 - 1, l) + 0 = obsolete
    BY <1>3
  <2>. QED
    BY <1>4, <2>1, <2>2, <2>3
<1>5. CASE t > obsolete /\ hit = {}
  <2>1. SeekPlace(l, obsolete, t) = [seg |-> l[Len(l)].id, pos |-> l[Len(l)].dur]
    BY <1>5 DEF SeekPlace
  <2>2. Len(l) \in DOMAIN l /\ l[Len(l)].dur \in 0 .. l[Len(l)].dur /\ Len(l) - 1 \in 0 .. Len(l)
    BY <1>1
  <2>3. ~(t <= obsolete + Sum(Len(l), l)) /\ ~(t <= obsolete)
    BY <1>2, <1>5, <2>2
  <2>4. obsolete + Sum(Len(l) - 1, l) + l[Len(l)].dur = obsolete + Sum(Len(l), l)
    BY <1>1, <1>2, <1>3, <2>2
  <2>. QED
    BY <2>1, <2>2, <2>3, <2>4
<1>6. CASE t > obsolete /\ hit # {}
  <2>. DEFINE k == Min(hit)
  <2>1. k \in hit /\ \A j \in hit : k <= j
    <3>1. hit \subseteq Nat
      BY <1>1
    <3>. HIDE DEF hit
    <3>. QED
      BY <1>6, <3>1, MinOf
  <2>2. SeekPlace(l, obsolete, t) = [seg |-> l[k].id, pos |-> t - obsolete - Sum(k - 1, l)]
    BY <1>6 DEF SeekPlace
  <2>. HIDE DEF k
  <2>3. k \in DOMAIN l /\ obsolete + Sum(k, l) >= t
    BY <2>1
  <2>4. /\ k - 1 \in 0 .. Len(l) /\ k \in 0 .. Len(l)
        /\ Sum(k, l) = Sum(k - 1, l) + l[k].dur /\ l[k].dur \in Nat
        /\ Sum(k - 1, l) \in Nat /\ Sum(k, l) <= Sum(Len(l), l) /\ Sum(Len(l), l) \in Nat
    BY <1>1, <1>2, <1>3, <2>3
  <2>5. t > obsolete + Sum(k - 1, l)
    <3>1. CASE k = 1
      BY <1>3, <1>6, <3>1
    <3>2. CASE k # 1
      <4>1. k - 1 \in DOMAIN l /\ ~(k <= k - 1)
        BY <1>1, <2>3, <3>2
      <4>. QED
        BY <2>1, <2>4, <4>1
    <3>. QED
      BY <3>1, <3>2
  <2>6. t - obsolete - Sum(k - 1, l) \in 0 .. l[k].dur
    BY <2>3, <2>4, <2>5
  <2>7. t <= obsolete + Sum(Len(l), l) /\ ~(t <= obsolete)
    BY <1>6, <2>3, <2>4
  <2>8. obsolete + Sum(k - 1, l) + (t - obsolete - Sum(k - 1, l)) = t
    BY <2>4
  <2>. QED
    BY <2>2, <2>3, <2>6, <2>7, <2>8
<1>. QED
  BY <1>4, <1>5, <1>6

(* The time of a place in an entry of a list whose ids are distinct.       *)
LEMMA TimeOfPlace ==
  ASSUME NEW l \in Seq(Segments), NEW k \in DOMAIN l, NEW pos \in Nat,
         \A i, j \in DOMAIN l : i < j => l[i].id < l[j].id
  PROVE  TimeOf(l, [seg |-> l[k].id, pos |-> pos]) = pos + Sum(k - 1, l)
<1>1. DOMAIN l \subseteq Nat /\ \A i \in DOMAIN l : l[i].id \in Nat
  BY Lines
<1>2. \A i \in DOMAIN l : l[i].id = l[k].id => i = k
  <2>1. ASSUME NEW i \in DOMAIN l, l[i].id = l[k].id PROVE i = k
    <3>1. ~(i < k) /\ ~(k < i)
      BY <1>1, <2>1
    <3>. QED
      BY <1>1, <3>1
  <2>. QED
    BY <2>1
<1>3. {i \in DOMAIN l : l[i].id = l[k].id} = {k}
  BY <1>2
<1>4. Min({k}) = k
  <2>1. {k} \subseteq Nat
    BY <1>1
  <2>2. Min({k}) \in {k}
    BY <2>1, MinOf
  <2>. QED
    BY <2>2
<1>. QED
  BY <1>3, <1>4 DEF TimeOf

(* So the place of a seek is reported as the time that was asked for.      *)
LEMMA SeeksLand ==
  ASSUME Shape, \A i, j \in DOMAIN list : i < j => list[i].id < list[j].id
  PROVE  SeekLands
<1>. SUFFICES ASSUME list # <<>>, NEW obsolete \in {0, 2},
                     NEW t \in 0 .. Sum(Len(list), list) + 3
              PROVE  obsolete + TimeOf(list, SeekPlace(list, obsolete, t)) =
                       Max({obsolete, Min({t, obsolete + Sum(Len(list), list)})})
  BY DEF SeekLands
<1>1. list \in Seq(Segments) /\ obsolete \in Nat /\ Len(list) \in Nat
  BY DEF Shape, DataShape
<1>2. Sum(Len(list), list) \in Nat
  BY <1>1, SumIsNat
<1>3. t \in Nat
  BY <1>2
<1>. DEFINE End == obsolete + Sum(Len(list), list)
<1>4. PICK k \in DOMAIN list : \E pos \in 0 .. list[k].dur :
        /\ SeekPlace(list, obsolete, t) = [seg |-> list[k].id, pos |-> pos]
        /\ obsolete + Sum(k - 1, list) + pos =
             IF t <= obsolete THEN obsolete ELSE IF t <= End THEN t ELSE End
  BY <1>1, <1>3, PlaceOfSeek
<1>10. PICK pos \in 0 .. list[k].dur :
        /\ SeekPlace(list, obsolete, t) = [seg |-> list[k].id, pos |-> pos]
        /\ obsolete + Sum(k - 1, list) + pos =
             IF t <= obsolete THEN obsolete ELSE IF t <= End THEN t ELSE End
  BY <1>4
<1>5. pos \in Nat
  BY <1>1, <1>10, ListLines
<1>6. TimeOf(list, SeekPlace(list, obsolete, t)) = pos + Sum(k - 1, list)
  BY <1>1, <1>10, <1>5, TimeOfPlace
<1>7. Sum(k - 1, list) \in Nat
  <2>1. k - 1 \in 0 .. Len(list)
    BY <1>1, ListLines
  <2>. QED
    BY <1>1, <2>1, SumIsNat
<1>8. End \in Nat /\ End >= obsolete
  BY <1>1, <1>2
<1>. HIDE DEF End
<1>9. Max({obsolete, Min({t, End})}) =
        IF t <= obsolete THEN obsolete ELSE IF t <= End THEN t ELSE End
  <2>1. Min({t, End}) = IF t <= End THEN t ELSE End
    BY <1>3, <1>8, OfTwo
  <2>2. Min({t, End}) \in Nat
    BY <1>3, <1>8, <2>1
  <2>3. Max({obsolete, Min({t, End})}) =
          IF obsolete <= Min({t, End}) THEN Min({t, End}) ELSE obsolete
    BY <1>1, <2>2, OfTwo
  <2>. QED
    BY <1>1, <1>3, <1>8, <2>1, <2>3
<1>. QED
  BY <1>1, <1>10, <1>5, <1>6, <1>7, <1>9 DEF End

(***************************************************************************)
(* Where the player and the places told of it can be, for a playback that  *)
(* follows a recording.                                                    *)
(***************************************************************************)
(* No duration passes that of a full segment, the list file is not ahead,  *)
(* and a status of the recorder tells no more than was recorded.           *)
Bounds ==
  /\ dur \in [Ids -> 0 .. MaxDur] /\ linked \in 0 .. cur
  /\ task.pc = "update" => task.dur <= dur[cur]
  /\ calls \in 0 .. MaxCall /\ past.masked \in BOOLEAN

(* The ids of the list rise to the newest that may be in it, whatever it   *)
(* misses, and no duration in it is above that of the data.                *)
NewestListed == IF task.pc \in {"final", "add"} THEN cur - 1 ELSE cur
Rising ==
  /\ \A i \in DOMAIN list : list[i].id <= NewestListed /\ list[i].dur <= dur[list[i].id]
  /\ \A i, j \in DOMAIN list : i < j => list[i].id < list[j].id

(* So a seek, too, leaves the player inside the data of a segment, and so  *)
(* are the places it tells.                                                *)
Told == [event : {"OK", "END"}, state : States, seg : Ids, pos : 0 .. MaxDur]
Noted == [last : {"NONE", "OK", "END"}, state : States, seg : Ids, pos : 0 .. MaxDur,
          speed : 0 .. 1]
PlayerInside == player.seg \in Ids /\ player.pos \in 0 .. dur[player.seg]
NotesInside == note \in Noted /\ pevents \in Seq(Told)

(* Each start adds one event to those there is room for, a playback that is*)
(* stopped has a list only while it is started, and one that seeks has it. *)
Starts ==
  /\ app.pc \in Starting => calls > 0
  /\ app.pc = "seek" => list # <<>>
  /\ Len(pevents) + (IF app.pc \in Starting THEN 1 ELSE 0) <= MaxEvents + calls
  /\ player.state = "STOP" => list = <<>> \/ app.pc \in Starting

SeekInv == Follows /\ Bounds /\ Rising /\ PlayerInside /\ NotesInside /\ Starts

(* The bounds of the data and of what was told of them.                    *)
LEMMA BoundsNext ==
  ASSUME IInv, Bounds, Next
  PROVE  Bounds'
<1>1. cur \in Ids /\ cur \in Nat /\ linked \in Nat /\ TaskShape
  BY Numbers DEF IInv, Shape, DataShape
<1>2. /\ dur' \in [Ids -> 0 .. MaxDur]
      /\ \/ dur' = dur
         \/ task' = task /\ cur' = cur /\ dur'[cur] >= dur[cur]
  <2>1. CASE Record
    <3>1. dur[cur] \in 0 .. MaxDur /\ dur[cur] < MaxDur /\ MaxDur \in Nat
      BY <1>1, <2>1, Numbers DEF Bounds, Record
    <3>2. dur' = [dur EXCEPT ![cur] = dur[cur] + 1] /\ dur[cur] + 1 \in 0 .. MaxDur
      BY <2>1, <3>1 DEF Record
    <3>3. dur' \in [Ids -> 0 .. MaxDur] /\ dur'[cur] = dur[cur] + 1
      BY <1>1, <3>2 DEF Bounds
    <3>. QED
      BY <2>1, <3>1, <3>3 DEF Record
  <2>2. CASE ~Record
    <3>1. dur' = dur
      BY <2>2 DEF Next, RecordTask, Thread, InCall, Call, Take, TaskUpdate, TaskNext,
        TaskFinal, TaskAdd, TaskLink, HandleEvent, Play, FirstFrame, NextSegment, ReachEnd,
        PauseAtEnd, TellEnd, TellTime, LockRecord, LockPlayback, Load, SeekFirst, Go,
        StopSegment, StopUpdate, StartPlayback, StopPlayback, PausePlayback, ResumePlayback,
        SetSpeed, SeekPlayback, StopRecord, recording
    <3>. QED
      BY <3>1 DEF Bounds
  <2>. QED
    BY <2>1, <2>2
<1>3. linked' \in 0 .. cur'
  <2>1. CASE TaskNext
    BY <1>1, <2>1 DEF TaskNext, Bounds
  <2>2. CASE TaskLink
    BY <1>1, <2>2 DEF TaskLink, Bounds
  <2>3. CASE ~TaskNext /\ ~TaskLink
    <3>1. linked' = linked /\ cur' = cur
      BY <2>3 DEF Next, RecordTask, Thread, InCall, Call, Record, Take, TaskUpdate,
        TaskFinal, TaskAdd, HandleEvent, Play, FirstFrame, NextSegment, ReachEnd,
        PauseAtEnd, TellEnd, TellTime, LockRecord, LockPlayback, Load, SeekFirst, Go,
        StopSegment, StopUpdate, StartPlayback, StopPlayback, PausePlayback, ResumePlayback,
        SetSpeed, SeekPlayback, StopRecord, recording
    <3>. QED
      BY <3>1 DEF Bounds
  <2>. QED
    BY <2>1, <2>2, <2>3
<1>4. task'.pc = "update" => task'.dur <= dur'[cur']
  <2>. SUFFICES ASSUME task'.pc = "update" PROVE task'.dur <= dur'[cur']
    OBVIOUS
  <2>1. dur[cur] \in Nat /\ dur'[cur] \in Nat
    BY <1>1, <1>2 DEF Bounds
  <2>2. CASE Take
    <3>1. PICK d \in IF running THEN {dur[cur]} ELSE 1 .. dur[cur] :
            task' = [pc |-> "update", dur |-> d]
      BY <2>2 DEF Take
    <3>2. d <= dur[cur]
      BY <2>1, <3>1
    <3>3. cur' = cur /\ dur' = dur
      BY <2>2 DEF Take
    <3>. QED
      BY <3>1, <3>2, <3>3
  <2>3. CASE TaskUpdate \/ TaskNext \/ TaskFinal \/ TaskAdd \/ TaskLink
    <3>1. \E pc \in {"next", "idle", "final", "add", "link"} : task' = [pc |-> pc, dur |-> 0]
      BY <2>3, Zenon DEF TaskUpdate, TaskNext, TaskFinal, TaskAdd, TaskLink, Goto
    <3>. QED
      BY <3>1
  <2>4. CASE ~Take /\ ~(TaskUpdate \/ TaskNext \/ TaskFinal \/ TaskAdd \/ TaskLink)
    <3>1. task' = task /\ cur' = cur
      BY <2>4 DEF Next, RecordTask, Thread, InCall, Call, Record, HandleEvent, Play,
        FirstFrame, NextSegment, ReachEnd, PauseAtEnd, TellEnd, TellTime, LockRecord, LockPlayback, Load, SeekFirst, Go,
        StopSegment, StopUpdate, StartPlayback, StopPlayback, PausePlayback, ResumePlayback,
        SetSpeed, SeekPlayback, StopRecord, recording
    <3>2. task.dur \in Nat /\ task.dur <= dur[cur]
      BY <1>1, <3>1 DEF Bounds, TaskShape
    <3>. QED
      BY <1>2, <2>1, <3>1, <3>2
  <2>. QED
    BY <2>2, <2>3, <2>4
<1>5. calls' \in 0 .. MaxCall
  <2>1. calls' = calls \/ (calls < MaxCall /\ calls' = calls + 1)
    BY DEF Next, RecordTask, Thread, InCall, Call, Record, Take, TaskUpdate, TaskNext,
      TaskFinal, TaskAdd, TaskLink, HandleEvent, Play, FirstFrame, NextSegment, ReachEnd,
      PauseAtEnd, TellEnd, TellTime, LockRecord, LockPlayback, Load, SeekFirst, Go,
      StopSegment, StopUpdate, StartPlayback, StopPlayback, PausePlayback, ResumePlayback,
      SetSpeed, SeekPlayback, StopRecord, Called
  <2>. QED
    BY <2>1, FollowAssumption DEF Bounds
<1>6. past'.masked \in BOOLEAN
  <2>1. PastShape
    BY DEF IInv, Shape
  <2>2. CASE FirstFrame
    <3>1. past'.masked = past.masked
      BY <2>1, <2>2 DEF FirstFrame, PastShape
    <3>. QED
      BY <3>1 DEF Bounds
  <2>3. CASE NextSegment
    <3>1. past'.masked = (past.masked \/ player.state = "PAUSE")
      BY <2>1, <2>3 DEF NextSegment, Masks, PastShape
    <3>. QED
      BY <3>1
  <2>4. CASE TellEnd
    BY <2>1, <2>4 DEF TellEnd, PastShape
  <2>5. CASE Load
    <3>1. \E live, missed \in BOOLEAN :
            past' = [past EXCEPT !.held = IF live THEN "yes" ELSE "no", !.missed = missed]
      BY <2>5 DEF Load
    <3>2. past'.masked = past.masked
      BY <2>1, <3>1 DEF PastShape
    <3>. QED
      BY <3>2 DEF Bounds
  <2>6. CASE StopPlayback \/ PausePlayback \/ ResumePlayback \/ SetSpeed
    <3>1. \E h : past' = [past EXCEPT !.held = h]
      BY <2>6 DEF StopPlayback, PausePlayback, ResumePlayback, SetSpeed, Holds
    <3>2. past'.masked = past.masked
      BY <2>1, <3>1 DEF PastShape
    <3>. QED
      BY <3>2 DEF Bounds
  <2>7. CASE UNCHANGED past
    BY <2>7 DEF Bounds
  <2>. QED
    BY <2>2, <2>3, <2>4, <2>5, <2>6, <2>7 DEF Next, RecordTask, Thread, InCall, Call,
      Record, Take, TaskUpdate, TaskNext, TaskFinal, TaskAdd, TaskLink, HandleEvent, Play,
      ReachEnd, PauseAtEnd, TellTime, LockRecord, LockPlayback, SeekFirst, Go,
      StopSegment, StopUpdate, StartPlayback, SeekPlayback, StopRecord
<1>. QED
  BY <1>2, <1>3, <1>4, <1>5, <1>6 DEF Bounds

(* The list a start loads has no more than the data, nor ids that the list *)
(* may not have yet.                                                       *)
LEMMA LoadedInside ==
  ASSUME IInv, Follows, Bounds, Load
  PROVE  /\ list' \in Seq(Segments) /\ DOMAIN list' \subseteq Nat
         /\ \A i \in DOMAIN list' : /\ list'[i].id = i - 1 /\ list'[i].id <= NewestListed
                                    /\ list'[i].dur <= dur[i - 1]
<1>1. Shape /\ LinkInv /\ LocksInv
  BY DEF IInv
<1>2. PICK n \in Nat : /\ n <= cur /\ n \in Ids /\ Loaded = 0 .. n
                       /\ n = CASE mode = "timeshift" -> cur
                                [] mode = "recording" -> linked
                                [] mode = "plain"     -> 0
  BY <1>1, LoadedTill
<1>3. Cardinality(Loaded) = n + 1 /\ Max(Loaded) = n
  BY <1>2, Interval
<1>4. PICK last \in Durations(Max(Loaded)) :
        list' = [i \in 1 .. Cardinality(Loaded) |->
                  [id |-> i - 1, dur |-> IF i = Cardinality(Loaded) THEN last ELSE Data(i - 1)]]
  BY DEF Load
<1>5. \A s \in Ids : Data(s) = dur[s] /\ dur[s] \in Nat
  BY <1>1 DEF Shape, DataShape, Data
<1>6. last \in Nat /\ last <= dur[n]
  <2>1. last \in Durations(n) /\ Data(n) = dur[n] /\ dur[n] \in Nat
    BY <1>2, <1>3, <1>4, <1>5
  <2>2. last = Data(n) \/ (last = Data(n) - 1 /\ last \in Nat)
    BY <2>1 DEF Durations
  <2>. QED
    BY <2>1, <2>2
<1>7. /\ list' \in Seq(Segments) /\ DOMAIN list' = 1 .. n + 1
      /\ \A i \in DOMAIN list' : list'[i].id = i - 1
  BY <1>1, <1>3, LoadList
<1>8. n <= NewestListed /\ NewestListed \in Int
  <2>1. cur \in Nat /\ linked \in Nat
    BY <1>1, Numbers DEF Shape, DataShape
  <2>2. CASE mode = "timeshift"
    <3>1. app.pc = "load"
      BY DEF Load
    <3>2. task.pc = "idle"
      BY <1>1, <2>2, <3>1, Zenon DEF LocksInv
    <3>. QED
      BY <1>2, <2>1, <2>2, <3>2 DEF NewestListed
  <2>3. CASE mode = "recording"
    <3>1. n = linked
      BY <1>2, <2>3
    <3>. QED
      BY <1>1, <2>1, <2>3, <3>1 DEF NewestListed, LinkInv
  <2>. QED
    BY <1>1, <2>2, <2>3 DEF Follows, Shape, DataShape
<1>9. ASSUME NEW i \in DOMAIN list'
      PROVE  list'[i].id <= NewestListed /\ list'[i].dur <= dur[i - 1]
  <2>1. i \in 1 .. n + 1 /\ i - 1 \in Nat /\ i - 1 <= n /\ i \in Nat
    BY <1>7
  <2>2. list'[i].id = i - 1
    BY <1>7
  <2>3. list'[i].dur = IF i = n + 1 THEN last ELSE Data(i - 1)
    BY <1>3, <1>4, <2>1
  <2>4. i - 1 \in Ids
    <3>1. n \in Ids
      BY <1>2
    <3>. QED
      BY <2>1, <3>1, Numbers DEF Ids
  <2>5. i - 1 <= NewestListed
    BY <1>8, <2>1
  <2>6. i = n + 1 => i - 1 = n
    OBVIOUS
  <2>. QED
    BY <1>5, <1>6, <2>2, <2>3, <2>4, <2>5, <2>6
<1>. QED
  BY <1>7, <1>9

(* The ids of a list that rises are those of segments.                     *)
LEMMA ListedIds ==
  ASSUME IInv, Rising
  PROVE  \A i \in DOMAIN list : list[i].id \in Ids
<1>1. /\ cur \in 0 .. MaxSegment - 1 /\ MaxSegment \in Nat
      /\ \A i \in DOMAIN list : list[i].id \in Nat
  BY ListLines, Numbers DEF IInv, Shape, DataShape, Ids
<1>2. NewestListed \in Int /\ NewestListed <= cur
  BY <1>1 DEF NewestListed
<1>3. ASSUME NEW i \in DOMAIN list PROVE list[i].id \in 0 .. MaxSegment - 1
  BY <1>1, <1>2 DEF Rising
<1>. QED
  BY <1>3 DEF Ids

(* The section of wrapper_updatePlaybackSegment keeps the list in bounds   *)
(* if the duration it is given is one of the data.                         *)
LEMMA UpdateRises ==
  ASSUME IInv, Follows, Rising, NEW s \in Ids, NEW d \in Nat, UpdatePlayback(s, d),
         d <= dur[s], dur' = dur
  PROVE  /\ \A i \in DOMAIN list' : /\ list'[i].id <= NewestListed
                                    /\ list'[i].dur <= dur'[list'[i].id]
         /\ \A i, j \in DOMAIN list' : i < j => list'[i].id < list'[j].id
<1>1. s \in Nat
  BY Numbers
<1>2. /\ DOMAIN list' = DOMAIN list
      /\ \A i \in DOMAIN list : /\ list'[i].id = list[i].id
                                /\ list[i].id # s => list'[i].dur = list[i].dur
                                /\ list[i].id = s => list'[i].dur = d
  BY <1>1, UpdateKeeps DEF IInv
<1>. QED
  BY <1>2 DEF Rising

(* The list rises.                                                         *)
LEMMA RisingNext ==
  ASSUME IInv, Follows, Bounds, Rising, Next
  PROVE  Rising'
<1>1. /\ cur \in Ids /\ cur \in Nat /\ list \in Seq(Segments) /\ Shape
      /\ \A s \in Ids : dur[s] \in Nat
  BY Numbers DEF IInv, Shape, DataShape
<1>2. /\ Len(list) \in Nat /\ DOMAIN list = 1 .. Len(list)
      /\ \A i \in DOMAIN list : list[i].id \in Ids /\ list[i].id \in Nat /\ list[i].dur \in Nat
  BY <1>1, ListLines, ListedIds
<1>3. CASE Record
  <2>1. dur' = [dur EXCEPT ![cur] = dur[cur] + 1] /\ list' = list /\ NewestListed' = NewestListed
    BY <1>3 DEF Record, NewestListed
  <2>2. \A s \in Ids : dur'[s] \in Nat /\ dur[s] <= dur'[s]
    BY <1>1, <2>1 DEF Shape, DataShape
  <2>. QED
    BY <1>2, <1>1, <2>1, <2>2 DEF Rising
<1>4. CASE TaskUpdate
  <2>1. UpdatePlayback(cur, task.dur) /\ dur' = dur /\ task.dur <= dur[cur] /\ task.dur \in Nat
    BY <1>1, <1>4 DEF TaskUpdate, Bounds, Shape, TaskShape
  <2>2. NewestListed' = NewestListed
    BY <1>4 DEF TaskUpdate, Goto, NewestListed
  <2>. QED
    BY <1>1, <2>1, <2>2, UpdateRises DEF Rising
<1>5. CASE TaskNext
  <2>1. NewestListed' = NewestListed /\ list' = list /\ dur' = dur
    BY <1>1, <1>5 DEF TaskNext, Goto, NewestListed
  <2>. QED
    BY <2>1 DEF Rising
<1>6. CASE TaskFinal
  <2>1. cur - 1 \in Ids
    BY <1>6, Numbers DEF TaskFinal, IInv, Shape, DataShape, LinkInv, Ids
  <2>2. UpdatePlayback(cur - 1, dur[cur - 1]) /\ dur' = dur /\ NewestListed' = NewestListed
    BY <1>6 DEF TaskFinal, Goto, NewestListed
  <2>3. dur[cur - 1] \in Nat
    BY <1>1, <2>1
  <2>. QED
    BY <2>1, <2>2, <2>3, UpdateRises DEF Rising
<1>7. CASE TaskAdd
  <2>1. NewestListed = cur - 1 /\ NewestListed' = cur /\ dur' = dur
    BY <1>7 DEF TaskAdd, Goto, NewestListed
  <2>2. CASE list # <<>>
    <3>1. list' = Append(list, [id |-> cur, dur |-> 0])
      BY <1>7, <2>2 DEF TaskAdd
    <3>2. DOMAIN list' = 1 .. Len(list) + 1
      BY <1>1, <1>2, <3>1
    <3>3. /\ \A i \in DOMAIN list : list'[i] = list[i]
          /\ list'[Len(list) + 1].id = cur /\ list'[Len(list) + 1].dur = 0
      BY <1>1, <1>2, <3>1
    <3>4. \A i \in DOMAIN list' : i \in DOMAIN list \/ i = Len(list) + 1
      BY <1>2, <3>2
    <3>5. \A i \in DOMAIN list' : list'[i].id <= cur /\ list'[i].dur <= dur[list'[i].id]
      BY <1>1, <1>2, <2>1, <3>3, <3>4 DEF Rising
    <3>6. ASSUME NEW i \in DOMAIN list', NEW j \in DOMAIN list', i < j
          PROVE  list'[i].id < list'[j].id
      <4>1. i \in DOMAIN list
        BY <1>2, <3>2, <3>4, <3>6
      <4>2. CASE j \in DOMAIN list
        BY <3>3, <3>6, <4>1, <4>2 DEF Rising
      <4>3. CASE j = Len(list) + 1
        <5>1. list[i].id <= cur - 1
          BY <2>1, <4>1 DEF Rising
        <5>. QED
          BY <1>1, <1>2, <3>3, <4>1, <4>3, <5>1
      <4>. QED
        BY <3>4, <4>2, <4>3
    <3>. QED
      BY <2>1, <3>5, <3>6 DEF Rising
  <2>3. CASE list = <<>>
    <3>1. DOMAIN list' = {}
      BY <1>7, <2>3 DEF TaskAdd
    <3>. QED
      BY <3>1 DEF Rising
  <2>. QED
    BY <2>2, <2>3
<1>8. CASE Load
  <2>1. /\ DOMAIN list' \subseteq Nat
        /\ \A i \in DOMAIN list' : /\ list'[i].id = i - 1 /\ list'[i].id <= NewestListed
                                   /\ list'[i].dur <= dur[i - 1]
    BY <1>8, LoadedInside
  <2>2. dur' = dur /\ NewestListed' = NewestListed
    BY <1>8 DEF Load, NewestListed, recording
  <2>3. \A i, j \in DOMAIN list' : i < j => list'[i].id < list'[j].id
    BY <2>1
  <2>. QED
    BY <2>1, <2>2, <2>3 DEF Rising
<1>9. CASE StopPlayback
  <2>1. DOMAIN list' = {}
    BY <1>9 DEF StopPlayback
  <2>. QED
    BY <2>1 DEF Rising
<1>10. CASE StopUpdate
  <2>1. UpdatePlayback(cur, dur[cur]) /\ dur' = dur /\ NewestListed' = NewestListed
    BY <1>10 DEF StopUpdate, recording, NewestListed
  <2>. QED
    BY <1>1, <2>1, UpdateRises DEF Rising
<1>11. CASE UNCHANGED <<list, dur, cur>> /\ NewestListed' = NewestListed
  BY <1>11 DEF Rising
<1>12. CASE Take \/ TaskLink
  <2>1. UNCHANGED <<list, dur, cur>> /\ NewestListed' = NewestListed
    BY <1>12 DEF Take, TaskLink, Goto, RecFree, NewestListed
  <2>. QED
    BY <1>11, <2>1
<1>13. CASE UNCHANGED <<list, dur, cur, task>>
  <2>1. NewestListed' = NewestListed
    BY <1>13 DEF NewestListed
  <2>. QED
    BY <1>11, <1>13, <2>1
<1>. QED
  BY <1>3, <1>4, <1>5, <1>6, <1>7, <1>8, <1>9, <1>10, <1>12, <1>13 DEF Next, RecordTask,
    Thread, InCall, Call, HandleEvent, Play, FirstFrame, NextSegment, ReachEnd, PauseAtEnd,
    TellEnd, TellTime, LockRecord, LockPlayback, SeekFirst, Go, StopSegment, StartPlayback,
    PausePlayback, ResumePlayback, SetSpeed, SeekPlayback, StopRecord, recording

(* Durations are numbers.                                                  *)
LEMMA DurIsNat ==
  ASSUME IInv
  PROVE  \A s \in Ids : dur[s] \in Nat
BY DEF IInv, Shape, DataShape

(* A place that a seek finds is inside the data of a segment.              *)
LEMMA SeekInside ==
  ASSUME IInv, Bounds, Rising, list # <<>>, NEW t \in Nat
  PROVE  \E s \in Ids : \E pos \in 0 .. dur[s] :
           SeekPlace(list, 0, t) = [seg |-> s, pos |-> pos]
<1>1. list \in Seq(Segments)
  BY DEF IInv, Shape, DataShape
<1>2. PICK k \in DOMAIN list : \E pos \in 0 .. list[k].dur :
        SeekPlace(list, 0, t) = [seg |-> list[k].id, pos |-> pos]
  BY <1>1, PlaceOfSeek
<1>3. PICK pos \in 0 .. list[k].dur : SeekPlace(list, 0, t) = [seg |-> list[k].id, pos |-> pos]
  BY <1>2
<1>4. list[k].id \in Ids /\ list[k].dur <= dur[list[k].id] /\ list[k].dur \in Nat
  BY <1>1, ListLines, ListedIds DEF Rising
<1>5. dur[list[k].id] \in Nat
  BY <1>4, DurIsNat
<1>6. pos \in 0 .. dur[list[k].id]
  BY <1>4, <1>5
<1>. QED
  BY <1>3, <1>4, <1>6

(* dvr_playback_seek goes to the place it is given, ...                    *)
LEMMA SoughtInside ==
  ASSUME PlayerShape, NEW at, player' = Sought(player, at)
  PROVE  player'.seg = at.seg /\ player'.pos = at.pos
BY DEF PlayerShape, Sought

(* ... and the other calls on the player leave it where it is.             *)
LEMMA PlaceStays ==
  ASSUME PlayerShape, player' \in {player, Going(player), Paused(player)}
  PROVE  player'.seg = player.seg /\ player'.pos = player.pos
BY DEF PlayerShape, Going, Paused

(* The player is inside the data.                                          *)
LEMMA PlayerInsideNext ==
  ASSUME IInv, Follows, Bounds, Rising, PlayerInside, Starts, Next
  PROVE  PlayerInside'
<1>1. /\ PlayerShape /\ MaxDur \in Nat /\ cur \in Ids /\ 0 \in Ids
      /\ player.seg \in Ids /\ dur[player.seg] \in Nat /\ player.pos \in Nat
      /\ player.pos <= dur[player.seg] /\ dur[0] \in Nat
  <2>1. PlayerShape /\ MaxDur \in Nat /\ cur \in Ids /\ 0 \in Ids
    BY Numbers DEF IInv, Shape, DataShape
  <2>2. player.seg \in Ids /\ player.pos \in 0 .. dur[player.seg]
    BY DEF PlayerInside
  <2>3. dur[player.seg] \in Nat /\ dur[0] \in Nat
    BY <2>1, <2>2, DurIsNat
  <2>. QED
    BY <2>1, <2>2, <2>3
<1>2. CASE dur' = dur /\ player'.seg = player.seg /\ player'.pos = player.pos
  BY <1>2 DEF PlayerInside
<1>3. CASE Record
  <2>1. dur' = [dur EXCEPT ![cur] = dur[cur] + 1] /\ player' = player
    BY <1>3 DEF Record
  <2>2. dur'[player.seg] \in Nat /\ dur'[player.seg] >= dur[player.seg]
    BY <1>1, <2>1 DEF IInv, Shape, DataShape
  <2>. QED
    BY <1>1, <2>1, <2>2 DEF PlayerInside
<1>4. CASE TaskUpdate \/ TaskFinal \/ StopUpdate
  <2>1. dur' = dur /\ \E s, d : UpdatePlayback(s, d)
    BY <1>4 DEF TaskUpdate, TaskFinal, StopUpdate, recording
  <2>2. player' = player \/ player' = Going(player)
    BY <2>1 DEF UpdatePlayback
  <2>. QED
    BY <1>1, <1>2, <2>1, <2>2, PlaceStays
<1>5. CASE Play
  <2>1. player' = [player EXCEPT !.pos = @ + 1] /\ dur' = dur /\ player.pos < dur[player.seg]
    BY <1>5 DEF Play, More, Data, recording
  <2>2. player'.seg = player.seg /\ player'.pos = player.pos + 1
    BY <1>1, <2>1 DEF PlayerShape
  <2>. QED
    BY <1>1, <2>1, <2>2 DEF PlayerInside
<1>6. CASE FirstFrame \/ ReachEnd \/ TellEnd
  <2>1. dur' = dur /\ player'.seg = player.seg /\ player'.pos = player.pos
    BY <1>1, <1>6 DEF FirstFrame, ReachEnd, TellEnd, PlayerShape, recording
  <2>. QED
    BY <1>2, <2>1
<1>7. CASE PauseAtEnd
  <2>1. dur' = dur /\ player'.seg = player.seg /\ player'.pos = player.pos
    BY <1>1, <1>7 DEF PauseAtEnd, Paused, PlayerShape, recording
  <2>. QED
    BY <1>2, <2>1
<1>8. CASE NextSegment
  <2>1. Min(Later) \in Ids
    <3>1. Listed \subseteq Ids
      <4>1. ASSUME NEW s \in Listed PROVE s \in Ids
        <5>1. PICK e \in ToSet(list) : s = e.id
          BY DEF Listed
        <5>2. PICK i \in DOMAIN list : e = list[i]
          BY <5>1 DEF ToSet
        <5>. QED
          BY <5>1, <5>2, ListedIds
      <4>. QED
        BY <4>1
    <3>2. Later \subseteq Nat /\ Later # {} /\ Later \subseteq Ids
      BY <1>8, <3>1, Numbers DEF NextSegment, Later
    <3>. QED
      BY <3>2, MinOf
  <2>2. dur' = dur /\ player' = [player EXCEPT !.seg = Min(Later), !.pos = 0]
    BY <1>8 DEF NextSegment, recording
  <2>3. player'.seg = Min(Later) /\ player'.pos = 0
    BY <1>1, <2>2 DEF PlayerShape
  <2>4. dur[Min(Later)] \in Nat
    BY <2>1, DurIsNat
  <2>. QED
    BY <2>1, <2>2, <2>3, <2>4 DEF PlayerInside
<1>9. CASE Load
  <2>1. dur' = dur /\ (player' = player \/ player' = Sought(player, [seg |-> 0, pos |-> 0]))
    BY <1>9 DEF Load, recording
  <2>2. CASE player' = Sought(player, [seg |-> 0, pos |-> 0])
    <3>1. player'.seg = 0 /\ player'.pos = 0
      BY <1>1, <2>2, SoughtInside
    <3>. QED
      BY <1>1, <2>1, <3>1 DEF PlayerInside
  <2>. QED
    BY <1>2, <2>1, <2>2
<1>10. CASE SeekFirst \/ SeekPlayback
  <2>1. \E t \in Nat : player' = Sought(player, SeekPlace(list, 0, t))
    <3>1. CASE SeekFirst
      BY <3>1 DEF SeekFirst
    <3>2. CASE SeekPlayback
      <4>1. PICK t \in 0 .. Sum(Len(list), list) : player' = Sought(player, SeekPlace(list, 0, t))
        BY <3>2 DEF SeekPlayback
      <4>2. list \in Seq(Segments) /\ Len(list) \in Nat
        BY DEF IInv, Shape, DataShape
      <4>3. Sum(Len(list), list) \in Nat
        BY <4>2, SumIsNat
      <4>. QED
        BY <4>1, <4>3
    <3>. QED
      BY <1>10, <3>1, <3>2
  <2>2. PICK t \in Nat : player' = Sought(player, SeekPlace(list, 0, t))
    BY <2>1
  <2>3. list # <<>> /\ dur' = dur
    BY <1>10 DEF SeekFirst, SeekPlayback, Starts, recording
  <2>4. PICK s \in Ids : \E pos \in 0 .. dur[s] :
          SeekPlace(list, 0, t) = [seg |-> s, pos |-> pos]
    BY <2>3, SeekInside
  <2>5. SeekPlace(list, 0, t).seg = s /\ SeekPlace(list, 0, t).pos \in 0 .. dur[s]
    BY <2>4
  <2>6. player'.seg = s /\ player'.pos \in 0 .. dur[s]
    BY <1>1, <2>2, <2>5, SoughtInside
  <2>. QED
    BY <2>3, <2>6 DEF PlayerInside
<1>11. CASE Go
  <2>1. dur' = dur /\ player'.seg = player.seg /\ player'.pos = player.pos
    BY <1>1, <1>11 DEF Go, PlayerShape, recording
  <2>. QED
    BY <1>2, <2>1
<1>12. CASE StopPlayback
  <2>1. player'.seg = 0 /\ player'.pos = 0 /\ dur' = dur
    BY <1>12 DEF StopPlayback, Stopped, recording
  <2>. QED
    BY <1>1, <2>1 DEF PlayerInside
<1>13. CASE PausePlayback \/ ResumePlayback
  <2>1. dur' = dur /\ player' \in {Going(player), Paused(player)}
    BY <1>13 DEF PausePlayback, ResumePlayback, recording
  <2>. QED
    BY <1>1, <1>2, <2>1, PlaceStays
<1>14. CASE dur' = dur /\ player' = player
  BY <1>2, <1>14
<1>. QED
  BY <1>3, <1>4, <1>5, <1>6, <1>7, <1>8, <1>9, <1>10, <1>11, <1>12, <1>13, <1>14 DEF Next,
    RecordTask, Thread, InCall, Call, Take, TaskNext, TaskAdd, TaskLink, HandleEvent,
    TellTime, LockRecord, LockPlayback, StopSegment, StartPlayback, SetSpeed, StopRecord,
    recording

(* The status of a player inside the data tells a place inside it.         *)
LEMMA StatusInside ==
  ASSUME NEW p, p.state \in States, p.seg \in Ids, p.pos \in 0 .. MaxDur,
         NEW e \in {"OK", "END"}
  PROVE  /\ Event(e, Status(p)) \in Told
         /\ Status(p).state \in States /\ Status(p).seg = p.seg /\ Status(p).pos = p.pos
BY DEF Event, Status, Told, States

(* The player is where such a status may tell.                             *)
LEMMA PlayerTold ==
  ASSUME PlayerShape, PlayerInside, Bounds
  PROVE  player.state \in States /\ player.seg \in Ids /\ player.pos \in 0 .. MaxDur
<1>1. player.seg \in Ids /\ player.pos \in 0 .. dur[player.seg] /\ dur[player.seg] \in 0 .. MaxDur
  BY DEF PlayerInside, Bounds
<1>2. player.pos \in 0 .. MaxDur
  BY <1>1, Numbers
<1>. QED
  BY <1>1, <1>2 DEF PlayerShape

(* So what is told and noted is.                                           *)
LEMMA NotesInsideNext ==
  ASSUME IInv, Follows, Bounds, Rising, PlayerInside, NotesInside, Starts, Next
  PROVE  NotesInside'
<1>1. note \in Noted /\ pevents \in Seq(Told) /\ PlayerShape
  BY DEF NotesInside, IInv, Shape
<1>2. player.state \in States /\ player.seg \in Ids /\ player.pos \in 0 .. MaxDur
  BY <1>1, PlayerTold
<1>3. player'.state \in States /\ player'.seg \in Ids /\ player'.pos \in 0 .. MaxDur
  <2>1. PlayerShape' /\ PlayerInside' /\ Bounds'
    BY PlayerNext, PlayerInsideNext, BoundsNext DEF IInv
  <2>2. /\ player'.seg \in Ids /\ player'.pos \in 0 .. dur'[player'.seg]
        /\ dur'[player'.seg] \in 0 .. MaxDur
    BY <2>1 DEF PlayerInside, Bounds
  <2>3. player'.pos \in 0 .. MaxDur
    BY <2>2, Numbers
  <2>. QED
    BY <2>1, <2>2, <2>3 DEF PlayerShape
<1>4. CASE UNCHANGED <<note, pevents>>
  BY <1>4 DEF NotesInside
<1>5. CASE TaskUpdate \/ TaskFinal \/ StopUpdate
  <2>1. pevents' = pevents /\ \E s, d : UpdatePlayback(s, d)
    BY <1>5 DEF TaskUpdate, TaskFinal, StopUpdate
  <2>2. note' = note \/ note' = [note EXCEPT !.last = "OK"]
    BY <2>1 DEF UpdatePlayback
  <2>3. note' \in Noted
    BY <1>1, <2>2 DEF Noted
  <2>. QED
    BY <1>1, <2>1, <2>3 DEF NotesInside
<1>6. CASE HandleEvent
  <2>1. /\ pevents # <<>> /\ pevents' = Tail(pevents)
        /\ note' = [last |-> Head(pevents).event, state |-> Head(pevents).state,
                    seg |-> Head(pevents).seg, pos |-> Head(pevents).pos, speed |-> note.speed]
    BY <1>6 DEF HandleEvent
  <2>2. Head(pevents) \in Told /\ pevents' \in Seq(Told)
    BY <1>1, <2>1
  <2>3. note' \in Noted
    BY <1>1, <2>1, <2>2 DEF Told, Noted
  <2>. QED
    BY <2>2, <2>3 DEF NotesInside
<1>7. CASE NextSegment \/ Go
  <2>1. note' = note /\ pevents' = Append(pevents, Event("OK", Status(player')))
    BY <1>7 DEF NextSegment, Go
  <2>2. Event("OK", Status(player')) \in Told
    BY <1>3, StatusInside
  <2>. QED
    BY <1>1, <2>1, <2>2 DEF NotesInside
<1>8. CASE TellEnd
  <2>1. note' = note /\ pevents' = Append(pevents, Event("END", Status(player)))
    BY <1>8 DEF TellEnd
  <2>2. Event("END", Status(player)) \in Told
    BY <1>2, StatusInside
  <2>. QED
    BY <1>1, <2>1, <2>2 DEF NotesInside
<1>9. CASE TellTime
  <2>1. /\ pevents' = pevents
        /\ note' = [note EXCEPT !.state = Status(player).state, !.seg = Status(player).seg,
                                !.pos = Status(player).pos]
    BY <1>9 DEF TellTime
  <2>2. /\ Status(player).state \in States /\ Status(player).seg \in Ids
        /\ Status(player).pos \in 0 .. MaxDur
    BY <1>2, StatusInside
  <2>3. note' \in Noted
    BY <1>1, <2>1, <2>2 DEF Noted
  <2>. QED
    BY <1>1, <2>1, <2>3 DEF NotesInside
<1>10. CASE Load \/ ResumePlayback \/ SetSpeed
  <2>1. pevents' = pevents /\ \E n \in 0 .. 1 : note' = [note EXCEPT !.speed = n]
    <3>1. pevents' = pevents
      BY <1>10 DEF Load, ResumePlayback, SetSpeed
    <3>2. CASE Load
      <4>1. PICK live \in BOOLEAN : note' = [note EXCEPT !.speed = IF live THEN 0 ELSE 1]
        BY <3>2 DEF Load
      <4>. QED
        BY <3>1, <4>1
    <3>3. CASE ResumePlayback \/ SetSpeed
      BY <3>1, <3>3 DEF ResumePlayback, SetSpeed
    <3>. QED
      BY <1>10, <3>2, <3>3
  <2>2. note' \in Noted
    BY <1>1, <2>1 DEF Noted
  <2>. QED
    BY <1>1, <2>1, <2>2 DEF NotesInside
<1>11. CASE PausePlayback
  <2>1. /\ pevents' = pevents
        /\ note' = [note EXCEPT !.last = IF note.last = "END" THEN "OK" ELSE note.last, !.speed = 0]
    BY <1>11 DEF PausePlayback
  <2>2. note' \in Noted
    <3>1. note.last \in {"NONE", "OK", "END"}
      BY <1>1 DEF Noted
    <3>2. PICK l \in {"NONE", "OK", "END"} : note' = [note EXCEPT !.last = l, !.speed = 0]
      BY <2>1, <3>1
    <3>3. [note EXCEPT !.last = l] \in Noted
      BY <1>1 DEF Noted
    <3>4. \A n \in Noted : [n EXCEPT !.speed = 0] \in Noted
      BY DEF Noted
    <3>5. note' = [[note EXCEPT !.last = l] EXCEPT !.speed = 0]
      BY <1>1, <3>2 DEF Noted
    <3>. QED
      BY <3>3, <3>4, <3>5
  <2>. QED
    BY <1>1, <2>1, <2>2 DEF NotesInside
<1>. QED
  BY <1>4, <1>5, <1>6, <1>7, <1>8, <1>9, <1>10, <1>11 DEF Next, RecordTask, Thread, InCall,
    Call, Record, Take, TaskNext, TaskAdd, TaskLink, Play, FirstFrame, ReachEnd, PauseAtEnd,
    LockRecord, LockPlayback, SeekFirst, StopSegment, StartPlayback, StopPlayback,
    SeekPlayback, StopRecord

(* The starts, the events they add and the list they leave.                *)
LEMMA StartsNext ==
  ASSUME IInv, Follows, Bounds, NotesInside, Starts, Next
  PROVE  Starts'
<1>1. /\ MaxEvents \in Nat /\ calls \in Nat /\ pevents \in Seq(Told) /\ Len(pevents) \in Nat
      /\ PlayerShape /\ AppShape /\ Shape
  BY FollowAssumption DEF Bounds, NotesInside, IInv, Shape
<1>. DEFINE Open == IF app.pc \in Starting THEN 1 ELSE 0
<1>2. /\ app.pc \in Starting => calls > 0
      /\ app.pc = "seek" => list # <<>>
      /\ Len(pevents) + Open <= MaxEvents + calls /\ Open \in 0 .. 1
      /\ player.state = "STOP" => list = <<>> \/ app.pc \in Starting
  BY DEF Starts
<1>3. CASE UNCHANGED <<app, calls, pevents>> /\ (list' = <<>> <=> list = <<>>)
           /\ (player'.state = "STOP" <=> player.state = "STOP")
  BY <1>3 DEF Starts
<1>4. CASE TaskUpdate \/ TaskFinal
  <2>1. UNCHANGED <<app, calls, pevents>> /\ \E s, d : UpdatePlayback(s, d)
    BY <1>4 DEF TaskUpdate, TaskFinal
  <2>2. player'.state = "STOP" <=> player.state = "STOP"
    <3>1. player' = player \/ player' = Going(player)
      BY <2>1 DEF UpdatePlayback
    <3>. QED
      BY <1>1, <3>1 DEF PlayerShape, Going
  <2>3. list' = <<>> <=> list = <<>>
    <3>1. list' = list \/ (list # <<>> /\ DOMAIN list' = DOMAIN list)
      BY <2>1 DEF UpdatePlayback, Updated
    <3>2. list # <<>> => 1 \in DOMAIN list
      <4>1. list \in Seq(Segments)
        BY <1>1 DEF Shape, DataShape
      <4>. QED
        BY <4>1
    <3>3. DOMAIN <<>> = {}
      OBVIOUS
    <3>. QED
      BY <3>1, <3>2, <3>3
  <2>. QED
    BY <1>3, <2>1, <2>2, <2>3
<1>5. CASE StopUpdate
  <2>1. UNCHANGED <<calls, pevents>> /\ UpdatePlayback(cur, dur[cur]) /\ app.pc = "last"
        /\ app'.pc = "idle"
    BY <1>5 DEF StopUpdate, Free
  <2>2. player.state # "STOP" => player'.state # "STOP"
    <3>1. player' = player \/ player' = Going(player)
      BY <2>1 DEF UpdatePlayback
    <3>. QED
      BY <1>1, <3>1 DEF PlayerShape, Going
  <2>3. list = <<>> => list' = <<>>
    BY <2>1 DEF UpdatePlayback
  <2>. QED
    BY <1>2, <2>1, <2>2, <2>3 DEF Starts, Starting
<1>6. CASE TaskAdd
  <2>1. UNCHANGED <<app, calls, pevents, player>>
    BY <1>6 DEF TaskAdd
  <2>2. list' = <<>> <=> list = <<>>
    <3>1. list' = list \/ (list # <<>> /\ list' = Append(list, [id |-> cur, dur |-> 0]))
      BY <1>6 DEF TaskAdd
    <3>2. list \in Seq(Segments)
      BY <1>1 DEF Shape, DataShape
    <3>3. \A e : Append(list, e) # <<>>
      BY <3>2
    <3>. QED
      BY <3>1, <3>3
  <2>. QED
    BY <1>3, <2>1, <2>2
<1>7. CASE HandleEvent
  <2>1. UNCHANGED <<app, calls, list, player>> /\ pevents # <<>> /\ pevents' = Tail(pevents)
    BY <1>7 DEF HandleEvent
  <2>2. Len(pevents') = Len(pevents) - 1
    BY <1>1, <2>1
  <2>. QED
    BY <1>1, <1>2, <2>1, <2>2 DEF Starts
<1>8. CASE Play \/ FirstFrame \/ ReachEnd
  <2>1. UNCHANGED <<app, calls, list, pevents>>
    BY <1>8 DEF Play, FirstFrame, ReachEnd
  <2>2. player'.state = "STOP" <=> player.state = "STOP"
    BY <1>1, <1>8 DEF Play, FirstFrame, ReachEnd, PlayerShape
  <2>. QED
    BY <1>3, <2>1, <2>2
<1>9. CASE PauseAtEnd
  <2>1. UNCHANGED <<app, calls, list, pevents>>
    BY <1>9 DEF PauseAtEnd
  <2>2. player'.state = "STOP" <=> player.state = "STOP"
    BY <1>1, <1>9 DEF PauseAtEnd, Paused, PlayerShape
  <2>. QED
    BY <1>3, <2>1, <2>2
<1>10. CASE NextSegment \/ TellEnd
  <2>1. UNCHANGED <<app, calls, list>> /\ Len(pevents) < MaxEvents
        /\ \E e : pevents' = Append(pevents, e)
    BY <1>10 DEF NextSegment, TellEnd, Room
  <2>2. Len(pevents') = Len(pevents) + 1
    BY <1>1, <2>1
  <2>3. player'.state = "STOP" <=> player.state = "STOP"
    BY <1>1, <1>10 DEF NextSegment, TellEnd, PlayerShape
  <2>4. Len(pevents') + Open <= MaxEvents + calls
    BY <1>1, <1>2, <2>1, <2>2
  <2>. QED
    BY <1>2, <2>1, <2>3, <2>4 DEF Starts
<1>11. CASE LockRecord \/ LockPlayback
  <2>1. /\ UNCHANGED <<calls, list, pevents, player>>
        /\ app.pc \in Starting /\ app'.pc \in {"lock", "load"}
    BY <1>1, <1>11 DEF LockRecord, LockPlayback, AppShape, Starting
  <2>. QED
    BY <1>2, <2>1 DEF Starts, Starting
<1>12. CASE Load
  <2>1. PICK live, limit \in BOOLEAN :
          app' = [app EXCEPT !.pc = IF limit THEN "seek" ELSE "go", !.play = ~limit,
                             !.live = live]
    BY <1>12 DEF Load
  <2>2. app.pc \in Starting /\ app'.pc \in {"seek", "go"}
    BY <1>1, <1>12, <2>1 DEF Load, AppShape, Starting
  <2>3. UNCHANGED <<calls, pevents>>
    BY <1>12 DEF Load
  <2>4. list' # <<>>
    <3>1. DOMAIN list' = 1 .. Cardinality(Loaded)
      BY <1>12, LoadList DEF IInv
    <3>2. PICK n \in Nat : Loaded = 0 .. n
      BY LoadedTill DEF IInv
    <3>3. 1 \in DOMAIN list'
      BY <3>1, <3>2, Interval
    <3>. QED
      BY <3>3
  <2>. QED
    BY <1>2, <2>2, <2>3, <2>4 DEF Starts, Starting
<1>13. CASE SeekFirst
  <2>1. /\ UNCHANGED <<calls, list, pevents>>
        /\ app.pc \in Starting /\ app'.pc = "go"
    BY <1>1, <1>13 DEF SeekFirst, AppShape, Starting
  <2>. QED
    BY <1>2, <2>1 DEF Starts, Starting
<1>14. CASE Go
  <2>1. /\ UNCHANGED <<calls, list>> /\ app.pc = "go" /\ app'.pc = "idle"
        /\ \E e : pevents' = Append(pevents, e)
    BY <1>14 DEF Go, Free
  <2>2. player'.state = "START"
    BY <1>1, <1>14 DEF Go, PlayerShape
  <2>3. Len(pevents') = Len(pevents) + 1
    BY <1>1, <2>1
  <2>4. Len(pevents') <= MaxEvents + calls
    BY <1>1, <1>2, <2>1, <2>3 DEF Starting
  <2>. QED
    BY <2>1, <2>2, <2>3, <2>4, <1>1 DEF Starts, Starting
<1>15. CASE StartPlayback
  <2>1. /\ UNCHANGED <<list, pevents, player>> /\ calls' = calls + 1 /\ app.pc = "idle"
        /\ app'.pc \in {"lock", "record"} /\ list = <<>>
    BY <1>1, <1>15 DEF StartPlayback, Called, Free, AppShape
  <2>. QED
    BY <1>1, <1>2, <2>1 DEF Starts, Starting
<1>16. CASE StopPlayback \/ PausePlayback \/ ResumePlayback \/ SetSpeed \/ SeekPlayback
  <2>1. /\ UNCHANGED <<app, pevents>> /\ calls' = calls + 1 /\ app.pc = "idle"
    BY <1>16 DEF StopPlayback, PausePlayback, ResumePlayback, SetSpeed, SeekPlayback, Called,
      Free
  <2>2. player'.state = "STOP" => list' = <<>>
    <3>1. CASE StopPlayback
      BY <3>1 DEF StopPlayback
    <3>2. CASE PausePlayback \/ ResumePlayback \/ SetSpeed \/ SeekPlayback
      <4>1. list' = list /\ \/ player' \in {player, Paused(player), Going(player)}
                            \/ \E at : player' = Sought(player, at)
        BY <3>2 DEF PausePlayback, ResumePlayback, SetSpeed, SeekPlayback
      <4>2. player'.state = "STOP" => player.state = "STOP"
        BY <1>1, <4>1 DEF PlayerShape, Paused, Going, Sought
      <4>. QED
        BY <1>2, <2>1, <4>1, <4>2 DEF Starting
    <3>. QED
      BY <1>16, <3>1, <3>2
  <2>. QED
    BY <1>1, <1>2, <2>1, <2>2 DEF Starts, Starting
<1>17. CASE StopRecord
  <2>1. /\ UNCHANGED <<list, pevents, player>> /\ calls' = calls + 1 /\ app.pc = "idle"
        /\ app'.pc = "stop"
    BY <1>1, <1>17 DEF StopRecord, Called, Free, AppShape
  <2>. QED
    BY <1>1, <1>2, <2>1 DEF Starts, Starting
<1>18. CASE StopSegment
  <2>1. /\ UNCHANGED <<list, pevents, player, calls>> /\ app.pc = "stop" /\ app'.pc = "last"
    BY <1>1, <1>18 DEF StopSegment, AppShape
  <2>. QED
    BY <1>1, <1>2, <2>1 DEF Starts, Starting
<1>19. CASE UNCHANGED <<app, calls, pevents, list, player>>
  BY <1>3, <1>19
<1>. QED
  BY <1>4, <1>5, <1>6, <1>7, <1>8, <1>9, <1>10, <1>11, <1>12, <1>13, <1>14, <1>15, <1>16,
    <1>17, <1>18, <1>19 DEF Next, RecordTask, Thread, InCall, Call, Record, Take, TaskNext,
    TaskLink, TellTime

(* What a player that follows a recording is inside of holds at the start  *)
(* ...                                                                     *)
LEMMA SeekInit ==
  ASSUME "plain" \notin Modes
  PROVE  Init => SeekInv
<1>. SUFFICES ASSUME Init PROVE SeekInv
  OBVIOUS
<1>1. Follows /\ mode \in Modes
  BY DEF Init, Follows
<1>2. 0 \in 0 .. MaxDur /\ 0 \in 0 .. MaxCall /\ MaxEvents \in Nat
  BY FollowAssumption, Numbers
<1>3. Bounds
  BY <1>2 DEF Init, Bounds
<1>4. Rising
  BY DEF Init, Rising
<1>5. PlayerInside
  <2>1. player.seg = 0 /\ player.pos = 0 /\ dur[0] = 0
    BY Numbers DEF Init, Stopped
  <2>. QED
    BY <2>1, Numbers DEF PlayerInside
<1>6. NotesInside
  BY <1>2, Numbers DEF Init, NotesInside, Noted, States
<1>7. Starts
  BY <1>2 DEF Init, Starts, Free, Starting
<1>. QED
  BY <1>1, <1>3, <1>4, <1>5, <1>6, <1>7 DEF SeekInv

(* ... and is kept.                                                        *)
LEMMA SeekNext == IInv /\ SeekInv /\ [Next]_vars => SeekInv'
<1>. SUFFICES ASSUME IInv, SeekInv, [Next]_vars PROVE SeekInv'
  OBVIOUS
<1>1. Follows'
  BY ModeStays DEF SeekInv, Follows
<1>2. CASE Next
  BY <1>1, <1>2, BoundsNext, RisingNext, PlayerInsideNext, NotesInsideNext,
    StartsNext DEF SeekInv
<1>3. CASE UNCHANGED vars
  BY <1>1, <1>3 DEF vars, SeekInv, Bounds, Rising, NewestListed, PlayerInside, NotesInside,
    Starts
<1>. QED
  BY <1>2, <1>3

(* It bounds what TypeOK says.                                             *)
LEMMA SeekTypes ==
  ASSUME IInv, SeekInv, mode \in Modes
  PROVE  TypeOK
<1>1. /\ cur \in Ids /\ running \in BOOLEAN /\ list \in Seq(Segments)
      /\ TaskShape /\ PastShape
  BY DEF IInv, Shape, DataShape
<1>2. Bounds /\ Rising /\ PlayerInside /\ NotesInside /\ Starts /\ Follows
  BY DEF SeekInv
<1>3. list \in Seq([id : Ids, dur : 0 .. MaxDur])
  <2>. DEFINE Entries == [id : Ids, dur : 0 .. MaxDur]
  <2>1. Len(list) \in Nat /\ list = [i \in 1 .. Len(list) |-> list[i]]
    BY <1>1
  <2>2. ASSUME NEW i \in 1 .. Len(list) PROVE list[i] \in Entries
    <3>1. i \in DOMAIN list /\ list[i] \in Segments
      BY <1>1, <2>2
    <3>2. list[i].id \in Ids /\ list[i].dur <= dur[list[i].id] /\ list[i].dur \in Nat
      BY <1>1, <1>2, <3>1, ListLines, ListedIds DEF Rising
    <3>3. dur[list[i].id] \in 0 .. MaxDur
      BY <1>2, <3>2 DEF Bounds
    <3>4. list[i].dur \in 0 .. MaxDur
      BY <3>2, <3>3, Numbers
    <3>. QED
      BY <3>1, <3>2, <3>4 DEF Segments
  <2>. HIDE DEF Entries
  <2>3. list \in Seq(Entries)
    BY <2>1, <2>2
  <2>. QED
    BY <2>3 DEF Entries
<1>4. Len(pevents) <= MaxEvents + MaxCall
  <2>1. pevents \in Seq(Told) /\ calls \in 0 .. MaxCall
    BY <1>2 DEF NotesInside, Bounds
  <2>2. Len(pevents) \in Nat /\ MaxEvents \in Nat /\ MaxCall \in Nat
    BY <2>1, FollowAssumption
  <2>. QED
    BY <1>2, <2>1, <2>2 DEF Starts
<1>5. Data(player.seg) = dur[player.seg]
  BY <1>2 DEF Data
<1>6. player.state = "STOP" => list = <<>> \/ app.pc # "idle"
  BY <1>2 DEF Starts, Starting
<1>7. past \in Past
  BY <1>1, <1>2 DEF PastShape, Past, Bounds
<1>8. task.pc \in {"idle", "update", "next", "final", "add", "link"}
  BY <1>1 DEF TaskShape, TaskPlaces
<1>. QED
  BY <1>1, <1>2, <1>3, <1>4, <1>5, <1>6, <1>7, <1>8 DEF TypeOK, Bounds, PlayerInside,
    NotesInside, Noted, States

(* Of a playback that is that of the timeshift or of the recording all of  *)
(* it holds: the places of the player and of what it tells are inside the  *)
(* data, a seek lands where it was asked to, the durations of ended        *)
(* segments are final, and the locks are given back.                       *)
THEOREM PlaybackCorrect ==
  ASSUME "plain" \notin Modes
  PROVE  Spec => []PlaybackInv
<1>1. Init => mode \in Modes
  BY DEF Init
<1>2. mode \in Modes /\ [Next]_vars => (mode \in Modes)'
  BY ModeStays
<1>3. IInv /\ SeekInv /\ mode \in Modes => PlaybackInv
  <2>. SUFFICES ASSUME IInv, SeekInv, mode \in Modes PROVE PlaybackInv
    OBVIOUS
  <2>1. TypeOK
    BY SeekTypes
  <2>2. LocksGivenBack /\ EndedIsFinal
    BY DEF IInv, LocksInv, LocksGivenBack, Final, FinalTill, EndedIsFinal, SeekInv, Follows
  <2>3. SeekLands
    BY SeeksLand DEF IInv, SeekInv, Rising
  <2>. QED
    BY <2>1, <2>2, <2>3 DEF PlaybackInv
<1>. QED
  BY <1>1, <1>2, <1>3, InitIInv, NextIInv, SeekInit, SeekNext, PTL DEF Spec
==============================================================================
