--------------------------- MODULE WrapperTimeshift ---------------------------
(***************************************************************************)
(* Timeshift in src/dvr_wrapper.c: the record task keeps the list of the   *)
(* segments on disk within max_time and max_size while a playback follows  *)
(* the recording.                                                          *)
(*                                                                         *)
(* The record task handles a status event of the recorder under the lock   *)
(* of the record context, which it holds whenever task.pc # "idle".  Each  *)
(* time it reaches for the playback context it takes that lock for a       *)
(* section that does not block: such a section is one step, and so is a    *)
(* call of the playback API; between two of them the application, the      *)
(* playback task, the player and the recorder's thread run.                *)
(*                                                                         *)
(* Data: a size is a number of blocks, and stands for the duration too.    *)
(* A list is a function from the ids in it to their sizes: entries are     *)
(* only ever added in the order of their ids, so that list_first is the    *)
(* greatest id and list_last the least.                                    *)
(***************************************************************************)
EXTENDS Integers, Sequences, FiniteSets, FiniteSetsExt, Functions

CONSTANTS SegmentSize,   \* param_open.segment_size
          MaxSize,       \* param_open.max_size
          MaxTime,       \* param_open.max_time; 0: none
          MaxSegment,    \* bound: segment ids are 0 .. MaxSegment - 1
          Ahead,         \* bound: blocks written past SegmentSize
          MaxEvents,     \* bound: length of either event list
          MaxCall        \* bound: calls of the playback API

ASSUME SizeAssumption == {SegmentSize, MaxSize, MaxSegment} \subseteq Nat \ {0}
ASSUME BoundAssumption == {MaxTime, Ahead, MaxEvents, MaxCall} \subseteq Nat

Ids == 0 .. MaxSegment - 1
Sizes == 0 .. SegmentSize + Ahead
None == -1                 \* no segment; info never stored

VARIABLES
  rsegs,      \* the record context's segments
  cur,        \* param_update.segment.segment_id; next_segment_id is cur + 1
  obsolete,   \* record.obsolete.size
  task,       \* the record task: [pc, evt, total, actual, then]
  events,     \* record_evt_list: the status events [id, size]
  rsize,      \* the recorder's segment_info.size
  discard,    \* the recorder's discard_coming_data
  files,      \* segments with files on disk
  dying,      \* segments whose detached deletion thread has not run yet
  final,      \* per segment: the size stored when it ended, or None
  psegs,      \* the playback context's segments
  pcurrent,   \* its current_segment_id
  normal,     \* its speed is 100.0
  full,       \* its tf_full
  clean,      \* history: no deletion was pending when it was started
  pevents,    \* playback_evt_list: the segments played
  playlist,   \* the player's own segment_list
  at,         \* the player's cur_segment_id, None when stopped
  calls       \* calls of the playback API so far

recorder == <<rsize, discard>>
disk == <<files, dying, final>>
playback == <<psegs, pcurrent, normal, full, clean>>
player == <<playlist, at>>
vars == <<rsegs, cur, obsolete, task, events, recorder, disk, playback,
          pevents, player, calls>>

NoEvent == [id |-> None, size |-> 0]
Idle == [pc |-> "idle", evt |-> NoEvent, total |-> 0, actual |-> 0,
         then |-> "idle"]

(* a recording has just been started with segment 0, nothing is played *)
Init ==
  /\ rsegs = [s \in {0} |-> 0] /\ cur = 0 /\ obsolete = 0
  /\ task = Idle /\ events = <<>>
  /\ rsize = 0 /\ discard = FALSE
  /\ files = {0} /\ dying = {} /\ final = [s \in Ids |-> None]
  /\ psegs = [s \in {} |-> 0] /\ pcurrent = 0 /\ normal = FALSE
  /\ full = FALSE /\ clean = TRUE /\ pevents = <<>>
  /\ playlist = {} /\ at = None
  /\ calls = 0

Update(segs, id, size) == [s \in DOMAIN segs |-> IF s = id THEN size ELSE segs[s]]
Add(segs, id, size) == [s \in DOMAIN segs \cup {id} |-> IF s = id THEN size ELSE segs[s]]
Remove(segs, id) == Restrict(segs, DOMAIN segs \ {id})
Oldest == Min(DOMAIN rsegs)
Several == Cardinality(DOMAIN rsegs) > 1

-----------------------------------------------------------------------------
(* The recorder's thread: it writes blocks to its segment, and posts its   *)
(* status once the segment has a duration                                  *)
RecWrite ==
  /\ ~ discard
  /\ rsize < IF cur = MaxSegment - 1 THEN SegmentSize - 1 ELSE SegmentSize + Ahead
  /\ rsize' = rsize + 1
  /\ UNCHANGED <<rsegs, cur, obsolete, task, events, discard, disk, playback,
                 pevents, player, calls>>

Post ==
  /\ rsize > 0 /\ Len(events) < MaxEvents
  /\ events' = Append(events, [id |-> cur, size |-> rsize])
  /\ UNCHANGED <<rsegs, cur, obsolete, task, recorder, disk, playback, pevents,
                 player, calls>>

-----------------------------------------------------------------------------
(* process_generateRecordStatus: the sum over the list, with the event's   *)
(* own sizes for its segment; the list gets these sizes as well            *)
Generate(segs, e, then) ==
  /\ rsegs' = Update(segs, e.id, e.size)
  /\ task' = [task EXCEPT !.pc = "update", !.evt = e, !.then = then,
                          !.total = e.size + SumFunctionOnSet(segs, DOMAIN segs \ {e.id})]

Goto(place) == task' = [task EXCEPT !.pc = place]

(* mutant: the id of the event is not looked at *)
TakeAny ==
  /\ task.pc = "idle" /\ events # <<>>
  /\ events' = Tail(events)
  /\ Generate(rsegs, Head(events), "next")
  /\ UNCHANGED <<cur, obsolete, recorder, disk, playback, pevents, player, calls>>

(* process_handleRecordEvent, state STARTED: an event of a segment other   *)
(* than the current one is ignored                                         *)
Take ==
  /\ task.pc = "idle" /\ events # <<>>
  /\ events' = Tail(events)
  /\ IF Head(events).id = cur THEN Generate(rsegs, Head(events), "next")
                              ELSE UNCHANGED <<rsegs, task>>
  /\ UNCHANGED <<cur, obsolete, recorder, disk, playback, pevents, player, calls>>

(* wrapper_updatePlaybackSegment *)
UpdatePlayback ==
  /\ task.pc = "update"
  /\ psegs' = Update(psegs, task.evt.id, task.evt.size)
  /\ Goto(task.then)
  /\ UNCHANGED <<rsegs, cur, obsolete, events, recorder, disk, pcurrent, normal,
                 full, clean, pevents, player, calls>>

(* record_startNextSegment: dvr_record_next_segment joins the thread,      *)
(* stores the segment that ends and opens the next one                     *)
StartNext ==
  /\ task.pc = "next" /\ task.evt.size >= SegmentSize
  /\ final' = [final EXCEPT ![cur] = rsize]
  /\ files' = files \cup {cur + 1}
  /\ rsegs' = Update(rsegs, cur, rsize)
  /\ cur' = cur + 1
  /\ rsize' = 0
  /\ Goto("updateNext")
  /\ UNCHANGED <<obsolete, events, discard, dying, playback, pevents, player, calls>>

(* ... wrapper_updateRecordSegment with the final sizes, on the playback;  *)
(* then wrapper_addRecordSegment                                           *)
UpdateNext ==
  /\ task.pc = "updateNext"
  /\ psegs' = Update(psegs, cur - 1, final[cur - 1])
  /\ rsegs' = Add(rsegs, cur, 0)
  /\ Goto("addNext")
  /\ UNCHANGED <<cur, obsolete, events, recorder, disk, pcurrent, normal, full,
                 clean, pevents, player, calls>>

(* mutant: the segment is added to the playback's list only *)
AddNextListOnly ==
  /\ task.pc = "addNext"
  /\ psegs' = IF DOMAIN psegs # {} THEN Add(psegs, cur, 0) ELSE psegs
  /\ Goto("time")
  /\ UNCHANGED <<rsegs, cur, obsolete, events, recorder, disk, pcurrent, normal,
                 full, clean, pevents, player, calls>>

(* ... on the playback: only if its segments have been loaded *)
AddNext ==
  /\ task.pc = "addNext"
  /\ IF DOMAIN psegs # {}
       THEN psegs' = Add(psegs, cur, 0) /\ playlist' = playlist \cup {cur}
       ELSE UNCHANGED <<psegs, playlist>>
  /\ Goto("time")
  /\ UNCHANGED <<rsegs, cur, obsolete, events, recorder, disk, pcurrent, normal,
                 full, clean, pevents, at, calls>>

(* max_time: the oldest segment is to go, if it is not the only one *)
TimeLimit ==
  /\ task.pc = "time" \/ (task.pc = "next" /\ task.evt.size < SegmentSize)
  /\ task' = IF MaxTime # 0 /\ task.total >= MaxTime /\ Several
               THEN [task EXCEPT !.pc = "remove", !.then = "size"]
               ELSE [task EXCEPT !.pc = "size"]
  /\ UNCHANGED <<rsegs, cur, obsolete, events, recorder, disk, playback, pevents,
                 player, calls>>

(* mutant: the last segment may go as well *)
SizeLimitAny ==
  /\ task.pc = "size"
  /\ IF task.total >= MaxSize
       THEN /\ task' = [task EXCEPT !.pc = "remove", !.then = "discard",
                                    !.actual = task.total]
            /\ UNCHANGED discard
       ELSE task' = Idle /\ discard' = FALSE
  /\ UNCHANGED <<rsegs, cur, obsolete, events, rsize, disk, playback, pevents,
                 player, calls>>

(* max_size, likewise; below it the recorder is told to store *)
SizeLimit ==
  /\ task.pc = "size"
  /\ IF task.total >= MaxSize
       THEN /\ task' = [task EXCEPT !.pc = IF Several THEN "remove" ELSE "discard",
                                    !.then = "discard", !.actual = task.total]
            /\ UNCHANGED discard
       ELSE task' = Idle /\ discard' = FALSE
  /\ UNCHANGED <<rsegs, cur, obsolete, events, rsize, disk, playback, pevents,
                 player, calls>>

(* ... and too far above it, as measured before the removal, to discard *)
Overflow ==
  /\ task.pc = "discard"
  /\ discard' = (discard \/ task.actual >= MaxSize + SegmentSize \div 2)
  /\ task' = Idle
  /\ UNCHANGED <<rsegs, cur, obsolete, events, rsize, disk, playback, pevents,
                 player, calls>>

-----------------------------------------------------------------------------
(* wrapper_removeRecordSegment refuses the segment that the playback says  *)
(* it is in, at normal speed                                               *)
InUse == pcurrent = Oldest /\ normal

Refuse ==
  /\ task.pc = "remove" /\ InUse
  /\ full' = TRUE
  /\ Generate(rsegs, task.evt, task.then)
  /\ UNCHANGED <<cur, obsolete, events, recorder, disk, psegs, pcurrent, normal,
                 clean, pevents, player, calls>>

(* dvr_playback_seek finds the segment in the player's list, or fails *)
Found(id) == IF id \in playlist THEN id ELSE at

(* where wrapper_removePlaybackSegment drives a player that is in the      *)
(* segment: to the next one of the playback's list                         *)
Driven(id) ==
  LET newer == {s \in DOMAIN psegs : s > id}
  IN  IF pcurrent = id /\ newer # {} THEN Found(Min(newer)) ELSE at

(* mutant: the playback keeps the segment in its list *)
RemoveFromPlayerOnly ==
  /\ task.pc = "remove" /\ ~ InUse
  /\ full' = FALSE
  /\ LET id == Oldest
     IN  IF id \in DOMAIN psegs
           THEN /\ at' = Driven(id)
                /\ playlist' = IF at' = id THEN playlist ELSE playlist \ {id}
           ELSE UNCHANGED <<at, playlist>>
  /\ Goto("drop")
  /\ UNCHANGED <<rsegs, cur, obsolete, events, recorder, disk, psegs, pcurrent,
                 normal, clean, pevents, calls>>

(* wrapper_removePlaybackSegment; dvr_playback_remove_segment refuses the  *)
(* segment the player is in                                                *)
RemovePlayback ==
  /\ task.pc = "remove" /\ ~ InUse
  /\ full' = FALSE
  /\ LET id == Oldest
     IN  IF id \in DOMAIN psegs
           THEN /\ at' = Driven(id)
                /\ playlist' = IF at' = id THEN playlist ELSE playlist \ {id}
                /\ psegs' = Remove(psegs, id)
           ELSE UNCHANGED <<at, playlist, psegs>>
  /\ Goto("drop")
  /\ UNCHANGED <<rsegs, cur, obsolete, events, recorder, disk, pcurrent, normal,
                 clean, pevents, calls>>

(* the rest of wrapper_removeRecordSegment, and the status once more *)
Drop ==
  /\ task.pc = "drop"
  /\ obsolete' = obsolete + rsegs[Oldest]
  /\ dying' = dying \cup {Oldest}
  /\ Generate(Remove(rsegs, Oldest), task.evt, task.then)
  /\ UNCHANGED <<cur, events, recorder, files, final, playback, pevents, player,
                 calls>>

(* dvr_segment_thread *)
Unlink ==
  /\ \E s \in dying : files' = files \ {s} /\ dying' = dying \ {s}
  /\ UNCHANGED <<rsegs, cur, obsolete, task, events, recorder, final, playback,
                 pevents, player, calls>>

-----------------------------------------------------------------------------
(* What dvr_wrapper_start_playback finds on disk.  dvr_segment_get_allInfo *)
(* works by segment 0: with its files there, a segment that has not ended  *)
(* is taken only if its id is one less than the number of segments;        *)
(* without them, every segment's own info file is read.                    *)
Loaded == IF 0 \in files
            THEN {s \in files : final[s] # None \/ s = Cardinality(files) - 1}
            ELSE files

(* the stored sizes; that of the segment being written is a little old *)
Stored(s) == IF final[s] # None THEN {final[s]} ELSE 0 .. rsize

Called == calls < MaxCall /\ calls' = calls + 1

(* under both locks; at normal speed, or paused at once *)
StartPlayback ==
  /\ Called
  /\ task.pc = "idle" /\ at = None /\ DOMAIN psegs = {} /\ Loaded # {}
  /\ \E size \in Stored(Max(Loaded)) :
       psegs' = [s \in Loaded |-> IF s = Max(Loaded) THEN size ELSE final[s]]
  /\ playlist' = playlist \cup Loaded
  /\ at' = Min(Loaded)
  /\ clean' = (dying = {})
  /\ normal' \in BOOLEAN
  /\ UNCHANGED <<rsegs, cur, obsolete, task, events, recorder, disk, pcurrent,
                 full, pevents>>

(* dvr_wrapper_stop_playback *)
StopPlayback ==
  /\ Called
  /\ at # None
  /\ at' = None
  /\ playlist' = playlist \ DOMAIN psegs
  /\ psegs' = [s \in {} |-> 0]
  /\ UNCHANGED <<rsegs, cur, obsolete, task, events, recorder, disk, pcurrent,
                 normal, full, clean, pevents>>

(* dvr_wrapper_seek_playback: to a segment of the playback's list *)
Seek ==
  /\ Called
  /\ at # None
  /\ \E s \in DOMAIN psegs : at' = Found(s)
  /\ UNCHANGED <<rsegs, cur, obsolete, task, events, recorder, disk, playback,
                 pevents, playlist>>

(* dvr_wrapper_pause_, _resume_playback and _set_playback_speed *)
SetSpeed ==
  /\ Called
  /\ at # None
  /\ normal' = ~ normal
  /\ UNCHANGED <<rsegs, cur, obsolete, task, events, recorder, disk, psegs,
                 pcurrent, full, clean, pevents, player>>

(* The player changes to the next segment of its list that it can open,    *)
(* the previous one when it rewinds; if it can open none it ends in the    *)
(* last one it tried.                                                      *)
Move(tried, nearest, furthest) ==
  /\ tried # {}
  /\ at' = IF tried \cap files # {} THEN nearest ELSE furthest

PlayerMoves ==
  /\ at # None
  /\ \/ LET newer == {s \in playlist : s > at}
        IN  Move(newer, Min(newer \cap files), Max(newer))
     \/ LET older == {s \in playlist : s < at}
        IN  ~ normal /\ Move(older, Max(older \cap files), Min(older))
  /\ UNCHANGED <<rsegs, cur, obsolete, task, events, recorder, disk, playback,
                 pevents, playlist, calls>>

(* the player posts its status; the playback task notes the segment *)
PlayerPosts ==
  /\ at # None /\ Len(pevents) < MaxEvents
  /\ pevents' = Append(pevents, at)
  /\ UNCHANGED <<rsegs, cur, obsolete, task, events, recorder, disk, playback,
                 player, calls>>

TakePlayback ==
  /\ pevents # <<>>
  /\ pcurrent' = Head(pevents)
  /\ pevents' = Tail(pevents)
  /\ UNCHANGED <<rsegs, cur, obsolete, task, events, recorder, disk, psegs,
                 normal, full, clean, player, calls>>

-----------------------------------------------------------------------------
RecordTask == \/ Take \/ UpdatePlayback \/ StartNext \/ UpdateNext \/ AddNext
              \/ TimeLimit \/ SizeLimit \/ Overflow
              \/ Refuse \/ RemovePlayback \/ Drop
Playback == \/ StartPlayback \/ StopPlayback \/ Seek \/ SetSpeed
            \/ PlayerMoves \/ PlayerPosts \/ TakePlayback

Next == RecWrite \/ Post \/ RecordTask \/ Unlink \/ Playback

Spec == Init /\ [][Next]_vars

-----------------------------------------------------------------------------
Places == {"idle", "update", "next", "updateNext", "addNext", "time", "size",
           "remove", "drop", "discard"}
Totals == 0 .. MaxSegment * (SegmentSize + Ahead)
Lists == UNION {[S -> Sizes] : S \in SUBSET Ids}
Status == [id : Ids, size : Sizes]

TypeOK ==
  /\ rsegs \in Lists /\ psegs \in Lists
  /\ cur \in Ids
  /\ obsolete \in Totals
  /\ task \in [pc : Places, evt : Status \cup {NoEvent}, total : Totals,
               actual : Totals, then : Places]
  /\ events \in Seq(Status) /\ pevents \in Seq(Ids)
  /\ rsize \in Sizes
  /\ {discard, normal, full, clean} \subseteq BOOLEAN
  /\ files \subseteq Ids /\ dying \subseteq Ids
  /\ final \in [Ids -> Sizes \cup {None}]
  /\ pcurrent \in Ids /\ at \in Ids \cup {None}
  /\ playlist \subseteq Ids
  /\ calls \in 0 .. MaxCall

(* A late event of a segment that has ended does not end the next one too: *)
(* no segment is cut before it has its size (dvr_wrapper.c:2826, 2857).    *)
NoShortSegment == \A s \in Ids : final[s] # None => final[s] >= SegmentSize

(* The list of the record context is what is on disk, whatever was added   *)
(* or removed; a segment is missing from it only while it is being started *)
(* (dvr_wrapper.c:2743-2770, 1047-1062).                                   *)
ListIsOnDisk == task.pc # "updateNext" => DOMAIN rsegs = files \ dying

(* "as the player do not support null playlist, there must be one segment  *)
(* existed at any time" (dvr_wrapper.c:2880): neither the recording nor a  *)
(* playback that runs loses its last segment.                              *)
OneSegmentStays ==
  /\ DOMAIN rsegs # {}
  /\ at # None => DOMAIN psegs # {} /\ at \in playlist

(* Whenever the record context is free, a playback has the segments of the *)
(* recording, all of them and no other: it was loaded under the lock of    *)
(* the record context (dvr_wrapper.c:1693), and additions and removals     *)
(* reach it whatever it was doing.                                         *)
PlaylistFollows ==
  task.pc = "idle" /\ DOMAIN psegs # {} /\ clean => DOMAIN psegs = DOMAIN rsegs

(* The player can be sent to every segment the wrapper believes it has;    *)
(* the list of a stopped playback is empty (dvr_wrapper.c:922, 2115-2131). *)
PlayerHasList ==
  /\ DOMAIN psegs \subseteq playlist
  /\ at = None => DOMAIN psegs = {}

(* record.obsolete, "data obsolete due to the max limit" (dvr_wrapper.c:168), *)
(* never says more than was removed; it may say less, when the event that  *)
(* ends a segment overwrites its final size (2807) and it is removed so.   *)
Removed == {s \in Ids : final[s] # None /\ s \notin DOMAIN rsegs}
ObsoleteIsRemoved ==
  task.pc = "idle" => obsolete <= SumFunctionOnSet(final, Removed)

(* What the wrapper's lists say is on disk, in the player and in the        *)
(* obsolete sizes: each list follows the recorder's at its own pace.       *)
TimeshiftInv ==
  /\ TypeOK
  /\ ListIsOnDisk
  /\ PlayerHasList
  /\ ObsoleteIsRemoved
===============================================================================
