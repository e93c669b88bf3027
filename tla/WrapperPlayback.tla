--------------------------- MODULE WrapperPlayback ---------------------------
(***************************************************************************)
(* A playback of src/dvr_wrapper.c that follows a running recording: the   *)
(* player stops by itself where the data ends, the playback task notes it, *)
(* and the record task sets it going again when there is more.  The        *)
(* application meanwhile starts, pauses, resumes, seeks and stops the      *)
(* playback or ends the recording.                                         *)
(*                                                                         *)
(* Two context locks matter.  That of the recording is held by the record  *)
(* task from the event it takes to the end of its handling, and by the     *)
(* application where app.rec says so; that of the playback is held by the  *)
(* application where app.play says so, and by anyone else for a section    *)
(* that does not block, which is one step.                                 *)
(*                                                                         *)
(* The player plays at normal speed (DvrPlayback and DvrTrick have its     *)
(* details), no segment is removed (WrapperTimeshift has that), and a      *)
(* player with nothing to read gives up at once: NODATA and DATARESUME,    *)
(* whose status is empty, are left out.                                    *)
(***************************************************************************)
EXTENDS Naturals, Sequences, FiniteSets, FiniteSetsExt, SequencesExt

CONSTANTS MaxSegment,  \* bound: segments are 0 .. MaxSegment - 1
          MaxDur,      \* the duration at which a segment ends
          Resume,      \* TIMESHIFT_DATA_DURATION_TO_RESUME
          MaxEvents,   \* bound: events a player has in the playback's list,
                       \* its TRANSITION_OK at the start not counted
          MaxCall,     \* bound: calls of the application
          Modes        \* subset of {"timeshift", "recording", "plain"}

ASSUME FollowAssumption ==
  /\ {MaxSegment, MaxDur, Resume, MaxEvents} \subseteq Nat \ {0}
  /\ MaxCall \in Nat
  /\ Modes # {} /\ Modes \subseteq {"timeshift", "recording", "plain"}

VARIABLES
  mode,      \* the playback is that of a timeshift, of a recording that runs,
             \* or of something else while a timeshift runs
  dur,       \* the duration of the data of each segment
  cur,       \* the segment being recorded
  linked,    \* the newest segment in the list file of the recording
  running,   \* the recording runs
    \* record_evt_list
  task,      \* the record task
  list,      \* the playback context's segments, oldest first: id and duration
  note,      \* its last_event, seg_status and speed
  pevents,   \* playback_evt_list
  player,    \* the player and its thread
  app,       \* the call that runs and the locks it holds
  calls,     \* calls so far
  past       \* what the properties remember, see Past

vars == <<mode, dur, cur, linked, running, task, list, note,
          pevents, player, app, calls, past>>
recording == <<dur, cur, linked, running, task>>

Ids == 0 .. MaxSegment - 1
Free == [pc |-> "idle", rec |-> FALSE, play |-> FALSE, live |-> FALSE]
Stopped == [state |-> "STOP", seg |-> 0, pos |-> 0, pc |-> "play", seekPause |-> FALSE,
            live |-> FALSE]

\* held: the application has the playback in pause; "loose" when it set a
\* speed in that pause, by which the code forgets it, and when a PAUSEDLIVE
\* start pauses although it was resumed meanwhile; masked: in the pause at
\* an end of data the player posted something after its REACHED_END; missed:
\* the list was loaded between the adding of a segment and its linking
Past == [held : {"no", "yes", "loose"}, masked : BOOLEAN, missed : BOOLEAN]

Init ==
  /\ mode \in Modes
  /\ dur = [s \in Ids |-> 0] /\ cur = 0 /\ linked = 0 /\ running = TRUE
  /\ task = [pc |-> "idle", dur |-> 0]
  /\ list = <<>>
  /\ note = [last |-> "NONE", state |-> "START", seg |-> 0, pos |-> 0, speed |-> 0]
  /\ pevents = <<>> /\ player = Stopped
  /\ app = Free /\ calls = 0
  /\ past = [held |-> "no", masked |-> FALSE, missed |-> FALSE]

RecFree == task.pc = "idle" /\ ~app.rec
PlayFree == ~app.play
Follows == mode # "plain"

\* The ids of the list, and the data the player finds in a segment.
Listed == {e.id : e \in ToSet(list)}
Data(s) == IF Follows THEN dur[s] ELSE MaxDur

(***************************************************************************)
(* The recorder: a timeshift or recording that runs.                       *)
(***************************************************************************)
Record ==
  /\ running /\ dur[cur] < MaxDur
  /\ dur' = [dur EXCEPT ![cur] = @ + 1]
  /\ UNCHANGED <<mode, cur, linked, running, task, list, note, pevents,
                 player, app, calls, past>>

----------------------------------------------------------------------------
(* What others do with the player.                                         *)

\* dvr_playback_resume and dvr_playback_pause
Going(p) == CASE p.state = "PAUSE" -> [p EXCEPT !.state = "START"]
              [] OTHER             -> [p EXCEPT !.live = FALSE]
Paused(p) == IF p.state = "START" THEN [p EXCEPT !.state = "PAUSE"] ELSE p

\* dvr_playback_seek; in a pause the thread runs until the first frame
Sought(p, at) == [p EXCEPT !.seg = at.seg, !.pos = at.pos,
                           !.seekPause = @ \/ p.state = "PAUSE"]

\* dvr_playback_update_duration aside, which a limit alone uses.
Updated(s, d) == [i \in DOMAIN list |-> IF list[i].id = s THEN [list[i] EXCEPT !.dur = d]
                                                          ELSE list[i]]

(* mutant: the speed is not looked at *)
MoreDataAnySpeed(s, d) ==
  /\ note.last = "END" /\ note.state = "PAUSE"
  /\ IF note.seg = s THEN d >= note.pos + Resume ELSE d >= Resume

\* wrapper_updatePlaybackSegment: the player waits for data, and there is
\* enough more of it, in its segment or in another one
MoreData(s, d) ==
  /\ note.last = "END" /\ note.state = "PAUSE"
  /\ note.speed # 0
  /\ IF note.seg = s THEN d >= note.pos + Resume ELSE d >= Resume

UpdatePlayback(s, d) ==
  /\ PlayFree
  /\ IF Follows /\ list # <<>>
       THEN /\ list' = Updated(s, d)
            /\ IF MoreData(s, d)
                 THEN /\ note' = [note EXCEPT !.last = "OK"]
                      /\ player' = Going(player)
                 ELSE UNCHANGED <<note, player>>
       ELSE UNCHANGED <<list, note, player>>

(***************************************************************************)
(* The record task.                                                        *)
(***************************************************************************)
Goto(pc) == task' = [pc |-> pc, dur |-> 0]

\* A status of the segment being recorded is taken from record_evt_list; one
\* of an earlier segment is dropped.  As long as the recording runs there is
\* always a new one to come; how old it is when it counts depends on the
\* locks that TaskUpdate waits for.  Afterwards old ones may be left.
Take ==
  /\ RecFree /\ dur[cur] > 0
  /\ \E d \in IF running THEN {dur[cur]} ELSE 1 .. dur[cur] :
       task' = [pc |-> "update", dur |-> d]
  /\ UNCHANGED <<mode, dur, cur, linked, running, list, note, pevents, player,
                 app, calls, past>>

\* process_generateRecordStatus; a full segment is followed by another
TaskUpdate ==
  /\ task.pc = "update"
  /\ UpdatePlayback(cur, task.dur)
  /\ Goto(IF task.dur >= MaxDur /\ running /\ cur < MaxSegment - 1 THEN "next" ELSE "idle")
  /\ UNCHANGED <<mode, dur, cur, linked, running, pevents, app, calls, past>>

\* record_startNextSegment: the recorder goes over ...
TaskNext ==
  /\ task.pc = "next"
  /\ cur' = cur + 1
  /\ Goto("final")
  /\ UNCHANGED <<mode, dur, linked, running, list, note, pevents, player,
                 app, calls, past>>

\* ... the final values of the old segment are noted ...
TaskFinal ==
  /\ task.pc = "final"
  /\ UpdatePlayback(cur - 1, dur[cur - 1])
  /\ Goto("add")
  /\ UNCHANGED <<mode, dur, cur, linked, running, pevents, app, calls, past>>

(* mutant: added whether the playback's segments are loaded or not *)
TaskAddAlways ==
  /\ task.pc = "add" /\ PlayFree
  /\ list' = IF Follows THEN Append(list, [id |-> cur, dur |-> 0]) ELSE list
  /\ Goto("link")
  /\ UNCHANGED <<mode, dur, cur, linked, running, note, pevents, player, app, calls, past>>

\* ... the new one added, to a playback whose segments are loaded ...
TaskAdd ==
  /\ task.pc = "add" /\ PlayFree
  /\ list' = IF Follows /\ list # <<>> THEN Append(list, [id |-> cur, dur |-> 0]) ELSE list
  /\ Goto("link")
  /\ UNCHANGED <<mode, dur, cur, linked, running, note, pevents, player,
                 app, calls, past>>

\* ... and linked, unless it is a timeshift.
TaskLink ==
  /\ task.pc = "link"
  /\ linked' = IF mode = "recording" THEN cur ELSE linked
  /\ Goto("idle")
  /\ UNCHANGED <<mode, dur, cur, running, list, note, pevents, player,
                 app, calls, past>>

(***************************************************************************)
(* The playback task.                                                      *)
(***************************************************************************)
\* process_handlePlaybackEvent; PLAYTIME leaves last_event alone.
HandleEvent ==
  /\ PlayFree /\ pevents # <<>>
  /\ LET e == Head(pevents) IN
       note' = [last |-> e.event, state |-> e.state, seg |-> e.seg, pos |-> e.pos, speed |-> note.speed]
  /\ pevents' = Tail(pevents)
  /\ UNCHANGED <<mode, recording, list, player, app, calls, past>>

(***************************************************************************)
(* The player's thread.                                                    *)
(***************************************************************************)
Runs == player.state = "START" \/ player.seekPause
More == player.pos < Data(player.seg)
Later == {s \in Listed : s > player.seg}

\* _dvr_playback_get_status; a PAUSEDLIVE start is in pause from the start
Status(p) ==
  [state |-> IF p.live /\ p.state = "START" THEN "PAUSE" ELSE p.state,
   seg |-> p.seg, pos |-> p.pos]

Event(name, status) == [event |-> name, state |-> status.state, seg |-> status.seg,
                        pos |-> status.pos]
Room == Len(pevents) < MaxEvents
Masks == past' = [past EXCEPT !.masked = @ \/ player.state = "PAUSE"]

\* A block is read and written.
Play ==
  /\ player.pc = "play" /\ Runs /\ More
  /\ player' = [player EXCEPT !.pos = @ + 1]
  /\ UNCHANGED <<mode, recording, list, note, pevents, app, calls, past>>

\* The first frame after a seek in a pause, and that of a PAUSEDLIVE start,
\* even one that was resumed since.
FirstFrame ==
  /\ player.pc = "play" /\ player.pos > 0
  /\ LET pauses == player.live /\ player.state = "START" IN
       /\ player.seekPause \/ pauses
       /\ player' = [player EXCEPT !.seekPause = FALSE, !.live = @ /\ ~pauses,
                                   !.state = IF pauses THEN "PAUSE" ELSE @]
       /\ past' = [past EXCEPT !.held = IF pauses /\ @ = "no" THEN "loose" ELSE @]
  /\ UNCHANGED <<mode, recording, list, note, pevents, app, calls>>

\* The next segment of the player's list is opened.
NextSegment ==
  /\ player.pc = "play" /\ Runs /\ ~More /\ Later # {} /\ Room
  /\ player' = [player EXCEPT !.seg = Min(Later), !.pos = 0]
  /\ pevents' = Append(pevents, Event("OK", Status(player')))
  /\ Masks
  /\ UNCHANGED <<mode, recording, list, note, app, calls>>

\* Nothing to read and no next segment: the thread has made up its mind, ...
ReachEnd ==
  /\ player.pc = "play" /\ Runs /\ ~More /\ Later = {}
  /\ player' = [player EXCEPT !.pc = "pause"]
  /\ UNCHANGED <<mode, recording, list, note, pevents, app, calls, past>>

\* ... pauses the player ...
PauseAtEnd ==
  /\ player.pc = "pause"
  /\ player' = [Paused(player) EXCEPT !.pc = "tell"]
  /\ UNCHANGED <<mode, recording, list, note, pevents, app, calls, past>>

(* mutant: told before the pause *)
TellEndFirst ==
  /\ player.pc = "tell" /\ Room
  /\ pevents' = Append(pevents, Event("END", [Status(player) EXCEPT !.state = "START"]))
  /\ player' = [player EXCEPT !.pc = "play"]
  /\ past' = [past EXCEPT !.masked = FALSE]
  /\ UNCHANGED <<mode, recording, list, note, app, calls>>

\* ... and posts REACHED_END with the status it then has.
TellEnd ==
  /\ player.pc = "tell" /\ Room
  /\ pevents' = Append(pevents, Event("END", Status(player)))
  /\ player' = [player EXCEPT !.pc = "play"]
  /\ past' = [past EXCEPT !.masked = FALSE]
  /\ UNCHANGED <<mode, recording, list, note, app, calls>>

\* is_notify_time: now and then the position, also in a pause; posted and
\* noted in one step, and where the status noted counts, after an end.
TellTime ==
  /\ player.pc = "play" /\ player.state # "STOP" /\ PlayFree /\ pevents = <<>>
  /\ note.last = "END"
  /\ LET p == Status(player) IN
       note' = [note EXCEPT !.state = p.state, !.seg = p.seg, !.pos = p.pos]
  /\ UNCHANGED <<mode, recording, list, pevents, player, app, calls, past>>

----------------------------------------------------------------------------
(* dvr_wrapper_seek_playback: the segment and the offset in it of a time,  *)
(* in a list of segments after `obsolete' time was removed; total_duration *)
(* is the sum of the first i durations                                     *)
Sum(i, l) ==
  LET total[n \in 0 .. Len(l)] == IF n = 0 THEN 0 ELSE total[n - 1] + l[n].dur
  IN  total[i]

(* mutant: the obsolete time is not taken off *)
SeekPlaceWhole(l, obsolete, t) ==
  LET hit == {i \in DOMAIN l : Sum(i, l) >= t} IN
  IF t <= obsolete THEN [seg |-> l[1].id, pos |-> 0]
  ELSE IF hit = {} THEN [seg |-> l[Len(l)].id, pos |-> l[Len(l)].dur]
  ELSE [seg |-> l[Min(hit)].id, pos |-> t - Sum(Min(hit) - 1, l)]

SeekPlace(l, obsolete, t) ==
  LET hit == {i \in DOMAIN l : obsolete + Sum(i, l) >= t} IN
  IF t <= obsolete THEN [seg |-> l[1].id, pos |-> 0]
  ELSE IF hit = {} THEN [seg |-> l[Len(l)].id, pos |-> l[Len(l)].dur]
  ELSE [seg |-> l[Min(hit)].id, pos |-> t - obsolete - Sum(Min(hit) - 1, l)]

\* process_generatePlaybackStatus: info_cur.time of a place of the player
TimeOf(l, at) ==
  LET here == {i \in DOMAIN l : l[i].id = at.seg} IN
  at.pos + Sum(IF here = {} THEN Len(l) ELSE Min(here) - 1, l)

(***************************************************************************)
(* The application.                                                        *)
(***************************************************************************)
Called == app = Free /\ calls < MaxCall /\ calls' = calls + 1
Holds(h) == past' = [past EXCEPT !.held = h]

(* mutant: the playback is locked before the recording *)
StartPlaybackFirst ==
  /\ Called /\ list = <<>> /\ player.state = "STOP"
  /\ app' = [app EXCEPT !.pc = IF mode = "recording" THEN "load" ELSE "record", !.play = TRUE]
  /\ UNCHANGED <<mode, recording, list, note, pevents, player, past>>

\* dvr_wrapper_start_playback of a playback that is stopped: the record
\* context of the timeshift, if there is one, is locked first, ...
StartPlayback ==
  /\ Called /\ list = <<>> /\ player.state = "STOP"
  /\ app' = [app EXCEPT !.pc = IF mode = "recording" THEN "lock" ELSE "record"]
  /\ UNCHANGED <<mode, recording, list, note, pevents, player, past>>

LockRecord ==
  /\ app.pc = "record" /\ RecFree
  /\ app' = [app EXCEPT !.pc = IF app.play THEN "load" ELSE "lock", !.rec = TRUE]
  /\ UNCHANGED <<mode, recording, list, note, pevents, player, calls, past>>

LockPlayback ==
  /\ app.pc = "lock"
  /\ app' = [app EXCEPT !.pc = "load", !.play = TRUE]
  /\ UNCHANGED <<mode, recording, list, note, pevents, player, calls, past>>

\* The segments on disk: those of the list file, or all files of a timeshift;
\* the duration of the one being recorded is a little old.
Loaded ==
  CASE mode = "timeshift" -> 0 .. cur
    [] mode = "recording" -> 0 .. linked
    [] mode = "plain"     -> {0}
Durations(s) ==
  {Data(s)} \cup IF Follows /\ s = cur /\ running THEN {Data(s) - 1} \cap Nat ELSE {}

\* ... then the segments on disk are loaded, and the first is sought: with a
\* limit (dvr_playback_check_limit; nothing expires here) by
\* dvr_wrapper_seek_playback, for which the lock is given up ...
Load ==
  /\ app.pc = "load"
  /\ \E last \in Durations(Max(Loaded)), live, limit \in BOOLEAN :
       /\ list' = [i \in 1 .. Cardinality(Loaded) |->
                    [id |-> i - 1, dur |-> IF i = Cardinality(Loaded) THEN last ELSE Data(i - 1)]]
       /\ note' = [note EXCEPT !.speed = IF live THEN 0 ELSE 1]
       /\ app' = [app EXCEPT !.pc = IF limit THEN "seek" ELSE "go", !.play = ~limit,
                             !.live = live]
       /\ past' = [past EXCEPT !.held = IF live THEN "yes" ELSE "no",
                             !.missed = mode = "recording" /\ task.pc = "link"]
       /\ player' = IF limit THEN player ELSE Sought(player, [seg |-> 0, pos |-> 0])
  /\ UNCHANGED <<mode, recording, pevents, calls>>

SeekFirst ==
  /\ app.pc = "seek"
  /\ player' = Sought(player, SeekPlace(list, 0, 0))
  /\ app' = [app EXCEPT !.pc = "go", !.play = TRUE]
  /\ UNCHANGED <<mode, recording, list, note, pevents, calls, past>>

\* ... and the player started; its thread begins with TRANSITION_OK.  Only a
\* playback that is a timeshift gives the record context back.
Go ==
  /\ app.pc = "go"
  /\ player' = [player EXCEPT !.state = "START", !.live = app.live]
  /\ pevents' = Append(pevents, Event("OK", Status(player')))
  /\ app' = [Free EXCEPT !.rec = app.rec /\ mode # "timeshift"]
  /\ UNCHANGED <<mode, recording, list, note, calls, past>>

\* dvr_wrapper_stop_playback joins the thread; last_event, seg_status and
\* speed stay as they are.
StopPlayback ==
  /\ Called /\ player.state # "STOP" /\ player.pc = "play"
  /\ player' = [Stopped EXCEPT !.live = player.live, !.seekPause = player.seekPause]
  /\ list' = <<>>
  /\ Holds("no")
  /\ UNCHANGED <<mode, recording, note, pevents, app>>

\* dvr_wrapper_pause_playback
PausePlayback ==
  /\ Called /\ list # <<>>
  /\ note' = [note EXCEPT !.last = IF @ = "END" THEN "OK" ELSE @, !.speed = 0]
  /\ player' = Paused(player)
  /\ Holds("yes")
  /\ UNCHANGED <<mode, recording, list, pevents, app>>

\* dvr_wrapper_resume_playback
ResumePlayback ==
  /\ Called /\ list # <<>>
  /\ player' = Going(player)
  /\ note' = [note EXCEPT !.speed = 1]
  /\ Holds("no")
  /\ UNCHANGED <<mode, recording, list, pevents, app>>

\* dvr_wrapper_set_playback_speed, to a speed the decoder itself has; a
\* player that pauses goes on pausing.
SetSpeed ==
  /\ Called /\ list # <<>>
  /\ note' = [note EXCEPT !.speed = 1]
  /\ Holds(IF past.held = "yes" THEN "loose" ELSE past.held)
  /\ UNCHANGED <<mode, recording, list, pevents, player, app>>

\* dvr_wrapper_seek_playback
SeekPlayback ==
  /\ Called /\ list # <<>>
  /\ \E t \in 0 .. Sum(Len(list), list) : player' = Sought(player, SeekPlace(list, 0, t))
  /\ UNCHANGED <<mode, recording, list, note, pevents, app, past>>

\* dvr_wrapper_stop_record: the recorder stops, and what it has recorded is
\* noted once more.
StopRecord ==
  /\ Called /\ running
  /\ app' = [app EXCEPT !.pc = "stop"]
  /\ UNCHANGED <<mode, recording, list, note, pevents, player, past>>

StopSegment ==
  /\ app.pc = "stop" /\ RecFree
  /\ app' = [app EXCEPT !.pc = "last", !.rec = TRUE]
  /\ running' = FALSE
  /\ UNCHANGED <<mode, dur, cur, linked, task, list, note, pevents, player, calls, past>>

StopUpdate ==
  /\ app.pc = "last"
  /\ UpdatePlayback(cur, dur[cur])
  /\ app' = Free
  /\ UNCHANGED <<mode, recording, pevents, calls, past>>

----------------------------------------------------------------------------
RecordTask == Take \/ TaskUpdate \/ TaskNext \/ TaskFinal \/ TaskAdd \/ TaskLink
Thread == Play \/ FirstFrame \/ NextSegment \/ ReachEnd \/ PauseAtEnd \/ TellEnd
InCall == \/ LockRecord \/ LockPlayback \/ Load \/ SeekFirst \/ Go
          \/ StopSegment \/ StopUpdate
Call == \/ StartPlayback \/ StopPlayback \/ PausePlayback \/ ResumePlayback
        \/ SetSpeed \/ SeekPlayback \/ StopRecord

Next == Record \/ RecordTask \/ HandleEvent \/ Thread \/ TellTime \/ InCall \/ Call

Spec == Init /\ [][Next]_vars

\* The threads of the recorder, the two tasks and the player are scheduled,
\* and a call that was entered goes on; who waits for a context lock that is
\* free again and again gets it.  The application need not call, and PLAYTIME
\* need not be posted.
FairSpec ==
  /\ Spec
  /\ WF_vars(Record) /\ WF_vars(RecordTask) /\ WF_vars(HandleEvent) /\ WF_vars(Thread)
  /\ WF_vars(InCall) /\ SF_vars(LockRecord) /\ SF_vars(StopSegment)

----------------------------------------------------------------------------
TypeOK ==
  /\ mode \in Modes
  /\ dur \in [Ids -> 0 .. MaxDur] /\ cur \in Ids /\ linked \in 0 .. cur
  /\ running \in BOOLEAN
  /\ task.pc \in {"idle", "update", "next", "final", "add", "link"}
  /\ list \in Seq([id : Ids, dur : 0 .. MaxDur])
  /\ note \in [last : {"NONE", "OK", "END"}, state : {"START", "PAUSE", "STOP"},
               seg : Ids, pos : 0 .. MaxDur, speed : 0 .. 1]
  /\ Len(pevents) <= MaxEvents + MaxCall
  /\ player.seg \in Ids /\ player.pos \in 0 .. Data(player.seg)
  /\ player.state = "STOP" => list = <<>> \/ app.pc # "idle"
  /\ past \in Past
  /\ calls \in 0 .. MaxCall

(* The application, at rest, holds no context lock: "unlock the recorder   *)
(* locked above" (dvr_wrapper.c:1977).                                     *)
LocksGivenBack == app.pc = "idle" => ~app.rec /\ ~app.play

(* Whenever the record context is free, a playback that is loaded has each *)
(* segment of the recording once and in order, whatever fell between its   *)
(* loading and the steps of a change of segment (dvr_wrapper.c:1692, 918). *)
ListWhole ==
  task.pc = "idle" /\ Follows /\ list # <<>> /\ ~past.missed =>
    /\ Len(list) = cur + 1
    /\ \A i \in DOMAIN list : list[i].id = i - 1

(* ... and the duration it has of a segment that ended is the final one,   *)
(* on which seeks and the reported times rest (dvr_wrapper.c:2763).        *)
EndedIsFinal ==
  task.pc = "idle" /\ Follows =>
    \A i \in DOMAIN list : list[i].id < cur => list[i].dur = dur[list[i].id]

(* A seek goes to the time it was asked for, if that is still there and    *)
(* recorded already, else to the nearest end: what the status then reports *)
(* as the current time plus the obsolete time (dvr_wrapper.c:2282, 2990).  *)
SeekLands ==
  list # <<>> => \A obsolete \in {0, 2}, t \in 0 .. Sum(Len(list), list) + 3 :
    obsolete + TimeOf(list, SeekPlace(list, obsolete, t)) =
      Max({obsolete, Min({t, obsolete + Sum(Len(list), list)})})

(* What the application has put in pause nobody else sets going, whatever  *)
(* end of data is still being told (dvr_wrapper.c:744-756).                *)
HeldStays ==
  [][past.held = "yes" /\ past'.held = "yes" /\ player.state = "PAUSE" => player'.state # "START"]_vars

\* The recording has what a resume asks for beyond a place.
Enough(at) ==
  \/ at.seg \in Listed /\ dur[at.seg] >= at.pos + Resume
  \/ at.seg # cur /\ cur \in Listed /\ dur[cur] >= Resume
Waits == player.state = "PAUSE" /\ past.held = "no" /\ Enough(player) /\ Enough(note)

(* "the playback paused if no data been checked from recording, should     *)
(* resume the player later when there's more data" (dvr_wrapper.c:821-824) *)
(* than is before the place it stands at and the last it told, while the   *)
(* recording runs; not when the application sought in that pause and       *)
(* something was posted since.                                             *)
GoesOn == []<>(Waits => past.masked \/ ~running)

(* Every call returns: a start holds one context lock and waits for the    *)
(* other, as the record task does.                                         *)
CallsReturn == app.pc # "idle" ~> app.pc = "idle"

(* Locks given back, final durations in the list, and seeks that rest on   *)
(* them.                                                                   *)
PlaybackInv ==
  /\ TypeOK
  /\ LocksGivenBack
  /\ EndedIsFinal
  /\ SeekLands
=============================================================================
