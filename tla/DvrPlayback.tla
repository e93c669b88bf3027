---------------------------- MODULE DvrPlayback ----------------------------
(***************************************************************************)
(* How the player of src/dvr_playback.c carries the units of the segments  *)
(* to the decoder: the playback thread, the calls of the application and   *)
(* of the event task that interfere with it (start, seek, pause, resume,   *)
(* stop, adding and removing a segment) and a recorder that still writes.  *)
(* Normal speed only: the trick speeds are DvrTrick's.                     *)
(*                                                                         *)
(* A unit is half a block of openParams.block_size, so that a block may be *)
(* cut by the end of a segment.  A section under player->lock is one step; *)
(* the calls are serialised by the wrapper and a seek, which has several   *)
(* sections under segment_lock, keeps `app' busy in between and so keeps   *)
(* the thread out of its own sections under player->lock.                  *)
(***************************************************************************)
EXTENDS Naturals, Sequences, FiniteSets, FiniteSetsExt, SequencesExt

CONSTANTS MaxSegment,   \* bound: segments of the recording
          MaxUnit,      \* bound: units of a segment
          Block,        \* units of a block
          Cache,        \* units the decoder takes before a write times out
          NoDataTime,   \* check_no_data_time
          MaxWait,      \* MAX_REACHEND_TIMEOUT / timeout
          MaxCall,      \* bound: calls of the application
          Missing,      \* segments whose files cannot be opened
          Prompts,      \* the delay of the decoder ends the playback, or not
          IoErrors      \* may segment_read fail with EIO

ASSUME PlaybackAssumption ==
  /\ {MaxSegment, MaxUnit, Block, Cache, NoDataTime, MaxWait} \subseteq Nat \ {0}
  /\ Cache >= Block /\ MaxUnit > Block /\ MaxCall \in Nat
  /\ Missing \subseteq 1 .. MaxSegment
  /\ Prompts \subseteq BOOLEAN /\ IoErrors \in BOOLEAN

VARIABLES
  size,      \* units in the file of each segment
  list,      \* player->segment_list
  player,    \* state, cur_segment_id, segment_is_open, seek_pause, drop_ts,
             \* is_running and ts_cache_len
  handle,    \* player->segment_handle: the file and the position in it
  thread,    \* the playback thread: where it is, its buffer, goto_rewrite,
             \* noData, the waits of reach_end_timeout and cache_time
  decoder,   \* units the decoder has not shown, and its first frame
  app,       \* the call that is running
  calls,     \* calls made
  prompt,    \* vendor is not AMAZON and delay_is_effective
  seen       \* what the properties remember, see Seen

vars == <<size, list, player, handle, thread, decoder, app, calls, prompt, seen>>

Segments == 1 .. MaxSegment
None == 0
NoHandle == [seg |-> None, pos |-> 0]
Idle == [op |-> "none", seg |-> None, pos |-> 0]
NoThread == [pc |-> "none", buf |-> <<>>, rewrite |-> FALSE, noData |-> 0,
             waits |-> 0, delay |-> 0]

\* at: the unit a start or a seek asked for (fresh) or the last the decoder
\* took; raced: a seek or a write of the recorder fell between a check of
\* the thread and the step it was for; moved: one of them came after the
\* thread last read; told: NODATA not answered by DATARESUME or by a new
\* segment; late: blocks written in a pause.
Seen == [at : [seg : 0 .. MaxSegment, pos : 0 .. MaxUnit], fresh : BOOLEAN,
         raced : BOOLEAN, moved : BOOLEAN, told : BOOLEAN, late : 0 .. 2]

----------------------------------------------------------------------------
(* The segments *)

Newest == Max(list)
Openable == list \ Missing
After(s) == {i \in list : i > s}

\* _dvr_get_next_segmentId at normal speed: the first of the list when no
\* segment is open, else what follows the current one if that is listed.
Next_(s) == IF ~player.open THEN list ELSE IF s \in list THEN After(s) ELSE {}

\* _change_to_next_segment tries them until one opens.
NextId == LET n == Next_(player.cur) \ Missing IN
  IF n # {} THEN Min(n) ELSE None

\* The units of the file from p on that fit in n.
Units(s, p, n) ==
  [i \in 1 .. Min({n, size[s] - p}) |-> [seg |-> s, pos |-> p + i - 1]]

\* v is the unit at u, or the first of the next listed segment if the file
\* ends there.
Is(u, v) ==
  \/ v = u
  \/ /\ v.seg > u.seg /\ v.pos = 0
     /\ u.pos = size[u.seg]
     /\ ~ \E s \in Openable : u.seg < s /\ s < v.seg

Follows(u, v) == Is([u EXCEPT !.pos = @ + 1], v)

----------------------------------------------------------------------------
Init ==
  /\ size = [s \in Segments |-> IF s = 1 THEN Block + 1 ELSE 0]
  /\ list = {1}
  /\ player = [state |-> "STOP", cur |-> None, open |-> FALSE,
               seekPause |-> FALSE, drop |-> FALSE, running |-> FALSE, cacheLen |-> 0]
  /\ handle = NoHandle
  /\ thread = NoThread
  /\ decoder = [units |-> 0, frame |-> "none"]
  /\ app = Idle
  /\ calls = 0
  /\ prompt \in Prompts
  /\ seen = [at |-> [seg |-> 1, pos |-> 0], fresh |-> TRUE, raced |-> FALSE, moved |-> FALSE,
             told |-> FALSE, late |-> 0]

At(pc) == thread.pc = pc
Alive == thread.pc \notin {"none", "exit"}
Unlocked == app.op # "seek"
Held == player.state = "PAUSE" /\ ~player.seekPause

(***************************************************************************)
(* The recorder and the decoder.                                           *)
(***************************************************************************)
\* The data file of the newest segment grows.
Grow ==
  /\ size[Newest] < MaxUnit
  /\ size' = [size EXCEPT ![Newest] = @ + 1]
  /\ seen' = [seen EXCEPT !.moved = TRUE,
                          !.raced = @ \/ (At("change") /\ handle.seg = Newest)]
  /\ UNCHANGED <<list, player, handle, thread, decoder, app, calls, prompt>>

\* dvr_playback_add_segment, when the recorder has started a segment.
AddSegment ==
  /\ Newest < MaxSegment /\ size[Newest] > 0
  /\ Unlocked
  /\ list' = list \cup {Newest + 1}
  /\ seen' = [seen EXCEPT !.moved = TRUE]
  /\ UNCHANGED <<size, player, handle, thread, decoder, app, calls, prompt>>

\* The decoder shows a block: it runs unless it is paused, and after a seek
\* in pause up to its first frame.
Show ==
  /\ decoder.units > 0
  /\ ~Held
  /\ decoder' = [decoder EXCEPT !.units = @ - Block]
  /\ UNCHANGED <<size, list, player, handle, thread, app, calls, prompt, seen>>

\* _dvr_tsplayer_callback, without a lock.
FirstFrame ==
  /\ decoder.frame = "fed"
  /\ decoder' = [decoder EXCEPT !.frame = "shown"]
  /\ player' = [player EXCEPT !.seekPause = FALSE]
  /\ UNCHANGED <<size, list, handle, thread, app, calls, prompt, seen>>

----------------------------------------------------------------------------
(* The calls *)

Calls(op) == app = Idle /\ calls < MaxCall /\ calls' = calls + 1

\* dvr_playback_start: a call for a player in pause is a resume.
Start ==
  /\ Calls("start")
  /\ player.state = "STOP"
  /\ player.cur = None \/ player.cur \in list
  /\ player' = [player EXCEPT !.state = "START", !.running = TRUE]
  \* _start_playback_thread: none when one is marked as running
  /\ thread' = IF player.running THEN thread ELSE [NoThread EXCEPT !.pc = "start",
                                                              !.noData = thread.noData]
  /\ decoder' = [decoder EXCEPT !.frame = "none"]
  /\ UNCHANGED <<size, list, handle, app, prompt, seen>>

\* dvr_playback_pause, by the application.
Paused(p) == IF p.state = "START" THEN [p EXCEPT !.state = "PAUSE"] ELSE p

Pause ==
  /\ Calls("pause")
  /\ player.state = "START"
  /\ player' = Paused(player)
  /\ seen' = [seen EXCEPT !.late = 0]
  /\ UNCHANGED <<size, list, handle, thread, decoder, app, prompt>>

\* dvr_playback_resume without a limit; also dvr_playback_start.
Resume ==
  /\ Calls("resume")
  /\ player.state = "PAUSE"
  /\ player' = [player EXCEPT !.state = "START"]
  /\ seen' = [seen EXCEPT !.late = 0]
  /\ UNCHANGED <<size, list, handle, thread, decoder, app, prompt>>

(***************************************************************************)
(* dvr_playback_seek holds player->lock all along and takes segment_lock   *)
(* for _dvr_open_segment and again for the position.  Times are places in  *)
(* the file; one past the end is refused when there is no next segment and *)
(* no recorder (SegmentFile has segment_ongoing), and then the application *)
(* asks for it in the segment it is in.                                    *)
(***************************************************************************)
Busy == thread.pc \in {"read", "change", "reread", "write"}

SeekOpen(s, p) ==
  /\ Calls("seek")
  /\ s \in Openable
  /\ p % Block = 0
  /\ p <= size[s] \/ (player.open /\ player.cur = s /\ s = Newest)
  /\ app' = [op |-> "seek", seg |-> s, pos |-> p]
  /\ IF player.open /\ player.cur = s THEN UNCHANGED <<player, handle, seen>>
     ELSE /\ player' = [player EXCEPT !.open = TRUE, !.cur = s]
          /\ handle' = [seg |-> s, pos |-> 0]
          /\ seen' = [seen EXCEPT !.raced = Alive]
  /\ UNCHANGED <<size, list, thread, decoder, prompt>>

\* Refused, or the state STOP (only the file is positioned), or the decoder
\* is restarted; the SEEK command brings any state but PAUSE to START.
SeekRefused ==
  /\ app.op = "seek" /\ app.pos > size[app.seg] /\ After(app.seg) = {}
  /\ app' = Idle
  /\ UNCHANGED <<size, list, player, handle, thread, decoder, calls, prompt, seen>>

(* mutant: the data read before is not dropped *)
SoughtKeeps == [player EXCEPT !.cacheLen = 0, !.cur = app.seg,
                              !.seekPause = @ \/ player.state = "PAUSE"]

Sought == [player EXCEPT !.drop = TRUE, !.cacheLen = 0, !.cur = app.seg,
                         !.seekPause = @ \/ player.state = "PAUSE"]

SeekFile ==
  /\ app.op = "seek" /\ (app.pos <= size[app.seg] \/ After(app.seg) # {})
  /\ handle # NoHandle
  /\ LET p == Min({app.pos, size[app.seg]})
     IN  /\ handle' = [handle EXCEPT !.pos = Min({p, size[handle.seg]})]
         /\ player' = Sought
         /\ decoder' = IF player.state = "STOP" THEN decoder
                       ELSE [units |-> 0, frame |-> "none"]
         /\ seen' = [seen EXCEPT
               !.at = [seg |-> app.seg, pos |-> p], !.fresh = TRUE, !.moved = TRUE,
               !.raced = Busy \/ At("first") \/ (Alive /\ handle.seg # app.seg),
               !.late = 0]
  /\ app' = Idle
  /\ UNCHANGED <<size, list, thread, calls, prompt>>

\* dvr_playback_stop asks the thread to leave and joins it.
StopAsk ==
  /\ Calls("stop")
  /\ player.state # "STOP"
  /\ player' = [player EXCEPT !.running = FALSE]
  /\ app' = [Idle EXCEPT !.op = IF player.running THEN "join" ELSE "stop"]
  /\ UNCHANGED <<size, list, handle, thread, decoder, prompt, seen>>

(* mutant: stop does not wait for the thread *)
JoinNothing ==
  /\ app.op = "join"
  /\ app' = [Idle EXCEPT !.op = "stop"]
  /\ UNCHANGED <<size, list, player, handle, thread, decoder, calls, prompt, seen>>

Join ==
  /\ app.op = "join"
  /\ At("exit")
  /\ app' = [Idle EXCEPT !.op = "stop"]
  /\ thread' = [NoThread EXCEPT !.noData = thread.noData]
  /\ UNCHANGED <<size, list, player, handle, decoder, calls, prompt, seen>>

\* The segment is closed and the player forgets where it was.
Stop ==
  /\ app.op = "stop"
  /\ app' = Idle
  /\ handle' = NoHandle
  /\ player' = [player EXCEPT !.state = "STOP", !.cur = None, !.open = FALSE]
  /\ decoder' = [units |-> 0, frame |-> "none"]
  /\ seen' = [seen EXCEPT !.raced = FALSE]
  /\ UNCHANGED <<size, list, thread, calls, prompt>>

\* dvr_playback_remove_segment compares with the current segment before it
\* takes player->lock.
RemoveLook(s) ==
  /\ Calls("remove")
  /\ s \in list \ {player.cur, Newest}
  /\ app' = [op |-> "remove", seg |-> s, pos |-> 0]
  /\ UNCHANGED <<size, list, player, handle, thread, decoder, prompt, seen>>

RemoveDone ==
  /\ app.op = "remove"
  /\ app' = Idle
  /\ list' = list \ {app.seg}
  /\ seen' = [seen EXCEPT !.raced = @ \/ app.seg = player.cur]
  /\ UNCHANGED <<size, player, handle, thread, decoder, calls, prompt>>

----------------------------------------------------------------------------
(* The thread *)

Go(pc) == thread' = [thread EXCEPT !.pc = pc]

\* The current segment becomes the next one, or the last of those that do
\* not open.
Changed ==
  IF NextId # None
  THEN /\ player' = [player EXCEPT !.open = TRUE, !.cur = NextId]
       /\ handle' = [seg |-> NextId, pos |-> 0]
  ELSE IF Next_(player.cur) # {}
  THEN /\ player' = [player EXCEPT !.open = TRUE, !.cur = Max(Next_(player.cur))]
       /\ handle' = NoHandle
  ELSE UNCHANGED <<player, handle>>

\* The first segment, unless a seek has opened one: that is looked at under
\* no lock, and a seek that comes in between has its segment passed over.
Begin ==
  /\ At("start")
  /\ Go(IF player.open THEN "top" ELSE "first")
  /\ UNCHANGED <<size, list, player, handle, decoder, app, calls, prompt, seen>>

FirstSegment ==
  /\ At("first")
  /\ Changed
  /\ Go(IF NextId = None THEN "exit" ELSE "top")
  /\ seen' = [seen EXCEPT !.at = [seg |-> NextId, pos |-> 0], !.fresh = TRUE]
  /\ UNCHANGED <<size, list, decoder, app, calls, prompt>>

\* The head of the loop: leave, wait while paused, forget what was read
\* before a seek, write again what was not taken, or read.
(* mutant: the pause is looked at before is_running *)
MayLeaveUnpaused == ~player.running /\ ~Held

MayLeave == ~player.running

Leave ==
  /\ At("top") /\ MayLeave
  /\ thread' = [thread EXCEPT !.pc = "exit", !.buf = <<>>, !.rewrite = FALSE]
  /\ UNCHANGED <<size, list, player, handle, decoder, app, calls, prompt, seen>>

MayGo == player.running /\ Unlocked /\ ~Held

Head_ ==
  /\ At("top")
  /\ MayGo
  /\ IF player.drop
     THEN /\ thread' = [thread EXCEPT !.pc = "read", !.buf = <<>>, !.rewrite = FALSE]
          /\ player' = [player EXCEPT !.drop = FALSE]
     ELSE /\ thread' = [thread EXCEPT !.pc = IF thread.rewrite THEN "drop" ELSE "read",
                                      !.rewrite = FALSE]
          /\ UNCHANGED player
  /\ UNCHANGED <<size, list, handle, decoder, app, calls, prompt, seen>>

(* mutant: the data of the segment before is overwritten *)
FilledNew == IF handle = NoHandle THEN <<>>
             ELSE Units(handle.seg, handle.pos, Block - Len(thread.buf))

\* What segment_read leaves in the buffer.  Without a file it fails, time and
\* again, and each time takes from what is in hand: that is lost at once here,
\* as only a seek, which forgets it too, opens a file again.
Filled == IF handle = NoHandle THEN <<>>
          ELSE thread.buf \o Units(handle.seg, handle.pos, Block - Len(thread.buf))

Counted == thread.noData >= NoDataTime

\* With data in hand: DATARESUME if NODATA was told, the end is not waited
\* for any more, and only a whole block goes on to be written.
WithData(buf) ==
  /\ thread' = [thread EXCEPT
        !.pc = IF Len(buf) = Block THEN "drop" ELSE "top", !.buf = buf,
        !.noData = IF Counted THEN 0 ELSE @, !.waits = 0]
  /\ seen' = [seen EXCEPT !.told = @ /\ ~Counted, !.moved = FALSE]

Advance == handle' = IF handle = NoHandle THEN handle
                     ELSE [handle EXCEPT !.pos = @ + Len(Filled) - Len(thread.buf)]

Read ==
  /\ At("read") /\ Unlocked
  /\ Advance
  /\ player' = [player EXCEPT !.cacheLen = Len(Filled)]
  /\ IF handle # NoHandle /\ Filled = thread.buf
     THEN Go("change") /\ seen' = [seen EXCEPT !.moved = FALSE]
     ELSE WithData(Filled)
  /\ UNCHANGED <<size, list, decoder, app, calls, prompt>>

\* EIO: the thread tells the application and leaves for good.
ReadFails ==
  /\ IoErrors
  /\ At("read") /\ Unlocked
  /\ thread' = [thread EXCEPT !.pc = "exit", !.buf = <<>>]
  /\ UNCHANGED <<size, list, player, handle, decoder, app, calls, prompt, seen>>

\* The end of the file: to the next segment, under segment_lock only.
Change ==
  /\ At("change")
  /\ Changed
  /\ Go(IF NextId # None THEN "reread" ELSE "end")
  /\ UNCHANGED <<size, list, decoder, app, calls, prompt, seen>>

Reread ==
  /\ At("reread") /\ Unlocked
  /\ Advance
  /\ player' = [player EXCEPT !.cacheLen = Len(Filled)]
  /\ thread' = [thread EXCEPT
        !.pc = IF Len(Filled) = Block THEN "drop" ELSE "top", !.buf = Filled,
        !.noData = 0, !.waits = 0, !.delay = 0]
  /\ seen' = [seen EXCEPT !.moved = FALSE, !.told = FALSE]
  /\ UNCHANGED <<size, list, decoder, app, calls, prompt>>

(***************************************************************************)
(* No next segment: NODATA when that has been seen NoDataTime times with   *)
(* an empty decoder; the end is reached when the decoder has shown         *)
(* everything or has been waited for long enough.                          *)
(***************************************************************************)
Empty == decoder.units = 0
NoData == thread.noData + (IF Empty THEN 1 ELSE 0)
Reached == (prompt /\ Empty) \/ thread.waits >= MaxWait

(* mutant: a decoder that shows nothing more starts the wait again, too *)
WaitsResets == IF decoder.units <= thread.delay THEN 0 ELSE thread.waits + 1

\* reach_end_timeout starts again while the decoder still shows something.
Waits == IF decoder.units < thread.delay THEN 0 ELSE thread.waits + 1

NothingNext ==
  /\ At("end")
  /\ thread' = [thread EXCEPT !.pc = IF Reached THEN "endpause" ELSE "top",
                              !.noData = Min({NoData, NoDataTime + 1}),
                              !.waits = IF Reached THEN @ ELSE Min({Waits, MaxWait}),
                              !.delay = IF Reached THEN @ ELSE decoder.units]
  /\ seen' = [seen EXCEPT !.told = @ \/ (Empty /\ NoData = NoDataTime)]
  /\ UNCHANGED <<size, list, player, handle, decoder, app, calls, prompt>>

\* REACHED_END: dvr_playback_pause, then the event.
EndPause ==
  /\ At("endpause") /\ Unlocked
  /\ player' = Paused(player)
  /\ Go("top")
  /\ seen' = [seen EXCEPT !.late = 0]
  /\ UNCHANGED <<size, list, handle, decoder, app, calls, prompt>>

\* drop_ts is looked at without player->lock before the write.
Drop ==
  /\ At("drop")
  /\ IF player.drop
     THEN /\ thread' = [thread EXCEPT !.pc = "top", !.buf = <<>>]
          /\ player' = [player EXCEPT !.drop = FALSE, !.cacheLen = 0]
     ELSE Go("write") /\ UNCHANGED player
  /\ UNCHANGED <<size, list, handle, decoder, app, calls, prompt, seen>>

\* ts_cache_len after a block was taken.
LeftInHand(buf) == 0

Fits == decoder.units + Len(thread.buf) <= Cache

\* AmTsPlayer_writeData under segment_lock; a block that was not taken is
\* written again.
Write ==
  /\ At("write")
  /\ IF Fits
     THEN /\ decoder' = [units |-> decoder.units + Len(thread.buf),
                         frame |-> IF decoder.frame = "none" THEN "fed"
                                   ELSE decoder.frame]
          /\ thread' = [thread EXCEPT !.pc = "top", !.buf = <<>>]
          /\ player' = [player EXCEPT !.cacheLen = LeftInHand(thread.buf)]
          /\ seen' = [seen EXCEPT !.at = Last(thread.buf), !.fresh = FALSE,
                                  !.late = IF Held THEN Min({@ + 1, 2}) ELSE @]
     ELSE /\ thread' = [thread EXCEPT !.pc = "top", !.rewrite = TRUE]
          /\ player' = [player EXCEPT !.cacheLen = Len(thread.buf)]
          /\ UNCHANGED <<decoder, seen>>
  /\ UNCHANGED <<size, list, handle, app, calls, prompt>>

Thread == Begin \/ FirstSegment \/ Leave \/ Head_ \/ Read \/ Change \/ Reread \/ NothingNext
            \/ EndPause \/ Drop \/ Write

Next ==
  \/ Grow \/ AddSegment \/ Show \/ FirstFrame
  \/ Start \/ Pause \/ Resume \/ StopAsk \/ Join \/ Stop \/ SeekRefused \/ SeekFile
  \/ \E s \in Segments, p \in 0 .. MaxUnit + 1 : SeekOpen(s, p)
  \/ \E s \in Segments : RemoveLook(s)
  \/ RemoveDone
  \/ Thread \/ ReadFails

Spec == Init /\ [][Next]_vars

\* The thread runs, the decoder shows what it has, and a call that has begun
\* goes on; nobody has to call, and the recorder may stop.
Fairness ==
  /\ WF_vars(Thread) /\ WF_vars(Show) /\ WF_vars(FirstFrame)
  /\ WF_vars(SeekFile \/ SeekRefused \/ Join \/ Stop \/ RemoveDone)

FairSpec == Spec /\ Fairness

----------------------------------------------------------------------------
(* The properties *)

\* Type correctness of the player, its thread and what is remembered.
TypeOK ==
  /\ size \in [Segments -> 0 .. MaxUnit]
  /\ list \subseteq Segments /\ list # {}
  /\ player \in [state : {"STOP", "START", "PAUSE"}, cur : 0 .. MaxSegment,
                 open : BOOLEAN, seekPause : BOOLEAN, drop : BOOLEAN,
                 running : BOOLEAN, cacheLen : 0 .. Block]
  /\ handle \in [seg : 0 .. MaxSegment, pos : 0 .. MaxUnit]
  /\ thread.pc \in {"none", "start", "first", "top", "read", "change", "reread",
                   "end", "endpause", "drop", "write", "exit"}
  /\ Len(thread.buf) <= Block
  /\ thread.noData <= NoDataTime + 1 /\ thread.waits <= MaxWait
  /\ decoder \in [units : 0 .. Cache, frame : {"none", "fed", "shown"}]
  /\ app.op \in {"none", "seek", "join", "stop", "remove"}
  /\ calls \in 0 .. MaxCall /\ prompt \in BOOLEAN /\ seen \in Seen

\* A block that is about to be written holds the units that follow what the
\* decoder took, or start where the last start or seek said: nothing is
\* lost, repeated or out of order across reads that were cut by the end of
\* a segment, writes that timed out, pauses, seeks and a growing file,
\* unless a seek or the recorder came between a check and its step.
InSequence(buf) ==
  /\ IF seen.fresh THEN Is(seen.at, buf[1]) ELSE Follows(seen.at, buf[1])
  /\ \A i \in 2 .. Len(buf) : Follows(buf[i - 1], buf[i])

PlaysInOrder == At("write") /\ ~seen.raced => InSequence(thread.buf)

\* The thread reads from an open file: stop closes it only once the thread
\* has left.  (With segments that do not open behind the last one that does
\* the thread runs on without a file: it holds for Missing = {}.)
ReadsOpenFile == thread.pc \in {"read", "reread"} => handle # NoHandle

\* The position shown to the user is the read position less ts_cache_len:
\* that is what has been read and not written, whatever thread, seek and
\* timeouts have done to it.  (At the start of a file, before the first read,
\* the length may be one that a stop has left.)
TimeIsHonest ==
  Alive /\ handle.pos > 0 /\ Unlocked /\ ~player.drop /\ ~seen.raced
    => player.cacheLen = Len(thread.buf)

\* In a pause at most the block in hand is still written; after a seek in
\* pause data is injected up to the first frame, then no more.
PausedIsQuiet == seen.late <= 1

\* REACHED_END comes when the decoder has been given everything there is,
\* but for the cut block that waits for more in the buffer.
EndIsTheEnd ==
  At("endpause") /\ ~seen.raced /\ ~seen.moved
    => LET buf == thread.buf
           u == IF buf # <<>> THEN [Last(buf) EXCEPT !.pos = @ + 1]
                ELSE IF seen.fresh THEN seen.at ELSE [seen.at EXCEPT !.pos = @ + 1]
       IN  /\ buf # <<>> => InSequence(buf)
           /\ ~ \E s \in Openable : s > u.seg /\ size[s] > 0
           /\ u.pos = size[u.seg]

\* The application that was told NODATA is told DATARESUME before data of the
\* same segment goes to the decoder.  (Data of a new segment resets noData
\* without the event.)
NoDataAnswered == At("write") => ~seen.told

\* A call that has begun returns: stop finds its thread gone.
CallsReturn == app # Idle ~> app = Idle

\* A playing player gets to the end of what there is and pauses there,
\* whatever the application did before, unless its thread was stopped by a
\* read error or has found no segment to begin with.
PlaysToEnd == player.state = "START" ~> player.state # "START" \/ At("exit")

\* The thread and the calls agree on the open file, the bytes in hand, the
\* pause and the NODATA that was told.
PlayerInv ==
  /\ TypeOK
  /\ ReadsOpenFile
  /\ TimeIsHonest
  /\ PausedIsQuiet
  /\ NoDataAnswered
=============================================================================
