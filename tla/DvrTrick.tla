------------------------------ MODULE DvrTrick ------------------------------
(***************************************************************************)
(* What the player of src/dvr_playback.c tells the decoder: its commands,  *)
(* states and speeds, the streams that are started and stopped, the fast   *)
(* forward and backward (which replay single frames from the thread), the  *)
(* start in pause, seeks in pause and the change of pids while playing and *)
(* while paused.  DvrPlayback has the data that flows meanwhile.           *)
(*                                                                         *)
(* The calls are serialised by the wrapper; against the thread each is as  *)
(* many steps as it has sections: what it reads before it takes            *)
(* player->lock (pause, resume), what it does with the lock, and what it   *)
(* does where it has let go of it (set_speed around the start of the       *)
(* audio, the update of the pids).  The thread's loop is a step up to      *)
(* where it lets go of the lock, before _dvr_playback_fffb, and others     *)
(* from there; so are the state dvr_playback_pause reads for it, and the   *)
(* pause.  The update of one pid, which holds no lock, is one step.  Every *)
(* segment has video, so that no call has to stop the thread because the   *)
(* last stream went away.                                                  *)
(***************************************************************************)
EXTENDS Naturals, FiniteSets

CONSTANTS Speeds,       \* the speeds that are set, of AllSpeeds
          AudioPids,    \* pids of the main audio, 0: none
          AdPids,       \* of the audio description
          MaxPlace,     \* bound: places of the recording a fast move goes through
          MaxCall       \* bound: calls of the application

AllSpeeds == {"S2", "X1", "X2", "X8", "FB"}

ASSUME TrickAssumption ==
  /\ Speeds \subseteq AllSpeeds
  /\ {MaxPlace, MaxCall} \subseteq Nat
  /\ AudioPids \cup AdPids \subseteq Nat

VARIABLES
  p,         \* the player and what the decoder was told, see Players
  pids,      \* the pids of the current segment
  spot,      \* how far the recording has been played
  due,       \* the clock is past next_fffb_time
  loop,      \* the thread, one of Loops
  call,      \* where the call under way is, one of Sections
  asked,     \* the pids the last change asked for
  calls,     \* calls made
  odd,       \* history: an odd call has been made, see the properties
  cut        \* history: the thread paused the player in a gap of a call

threadVars == <<spot, due, loop>>
callVars == <<call, asked, calls, odd, cut>>
trickVars == <<p, pids, threadVars, callVars>>

\* The thread: not there, at the top of its loop, before and after it moves
\* the fast play, in dvr_playback_pause at the beginning and at the end.
Loops == {"none", "top", "fffb", "begin", "atBegin", "atEnd"}

\* A call between its sections: none, a pause, a resume by its branches, a
\* speed before and after the audio start, a change of pids by its parts.
Sections == {"none", "pause", "resume", "other", "live", "audioStart", "speed",
             "ad", "audio", "store"}

\* Where a call goes on from a state it has read without the lock.
Gaps == {"other", "live", "audioStart", "ad", "audio"}

----------------------------------------------------------------------------
(* Commands: the bits of a DVR_PlaybackCmd_t.                              *)

VRestart == {"Vstop", "Vstart"}
ARestart == {"Astop", "Astart"}
CmdStart == {"Vstart", "Astart"}
CmdStop  == {"Vstop", "Astop"}
AVRestart == VRestart \cup ARestart
Trick(cmd) == cmd \in {{"FF"}, {"FB"}}

Bits == AVRestart \cup {"PAUSE", "RESUME", "SEEK", "FF", "FB"}

\* IS_FAST_SPEED, IS_KERNEL_SPEED, and what __IS_SPEED takes as trick play.
Fast(s) == s \in {"S2", "X2"}
Kernel(s) == s \in {"S2", "X1", "X2"}
Moving(s) == s \in {"X8", "FB"}

States == {"STOP", "START", "PAUSE"}

\* The player: cmd, state, speed, has_video, has_audio, has_ad_audio,
\* play_flag, fffb_play, seek_pause and first_frame; the decoder: the pids it
\* decodes (0: none), what is paused, its trick mode and its fast speed, and
\* whether it has shown a frame since it was started.
Players ==
  [cur : SUBSET Bits, last : SUBSET Bits, cmdState : States, state : States,
   speed : AllSpeeds, hasV : BOOLEAN, hasA : BOOLEAN, hasAd : BOOLEAN,
   live : BOOLEAN, fffb : BOOLEAN, seekPause : BOOLEAN, first : BOOLEAN,
   video : BOOLEAN, vPaused : BOOLEAN, audio : AudioPids \cup {0},
   aPaused : BOOLEAN, ad : BOOLEAN, pauseNext : BOOLEAN, fast : AllSpeeds,
   shown : BOOLEAN]

TrickInit ==
  /\ p = [cur |-> CmdStop, last |-> CmdStop, cmdState |-> "STOP", state |-> "STOP",
          speed |-> "X1", hasV |-> FALSE, hasA |-> FALSE, hasAd |-> FALSE,
          live |-> FALSE, fffb |-> FALSE, seekPause |-> FALSE, first |-> FALSE,
          video |-> FALSE, vPaused |-> FALSE, audio |-> 0, aPaused |-> FALSE,
          ad |-> FALSE, pauseNext |-> FALSE, fast |-> "X1", shown |-> FALSE]
  /\ pids \in [audio : AudioPids, ad : AdPids]
  /\ spot \in 0 .. MaxPlace
  /\ due = TRUE
  /\ loop = "none"
  /\ call = "none" /\ asked = pids
  /\ calls = 0
  /\ odd = FALSE /\ cut = FALSE

----------------------------------------------------------------------------
(* What the decoder is told.                                               *)

StopVideo(s) == [s EXCEPT !.video = FALSE, !.vPaused = FALSE, !.shown = FALSE]
StartVideo(s) == [s EXCEPT !.hasV = TRUE, !.video = TRUE, !.vPaused = FALSE,
                           !.shown = FALSE]
StopAudio(s) == IF s.hasA
                THEN [s EXCEPT !.hasA = FALSE, !.audio = 0, !.aPaused = FALSE] ELSE s
StopAd(s) == IF s.hasAd THEN [s EXCEPT !.hasAd = FALSE, !.ad = FALSE] ELSE s

\* The audio and its description, each if the segment has one.
StartAudio(s, a) == IF a = 0 THEN s
                    ELSE [s EXCEPT !.hasA = TRUE, !.audio = a, !.aPaused = FALSE]
StartAd(s, d) == IF d = 0 THEN s ELSE [s EXCEPT !.hasAd = TRUE, !.ad = TRUE]
StartSound(s) == StartAudio(StartAd(s, pids.ad), pids.audio)

PauseBoth(s) == [s EXCEPT !.vPaused = @ \/ s.hasV, !.aPaused = @ \/ s.hasA]
ResumeBoth(s) == [s EXCEPT !.vPaused = @ /\ ~s.hasV, !.aPaused = @ /\ ~s.hasA,
                           !.pauseNext = @ /\ ~s.hasV]
To(s, state) == [s EXCEPT !.cmdState = state, !.state = state]
Command(s, cmd) == [s EXCEPT !.last = s.cur, !.cur = cmd]

\* _dvr_playback_replay: both streams again, at the fast speed or, with
\* sound, at X1.  has_ad_audio is left to what it was.
Replay(s) ==
  LET off == StopAudio(StopVideo(s))
      on == StartVideo([off EXCEPT !.pauseNext = FALSE])
      set == IF Fast(s.speed) THEN [on EXCEPT !.fast = s.speed]
             ELSE [StartSound(on) EXCEPT !.fast = "X1", !.speed = "X1"]
  IN  To(Command(set, CmdStart), "START")

\* _dvr_playback_fffb_replay: the video alone, up to its next frame.
FffbReplay(s) ==
  [StartVideo(StopAd(StopAudio(StopVideo(s)))) EXCEPT !.pauseNext = TRUE,
                                                     !.fast = "X1"]

\* dvr_playback_audio_stop and _start, dvr_playback_video_stop and _start.
AudioStop(s) == Command(StopAd(StopAudio(s)), {"Astop"})
AudioStart(s) == To(Command(StartSound(s), {"Astart"}), "START")
VideoStop(s) == Command([StopVideo(s) EXCEPT !.hasV = FALSE], {"Vstop"})
VideoStart(s) == To(Command([StartVideo(s) EXCEPT !.pauseNext = @ \/ s.live],
                            {"Vstart"}), "START")

\* _dvr_cmd: the streams that were noted to stop or start.
When(c, t, s) == IF c THEN t ELSE s

DoCmd(s, cmd) ==
  IF AVRestart \subseteq cmd THEN Replay(s)
  ELSE IF cmd \in {CmdStart, CmdStop} THEN s
  ELSE LET a == When("Astop" \in cmd, AudioStop(s), s)
           b == When("Vstop" \in cmd, VideoStop(a), a)
           c == When("Vstart" \in cmd, VideoStart(b), b)
       IN  When("Astart" \in cmd, AudioStart(c), c)

----------------------------------------------------------------------------
(* The calls *)

Called(isOdd) ==
  /\ call = "none"
  /\ calls < MaxCall /\ calls' = calls + 1
  /\ odd' = (odd \/ isOdd) /\ UNCHANGED cut

\* A call that goes on from a section to the next, or is done.
GoesOn(from, to) == call = from /\ call' = to /\ UNCHANGED <<calls, odd, cut>>

\* dvr_playback_start of a stopped player, with PAUSEDLIVE or not.
Started(s, live) ==
  LET v == [StartVideo(s) EXCEPT !.live = live, !.first = FALSE,
                                 !.pauseNext = live \/ Trick(s.cur)]
      on == IF Trick(s.cur) THEN v
            ELSE Command(IF Fast(s.speed) THEN [v EXCEPT !.fast = s.speed]
                         ELSE StartSound(v), CmdStart)
  IN  To(on, "START")

Start(live) ==
  /\ Called(Trick(p.cur) \/ Moving(p.speed))
  /\ p.cmdState = "STOP"
  /\ p' = Started(p, live)
  /\ loop' = "top"
  /\ UNCHANGED <<pids, spot, due, call, asked>>

\* ... of one that plays: what is left of a start in pause.
StartAgain ==
  /\ Called(FALSE)
  /\ p.cmdState = "START"
  /\ p' = [p EXCEPT !.first = FALSE, !.live = FALSE, !.pauseNext = @ /\ ~p.live]
  /\ UNCHANGED <<pids, threadVars, call, asked>>

\* dvr_playback_stop: the thread is joined first.
StopAll(s) ==
  LET off == StopAd(StopAudio([StopVideo(ResumeBoth([s EXCEPT !.fast = "X1"]))
                               EXCEPT !.hasV = FALSE, !.pauseNext = s.pauseNext]))
  IN  To(Command(off, CmdStop), "STOP")

Stop ==
  /\ Called(FALSE)
  /\ p.state # "STOP" /\ loop \in {"none", "top"}
  /\ p' = StopAll(p)
  /\ loop' = "none"
  /\ UNCHANGED <<pids, spot, due, call, asked>>

\* dvr_playback_pause, which has read a state that plays; a trick command
\* stays.
Paused(s) == To(PauseBoth(When(Trick(s.cur), s, Command(s, {"PAUSE"}))), "PAUSE")

Pause ==
  /\ Called(FALSE)
  /\ p.state = "START"
  /\ call' = "pause"
  /\ UNCHANGED <<p, pids, threadVars, asked>>

PauseLocked ==
  /\ GoesOn("pause", "none")
  /\ p' = Paused(p)
  /\ UNCHANGED <<pids, threadVars, asked>>

(* mutant: the trick mode stays *)
ResumedKeepsTrick(s) ==
  LET sound == [ResumeBoth(PauseBoth([s EXCEPT !.first = FALSE])) EXCEPT
                  !.pauseNext = s.pauseNext]
      on == IF s.speed # "X1" THEN sound
           ELSE LET d == IF s.hasAd THEN sound ELSE StartAd(sound, pids.ad)
                IN  IF s.hasA THEN d ELSE StartAudio(d, pids.audio)
  IN  To(Command(on, {"RESUME"}), "START")

\* dvr_playback_resume of the PAUSE command: the sound that a trick speed
\* had stopped is started at X1.
Resumed(s) ==
  LET sound == ResumeBoth(PauseBoth([s EXCEPT !.first = FALSE]))
      on == IF s.speed # "X1" THEN sound
           ELSE LET d == IF s.hasAd THEN sound ELSE StartAd(sound, pids.ad)
                IN  IF s.hasA THEN d ELSE StartAudio(d, pids.audio)
  IN  To(Command(on, {"RESUME"}), "START")

\* ... of another command that was paused: at X1 it is executed.
ResumedOther(s) ==
  LET held == PauseBoth([s EXCEPT !.first = FALSE])
      done == When(s.speed = "X1", DoCmd(held, s.cur), held)
  IN  To(ResumeBoth(done), "START")

\* ... of a start in pause that has not shown its frame.
ResumedLive(s) ==
  LET on == ResumeBoth(PauseBoth([s EXCEPT !.first = FALSE]))
  IN  [on EXCEPT !.live = FALSE, !.pauseNext = FALSE]

\* dvr_playback_resume reads which of them it is before it takes the lock.
\* Also dvr_playback_start of a player in pause.
Resume ==
  /\ Called(FALSE)
  /\ p.state = "PAUSE" \/ p.live
  /\ p.state # "STOP"
  /\ call' = IF p.cur = {"PAUSE"} THEN "resume"
             ELSE IF p.state = "PAUSE" THEN "other" ELSE "live"
  /\ UNCHANGED <<p, pids, threadVars, asked>>

ResumeLocked ==
  /\ \/ GoesOn("resume", "none") /\ p' = Resumed(p)
     \/ GoesOn("other", "none") /\ p' = ResumedOther(p)
     \/ GoesOn("live", "none") /\ p' = ResumedLive(p)
  /\ UNCHANGED <<pids, threadVars, asked>>

\* dvr_playback_seek: the streams start again at the new place, the sound at
\* X1 only; in pause for one frame.  The commands noted by a change of pids
\* stay: DVR_PLAYBACK_CMD_RESET_V and _A have a value and assign nothing.
SeekCmd(s) ==
  IF s.state = "PAUSE"
  THEN [s EXCEPT !.cmdState = "PAUSE", !.seekPause = TRUE]
  ELSE IF Trick(s.cur) \/ Moving(s.speed) \/ s.speed = "X2" THEN s
  ELSE To(Command(s, {"SEEK"}), "START")

Sought(s) ==
  LET off == StopAd(StopAudio(StopVideo(s)))
      v == [StartVideo(off) EXCEPT
              !.pauseNext = @ \/ s.cur = {"PAUSE"} \/ s.state = "PAUSE"
                              \/ Moving(s.speed),
              !.fast = IF Kernel(s.speed) THEN s.speed ELSE @]
  IN  SeekCmd(When(s.speed = "X1", StartSound(v), v))

Seek(to) ==
  /\ Called(p.live /\ p.cur = {"SEEK"})
  /\ p.state # "STOP"
  /\ p' = Sought(p)
  /\ spot' = to /\ due' = TRUE
  /\ UNCHANGED <<pids, loop, call, asked>>

(***************************************************************************)
(* dvr_playback_set_speed.                                                 *)
(***************************************************************************)
SetTo(s, v) == [s EXCEPT !.speed = v]
Noted(s) == When(Trick(s.cur), s, [s EXCEPT !.last = s.cur])

\* From one speed of the decoder to another; while playing, to X1 goes
\* NormalSpeed.
KernelSpeed(s, v) ==
  IF v # "X1" THEN [StopAudio(s) EXCEPT !.fast = v]
  ELSE [s EXCEPT !.fast = "X1", !.cur = {"Astart"}]

\* To a trick speed, or to a kernel speed none of the cases is for.
OtherSpeed(s, v) ==
  LET m == SetTo(IF Kernel(v) THEN [s EXCEPT !.fffb = FALSE]
                 ELSE [s EXCEPT !.cur = IF v = "FB" THEN {"FB"} ELSE {"FF"},
                                !.fffb = TRUE], v)
  IN  IF v = "X1" /\ Trick(m.cur) THEN Replay(m)
      ELSE When(v = "X1" /\ m.state = "PAUSE", [m EXCEPT !.cur = AVRestart], m)

(* mutant: a trick speed ends without a replay *)
SpedNoReplay(s, v) ==
  IF Kernel(v) /\ s.state = "STOP" THEN [SetTo(s, v) EXCEPT !.fffb = FALSE]
  ELSE IF Kernel(v) /\ Kernel(s.speed)
  THEN [SetTo(KernelSpeed(s, v), v) EXCEPT !.fffb = FALSE]
  ELSE IF Kernel(v) /\ Trick(s.cur)
  THEN To([SetTo(s, v) EXCEPT !.fffb = FALSE, !.cur = CmdStart], "START")
  ELSE OtherSpeed(s, v)

Sped(s, v) ==
  IF Kernel(v) /\ s.state = "STOP" THEN [SetTo(s, v) EXCEPT !.fffb = FALSE]
  ELSE IF Kernel(v) /\ Kernel(s.speed)
  THEN [SetTo(KernelSpeed(s, v), v) EXCEPT !.fffb = FALSE]
  ELSE IF Kernel(v) /\ Trick(s.cur)
  THEN LET x == [SetTo(s, v) EXCEPT !.fffb = FALSE]
       IN  IF s.state = "PAUSE" THEN ResumedOther([x EXCEPT !.cur = AVRestart])
           ELSE Replay(x)
  ELSE OtherSpeed(s, v)

\* To X1 while it plays, from another speed of the decoder.
ToNormal(v) == v = "X1" /\ Kernel(p.speed) /\ p.state = "START"

SetSpeed(v) ==
  /\ Called(\/ loop \in {"fffb", "begin", "atBegin"} \/ p.live
            \/ p.state = "PAUSE" /\ Moving(p.speed) /\ v # "X1")
  /\ v # p.speed /\ ~ToNormal(v)
  /\ p' = Sped(Noted(p), v)
  /\ due' = (due \/ ~Kernel(v))
  /\ UNCHANGED <<pids, spot, loop, call, asked>>

\* ... which lets go of the lock for the start of the audio, and takes it
\* again for the speed.
NormalSpeed ==
  /\ Called(p.live)
  /\ p.speed # "X1" /\ ToNormal("X1")
  /\ p' = [Noted(p) EXCEPT !.fast = "X1"]
  /\ call' = "audioStart"
  /\ UNCHANGED <<pids, threadVars, asked>>

NormalAudio ==
  /\ GoesOn("audioStart", "speed")
  /\ p' = AudioStart(p)
  /\ UNCHANGED <<pids, threadVars, asked>>

SpeedSet ==
  /\ GoesOn("speed", "none")
  /\ p' = [SetTo(p, "X1") EXCEPT !.fffb = FALSE]
  /\ UNCHANGED <<pids, threadVars, asked>>

(***************************************************************************)
(* The pids of the current segment change: _do_handle_pid_update while     *)
(* playing, else the commands are noted for the resume.                    *)
(***************************************************************************)
\* The description first (type 2), then the main audio (type 1).  ADMix is
\* told without has_ad_audio.
AdUpdate(s, n) ==
  IF n.ad = pids.ad THEN s
  ELSE LET off == When(pids.ad # 0, [s EXCEPT !.ad = FALSE], s)
           audio == IF n.ad = 0 THEN pids.audio ELSE n.audio
       IN  IF s.speed # "X1" THEN off
           ELSE LET on == When(n.ad # 0, [off EXCEPT !.hasA = TRUE, !.ad = TRUE], off)
                IN  IF n.ad # 0 /\ n.audio # pids.audio THEN on
                    ELSE StartAudio(on, audio)

AudioUpdate(s, n) ==
  IF n.audio = pids.audio THEN s
  ELSE LET off == When(pids.audio # 0, StopAudio(s), s)
       IN  IF n.audio = 0 \/ s.speed # "X1" THEN off
           ELSE StartAudio(When(n.ad # 0, [off EXCEPT !.ad = TRUE], off), n.audio)

\* What the change asks of the main audio, which a change of the description
\* alone restarts.
NeedOf(now, next) ==
  IF now = next THEN {} ELSE (IF now # 0 THEN {"Astop"} ELSE {})
                             \cup (IF next # 0 THEN {"Astart"} ELSE {})

AudioNeed(n) ==
  IF NeedOf(pids.audio, n.audio) # {} \/ n.audio = 0 THEN NeedOf(pids.audio, n.audio)
  ELSE IF n.ad # pids.ad THEN ARestart ELSE {}

NotedChange(s, n) ==
  [s EXCEPT !.cur = AudioNeed(n) \cup (IF s.last = {"PAUSE"} THEN @ ELSE {}),
            !.last = {"PAUSE"}]

\* dvr_playback_update_segment_pids: while playing it lets go of the lock.
UpdatePids(n) ==
  /\ Called(p.state = "PAUSE" \/ n.ad # pids.ad)
  /\ n # pids /\ asked' = n
  /\ p.state # "STOP"
  /\ IF p.cmdState = "START" THEN call' = "ad" /\ UNCHANGED <<p, pids>>
     ELSE p' = NotedChange(p, n) /\ pids' = n /\ UNCHANGED call
  /\ UNCHANGED threadVars

\* Each stream is updated only if the player still plays ...
UpdateAd ==
  /\ GoesOn("ad", "audio")
  /\ p' = When(p.cmdState = "START", AdUpdate(p, asked), p)
  /\ UNCHANGED <<pids, threadVars, asked>>

UpdateAudio ==
  /\ GoesOn("audio", "store")
  /\ p' = When(p.cmdState = "START", AudioUpdate(p, asked), p)
  /\ UNCHANGED <<pids, threadVars, asked>>

\* ... and the pids are stored, with the lock again, whether they were or not.
UpdateStore ==
  /\ GoesOn("store", "none")
  /\ pids' = asked
  /\ UNCHANGED <<p, threadVars, asked>>

\* A call under way goes on.
CallStep == PauseLocked \/ ResumeLocked \/ NormalAudio \/ SpeedSet
              \/ UpdateAd \/ UpdateAudio \/ UpdateStore

----------------------------------------------------------------------------
(* The thread and the decoder *)

\* The thread pauses the player, which a call may have read before.
Pauses == cut' = (cut \/ call \in Gaps) /\ UNCHANGED <<call, asked, calls, odd>>

\* next_fffb_time passes.
Tick ==
  /\ ~due
  /\ due' = TRUE
  /\ UNCHANGED <<p, pids, spot, loop, callVars>>

\* The decoder shows its first frame: data flows unless the player is paused.
FirstFrame ==
  /\ loop # "none"
  /\ p.video /\ ~p.vPaused /\ ~p.shown
  /\ p.state = "START" \/ p.seekPause
  /\ p' = [p EXCEPT !.first = TRUE, !.shown = TRUE, !.seekPause = FALSE]
  /\ UNCHANGED <<pids, threadVars, callVars>>

\* __IS_SPEED and the condition around the trick part of the loop.
IsSpeed == Trick(p.cur) \/ Moving(p.speed)

Looks == /\ p.cur = {"SEEK"} \/ IsSpeed \/ p.state = "PAUSE" \/ p.live
         /\ p.first \/ (IsSpeed /\ due)

(* mutant: only a seek from pause ends in pause *)
EndsInPauseOfSeek == p.last = {"PAUSE"}

\* The player that was started in pause, or sought from pause.
EndsInPause ==
  \/ p.last = {"PAUSE"}
  \/ p.live /\ (p.cur = CmdStart \/ p.last \in {{"Vstart"}, {"Astart"}, CmdStart})

Held(s) == [s EXCEPT !.first = FALSE, !.pauseNext = FALSE,
                     !.vPaused = s.video, !.aPaused = (s.audio # 0)]

OnSeek == p.cur = {"SEEK"} \/ p.live

FrameOfSeek ==
  /\ loop = "top" /\ Looks /\ OnSeek
  /\ IF EndsInPause
     THEN Pauses /\ p' = To([Held(p) EXCEPT !.cur = {"PAUSE"}, !.live = FALSE], "PAUSE")
     ELSE p' = [p EXCEPT !.first = FALSE] /\ UNCHANGED callVars
  /\ UNCHANGED <<pids, threadVars>>

\* A trick speed: nothing in pause, the video held until the next move is
\* due, then the move, for which the lock is released.
HoldFrame ==
  /\ loop = "top" /\ Looks /\ ~OnSeek /\ IsSpeed
  /\ p.state # "PAUSE" /\ ~due /\ ~p.vPaused
  /\ p' = [p EXCEPT !.vPaused = p.video]
  /\ UNCHANGED <<pids, threadVars, callVars>>

ToMove ==
  /\ loop = "top" /\ Looks /\ ~OnSeek /\ IsSpeed
  /\ p.state # "PAUSE" /\ due
  /\ p' = [p EXCEPT !.first = FALSE]
  /\ loop' = "fffb"
  /\ UNCHANGED <<pids, spot, due, callVars>>

\* The frame of a seek in pause.
FrameInPause ==
  /\ loop = "top" /\ Looks /\ ~OnSeek /\ ~IsSpeed /\ p.state = "PAUSE"
  /\ p' = Held(p)
  /\ UNCHANGED <<pids, threadVars, callVars>>

\* Where the next frame is taken from.
Ahead == IF p.speed = "FB" THEN (IF spot = 0 THEN 0 ELSE spot - 1)
         ELSE IF spot < MaxPlace THEN spot + 1 ELSE spot

\* _dvr_playback_fffb: a place further, or at the beginning the pause.
Move ==
  /\ loop = "fffb"
  /\ p' = [FffbReplay(p) EXCEPT !.fffb = IF p.speed = "FB" /\ spot = 0 THEN @ ELSE FALSE]
  /\ due' = FALSE
  /\ loop' = IF p.speed = "FB" /\ spot = 0 THEN "begin" ELSE "top"
  /\ spot' = Ahead
  /\ UNCHANGED <<pids, callVars>>

\* REACHED_BEGIN, outside the lock: dvr_playback_pause reads the state ...
AtBegin ==
  /\ loop = "begin"
  /\ IF p.state = "START" THEN loop' = "atBegin" /\ UNCHANGED p
     ELSE loop' = "top" /\ p' = [p EXCEPT !.fffb = FALSE]
  /\ UNCHANGED <<pids, spot, due, callVars>>

(* mutant: the beginning is told without a pause *)
BeginGoesOn ==
  /\ loop = "atBegin"
  /\ p' = [p EXCEPT !.fffb = FALSE]
  /\ loop' = "top"
  /\ Pauses
  /\ UNCHANGED <<pids, spot, due>>

\* ... and pauses the player.
BeginPause ==
  /\ loop = "atBegin"
  /\ p' = [Paused(p) EXCEPT !.fffb = FALSE]
  /\ loop' = "top"
  /\ Pauses
  /\ UNCHANGED <<pids, spot, due>>

\* The recording is played on, unless the decoder holds a frame ...
Play ==
  /\ loop = "top" /\ p.state = "START" /\ ~p.pauseNext
  /\ spot < MaxPlace /\ Kernel(p.speed)
  /\ spot' = spot + 1
  /\ UNCHANGED <<p, pids, due, loop, callVars>>

\* ... and at its end, also that of a start in pause that has not shown its
\* frame, the thread pauses the player: the state it reads, and the pause.
AtEnd ==
  /\ loop = "top" /\ p.state = "START"
  /\ spot = MaxPlace /\ p.speed # "FB" /\ ~Looks
  /\ loop' = "atEnd"
  /\ UNCHANGED <<p, pids, spot, due, callVars>>

EndPause ==
  /\ loop = "atEnd"
  /\ p' = Paused(p)
  /\ loop' = "top"
  /\ Pauses
  /\ UNCHANGED <<pids, spot, due>>

Thread == FrameOfSeek \/ HoldFrame \/ ToMove \/ FrameInPause \/ Move \/ AtBegin
            \/ BeginPause \/ Play \/ AtEnd \/ EndPause

TrickNext ==
  \/ \E live \in BOOLEAN : Start(live)
  \/ StartAgain \/ Stop \/ Pause \/ Resume \/ NormalSpeed
  \/ \E to \in 0 .. MaxPlace : Seek(to)
  \/ \E v \in Speeds : SetSpeed(v)
  \/ \E n \in [audio : AudioPids, ad : AdPids] : UpdatePids(n)
  \/ CallStep \/ Tick \/ FirstFrame \/ Thread

TrickSpec == TrickInit /\ [][TrickNext]_trickVars

\* The thread runs, time passes and the decoder shows what it is fed.
Fairness == WF_trickVars(Thread) /\ WF_trickVars(Tick) /\ WF_trickVars(FirstFrame)

TrickFairSpec == TrickSpec /\ Fairness

----------------------------------------------------------------------------
(* Properties.  Odd calls have known consequences of their own: a start     *)
(* that keeps the trick speed of the play before, a speed set while the     *)
(* thread is on its way to a move or to the pause at the beginning, or      *)
(* before the frame of a start in pause, a second seek before that frame, a *)
(* trick speed left in pause for another than X1, a description that        *)
(* changes, any pid that changes in pause.  So has a pause by the thread in *)
(* a gap of a call: the audio of set_speed is started in a player whose     *)
(* video is paused, the new audio is not, a resume is lost.                 *)

Regular == ~odd /\ ~cut

TrickTypeOK ==
  /\ p \in Players
  /\ pids \in [audio : AudioPids, ad : AdPids]
  /\ spot \in 0 .. MaxPlace /\ due \in BOOLEAN
  /\ loop \in Loops
  /\ call \in Sections
  /\ asked \in [audio : AudioPids, ad : AdPids]
  /\ calls \in 0 .. MaxCall /\ odd \in BOOLEAN /\ cut \in BOOLEAN

\* Sound is decoded at normal speed only, from the first move of a fast
\* forward or backward on: whichever way the speed was reached (the calls,
\* the replays of the thread, seeks, resumes), audio_stop and has_audio keep
\* the decoder silent.
SoundAtNormalSpeed ==
  Regular /\ call = "none" /\ p.audio # 0 => p.speed = "X1" \/ (p.fffb /\ due)

\* At normal speed the decoder has the audio the segment has now, after any
\* sequence of pauses, seeks, speeds and changed pids, once a change of them
\* has returned.
SoundPlays ==
  Regular /\ call = "none" /\ p.state = "START" /\ p.speed = "X1"
    => p.audio = pids.audio

\* A player that plays at a speed of the decoder is not frozen, between two
\* calls or in the middle of one: neither left paused nor in the trick mode
\* that shows one frame.
PlaysAtKernelSpeed ==
  Regular /\ p.state = "START" /\ Kernel(p.speed) /\ ~p.live
    => ~p.vPaused /\ ~p.pauseNext

\* The decoder runs at the speed the player reports, once it has been set.
DecoderSpeed ==
  Regular /\ p.state = "START" /\ Kernel(p.speed)
    /\ call \notin {"audioStart", "speed"} => p.fast = p.speed

\* A stopped player has left nothing running in the decoder, which the next
\* session opens with its settings; the description only where it was
\* started with has_ad_audio.
StopLeavesNothing ==
  p.state = "STOP" =>
    /\ ~p.video /\ p.audio = 0 /\ ~p.vPaused /\ p.fast = "X1"
    /\ Regular => ~p.ad

\* In pause the decoder goes no further than the frame a seek shows.
PausedHolds ==
  ~cut /\ p.state = "PAUSE" /\ ~p.seekPause => p.vPaused \/ p.pauseNext

\* A start in pause shows its frame and ends in PAUSE, also when a seek goes
\* on meanwhile, unless it is resumed (which clears live).
LivePauses == (p.live /\ p.state = "START") ~> (~p.live \/ p.state # "START" \/ odd)

\* A fast backward comes to the beginning and ends in PAUSE.
BackEnds ==
  (p.speed = "FB" /\ p.state = "START") ~> (p.speed # "FB" \/ p.state # "START" \/ odd)

\* The sound is the one the speed asks for: silent at a trick speed, the
\* segment's at normal speed.
SoundFits == SoundAtNormalSpeed /\ SoundPlays

\* What the decoder was told last is what the player says it does: it plays,
\* at that speed, or holds, or has been left with nothing.
DecoderInv ==
  /\ TrickTypeOK
  /\ PlaysAtKernelSpeed
  /\ DecoderSpeed
  /\ StopLeavesNothing
  /\ PausedHolds
=============================================================================
