---------------------------- MODULE PlayerProofs ----------------------------
(***************************************************************************)
(* Proofs about the locks a player is called under, for every set of       *)
(* threads, and about what it tells the decoder, for every number of       *)
(* calls.  DvrMutex, the player's own lock, for every nesting bound: type  *)
(* correctness, mutual exclusion, the count kept over timed waits, and     *)
(* that dvr_mutex.c implements the recursive lock of RecursiveLock.        *)
(* WrapperMutex, that of a wrapper context: type correctness and that it   *)
(* has one owner.  DvrTrick: the decoder and the sound follow the player.  *)
(***************************************************************************)
EXTENDS DvrMutex, WrapperMutex, DvrTrick, TLAPS

(* The inductive invariant holds in the state _dvr_mutex_init leaves.      *)
LEMMA InitIInv == Init => IInv
<1>. SUFFICES ASSUME Init PROVE IInv
  OBVIOUS
<1>. USE NoThreadAssumption, MaxDepthAssumption DEF Init
<1>1. TypeOK
  BY DEF TypeOK, Locations
<1>2. OwnerInv
  <2>. SUFFICES ASSUME NEW t \in Threads
                PROVE  (lock = t <=> HoldsLock(t)) /\ (thread = t <=> Recorded(t))
    BY DEF OwnerInv
  <2>1. lock # t /\ thread # t
    OBVIOUS
  <2>2. pc[t] = "out" /\ ~ Inside(t)
    BY DEF Inside
  <2>. QED
    BY <2>1, <2>2 DEF HoldsLock, Recorded
<1>3. CountInv
  BY DEF CountInv, Waiting, Inside
<1>. QED
  BY <1>1, <1>2, <1>3 DEF IInv

(* Every step of a thread, and stuttering, preserves the inductive         *)
(* invariant: one step of the proof per action.                            *)
LEMMA NextIInv == IInv /\ [Next]_vars => IInv'
<1>. SUFFICES ASSUME IInv, [Next]_vars PROVE IInv'
  OBVIOUS
<1>. USE NoThreadAssumption, MaxDepthAssumption
       DEF IInv, TypeOK, OwnerInv, CountInv, HoldsLock, Recorded, Waiting,
           Inside, Locations, Goto
<1>1. ASSUME NEW t \in Threads, LockAgain(t) PROVE IInv'
  BY <1>1 DEF LockAgain
<1>2. ASSUME NEW t \in Threads, LockOther(t) PROVE IInv'
  BY <1>2 DEF LockOther
<1>3. ASSUME NEW t \in Threads, Acquire(t) PROVE IInv'
  BY <1>3 DEF Acquire
<1>4. ASSUME NEW t \in Threads, LockSetThread(t) PROVE IInv'
  BY <1>4 DEF LockSetThread
<1>5. ASSUME NEW t \in Threads, LockSetCnt(t) PROVE IInv'
  BY <1>5 DEF LockSetCnt
<1>6. ASSUME NEW t \in Threads, UnlockOwned(t) PROVE IInv'
  BY <1>6 DEF UnlockOwned
<1>7. ASSUME NEW t \in Threads, UnlockSetThread(t) PROVE IInv'
  BY <1>7 DEF UnlockSetThread
<1>8. ASSUME NEW t \in Threads, UnlockLock(t) PROVE IInv'
  BY <1>8 DEF UnlockLock
<1>9. ASSUME NEW t \in Threads, SaveVal(t) PROVE IInv'
  BY <1>9 DEF SaveVal
<1>10. ASSUME NEW t \in Threads, SaveSetCnt(t) PROVE IInv'
  BY <1>10 DEF SaveSetCnt
<1>11. ASSUME NEW t \in Threads, SaveSetThread(t) PROVE IInv'
  BY <1>11 DEF SaveSetThread
<1>12. ASSUME NEW t \in Threads, Wait(t) PROVE IInv'
  BY <1>12 DEF Wait
<1>13. ASSUME NEW t \in Threads, Wake(t) PROVE IInv'
  BY <1>13 DEF Wake
<1>14. ASSUME NEW t \in Threads, RestoreCnt(t) PROVE IInv'
  BY <1>14 DEF RestoreCnt
<1>15. ASSUME NEW t \in Threads, RestoreThread(t) PROVE IInv'
  BY <1>15 DEF RestoreThread
<1>16. CASE UNCHANGED vars
  BY <1>16 DEF vars
<1>. QED
  BY <1>1, <1>2, <1>3, <1>4, <1>5, <1>6, <1>7, <1>8, <1>9, <1>10, <1>11,
     <1>12, <1>13, <1>14, <1>15, <1>16 DEF Next, Step
-----------------------------------------------------------------------------
(* IInv holds in every reachable state.                                    *)
LEMMA SpecIInv == Spec => []IInv
  BY InitIInv, NextIInv, PTL DEF Spec

(* dvr_mutex_t holds only thread ids, 0 and counts up to the nesting.      *)
THEOREM TypeCorrect == Spec => []TypeOK
<1>1. IInv => TypeOK
  BY DEF IInv
<1>. QED
  BY <1>1, SpecIInv, PTL

(* No two threads are inside the player's lock together.                   *)
THEOREM Exclusion == Spec => []MutualExclusion
<1>1. IInv => MutualExclusion
  BY DEF IInv, OwnerInv, MutualExclusion, HoldsLock
<1>. QED
  BY <1>1, SpecIInv, PTL

(* lock_cnt is the number of unlocks the owner owes, timed waits or not.   *)
THEOREM CountKept == Spec => []CountIsDepth
<1>1. IInv => CountIsDepth
  BY DEF IInv, OwnerInv, CountInv, CountIsDepth, HoldsLock, Recorded
<1>. QED
  BY <1>1, SpecIInv, PTL

(* A thread that owes no unlock does not hold the pthread mutex.           *)
THEOREM NoLeak == Spec => []NothingLeaked
<1>1. IInv => NothingLeaked
  BY DEF IInv, TypeOK, OwnerInv, NothingLeaked, HoldsLock, Inside
<1>. QED
  BY <1>1, SpecIInv, PTL

-----------------------------------------------------------------------------
(* The fields _dvr_mutex_init writes are the abstract lock's initial state. *)
LEMMA InitRefines == Init => Abs!AbsInit
  BY NoThreadAssumption DEF Init, Abs!AbsInit, countBar, parkedBar

(* Each step of a thread is a step of the abstract lock or leaves its      *)
(* variables alone: acquiring the pthread mutex is Enter, the increment    *)
(* Reenter, the decrement or the release of the pthread mutex Leave, the   *)
(* beginning and the end of pthread_cond_timedwait Park and Unpark.        *)
LEMMA NextRefines ==
  IInv /\ [Next]_vars => [Abs!AbsNext]_(Abs!absVars)
<1>. SUFFICES ASSUME IInv, [Next]_vars
              PROVE  Abs!AbsNext \/ UNCHANGED <<lock, countBar, parkedBar>>
  BY DEF Abs!absVars
<1>. USE NoThreadAssumption, MaxDepthAssumption
       DEF IInv, TypeOK, OwnerInv, CountInv, HoldsLock, Recorded, Waiting,
           Inside, Locations, Goto
<1>1. ASSUME NEW t \in Threads, LockAgain(t) PROVE Abs!Reenter(t)
  BY <1>1 DEF LockAgain, Abs!Reenter, countBar, parkedBar
<1>2. ASSUME NEW t \in Threads, LockOther(t)
      PROVE  UNCHANGED <<lock, countBar, parkedBar>>
  BY <1>2 DEF LockOther, countBar, parkedBar
<1>3. ASSUME NEW t \in Threads, Acquire(t) PROVE Abs!Enter(t)
  BY <1>3 DEF Acquire, Abs!Enter, countBar, parkedBar
<1>4. ASSUME NEW t \in Threads, LockSetThread(t)
      PROVE  UNCHANGED <<lock, countBar, parkedBar>>
  BY <1>4 DEF LockSetThread, countBar, parkedBar
<1>5. ASSUME NEW t \in Threads, LockSetCnt(t)
      PROVE  UNCHANGED <<lock, countBar, parkedBar>>
  BY <1>5 DEF LockSetCnt, countBar, parkedBar
<1>6. ASSUME NEW t \in Threads, UnlockOwned(t)
      PROVE  Abs!Leave(t) \/ UNCHANGED <<lock, countBar, parkedBar>>
  <2>1. CASE lock_cnt = 1
    BY <1>6, <2>1 DEF UnlockOwned, countBar, parkedBar
  <2>2. CASE lock_cnt # 1
    BY <1>6, <2>2 DEF UnlockOwned, Abs!Leave, countBar, parkedBar
  <2>. QED
    BY <2>1, <2>2
<1>7. ASSUME NEW t \in Threads, UnlockSetThread(t)
      PROVE  UNCHANGED <<lock, countBar, parkedBar>>
  BY <1>7 DEF UnlockSetThread, countBar, parkedBar
<1>8. ASSUME NEW t \in Threads, UnlockLock(t) PROVE Abs!Leave(t)
  BY <1>8 DEF UnlockLock, Abs!Leave, countBar, parkedBar
<1>9. ASSUME NEW t \in Threads, SaveVal(t)
      PROVE  UNCHANGED <<lock, countBar, parkedBar>>
  BY <1>9 DEF SaveVal, countBar, parkedBar
<1>10. ASSUME NEW t \in Threads, SaveSetCnt(t)
       PROVE  UNCHANGED <<lock, countBar, parkedBar>>
  BY <1>10 DEF SaveSetCnt, countBar, parkedBar
<1>11. ASSUME NEW t \in Threads, SaveSetThread(t)
       PROVE  UNCHANGED <<lock, countBar, parkedBar>>
  BY <1>11 DEF SaveSetThread, countBar, parkedBar
<1>12. ASSUME NEW t \in Threads, Wait(t) PROVE Abs!Park(t)
  BY <1>12 DEF Wait, Abs!Park, countBar, parkedBar
<1>13. ASSUME NEW t \in Threads, Wake(t) PROVE Abs!Unpark(t)
  BY <1>13 DEF Wake, Abs!Unpark, countBar, parkedBar
<1>14. ASSUME NEW t \in Threads, RestoreCnt(t)
       PROVE  UNCHANGED <<lock, countBar, parkedBar>>
  BY <1>14 DEF RestoreCnt, countBar, parkedBar
<1>15. ASSUME NEW t \in Threads, RestoreThread(t)
       PROVE  UNCHANGED <<lock, countBar, parkedBar>>
  BY <1>15 DEF RestoreThread, countBar, parkedBar
<1>16. CASE UNCHANGED vars
  BY <1>16 DEF vars, countBar, parkedBar
<1>. QED
  BY <1>1, <1>2, <1>3, <1>4, <1>5, <1>6, <1>7, <1>8, <1>9, <1>10, <1>11,
     <1>12, <1>13, <1>14, <1>15, <1>16 DEF Next, Step, Abs!AbsNext

(* The mutex of dvr_mutex.c implements the recursive lock.                 *)
THEOREM Refinement == Spec => ImplementsRecursiveLock
  BY InitRefines, NextRefines, SpecIInv, PTL
  DEF Spec, ImplementsRecursiveLock, Abs!AbsSpec

-----------------------------------------------------------------------------
(* wrapper_mutex_init leaves a state of the inductive invariant.           *)
LEMMA InitFlag == FlagInit => FlagIInv
<1>. SUFFICES ASSUME FlagInit PROVE FlagIInv
  OBVIOUS
<1>. USE NoThreadAssumption DEF FlagInit
<1>1. FlagTypeOK
  BY DEF FlagTypeOK, Places
<1>2. MutexInv
  <2>. SUFFICES ASSUME NEW t \in Threads PROVE mutex # t /\ ~ InMutex(t)
    BY DEF MutexInv
  <2>. QED
    BY DEF InMutex
<1>3. FlagInv
  BY DEF FlagInv, Owns
<1>4. ResultInv
  BY DEF ResultInv
<1>. QED
  BY <1>1, <1>2, <1>3, <1>4 DEF FlagIInv

(* Every step preserves the inductive invariant: one proof step per action. *)
LEMMA NextFlag == FlagIInv /\ [FlagNext]_flagVars => FlagIInv'
<1>. SUFFICES ASSUME FlagIInv, [FlagNext]_flagVars PROVE FlagIInv'
  OBVIOUS
<1>. USE NoThreadAssumption
       DEF FlagIInv, FlagTypeOK, MutexInv, FlagInv, ResultInv,
           InMutex, Owns, Places, Go, Enter, Exit
<1>1. ASSUME NEW t \in Threads, Call(t) PROVE FlagIInv'
  BY <1>1 DEF Call
<1>2. ASSUME NEW t \in Threads, LockEnter(t) PROVE FlagIInv'
  BY <1>2 DEF LockEnter
<1>3. ASSUME NEW t \in Threads, LockTake(t) PROVE FlagIInv'
  BY <1>3 DEF LockTake
<1>4. ASSUME NEW t \in Threads, LockBlock(t) PROVE FlagIInv'
  BY <1>4 DEF LockBlock
<1>5. ASSUME NEW t \in Threads, LockWake(t) PROVE FlagIInv'
  BY <1>5 DEF LockWake
<1>6. ASSUME NEW t \in Threads, LockExit(t) PROVE FlagIInv'
  BY <1>6 DEF LockExit
<1>7. ASSUME NEW t \in Threads, TimedEnter(t) PROVE FlagIInv'
  BY <1>7 DEF TimedEnter
<1>8. ASSUME NEW t \in Threads, TimedBlock(t) PROVE FlagIInv'
  BY <1>8 DEF TimedBlock
<1>9. ASSUME NEW t \in Threads, TimedOut(t) PROVE FlagIInv'
  BY <1>9 DEF TimedOut
<1>10. ASSUME NEW t \in Threads, TimedWake(t) PROVE FlagIInv'
  BY <1>10 DEF TimedWake
<1>11. ASSUME NEW t \in Threads, TimedTake(t) PROVE FlagIInv'
  BY <1>11 DEF TimedTake
<1>12. ASSUME NEW t \in Threads, TimedFail(t) PROVE FlagIInv'
  BY <1>12 DEF TimedFail
<1>13. ASSUME NEW t \in Threads, TimedExit(t) PROVE FlagIInv'
  BY <1>13 DEF TimedExit
<1>14. ASSUME NEW t \in Threads, UnlockEnter(t) PROVE FlagIInv'
  BY <1>14 DEF UnlockEnter
<1>15. ASSUME NEW t \in Threads, UnlockExit(t) PROVE FlagIInv'
  BY <1>15 DEF UnlockExit
<1>16. ASSUME NEW t \in Threads, UnlockSignal(t) PROVE FlagIInv'
  BY <1>16 DEF UnlockSignal
<1>17. ASSUME NEW t \in Threads, SpuriousWake(t) PROVE FlagIInv'
  BY <1>17 DEF SpuriousWake
<1>18. CASE UNCHANGED flagVars
  BY <1>18 DEF flagVars
<1>. QED
  BY <1>1, <1>2, <1>3, <1>4, <1>5, <1>6, <1>7, <1>8, <1>9,
     <1>10, <1>11, <1>12, <1>13, <1>14, <1>15, <1>16, <1>17, <1>18
  DEF FlagNext, FlagStep, Work

(* IInv holds in every reachable state.                                    *)
LEMMA FlagInvariant == FlagSpec => []FlagIInv
  BY InitFlag, NextFlag, PTL DEF FlagSpec

(* The fields of DVR_WrapperMutex_t and the locals of its functions keep   *)
(* their types.                                                            *)
THEOREM FlagTypes == FlagSpec => []FlagTypeOK
<1>1. FlagIInv => FlagTypeOK
  BY DEF FlagIInv
<1>. QED
  BY <1>1, FlagInvariant, PTL

(* A wrapper context has at most one owner, and its flag says whether it   *)
(* has one.                                                                *)
THEOREM OneHolder == FlagSpec => []OneOwner
<1>1. FlagIInv => OneOwner
  BY DEF FlagIInv, FlagInv, OneOwner
<1>. QED
  BY <1>1, FlagInvariant, PTL

----------------------------------------------------------------------------
(***************************************************************************)
(* DvrTrick.  What holds whatever the calls: a player that is not stopped  *)
(* has its video, and a call goes on only with such a player; one in pause *)
(* holds its video unless it was paused in a gap of a call.                *)
(***************************************************************************)
Streams(x) ==
  /\ x.hasV /\ x.video
  /\ x.hasA \/ x.audio = 0
  /\ "Vstop" \in x.cur => AVRestart \subseteq x.cur

NoStreams(x) ==
  /\ ~x.hasV /\ ~x.video /\ ~x.vPaused /\ x.fast = "X1"
  /\ ~x.hasA /\ x.audio = 0

Sane(x) ==
  /\ x.state = x.cmdState
  /\ IF x.state = "STOP" THEN NoStreams(x) ELSE Streams(x)

HoldsInPause(x) == x.state = "PAUSE" => x.vPaused \/ x.pauseNext

AlwaysInv ==
  /\ Sane(p)
  /\ (loop = "none") <=> (p.state = "STOP")
  /\ call # "none" => p.state # "STOP"
  /\ ~cut => HoldsInPause(p) /\ (call = "live" => p.state = "START")

(* The flags of the sound are what the decoder was told.                   *)
SoundFlags == (p.hasA => p.audio # 0) /\ (p.hasAd <=> p.ad)

(* A trick speed has its command, and sound only up to its first move.     *)
MovingInv ==
  /\ loop \in {"fffb", "begin", "atBegin"} => Moving(p.speed)
  /\ p.state = "STOP" => ~p.ad
  /\ p.state # "STOP" /\ Moving(p.speed) =>
       /\ p.cur = IF p.speed = "FB" THEN {"FB"} ELSE {"FF"}
       /\ ~p.live
       /\ p.audio # 0 => p.fffb /\ due /\ loop \notin {"begin", "atBegin"}

(* When the decoder has sound, and which: set_speed starts it before it    *)
(* sets the speed, the update of the pids before it stores them.           *)
Sounds == p.speed = "X1" \/ call = "speed"
Wanted == IF call = "store" THEN asked.audio ELSE pids.audio

(* At a speed of the decoder it plays at this speed, silent but at X1, and *)
(* nothing is paused; a pause keeps what a resume needs.                   *)
KernelInv ==
  p.state # "STOP" /\ Kernel(p.speed) =>
    /\ p.fast = IF call \in {"audioStart", "speed"} THEN "X1" ELSE p.speed
    /\ ~Sounds => p.audio = 0
    /\ p.state = "START" =>
         /\ p.cur \in {{"Astart"}, CmdStart, {"RESUME"}, {"SEEK"}}
         /\ ~p.vPaused /\ (p.pauseNext => p.live)
         /\ Sounds => p.audio = Wanted /\ (pids.ad # 0 => p.ad)
    /\ p.state = "PAUSE" =>
         p.cur \in {{"PAUSE"}, {"Astart"}} /\ p.audio \in {0, Wanted}

(* What a call has read without the lock is still so where it goes on.     *)
CallInv ==
  /\ call \in {"audioStart", "speed"} => Kernel(p.speed) /\ p.speed # "X1"
  /\ call \in {"audioStart", "ad", "audio"} => p.state = "START"
  /\ call \in {"ad", "audio", "store"} => asked.ad = pids.ad
  /\ call = "resume" => p.state = "PAUSE" /\ p.cur = {"PAUSE"}
  /\ call = "other" => p.state = "PAUSE" /\ p.cur # {"PAUSE"}
  /\ call = "live" => p.live

RegularInv == SoundFlags /\ MovingInv /\ KernelInv /\ CallInv

TrickIInv == TrickTypeOK /\ AlwaysInv /\ (Regular => RegularInv)

(* What a helper leaves as it was.                                         *)
SameMode(t, s) ==
  /\ t.cur = s.cur /\ t.cmdState = s.cmdState /\ t.state = s.state
  /\ t.speed = s.speed /\ t.live = s.live /\ t.fffb = s.fffb
SameVideo(t, s) ==
  /\ t.hasV = s.hasV /\ t.video = s.video /\ t.vPaused = s.vPaused
  /\ t.pauseNext = s.pauseNext /\ t.fast = s.fast
SameSound(t, s) ==
  t.hasA = s.hasA /\ t.audio = s.audio /\ t.hasAd = s.hasAd /\ t.ad = s.ad

(* What each helper leaves: t is the player after it, s the one before.    *)
(* Of the fields a property is about every one is named.                   *)
VideoOff(t, s) ==
  /\ t \in Players
  /\ SameMode(t, s) /\ SameSound(t, s)
  /\ ~t.video /\ ~t.vPaused
  /\ t.hasV = s.hasV /\ t.pauseNext = s.pauseNext /\ t.fast = s.fast

VideoOn(t, s) ==
  /\ t \in Players
  /\ SameMode(t, s) /\ SameSound(t, s)
  /\ t.hasV /\ t.video /\ ~t.vPaused
  /\ t.pauseNext = s.pauseNext /\ t.fast = s.fast

AudioOff(t, s) ==
  /\ t \in Players
  /\ SameMode(t, s) /\ SameVideo(t, s)
  /\ t.hasAd = s.hasAd /\ t.ad = s.ad
  /\ ~t.hasA
  /\ t.audio = IF s.hasA THEN 0 ELSE s.audio

AdOff(t, s) ==
  /\ t \in Players
  /\ SameMode(t, s) /\ SameVideo(t, s)
  /\ t.hasA = s.hasA /\ t.audio = s.audio
  /\ ~t.hasAd
  /\ t.ad <=> s.ad /\ ~s.hasAd

AudioOn(t, s, a) ==
  /\ t \in Players
  /\ SameMode(t, s) /\ SameVideo(t, s)
  /\ t.hasAd = s.hasAd /\ t.ad = s.ad
  /\ t.hasA <=> s.hasA \/ a # 0
  /\ t.audio = IF a = 0 THEN s.audio ELSE a

AdOn(t, s, d) ==
  /\ t \in Players
  /\ SameMode(t, s) /\ SameVideo(t, s)
  /\ t.hasA = s.hasA /\ t.audio = s.audio
  /\ t.hasAd <=> s.hasAd \/ d # 0
  /\ t.ad <=> s.ad \/ d # 0

BothHeld(t, s) ==
  /\ t \in Players
  /\ SameMode(t, s) /\ SameSound(t, s)
  /\ t.vPaused <=> s.vPaused \/ s.hasV
  /\ t.hasV = s.hasV /\ t.video = s.video
  /\ t.pauseNext = s.pauseNext /\ t.fast = s.fast

BothGo(t, s) ==
  /\ t \in Players
  /\ SameMode(t, s) /\ SameSound(t, s)
  /\ t.vPaused <=> s.vPaused /\ ~s.hasV
  /\ t.pauseNext <=> s.pauseNext /\ ~s.hasV
  /\ t.hasV = s.hasV /\ t.video = s.video /\ t.fast = s.fast

Became(t, s, st) ==
  /\ t \in Players
  /\ t.cur = s.cur /\ t.cmdState = st /\ t.state = st
  /\ t.speed = s.speed /\ t.live = s.live /\ t.fffb = s.fffb
  /\ SameVideo(t, s) /\ SameSound(t, s)

Commanded(t, s, cmd) ==
  /\ t \in Players
  /\ t.cur = cmd /\ t.cmdState = s.cmdState /\ t.state = s.state
  /\ t.speed = s.speed /\ t.live = s.live /\ t.fffb = s.fffb
  /\ SameVideo(t, s) /\ SameSound(t, s)

(* A stopped video shows nothing and is not paused.                        *)
LEMMA StopVideoOf ==
  ASSUME NEW s \in Players
  PROVE  VideoOff(StopVideo(s), s)
<1>. DEFINE t == StopVideo(s)
<1>1. t \in Players
  BY DEF Players, StopVideo
<1>2. SameMode(t, s) /\ SameSound(t, s)
  BY DEF Players, StopVideo, SameMode, SameSound
<1>3. ~t.video /\ ~t.vPaused
  BY DEF Players, StopVideo
<1>4. t.hasV = s.hasV /\ t.pauseNext = s.pauseNext /\ t.fast = s.fast
  BY DEF Players, StopVideo
<1>. QED  BY <1>1, <1>2, <1>3, <1>4 DEF VideoOff

(* A started video runs; what follows its first frame stays set.           *)
LEMMA StartVideoOf ==
  ASSUME NEW s \in Players
  PROVE  VideoOn(StartVideo(s), s)
<1>. DEFINE t == StartVideo(s)
<1>1. t \in Players
  BY DEF Players, StartVideo
<1>2. SameMode(t, s) /\ SameSound(t, s)
  BY DEF Players, StartVideo, SameMode, SameSound
<1>3. t.hasV /\ t.video /\ ~t.vPaused
  BY DEF Players, StartVideo
<1>4. t.pauseNext = s.pauseNext /\ t.fast = s.fast
  BY DEF Players, StartVideo
<1>. QED  BY <1>1, <1>2, <1>3, <1>4 DEF VideoOn

(* Stopping the audio, if has_audio.                                       *)
LEMMA StopAudioOf ==
  ASSUME NEW s \in Players
  PROVE  AudioOff(StopAudio(s), s)
<1>. DEFINE t == StopAudio(s)
<1>1. t \in Players
  <2>1. CASE s.hasA
    BY <2>1 DEF Players, StopAudio
  <2>2. CASE ~(s.hasA)
    BY <2>2 DEF Players, StopAudio
  <2>. QED  BY <2>1, <2>2
<1>2. SameMode(t, s) /\ SameVideo(t, s)
  BY DEF Players, StopAudio, SameMode, SameVideo
<1>3. t.hasAd = s.hasAd /\ t.ad = s.ad
  BY DEF Players, StopAudio
<1>4. ~t.hasA
  BY DEF Players, StopAudio
<1>5. t.audio = IF s.hasA THEN 0 ELSE s.audio
  BY DEF Players, StopAudio
<1>. QED  BY <1>1, <1>2, <1>3, <1>4, <1>5 DEF AudioOff

(* Stopping the description, if has_ad_audio.                              *)
LEMMA StopAdOf ==
  ASSUME NEW s \in Players
  PROVE  AdOff(StopAd(s), s)
<1>. DEFINE t == StopAd(s)
<1>1. t \in Players
  <2>1. CASE s.hasAd
    BY <2>1 DEF Players, StopAd
  <2>2. CASE ~(s.hasAd)
    BY <2>2 DEF Players, StopAd
  <2>. QED  BY <2>1, <2>2
<1>2. SameMode(t, s) /\ SameVideo(t, s)
  BY DEF Players, StopAd, SameMode, SameVideo
<1>3. t.hasA = s.hasA /\ t.audio = s.audio
  BY DEF Players, StopAd
<1>4. ~t.hasAd
  BY DEF Players, StopAd
<1>5. t.ad <=> s.ad /\ ~s.hasAd
  BY DEF Players, StopAd
<1>. QED  BY <1>1, <1>2, <1>3, <1>4, <1>5 DEF AdOff

(* Starting the audio, if the segment has a pid for it.                    *)
LEMMA StartAudioOf ==
  ASSUME NEW s \in Players, NEW a \in AudioPids
  PROVE  AudioOn(StartAudio(s, a), s, a)
<1>. DEFINE t == StartAudio(s, a)
<1>1. t \in Players
  <2>1. CASE a = 0
    BY <2>1 DEF Players, StartAudio
  <2>2. CASE ~(a = 0)
    BY <2>2 DEF Players, StartAudio
  <2>. QED  BY <2>1, <2>2
<1>2. SameMode(t, s) /\ SameVideo(t, s)
  BY DEF Players, StartAudio, SameMode, SameVideo
<1>3. t.hasAd = s.hasAd /\ t.ad = s.ad
  BY DEF Players, StartAudio
<1>4. t.hasA <=> s.hasA \/ a # 0
  BY DEF Players, StartAudio
<1>5. t.audio = IF a = 0 THEN s.audio ELSE a
  BY DEF Players, StartAudio
<1>. QED  BY <1>1, <1>2, <1>3, <1>4, <1>5 DEF AudioOn

(* Starting the description, if the segment has one.                       *)
LEMMA StartAdOf ==
  ASSUME NEW s \in Players, NEW d
  PROVE  AdOn(StartAd(s, d), s, d)
<1>. DEFINE t == StartAd(s, d)
<1>1. t \in Players
  <2>1. CASE d = 0
    BY <2>1 DEF Players, StartAd
  <2>2. CASE ~(d = 0)
    BY <2>2 DEF Players, StartAd
  <2>. QED  BY <2>1, <2>2
<1>2. SameMode(t, s) /\ SameVideo(t, s)
  BY DEF Players, StartAd, SameMode, SameVideo
<1>3. t.hasA = s.hasA /\ t.audio = s.audio
  BY DEF Players, StartAd
<1>4. t.hasAd <=> s.hasAd \/ d # 0
  BY DEF Players, StartAd
<1>5. t.ad <=> s.ad \/ d # 0
  BY DEF Players, StartAd
<1>. QED  BY <1>1, <1>2, <1>3, <1>4, <1>5 DEF AdOn

(* Pausing the streams that are there.                                     *)
LEMMA PauseBothOf ==
  ASSUME NEW s \in Players
  PROVE  BothHeld(PauseBoth(s), s)
<1>. DEFINE t == PauseBoth(s)
<1>1. t \in Players
  <2>. DEFINE v == s.vPaused \/ s.hasV
             a == s.aPaused \/ s.hasA
  <2>1. v \in BOOLEAN /\ a \in BOOLEAN
    OBVIOUS
  <2>2. t = [s EXCEPT !.vPaused = v, !.aPaused = a]
    BY DEF PauseBoth
  <2>. HIDE DEF v, a, t
  <2>. QED  BY <2>1, <2>2 DEF Players
<1>2. SameMode(t, s) /\ SameSound(t, s)
  BY DEF Players, PauseBoth, SameMode, SameSound
<1>3. t.vPaused <=> s.vPaused \/ s.hasV
  BY DEF Players, PauseBoth
<1>4. t.hasV = s.hasV /\ t.video = s.video
  BY DEF Players, PauseBoth
<1>5. t.pauseNext = s.pauseNext /\ t.fast = s.fast
  BY DEF Players, PauseBoth
<1>. QED  BY <1>1, <1>2, <1>3, <1>4, <1>5 DEF BothHeld

(* Resuming the streams that are there.                                    *)
LEMMA ResumeBothOf ==
  ASSUME NEW s \in Players
  PROVE  BothGo(ResumeBoth(s), s)
<1>. DEFINE t == ResumeBoth(s)
<1>1. t \in Players
  <2>. DEFINE v == s.vPaused /\ ~s.hasV
             a == s.aPaused /\ ~s.hasA
             n == s.pauseNext /\ ~s.hasV
  <2>1. v \in BOOLEAN /\ a \in BOOLEAN /\ n \in BOOLEAN
    OBVIOUS
  <2>. DEFINE x == [s EXCEPT !.vPaused = v, !.aPaused = a]
              y == [x EXCEPT !.pauseNext = n]
  <2>2. t = y
    BY DEF ResumeBoth
  <2>. HIDE DEF v, a, n, t
  <2>3. x \in Players
    BY <2>1 DEF Players
  <2>. HIDE DEF x
  <2>4. y \in Players
    BY <2>1, <2>3 DEF Players
  <2>. QED  BY <2>2, <2>4
<1>2. SameMode(t, s) /\ SameSound(t, s)
  BY DEF Players, ResumeBoth, SameMode, SameSound
<1>3. t.vPaused <=> s.vPaused /\ ~s.hasV
  BY DEF Players, ResumeBoth
<1>4. t.pauseNext <=> s.pauseNext /\ ~s.hasV
  BY DEF Players, ResumeBoth
<1>5. t.hasV = s.hasV /\ t.video = s.video /\ t.fast = s.fast
  BY DEF Players, ResumeBoth
<1>. QED  BY <1>1, <1>2, <1>3, <1>4, <1>5 DEF BothGo

(* A state that is set, with the state of the command.                     *)
LEMMA ToOf ==
  ASSUME NEW s \in Players, NEW st \in States
  PROVE  Became(To(s, st), s, st)
<1>. DEFINE t == To(s, st)
<1>1. t \in Players
  BY DEF Players, To
<1>2. t.cur = s.cur /\ t.cmdState = st /\ t.state = st
  BY DEF Players, To
<1>3. t.speed = s.speed /\ t.live = s.live /\ t.fffb = s.fffb
  BY DEF Players, To
<1>4. SameVideo(t, s) /\ SameSound(t, s)
  BY DEF Players, To, SameVideo, SameSound
<1>. QED  BY <1>1, <1>2, <1>3, <1>4 DEF Became

(* A command that is set.                                                  *)
LEMMA CommandOf ==
  ASSUME NEW s \in Players, NEW cmd \in SUBSET Bits
  PROVE  Commanded(Command(s, cmd), s, cmd)
<1>. DEFINE t == Command(s, cmd)
<1>1. t \in Players
  BY DEF Players, Command
<1>2. t.cur = cmd /\ t.cmdState = s.cmdState /\ t.state = s.state
  BY DEF Players, Command
<1>3. t.speed = s.speed /\ t.live = s.live /\ t.fffb = s.fffb
  BY DEF Players, Command
<1>4. SameVideo(t, s) /\ SameSound(t, s)
  BY DEF Players, Command, SameVideo, SameSound
<1>. QED  BY <1>1, <1>2, <1>3, <1>4 DEF Commanded

(* The sound of the segment is started, both streams of it are stopped.    *)
SoundOn(t, s) ==
  /\ t.hasA <=> s.hasA \/ pids.audio # 0
  /\ t.audio = IF pids.audio = 0 THEN s.audio ELSE pids.audio
  /\ t.hasAd <=> s.hasAd \/ pids.ad # 0
  /\ t.ad <=> s.ad \/ pids.ad # 0
SoundOff(t, s) ==
  /\ ~t.hasA /\ ~t.hasAd
  /\ t.audio = IF s.hasA THEN 0 ELSE s.audio
  /\ t.ad <=> s.ad /\ ~s.hasAd

(* What StartSound leaves.                                                 *)
LEMMA StartSoundOf ==
  ASSUME TrickTypeOK, NEW s \in Players
  PROVE  LET t == StartSound(s) IN
         t \in Players /\ SameMode(t, s) /\ SameVideo(t, s) /\ SoundOn(t, s)
<1>. DEFINE d == StartAd(s, pids.ad)
            t == StartAudio(d, pids.audio)
<1>1. pids.audio \in AudioPids
  BY DEF TrickTypeOK
<1>2. AdOn(d, s, pids.ad)
  BY StartAdOf
<1>3. AudioOn(t, d, pids.audio)
  BY <1>1, <1>2, StartAudioOf DEF AdOn
<1>4. t = StartSound(s)
  BY DEF StartSound
<1>. HIDE DEF d, t
<1>5. t \in Players /\ SameMode(t, s) /\ SameVideo(t, s)
  BY <1>2, <1>3 DEF AdOn, AudioOn, SameMode, SameVideo
<1>6. SoundOn(t, s)
  BY <1>2, <1>3 DEF AdOn, AudioOn, SoundOn
<1>. QED
  BY <1>4, <1>5, <1>6

(* What is left when the sound is stopped.                                 *)
LEMMA StopSoundOf ==
  ASSUME NEW s \in Players
  PROVE  LET t == StopAd(StopAudio(s)) IN
         t \in Players /\ SameMode(t, s) /\ SameVideo(t, s) /\ SoundOff(t, s)
<1>. DEFINE a == StopAudio(s)
            t == StopAd(a)
<1>1. AudioOff(a, s)
  BY StopAudioOf
<1>2. AdOff(t, a)
  BY <1>1, StopAdOf DEF AudioOff
<1>. HIDE DEF a, t
<1>3. t \in Players /\ SameMode(t, s) /\ SameVideo(t, s)
  BY <1>1, <1>2 DEF AudioOff, AdOff, SameMode, SameVideo
<1>4. SoundOff(t, s)
  BY <1>1, <1>2 DEF AudioOff, AdOff, SoundOff
<1>. QED
  BY <1>3, <1>4 DEF a, t

(* ... and the video too.                                                  *)
LEMMA StopStreamsOf ==
  ASSUME NEW s \in Players
  PROVE  LET t == StopAd(StopAudio(StopVideo(s))) IN
         /\ t \in Players /\ SameMode(t, s) /\ SoundOff(t, s)
         /\ ~t.video /\ ~t.vPaused
         /\ t.hasV = s.hasV /\ t.pauseNext = s.pauseNext /\ t.fast = s.fast
<1>. DEFINE v == StopVideo(s)
            t == StopAd(StopAudio(v))
<1>1. VideoOff(v, s)
  BY StopVideoOf
<1>2. t \in Players /\ SameMode(t, v) /\ SameVideo(t, v) /\ SoundOff(t, v)
  BY <1>1, StopSoundOf DEF VideoOff
<1>. HIDE DEF v, t
<1>3. SameMode(t, s)
  BY <1>1, <1>2 DEF VideoOff, SameMode
<1>4. SoundOff(t, s)
  BY <1>1, <1>2 DEF VideoOff, SameSound, SoundOff
<1>5. /\ ~t.video /\ ~t.vPaused
      /\ t.hasV = s.hasV /\ t.pauseNext = s.pauseNext /\ t.fast = s.fast
  BY <1>1, <1>2 DEF VideoOff, SameVideo
<1>. QED
  BY <1>2, <1>3, <1>4, <1>5 DEF v, t

(* A command in a state.                                                   *)
LEMMA CommandToOf ==
  ASSUME NEW s \in Players, NEW cmd \in SUBSET Bits, NEW st \in States
  PROVE  LET t == To(Command(s, cmd), st) IN
         /\ t \in Players /\ SameVideo(t, s) /\ SameSound(t, s)
         /\ t.cur = cmd /\ t.cmdState = st /\ t.state = st
         /\ t.speed = s.speed /\ t.live = s.live /\ t.fffb = s.fffb
<1>. DEFINE c == Command(s, cmd)
            t == To(c, st)
<1>1. Commanded(c, s, cmd)
  BY CommandOf
<1>2. Became(t, c, st)
  BY <1>1, ToOf DEF Commanded
<1>. HIDE DEF c, t
<1>3. SameVideo(t, s) /\ SameSound(t, s)
  BY <1>1, <1>2 DEF Commanded, Became, SameVideo, SameSound
<1>4. /\ t \in Players
      /\ t.cur = cmd /\ t.cmdState = st /\ t.state = st
      /\ t.speed = s.speed /\ t.live = s.live /\ t.fffb = s.fffb
  BY <1>1, <1>2 DEF Commanded, Became
<1>. QED
  BY <1>3, <1>4 DEF c, t

(* _dvr_playback_replay starts the video as it plays; the sound too when   *)
(* the speed is not a fast one.                                            *)
Replayed(t, s) ==
  /\ t \in Players
  /\ t.cur = CmdStart /\ t.cmdState = "START" /\ t.state = "START"
  /\ t.live = s.live /\ t.fffb = s.fffb
  /\ t.hasV /\ t.video /\ ~t.vPaused /\ ~t.pauseNext
  /\ t.speed = (IF Fast(s.speed) THEN s.speed ELSE "X1") /\ t.fast = t.speed
  /\ LET off == IF s.hasA THEN 0 ELSE s.audio
     IN  IF Fast(s.speed)
         THEN ~t.hasA /\ t.audio = off /\ t.hasAd = s.hasAd /\ t.ad = s.ad
         ELSE /\ t.hasA <=> pids.audio # 0
              /\ t.audio = IF pids.audio = 0 THEN off ELSE pids.audio
              /\ t.hasAd <=> s.hasAd \/ pids.ad # 0
              /\ t.ad <=> s.ad \/ pids.ad # 0

(* ... which is what Replay of the model computes.                         *)
LEMMA ReplayOf ==
  ASSUME TrickTypeOK, NEW s \in Players
  PROVE  Replayed(Replay(s), s)
<1>. DEFINE v == StopVideo(s)
            off == StopAudio(v)
            n == [off EXCEPT !.pauseNext = FALSE]
            on == StartVideo(n)
            f == [on EXCEPT !.fast = s.speed]
            k == [StartSound(on) EXCEPT !.fast = "X1", !.speed = "X1"]
            x == IF Fast(s.speed) THEN f ELSE k
            t == To(Command(x, CmdStart), "START")
<1>1. VideoOff(v, s)
  BY StopVideoOf
<1>2. AudioOff(off, v)
  BY <1>1, StopAudioOf DEF VideoOff
<1>. HIDE DEF v, off
<1>3. /\ n \in Players /\ SameMode(n, off) /\ SameSound(n, off)
      /\ n.hasV = off.hasV /\ ~n.pauseNext
  BY <1>2 DEF AudioOff, Players, SameMode, SameSound
<1>. HIDE DEF n
<1>4. VideoOn(on, n)
  BY <1>3, StartVideoOf
<1>. DEFINE w == StartSound(on)
<1>. HIDE DEF on
<1>5. w \in Players /\ SameMode(w, on) /\ SameVideo(w, on) /\ SoundOn(w, on)
  BY <1>4, StartSoundOf DEF VideoOn
<1>. HIDE DEF w
<1>6. SameMode(on, s) /\ on.hasAd = s.hasAd /\ on.ad = s.ad /\ ~on.hasA
  BY <1>1, <1>2, <1>3, <1>4 DEF VideoOff, AudioOff, VideoOn, SameMode, SameSound
<1>7. on.audio = IF s.hasA THEN 0 ELSE s.audio
  BY <1>1, <1>2, <1>3, <1>4 DEF VideoOff, AudioOff, VideoOn, SameSound
<1>8. on \in Players /\ on.hasV /\ on.video /\ ~on.vPaused /\ ~on.pauseNext
  BY <1>3, <1>4 DEF VideoOn
<1>9. s.speed \in AllSpeeds /\ "X1" \in AllSpeeds
  BY DEF Players, AllSpeeds
<1>10. /\ f \in Players /\ SameMode(f, on) /\ SameSound(f, on) /\ f.fast = s.speed
       /\ f.hasV /\ f.video /\ ~f.vPaused /\ ~f.pauseNext
  BY <1>8, <1>9 DEF Players, SameMode, SameSound
<1>11. /\ k \in Players /\ SameSound(k, w) /\ k.fast = "X1" /\ k.speed = "X1"
       /\ k.live = w.live /\ k.fffb = w.fffb
  BY <1>5, <1>9 DEF w, Players, SameSound
<1>12. k.hasV /\ k.video /\ ~k.vPaused /\ ~k.pauseNext
  BY <1>5, <1>8 DEF w, Players, SameVideo
<1>. HIDE DEF f, k
<1>13. x \in Players
  BY <1>10, <1>11
<1>14. CmdStart \in SUBSET Bits /\ "START" \in States
  BY DEF CmdStart, Bits, AVRestart, VRestart, ARestart, States
<1>. HIDE DEF x
<1>15. /\ t \in Players /\ SameVideo(t, x) /\ SameSound(t, x)
       /\ t.cur = CmdStart /\ t.cmdState = "START" /\ t.state = "START"
       /\ t.speed = x.speed /\ t.live = x.live /\ t.fffb = x.fffb
  BY <1>13, <1>14, CommandToOf
<1>16. t = Replay(s)
  BY DEF Replay, v, off, n, on, w, f, k, x, t
<1>. HIDE DEF t
<1>17. CASE Fast(s.speed)
  <2>1. x = f
    BY <1>17 DEF x
  <2>2. t.live = s.live /\ t.fffb = s.fffb /\ t.speed = s.speed /\ t.fast = s.speed
    BY <2>1, <1>6, <1>10, <1>15 DEF SameMode, SameVideo
  <2>3. t.hasV /\ t.video /\ ~t.vPaused /\ ~t.pauseNext
    BY <2>1, <1>10, <1>15 DEF SameVideo
  <2>4. ~t.hasA /\ t.audio = on.audio /\ t.hasAd = s.hasAd /\ t.ad = s.ad
    BY <2>1, <1>6, <1>10, <1>15 DEF SameSound
  <2>. QED
    BY <2>2, <2>3, <2>4, <1>7, <1>15, <1>16, <1>17 DEF Replayed
<1>18. CASE ~Fast(s.speed)
  <2>1. x = k
    BY <1>18 DEF x
  <2>2. t.live = s.live /\ t.fffb = s.fffb /\ t.speed = "X1" /\ t.fast = "X1"
    BY <2>1, <1>5, <1>6, <1>11, <1>15 DEF SameMode, SameVideo
  <2>3. t.hasV /\ t.video /\ ~t.vPaused /\ ~t.pauseNext
    BY <2>1, <1>12, <1>15 DEF SameVideo
  <2>4. SoundOn(t, on)
    BY <2>1, <1>5, <1>11, <1>15 DEF SameSound, SoundOn
  <2>5. /\ t.hasA <=> pids.audio # 0
        /\ t.audio = IF pids.audio = 0 THEN on.audio ELSE pids.audio
        /\ t.hasAd <=> s.hasAd \/ pids.ad # 0
        /\ t.ad <=> s.ad \/ pids.ad # 0
    BY <2>4, <1>6 DEF SoundOn
  <2>. QED
    BY <2>2, <2>3, <2>5, <1>7, <1>15, <1>16, <1>18 DEF Replayed
<1>. QED
  BY <1>17, <1>18

(* _dvr_playback_fffb_replay leaves the video, up to its next frame.       *)
LEMMA FffbReplayOf ==
  ASSUME NEW s \in Players
  PROVE  LET t == FffbReplay(s) IN
         /\ t \in Players /\ SameMode(t, s) /\ SoundOff(t, s)
         /\ t.hasV /\ t.video /\ ~t.vPaused /\ t.pauseNext
<1>. DEFINE off == StopAd(StopAudio(StopVideo(s)))
            on == StartVideo(off)
            t == [on EXCEPT !.pauseNext = TRUE, !.fast = "X1"]
<1>1. off \in Players /\ SameMode(off, s) /\ SoundOff(off, s)
  BY StopStreamsOf
<1>2. t = FffbReplay(s)
  BY DEF FffbReplay
<1>. HIDE DEF off
<1>3. VideoOn(on, off)
  BY <1>1, StartVideoOf
<1>. HIDE DEF on
<1>4. "X1" \in AllSpeeds
  BY DEF AllSpeeds
<1>5. t \in Players /\ SameMode(t, on) /\ SameSound(t, on)
  BY <1>3, <1>4 DEF VideoOn, Players, SameMode, SameSound
<1>6. t.hasV /\ t.video /\ ~t.vPaused /\ t.pauseNext
  BY <1>3 DEF VideoOn, Players
<1>. HIDE DEF t
<1>7. SameMode(t, s)
  BY <1>1, <1>3, <1>5 DEF VideoOn, SameMode
<1>8. SoundOff(t, s)
  BY <1>1, <1>3, <1>5 DEF VideoOn, SameSound, SoundOff
<1>. QED
  BY <1>2, <1>5, <1>6, <1>7, <1>8

(* A helper keeps the streams: of what Streams says and of the state it    *)
(* leaves what it was or makes it START.                                   *)
Kept(t, s) ==
  /\ t \in Players /\ Streams(t)
  /\ t.cmdState = t.state /\ t.state \in {s.state, "START"}

(* dvr_playback_audio_start.                                               *)
LEMMA AudioStartOf ==
  ASSUME TrickTypeOK, NEW s \in Players
  PROVE  LET t == AudioStart(s) IN
         /\ t \in Players /\ SameVideo(t, s) /\ SoundOn(t, s)
         /\ t.cur = {"Astart"} /\ t.cmdState = "START" /\ t.state = "START"
         /\ t.speed = s.speed /\ t.live = s.live /\ t.fffb = s.fffb
<1>. DEFINE on == StartSound(s)
            t == To(Command(on, {"Astart"}), "START")
<1>1. on \in Players /\ SameMode(on, s) /\ SameVideo(on, s) /\ SoundOn(on, s)
  BY StartSoundOf
<1>2. {"Astart"} \in SUBSET Bits /\ "START" \in States
  BY DEF Bits, AVRestart, ARestart, States
<1>. HIDE DEF on
<1>3. /\ t \in Players /\ SameVideo(t, on) /\ SameSound(t, on)
      /\ t.cur = {"Astart"} /\ t.cmdState = "START" /\ t.state = "START"
      /\ t.speed = on.speed /\ t.live = on.live /\ t.fffb = on.fffb
  BY <1>1, <1>2, CommandToOf
<1>4. t = AudioStart(s)
  BY DEF AudioStart, on
<1>. HIDE DEF t
<1>5. SameVideo(t, s) /\ SoundOn(t, s)
  BY <1>1, <1>3 DEF SameVideo, SameSound, SoundOn
<1>. QED
  BY <1>1, <1>3, <1>4, <1>5 DEF SameMode

(* The audio and the video are started and the audio stopped without       *)
(* anything else being lost.                                               *)
LEMMA StreamsKept ==
  ASSUME TrickTypeOK, NEW s \in Players, Streams(s), s.cmdState = s.state
  PROVE  Kept(AudioStop(s), s) /\ Kept(AudioStart(s), s) /\ Kept(VideoStart(s), s)
<1>1. Kept(AudioStop(s), s)
  <2>. DEFINE off == StopAd(StopAudio(s))
              t == Command(off, {"Astop"})
  <2>1. off \in Players /\ SameMode(off, s) /\ SameVideo(off, s) /\ SoundOff(off, s)
    BY StopSoundOf
  <2>2. {"Astop"} \in SUBSET Bits /\ "Vstop" \notin {"Astop"}
    BY DEF Bits, AVRestart, ARestart
  <2>3. t = AudioStop(s)
    BY DEF AudioStop
  <2>. HIDE DEF off
  <2>4. Commanded(t, off, {"Astop"})
    BY <2>1, <2>2, CommandOf
  <2>. HIDE DEF t
  <2>5. t.hasV /\ t.video /\ (t.hasA \/ t.audio = 0)
    BY <2>1, <2>4 DEF Commanded, SameVideo, SameSound, SoundOff, Streams
  <2>6. t.cmdState = t.state /\ t.state = s.state /\ t \in Players
    BY <2>1, <2>4 DEF Commanded, SameMode
  <2>7. "Vstop" \notin t.cur
    BY <2>2, <2>4 DEF Commanded
  <2>. QED
    BY <2>3, <2>5, <2>6, <2>7 DEF Kept, Streams
<1>2. Kept(AudioStart(s), s)
  <2>. DEFINE t == AudioStart(s)
  <2>1. /\ t \in Players /\ SameVideo(t, s) /\ SoundOn(t, s)
        /\ t.cur = {"Astart"} /\ t.cmdState = "START" /\ t.state = "START"
    BY AudioStartOf
  <2>. HIDE DEF t
  <2>2. t.hasV /\ t.video /\ (t.hasA \/ t.audio = 0)
    BY <2>1 DEF SameVideo, SoundOn, Streams
  <2>3. "Vstop" \notin t.cur
    BY <2>1
  <2>4. Kept(t, s)
    BY <2>1, <2>2, <2>3 DEF Kept, Streams
  <2>. QED
    BY <2>4 DEF t
<1>3. Kept(VideoStart(s), s)
  <2>. DEFINE v == StartVideo(s)
              b == v.pauseNext \/ s.live
              w == [v EXCEPT !.pauseNext = b]
              t == To(Command(w, {"Vstart"}), "START")
  <2>1. VideoOn(v, s)
    BY StartVideoOf
  <2>2. {"Vstart"} \in SUBSET Bits /\ "START" \in States /\ "Vstop" \notin {"Vstart"}
    BY DEF Bits, AVRestart, VRestart, States
  <2>3. t = VideoStart(s)
    BY DEF VideoStart
  <2>4. b \in BOOLEAN
    OBVIOUS
  <2>. HIDE DEF v, b
  <2>5. /\ w \in Players /\ w.hasV = v.hasV /\ w.video = v.video
        /\ SameSound(w, v) /\ SameMode(w, v)
    BY <2>1, <2>4 DEF VideoOn, Players, SameSound, SameMode
  <2>. HIDE DEF w
  <2>6. /\ t \in Players /\ SameVideo(t, w) /\ SameSound(t, w)
        /\ t.cur = {"Vstart"} /\ t.cmdState = "START" /\ t.state = "START"
    BY <2>2, <2>5, CommandToOf
  <2>. HIDE DEF t
  <2>7. t.hasV /\ t.video /\ (t.hasA \/ t.audio = 0)
    BY <2>1, <2>5, <2>6 DEF VideoOn, SameVideo, SameSound, Streams
  <2>. QED
    BY <2>2, <2>3, <2>6, <2>7 DEF Kept, Streams
<1>. QED
  BY <1>1, <1>2, <1>3

(* _dvr_cmd of a command that stops the video only to restart everything.  *)
LEMMA DoCmdKeeps ==
  ASSUME TrickTypeOK, NEW s \in Players, Streams(s), s.cmdState = s.state,
         NEW cmd, "Vstop" \in cmd => AVRestart \subseteq cmd
  PROVE  Kept(DoCmd(s, cmd), s)
<1>1. CASE AVRestart \subseteq cmd
  <2>. DEFINE t == Replay(s)
  <2>1. Replayed(t, s)
    BY ReplayOf
  <2>2. t = DoCmd(s, cmd)
    BY <1>1 DEF DoCmd
  <2>. HIDE DEF t
  <2>3. t.hasA \/ t.audio = 0
    BY <2>1 DEF Replayed, Streams
  <2>4. "Vstop" \notin t.cur
    BY <2>1 DEF Replayed, CmdStart
  <2>. QED
    BY <2>1, <2>2, <2>3, <2>4 DEF Kept, Replayed, Streams
<1>2. CASE ~(AVRestart \subseteq cmd)
  <2>. DEFINE a == When("Astop" \in cmd, AudioStop(s), s)
              c == When("Vstart" \in cmd, VideoStart(a), a)
              t == When("Astart" \in cmd, AudioStart(c), c)
  <2>1. "Vstop" \notin cmd
    BY <1>2
  <2>2. DoCmd(s, cmd) \in {s, t}
    BY <1>2, <2>1 DEF DoCmd, When
  <2>3. Kept(s, s)
    BY DEF Kept
  <2>4. Kept(a, s)
    BY <2>3, StreamsKept DEF When
  <2>. HIDE DEF a
  <2>5. Kept(c, a)
    <3>1. Kept(VideoStart(a), a) /\ Kept(a, a)
      BY <2>4, StreamsKept DEF Kept
    <3>. QED  BY <3>1 DEF When
  <2>. HIDE DEF c
  <2>6. Kept(t, c)
    <3>1. Kept(AudioStart(c), c) /\ Kept(c, c)
      BY <2>5, StreamsKept DEF Kept
    <3>. QED  BY <3>1 DEF When
  <2>. HIDE DEF t
  <2>7. Kept(t, s)
    BY <2>4, <2>5, <2>6 DEF Kept
  <2>. QED
    BY <2>2, <2>3, <2>7
<1>. QED
  BY <1>1, <1>2

(* ... of the commands a regular sequence of calls can leave.              *)
LEMMA DoCmdCases ==
  ASSUME NEW s \in Players
  PROVE  DoCmd(s, {"Astart"}) = AudioStart(s) /\ DoCmd(s, AVRestart) = Replay(s)
<1>1. "Vstop" \in AVRestart /\ ~(AVRestart \subseteq {"Astart"})
  BY DEF AVRestart, VRestart
<1>2. {"Astart"} \notin {CmdStart, CmdStop}
  BY DEF CmdStart, CmdStop
<1>3. DoCmd(s, {"Astart"}) = AudioStart(s)
  BY <1>1, <1>2 DEF DoCmd, When
<1>4. DoCmd(s, AVRestart) = Replay(s)
  BY DEF DoCmd
<1>. QED
  BY <1>3, <1>4

(* dvr_playback_pause holds a player that runs; a trick command stays.     *)
LEMMA PausedOf ==
  ASSUME NEW s \in Players
  PROVE  LET t == Paused(s) IN
         /\ t \in Players /\ SameSound(t, s)
         /\ t.cur = IF Trick(s.cur) THEN s.cur ELSE {"PAUSE"}
         /\ t.cmdState = "PAUSE" /\ t.state = "PAUSE"
         /\ t.speed = s.speed /\ t.live = s.live /\ t.fffb = s.fffb
         /\ t.hasV = s.hasV /\ t.video = s.video /\ t.fast = s.fast
         /\ t.pauseNext = s.pauseNext /\ (t.vPaused <=> s.vPaused \/ s.hasV)
<1>. DEFINE c == When(Trick(s.cur), s, Command(s, {"PAUSE"}))
            h == PauseBoth(c)
            t == To(h, "PAUSE")
<1>1. {"PAUSE"} \in SUBSET Bits /\ "PAUSE" \in States
  BY DEF Bits, States
<1>2. Commanded(Command(s, {"PAUSE"}), s, {"PAUSE"})
  BY <1>1, CommandOf
<1>3. /\ c \in Players /\ SameVideo(c, s) /\ SameSound(c, s)
      /\ c.cur = IF Trick(s.cur) THEN s.cur ELSE {"PAUSE"}
      /\ c.speed = s.speed /\ c.live = s.live /\ c.fffb = s.fffb
  BY <1>2 DEF When, Commanded, SameVideo, SameSound
<1>. HIDE DEF c
<1>4. BothHeld(h, c)
  BY <1>3, PauseBothOf
<1>. HIDE DEF h
<1>5. Became(t, h, "PAUSE")
  BY <1>1, <1>4, ToOf DEF BothHeld
<1>6. t = Paused(s)
  BY DEF Paused, c, h
<1>. HIDE DEF t
<1>7. t \in Players /\ SameSound(t, s)
  BY <1>3, <1>4, <1>5 DEF BothHeld, Became, SameSound
<1>8. /\ t.hasV = s.hasV /\ t.video = s.video /\ t.fast = s.fast
      /\ t.pauseNext = s.pauseNext /\ (t.vPaused <=> s.vPaused \/ s.hasV)
  BY <1>3, <1>4, <1>5 DEF BothHeld, Became, SameVideo
<1>9. /\ t.cur = c.cur /\ t.cmdState = "PAUSE" /\ t.state = "PAUSE"
      /\ t.speed = s.speed /\ t.live = s.live /\ t.fffb = s.fffb
  BY <1>3, <1>4, <1>5 DEF BothHeld, Became, SameMode
<1>. QED
  BY <1>3, <1>6, <1>7, <1>8, <1>9

(* What a resume begins with, and that it lets the decoder go on.          *)
LEMMA HeldOf ==
  ASSUME NEW s \in Players
  PROVE  LET h == PauseBoth([s EXCEPT !.first = FALSE]) IN
         BothHeld(h, s) /\ ResumeBoth(h) \in Players /\ BothGo(ResumeBoth(h), h)
<1>. DEFINE f == [s EXCEPT !.first = FALSE]
            h == PauseBoth(f)
<1>1. f \in Players /\ SameMode(f, s) /\ SameSound(f, s)
  BY DEF Players, SameMode, SameSound
<1>2. SameVideo(f, s)
  BY DEF Players, SameVideo
<1>. HIDE DEF f
<1>3. BothHeld(h, f)
  BY <1>1, PauseBothOf
<1>. HIDE DEF h
<1>4. BothHeld(h, s)
  BY <1>1, <1>2, <1>3 DEF BothHeld, SameMode, SameSound, SameVideo
<1>5. BothGo(ResumeBoth(h), h)
  BY <1>3, ResumeBothOf DEF BothHeld
<1>. QED
  BY <1>4, <1>5 DEF f, h, BothGo

(* Streams that run again: nothing held if there is video.                 *)
Running(t, s) ==
  /\ t.speed = s.speed /\ t.fffb = s.fffb
  /\ t.hasV = s.hasV /\ t.video = s.video /\ t.fast = s.fast
  /\ s.hasV => ~t.vPaused /\ ~t.pauseNext

(* The resume of a PAUSE command.                                          *)
LEMMA ResumedOf ==
  ASSUME TrickTypeOK, NEW s \in Players
  PROVE  LET t == Resumed(s) IN
         /\ t \in Players /\ Running(t, s) /\ t.live = s.live
         /\ t.cur = {"RESUME"} /\ t.cmdState = "START" /\ t.state = "START"
         /\ IF s.speed # "X1" THEN SameSound(t, s)
            ELSE /\ t.hasA <=> s.hasA \/ pids.audio # 0
                 /\ t.audio = (IF s.hasA \/ pids.audio = 0 THEN s.audio ELSE pids.audio)
                 /\ t.hasAd <=> s.hasAd \/ pids.ad # 0
                 /\ t.ad <=> s.ad \/ (~s.hasAd /\ pids.ad # 0)
<1>. DEFINE h == PauseBoth([s EXCEPT !.first = FALSE])
            g == ResumeBoth(h)
            d == IF s.hasAd THEN g ELSE StartAd(g, pids.ad)
            a == IF s.hasA THEN d ELSE StartAudio(d, pids.audio)
            x == IF s.speed # "X1" THEN g ELSE a
            t == To(Command(x, {"RESUME"}), "START")
<1>1. BothHeld(h, s) /\ g \in Players /\ BothGo(g, h)
  BY HeldOf
<1>. HIDE DEF h, g
<1>2. AdOn(StartAd(g, pids.ad), g, pids.ad)
  BY <1>1, StartAdOf
<1>3. /\ d \in Players /\ SameMode(d, g) /\ SameVideo(d, g)
      /\ d.hasA = g.hasA /\ d.audio = g.audio
      /\ d.hasAd <=> g.hasAd \/ (~s.hasAd /\ pids.ad # 0)
      /\ d.ad <=> g.ad \/ (~s.hasAd /\ pids.ad # 0)
  BY <1>1, <1>2 DEF AdOn, SameMode, SameVideo
<1>. HIDE DEF d
<1>4. pids.audio \in AudioPids
  BY DEF TrickTypeOK
<1>5. AudioOn(StartAudio(d, pids.audio), d, pids.audio)
  BY <1>3, <1>4, StartAudioOf
<1>6. /\ a \in Players /\ SameMode(a, d) /\ SameVideo(a, d)
      /\ a.hasAd = d.hasAd /\ a.ad = d.ad
      /\ a.hasA <=> d.hasA \/ (~s.hasA /\ pids.audio # 0)
      /\ a.audio = (IF s.hasA \/ pids.audio = 0 THEN d.audio ELSE pids.audio)
  BY <1>5, <1>3 DEF AudioOn, SameMode, SameVideo
<1>. HIDE DEF a
<1>7. x \in Players /\ SameMode(x, g) /\ SameVideo(x, g)
  BY <1>1, <1>3, <1>6 DEF SameMode, SameVideo
<1>8. {"RESUME"} \in SUBSET Bits /\ "START" \in States
  BY DEF Bits, States
<1>9. IF s.speed # "X1" THEN x = g ELSE x = a
  OBVIOUS
<1>10. t = Resumed(s)
  BY DEF Resumed, h, g, d, a
<1>. HIDE DEF x
<1>11. /\ t \in Players /\ SameVideo(t, x) /\ SameSound(t, x)
       /\ t.cur = {"RESUME"} /\ t.cmdState = "START" /\ t.state = "START"
       /\ t.speed = x.speed /\ t.live = x.live /\ t.fffb = x.fffb
  BY <1>7, <1>8, CommandToOf
<1>. HIDE DEF t
<1>12. SameSound(g, s) /\ SameMode(g, s)
  BY <1>1 DEF BothHeld, BothGo, SameSound, SameMode
<1>13. Running(t, s) /\ t.live = s.live
  <2>1. t.speed = s.speed /\ t.fffb = s.fffb /\ t.live = s.live
    BY <1>7, <1>11, <1>12 DEF SameMode
  <2>2. g.hasV = s.hasV /\ g.video = s.video /\ g.fast = s.fast
    BY <1>1 DEF BothHeld, BothGo
  <2>3. s.hasV => ~g.vPaused /\ ~g.pauseNext
    BY <1>1 DEF BothHeld, BothGo
  <2>. QED
    BY <2>1, <2>2, <2>3, <1>7, <1>11 DEF SameVideo, Running
<1>14. IF s.speed # "X1" THEN SameSound(t, s)
       ELSE /\ t.hasA <=> s.hasA \/ pids.audio # 0
            /\ t.audio = (IF s.hasA \/ pids.audio = 0 THEN s.audio ELSE pids.audio)
            /\ t.hasAd <=> s.hasAd \/ pids.ad # 0
            /\ t.ad <=> s.ad \/ (~s.hasAd /\ pids.ad # 0)
  <2>1. CASE s.speed # "X1"
    BY <2>1, <1>9, <1>11, <1>12 DEF SameSound
  <2>2. CASE s.speed = "X1"
    <3>1. SameSound(t, a)
      BY <2>2, <1>9, <1>11
    <3>2. /\ t.hasA <=> s.hasA \/ pids.audio # 0
          /\ t.hasAd <=> s.hasAd \/ pids.ad # 0
          /\ t.ad <=> s.ad \/ (~s.hasAd /\ pids.ad # 0)
      BY <3>1, <1>3, <1>6, <1>12 DEF SameSound
    <3>3. t.audio = (IF s.hasA \/ pids.audio = 0 THEN s.audio ELSE pids.audio)
      BY <3>1, <1>3, <1>6, <1>12 DEF SameSound
    <3>. QED
      BY <2>2, <3>2, <3>3
  <2>. QED
    BY <2>1, <2>2
<1>. QED
  BY <1>10, <1>11, <1>13, <1>14

(* What the resume of another command does with what it executed.          *)
LEMMA GoOf ==
  ASSUME NEW s \in Players
  PROVE  LET t == To(ResumeBoth(s), "START") IN
         /\ t \in Players /\ Running(t, s) /\ SameSound(t, s)
         /\ t.cur = s.cur /\ t.live = s.live
         /\ t.cmdState = "START" /\ t.state = "START"
<1>. DEFINE g == ResumeBoth(s)
            t == To(g, "START")
<1>1. BothGo(g, s)
  BY ResumeBothOf
<1>2. "START" \in States
  BY DEF States
<1>. HIDE DEF g
<1>3. Became(t, g, "START")
  BY <1>1, <1>2, ToOf DEF BothGo
<1>. HIDE DEF t
<1>4. Running(t, s)
  BY <1>1, <1>3 DEF BothGo, Became, Running, SameMode, SameVideo
<1>5. t \in Players /\ SameSound(t, s)
  BY <1>1, <1>3 DEF BothGo, Became, SameSound
<1>. QED
  BY <1>1, <1>3, <1>4, <1>5 DEF g, t, BothGo, Became, SameMode

(* The resume of another command keeps the streams, whatever it is.        *)
LEMMA ResumedOtherKeeps ==
  ASSUME TrickTypeOK, NEW s \in Players, Streams(s), s.cmdState = s.state
  PROVE  Kept(ResumedOther(s), s) /\ ResumedOther(s).state = "START"
<1>. DEFINE h == PauseBoth([s EXCEPT !.first = FALSE])
            d == When(s.speed = "X1", DoCmd(h, s.cur), h)
            t == To(ResumeBoth(d), "START")
<1>1. BothHeld(h, s)
  BY HeldOf
<1>2. t = ResumedOther(s)
  BY DEF ResumedOther
<1>. HIDE DEF h
<1>3. h \in Players /\ Streams(h) /\ h.cmdState = h.state
  BY <1>1 DEF BothHeld, SameMode, SameSound, Streams
<1>4. "Vstop" \in s.cur => AVRestart \subseteq s.cur
  BY DEF Streams
<1>5. Kept(DoCmd(h, s.cur), h) /\ Kept(h, h)
  BY <1>3, <1>4, DoCmdKeeps DEF Kept
<1>6. Kept(d, h)
  BY <1>5 DEF When
<1>. HIDE DEF d
<1>7. /\ t \in Players /\ Running(t, d) /\ SameSound(t, d)
      /\ t.cur = d.cur /\ t.cmdState = "START" /\ t.state = "START"
  BY <1>6, GoOf DEF Kept
<1>. HIDE DEF t
<1>8. Streams(t)
  BY <1>6, <1>7 DEF Kept, Streams, Running, SameSound
<1>. QED
  BY <1>2, <1>7, <1>8 DEF Kept

(* At a speed with no sound it executes nothing.                           *)
LEMMA ResumedOtherSilent ==
  ASSUME TrickTypeOK, NEW s \in Players, s.speed # "X1"
  PROVE  LET t == ResumedOther(s) IN
         Running(t, s) /\ SameSound(t, s) /\ t.cur = s.cur /\ t.live = s.live
<1>. DEFINE h == PauseBoth([s EXCEPT !.first = FALSE])
            t == To(ResumeBoth(h), "START")
<1>1. BothHeld(h, s)
  BY HeldOf
<1>2. t = ResumedOther(s)
  BY DEF ResumedOther, When
<1>. HIDE DEF h
<1>3. Running(t, h) /\ SameSound(t, h) /\ t.cur = h.cur /\ t.live = h.live
  BY <1>1, GoOf DEF BothHeld
<1>. HIDE DEF t
<1>4. Running(t, s) /\ t.cur = s.cur /\ t.live = s.live
  BY <1>1, <1>3 DEF BothHeld, Running, SameMode
<1>5. SameSound(t, s)
  BY <1>1, <1>3 DEF BothHeld, SameSound
<1>. QED
  BY <1>2, <1>4, <1>5

(* At X1 it starts the sound, or both streams again.                       *)
LEMMA ResumedOtherX1 ==
  ASSUME TrickTypeOK, NEW s \in Players, s.hasV, s.speed = "X1",
         s.cur \in {{"Astart"}, AVRestart}
  PROVE  LET t == ResumedOther(s) IN
         /\ ~t.vPaused /\ ~t.pauseNext /\ t.speed = "X1" /\ t.live = s.live
         /\ t.hasA <=> (pids.audio # 0 \/ (s.cur = {"Astart"} /\ s.hasA))
         /\ t.audio = (IF pids.audio # 0 THEN pids.audio
                       ELSE IF s.hasA /\ s.cur # {"Astart"} THEN 0 ELSE s.audio)
         /\ t.hasAd <=> s.hasAd \/ pids.ad # 0
         /\ t.ad <=> s.ad \/ pids.ad # 0
         /\ IF s.cur = {"Astart"} THEN t.cur = {"Astart"} /\ t.fast = s.fast
            ELSE t.cur = CmdStart /\ t.fast = "X1"
<1>. DEFINE h == PauseBoth([s EXCEPT !.first = FALSE])
            d == DoCmd(h, s.cur)
            t == To(ResumeBoth(d), "START")
<1>1. BothHeld(h, s)
  BY HeldOf
<1>2. t = ResumedOther(s)
  BY DEF ResumedOther, When
<1>. HIDE DEF h
<1>3. h \in Players /\ h.hasV /\ h.speed = "X1" /\ h.live = s.live /\ SameSound(h, s)
  BY <1>1 DEF BothHeld, SameMode
<1>4. CASE s.cur = {"Astart"}
  <2>1. /\ d \in Players /\ SameVideo(d, h) /\ SoundOn(d, h)
        /\ d.cur = {"Astart"} /\ d.speed = "X1" /\ d.live = h.live
    BY <1>3, <1>4, DoCmdCases, AudioStartOf
  <2>. HIDE DEF d
  <2>2. /\ Running(t, d) /\ SameSound(t, d) /\ t.cur = d.cur /\ t.live = d.live
    BY <2>1, GoOf
  <2>. HIDE DEF t
  <2>3. ~t.vPaused /\ ~t.pauseNext /\ t.speed = "X1" /\ t.live = s.live
    BY <2>1, <2>2, <1>3 DEF Running, SameVideo
  <2>4. SoundOn(t, s)
    BY <2>1, <2>2, <1>3 DEF SameSound, SoundOn
  <2>5. t.cur = {"Astart"} /\ t.fast = s.fast
    BY <2>1, <2>2, <1>1 DEF Running, SameVideo, BothHeld
  <2>. QED
    BY <2>3, <2>4, <2>5, <1>2, <1>4 DEF SoundOn
<1>5. CASE s.cur = AVRestart
  <2>1. Replayed(d, h)
    BY <1>3, <1>5, DoCmdCases, ReplayOf
  <2>. HIDE DEF d
  <2>2. /\ Running(t, d) /\ SameSound(t, d) /\ t.cur = d.cur /\ t.live = d.live
    BY <2>1, GoOf DEF Replayed
  <2>. HIDE DEF t
  <2>3. ~Fast("X1") /\ AVRestart # {"Astart"}
    BY DEF Fast, AVRestart, VRestart
  <2>4. ~t.vPaused /\ ~t.pauseNext /\ t.speed = "X1" /\ t.live = s.live
    BY <2>1, <2>2, <2>3, <1>3 DEF Running, Replayed
  <2>5. t.cur = CmdStart /\ t.fast = "X1"
    BY <2>1, <2>2, <2>3, <1>3 DEF Running, Replayed
  <2>6. /\ t.hasA <=> pids.audio # 0
        /\ t.audio = (IF pids.audio # 0 THEN pids.audio
                      ELSE IF s.hasA THEN 0 ELSE s.audio)
    BY <2>1, <2>2, <2>3, <1>3 DEF Replayed, SameSound
  <2>7. /\ t.hasAd <=> s.hasAd \/ pids.ad # 0
        /\ t.ad <=> s.ad \/ pids.ad # 0
    BY <2>1, <2>2, <2>3, <1>3 DEF Replayed, SameSound
  <2>. QED
    BY <2>3, <2>4, <2>5, <2>6, <2>7, <1>2, <1>5
<1>. QED
  BY <1>4, <1>5

(* The resume of a start in pause.                                         *)
LEMMA ResumedLiveOf ==
  ASSUME NEW s \in Players
  PROVE  LET t == ResumedLive(s) IN
         /\ t \in Players /\ Running(t, s) /\ SameSound(t, s)
         /\ t.cur = s.cur /\ t.cmdState = s.cmdState /\ t.state = s.state
         /\ ~t.live /\ ~t.pauseNext
<1>. DEFINE h == PauseBoth([s EXCEPT !.first = FALSE])
            g == ResumeBoth(h)
            t == [g EXCEPT !.live = FALSE, !.pauseNext = FALSE]
<1>1. BothHeld(h, s) /\ g \in Players /\ BothGo(g, h)
  BY HeldOf
<1>2. t = ResumedLive(s)
  BY DEF ResumedLive
<1>. HIDE DEF h, g
<1>3. t \in Players /\ ~t.live /\ ~t.pauseNext
  <2>1. g \in Players
    BY <1>1
  <2>2. t \in Players
    BY <2>1 DEF Players
  <2>3. ~t.live /\ ~t.pauseNext
    BY <2>1 DEF Players
  <2>. QED
    BY <2>2, <2>3
<1>4. /\ SameSound(t, g) /\ t.cur = g.cur /\ t.cmdState = g.cmdState
      /\ t.state = g.state /\ t.speed = g.speed /\ t.fffb = g.fffb
  BY <1>1 DEF Players, SameSound
<1>5. /\ t.hasV = g.hasV /\ t.video = g.video /\ t.vPaused = g.vPaused
      /\ t.fast = g.fast
  BY <1>1 DEF Players
<1>. HIDE DEF t
<1>6. Running(t, s)
  BY <1>1, <1>3, <1>4, <1>5 DEF BothHeld, BothGo, Running, SameMode
<1>7. SameSound(t, s)
  BY <1>1, <1>4 DEF BothHeld, BothGo, SameSound
<1>. QED
  BY <1>1, <1>2, <1>3, <1>4, <1>6, <1>7 DEF BothHeld, BothGo, SameMode

(* What a resume leaves, whichever command it meets, keeps the streams.    *)
LEMMA ResumeKeeps ==
  ASSUME TrickTypeOK, NEW s \in Players, Streams(s), s.cmdState = s.state
  PROVE  Kept(Resumed(s), s) /\ Kept(ResumedLive(s), s)
<1>1. Kept(Resumed(s), s)
  <2>. DEFINE t == Resumed(s)
  <2>1. /\ t \in Players /\ Running(t, s)
        /\ t.cur = {"RESUME"} /\ t.cmdState = "START" /\ t.state = "START"
        /\ t.hasA \/ t.audio = 0
    <3>1. /\ t \in Players /\ Running(t, s)
          /\ t.cur = {"RESUME"} /\ t.cmdState = "START" /\ t.state = "START"
          /\ IF s.speed # "X1" THEN SameSound(t, s)
             ELSE /\ t.hasA <=> s.hasA \/ pids.audio # 0
                  /\ t.audio = (IF s.hasA \/ pids.audio = 0 THEN s.audio
                                ELSE pids.audio)
      BY ResumedOf
    <3>. HIDE DEF t
    <3>. QED  BY <3>1 DEF SameSound, Streams
  <2>. HIDE DEF t
  <2>2. "Vstop" \notin t.cur
    BY <2>1
  <2>3. t.hasV /\ t.video
    BY <2>1 DEF Running, Streams
  <2>4. Kept(t, s)
    BY <2>1, <2>2, <2>3 DEF Kept, Streams
  <2>. QED
    BY <2>4 DEF t
<1>2. Kept(ResumedLive(s), s)
  <2>. DEFINE t == ResumedLive(s)
  <2>1. /\ t \in Players /\ Running(t, s) /\ SameSound(t, s)
        /\ t.cur = s.cur /\ t.cmdState = s.cmdState /\ t.state = s.state
    BY ResumedLiveOf
  <2>. HIDE DEF t
  <2>2. Kept(t, s)
    BY <2>1 DEF Kept, Streams, Running, SameSound
  <2>. QED
    BY <2>2 DEF t
<1>. QED
  BY <1>1, <1>2

(* dvr_playback_start.  A trick command of the play before leaves the      *)
(* sound off.                                                              *)
LEMMA StartedOf ==
  ASSUME TrickTypeOK, NEW s \in Players, NEW live \in BOOLEAN
  PROVE  LET t == Started(s, live) IN
         /\ t \in Players /\ t.cmdState = "START" /\ t.state = "START"
         /\ t.hasV /\ t.video /\ ~t.vPaused /\ (t.live <=> live)
         /\ t.pauseNext <=> live \/ Trick(s.cur)
         /\ t.speed = s.speed /\ t.fffb = s.fffb
         /\ t.cur = IF Trick(s.cur) THEN s.cur ELSE CmdStart
         /\ t.fast = IF ~Trick(s.cur) /\ Fast(s.speed) THEN s.speed ELSE s.fast
         /\ IF Trick(s.cur) \/ Fast(s.speed) THEN SameSound(t, s) ELSE SoundOn(t, s)
<1>. DEFINE u == StartVideo(s)
            n == live \/ Trick(s.cur)
            v == [u EXCEPT !.live = live, !.first = FALSE, !.pauseNext = n]
            f == [v EXCEPT !.fast = s.speed]
            w == StartSound(v)
            x == IF Fast(s.speed) THEN f ELSE w
            on == IF Trick(s.cur) THEN v ELSE Command(x, CmdStart)
            t == To(on, "START")
<1>1. VideoOn(u, s)
  BY StartVideoOf
<1>2. n \in BOOLEAN
  BY DEF Trick
<1>. HIDE DEF u, n
<1>3. /\ v \in Players /\ SameSound(v, u) /\ v.cur = u.cur
      /\ v.speed = u.speed /\ v.fffb = u.fffb
  <2>1. u \in Players
    BY <1>1 DEF VideoOn
  <2>2. v \in Players
    BY <2>1, <1>2 DEF Players
  <2>3. SameSound(v, u) /\ v.cur = u.cur /\ v.speed = u.speed /\ v.fffb = u.fffb
    BY <2>1 DEF Players, SameSound
  <2>. QED
    BY <2>2, <2>3
<1>4. /\ v.live = live /\ v.pauseNext = n
      /\ v.hasV = u.hasV /\ v.video = u.video /\ v.vPaused = u.vPaused
      /\ v.fast = u.fast
  BY <1>1 DEF VideoOn, Players
<1>. HIDE DEF v
<1>5. w \in Players /\ SameMode(w, v) /\ SameVideo(w, v) /\ SoundOn(w, v)
  BY <1>3, StartSoundOf
<1>6. s.speed \in AllSpeeds
  BY DEF Players
<1>7. f \in Players /\ SameMode(f, v) /\ SameSound(f, v)
  BY <1>3, <1>6 DEF Players, SameMode, SameSound
<1>8. /\ f.hasV = v.hasV /\ f.video = v.video /\ f.vPaused = v.vPaused
      /\ f.pauseNext = v.pauseNext /\ f.fast = s.speed
  BY <1>3 DEF Players
<1>. HIDE DEF w, f
<1>9. /\ x \in Players /\ SameMode(x, v)
      /\ x.hasV = v.hasV /\ x.video = v.video /\ x.vPaused = v.vPaused
      /\ x.pauseNext = v.pauseNext
      /\ x.fast = IF Fast(s.speed) THEN s.speed ELSE v.fast
      /\ IF Fast(s.speed) THEN SameSound(x, v) ELSE SoundOn(x, v)
  BY <1>5, <1>7, <1>8 DEF SameVideo
<1>. HIDE DEF x
<1>10. CmdStart \in SUBSET Bits /\ "START" \in States
  BY DEF CmdStart, Bits, AVRestart, VRestart, ARestart, States
<1>11. Commanded(Command(x, CmdStart), x, CmdStart)
  BY <1>9, <1>10, CommandOf
<1>12. /\ on \in Players /\ on.live = v.live /\ on.speed = v.speed /\ on.fffb = v.fffb
       /\ on.cur = IF Trick(s.cur) THEN v.cur ELSE CmdStart
       /\ on.hasV = v.hasV /\ on.video = v.video /\ on.vPaused = v.vPaused
       /\ on.pauseNext = v.pauseNext
       /\ on.fast = IF ~Trick(s.cur) /\ Fast(s.speed) THEN s.speed ELSE v.fast
  BY <1>3, <1>9, <1>11 DEF Commanded, SameVideo, SameMode
<1>13. IF Trick(s.cur) \/ Fast(s.speed) THEN SameSound(on, v) ELSE SoundOn(on, v)
  BY <1>9, <1>11 DEF Commanded, SameSound, SoundOn
<1>14. t = Started(s, live)
  BY DEF Started, u, n, v, f, w, x, on
<1>. HIDE DEF on
<1>15. Became(t, on, "START")
  BY <1>10, <1>12, ToOf
<1>. HIDE DEF t
<1>16. /\ t \in Players /\ t.cmdState = "START" /\ t.state = "START"
       /\ t.hasV /\ t.video /\ ~t.vPaused /\ t.live = live /\ t.pauseNext = n
  BY <1>1, <1>4, <1>12, <1>15 DEF VideoOn, Became, SameVideo
<1>17. /\ t.speed = s.speed /\ t.fffb = s.fffb
       /\ t.cur = IF Trick(s.cur) THEN s.cur ELSE CmdStart
  BY <1>1, <1>3, <1>12, <1>15 DEF VideoOn, Became, SameMode
<1>18. t.fast = IF ~Trick(s.cur) /\ Fast(s.speed) THEN s.speed ELSE s.fast
  BY <1>1, <1>4, <1>12, <1>15 DEF VideoOn, Became, SameVideo
<1>19. IF Trick(s.cur) \/ Fast(s.speed) THEN SameSound(t, s) ELSE SoundOn(t, s)
  BY <1>1, <1>3, <1>13, <1>15 DEF VideoOn, Became, SameSound, SoundOn
<1>. QED
  BY <1>14, <1>16, <1>17, <1>18, <1>19 DEF n

(* dvr_playback_stop leaves no stream, at normal speed.                    *)
LEMMA StopAllOf ==
  ASSUME NEW s \in Players
  PROVE  LET t == StopAll(s) IN
         /\ t \in Players /\ t.cur = CmdStop
         /\ t.cmdState = "STOP" /\ t.state = "STOP"
         /\ ~t.hasV /\ ~t.video /\ ~t.vPaused /\ t.fast = "X1"
         /\ SoundOff(t, s)
<1>. DEFINE x == [s EXCEPT !.fast = "X1"]
            g == ResumeBoth(x)
            v == StopVideo(g)
            n == [v EXCEPT !.hasV = FALSE, !.pauseNext = s.pauseNext]
            off == StopAd(StopAudio(n))
            t == To(Command(off, CmdStop), "STOP")
<1>1. "X1" \in AllSpeeds /\ "STOP" \in States /\ CmdStop \in SUBSET Bits
  BY DEF AllSpeeds, States, CmdStop, Bits, AVRestart, VRestart, ARestart
<1>2. x \in Players /\ SameSound(x, s) /\ x.fast = "X1"
  BY <1>1 DEF Players, SameSound
<1>. HIDE DEF x
<1>3. BothGo(g, x)
  BY <1>2, ResumeBothOf
<1>. HIDE DEF g
<1>4. VideoOff(v, g)
  BY <1>3, StopVideoOf DEF BothGo
<1>. HIDE DEF v
<1>5. s.pauseNext \in BOOLEAN
  BY DEF Players
<1>6. /\ n \in Players /\ SameSound(n, v) /\ n.fast = v.fast
      /\ ~n.hasV /\ n.video = v.video /\ n.vPaused = v.vPaused
  BY <1>4, <1>5 DEF VideoOff, Players, SameSound
<1>. HIDE DEF n
<1>7. off \in Players /\ SameVideo(off, n) /\ SoundOff(off, n)
  BY <1>6, StopSoundOf
<1>. HIDE DEF off
<1>8. /\ t \in Players /\ SameVideo(t, off) /\ SameSound(t, off)
      /\ t.cur = CmdStop /\ t.cmdState = "STOP" /\ t.state = "STOP"
  BY <1>1, <1>7, CommandToOf
<1>9. t = StopAll(s)
  BY DEF StopAll, x, g, v, n, off
<1>. HIDE DEF t
<1>10. ~t.hasV /\ ~t.video /\ ~t.vPaused /\ t.fast = "X1"
  BY <1>2, <1>3, <1>4, <1>6, <1>7, <1>8 DEF BothGo, VideoOff, SameVideo
<1>11. SameSound(n, s)
  BY <1>2, <1>3, <1>4, <1>6 DEF BothGo, VideoOff, SameSound
<1>12. SoundOff(t, s)
  BY <1>7, <1>8, <1>11 DEF SameSound, SoundOff
<1>. QED
  BY <1>8, <1>9, <1>10, <1>12

(* dvr_playback_seek starts the video again, and the sound at X1.          *)
LEMMA SoughtOf ==
  ASSUME TrickTypeOK, NEW s \in Players, s.state # "STOP", s.cmdState = s.state
  PROVE  LET t == Sought(s) IN
         /\ t \in Players /\ t.cmdState = s.state /\ t.state = s.state
         /\ t.speed = s.speed /\ t.live = s.live /\ t.fffb = s.fffb
         /\ t.cur = IF \/ s.state = "PAUSE" \/ Trick(s.cur)
                       \/ Moving(s.speed) \/ s.speed = "X2"
                    THEN s.cur ELSE {"SEEK"}
         /\ t.hasV /\ t.video /\ ~t.vPaused
         /\ t.pauseNext <=> \/ s.pauseNext \/ s.cur = {"PAUSE"}
                            \/ s.state = "PAUSE" \/ Moving(s.speed)
         /\ t.fast = IF Kernel(s.speed) THEN s.speed ELSE s.fast
         /\ t.audio = (IF s.speed = "X1" /\ pids.audio # 0 THEN pids.audio
                       ELSE IF s.hasA THEN 0 ELSE s.audio)
         /\ t.hasA <=> s.speed = "X1" /\ pids.audio # 0
         /\ t.hasAd <=> s.speed = "X1" /\ pids.ad # 0
         /\ t.ad <=> (s.ad /\ ~s.hasAd) \/ (s.speed = "X1" /\ pids.ad # 0)
<1>. DEFINE off == StopAd(StopAudio(StopVideo(s)))
            u == StartVideo(off)
            b == \/ u.pauseNext \/ s.cur = {"PAUSE"}
                 \/ s.state = "PAUSE" \/ Moving(s.speed)
            k == IF Kernel(s.speed) THEN s.speed ELSE u.fast
            v == [u EXCEPT !.pauseNext = b, !.fast = k]
            x == When(s.speed = "X1", StartSound(v), v)
            t == Sought(s)
<1>1. /\ off \in Players /\ SameMode(off, s) /\ SoundOff(off, s)
      /\ off.pauseNext = s.pauseNext /\ off.fast = s.fast
  BY StopStreamsOf
<1>2. t = SeekCmd(x) /\ VideoOn(u, off)
  BY <1>1, StartVideoOf DEF Sought
<1>3. b \in BOOLEAN
  OBVIOUS
<1>. HIDE DEF off, u, b
<1>4. k \in AllSpeeds
  BY <1>2 DEF VideoOn, Players
<1>. HIDE DEF k
<1>5. v \in Players /\ SameMode(v, u) /\ SameSound(v, u)
  <2>1. u \in Players
    BY <1>2 DEF VideoOn
  <2>2. v \in Players
    BY <2>1, <1>3, <1>4 DEF Players
  <2>3. SameMode(v, u) /\ SameSound(v, u)
    BY <2>1 DEF Players, SameMode, SameSound
  <2>. QED
    BY <2>2, <2>3
<1>6. v.hasV = u.hasV /\ v.video = u.video /\ v.vPaused = u.vPaused
  BY <1>2 DEF VideoOn, Players
<1>7. v.pauseNext = b /\ v.fast = k
  BY <1>2 DEF VideoOn, Players
<1>. HIDE DEF v
<1>8. LET w == StartSound(v) IN
      w \in Players /\ SameMode(w, v) /\ SameVideo(w, v) /\ SoundOn(w, v)
  BY <1>5, StartSoundOf
<1>9. /\ x \in Players /\ SameMode(x, v) /\ SameVideo(x, v)
      /\ IF s.speed = "X1" THEN SoundOn(x, v) ELSE SameSound(x, v)
  BY <1>5, <1>8 DEF When, SameMode, SameVideo, SameSound
<1>. HIDE DEF x, t
<1>10. SameMode(x, s)
  BY <1>1, <1>2, <1>5, <1>9 DEF VideoOn, SameMode
<1>11. /\ x.hasV /\ x.video /\ ~x.vPaused
       /\ x.pauseNext <=> \/ s.pauseNext \/ s.cur = {"PAUSE"}
                          \/ s.state = "PAUSE" \/ Moving(s.speed)
       /\ x.fast = IF Kernel(s.speed) THEN s.speed ELSE s.fast
  <2>1. x.hasV /\ x.video /\ ~x.vPaused
    BY <1>2, <1>6, <1>9 DEF VideoOn, SameVideo
  <2>2. x.pauseNext = b /\ x.fast = k /\ u.pauseNext = s.pauseNext /\ u.fast = s.fast
    BY <1>1, <1>2, <1>7, <1>9 DEF VideoOn, SameVideo
  <2>. QED
    BY <2>1, <2>2 DEF b, k
<1>12. SoundOff(v, s)
  BY <1>1, <1>2, <1>5 DEF VideoOn, SameSound, SoundOff
<1>13. /\ x.audio = (IF s.speed = "X1" /\ pids.audio # 0 THEN pids.audio
                     ELSE IF s.hasA THEN 0 ELSE s.audio)
       /\ x.hasA <=> s.speed = "X1" /\ pids.audio # 0
       /\ x.hasAd <=> s.speed = "X1" /\ pids.ad # 0
       /\ x.ad <=> (s.ad /\ ~s.hasAd) \/ (s.speed = "X1" /\ pids.ad # 0)
  BY <1>9, <1>12 DEF SoundOff, SoundOn, SameSound
<1>14. /\ t \in Players /\ SameVideo(t, x) /\ SameSound(t, x)
       /\ t.cmdState = s.state /\ t.state = s.state
       /\ t.speed = s.speed /\ t.live = s.live /\ t.fffb = s.fffb
       /\ t.cur = IF \/ s.state = "PAUSE" \/ Trick(s.cur)
                     \/ Moving(s.speed) \/ s.speed = "X2"
                  THEN s.cur ELSE {"SEEK"}
  <2>1. CASE s.state = "PAUSE"
    <3>1. t = [x EXCEPT !.cmdState = "PAUSE", !.seekPause = TRUE]
      BY <2>1, <1>2, <1>10 DEF SeekCmd, SameMode
    <3>2. t \in Players /\ SameVideo(t, x) /\ SameSound(t, x)
      BY <3>1, <1>9 DEF Players, States, SameVideo, SameSound
    <3>3. /\ t.cmdState = "PAUSE" /\ t.state = x.state /\ t.cur = x.cur
          /\ t.speed = x.speed /\ t.live = x.live /\ t.fffb = x.fffb
      BY <3>1, <1>9 DEF Players
    <3>. QED
      BY <2>1, <3>2, <3>3, <1>10 DEF SameMode
  <2>2. CASE s.state # "PAUSE" /\ (Trick(s.cur) \/ Moving(s.speed) \/ s.speed = "X2")
    <3>1. t = x
      BY <2>2, <1>2, <1>10 DEF SeekCmd, SameMode
    <3>. QED
      BY <2>2, <3>1, <1>9, <1>10 DEF SameMode, SameVideo, SameSound
  <2>3. CASE ~(\/ s.state = "PAUSE" \/ Trick(s.cur)
               \/ Moving(s.speed) \/ s.speed = "X2")
    <3>1. t = To(Command(x, {"SEEK"}), "START")
      BY <2>3, <1>2, <1>10 DEF SeekCmd, SameMode
    <3>2. {"SEEK"} \in SUBSET Bits /\ "START" \in States /\ s.state = "START"
      BY <2>3 DEF Bits, Players, States
    <3>3. /\ t \in Players /\ SameVideo(t, x) /\ SameSound(t, x)
          /\ t.cur = {"SEEK"} /\ t.cmdState = "START" /\ t.state = "START"
          /\ t.speed = x.speed /\ t.live = x.live /\ t.fffb = x.fffb
      BY <3>1, <3>2, <1>9, CommandToOf
    <3>. QED
      BY <2>3, <3>2, <3>3, <1>10 DEF SameMode
  <2>. QED
    BY <2>1, <2>2, <2>3
<1>15. /\ t.hasV /\ t.video /\ ~t.vPaused
       /\ t.pauseNext <=> \/ s.pauseNext \/ s.cur = {"PAUSE"}
                          \/ s.state = "PAUSE" \/ Moving(s.speed)
       /\ t.fast = IF Kernel(s.speed) THEN s.speed ELSE s.fast
  BY <1>11, <1>14 DEF SameVideo
<1>16. /\ t.audio = (IF s.speed = "X1" /\ pids.audio # 0 THEN pids.audio
                     ELSE IF s.hasA THEN 0 ELSE s.audio)
       /\ t.hasA <=> s.speed = "X1" /\ pids.audio # 0
       /\ t.hasAd <=> s.speed = "X1" /\ pids.ad # 0
       /\ t.ad <=> (s.ad /\ ~s.hasAd) \/ (s.speed = "X1" /\ pids.ad # 0)
  BY <1>13, <1>14 DEF SameSound
<1>. QED
  BY <1>14, <1>15, <1>16 DEF t

(* _do_handle_pid_update of the main audio, and of its description.        *)
LEMMA AudioUpdateOf ==
  ASSUME TrickTypeOK, NEW s \in Players, NEW n \in [audio : AudioPids, ad : AdPids]
  PROVE  LET t == AudioUpdate(s, n) IN
         /\ t \in Players /\ SameMode(t, s) /\ SameVideo(t, s)
         /\ IF n.audio = pids.audio THEN t = s
            ELSE /\ t.audio = (IF s.speed = "X1" /\ n.audio # 0 THEN n.audio
                               ELSE IF pids.audio # 0 /\ s.hasA THEN 0 ELSE s.audio)
                 /\ t.hasA <=> \/ s.speed = "X1" /\ n.audio # 0
                               \/ pids.audio = 0 /\ s.hasA
                 /\ t.hasAd = s.hasAd
                 /\ t.ad <=> s.ad \/ (s.speed = "X1" /\ n.audio # 0 /\ n.ad # 0)
<1>1. CASE n.audio = pids.audio
  BY <1>1 DEF AudioUpdate, SameMode, SameVideo
<1>2. CASE n.audio # pids.audio
  <2>. DEFINE off == When(pids.audio # 0, StopAudio(s), s)
              d == When(n.ad # 0, [off EXCEPT !.ad = TRUE], off)
              t == AudioUpdate(s, n)
  <2>1. AudioOff(StopAudio(s), s)
    BY StopAudioOf
  <2>2. /\ off \in Players /\ SameMode(off, s) /\ SameVideo(off, s)
        /\ off.hasAd = s.hasAd /\ off.ad = s.ad
        /\ off.hasA <=> pids.audio = 0 /\ s.hasA
        /\ off.audio = IF pids.audio # 0 /\ s.hasA THEN 0 ELSE s.audio
    BY <2>1 DEF AudioOff, When, SameMode, SameVideo
  <2>3. t = IF n.audio = 0 \/ s.speed # "X1" THEN off ELSE StartAudio(d, n.audio)
    BY <1>2 DEF AudioUpdate
  <2>. HIDE DEF off, t
  <2>4. d \in Players /\ SameMode(d, off) /\ SameVideo(d, off)
    <3>1. CASE n.ad # 0
      BY <3>1, <2>2 DEF When, Players, SameMode, SameVideo
    <3>2. CASE n.ad = 0
      BY <3>2, <2>2 DEF When, SameMode, SameVideo
    <3>. QED  BY <3>1, <3>2
  <2>5. /\ d.hasA = off.hasA /\ d.audio = off.audio /\ d.hasAd = off.hasAd
        /\ d.ad <=> off.ad \/ n.ad # 0
    BY <2>2 DEF When, Players
  <2>. HIDE DEF d
  <2>6. AudioOn(StartAudio(d, n.audio), d, n.audio)
    BY <2>4, StartAudioOf
  <2>7. t \in Players /\ SameMode(t, s) /\ SameVideo(t, s)
    BY <2>2, <2>3, <2>4, <2>6 DEF AudioOn, SameMode, SameVideo
  <2>8. CASE n.audio = 0 \/ s.speed # "X1"
    BY <2>2, <2>3, <2>7, <2>8, <1>2 DEF t
  <2>9. CASE ~(n.audio = 0 \/ s.speed # "X1")
    <3>1. AudioOn(t, d, n.audio)
      BY <2>3, <2>6, <2>9
    <3>2. t.audio = n.audio /\ t.hasA /\ t.hasAd = s.hasAd
      BY <3>1, <2>2, <2>5, <2>9 DEF AudioOn
    <3>3. t.ad <=> s.ad \/ n.ad # 0
      BY <3>1, <2>2, <2>5 DEF AudioOn
    <3>. QED
      BY <3>2, <3>3, <2>7, <2>9, <1>2 DEF t
  <2>. QED
    BY <2>8, <2>9
<1>. QED
  BY <1>1, <1>2

(* ... of the description: nothing, if it does not change.                 *)
LEMMA AdUpdateOf ==
  ASSUME TrickTypeOK, NEW s \in Players, NEW n \in [audio : AudioPids, ad : AdPids]
  PROVE  LET t == AdUpdate(s, n) IN
         /\ t \in Players /\ SameMode(t, s) /\ SameVideo(t, s)
         /\ s.hasA \/ s.audio = 0 => t.hasA \/ t.audio = 0
         /\ n.ad = pids.ad => t = s
<1>1. CASE n.ad = pids.ad
  BY <1>1 DEF AdUpdate, SameMode, SameVideo
<1>2. CASE n.ad # pids.ad
  <2>. DEFINE off == When(pids.ad # 0, [s EXCEPT !.ad = FALSE], s)
              audio == IF n.ad = 0 THEN pids.audio ELSE n.audio
              on == When(n.ad # 0, [off EXCEPT !.hasA = TRUE, !.ad = TRUE], off)
              x == StartAudio(on, audio)
              t == AdUpdate(s, n)
  <2>1. t \in {off, on, x}
    BY <1>2 DEF AdUpdate
  <2>2. off \in Players
    <3>1. CASE pids.ad # 0
      BY <3>1 DEF When, Players
    <3>2. CASE pids.ad = 0
      BY <3>2 DEF When
    <3>. QED  BY <3>1, <3>2
  <2>3. /\ SameMode(off, s) /\ SameVideo(off, s)
        /\ off.hasA = s.hasA /\ off.audio = s.audio
    BY DEF When, Players, SameMode, SameVideo
  <2>. HIDE DEF off, t
  <2>4. on \in Players
    <3>1. CASE n.ad # 0
      BY <3>1, <2>2 DEF When, Players
    <3>2. CASE n.ad = 0
      BY <3>2, <2>2 DEF When
    <3>. QED  BY <3>1, <3>2
  <2>5. /\ SameMode(on, off) /\ SameVideo(on, off) /\ on.audio = off.audio
        /\ off.hasA => on.hasA
    BY <2>2 DEF When, Players, SameMode, SameVideo
  <2>. HIDE DEF on
  <2>6. audio \in AudioPids
    BY DEF TrickTypeOK
  <2>7. AudioOn(x, on, audio)
    BY <2>4, <2>6, StartAudioOf
  <2>. HIDE DEF x, audio
  <2>8. t \in Players /\ SameMode(t, s) /\ SameVideo(t, s)
    BY <2>1, <2>2, <2>3, <2>4, <2>5, <2>7 DEF AudioOn, SameMode, SameVideo
  <2>9. s.hasA \/ s.audio = 0 => t.hasA \/ t.audio = 0
    BY <2>1, <2>3, <2>5, <2>7 DEF AudioOn
  <2>. QED
    BY <1>2, <2>8, <2>9 DEF t
<1>. QED
  BY <1>1, <1>2

(* Either update leaves the mode and the video, and a pid only to has_audio. *)
LEMMA UpdatesKeep ==
  ASSUME TrickTypeOK, NEW s \in Players, NEW n \in [audio : AudioPids, ad : AdPids],
         s.hasA \/ s.audio = 0,
         NEW t \in {s, AdUpdate(s, n), AudioUpdate(s, n)}
  PROVE  /\ t \in Players /\ SameMode(t, s) /\ SameVideo(t, s)
         /\ t.hasA \/ t.audio = 0
<1>1. CASE t = s
  BY <1>1 DEF SameMode, SameVideo
<1>2. CASE t = AdUpdate(s, n)
  BY <1>2, AdUpdateOf
<1>3. CASE t = AudioUpdate(s, n)
  <2>1. /\ t \in Players /\ SameMode(t, s) /\ SameVideo(t, s)
        /\ IF n.audio = pids.audio THEN t = s
           ELSE /\ t.audio = (IF s.speed = "X1" /\ n.audio # 0 THEN n.audio
                              ELSE IF pids.audio # 0 /\ s.hasA THEN 0 ELSE s.audio)
                /\ t.hasA <=> \/ s.speed = "X1" /\ n.audio # 0
                              \/ pids.audio = 0 /\ s.hasA
    BY <1>3, AudioUpdateOf
  <2>2. t.hasA \/ t.audio = 0
    BY <2>1
  <2>. QED
    BY <2>1, <2>2
<1>. QED
  BY <1>1, <1>2, <1>3

(* What an assignment of the speed, or of the command, leaves.             *)
SpeedIs(t, s, v) ==
  /\ t \in Players /\ SameVideo(t, s) /\ SameSound(t, s)
  /\ t.cur = s.cur /\ t.cmdState = s.cmdState /\ t.state = s.state
  /\ t.speed = v /\ t.live = s.live /\ ~t.fffb
CurSet(t, s, c) ==
  /\ t \in Players /\ SameVideo(t, s) /\ SameSound(t, s)
  /\ t.cur = c /\ t.cmdState = s.cmdState /\ t.state = s.state
  /\ t.speed = s.speed /\ t.live = s.live /\ t.fffb = s.fffb

(* set_speed's two assignments, of speed and of fffb_play.                 *)
LEMMA SpeedIsOf ==
  ASSUME NEW s \in Players, NEW v \in AllSpeeds
  PROVE  SpeedIs([SetTo(s, v) EXCEPT !.fffb = FALSE], s, v)
<1>. DEFINE t == [SetTo(s, v) EXCEPT !.fffb = FALSE]
<1>1. t \in Players
  BY DEF SetTo, Players
<1>2. SameVideo(t, s) /\ SameSound(t, s)
  BY DEF SetTo, Players, SameVideo, SameSound
<1>3. /\ t.cur = s.cur /\ t.cmdState = s.cmdState /\ t.state = s.state
      /\ t.speed = v /\ t.live = s.live /\ ~t.fffb
  BY DEF SetTo, Players
<1>. QED
  BY <1>1, <1>2, <1>3 DEF SpeedIs

(* An assignment of cmd.cur_cmd alone.                                     *)
LEMMA CurSetOf ==
  ASSUME NEW s \in Players, NEW c \in SUBSET Bits
  PROVE  CurSet([s EXCEPT !.cur = c], s, c)
<1>. DEFINE t == [s EXCEPT !.cur = c]
<1>1. t \in Players
  BY DEF Players
<1>2. SameVideo(t, s) /\ SameSound(t, s)
  BY DEF Players, SameVideo, SameSound
<1>3. /\ t.cur = c /\ t.cmdState = s.cmdState /\ t.state = s.state
      /\ t.speed = s.speed /\ t.live = s.live /\ t.fffb = s.fffb
  BY DEF Players
<1>. QED
  BY <1>1, <1>2, <1>3 DEF CurSet

(* A speed that is set notes the last command.                             *)
LEMMA NotedOf ==
  ASSUME NEW s \in Players
  PROVE  LET t == Noted(s) IN
         t \in Players /\ SameMode(t, s) /\ SameVideo(t, s) /\ SameSound(t, s)
<1>. DEFINE x == [s EXCEPT !.last = s.cur]
<1>1. s.cur \in SUBSET Bits
  BY DEF Players
<1>2. x \in Players
  BY <1>1 DEF Players
<1>3. SameMode(x, s) /\ SameVideo(x, s) /\ SameSound(x, s)
  BY DEF Players, SameMode, SameVideo, SameSound
<1>4. SameMode(s, s) /\ SameVideo(s, s) /\ SameSound(s, s)
  BY DEF SameMode, SameVideo, SameSound
<1>. QED
  BY <1>2, <1>3, <1>4 DEF Noted, When

(* From one speed of the decoder to another the sound stops; in pause its  *)
(* start is noted.                                                         *)
KernelSped(t, s, v) ==
  /\ t \in Players /\ t.cmdState = s.cmdState /\ t.state = s.state
  /\ t.live = s.live
  /\ t.hasV = s.hasV /\ t.video = s.video /\ t.vPaused = s.vPaused
  /\ t.pauseNext = s.pauseNext /\ t.fast = v
  /\ t.cur = IF v = "X1" THEN {"Astart"} ELSE s.cur
  /\ IF v # "X1"
     THEN /\ ~t.hasA /\ t.audio = (IF s.hasA THEN 0 ELSE s.audio)
          /\ t.hasAd = s.hasAd /\ t.ad = s.ad
     ELSE SameSound(t, s)

(* ... which is what KernelSpeed of the model computes.                    *)
LEMMA KernelSpeedOf ==
  ASSUME TrickTypeOK, NEW s \in Players, NEW v \in AllSpeeds
  PROVE  KernelSped(KernelSpeed(s, v), s, v)
<1>1. CASE v # "X1"
  <2>. DEFINE off == StopAudio(s)
              t == [off EXCEPT !.fast = v]
  <2>1. AudioOff(off, s)
    BY StopAudioOf
  <2>2. t = KernelSpeed(s, v)
    BY <1>1 DEF KernelSpeed
  <2>. HIDE DEF off
  <2>3. t \in Players /\ SameMode(t, off) /\ SameSound(t, off)
    BY <2>1 DEF AudioOff, Players, SameMode, SameSound
  <2>4. /\ t.hasV = off.hasV /\ t.video = off.video /\ t.vPaused = off.vPaused
        /\ t.pauseNext = off.pauseNext /\ t.fast = v
    BY <2>1 DEF AudioOff, Players
  <2>. HIDE DEF t
  <2>5. /\ t.cmdState = s.cmdState /\ t.state = s.state /\ t.live = s.live
        /\ t.cur = s.cur
    BY <2>1, <2>3 DEF AudioOff, SameMode
  <2>6. /\ t.hasV = s.hasV /\ t.video = s.video /\ t.vPaused = s.vPaused
        /\ t.pauseNext = s.pauseNext /\ t.fast = v
    BY <2>1, <2>4 DEF AudioOff, SameVideo
  <2>7. /\ ~t.hasA /\ t.audio = (IF s.hasA THEN 0 ELSE s.audio)
        /\ t.hasAd = s.hasAd /\ t.ad = s.ad
    BY <2>1, <2>3 DEF AudioOff, SameSound
  <2>. QED
    BY <1>1, <2>2, <2>3, <2>5, <2>6, <2>7 DEF KernelSped
<1>2. CASE v = "X1"
  <2>. DEFINE c == {"Astart"}
              t == [s EXCEPT !.fast = "X1", !.cur = c]
  <2>1. c \in SUBSET Bits
    BY DEF Bits, AVRestart, ARestart
  <2>2. t = KernelSpeed(s, v)
    BY <1>2 DEF KernelSpeed
  <2>. HIDE DEF c
  <2>3. t \in Players
    BY <2>1, <1>2 DEF Players
  <2>4. t.cmdState = s.cmdState /\ t.state = s.state /\ t.live = s.live /\ t.cur = c
    BY DEF Players
  <2>5. /\ t.hasV = s.hasV /\ t.video = s.video /\ t.vPaused = s.vPaused
        /\ t.pauseNext = s.pauseNext /\ t.fast = "X1"
    BY DEF Players
  <2>6. SameSound(t, s)
    BY DEF Players, SameSound
  <2>. HIDE DEF t
  <2>7. KernelSped(t, s, v)
    BY <1>2, <2>3, <2>4, <2>5, <2>6 DEF KernelSped, c
  <2>. QED
    BY <2>2, <2>7
<1>. QED
  BY <1>1, <1>2

(* A trick speed sets its command, the speed and fffb_play.                *)
LEMMA TrickSet ==
  ASSUME NEW s \in Players, NEW v \in AllSpeeds, ~Kernel(v)
  PROVE  LET t == OtherSpeed(s, v) IN
         /\ t \in Players /\ SameVideo(t, s) /\ SameSound(t, s)
         /\ t.cur = (IF v = "FB" THEN {"FB"} ELSE {"FF"})
         /\ t.cmdState = s.cmdState /\ t.state = s.state
         /\ t.speed = v /\ t.live = s.live /\ t.fffb
<1>. DEFINE c == IF v = "FB" THEN {"FB"} ELSE {"FF"}
            t == [[s EXCEPT !.cur = c, !.fffb = TRUE] EXCEPT !.speed = v]
<1>1. v # "X1" /\ c \in SUBSET Bits
  BY DEF Kernel, Bits
<1>2. t = OtherSpeed(s, v)
  BY <1>1 DEF OtherSpeed, SetTo, When
<1>. HIDE DEF c
<1>3. t \in Players
  BY <1>1 DEF Players
<1>4. SameVideo(t, s) /\ SameSound(t, s)
  BY DEF Players, SameVideo, SameSound
<1>5. /\ t.cur = c /\ t.cmdState = s.cmdState /\ t.state = s.state
      /\ t.speed = v /\ t.live = s.live /\ t.fffb
  BY DEF Players
<1>. HIDE DEF t
<1>. QED
  BY <1>2, <1>3, <1>4, <1>5 DEF c

(* The player ends a hold as it is: Held.                                  *)
LEMMA HoldOf ==
  ASSUME NEW s \in Players
  PROVE  LET t == Held(s) IN
         /\ t \in Players /\ SameMode(t, s) /\ SameSound(t, s)
         /\ t.hasV = s.hasV /\ t.video = s.video /\ t.fast = s.fast
         /\ t.vPaused = s.video /\ ~t.pauseNext
<1>. DEFINE b == s.audio # 0
            t == [s EXCEPT !.first = FALSE, !.pauseNext = FALSE,
                           !.vPaused = s.video, !.aPaused = b]
<1>1. b \in BOOLEAN /\ s.video \in BOOLEAN
  BY DEF Players
<1>2. t = Held(s)
  BY DEF Held
<1>. HIDE DEF b
<1>3. t \in Players
  BY <1>1 DEF Players
<1>4. SameMode(t, s) /\ SameSound(t, s)
  BY DEF Players, SameMode, SameSound
<1>5. /\ t.hasV = s.hasV /\ t.video = s.video /\ t.fast = s.fast
      /\ t.vPaused = s.video /\ ~t.pauseNext
  BY DEF Players
<1>. QED
  BY <1>2, <1>3, <1>4, <1>5

(* The variables of the calls have their types.                            *)
CallsOK ==
  /\ call \in Sections /\ asked \in [audio : AudioPids, ad : AdPids]
  /\ calls \in 0 .. MaxCall /\ odd \in BOOLEAN /\ cut \in BOOLEAN

(* A call is counted, and what it was is remembered.                       *)
LEMMA CalledOf ==
  ASSUME TrickTypeOK, NEW b, Called(b), call' \in Sections,
         asked' \in [audio : AudioPids, ad : AdPids]
  PROVE  /\ CallsOK' /\ call = "none"
         /\ Regular' => Regular /\ ~b
         /\ ~cut' => ~cut
<1>1. calls' \in 0 .. MaxCall
  BY TrickAssumption DEF TrickTypeOK, Called
<1>2. odd' \in BOOLEAN /\ (~odd' => ~odd /\ ~b) /\ cut' = cut /\ call = "none"
  BY DEF Called
<1>. QED
  BY <1>1, <1>2 DEF TrickTypeOK, CallsOK, Regular

(* A call that goes on is as regular as it was.                            *)
LEMMA GoesOnOf ==
  ASSUME TrickTypeOK, NEW from, NEW to \in Sections, GoesOn(from, to),
         UNCHANGED asked
  PROVE  /\ CallsOK' /\ call = from /\ call' = to
         /\ Regular' => Regular
         /\ ~cut' => ~cut
  BY DEF TrickTypeOK, GoesOn, CallsOK, Regular

(* The thread pauses: not in a gap of a call, or it is remembered.         *)
LEMMA PausesOf ==
  ASSUME TrickTypeOK, Pauses
  PROVE  /\ CallsOK' /\ call' = call /\ asked' = asked
         /\ Regular' => Regular /\ call \notin Gaps
         /\ ~cut' => ~cut /\ call \notin Gaps
  BY DEF TrickTypeOK, Pauses, CallsOK, Regular

(* A call that has only read something, without the lock.                  *)
LEMMA ReadKeeps ==
  ASSUME TrickIInv, UNCHANGED <<p, pids, threadVars>>, p.state # "STOP",
         call = "none", call' \in {"pause", "resume", "other", "live", "ad"},
         CallsOK', ~cut' => ~cut, call' = "live" => p.state = "START",
         Regular' => Regular /\ CallInv'
  PROVE  TrickIInv'
<1>1. TrickTypeOK'
  BY DEF TrickIInv, TrickTypeOK, CallsOK, threadVars
<1>2. AlwaysInv'
  BY DEF TrickIInv, AlwaysInv, threadVars
<1>3. Regular' => RegularInv'
  <2>1. SUFFICES ASSUME Regular' PROVE RegularInv'
    OBVIOUS
  <2>2. SoundFlags /\ MovingInv /\ KernelInv /\ CallInv'
    BY <2>1 DEF TrickIInv, RegularInv
  <2>3. SoundFlags' /\ MovingInv'
    BY <2>2 DEF SoundFlags, MovingInv, threadVars
  <2>4. (Sounds' <=> Sounds) /\ Wanted' = Wanted
    BY DEF Sounds, Wanted
  <2>5. KernelInv'
    BY <2>2, <2>4 DEF KernelInv
  <2>. QED
    BY <2>2, <2>3, <2>5 DEF RegularInv
<1>. QED
  BY <1>1, <1>2, <1>3 DEF TrickIInv

(* dvr_playback_pause and dvr_playback_resume, up to the lock.             *)
LEMMA ReadStepsKeep ==
  ASSUME TrickIInv, Pause \/ Resume
  PROVE  TrickIInv'
<1>1. TrickTypeOK /\ asked \in [audio : AudioPids, ad : AdPids]
  BY DEF TrickIInv, TrickTypeOK
<1>2. CASE Pause
  <2>1. /\ CallsOK' /\ call = "none" /\ (Regular' => Regular) /\ (~cut' => ~cut)
        /\ call' = "pause" /\ p.state = "START" /\ UNCHANGED <<p, pids, threadVars>>
    BY <1>1, <1>2, CalledOf DEF Pause, Sections
  <2>2. CallInv'
    BY <2>1 DEF CallInv
  <2>. QED
    BY <2>1, <2>2, ReadKeeps
<1>3. CASE Resume
  <2>1. /\ p.state # "STOP" /\ (p.state = "PAUSE" \/ p.live)
        /\ UNCHANGED <<p, pids, threadVars>> /\ asked' = asked
        /\ call' = IF p.cur = {"PAUSE"} THEN "resume"
                   ELSE IF p.state = "PAUSE" THEN "other" ELSE "live"
    BY <1>3 DEF Resume
  <2>2. call' \in Sections /\ call' \in {"resume", "other", "live"}
    BY <2>1 DEF Sections
  <2>3. CallsOK' /\ call = "none" /\ (Regular' => Regular) /\ (~cut' => ~cut)
    BY <1>1, <1>3, <2>1, <2>2, CalledOf DEF Resume
  <2>4. p \in Players /\ p.state \in States
    BY <1>1 DEF TrickTypeOK, Players
  <2>5. call' = "live" => p.state = "START"
    BY <2>1, <2>4 DEF States
  <2>6. Regular' => CallInv'
    <3>1. SUFFICES ASSUME Regular' PROVE CallInv'
      OBVIOUS
    <3>2. MovingInv /\ KernelInv
      BY <3>1, <2>3 DEF TrickIInv, RegularInv
    <3>3. Kernel(p.speed) \/ Moving(p.speed)
      BY <2>4 DEF Players, AllSpeeds, Kernel, Moving
    <3>4. {"PAUSE"} \notin {{"Astart"}, CmdStart, {"RESUME"}, {"SEEK"}, {"FB"}, {"FF"}}
      BY DEF CmdStart
    <3>5. p.cur = {"PAUSE"} => p.state # "START"
      BY <3>2, <3>3, <3>4 DEF MovingInv, KernelInv
    <3>6. p.cur = {"PAUSE"} => p.state = "PAUSE"
      BY <3>5, <2>1, <2>4 DEF States
    <3>. QED
      BY <3>6, <2>1 DEF CallInv
  <2>. QED
    BY <2>1, <2>2, <2>3, <2>5, <2>6, ReadKeeps
<1>. QED
  BY <1>2, <1>3

(* dvr_playback_start. *)
LEMMA StartKeeps ==
  ASSUME TrickIInv, NEW live \in BOOLEAN, Start(live)
  PROVE  TrickIInv'
<1>1. /\ p' = Started(p, live) /\ loop' = "top" /\ p.state = "STOP"
      /\ UNCHANGED <<pids, spot, due, call, asked>>
  BY DEF Start, TrickIInv, AlwaysInv, Sane
<1>2. p \in Players /\ TrickTypeOK
  BY DEF TrickIInv, TrickTypeOK
<1>3. /\ p' \in Players /\ p'.cmdState = "START" /\ p'.state = "START"
      /\ p'.hasV /\ p'.video /\ ~p'.vPaused /\ (p'.live <=> live)
      /\ p'.pauseNext <=> live \/ Trick(p.cur)
      /\ p'.speed = p.speed /\ p'.fffb = p.fffb
      /\ p'.cur = IF Trick(p.cur) THEN p.cur ELSE CmdStart
      /\ p'.fast = IF ~Trick(p.cur) /\ Fast(p.speed) THEN p.speed ELSE p.fast
      /\ IF Trick(p.cur) \/ Fast(p.speed) THEN SameSound(p', p) ELSE SoundOn(p', p)
  BY <1>1, <1>2, StartedOf
<1>4. NoStreams(p)
  BY <1>1 DEF TrickIInv, AlwaysInv, Sane
<1>5. /\ CallsOK' /\ call' = "none"
      /\ Regular' => Regular /\ ~Trick(p.cur) /\ ~Moving(p.speed)
  <2>1. call' \in Sections /\ asked' \in [audio : AudioPids, ad : AdPids]
    BY <1>1, <1>2 DEF TrickTypeOK
  <2>. QED
    BY <1>1, <1>2, <2>1, CalledOf DEF Start
<1>6. TrickTypeOK'
  BY <1>1, <1>2, <1>3, <1>5 DEF TrickTypeOK, CallsOK, Loops
<1>7. AlwaysInv'
  <2>1. "Vstop" \notin p'.cur
    BY <1>3 DEF Trick, CmdStart
  <2>2. p'.hasA \/ p'.audio = 0
    BY <1>3, <1>4 DEF NoStreams, SameSound, SoundOn
  <2>. QED
    BY <1>1, <1>3, <1>5, <2>1, <2>2 DEF AlwaysInv, Sane, Streams, HoldsInPause
<1>8. Regular' => RegularInv'
  <2>1. SUFFICES ASSUME Regular' PROVE RegularInv'
    OBVIOUS
  <2>2. Regular /\ ~Trick(p.cur) /\ ~Moving(p.speed) /\ RegularInv
    BY <2>1, <1>5 DEF TrickIInv
  <2>3. ~p.ad /\ ~p.hasA /\ p.audio = 0 /\ ~p.hasAd /\ p.fast = "X1"
    BY <2>2, <1>1, <1>4 DEF RegularInv, SoundFlags, MovingInv, NoStreams
  <2>4. SoundFlags'
    BY <2>2, <2>3, <1>3 DEF SoundFlags, SameSound, SoundOn
  <2>5. MovingInv'
    BY <2>2, <1>1, <1>3 DEF MovingInv
  <2>6. KernelInv'
    <3>1. p'.speed # "X1" /\ Kernel(p'.speed) => Fast(p.speed)
      BY <1>3 DEF Kernel, Fast
    <3>2. ~Fast("X1")
      BY DEF Fast
    <3>3. Kernel(p'.speed) => p'.fast = p'.speed
      BY <3>1, <3>2, <2>2, <2>3, <1>3
    <3>4. p'.speed # "X1" /\ Kernel(p'.speed) => p'.audio = 0
      BY <3>1, <2>3, <1>3 DEF SameSound
    <3>5. p'.speed = "X1" => p'.audio = pids.audio /\ (pids.ad # 0 => p'.ad)
      BY <3>2, <2>2, <2>3, <1>3 DEF SoundOn
    <3>6. (Sounds' <=> p'.speed = "X1") /\ Wanted' = pids.audio
      BY <1>1, <1>5 DEF Sounds, Wanted
    <3>. QED
      BY <3>3, <3>4, <3>5, <3>6, <2>2, <1>1, <1>3, <1>5 DEF KernelInv
  <2>7. CallInv'
    BY <1>5 DEF CallInv
  <2>. QED
    BY <2>4, <2>5, <2>6, <2>7 DEF RegularInv
<1>. QED
  BY <1>6, <1>7, <1>8 DEF TrickIInv

(* dvr_playback_start of a player that plays.                              *)
LEMMA StartAgainKeeps ==
  ASSUME TrickIInv, StartAgain
  PROVE  TrickIInv'
<1>. DEFINE b == p.pauseNext /\ ~p.live
<1>1. /\ p' = [p EXCEPT !.first = FALSE, !.live = FALSE, !.pauseNext = b]
      /\ UNCHANGED <<pids, spot, due, loop, call, asked>> /\ p.cmdState = "START"
  BY DEF StartAgain, threadVars
<1>2. p \in Players /\ TrickTypeOK /\ Streams(p) /\ p.state = "START"
  BY <1>1 DEF TrickIInv, TrickTypeOK, AlwaysInv, Sane
<1>3. b \in BOOLEAN
  OBVIOUS
<1>4. (b <=> p.pauseNext /\ ~p.live)
  OBVIOUS
<1>. HIDE DEF b
<1>5. p' \in Players
  BY <1>1, <1>2, <1>3 DEF Players
<1>6. /\ p'.cur = p.cur /\ p'.cmdState = p.cmdState /\ p'.state = p.state
      /\ p'.speed = p.speed /\ ~p'.live /\ p'.fffb = p.fffb
      /\ SameSound(p', p)
  BY <1>1, <1>2 DEF Players, SameSound
<1>7. /\ p'.hasV = p.hasV /\ p'.video = p.video /\ p'.vPaused = p.vPaused
      /\ p'.pauseNext = b /\ p'.fast = p.fast
  BY <1>1, <1>2 DEF Players
<1>8. CallsOK' /\ call' = "none" /\ call = "none" /\ (Regular' => Regular)
  <2>1. call' \in Sections /\ asked' \in [audio : AudioPids, ad : AdPids]
    BY <1>1, <1>2 DEF TrickTypeOK
  <2>. QED
    BY <1>1, <1>2, <2>1, CalledOf DEF StartAgain
<1>9. TrickTypeOK'
  BY <1>1, <1>2, <1>5, <1>8 DEF TrickTypeOK, CallsOK
<1>10. AlwaysInv'
  <2>1. Streams(p')
    BY <1>2, <1>6, <1>7 DEF Streams, SameSound
  <2>. QED
    BY <2>1, <1>1, <1>2, <1>6, <1>8 DEF TrickIInv, AlwaysInv, Sane, HoldsInPause
<1>11. Regular' => RegularInv'
  <2>1. SUFFICES ASSUME Regular' PROVE RegularInv'
    OBVIOUS
  <2>2. SoundFlags /\ MovingInv /\ KernelInv
    BY <2>1, <1>8 DEF TrickIInv, RegularInv
  <2>3. SoundFlags'
    BY <2>2, <1>6 DEF SoundFlags, SameSound
  <2>4. MovingInv'
    BY <2>2, <1>1, <1>6 DEF MovingInv, SameSound
  <2>5. (Sounds' <=> Sounds) /\ Wanted' = Wanted
    BY <1>1, <1>6 DEF Sounds, Wanted
  <2>6. Kernel(p.speed) => ~p'.pauseNext
    BY <2>2, <1>2, <1>4, <1>7 DEF KernelInv
  <2>7. KernelInv'
    BY <2>2, <2>5, <2>6, <1>1, <1>2, <1>6, <1>7 DEF KernelInv, SameSound
  <2>8. CallInv'
    BY <1>8 DEF CallInv
  <2>. QED
    BY <2>3, <2>4, <2>7, <2>8 DEF RegularInv
<1>. QED
  BY <1>9, <1>10, <1>11 DEF TrickIInv

(* dvr_playback_stop. *)
LEMMA StopKeeps ==
  ASSUME TrickIInv, Stop
  PROVE  TrickIInv'
<1>1. p' = StopAll(p) /\ loop' = "none" /\ UNCHANGED <<pids, spot, due, call, asked>>
  BY DEF Stop
<1>2. p \in Players /\ TrickTypeOK
  BY DEF TrickIInv, TrickTypeOK
<1>3. /\ p' \in Players /\ p'.cur = CmdStop
      /\ p'.cmdState = "STOP" /\ p'.state = "STOP"
      /\ ~p'.hasV /\ ~p'.video /\ ~p'.vPaused /\ p'.fast = "X1"
      /\ SoundOff(p', p)
  BY <1>1, <1>2, StopAllOf
<1>4. CallsOK' /\ call' = "none" /\ (Regular' => Regular)
  <2>1. call' \in Sections /\ asked' \in [audio : AudioPids, ad : AdPids]
    BY <1>1, <1>2 DEF TrickTypeOK
  <2>. QED
    BY <1>1, <1>2, <2>1, CalledOf DEF Stop
<1>5. TrickTypeOK'
  BY <1>1, <1>2, <1>3, <1>4 DEF TrickTypeOK, CallsOK, Loops
<1>6. AlwaysInv'
  <2>1. Streams(p)
    BY DEF Stop, TrickIInv, AlwaysInv, Sane
  <2>2. ~p'.hasA /\ p'.audio = 0
    BY <2>1, <1>3 DEF Streams, SoundOff
  <2>. QED
    BY <2>2, <1>1, <1>3, <1>4 DEF AlwaysInv, Sane, NoStreams, HoldsInPause
<1>7. Regular' => RegularInv'
  <2>1. SUFFICES ASSUME Regular' PROVE RegularInv'
    OBVIOUS
  <2>2. SoundFlags
    BY <2>1, <1>4 DEF TrickIInv, RegularInv
  <2>3. SoundFlags' /\ ~p'.ad
    BY <2>2, <1>3 DEF SoundFlags, SoundOff
  <2>4. CallInv'
    BY <1>4 DEF CallInv
  <2>. QED
    BY <2>3, <2>4, <1>1, <1>3 DEF RegularInv, MovingInv, KernelInv
<1>. QED
  BY <1>5, <1>6, <1>7 DEF TrickIInv

(* A pause of a player that plays or is in pause, by a call or by the      *)
(* thread: not in a gap of a call, and the sound stopped at the beginning. *)
LEMMA PauseKeeps ==
  ASSUME TrickIInv, p.state # "STOP", UNCHANGED <<pids, asked, spot, due>>,
         \/ p' = Paused(p)
         \/ p' = [Paused(p) EXCEPT !.fffb = FALSE] /\ loop = "atBegin",
         loop' = loop \/ (loop \in {"atBegin", "atEnd"} /\ loop' = "top"),
         CallsOK', call' = call \/ (call = "pause" /\ call' = "none"),
         Regular' => Regular /\ call \notin Gaps,
         ~cut' => ~cut /\ call \notin Gaps
  PROVE  TrickIInv'
<1>1. p \in Players /\ TrickTypeOK /\ Streams(p) /\ loop # "none"
  BY DEF TrickIInv, TrickTypeOK, AlwaysInv, Sane
<1>2. /\ p' \in Players /\ SameSound(p', p)
      /\ p'.cur = (IF Trick(p.cur) THEN p.cur ELSE {"PAUSE"})
      /\ p'.cmdState = "PAUSE" /\ p'.state = "PAUSE"
      /\ p'.speed = p.speed /\ p'.live = p.live
      /\ p'.hasV /\ p'.video /\ p'.fast = p.fast /\ p'.vPaused
      /\ loop # "atBegin" => p'.fffb = p.fffb
  <2>. DEFINE t == Paused(p)
              x == [t EXCEPT !.fffb = FALSE]
  <2>1. /\ t \in Players /\ SameSound(t, p)
        /\ t.cur = IF Trick(p.cur) THEN p.cur ELSE {"PAUSE"}
        /\ t.cmdState = "PAUSE" /\ t.state = "PAUSE"
        /\ t.speed = p.speed /\ t.live = p.live /\ t.fffb = p.fffb
        /\ t.hasV = p.hasV /\ t.video = p.video /\ t.fast = p.fast
        /\ t.vPaused <=> p.vPaused \/ p.hasV
    BY <1>1, PausedOf
  <2>. HIDE DEF t
  <2>2. x \in Players /\ SameSound(x, t)
    BY <2>1 DEF Players, SameSound
  <2>3. /\ x.cur = t.cur /\ x.cmdState = t.cmdState /\ x.state = t.state
        /\ x.speed = t.speed /\ x.live = t.live
        /\ x.hasV = t.hasV /\ x.video = t.video /\ x.fast = t.fast
        /\ x.vPaused = t.vPaused
    BY <2>1 DEF Players
  <2>4. p' = t \/ (p' = x /\ loop = "atBegin")
    BY DEF t
  <2>. HIDE DEF x
  <2>5. CASE p' = t
    BY <2>1, <2>5, <1>1 DEF Streams
  <2>6. CASE p' = x /\ loop = "atBegin"
    <3>1. SameSound(x, p)
      BY <2>1, <2>2 DEF SameSound
    <3>2. p.hasV /\ p.video
      BY <1>1 DEF Streams
    <3>3. /\ x.cur = (IF Trick(p.cur) THEN p.cur ELSE {"PAUSE"})
          /\ x.cmdState = "PAUSE" /\ x.state = "PAUSE"
          /\ x.speed = p.speed /\ x.live = p.live
      BY <2>1, <2>3
    <3>4. x.hasV /\ x.video /\ x.fast = p.fast /\ x.vPaused
      BY <2>1, <2>3, <3>2
    <3>. QED
      BY <2>2, <2>6, <3>1, <3>3, <3>4
  <2>. QED
    BY <2>4, <2>5, <2>6
<1>3. TrickTypeOK'
  BY <1>1, <1>2 DEF TrickTypeOK, CallsOK, Loops
<1>4. AlwaysInv'
  <2>1. "Vstop" \in p'.cur => AVRestart \subseteq p'.cur
    BY <1>1, <1>2 DEF Streams
  <2>2. p'.hasA \/ p'.audio = 0
    BY <1>1, <1>2 DEF Streams, SameSound
  <2>3. loop' # "none" /\ (~cut' => call' # "live")
    BY <1>1 DEF Gaps
  <2>. QED
    BY <2>1, <2>2, <2>3, <1>2 DEF AlwaysInv, Sane, Streams, HoldsInPause
<1>5. Regular' => RegularInv'
  <2>1. SUFFICES ASSUME Regular' PROVE RegularInv'
    OBVIOUS
  <2>2. SoundFlags /\ MovingInv /\ KernelInv /\ CallInv /\ call \notin Gaps
    BY <2>1 DEF TrickIInv, RegularInv
  <2>3. SoundFlags'
    BY <2>2, <1>2 DEF SoundFlags, SameSound
  <2>4. /\ Moving(p.speed) => Trick(p.cur)
        /\ Kernel(p.speed) => ~Trick(p.cur)
    <3>1. Moving(p.speed) => Trick(p.cur)
      BY <2>2 DEF MovingInv, Trick
    <3>2. p.state \in {"START", "PAUSE"}
      BY <1>1 DEF Players, States
    <3>3. Kernel(p.speed) =>
            p.cur \in {{"Astart"}, CmdStart, {"RESUME"}, {"SEEK"}, {"PAUSE"}}
      BY <2>2, <3>2 DEF KernelInv
    <3>. QED
      BY <3>1, <3>3 DEF Trick, CmdStart
  <2>5. MovingInv'
    <3>1. loop' \in {"fffb", "begin", "atBegin"} => Moving(p'.speed)
      BY <2>2, <1>2 DEF MovingInv
    <3>2. Moving(p.speed) /\ p'.audio # 0 =>
            p'.fffb /\ due' /\ loop' \notin {"begin", "atBegin"}
      BY <2>2, <1>2 DEF MovingInv, SameSound
    <3>. QED
      BY <3>1, <3>2, <2>2, <2>4, <1>2 DEF MovingInv
  <2>6. KernelInv'
    <3>1. (Sounds' <=> Sounds) /\ Wanted' = Wanted
      BY <1>2 DEF Sounds, Wanted
    <3>2. Kernel(p.speed) => p.audio \in {0, Wanted} /\ (~Sounds => p.audio = 0)
      <4>1. p.state \in {"START", "PAUSE"}
        BY <1>1 DEF Players, States
      <4>. QED
        BY <4>1, <2>2 DEF KernelInv
    <3>3. Kernel(p.speed) =>
            p.fast = IF call \in {"audioStart", "speed"} THEN "X1" ELSE p.speed
      BY <2>2 DEF KernelInv
    <3>. QED
      BY <3>1, <3>2, <3>3, <2>4, <1>2 DEF KernelInv, SameSound
  <2>7. CallInv'
    <3>1. call' \notin {"other", "live", "audioStart", "ad", "audio"}
      BY <2>2 DEF Gaps
    <3>2. ~Trick({"PAUSE"})
      BY DEF Trick
    <3>. QED
      BY <3>1, <3>2, <2>2, <1>2 DEF CallInv
  <2>. QED
    BY <2>3, <2>5, <2>6, <2>7 DEF RegularInv
<1>. QED
  BY <1>3, <1>4, <1>5 DEF TrickIInv

(* dvr_playback_pause, with the lock, of a call or the thread.             *)
LEMMA PauseStepsKeep ==
  ASSUME TrickIInv, PauseLocked \/ BeginPause \/ EndPause
  PROVE  TrickIInv'
<1>1. TrickTypeOK /\ (call # "none" \/ loop # "none" => p.state # "STOP")
  BY DEF TrickIInv, AlwaysInv
<1>2. CASE PauseLocked
  <2>1. /\ CallsOK' /\ call = "pause" /\ call' = "none"
        /\ (Regular' => Regular) /\ (~cut' => ~cut)
        /\ UNCHANGED <<pids, asked, spot, due, loop>> /\ p' = Paused(p)
    BY <1>1, <1>2, GoesOnOf DEF PauseLocked, Sections, threadVars
  <2>2. "pause" \notin Gaps
    BY DEF Gaps
  <2>. QED
    BY <1>1, <2>1, <2>2, PauseKeeps
<1>3. CASE BeginPause
  BY <1>1, <1>3, PausesOf, PauseKeeps DEF BeginPause
<1>4. CASE EndPause
  BY <1>1, <1>4, PausesOf, PauseKeeps DEF EndPause
<1>. QED
  BY <1>2, <1>3, <1>4

(* What a step of a call that keeps the mode leaves of the invariant.      *)
LEMMA SaneOfKept ==
  ASSUME TrickIInv, p.state # "STOP", Kept(p', p), UNCHANGED loop,
         ~cut' => HoldsInPause(p') /\ call' # "live"
  PROVE  AlwaysInv'
<1>1. p'.state # "STOP" /\ loop' # "none"
  BY DEF TrickIInv, AlwaysInv, Kept
<1>. QED
  BY <1>1 DEF AlwaysInv, Sane, Kept

(* dvr_playback_resume, and dvr_playback_start of a player in pause.       *)
LEMMA ResumeStepKeeps ==
  ASSUME TrickIInv, ResumeLocked
  PROVE  TrickIInv'
<1>1. /\ UNCHANGED <<pids, spot, due, loop, asked>>
      /\ call \in {"resume", "other", "live"}
      /\ call = "resume" => p' = Resumed(p)
      /\ call = "other" => p' = ResumedOther(p)
      /\ call = "live" => p' = ResumedLive(p)
  BY DEF ResumeLocked, GoesOn, threadVars
<1>2. /\ p \in Players /\ TrickTypeOK /\ Streams(p) /\ p.cmdState = p.state
      /\ p.state # "STOP"
  BY <1>1 DEF TrickIInv, TrickTypeOK, AlwaysInv, Sane
<1>3. /\ Kept(p', p)
      /\ call # "live" => p'.state = "START"
      /\ call = "live" => p'.state = p.state
  <2>1. CASE call = "resume"
    <3>1. p' = Resumed(p)
      BY <2>1, <1>1
    <3>2. Kept(p', p) /\ p'.state = "START"
      BY <3>1, <1>2, ResumeKeeps, ResumedOf
    <3>. QED
      BY <2>1, <3>2
  <2>2. CASE call = "other"
    BY <2>2, <1>1, <1>2, ResumedOtherKeeps
  <2>3. CASE call = "live"
    <3>1. p' = ResumedLive(p)
      BY <2>3, <1>1
    <3>2. Kept(p', p) /\ p'.state = p.state
      BY <3>1, <1>2, ResumeKeeps, ResumedLiveOf
    <3>. QED
      BY <2>3, <3>2
  <2>. QED
    BY <2>1, <2>2, <2>3, <1>1
<1>4. CallsOK' /\ call' = "none" /\ (Regular' => Regular) /\ (~cut' => ~cut)
  <2>1. "none" \in Sections
    BY DEF Sections
  <2>2. CASE GoesOn("resume", "none")
    BY <1>1, <1>2, <2>1, <2>2, GoesOnOf
  <2>3. CASE GoesOn("other", "none")
    BY <1>1, <1>2, <2>1, <2>3, GoesOnOf
  <2>4. CASE GoesOn("live", "none")
    BY <1>1, <1>2, <2>1, <2>4, GoesOnOf
  <2>. QED
    BY <2>2, <2>3, <2>4 DEF ResumeLocked
<1>5. TrickTypeOK'
  BY <1>1, <1>2, <1>3, <1>4 DEF TrickTypeOK, CallsOK, Kept
<1>6. AlwaysInv'
  <2>1. ~cut' => p'.state = "START"
    BY <1>3, <1>4 DEF TrickIInv, AlwaysInv
  <2>. QED
    BY <2>1, <1>1, <1>2, <1>3, <1>4, SaneOfKept DEF HoldsInPause
<1>7. Regular' => RegularInv'
  <2>1. SUFFICES ASSUME Regular' PROVE RegularInv'
    OBVIOUS
  <2>2. SoundFlags /\ MovingInv /\ KernelInv /\ CallInv
    BY <2>1, <1>4 DEF TrickIInv, RegularInv
  <2>3. p.hasV /\ p.speed \in AllSpeeds
    BY <1>2 DEF Streams, Players
  <2>4. Kernel(p.speed) \/ Moving(p.speed)
    BY <2>3 DEF AllSpeeds, Kernel, Moving
  <2>5. ~(Kernel(p.speed) /\ Moving(p.speed)) /\ Kernel("X1")
    BY DEF Kernel, Moving
  <2>6. (Sounds <=> p.speed = "X1") /\ Wanted = pids.audio
    BY <1>1 DEF Sounds, Wanted
  <2>7. (Sounds' <=> p'.speed = "X1") /\ Wanted' = pids.audio
    BY <1>1, <1>4 DEF Sounds, Wanted
  <2>8. CallInv'
    BY <1>4 DEF CallInv
  <2>9. Kernel(p.speed) => p.fast = p.speed /\ (p.speed # "X1" => p.audio = 0)
    BY <2>2, <2>6, <1>1, <1>2 DEF KernelInv
  <2>10. CASE call = "resume"
    <3>1. p' = Resumed(p) /\ p.cur = {"PAUSE"} /\ p.state = "PAUSE"
      BY <2>2, <2>10, <1>1 DEF CallInv
    <3>2. /\ p' \in Players /\ Running(p', p) /\ p'.live = p.live
          /\ p'.cur = {"RESUME"} /\ p'.cmdState = "START" /\ p'.state = "START"
          /\ IF p.speed # "X1" THEN SameSound(p', p)
             ELSE /\ p'.hasA <=> p.hasA \/ pids.audio # 0
                  /\ p'.audio = (IF p.hasA \/ pids.audio = 0 THEN p.audio
                                 ELSE pids.audio)
                  /\ p'.hasAd <=> p.hasAd \/ pids.ad # 0
                  /\ p'.ad <=> p.ad \/ (~p.hasAd /\ pids.ad # 0)
      BY <3>1, <1>2, ResumedOf
    <3>3. Kernel(p.speed)
      <4>1. ~Moving(p.speed)
        BY <2>2, <3>1 DEF MovingInv
      <4>. QED
        BY <4>1, <2>4
    <3>4. p.audio \in {0, pids.audio} /\ p.fast = p.speed
      BY <3>1, <3>3, <2>2, <2>6, <2>9 DEF KernelInv
    <3>5. SoundFlags'
      BY <3>2, <3>4, <2>2 DEF SoundFlags, SameSound
    <3>6. MovingInv'
      BY <3>2, <3>3, <2>2, <2>5, <1>1 DEF MovingInv, Running
    <3>7. p.speed = "X1" => p'.audio = pids.audio /\ (pids.ad # 0 => p'.ad)
      BY <3>2, <3>4, <2>2 DEF SoundFlags
    <3>8. p.speed # "X1" => p'.audio = 0
      BY <3>2, <3>3, <2>9 DEF SameSound
    <3>9. KernelInv'
      BY <3>2, <3>4, <3>7, <3>8, <2>3, <2>7, <1>1, <1>4 DEF KernelInv, Running
    <3>. QED
      BY <3>5, <3>6, <3>9, <2>8 DEF RegularInv
  <2>11. CASE call = "other" /\ p.speed # "X1"
    <3>1. p' = ResumedOther(p) /\ p.cur # {"PAUSE"} /\ p.state = "PAUSE"
      BY <2>2, <2>11, <1>1 DEF CallInv
    <3>2. /\ Running(p', p) /\ SameSound(p', p) /\ p'.cur = p.cur /\ p'.live = p.live
          /\ p'.state = "START"
      BY <3>1, <2>11, <1>2, ResumedOtherSilent, ResumedOtherKeeps
    <3>3. SoundFlags'
      BY <3>2, <2>2 DEF SoundFlags, SameSound
    <3>4. MovingInv'
      BY <3>1, <3>2, <2>2, <1>1 DEF MovingInv, Running, SameSound
    <3>5. Kernel(p.speed) => p.cur = {"Astart"}
      BY <2>2, <3>1 DEF KernelInv
    <3>6. p'.speed = p.speed /\ p'.fast = p.fast /\ ~p'.vPaused /\ ~p'.pauseNext
      BY <3>2, <2>3 DEF Running
    <3>7. KernelInv'
      BY <3>2, <3>5, <3>6, <2>7, <2>9, <2>11, <1>4 DEF KernelInv, SameSound
    <3>. QED
      BY <3>3, <3>4, <3>7, <2>8 DEF RegularInv
  <2>12. CASE call = "other" /\ p.speed = "X1"
    <3>1. p' = ResumedOther(p) /\ p.cur # {"PAUSE"} /\ p.state = "PAUSE"
      BY <2>2, <2>12, <1>1 DEF CallInv
    <3>2. /\ p.cur = {"Astart"} /\ p.fast = "X1" /\ p.audio \in {0, pids.audio}
      BY <3>1, <2>2, <2>5, <2>6, <2>9, <2>12 DEF KernelInv
    <3>3. /\ ~p'.vPaused /\ ~p'.pauseNext /\ p'.speed = "X1" /\ p'.live = p.live
          /\ p'.hasA <=> (pids.audio # 0 \/ p.hasA)
          /\ p'.audio = IF pids.audio # 0 THEN pids.audio ELSE p.audio
          /\ p'.hasAd <=> p.hasAd \/ pids.ad # 0
          /\ p'.ad <=> p.ad \/ pids.ad # 0
          /\ p'.cur = {"Astart"} /\ p'.fast = "X1"
      BY <3>1, <3>2, <2>3, <2>12, <1>2, ResumedOtherX1
    <3>4. p'.state = "START"
      BY <3>1, <1>2, ResumedOtherKeeps
    <3>5. SoundFlags'
      BY <3>2, <3>3, <2>2 DEF SoundFlags
    <3>6. MovingInv'
      BY <3>3, <3>4, <2>2, <2>5, <2>12, <1>1 DEF MovingInv
    <3>7. p'.audio = pids.audio /\ (pids.ad # 0 => p'.ad)
      BY <3>2, <3>3
    <3>8. KernelInv'
      BY <3>3, <3>4, <3>7, <2>7, <1>1, <1>4 DEF KernelInv
    <3>. QED
      BY <3>5, <3>6, <3>8, <2>8 DEF RegularInv
  <2>13. CASE call = "live"
    <3>1. p' = ResumedLive(p) /\ p.live /\ p.state = "START"
      <4>1. ~cut
        BY <2>1, <1>4 DEF Regular
      <4>. QED
        BY <4>1, <2>2, <2>13, <1>1 DEF CallInv, TrickIInv, AlwaysInv
    <3>2. /\ Running(p', p) /\ SameSound(p', p)
          /\ p'.cur = p.cur /\ p'.state = p.state
          /\ ~p'.live /\ ~p'.pauseNext
      BY <3>1, <1>2, ResumedLiveOf
    <3>3. ~Moving(p.speed) /\ Kernel(p.speed)
      BY <3>1, <2>2, <2>4 DEF MovingInv
    <3>4. SoundFlags'
      BY <3>2, <2>2 DEF SoundFlags, SameSound
    <3>5. MovingInv'
      BY <3>1, <3>2, <3>3, <2>2, <1>1 DEF MovingInv, Running
    <3>6. /\ p.cur \in {{"Astart"}, CmdStart, {"RESUME"}, {"SEEK"}}
          /\ p.speed = "X1" => p.audio = pids.audio /\ (pids.ad # 0 => p.ad)
      BY <3>1, <3>3, <2>2, <2>6 DEF KernelInv
    <3>7. p'.speed = p.speed /\ p'.fast = p.fast /\ ~p'.vPaused
      BY <3>2, <2>3 DEF Running
    <3>8. KernelInv'
      BY <3>1, <3>2, <3>3, <3>6, <3>7, <2>7, <2>9, <1>1, <1>4
         DEF KernelInv, SameSound
    <3>. QED
      BY <3>4, <3>5, <3>8, <2>8 DEF RegularInv
  <2>. QED
    BY <2>10, <2>11, <2>12, <2>13, <1>1
<1>. QED
  BY <1>5, <1>6, <1>7 DEF TrickIInv

(* dvr_playback_seek. *)
LEMMA SeekKeeps ==
  ASSUME TrickIInv, NEW to \in 0 .. MaxPlace, Seek(to)
  PROVE  TrickIInv'
<1>1. /\ p' = Sought(p) /\ UNCHANGED <<pids, loop, call, asked>> /\ due' = TRUE
      /\ spot' = to /\ p.state # "STOP"
  BY DEF Seek
<1>2. p \in Players /\ TrickTypeOK /\ Streams(p) /\ p.cmdState = p.state
  BY <1>1 DEF TrickIInv, TrickTypeOK, AlwaysInv, Sane
<1>3. /\ p' \in Players /\ p'.cmdState = p.state /\ p'.state = p.state
      /\ p'.speed = p.speed /\ p'.live = p.live /\ p'.fffb = p.fffb
      /\ p'.cur = (IF \/ p.state = "PAUSE" \/ Trick(p.cur)
                      \/ Moving(p.speed) \/ p.speed = "X2"
                   THEN p.cur ELSE {"SEEK"})
      /\ p'.hasV /\ p'.video /\ ~p'.vPaused
      /\ p'.pauseNext <=> \/ p.pauseNext \/ p.cur = {"PAUSE"}
                          \/ p.state = "PAUSE" \/ Moving(p.speed)
      /\ p'.fast = (IF Kernel(p.speed) THEN p.speed ELSE p.fast)
      /\ p'.audio = (IF p.speed = "X1" /\ pids.audio # 0 THEN pids.audio
                     ELSE IF p.hasA THEN 0 ELSE p.audio)
      /\ p'.hasA <=> p.speed = "X1" /\ pids.audio # 0
      /\ p'.hasAd <=> p.speed = "X1" /\ pids.ad # 0
      /\ p'.ad <=> (p.ad /\ ~p.hasAd) \/ (p.speed = "X1" /\ pids.ad # 0)
  BY <1>1, <1>2, SoughtOf
<1>4. /\ CallsOK' /\ call = "none" /\ call' = "none"
      /\ (Regular' => Regular) /\ (~cut' => ~cut)
  <2>1. call' \in Sections /\ asked' \in [audio : AudioPids, ad : AdPids]
    BY <1>1, <1>2 DEF TrickTypeOK
  <2>. QED
    BY <1>1, <1>2, <2>1, CalledOf DEF Seek
<1>5. TrickTypeOK'
  BY <1>1, <1>2, <1>3, <1>4 DEF TrickTypeOK, CallsOK
<1>6. p'.audio = IF p.speed = "X1" THEN pids.audio ELSE 0
  BY <1>2, <1>3 DEF Streams
<1>7. AlwaysInv'
  <2>1. Streams(p')
    <3>1. "Vstop" \in p'.cur => AVRestart \subseteq p'.cur
      BY <1>2, <1>3 DEF Streams
    <3>. QED
      BY <3>1, <1>3, <1>6 DEF Streams
  <2>2. loop' # "none"
    BY <1>1 DEF TrickIInv, AlwaysInv
  <2>. QED
    BY <2>1, <2>2, <1>1, <1>3, <1>4 DEF AlwaysInv, Sane, HoldsInPause
<1>8. Regular' => RegularInv'
  <2>1. SUFFICES ASSUME Regular' PROVE RegularInv'
    OBVIOUS
  <2>2. SoundFlags /\ MovingInv /\ KernelInv
    BY <2>1, <1>4 DEF TrickIInv, RegularInv
  <2>3. ~(Kernel(p.speed) /\ Moving(p.speed)) /\ ~Moving("X1")
    BY DEF Kernel, Moving
  <2>4. SoundFlags'
    BY <1>3, <2>2 DEF SoundFlags
  <2>5. MovingInv'
    BY <1>1, <1>3, <1>6, <2>2, <2>3 DEF MovingInv
  <2>6. KernelInv'
    <3>1. SUFFICES ASSUME Kernel(p.speed) PROVE KernelInv'
      BY <1>3 DEF KernelInv
    <3>2. p'.fast = p'.speed /\ (p'.speed # "X1" => p'.audio = 0)
      BY <3>1, <1>3, <1>6
    <3>3. p.state = "START" =>
            /\ p'.cur \in {{"Astart"}, CmdStart, {"RESUME"}, {"SEEK"}}
            /\ ~p'.vPaused /\ (p'.pauseNext => p'.live)
      <4>1. {"PAUSE"} \notin {{"Astart"}, CmdStart, {"RESUME"}, {"SEEK"}}
        BY DEF CmdStart
      <4>2. p.state = "START" =>
              /\ p.cur \in {{"Astart"}, CmdStart, {"RESUME"}, {"SEEK"}}
              /\ (p.pauseNext => p.live)
        BY <3>1, <2>2, <1>1 DEF KernelInv
      <4>. QED
        BY <4>1, <4>2, <3>1, <2>3, <1>3
    <3>4. p'.speed = "X1" => p'.audio = pids.audio /\ (pids.ad # 0 => p'.ad)
      BY <1>3, <1>6
    <3>5. p.state = "PAUSE" =>
            p'.cur \in {{"PAUSE"}, {"Astart"}} /\ p'.audio \in {0, pids.audio}
      BY <3>1, <2>2, <1>3, <1>6 DEF KernelInv
    <3>6. (Sounds' <=> p'.speed = "X1") /\ Wanted' = pids.audio
      BY <1>1, <1>4 DEF Sounds, Wanted
    <3>. QED
      BY <3>2, <3>3, <3>4, <3>5, <3>6, <1>1, <1>3, <1>4 DEF KernelInv
  <2>7. CallInv'
    BY <1>4 DEF CallInv
  <2>. QED
    BY <2>4, <2>5, <2>6, <2>7 DEF RegularInv
<1>. QED
  BY <1>5, <1>7, <1>8 DEF TrickIInv

(* The change of pids is asked for; in pause its commands are noted.       *)
LEMMA UpdatePidsKeeps ==
  ASSUME TrickIInv, NEW n \in [audio : AudioPids, ad : AdPids], UpdatePids(n)
  PROVE  TrickIInv'
<1>1. /\ n # pids /\ asked' = n /\ p.state # "STOP" /\ UNCHANGED threadVars
      /\ IF p.cmdState = "START" THEN call' = "ad" /\ UNCHANGED <<p, pids>>
         ELSE p' = NotedChange(p, n) /\ pids' = n /\ UNCHANGED call
  BY DEF UpdatePids
<1>2. /\ p \in Players /\ TrickTypeOK /\ Streams(p) /\ p.cmdState = p.state
      /\ p.state \in {"START", "PAUSE"} /\ (~cut => HoldsInPause(p))
  BY <1>1 DEF TrickIInv, TrickTypeOK, AlwaysInv, Sane, Players, States
<1>3. /\ CallsOK' /\ call = "none" /\ (~cut' => ~cut)
      /\ Regular' => Regular /\ p.state # "PAUSE" /\ n.ad = pids.ad
  <2>1. call' \in Sections
    BY <1>1, <1>2 DEF TrickTypeOK, Sections
  <2>. QED
    BY <1>1, <1>2, <2>1, CalledOf DEF UpdatePids
<1>4. CASE p.cmdState = "START"
  <2>1. /\ call' = "ad" /\ UNCHANGED <<p, pids>> /\ p.state = "START"
    BY <1>1, <1>2, <1>4
  <2>2. Regular' => CallInv'
    BY <2>1, <1>1, <1>3 DEF CallInv
  <2>. QED
    BY <2>1, <2>2, <1>1, <1>3, ReadKeeps
<1>5. CASE p.cmdState # "START"
  <2>. DEFINE c == AudioNeed(n) \cup (IF p.last = {"PAUSE"} THEN p.cur ELSE {})
  <2>1. p' = [p EXCEPT !.cur = c, !.last = {"PAUSE"}] /\ pids' = n /\ call' = call
    BY <1>1, <1>5 DEF NotedChange
  <2>2. AudioNeed(n) \subseteq {"Astop", "Astart"}
    BY DEF AudioNeed, NeedOf, ARestart
  <2>3. p.cur \subseteq Bits /\ {"PAUSE"} \subseteq Bits
    BY <1>2 DEF Players, Bits
  <2>4. c \in SUBSET Bits
    BY <2>2, <2>3 DEF Bits, AVRestart, ARestart
  <2>5. "Vstop" \in c => AVRestart \subseteq c
    BY <2>2, <1>2 DEF Streams
  <2>. HIDE DEF c
  <2>6. p' \in Players
    BY <2>1, <2>3, <2>4, <1>2 DEF Players
  <2>7. SameVideo(p', p) /\ SameSound(p', p)
    BY <2>1, <1>2 DEF Players, SameVideo, SameSound
  <2>8. p'.cur = c /\ p'.cmdState = p.cmdState /\ p'.state = p.state
    BY <2>1, <1>2 DEF Players
  <2>9. Streams(p')
    BY <2>5, <2>7, <2>8, <1>2 DEF Streams, SameVideo, SameSound
  <2>10. Kept(p', p)
    BY <2>6, <2>8, <2>9, <1>2 DEF Kept
  <2>11. ~cut' => HoldsInPause(p') /\ call' # "live"
    BY <2>1, <2>7, <2>8, <1>2, <1>3 DEF HoldsInPause, SameVideo
  <2>12. TrickTypeOK'
    BY <2>1, <2>6, <1>1, <1>2, <1>3 DEF TrickTypeOK, CallsOK, threadVars
  <2>13. AlwaysInv'
    BY <2>10, <2>11, <1>1, SaneOfKept DEF threadVars
  <2>. QED
    BY <2>12, <2>13, <1>2, <1>3, <1>5 DEF TrickIInv
<1>. QED
  BY <1>4, <1>5

(* ... and each part of it is done, while the player plays.                *)
LEMMA UpdatesStepKeep ==
  ASSUME TrickIInv, UpdateAd \/ UpdateAudio
  PROVE  TrickIInv'
<1>1. /\ call \in {"ad", "audio"} /\ UNCHANGED <<pids, spot, due, loop, asked>>
      /\ p' \in {p, AdUpdate(p, asked), AudioUpdate(p, asked)}
  BY DEF UpdateAd, UpdateAudio, GoesOn, When, threadVars
<1>2. /\ p \in Players /\ TrickTypeOK /\ Streams(p) /\ p.cmdState = p.state
      /\ p.state # "STOP" /\ asked \in [audio : AudioPids, ad : AdPids]
      /\ (~cut => HoldsInPause(p))
  BY <1>1 DEF TrickIInv, TrickTypeOK, AlwaysInv, Sane
<1>3. /\ p' \in Players /\ SameMode(p', p) /\ SameVideo(p', p)
      /\ p'.hasA \/ p'.audio = 0
  <2>1. p.hasA \/ p.audio = 0
    BY <1>2 DEF Streams
  <2>. QED
    BY <2>1, <1>1, <1>2, UpdatesKeep
<1>4. /\ CallsOK' /\ (Regular' => Regular) /\ (~cut' => ~cut)
      /\ call' = IF call = "ad" THEN "audio" ELSE "store"
  <2>1. CASE UpdateAd
    BY <1>1, <1>2, <2>1, GoesOnOf DEF UpdateAd, Sections
  <2>2. CASE UpdateAudio
    BY <1>1, <1>2, <2>2, GoesOnOf DEF UpdateAudio, Sections
  <2>. QED
    BY <2>1, <2>2
<1>5. TrickTypeOK'
  BY <1>1, <1>2, <1>3, <1>4 DEF TrickTypeOK, CallsOK
<1>6. AlwaysInv'
  <2>1. Kept(p', p)
    BY <1>2, <1>3 DEF Kept, Streams, SameMode, SameVideo
  <2>2. ~cut' => HoldsInPause(p') /\ call' # "live"
    BY <1>2, <1>3, <1>4 DEF HoldsInPause, SameMode, SameVideo
  <2>. QED
    BY <2>1, <2>2, <1>1, <1>2, SaneOfKept
<1>7. Regular' => RegularInv'
  <2>1. SUFFICES ASSUME Regular' PROVE RegularInv'
    OBVIOUS
  <2>2. SoundFlags /\ MovingInv /\ KernelInv /\ CallInv
    BY <2>1, <1>4 DEF TrickIInv, RegularInv
  <2>3. p.state = "START" /\ p.cmdState = "START" /\ asked.ad = pids.ad
    BY <2>2, <1>1, <1>2 DEF CallInv
  <2>4. CallInv'
    BY <2>3, <1>1, <1>3, <1>4 DEF CallInv, SameMode
  <2>5. Wanted = pids.audio /\ (Sounds <=> p.speed = "X1")
    BY <1>1 DEF Wanted, Sounds
  <2>6. Sounds' <=> p.speed = "X1"
    BY <1>3, <1>4 DEF Sounds, SameMode
  <2>7. CASE UpdateAd
    <3>1. p' = p
      <4>1. AdUpdate(p, asked) = p
        BY <2>3, <1>2, AdUpdateOf
      <4>. QED
        BY <2>7, <4>1 DEF UpdateAd, When
    <3>2. call = "ad" /\ Wanted' = pids.audio
      BY <2>7, <1>1, <1>4 DEF UpdateAd, GoesOn, Wanted
    <3>3. SoundFlags' /\ MovingInv'
      BY <3>1, <2>2, <1>1 DEF SoundFlags, MovingInv
    <3>4. KernelInv'
      BY <3>1, <3>2, <2>2, <2>5, <2>6, <1>1, <1>4 DEF KernelInv
    <3>. QED
      BY <3>3, <3>4, <2>4 DEF RegularInv
  <2>8. CASE UpdateAudio
    <3>1. p' = AudioUpdate(p, asked) /\ call = "audio" /\ call' = "store"
      BY <2>3, <2>8 DEF UpdateAudio, When, GoesOn
    <3>2. /\ SameMode(p', p) /\ SameVideo(p', p)
          /\ IF asked.audio = pids.audio THEN p' = p
             ELSE /\ p'.audio = (IF p.speed = "X1" /\ asked.audio # 0 THEN asked.audio
                                 ELSE IF pids.audio # 0 /\ p.hasA THEN 0 ELSE p.audio)
                  /\ p'.hasA <=> \/ p.speed = "X1" /\ asked.audio # 0
                                 \/ pids.audio = 0 /\ p.hasA
                  /\ p'.hasAd = p.hasAd
                  /\ p'.ad <=> p.ad \/ (p.speed = "X1" /\ asked.audio # 0 /\ asked.ad # 0)
      BY <3>1, <1>2, AudioUpdateOf
    <3>3. Kernel("X1")
      BY DEF Kernel
    <3>4. p.speed = "X1" => p.audio = pids.audio /\ (pids.ad # 0 => p.ad)
      BY <2>2, <2>3, <2>5, <3>3 DEF KernelInv
    <3>5. SoundFlags'
      <4>1. CASE asked.audio = pids.audio
        BY <4>1, <3>2, <2>2 DEF SoundFlags
      <4>2. CASE asked.audio # pids.audio
        BY <4>2, <3>2, <3>4, <2>2, <2>3 DEF SoundFlags
      <4>. QED
        BY <4>1, <4>2
    <3>6. p'.audio # 0 /\ p.speed # "X1" => p.audio # 0
      BY <3>2
    <3>7. MovingInv'
      <4>1. Moving(p.speed) => p.speed # "X1"
        BY DEF Moving
      <4>. QED
        BY <4>1, <3>2, <3>6, <2>2, <2>3, <1>1 DEF MovingInv, SameMode
    <3>8. Wanted' = asked.audio
      BY <3>1, <1>1 DEF Wanted
    <3>9. p.speed = "X1" => p'.audio = asked.audio /\ (pids.ad # 0 => p'.ad)
      BY <3>2, <3>4, <1>2 DEF Streams
    <3>10. Kernel(p.speed) /\ p.speed # "X1" => p'.audio = 0
      BY <2>2, <2>3, <2>5, <3>6 DEF KernelInv
    <3>11. KernelInv'
      BY <2>2, <2>3, <2>6, <3>1, <3>2, <3>8, <3>9, <3>10, <1>1
         DEF KernelInv, SameMode, SameVideo
    <3>. QED
      BY <3>5, <3>7, <3>11, <2>4 DEF RegularInv
  <2>. QED
    BY <2>7, <2>8
<1>. QED
  BY <1>5, <1>6, <1>7 DEF TrickIInv

(* ... and the pids are stored.                                            *)
LEMMA UpdateStoreKeeps ==
  ASSUME TrickIInv, UpdateStore
  PROVE  TrickIInv'
<1>1. /\ call = "store" /\ call' = "none" /\ pids' = asked
      /\ UNCHANGED <<p, spot, due, loop, asked>>
  BY DEF UpdateStore, GoesOn, threadVars
<1>2. TrickTypeOK /\ asked \in [audio : AudioPids, ad : AdPids]
  BY DEF TrickIInv, TrickTypeOK
<1>3. CallsOK' /\ (Regular' => Regular) /\ (~cut' => ~cut)
  BY <1>1, <1>2, GoesOnOf DEF UpdateStore, Sections
<1>4. TrickTypeOK'
  BY <1>1, <1>2, <1>3 DEF TrickTypeOK, CallsOK
<1>5. AlwaysInv'
  BY <1>1, <1>3 DEF TrickIInv, AlwaysInv
<1>6. Regular' => RegularInv'
  <2>1. SUFFICES ASSUME Regular' PROVE RegularInv'
    OBVIOUS
  <2>2. SoundFlags /\ MovingInv /\ KernelInv /\ CallInv
    BY <2>1, <1>3 DEF TrickIInv, RegularInv
  <2>3. SoundFlags' /\ MovingInv' /\ CallInv'
    BY <2>2, <1>1 DEF SoundFlags, MovingInv, CallInv
  <2>4. Wanted' = Wanted /\ (Sounds' <=> Sounds) /\ pids'.ad = pids.ad
    BY <2>2, <1>1 DEF Wanted, Sounds, CallInv
  <2>5. KernelInv'
    BY <2>2, <2>4, <1>1 DEF KernelInv
  <2>. QED
    BY <2>3, <2>5 DEF RegularInv
<1>. QED
  BY <1>4, <1>5, <1>6 DEF TrickIInv

(* A kernel speed none of the cases is for: from a trick speed that has    *)
(* lost its command.                                                       *)
LEMMA OtherKernel ==
  ASSUME TrickTypeOK, NEW s \in Players, NEW v \in AllSpeeds, Kernel(v),
         Sane(s), s.state # "STOP"
  PROVE  LET t == OtherSpeed(s, v) IN
         /\ t \in Players /\ Sane(t) /\ t.state # "STOP"
         /\ HoldsInPause(s) => HoldsInPause(t)
<1>. DEFINE m == SetTo([s EXCEPT !.fffb = FALSE], v)
            c == [m EXCEPT !.cur = AVRestart]
            t == OtherSpeed(s, v)
<1>1. SpeedIs(m, s, v)
  <2>1. m \in Players
    BY DEF SetTo, Players
  <2>2. SameVideo(m, s) /\ SameSound(m, s)
    BY DEF SetTo, Players, SameVideo, SameSound
  <2>3. /\ m.cur = s.cur /\ m.cmdState = s.cmdState /\ m.state = s.state
        /\ m.speed = v /\ m.live = s.live /\ ~m.fffb
    BY DEF SetTo, Players
  <2>. QED
    BY <2>1, <2>2, <2>3 DEF SpeedIs
<1>2. t \in {Replay(m), c, m}
  BY DEF OtherSpeed, When
<1>. HIDE DEF m
<1>3. /\ m \in Players /\ Sane(m) /\ m.state # "STOP"
      /\ HoldsInPause(s) => HoldsInPause(m)
  BY <1>1 DEF SpeedIs, Sane, Streams, HoldsInPause, SameVideo, SameSound
<1>4. Replayed(Replay(m), m)
  BY <1>3, ReplayOf
<1>5. AVRestart \in SUBSET Bits
  BY DEF Bits
<1>6. CurSet(c, m, AVRestart)
  BY <1>3, <1>5, CurSetOf
<1>. HIDE DEF c, t
<1>7. CASE t = Replay(m)
  <2>1. Streams(t)
    <3>1. "Vstop" \notin t.cur
      BY <1>4, <1>7 DEF Replayed, CmdStart
    <3>2. t.hasA \/ t.audio = 0
      BY <1>3, <1>4, <1>7 DEF Replayed, Sane, Streams
    <3>. QED
      BY <3>1, <3>2, <1>4, <1>7 DEF Replayed, Streams
  <2>. QED
    BY <2>1, <1>4, <1>7 DEF Replayed, Sane, HoldsInPause, t
<1>8. CASE t = c
  <2>1. Streams(t)
    BY <1>3, <1>6, <1>8 DEF CurSet, Sane, Streams, SameVideo, SameSound
  <2>. QED
    BY <2>1, <1>3, <1>6, <1>8 DEF CurSet, Sane, HoldsInPause, SameVideo, t
<1>9. CASE t = m
  BY <1>3, <1>9 DEF t
<1>. QED
  BY <1>2, <1>7, <1>8, <1>9

(* dvr_playback_set_speed leaves a sound player, whatever its commands.    *)
LEMMA SpedKeeps ==
  ASSUME TrickTypeOK, NEW s \in Players, NEW v \in AllSpeeds, Sane(s)
  PROVE  LET t == Sped(s, v) IN
         /\ t \in Players /\ Sane(t) /\ (HoldsInPause(s) => HoldsInPause(t))
         /\ (t.state = "STOP") <=> (s.state = "STOP")
<1>. DEFINE t == Sped(s, v)
<1>1. CASE ~Kernel(v)
  <2>1. t = OtherSpeed(s, v)
    BY <1>1 DEF Sped
  <2>. HIDE DEF t
  <2>2. /\ t \in Players /\ SameVideo(t, s) /\ SameSound(t, s)
        /\ t.cur = (IF v = "FB" THEN {"FB"} ELSE {"FF"})
        /\ t.cmdState = s.cmdState /\ t.state = s.state
    BY <2>1, <1>1, TrickSet
  <2>3. "Vstop" \notin t.cur
    BY <2>2
  <2>4. IF s.state = "STOP" THEN NoStreams(t) ELSE Streams(t)
    BY <2>2, <2>3 DEF Sane, NoStreams, Streams, SameVideo, SameSound
  <2>. QED
    BY <2>2, <2>4 DEF Sane, HoldsInPause, SameVideo, t
<1>2. CASE Kernel(v) /\ s.state = "STOP"
  <2>1. SpeedIs(t, s, v)
    BY <1>2, SpeedIsOf DEF Sped
  <2>. HIDE DEF t
  <2>2. NoStreams(t)
    BY <2>1, <1>2 DEF SpeedIs, Sane, NoStreams, SameVideo, SameSound
  <2>. QED
    BY <2>1, <2>2, <1>2 DEF SpeedIs, Sane, HoldsInPause, t
<1>3. s.state # "STOP" =>
        s.state \in {"START", "PAUSE"} /\ s.cmdState = s.state /\ Streams(s)
  BY DEF Sane, Players, States
<1>4. CASE Kernel(v) /\ s.state # "STOP" /\ Kernel(s.speed)
  <2>. DEFINE k == KernelSpeed(s, v)
  <2>1. KernelSped(k, s, v)
    BY KernelSpeedOf
  <2>2. t = [SetTo(k, v) EXCEPT !.fffb = FALSE]
    BY <1>4 DEF Sped
  <2>. HIDE DEF k
  <2>3. SpeedIs(t, k, v)
    BY <2>1, <2>2, SpeedIsOf DEF KernelSped
  <2>. HIDE DEF t
  <2>4. k.hasA \/ k.audio = 0
    BY <2>1, <1>3, <1>4 DEF KernelSped, Streams, SameSound
  <2>5. "Vstop" \in k.cur => AVRestart \subseteq k.cur
    BY <2>1, <1>3, <1>4 DEF KernelSped, Streams
  <2>6. Streams(t)
    BY <2>1, <2>3, <2>4, <2>5, <1>3, <1>4
       DEF KernelSped, SpeedIs, Streams, SameVideo, SameSound
  <2>7. /\ t \in Players /\ t.cmdState = s.state /\ t.state = s.state
        /\ t.vPaused = s.vPaused /\ t.pauseNext = s.pauseNext
    BY <2>1, <2>3, <1>3, <1>4 DEF KernelSped, SpeedIs, SameVideo
  <2>. QED
    BY <2>6, <2>7, <1>3, <1>4 DEF Sane, HoldsInPause, t
<1>5. CASE Kernel(v) /\ s.state # "STOP" /\ ~Kernel(s.speed) /\ Trick(s.cur)
  <2>. DEFINE x == [SetTo(s, v) EXCEPT !.fffb = FALSE]
              c == [x EXCEPT !.cur = AVRestart]
  <2>1. SpeedIs(x, s, v)
    BY SpeedIsOf
  <2>2. t = IF s.state = "PAUSE" THEN ResumedOther(c) ELSE Replay(x)
    BY <1>5 DEF Sped
  <2>. HIDE DEF x, t
  <2>3. x \in Players /\ Streams(x) /\ x.state = s.state /\ x.cmdState = s.state
    BY <2>1, <1>3, <1>5 DEF SpeedIs, Streams, SameVideo, SameSound
  <2>4. CASE s.state = "PAUSE"
    <3>1. AVRestart \in SUBSET Bits
      BY DEF Bits
    <3>2. CurSet(c, x, AVRestart)
      BY <2>3, <3>1, CurSetOf
    <3>. HIDE DEF c
    <3>3. c \in Players /\ Streams(c) /\ c.state = "PAUSE" /\ c.cmdState = "PAUSE"
      BY <2>3, <2>4, <3>2 DEF CurSet, Streams, SameVideo, SameSound
    <3>4. Kept(t, c) /\ t.state = "START"
      BY <2>2, <2>4, <3>3, ResumedOtherKeeps
    <3>. QED
      BY <3>4, <2>4 DEF Kept, Sane, HoldsInPause, t
  <2>5. CASE s.state # "PAUSE"
    <3>1. Replayed(t, x)
      BY <2>2, <2>3, <2>5, ReplayOf
    <3>2. "Vstop" \notin t.cur
      BY <3>1 DEF Replayed, CmdStart
    <3>3. t.hasA \/ t.audio = 0
      BY <2>3, <3>1 DEF Replayed, Streams
    <3>4. Streams(t)
      BY <3>1, <3>2, <3>3 DEF Replayed, Streams
    <3>. QED
      BY <3>1, <3>4, <1>5 DEF Replayed, Sane, HoldsInPause, t
  <2>. QED
    BY <2>4, <2>5
<1>6. CASE Kernel(v) /\ s.state # "STOP" /\ ~Kernel(s.speed) /\ ~Trick(s.cur)
  BY <1>6, OtherKernel DEF Sped
<1>. QED
  BY <1>1, <1>2, <1>4, <1>5, <1>6

(* dvr_playback_set_speed. *)
LEMMA SetSpeedKeeps ==
  ASSUME TrickIInv, NEW v \in Speeds, SetSpeed(v)
  PROVE  TrickIInv'
<1>. DEFINE s == Noted(p)
<1>1. /\ p' = Sped(s, v) /\ UNCHANGED <<pids, spot, loop, call, asked>>
      /\ due' = (due \/ ~Kernel(v)) /\ v # p.speed /\ ~ToNormal(v)
  BY DEF SetSpeed
<1>2. p \in Players /\ TrickTypeOK /\ Sane(p) /\ v \in AllSpeeds
  BY TrickAssumption DEF TrickIInv, TrickTypeOK, AlwaysInv
<1>3. s \in Players /\ SameMode(s, p) /\ SameVideo(s, p) /\ SameSound(s, p)
  BY <1>2, NotedOf
<1>. HIDE DEF s
<1>4. Sane(s) /\ (HoldsInPause(p) => HoldsInPause(s))
  BY <1>2, <1>3
     DEF Sane, NoStreams, Streams, HoldsInPause, SameMode, SameVideo, SameSound
<1>5. /\ p' \in Players /\ Sane(p') /\ (HoldsInPause(p) => HoldsInPause(p'))
      /\ (p'.state = "STOP") <=> (p.state = "STOP")
  <2>1. /\ p' \in Players /\ Sane(p') /\ (HoldsInPause(s) => HoldsInPause(p'))
        /\ (p'.state = "STOP") <=> (s.state = "STOP")
    BY <1>1, <1>2, <1>3, <1>4, SpedKeeps
  <2>. QED
    BY <2>1, <1>3, <1>4 DEF SameMode
<1>6. /\ CallsOK' /\ call = "none" /\ call' = "none" /\ (~cut' => ~cut)
      /\ Regular' => /\ Regular /\ loop \notin {"fffb", "begin", "atBegin"} /\ ~p.live
                     /\ p.state = "PAUSE" /\ Moving(p.speed) => v = "X1"
  <2>1. call' \in Sections /\ asked' \in [audio : AudioPids, ad : AdPids]
    BY <1>1, <1>2 DEF TrickTypeOK
  <2>. QED
    BY <1>1, <1>2, <2>1, CalledOf DEF SetSpeed
<1>7. TrickTypeOK'
  BY <1>1, <1>2, <1>5, <1>6 DEF TrickTypeOK, CallsOK
<1>8. AlwaysInv'
  BY <1>1, <1>5, <1>6 DEF TrickIInv, AlwaysInv
<1>9. Regular' => RegularInv'
  <2>1. SUFFICES ASSUME Regular' PROVE RegularInv'
    OBVIOUS
  <2>2. /\ SoundFlags /\ MovingInv /\ KernelInv /\ ~p.live
        /\ loop \notin {"fffb", "begin", "atBegin"}
        /\ p.state = "PAUSE" /\ Moving(p.speed) => v = "X1"
    BY <2>1, <1>6 DEF TrickIInv, RegularInv
  <2>3. /\ CallInv' /\ Wanted = pids.audio /\ (Sounds <=> p.speed = "X1")
        /\ Wanted' = pids.audio /\ (Sounds' <=> p'.speed = "X1")
    BY <1>1, <1>6 DEF CallInv, Wanted, Sounds
  <2>4. \A w \in AllSpeeds : Kernel(w) <=> ~Moving(w)
    BY DEF AllSpeeds, Kernel, Moving
  <2>5. p.speed \in AllSpeeds /\ Kernel("X1") /\ p.state \in States
    BY <1>2 DEF Players, Kernel
  <2>6. CASE ~Kernel(v)
    <3>1. p' = OtherSpeed(s, v)
      BY <2>6, <1>1 DEF Sped
    <3>2. /\ p' \in Players /\ SameVideo(p', s) /\ SameSound(p', s)
          /\ p'.cur = (IF v = "FB" THEN {"FB"} ELSE {"FF"})
          /\ p'.cmdState = s.cmdState /\ p'.state = s.state
          /\ p'.speed = v /\ p'.live = s.live /\ p'.fffb
      BY <3>1, <2>6, <1>2, <1>3, TrickSet
    <3>3. SoundFlags'
      BY <3>2, <1>3, <2>2 DEF SoundFlags, SameSound
    <3>4. /\ ~p'.live /\ loop' = loop /\ due'
          /\ p'.state = p.state /\ p'.ad = p.ad
      BY <3>2, <1>1, <1>3, <2>2, <2>6 DEF SameMode, SameSound
    <3>5. MovingInv'
      BY <3>2, <3>4, <2>2 DEF MovingInv
    <3>6. KernelInv'
      BY <3>2, <2>6 DEF KernelInv
    <3>. QED
      BY <3>3, <3>5, <3>6, <2>3 DEF RegularInv
  <2>7. CASE Kernel(v) /\ p.state = "STOP"
    <3>1. s.state = "STOP"
      BY <2>7, <1>3 DEF SameMode
    <3>2. SpeedIs(p', s, v)
      BY <3>1, <2>7, <1>1, <1>2, <1>3, SpeedIsOf DEF Sped
    <3>3. SameSound(p', p) /\ p'.state = "STOP"
      BY <3>1, <3>2, <1>3 DEF SpeedIs, SameSound
    <3>4. SoundFlags'
      BY <3>3, <2>2 DEF SoundFlags, SameSound
    <3>5. MovingInv'
      BY <3>3, <2>2, <2>7, <1>1 DEF MovingInv, SameSound
    <3>6. KernelInv'
      BY <3>3 DEF KernelInv
    <3>. QED
      BY <3>4, <3>5, <3>6, <2>3 DEF RegularInv
  <2>8. p.state # "STOP" =>
          p.state \in {"START", "PAUSE"} /\ Streams(p) /\ p.cmdState = p.state
    BY <2>5, <1>2 DEF Sane, States
  <2>9. CASE Kernel(v) /\ p.state # "STOP" /\ Kernel(p.speed)
    <3>. DEFINE k == KernelSpeed(s, v)
    <3>1. s.state = p.state /\ s.cmdState = p.state /\ s.speed = p.speed
      BY <1>3, <2>8, <2>9 DEF SameMode
    <3>2. p' = [SetTo(k, v) EXCEPT !.fffb = FALSE]
      BY <3>1, <2>9, <1>1 DEF Sped
    <3>3. KernelSped(k, s, v)
      BY <1>2, <1>3, KernelSpeedOf
    <3>. HIDE DEF k
    <3>4. SpeedIs(p', k, v)
      BY <3>2, <3>3, <1>2, SpeedIsOf DEF KernelSped
    <3>5. /\ p'.cmdState = p.state /\ p'.state = p.state /\ ~p'.live
          /\ p'.speed = v /\ p'.fast = v
          /\ p'.cur = IF v = "X1" THEN {"Astart"} ELSE p.cur
      BY <3>1, <3>3, <3>4, <1>3, <2>2 DEF KernelSped, SpeedIs, SameMode, SameVideo
    <3>6. p'.vPaused = p.vPaused /\ p'.pauseNext = p.pauseNext
      BY <3>3, <3>4, <1>3 DEF KernelSped, SpeedIs, SameVideo
    <3>7. IF v # "X1"
          THEN /\ ~p'.hasA /\ p'.audio = (IF p.hasA THEN 0 ELSE p.audio)
               /\ p'.hasAd = p.hasAd /\ p'.ad = p.ad
          ELSE SameSound(p', p)
      <4>1. SameSound(p', k)
        BY <3>4 DEF SpeedIs
      <4>. QED
        BY <4>1, <3>3, <1>3 DEF KernelSped, SameSound
    <3>8. v # "X1" => p'.audio = 0
      BY <3>7, <2>8, <2>9 DEF Streams
    <3>9. v = "X1" => p.state = "PAUSE" /\ p.audio = 0
      <4>1. v = "X1" => p.state = "PAUSE"
        BY <1>1, <2>8, <2>9 DEF ToNormal
      <4>. QED
        BY <4>1, <1>1, <2>2, <2>3, <2>9 DEF KernelInv
    <3>10. SoundFlags'
      BY <3>7, <2>2 DEF SoundFlags, SameSound
    <3>11. MovingInv'
      BY <3>5, <2>2, <2>4, <2>8, <2>9, <1>1, <1>2 DEF MovingInv
    <3>12. p.state = "PAUSE" =>
             p'.cur \in {{"PAUSE"}, {"Astart"}} /\ p'.audio \in {0, pids.audio}
      BY <3>5, <3>7, <3>8, <3>9, <2>2, <2>9 DEF KernelInv, SameSound
    <3>13. p.state = "START" =>
             /\ p'.cur \in {{"Astart"}, CmdStart, {"RESUME"}, {"SEEK"}}
             /\ ~p'.vPaused /\ (p'.pauseNext => p'.live)
      <4>1. p.state = "START" =>
              /\ p.cur \in {{"Astart"}, CmdStart, {"RESUME"}, {"SEEK"}}
              /\ ~p.vPaused /\ (p.pauseNext => p.live)
        BY <2>2, <2>9 DEF KernelInv
      <4>. QED
        BY <4>1, <3>5, <3>6, <3>9, <2>2
    <3>14. KernelInv'
      BY <3>5, <3>8, <3>9, <3>12, <3>13, <2>3, <2>8, <2>9, <1>1, <1>6 DEF KernelInv
    <3>. QED
      BY <3>10, <3>11, <3>14, <2>3 DEF RegularInv
  <2>10. CASE Kernel(v) /\ p.state # "STOP" /\ ~Kernel(p.speed)
    <3>. DEFINE x == [SetTo(s, v) EXCEPT !.fffb = FALSE]
                c == [x EXCEPT !.cur = AVRestart]
    <3>1. Trick(p.cur) /\ Moving(p.speed)
      BY <2>2, <2>4, <2>5, <2>8, <2>10 DEF MovingInv, Trick
    <3>2. s.state = p.state /\ s.speed = p.speed /\ s.cur = p.cur
      BY <1>3 DEF SameMode
    <3>3. p' = IF p.state = "PAUSE" THEN ResumedOther(c) ELSE Replay(x)
      BY <3>1, <3>2, <2>8, <2>10, <1>1 DEF Sped
    <3>4. SpeedIs(x, s, v)
      BY <1>2, <1>3, SpeedIsOf
    <3>. HIDE DEF x
    <3>5. /\ x \in Players /\ x.state = p.state /\ ~x.live /\ x.speed = v
          /\ x.hasV /\ SameSound(x, p)
      BY <3>2, <3>4, <1>3, <2>2, <2>8, <2>10
         DEF SpeedIs, Streams, SameMode, SameVideo, SameSound
    <3>6. ~Moving(v)
      BY <2>4, <2>10, <1>2
    <3>7. CASE p.state = "PAUSE"
      <4>1. v = "X1"
        BY <3>1, <3>7, <2>2
      <4>2. AVRestart \in SUBSET Bits /\ AVRestart # {"PAUSE"} /\ AVRestart # {"Astart"}
        BY DEF Bits, AVRestart, VRestart
      <4>3. CurSet(c, x, AVRestart)
        BY <3>5, <4>2, CurSetOf
      <4>. HIDE DEF c
      <4>4. /\ c \in Players /\ c.state = "PAUSE" /\ ~c.live /\ c.speed = "X1"
            /\ c.hasV /\ c.cur = AVRestart /\ SameSound(c, p)
        BY <3>5, <3>7, <4>1, <4>3 DEF CurSet, SameVideo, SameSound
      <4>5. p' = ResumedOther(c)
        BY <3>3, <3>7
      <4>6. /\ ~p'.vPaused /\ ~p'.pauseNext /\ p'.speed = "X1" /\ p'.live = c.live
            /\ p'.hasA <=> pids.audio # 0
            /\ p'.audio = (IF pids.audio # 0 THEN pids.audio
                           ELSE IF c.hasA THEN 0 ELSE c.audio)
            /\ p'.hasAd <=> c.hasAd \/ pids.ad # 0
            /\ p'.ad <=> c.ad \/ pids.ad # 0
            /\ p'.cur = CmdStart /\ p'.fast = "X1"
        BY <4>2, <4>4, <4>5, <1>2, ResumedOtherX1
      <4>7. p'.audio = pids.audio /\ (p'.hasAd <=> p'.ad) /\ (pids.ad # 0 => p'.ad)
        BY <4>4, <4>6, <2>2, <2>8, <2>10 DEF SoundFlags, Streams, SameSound
      <4>8. p'.state # "PAUSE"
        <5>1. Streams(c)
          <6>1. c.hasV /\ c.video
            BY <3>4, <4>3, <1>3, <2>8, <2>10 DEF CurSet, SpeedIs, Streams, SameVideo
          <6>2. c.hasA \/ c.audio = 0
            BY <4>4, <2>8, <2>10 DEF Streams, SameSound
          <6>. QED
            BY <6>1, <6>2, <4>4 DEF Streams
        <5>2. c.cmdState = c.state
          BY <3>4, <4>3, <1>3, <2>8, <2>10 DEF CurSet, SpeedIs, SameMode
        <5>. QED
          BY <5>1, <5>2, <4>4, <4>5, <1>2, ResumedOtherKeeps
      <4>9. SoundFlags'
        BY <4>6, <4>7 DEF SoundFlags
      <4>10. MovingInv'
        BY <3>6, <4>1, <4>6, <4>8, <1>1, <1>5, <2>2, <2>8, <2>10 DEF MovingInv
      <4>11. KernelInv'
        BY <4>4, <4>6, <4>7, <4>8, <2>3, <1>1, <1>6 DEF KernelInv
      <4>. QED
        BY <4>9, <4>10, <4>11, <2>3 DEF RegularInv
    <3>8. CASE p.state = "START"
      <4>. HIDE DEF c
      <4>1. Replayed(p', x)
        BY <3>3, <3>5, <3>8, <1>2, ReplayOf
      <4>2. ~Fast("X1") /\ (Fast(v) \/ v = "X1")
        BY <2>10 DEF Fast, Kernel
      <4>3. /\ p'.speed = v /\ p'.fast = v /\ p'.cur = CmdStart /\ p'.state = "START"
            /\ ~p'.live /\ ~p'.vPaused /\ ~p'.pauseNext
        BY <4>1, <4>2, <3>5 DEF Replayed
      <4>4. IF Fast(v)
            THEN ~p'.hasA /\ p'.audio = 0 /\ p'.hasAd = p.hasAd /\ p'.ad = p.ad
            ELSE /\ p'.hasA <=> pids.audio # 0
                 /\ p'.audio = pids.audio
                 /\ p'.hasAd <=> p.hasAd \/ pids.ad # 0
                 /\ p'.ad <=> p.ad \/ pids.ad # 0
        BY <4>1, <3>5, <2>8, <2>10 DEF Replayed, Streams, SameSound
      <4>5. SoundFlags'
        BY <4>4, <2>2 DEF SoundFlags
      <4>6. MovingInv'
        BY <4>3, <3>6, <1>1, <2>2 DEF MovingInv
      <4>7. KernelInv'
        BY <4>2, <4>3, <4>4, <2>3, <1>1, <1>6 DEF KernelInv
      <4>. QED
        BY <4>5, <4>6, <4>7, <2>3 DEF RegularInv
    <3>. QED
      BY <3>7, <3>8, <2>8, <2>10
  <2>. QED
    BY <2>6, <2>7, <2>9, <2>10
<1>. QED
  BY <1>7, <1>8, <1>9 DEF TrickIInv

(* set_speed to X1 while it plays: up to the audio ...                     *)
LEMMA NormalSpeedKeeps ==
  ASSUME TrickIInv, NormalSpeed
  PROVE  TrickIInv'
<1>. DEFINE s == Noted(p)
<1>1. /\ p' = [s EXCEPT !.fast = "X1"] /\ UNCHANGED <<pids, spot, due, loop, asked>>
      /\ p.speed # "X1" /\ Kernel(p.speed) /\ p.state = "START"
      /\ call' = "audioStart"
  BY DEF NormalSpeed, ToNormal, threadVars
<1>2. p \in Players /\ TrickTypeOK /\ Streams(p) /\ p.cmdState = p.state
  BY <1>1 DEF TrickIInv, TrickTypeOK, AlwaysInv, Sane
<1>3. s \in Players /\ SameMode(s, p) /\ SameVideo(s, p) /\ SameSound(s, p)
  BY <1>2, NotedOf
<1>. HIDE DEF s
<1>4. p' \in Players
  BY <1>1, <1>3 DEF Players, AllSpeeds
<1>5. SameMode(p', s) /\ SameSound(p', s)
  BY <1>1, <1>3 DEF Players, SameMode, SameSound
<1>6. /\ p'.hasV = s.hasV /\ p'.video = s.video /\ p'.vPaused = s.vPaused
      /\ p'.pauseNext = s.pauseNext /\ p'.fast = "X1"
  BY <1>1, <1>3 DEF Players
<1>7. SameMode(p', p) /\ SameSound(p', p)
  BY <1>3, <1>5 DEF SameMode, SameSound
<1>8. /\ p'.hasV = p.hasV /\ p'.video = p.video /\ p'.vPaused = p.vPaused
      /\ p'.pauseNext = p.pauseNext
  BY <1>3, <1>6 DEF SameVideo
<1>9. /\ CallsOK' /\ call = "none" /\ (~cut' => ~cut)
      /\ Regular' => Regular /\ ~p.live
  <2>1. call' \in Sections /\ asked' \in [audio : AudioPids, ad : AdPids]
    BY <1>1, <1>2 DEF TrickTypeOK, Sections
  <2>. QED
    BY <1>1, <1>2, <2>1, CalledOf DEF NormalSpeed
<1>10. TrickTypeOK'
  BY <1>1, <1>2, <1>4, <1>9 DEF TrickTypeOK, CallsOK
<1>11. AlwaysInv'
  <2>1. Kept(p', p)
    BY <1>2, <1>4, <1>7, <1>8 DEF Kept, Streams, SameMode, SameSound
  <2>2. p'.state = "START"
    BY <1>1, <1>7 DEF SameMode
  <2>. QED
    BY <2>1, <2>2, <1>1, SaneOfKept DEF HoldsInPause
<1>12. Regular' => RegularInv'
  <2>1. SUFFICES ASSUME Regular' PROVE RegularInv'
    OBVIOUS
  <2>2. SoundFlags /\ MovingInv /\ KernelInv
    BY <2>1, <1>9 DEF TrickIInv, RegularInv
  <2>3. SoundFlags'
    BY <2>2, <1>7 DEF SoundFlags, SameSound
  <2>4. MovingInv'
    BY <2>2, <1>1, <1>7 DEF MovingInv, SameMode, SameSound
  <2>5. ~Sounds /\ ~Sounds'
    BY <1>1, <1>7, <1>9 DEF Sounds, SameMode
  <2>6. KernelInv'
    BY <2>2, <2>5, <1>1, <1>6, <1>7, <1>8 DEF KernelInv, SameMode, SameSound
  <2>7. CallInv'
    BY <1>1, <1>7 DEF CallInv, SameMode
  <2>. QED
    BY <2>3, <2>4, <2>6, <2>7 DEF RegularInv
<1>. QED
  BY <1>10, <1>11, <1>12 DEF TrickIInv

(* ... the audio, without the lock ...                                     *)
LEMMA NormalAudioKeeps ==
  ASSUME TrickIInv, NormalAudio
  PROVE  TrickIInv'
<1>1. /\ p' = AudioStart(p) /\ UNCHANGED <<pids, spot, due, loop, asked>>
      /\ call = "audioStart" /\ call' = "speed"
  BY DEF NormalAudio, GoesOn, threadVars
<1>2. /\ p \in Players /\ TrickTypeOK /\ Streams(p) /\ p.cmdState = p.state
      /\ p.state # "STOP"
  BY <1>1 DEF TrickIInv, TrickTypeOK, AlwaysInv, Sane
<1>3. /\ p' \in Players /\ SameVideo(p', p) /\ SoundOn(p', p)
      /\ p'.cur = {"Astart"} /\ p'.cmdState = "START" /\ p'.state = "START"
      /\ p'.speed = p.speed /\ p'.live = p.live /\ p'.fffb = p.fffb
  BY <1>1, <1>2, AudioStartOf
<1>4. Kept(p', p)
  BY <1>1, <1>2, StreamsKept
<1>5. CallsOK' /\ (Regular' => Regular) /\ (~cut' => ~cut)
  BY <1>1, <1>2, GoesOnOf DEF NormalAudio, Sections
<1>6. TrickTypeOK'
  BY <1>1, <1>2, <1>3, <1>5 DEF TrickTypeOK, CallsOK
<1>7. AlwaysInv'
  BY <1>1, <1>2, <1>3, <1>4, SaneOfKept DEF HoldsInPause
<1>8. Regular' => RegularInv'
  <2>1. SUFFICES ASSUME Regular' PROVE RegularInv'
    OBVIOUS
  <2>2. SoundFlags /\ MovingInv /\ KernelInv /\ CallInv
    BY <2>1, <1>5 DEF TrickIInv, RegularInv
  <2>3. Kernel(p.speed) /\ p.speed # "X1" /\ p.state = "START" /\ ~Moving(p.speed)
    BY <2>2, <1>1 DEF CallInv, Kernel, Moving
  <2>4. ~Sounds /\ Sounds' /\ Wanted' = pids.audio
    BY <2>3, <1>1 DEF Sounds, Wanted
  <2>5. p.audio = 0 /\ p.fast = "X1" /\ ~p.vPaused /\ (p.pauseNext => p.live)
    BY <2>2, <2>3, <2>4, <1>1 DEF KernelInv
  <2>6. SoundFlags'
    BY <2>2, <2>5, <1>3 DEF SoundFlags, SoundOn
  <2>7. MovingInv'
    BY <2>2, <2>3, <1>1, <1>3 DEF MovingInv
  <2>8. p'.audio = pids.audio /\ (pids.ad # 0 => p'.ad)
    BY <2>5, <1>3 DEF SoundOn
  <2>9. KernelInv'
    BY <2>3, <2>4, <2>5, <2>8, <1>1, <1>3 DEF KernelInv, SameVideo
  <2>10. CallInv'
    BY <2>3, <1>1, <1>3 DEF CallInv
  <2>. QED
    BY <2>6, <2>7, <2>9, <2>10 DEF RegularInv
<1>. QED
  BY <1>6, <1>7, <1>8 DEF TrickIInv

(* ... and the speed: also of a player the thread has paused since.        *)
LEMMA SpeedSetKeeps ==
  ASSUME TrickIInv, SpeedSet
  PROVE  TrickIInv'
<1>1. /\ p' = [SetTo(p, "X1") EXCEPT !.fffb = FALSE]
      /\ UNCHANGED <<pids, spot, due, loop, asked>>
      /\ call = "speed" /\ call' = "none"
  BY DEF SpeedSet, GoesOn, threadVars
<1>2. /\ p \in Players /\ TrickTypeOK /\ Streams(p) /\ p.cmdState = p.state
      /\ p.state # "STOP" /\ "X1" \in AllSpeeds /\ (~cut => HoldsInPause(p))
  BY <1>1 DEF TrickIInv, TrickTypeOK, AlwaysInv, Sane, AllSpeeds
<1>3. SpeedIs(p', p, "X1")
  BY <1>1, <1>2, SpeedIsOf
<1>4. CallsOK' /\ (Regular' => Regular) /\ (~cut' => ~cut)
  BY <1>1, <1>2, GoesOnOf DEF SpeedSet, Sections
<1>5. TrickTypeOK'
  BY <1>1, <1>2, <1>3, <1>4 DEF TrickTypeOK, CallsOK, SpeedIs
<1>6. AlwaysInv'
  <2>1. Kept(p', p)
    BY <1>2, <1>3 DEF Kept, Streams, SpeedIs, SameVideo, SameSound
  <2>2. ~cut' => HoldsInPause(p') /\ call' # "live"
    BY <1>1, <1>2, <1>3, <1>4 DEF HoldsInPause, SpeedIs, SameVideo
  <2>. QED
    BY <2>1, <2>2, <1>1, <1>2, SaneOfKept
<1>7. Regular' => RegularInv'
  <2>1. SUFFICES ASSUME Regular' PROVE RegularInv'
    OBVIOUS
  <2>2. SoundFlags /\ MovingInv /\ KernelInv /\ CallInv
    BY <2>1, <1>4 DEF TrickIInv, RegularInv
  <2>3. Kernel(p.speed) /\ ~Moving(p.speed) /\ ~Moving("X1")
    BY <2>2, <1>1 DEF CallInv, Kernel, Moving
  <2>4. Sounds /\ Sounds' /\ Wanted = pids.audio /\ Wanted' = pids.audio
    BY <1>1, <1>3 DEF Sounds, Wanted, SpeedIs
  <2>5. SoundFlags'
    BY <2>2, <1>3 DEF SoundFlags, SpeedIs, SameSound
  <2>6. MovingInv'
    BY <2>2, <2>3, <1>1, <1>2, <1>3 DEF MovingInv, SpeedIs
  <2>7. KernelInv'
    BY <2>2, <2>3, <2>4, <1>1, <1>2, <1>3
       DEF KernelInv, SpeedIs, SameVideo, SameSound
  <2>8. CallInv'
    BY <1>1 DEF CallInv
  <2>. QED
    BY <2>5, <2>6, <2>7, <2>8 DEF RegularInv
<1>. QED
  BY <1>5, <1>6, <1>7 DEF TrickIInv

(* A step of the thread or the decoder that only changes first, shown and  *)
(* seekPause.                                                              *)
LEMMA SameKeeps ==
  ASSUME TrickIInv, UNCHANGED <<pids, callVars>>,
         p' \in Players /\ SameMode(p', p) /\ SameVideo(p', p) /\ SameSound(p', p),
         spot' \in 0 .. MaxPlace, due' \in BOOLEAN, due => due',
         \/ loop' = loop
         \/ loop = "top" /\ loop' = "fffb" /\ (Regular => Moving(p.speed))
         \/ loop = "top" /\ loop' = "atEnd"
  PROVE  TrickIInv'
<1>1. TrickTypeOK'
  BY DEF TrickIInv, TrickTypeOK, Loops, callVars
<1>2. AlwaysInv'
  BY DEF TrickIInv, AlwaysInv, Sane, NoStreams, Streams, HoldsInPause, callVars,
         SameMode, SameVideo, SameSound
<1>3. Regular' => RegularInv'
  <2>1. SUFFICES ASSUME Regular' PROVE RegularInv'
    OBVIOUS
  <2>2. SoundFlags /\ MovingInv /\ KernelInv /\ CallInv /\ Regular
    BY <2>1 DEF TrickIInv, RegularInv, Regular, callVars
  <2>3. SoundFlags'
    BY <2>2 DEF SoundFlags, SameSound
  <2>4. MovingInv'
    BY <2>2 DEF MovingInv, SameMode, SameSound
  <2>5. (Sounds' <=> Sounds) /\ Wanted' = Wanted /\ UNCHANGED call
    BY DEF Sounds, Wanted, SameMode, callVars
  <2>6. KernelInv'
    BY <2>2, <2>5 DEF KernelInv, SameMode, SameVideo, SameSound
  <2>7. CallInv'
    BY <2>2 DEF CallInv, SameMode, callVars
  <2>. QED
    BY <2>3, <2>4, <2>6, <2>7 DEF RegularInv
<1>. QED
  BY <1>1, <1>2, <1>3 DEF TrickIInv

(* The time passes, a frame is shown, the thread goes to its move or plays *)
(* on, or sees the end.                                                    *)
LEMMA QuietKeeps ==
  ASSUME TrickIInv, Tick \/ FirstFrame \/ ToMove \/ Play \/ AtEnd
  PROVE  TrickIInv'
<1>1. /\ p \in Players /\ spot \in 0 .. MaxPlace /\ due \in BOOLEAN /\ MaxPlace \in Nat
      /\ SameMode(p, p) /\ SameVideo(p, p) /\ SameSound(p, p)
  BY TrickAssumption
     DEF TrickIInv, TrickTypeOK, SameMode, SameVideo, SameSound
<1>2. CASE Tick
  BY <1>1, <1>2, SameKeeps DEF Tick
<1>3. CASE FirstFrame
  <2>1. p' = [p EXCEPT !.first = TRUE, !.shown = TRUE, !.seekPause = FALSE]
    BY <1>3 DEF FirstFrame
  <2>2. p' \in Players
    BY <2>1, <1>1 DEF Players
  <2>3. SameMode(p', p) /\ SameVideo(p', p) /\ SameSound(p', p)
    BY <2>1, <1>1 DEF Players, SameMode, SameVideo, SameSound
  <2>. QED
    BY <2>2, <2>3, <1>1, <1>3, SameKeeps DEF FirstFrame, threadVars
<1>4. CASE ToMove
  <2>1. p' = [p EXCEPT !.first = FALSE] /\ loop = "top" /\ loop' = "fffb"
    BY <1>4 DEF ToMove
  <2>2. p' \in Players
    BY <2>1, <1>1 DEF Players
  <2>3. SameMode(p', p) /\ SameVideo(p', p) /\ SameSound(p', p)
    BY <2>1, <1>1 DEF Players, SameMode, SameVideo, SameSound
  <2>4. Regular => Moving(p.speed)
    <3>1. Trick(p.cur) \/ Moving(p.speed)
      BY <1>4 DEF ToMove, IsSpeed
    <3>2. p.speed \in AllSpeeds /\ p.state # "STOP"
      BY <1>1, <2>1 DEF Players, TrickIInv, AlwaysInv
    <3>3. Kernel(p.speed) \/ Moving(p.speed)
      BY <3>2 DEF AllSpeeds, Kernel, Moving
    <3>4. Regular /\ Kernel(p.speed) =>
            p.cur \in {{"Astart"}, CmdStart, {"RESUME"}, {"SEEK"}, {"PAUSE"}}
      BY <3>2, <1>1 DEF TrickIInv, RegularInv, KernelInv, Players, States
    <3>. QED
      BY <3>1, <3>3, <3>4 DEF Trick, CmdStart
  <2>. QED
    BY <2>1, <2>2, <2>3, <2>4, <1>1, <1>4, SameKeeps DEF ToMove
<1>5. CASE Play
  <2>1. spot' \in 0 .. MaxPlace
    BY <1>1, <1>5 DEF Play
  <2>. QED
    BY <2>1, <1>1, <1>5, SameKeeps DEF Play
<1>6. CASE AtEnd
  BY <1>1, <1>6, SameKeeps DEF AtEnd
<1>. QED
  BY <1>2, <1>3, <1>4, <1>5, <1>6

(* The video is held: in pause, or before the next move of a trick speed.  *)
LEMMA HoldKeeps ==
  ASSUME TrickIInv, FrameOfSeek \/ HoldFrame \/ FrameInPause
  PROVE  TrickIInv'
<1>1. loop = "top" /\ UNCHANGED <<pids, spot, due, loop>>
  BY DEF FrameOfSeek, HoldFrame, FrameInPause, threadVars
<1>2. /\ p \in Players /\ TrickTypeOK /\ Streams(p) /\ p.cmdState = p.state
      /\ p.state \in {"START", "PAUSE"}
  BY <1>1 DEF TrickIInv, TrickTypeOK, AlwaysInv, Sane, Players, States
<1>3. Regular => SoundFlags /\ MovingInv /\ KernelInv /\ CallInv
  BY DEF TrickIInv, RegularInv
<1>4. p.speed \in AllSpeeds /\ (Kernel(p.speed) \/ Moving(p.speed))
  BY <1>2 DEF Players, AllSpeeds, Kernel, Moving
<1>5. ~(Kernel(p.speed) /\ Moving(p.speed))
  BY DEF Kernel, Moving
<1>6. CASE FrameOfSeek /\ ~EndsInPause
  <2>1. p' = [p EXCEPT !.first = FALSE] /\ UNCHANGED callVars
    BY <1>6 DEF FrameOfSeek
  <2>2. p' \in Players
    BY <2>1, <1>2 DEF Players
  <2>3. SameMode(p', p) /\ SameVideo(p', p) /\ SameSound(p', p)
    BY <2>1, <1>2 DEF Players, SameMode, SameVideo, SameSound
  <2>4. spot \in 0 .. MaxPlace /\ due \in BOOLEAN
    BY <1>2 DEF TrickTypeOK
  <2>. QED
    BY <2>1, <2>2, <2>3, <2>4, <1>1, SameKeeps
<1>7. CASE FrameOfSeek /\ EndsInPause
  <2>. DEFINE h == Held(p)
              x == [h EXCEPT !.cur = {"PAUSE"}, !.live = FALSE]
  <2>0. /\ CallsOK' /\ call' = call /\ asked' = asked
        /\ Regular' => Regular /\ call \notin Gaps
        /\ ~cut' => ~cut /\ call \notin Gaps
    BY <1>2, <1>7, PausesOf DEF FrameOfSeek
  <2>1. p' = To(x, "PAUSE") /\ OnSeek
    BY <1>7 DEF FrameOfSeek
  <2>2. /\ h \in Players /\ SameMode(h, p) /\ SameSound(h, p)
        /\ h.hasV = p.hasV /\ h.video = p.video /\ h.fast = p.fast
        /\ h.vPaused = p.video /\ ~h.pauseNext
    BY <1>2, HoldOf
  <2>3. {"PAUSE"} \in SUBSET Bits /\ "PAUSE" \in States
    BY DEF Bits, States
  <2>. HIDE DEF h
  <2>4. x \in Players
    BY <2>2, <2>3 DEF Players
  <2>5. SameVideo(x, h) /\ SameSound(x, h)
    BY <2>2 DEF Players, SameVideo, SameSound
  <2>6. x.cur = {"PAUSE"} /\ ~x.live /\ x.speed = h.speed /\ x.fffb = h.fffb
    BY <2>2 DEF Players
  <2>. HIDE DEF x
  <2>7. Became(p', x, "PAUSE")
    BY <2>1, <2>3, <2>4, ToOf
  <2>8. /\ p' \in Players /\ p'.cur = {"PAUSE"} /\ ~p'.live /\ p'.speed = p.speed
        /\ p'.state = "PAUSE" /\ p'.cmdState = "PAUSE" /\ SameSound(p', p)
    BY <2>2, <2>5, <2>6, <2>7 DEF Became, SameMode, SameSound
  <2>9. p'.hasV /\ p'.video /\ p'.vPaused /\ p'.fast = p.fast
    BY <2>2, <2>5, <2>7, <1>2 DEF Became, SameVideo, Streams
  <2>10. TrickTypeOK'
    BY <2>0, <2>8, <1>1, <1>2 DEF TrickTypeOK, CallsOK
  <2>11. AlwaysInv'
    <3>1. "Vstop" \notin p'.cur
      BY <2>8
    <3>2. p'.hasA \/ p'.audio = 0
      BY <2>8, <1>2 DEF Streams, SameSound
    <3>. QED
      BY <3>1, <3>2, <2>0, <2>8, <2>9, <1>1
         DEF AlwaysInv, Sane, Streams, HoldsInPause, Gaps
  <2>12. Regular' => RegularInv'
    <3>1. SUFFICES ASSUME Regular' PROVE RegularInv'
      OBVIOUS
    <3>2. SoundFlags /\ MovingInv /\ KernelInv /\ CallInv /\ call \notin Gaps
      BY <3>1, <2>0, <1>3
    <3>3. Kernel(p.speed) /\ ~Moving(p.speed)
      <4>1. Moving(p.speed) => ~OnSeek
        BY <3>2, <1>2 DEF MovingInv, OnSeek
      <4>. QED
        BY <4>1, <2>1, <1>4
    <3>4. SoundFlags'
      BY <3>2, <2>8 DEF SoundFlags, SameSound
    <3>5. MovingInv'
      BY <3>3, <2>8, <1>1 DEF MovingInv
    <3>6. /\ p.fast = IF call \in {"audioStart", "speed"} THEN "X1" ELSE p.speed
          /\ p.audio \in {0, Wanted} /\ (~Sounds => p.audio = 0)
      BY <3>2, <3>3, <1>2 DEF KernelInv
    <3>7. (Sounds' <=> Sounds) /\ Wanted' = Wanted
      BY <2>0, <2>8, <1>1 DEF Sounds, Wanted
    <3>8. KernelInv'
      BY <3>6, <3>7, <2>0, <2>8, <2>9, <1>1 DEF KernelInv, SameSound
    <3>9. CallInv'
      BY <3>2, <3>3, <2>0, <2>8, <1>1 DEF CallInv, Gaps
    <3>. QED
      BY <3>4, <3>5, <3>8, <3>9 DEF RegularInv
  <2>. QED
    BY <2>10, <2>11, <2>12 DEF TrickIInv
<1>8. CASE HoldFrame \/ FrameInPause
  <2>0. UNCHANGED callVars
    BY <1>8 DEF HoldFrame, FrameInPause
  <2>1. /\ p' \in Players /\ SameMode(p', p) /\ SameSound(p', p)
        /\ p'.hasV /\ p'.video /\ p'.fast = p.fast /\ p'.vPaused
    <3>1. CASE HoldFrame
      <4>1. p' = [p EXCEPT !.vPaused = p.video] /\ p.video \in BOOLEAN
        BY <3>1, <1>2 DEF HoldFrame, Players
      <4>2. p' \in Players
        BY <4>1, <1>2 DEF Players
      <4>3. /\ SameMode(p', p) /\ SameSound(p', p)
            /\ p'.hasV = p.hasV /\ p'.video = p.video /\ p'.fast = p.fast
            /\ p'.vPaused = p.video
        BY <4>1, <1>2 DEF Players, SameMode, SameSound
      <4>. QED
        BY <4>2, <4>3, <1>2 DEF Streams
    <3>2. CASE FrameInPause
      <4>1. p' = Held(p)
        BY <3>2 DEF FrameInPause
      <4>. QED
        BY <4>1, <1>2, HoldOf DEF Streams
    <3>. QED
      BY <3>1, <3>2, <1>8
  <2>2. TrickTypeOK'
    BY <2>0, <2>1, <1>1, <1>2 DEF TrickTypeOK, callVars
  <2>3. AlwaysInv'
    <3>1. Streams(p')
      BY <2>1, <1>2 DEF Streams, SameMode, SameSound
    <3>. QED
      BY <3>1, <2>0, <2>1, <1>1, <1>2
         DEF TrickIInv, AlwaysInv, Sane, SameMode, HoldsInPause, callVars
  <2>4. Regular' => RegularInv'
    <3>1. SUFFICES ASSUME Regular' PROVE RegularInv'
      OBVIOUS
    <3>2. SoundFlags /\ MovingInv /\ KernelInv /\ CallInv
      BY <3>1, <2>0, <1>3 DEF Regular, callVars
    <3>3. Kernel(p.speed) => p.state = "PAUSE"
      <4>1. Kernel(p.speed) => ~Trick(p.cur)
        BY <3>2, <1>2 DEF KernelInv, Trick, CmdStart
      <4>2. CASE HoldFrame
        BY <4>1, <4>2, <1>5 DEF HoldFrame, IsSpeed
      <4>3. CASE FrameInPause
        BY <4>3 DEF FrameInPause
      <4>. QED
        BY <4>2, <4>3, <1>8
    <3>4. SoundFlags'
      BY <3>2, <2>1 DEF SoundFlags, SameSound
    <3>5. MovingInv'
      BY <3>2, <2>1, <1>1 DEF MovingInv, SameMode, SameSound
    <3>6. (Sounds' <=> Sounds) /\ Wanted' = Wanted
      BY <2>0, <2>1, <1>1 DEF Sounds, Wanted, SameMode, callVars
    <3>7. KernelInv'
      BY <3>2, <3>3, <3>6, <2>0, <2>1, <1>1 DEF KernelInv, SameMode, SameSound, callVars
    <3>8. CallInv'
      BY <3>2, <2>0, <2>1, <1>1 DEF CallInv, SameMode, callVars
    <3>. QED
      BY <3>4, <3>5, <3>7, <3>8 DEF RegularInv
  <2>. QED
    BY <2>2, <2>3, <2>4 DEF TrickIInv
<1>. QED
  BY <1>6, <1>7, <1>8

(* _dvr_playback_fffb. *)
LEMMA MoveKeeps ==
  ASSUME TrickIInv, Move
  PROVE  TrickIInv'
<1>. DEFINE x == FffbReplay(p)
            b == IF p.speed = "FB" /\ spot = 0 THEN x.fffb ELSE FALSE
<1>1. /\ p' = [x EXCEPT !.fffb = b] /\ loop = "fffb"
      /\ loop' \in {"begin", "top"} /\ spot' = Ahead /\ ~due'
      /\ UNCHANGED <<pids, callVars>>
  BY DEF Move
<1>2. /\ p \in Players /\ TrickTypeOK /\ Streams(p) /\ p.cmdState = p.state
      /\ p.state # "STOP"
  BY <1>1 DEF TrickIInv, TrickTypeOK, AlwaysInv, Sane
<1>3. /\ x \in Players /\ SameMode(x, p) /\ SoundOff(x, p)
      /\ x.hasV /\ x.video /\ ~x.vPaused /\ x.pauseNext
  BY <1>2, FffbReplayOf
<1>. HIDE DEF x
<1>4. b \in BOOLEAN
  BY <1>3 DEF Players
<1>. HIDE DEF b
<1>5. p' \in Players
  BY <1>1, <1>3, <1>4 DEF Players
<1>6. /\ SameSound(p', x) /\ p'.cur = x.cur /\ p'.cmdState = x.cmdState
      /\ p'.state = x.state /\ p'.speed = x.speed /\ p'.live = x.live
  BY <1>1, <1>3 DEF Players, SameSound
<1>7. /\ p'.hasV = x.hasV /\ p'.video = x.video /\ p'.vPaused = x.vPaused
      /\ p'.pauseNext = x.pauseNext
  BY <1>1, <1>3 DEF Players
<1>8. /\ p'.cur = p.cur /\ p'.cmdState = p.state /\ p'.state = p.state
      /\ p'.speed = p.speed /\ p'.live = p.live
      /\ p'.hasV /\ p'.video /\ ~p'.vPaused /\ p'.pauseNext
  BY <1>2, <1>3, <1>6, <1>7 DEF SameMode
<1>9. /\ ~p'.hasA /\ p'.audio = 0 /\ ~p'.hasAd
      /\ p'.ad <=> p.ad /\ ~p.hasAd
  BY <1>2, <1>3, <1>6 DEF SoundOff, SameSound, Streams
<1>10. TrickTypeOK'
  <2>1. Ahead \in 0 .. MaxPlace
    BY <1>2, TrickAssumption DEF TrickTypeOK, Ahead
  <2>2. due' = FALSE
    BY DEF Move
  <2>. QED
    BY <2>1, <2>2, <1>1, <1>2, <1>5 DEF TrickTypeOK, Loops, callVars
<1>11. AlwaysInv'
  BY <1>1, <1>2, <1>8, <1>9 DEF TrickIInv, AlwaysInv, Sane, Streams, HoldsInPause, callVars
<1>12. Regular' => RegularInv'
  <2>1. SUFFICES ASSUME Regular' PROVE RegularInv'
    OBVIOUS
  <2>2. SoundFlags /\ MovingInv /\ CallInv
    BY <2>1, <1>1 DEF TrickIInv, RegularInv, Regular, callVars
  <2>3. Moving(p.speed) /\ ~Kernel(p.speed)
    BY <2>2, <1>1 DEF MovingInv, Moving, Kernel
  <2>4. SoundFlags'
    BY <2>2, <1>9 DEF SoundFlags
  <2>5. MovingInv'
    BY <2>2, <2>3, <1>2, <1>8, <1>9 DEF MovingInv
  <2>6. KernelInv'
    BY <2>3, <1>8 DEF KernelInv
  <2>7. CallInv'
    BY <2>2, <2>3, <1>1, <1>8 DEF CallInv, callVars
  <2>. QED
    BY <2>4, <2>5, <2>6, <2>7 DEF RegularInv
<1>. QED
  BY <1>10, <1>11, <1>12 DEF TrickIInv

(* REACHED_BEGIN, up to the pause.                                         *)
LEMMA AtBeginKeeps ==
  ASSUME TrickIInv, AtBegin
  PROVE  TrickIInv'
<1>1. /\ loop = "begin" /\ UNCHANGED <<pids, spot, due, callVars>>
      /\ \/ p' = p /\ loop' = "atBegin"
         \/ p' = [p EXCEPT !.fffb = FALSE] /\ loop' = "top"
  BY DEF AtBegin
<1>2. TrickTypeOK /\ p \in Players /\ Sane(p) /\ p.state # "STOP"
  BY <1>1 DEF TrickIInv, TrickTypeOK, AlwaysInv
<1>3. p' \in Players
  BY <1>1, <1>2 DEF Players
<1>4. SameVideo(p', p) /\ SameSound(p', p)
  BY <1>1, <1>2 DEF Players, SameVideo, SameSound
<1>5. /\ p'.cur = p.cur /\ p'.cmdState = p.cmdState /\ p'.state = p.state
      /\ p'.speed = p.speed /\ p'.live = p.live
  BY <1>1, <1>2 DEF Players
<1>6. TrickTypeOK'
  BY <1>1, <1>2, <1>3 DEF TrickTypeOK, Loops, callVars
<1>7. AlwaysInv'
  BY <1>1, <1>2, <1>4, <1>5
     DEF TrickIInv, AlwaysInv, Sane, Streams, HoldsInPause, SameVideo, SameSound, callVars
<1>8. Regular' => RegularInv'
  <2>1. SUFFICES ASSUME Regular' PROVE RegularInv'
    OBVIOUS
  <2>2. SoundFlags /\ MovingInv /\ CallInv
    BY <2>1, <1>1 DEF TrickIInv, RegularInv, Regular, callVars
  <2>3. Moving(p.speed) /\ ~Kernel(p.speed)
    BY <2>2, <1>1 DEF MovingInv, Moving, Kernel
  <2>4. p.audio = 0
    BY <2>2, <2>3, <1>1, <1>2 DEF MovingInv
  <2>5. SoundFlags'
    BY <2>2, <1>4 DEF SoundFlags, SameSound
  <2>6. MovingInv'
    BY <2>2, <2>3, <2>4, <1>1, <1>2, <1>4, <1>5 DEF MovingInv, SameSound
  <2>7. KernelInv'
    BY <2>3, <1>5 DEF KernelInv
  <2>8. CallInv'
    BY <2>2, <1>1, <1>5 DEF CallInv, callVars
  <2>. QED
    BY <2>5, <2>6, <2>7, <2>8 DEF RegularInv
<1>. QED
  BY <1>6, <1>7, <1>8 DEF TrickIInv

(* The invariant holds of a player that was opened ...                     *)
LEMMA TrickStarts ==
  ASSUME TrickInit
  PROVE  TrickIInv
<1>1. p \in Players
  BY DEF TrickInit, Players, CmdStop, Bits, AVRestart, VRestart, ARestart, States,
         AllSpeeds
<1>2. TrickTypeOK
  <2>1. 0 \in 0 .. MaxCall
    BY TrickAssumption
  <2>2. calls \in 0 .. MaxCall /\ due \in BOOLEAN /\ odd \in BOOLEAN /\ cut \in BOOLEAN
    BY <2>1 DEF TrickInit
  <2>3. /\ pids \in [audio : AudioPids, ad : AdPids]
        /\ asked \in [audio : AudioPids, ad : AdPids]
        /\ spot \in 0 .. MaxPlace /\ loop \in Loops /\ call \in Sections
    BY DEF TrickInit, Loops, Sections
  <2>. QED
    BY <1>1, <2>2, <2>3 DEF TrickTypeOK
<1>3. AlwaysInv
  BY DEF TrickInit, AlwaysInv, Sane, NoStreams, HoldsInPause
<1>4. RegularInv
  BY DEF TrickInit, RegularInv, SoundFlags, MovingInv, KernelInv, CallInv
<1>. QED
  BY <1>2, <1>3, <1>4 DEF TrickIInv

(* ... and every step of a call, the thread or the decoder keeps it.       *)
LEMMA TrickKeeps ==
  ASSUME TrickIInv, [TrickNext]_trickVars
  PROVE  TrickIInv'
<1>1. CASE TrickNext
  <2>1. CASE CallStep
    BY <2>1, PauseStepsKeep, ResumeStepKeeps, NormalAudioKeeps, SpeedSetKeeps,
       UpdatesStepKeep, UpdateStoreKeeps DEF CallStep
  <2>2. CASE Thread
    BY <2>2, QuietKeeps, HoldKeeps, MoveKeeps, AtBeginKeeps, PauseStepsKeep DEF Thread
  <2>3. CASE ~CallStep /\ ~Thread
    BY <1>1, <2>3, StartKeeps, StartAgainKeeps, StopKeeps, ReadStepsKeep, SeekKeeps,
       NormalSpeedKeeps, SetSpeedKeeps, UpdatePidsKeeps, QuietKeeps DEF TrickNext
  <2>. QED
    BY <2>1, <2>2, <2>3
<1>2. CASE UNCHANGED trickVars
  BY <1>2 DEF trickVars, threadVars, callVars, TrickIInv, TrickTypeOK, AlwaysInv, Sane,
     HoldsInPause, Regular, RegularInv, SoundFlags, MovingInv, KernelInv, CallInv,
     Sounds, Wanted
<1>. QED
  BY <1>1, <1>2

(* What the sound and the decoder promise follows from the invariant.      *)
LEMMA TrickImplies ==
  ASSUME TrickIInv
  PROVE  DecoderInv /\ SoundFits
<1>1. TrickTypeOK /\ Sane(p) /\ p \in Players
  BY DEF TrickIInv, TrickTypeOK, AlwaysInv
<1>2. p.speed \in AllSpeeds /\ p.state \in States
  BY <1>1 DEF Players
<1>3. Regular => SoundFlags /\ MovingInv /\ KernelInv
  BY DEF TrickIInv, RegularInv
<1>4. PlaysAtKernelSpeed /\ DecoderSpeed
  BY <1>3 DEF PlaysAtKernelSpeed, DecoderSpeed, KernelInv
<1>5. StopLeavesNothing
  BY <1>1, <1>3 DEF StopLeavesNothing, Sane, NoStreams, MovingInv
<1>6. PausedHolds
  BY DEF PausedHolds, TrickIInv, AlwaysInv, HoldsInPause
<1>7. SoundAtNormalSpeed
  <2>1. Kernel(p.speed) \/ Moving(p.speed)
    BY <1>2 DEF AllSpeeds, Kernel, Moving
  <2>2. p.state = "STOP" => p.audio = 0
    BY <1>1 DEF Sane, NoStreams
  <2>. QED
    BY <2>1, <2>2, <1>3 DEF SoundAtNormalSpeed, KernelInv, MovingInv, Sounds
<1>8. SoundPlays
  BY <1>3 DEF SoundPlays, KernelInv, Kernel, Sounds, Wanted
<1>. QED
  BY <1>1, <1>4, <1>5, <1>6, <1>7, <1>8 DEF DecoderInv, SoundFits

(* The decoder is told what the player says it does: it plays at the speed *)
(* the player reports, holds in pause and has nothing left after a stop,   *)
(* after any regular sequence of calls, seeks, speeds and moves of the     *)
(* thread of dvr_playback.c.                                               *)
THEOREM DecoderInvHolds == TrickSpec => []DecoderInv
<1>1. TrickInit => TrickIInv
  BY TrickStarts
<1>2. TrickIInv /\ [TrickNext]_trickVars => TrickIInv'
  BY TrickKeeps
<1>3. TrickIInv => DecoderInv
  BY TrickImplies
<1>. QED
  BY <1>1, <1>2, <1>3, PTL DEF TrickSpec

(* Sound is decoded at normal speed only, and there it is the segment's,   *)
(* whichever way the speed was reached.                                    *)
THEOREM SoundFitsHolds == TrickSpec => []SoundFits
<1>1. TrickInit => TrickIInv
  BY TrickStarts
<1>2. TrickIInv /\ [TrickNext]_trickVars => TrickIInv'
  BY TrickKeeps
<1>3. TrickIInv => SoundFits
  BY TrickImplies
<1>. QED
  BY <1>1, <1>2, <1>3, PTL DEF TrickSpec
=============================================================================
