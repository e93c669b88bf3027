# libdvr in TLA+

libdvr records a transport stream into segment files, plays recordings back, and
does both at once (timeshift), for the set-top boxes of its vendor. This
directory holds TLA+ modules that model its parts, TLC configurations that check
them on small instances, and proofs, checked by TLAPS, of what holds for every
instance. All paths are relative to the repository; line numbers are of the
files under `src/`.

## 1. Inventory

| Part | State it keeps | Operations | Modelled by |
|---|---|---|---|
| player mutex, `dvr_mutex.c` | `lock`, `lock_cnt`, `thread` | lock, unlock, save, restore | `DvrMutex` |
| wrapper context lock, `dvr_wrapper.c:48-160` | `locked`, a pthread mutex and condition | lock, timedlock, unlock, lock_if | `WrapperMutex` |
| wrapper sessions and event task, `dvr_wrapper.c:140-660, 1069-1290` | `record_list`, `playback_list`, `sn`, event lists, `running`, thread | open, close, start, stop, event handler, `wrapper_task` | `WrapperThread` |
| recording session, `dvr_record.c` | `state`, `segment_handle`, `segment_info`, `discard_coming_data`, thread | open, close, start/next/stop_segment, pause, resume, discard, `record_thread` | `DvrRecord` |
| segment life in the wrapper, `dvr_wrapper.c:683-1067, 2680-2950` | segment lists of the recorder and of the player, `obsolete`, `next_segment_id` | record and playback event handling, timeshift limits, playlist updates | `WrapperTimeshift`, `WrapperPlayback` |
| wrapper playback API, `dvr_wrapper.c:1558-2330` | playback context, `last_event`, `seg_status`, `speed` | open, start, stop, pause, resume, speed, seek, update | `WrapperPlayback`, `WrapperTimeshift` |
| record device, `record_device.c` | pid slots, filter fds, DVR fd, secure buffers, `state` | open, close, add/remove_pid, start, stop, set_secure_buffer, read | `RecordDevice`; read in `DvrRecord` |
| time index of a segment, `segment.c` | `cur_time`, `last_pts`, `avg_rate`, the lines of the .idx file, the place in the .ts file | write, update_pts, update_pts_force, seek, read, tell | `SegmentIndex` |
| files of a recording, `segment.c`, `dvr_segment.c` | .ts, .idx, .dat, .going of each segment; .list, .dat, .stats of the recording | open, close, store/load info, link, get_list, get_info, delete | `SegmentFile`, the deletion of single segments in `WrapperTimeshift` |
| player: thread and playlist, `dvr_playback.c` | `state`, segment list, `segment_handle`, `drop_ts`, buffer, thread | start, stop, pause, resume, seek, add/remove_segment, `_dvr_playback_thread` | `DvrPlayback` |
| player: commands, speeds, streams, `dvr_playback.c` | `cmd`, `speed`, `first_frame`, `fffb_*`, `has_*`, pids, trick mode | start, stop, pause, resume, seek, set_speed, update pids, the trick part of the thread | `DvrTrick` |
| demux filters, `dvb_dmx_wrapper.c` | filters, callbacks, data thread | open, alloc, set, start, stop, free | not modelled |
| data-out segment, TS indexer, cryptor, frontend, helpers, test programs | little | - | not modelled: data formats and I/O |

**Interaction.** An application calls the wrapper. The wrapper locks a context
and calls the recorder or the player under that lock. The recorder's thread
reads the record device, writes to the segment and its index, and posts events
to the wrapper's list; the wrapper's *record task* takes them, locks the context
of their session and acts on them: it starts the next segment, removes the
oldest ones, updates the playlist of the player (locking the playback context
too), resumes a player that ran out of data, and notifies the application. The
player's thread reads the segments, feeds the decoder (`AmTsPlayer`) and posts
events of its own, which a second task of the same code serves. Recorder and
player share the files: the player reads an index that the recorder writes.

**What is hard.** (1) State shared without a lock: the recorder's thread works
on `segment_handle` and `segment_info` beside the API and only `pthread_join`
separates them; `wrapper_task` looks contexts up and reads `running` unlocked;
`dvr_mutex` reads its owner unlocked; the index is read while it is written.
(2) Joins under locks: the last close joins a task that may be waiting for a
context lock; stop_segment joins the recorder's thread under the context lock;
the player's stop joins a thread that may be in a timed wait or in a write that
is refused again and again. (3) Late events: an event is served when the session
that posted it may be paused, stopped, closed, or replaced. (4) Calls that fail
halfway: start_segment, next_segment, stop_segment, the ioctls of the device.
(5) A process killed between a write and the store of what was written.
(6) Limits: segment size, timeshift size and time, at which segments are
switched and removed while they are played; the end of the data, which the
player waits at, tells, and leaves again. (7) Timed waits: a time-out races the
signal it waits for. (8) One state that many calls describe: speed, pause, seek
and changed pids reach the decoder through `cmd`, in several threads.

**What makes each part correct.** *Mutexes*: exclusion, the depth survives a
timed wait, nothing leaks, no wake-up is lost. *Sessions and task*: an event is
handled under the lock of its own open session and in order, one task runs
exactly while there are sessions, a close returns, every event is served.
*Recorder*: no thread meets a segment that a call is changing, no block is lost
or doubled, sizes in memory and on disk never exceed the file, the thread can
always be joined. *Segment life*: the playlist follows the record list, one
segment always stays and never the played one goes. *Playback API*: locks come
back, the list is whole, a player that waits for data goes on, one that the user
holds does not. *Device*: slots, filters and state agree after a partial
failure; a shared buffer lives as long as its users. *Index*: order, a seek ends
in the file, a told time is not taken back. *Files*: after a kill a playback
finds what was recorded. *Player*: the recording reaches the decoder in order
and whole, the end is told at the end, calls return. *Decoder*: sound, speed and
pause are those the player reports.

`PROJECT.json` lists every hazard with its line, and the properties that are
there for it.

## 2. Modules

### RecursiveLock, LockThreads, DvrMutex, PlayerProofs
`LockThreads` declares the threads of both locks, so that one module,
`PlayerProofs`, can prove about both and about `DvrTrick` (the names of the
specification begin with `Flag` in `WrapperMutex` and with `Trick` in `DvrTrick`).
`RecursiveLock` is what `dvr_mutex.h` promises: an owner and, per thread, how
deep it is inside; wait gives the whole depth up and takes it back.
`DvrMutex` is what `dvr_mutex.c` does, one assignment or one test per step,
because `thread` and `lock_cnt` are read without the pthread mutex. `Lock*`,
`Unlock*`, `Save*`, `Restore*` are the steps of the four functions; `Wait` and
`Wake` stand for the only user of save and restore, the timed wait of the player
(`dvr_playback.c:321-342`). Threads call unlock at any time, also when they are
not the owner. The instance in `DvrMutex` that maps the owner and the depths
makes `RecursiveLock!Spec` a property of it.

### WrapperMutex, PlayerProofs
`DVR_WrapperMutex_t`: a flag under a pthread mutex with a condition variable.
The pthread mutex is a variable (`mutex`), and every section of the three
functions is entered and left in steps of its own, because unlock signals after
it has left the mutex. A wait may end by a signal, spuriously, or by its
time-out. A signal wakes one waiter that has not timed out.

### WrapperThread, WrapperThreadProofs
The context table, the serial numbers, the event list and the task of one of
the two services (record or playback: the same code). The wrapper lock is one
step here, since `WrapperMutex` shows it is a lock; a section under
`wrapper_thread.lock` is one step; each unlocked read is a step. Actions named
`Open*`, `Op*`, `Release`, `Join*` are the API, on the application threads;
`PostEvent` is the recorder's callback; `Task*` and `LockIf*` are
`wrapper_task` and `wrapper_mutex_lock_if`. What a handler does with an event is
left out.

### DvrRecord, DvrRecordProofs
One session of `dvr_record.c`, with its segment files and the state machine of
the device behind it. The calls come one at a time, as the wrapper makes them
under the context lock, but a call is cut wherever something else may happen or
fail: the join, the store of the info, the close, the reopening of the next
segment, the pids, the start of the thread. The `Rec*` actions are the thread,
beside the calls and without a lock. A block is a number, a file a sequence of
blocks, a size a number of blocks; `dat` and `allInfo` are the sizes on disk.
`LateNext` says whether the event that asks for the next segment may be served
after the recording was paused or stopped.

### WrapperTimeshift, WrapperTimeshiftProofs
The list of segments of a timeshift, on its four places: the record context
(`rsegs`), the playback context (`psegs`), the player (`playlist`) and the disk
(`files`; `dying` are those whose deletion thread has not run). The record task
holds the record context from `Take` on, the event it took, until it is idle
again; every section under the lock of the playback context is one of its steps
(`UpdatePlayback`, `UpdateNext`, `AddNext`, `Refuse`, `RemovePlayback`), so that
the application, the player, the playback task and the recorder's thread may run
between any two. `Generate` is `process_generateRecordStatus`, which runs up to
three times for one event. A segment is its id and its size; a duration is as
long as the size, in the same unit, so `MaxTime` and `MaxSize` are both limits on
the number of blocks. Of the player there is the list, the segment it is in and
the ways it may go to another one.

### WrapperPlayback, WrapperPlaybackProofs
What a playback context knows of a recording that goes on, and how the player is
kept going at the end of the data. A start (`StartPlayback`, `LockRecord`,
`LockPlayback`, `Load`, `SeekFirst`, `Go`) takes the lock of the recording
first and then its own, loads the list from disk and lets both go; the record
task (`Take` ... `TaskLink`) updates the durations in the list of the playback,
adds the next segment and links it on disk in a later step. `UpdatePlayback`
holds the decision of `dvr_wrapper.c:745-772` to resume the player: from
`last_event`, the place and the state the player last told (`note`) and the data
beyond it. The player (`Play`, `NextSegment`, `ReachEnd`, `PauseAtEnd`,
`TellEnd`) tells its end in a step after it has paused, and `HandleEvent` is the
playback task. The two context locks are taken where the code takes them; a
segment is an id and a duration.

### RecordDevice, RecordDeviceProofs
The table of devices and of the pids of each, beside the demux filters of the
kernel, so that the two can be compared. One action per call: `OpenFind` and
`OpenTake`, `AddPid`, `RemovePid`, `Start`, `Stop`, `SecureLook`/`SecureDone`,
`CloseLook`/`CloseDone`; those that look at other devices are cut after the
look. Each ioctl of a call may fail, and the call goes on or returns as the code
does (`Faults`). `forgotten` are the filters a close leaves open. `Clone` is
`dvr_ts_clone_enable()`: with it the number of a secure buffer (`Sid`, the code's
`get_sid`) is that of the demux and devices of one demux share (`SharedWith`),
while a close looks for another user by the frontend and frees the number of the
frontend in both cases (`LastUser`, `CloseDone`). Both are numbers, so `Sources`
and `Demuxes` may overlap.

### SegmentIndex, SegmentProofs
The writer of an index (`segment_update_pts` with its three cases: the first
PCR, the system clock, the PCR that follows or jumps) and its readers, which see
a prefix of it at any moment: `SeekOffset`, `TellPositionTime`,
`TellCurrentTime`, `TellTotalTime` are functions of the lines. `Advance` is the
estimate of time by the average rate; where the code converts infinity or NaN to
int, either outcome is taken.

### SegmentFile, SegmentProofs
The files of a recording, operation by operation: a new recording that first
wipes an old one of the same name (`Wipe*`), one that is appended to, the .ts
opened and created before the rest, the first info, the link into the list, the
statistics, the infos at the end, the removed mark - with a kill of the process
between any two. The wrapper links a segment without looking at what
dvr_record_start_segment or dvr_record_next_segment returned, so a segment is
listed too when its files were not opened (`OpenFails`), when the device did not
start (`DeviceFails`) and when a switch was refused (`NextRefused`: the pids
change in pause, or after a failure); `unopened` are the segments of the first
and the last kind. `StopFails` and `GiveUp` are the ends of such a recording.
`Load` is what a playback then loads, by one of two ways
(`dvr_segment_get_allInfo` or the info of each segment). `FilesInit`, `FilesNext`
and `FilesSpec` bear this name because the proofs extend both this module and
`SegmentIndex`.

### DvrPlayback, DvrPlaybackProofs
The playback thread at normal speed and all that interferes with it. A section
under `player->lock` is one step, because `DvrMutex` shows it is a lock; the
thread is cut where it lets the locks go: `Begin` (the unlocked look at
`segment_is_open`) and `FirstSegment`, `Read`, `Change` (the new
segment), `Empty` / `NoData` / `Reached` (no data: wait, tell, pause), `Drop`,
`Write`. A seek is cut (`SeekOpen`, `SeekFile`, `Sought`) since it holds the
second lock, `segment_lock`; a stop is cut around its join. The recorder appends
(`Grow`) and adds segments at any time. A unit is half a block, so that a
segment may end within one.

### DvrTrick, PlayerProofs
The commands of the player and what they tell the decoder: every call to
`AmTsPlayer` that starts, stops, pauses, resumes, speeds or changes the sound is
a field of `p`. `Replay`, `FffbReplay`, `VideoStart`, `AudioStop` ... are
`_dvr_cmd`, `_dvr_playback_replay`, `_dvr_playback_fffb_replay` and the
functions they use; the thread's part is the frame after a seek, the frame of a
start in pause, and the move of a fast forward or backward, for which it lets
the lock go. The wrapper serialises the calls, but against the thread a call is
as many steps as it has sections (`call` says where it is): pause and resume
read state and command before they take the lock (`Pause`/`PauseLocked`,
`Resume`/`ResumeLocked`); set_speed lets it go around the start of the audio
(`NormalSpeed`, `NormalAudio`, `SpeedSet`); the change of pids holds none while
it updates the description and the audio, each of which reads the state again,
and takes it to store the pids (`UpdatePids`, `UpdateAd`, `UpdateAudio`,
`UpdateStore`). The update of one pid, which holds no lock at all, is one step.
The thread's own pause is two steps, the state it reads and the pause
(`AtBegin`/`BeginPause`, `AtEnd`/`EndPause`), and so may fall between any two
sections of a call. The end may come to a start in pause before its frame. The
set `cmd.cur` keeps the bits the code keeps (RESET_V and RESET_A name no bit
that any test reads: `dvr_playback.c:3116-3119`).

## 3. Runs

The properties with a name in `...Inv` (and `BufferAsUsed`, `IndexReads`,
`SoundFits`) are conjunctions; the parts have names and comments of their own in
the module.

| Run | Shows | Bounds, and why they are enough |
|---|---|---|
| `dvr_mutex` | exclusion, depth = count, refinement of `RecursiveLock` | 3 threads, depth 3: two that contend and a third that barges in, nesting around a wait |
| `wrapper_mutex` | one owner, no lost wake-up | 3 threads, any mix of timed and untimed locks: an owner and two waiters, of which one times out |
| `wrapper_thread` | events reach only their own open session, in order; one task; `running` counts; every close returns; no event stays in the list of an open session | 2 application threads (one opens and closes), 2 contexts, 3 sessions, 2 events: a context is used twice while another session keeps the task alive |
| `dvr_record` | one writer, no lost or doubled block, sizes and stored sizes; no segment stays open without a handle; `pthread_join` returns | 2 segments, 4 blocks, 2 threads, 3 pause/resume/discard calls, size guard 3, every failure, late events or none: a switch, a stop and a restart around a full segment |
| `wrapper_timeshift` | no late event cuts a segment short; record list, playback list, player and disk agree; one segment always stays | 3 segments of 2 to 4 blocks, limits of 4, 3 calls of the playback, 1 event in each list: both limits are exceeded in one event with two segments and with one, each of the first two segments is removed, a playback is stopped and started again around a removal |
| `wrapper_playback` | both context locks come back, the list is whole with final durations, a seek lands where it was asked, a player that ran out of data goes on and one that the user holds does not, calls return | 2 segments of up to 2 units, resume at 1, 1 pending event besides the first, 3 calls; a timeshift and a recording that goes on: a start falls between any two steps of a change of segment, an end of data is told before, in and after an update, a pause, seek or speed falls between the end and its event |
| `record_device` | pid table = kernel filters after any failure, none lost, a stopped device captures nothing, a secure buffer lives as long as its users | 2 devices, 2 slots, 2 pids, 2 descriptors, 2 sources, no clone of the stream; the opening of a filter, DMX_SET_PES_FILTER, DMX_STOP and the allocation fail, DMX_START does not (section 4): full tables, the same pid in two devices, buffers shared and not |
| `segment_index` | the index is sorted, a seek ends in the file, times grow with places, seek and tell agree, a told time stays | PCRs 0, 2, 5, 8 at every order (repeats, jumps forward within and beyond the threshold, jumps back), 3 updates and the final one, 4 bytes in blocks of 1 or 3, times 0, 2, 5, alignment none or 2; the three distances in the order of the code's |
| `segment_file` | a playback starts after any kill or failed step, unless a listed segment that was never opened stops it, and has what was recorded; infos belong to their data, `.going` marks what is written, appending keeps data | 3 ids, 3 recordings (new or appended), 2 kills between any two file operations, files and devices failing at any start, switch and stop: a kill or a failure, an append to what it left, another of that |
| `dvr_playback` | the decoder gets the recording in order and without a gap, the end is told at the end, pause is quiet, NODATA is answered, calls return, a playing player gets to the end | 2 segments of up to 3 units, blocks of 2, a decoder that takes 2 blocks, 3 calls, read errors, both values of the end-of-data test: a block is cut by the end of a segment, a write times out with and without a pause, a segment is added, removed, sought, while the thread is at any place |
| `dvr_trick` | sound only at normal speed and the right one, decoder speed, pause, trick mode as the player reports them, nothing left after stop, a start in pause pauses, a fast backward ends in pause | any 4 calls in their sections (about 760,000 states), speeds 1, 2 (the decoder's), 8 and backward (the thread's), 3 audio pids, 2 descriptions, 3 places: to a trick speed, a pause or an end in it, and back |
| `start_keeps_lock` | a violation: section 6 | the smallest that shows it |

Every counter that could grow without end is bounded by a constant named in the
module (`MaxSn`, `MaxEvents`, `MaxSegment`, `MaxBlock`, `MaxThread`, `MaxCall`,
`MaxDepth`, `Ahead`, `MaxUpdate`, `MaxSession`, `MaxCrash` ...). The bounds stop a
run where the program would go on, and the program itself may rest for ever when
nobody calls it, so the runs do not look for deadlocks; that nothing hangs is
what the liveness properties say. The two mutexes are checked for deadlock.
`record_device` uses the symmetry of pids and of sources; it has no liveness
property.

**Fairness.** Weak fairness on each thread's next step, where the step is one
the thread is bound to take: a task, a record or playback thread, a call under
way. No call has to be made, no event has to be posted, and a block has to
arrive only where a property is about what follows from data. The player mutex
has no liveness property: `pthread_mutex_lock` promises no turn. `EventsServed`
and `CloseReturns` assume that the other calls come to an end at some time,
since a task that asks for a context lock every 10 ms is promised no turn
either. `NoLostWakeup` assumes of the condition variable only that it is a POSIX
one, and of a waiter that has timed out that it does not take a signal.
`WrapperPlayback` assumes in addition that the recording gets data and that who
waits for a context lock that is free again and again gets it at some time (SF of
`LockRecord` and `StopSegment`): the record task holds that lock for the length
of an event and waits between events. `DvrPlayback` assumes that a decoder that
is not paused shows what it has and reports its first frame; `DvrTrick` the
latter, and that time passes (`Tick`).

**What the properties leave out.** Some statements hold except in windows that
are code behaviour of their own; a history variable marks them, so that they are
excluded by name and not by leaving the steps out:

* `DvrPlayback.seen.raced`: a seek between the check of `drop_ts` and the write
  (`dvr_playback.c:1482`), or a recorder's write between a read of nothing and
  the change to the next segment: the block read before is written after, or the
  tail of the segment is skipped; or a seek between the look at
  `segment_is_open` and the change to the first segment (`998-999`): the segment
  it opened is passed over, or the thread leaves. `seen.moved`: data or a
  segment came after the last read, so that the end told is that of a moment
  ago.
* `DvrTrick.odd`: calls with known consequences of their own. A start that keeps
  the trick speed or command of the play before; a speed set while the thread is
  on its way to a move or to the pause at the beginning, or before the frame of a
  start in pause; a second seek before that frame; a trick speed left in pause
  for another than X1; a change of the description; any change of pids in pause.
* `DvrTrick.cut`: the thread pauses the player, at either end or at the frame of
  a start in pause, in a gap of a call that has read the state before. What the
  code then does: the audio start of set_speed sets the state back to START with
  the video paused (`dvr_playback.c:3764-3768` against `1330`); a change of pids
  stores pids it has not started (`2321-2349`, `2398`; section 6);
  a resume that took the branch of a player that plays leaves it paused (`2850`).
  `PlaysAtKernelSpeed`, `SoundFits` and the rest are claimed for every other
  interleaving of the sections with the thread.
* `SegmentFile.unopened`: a listed segment without files. It stops a playback
  while no segment has ended or segment 0 has no files (every listed segment is
  then opened: `dvr_wrapper.c:1748-1815`), and when it is the last of a list from
  0 (`1833`); else it is passed over. `PlaybackStarts` says that nothing else does.
* `WrapperPlayback.past`: `masked`, the player told its time again after its
  end, which hides the end from the decision of `dvr_wrapper.c:747`; `missed`, a
  playback of a recording loaded its list before the new segment was linked and
  after it was added to the lists; `held = "loose"`, a speed set in a pause.
* `WrapperTimeshift.clean`: a playback started while no deletion was pending.
* `SegmentFile.WipeCrash`: a kill while an old recording is deleted, which
  leaves an old `.dat` behind that a later recording takes for its own.

## 4. Proofs

*PlayerProofs*, the player's mutex. For every set of threads and every
`MaxDepth` (assumptions: `NoThread` is not a thread, `MaxDepth` is a positive
number): types, exclusion, `lock_cnt` = depth inside the mutex, nothing leaked,
and that `DvrMutex` implements `RecursiveLock`. Exclusion alone is not
inductive: the owner test is unlocked and a thread may be anywhere between two
assignments. The inductive invariant `IInv` adds `OwnerInv` - which thread the
`thread` field may name while the pthread mutex is held and by whom, so that a
thread that reads itself is the holder - and `CountInv` - `lock_cnt` against the
depth at every place between two assignments. The proof has a step per action;
the temporal theorems combine `IInv`'s three facts; the refinement is shown step
by step.

*PlayerProofs*, the lock of a wrapper context. For every set of threads: types
and one owner of the flag. `FlagIInv` is `MutexInv` (who is inside the pthread
mutex), `FlagInv` (the flag says that somebody owns the lock) and `ResultInv`
(what the timed lock's result implies about where the thread is).

*PlayerProofs*, what the decoder is told. For any number of calls, any set of
speeds the code has, any pids and any number of places (assumption:
`TrickAssumption`): `DecoderInv` - the decoder plays at the speed the player
reports and is not frozen, nothing is left in it after a stop, a pause holds it
- and `SoundFits` - sound at normal speed only, and there the sound of the
segment - for every interleaving of the sections of a call with the thread, as
long as no call of `odd` came before and the thread did not pause in a gap
(`Regular`, section 3). Neither is inductive: that no sound plays at a trick
speed depends on which command comes next, and that on the command before.
`TrickIInv` has two halves. `AlwaysInv` holds whatever the calls: a stopped
player has no stream, any other has its video running and no sound without
`has_audio`, a command that stops the video is one that restarts everything, a
player in pause is paused in the decoder or will be at its next frame, and the
thread lives exactly while it is not stopped. `RegularInv` holds while `Regular`
does: `SoundFlags` (a flag `has_*` is set only for a stream that runs),
`MovingInv` (a speed that is moved frame by frame has the command FF or FB that
belongs to it, and sound at most until its first move) and `KernelInv` (at a
speed of the decoder, the decoder was told this very speed, is silent but at X1,
and the command is one that no replay takes for a trick; in the middle of
set_speed the sound is ahead of the speed, and in that of a change of pids ahead
of the pids: `Sounds`, `Wanted`) and `CallInv` (what a call has read without the
lock still holds where it goes on, which is what a pause in a gap breaks). Each
helper of the code has a relation that says what it leaves (`VideoOff`,
`AudioOn`, `Replayed` ... of the player before and after) and a lemma for it;
each action has one lemma, which uses the relations only.

*WrapperThreadProofs.* For any number of contexts, application threads, sessions
and events (assumptions: contexts have positive numbers and are finitely many,
threads and tasks differ), when one thread opens and closes (`OneOpener`): types,
one task, `running` = sessions, events in order (`SessionsAgree`), an event is
handled under the lock of its own session (`HandlesOwn`), and a session is never
without a live task (`SessionHasTask`). `OneOpener` is needed: two opens may
choose the same context (`dvr_wrapper.c:1079`), and an open that meets the last
close starts a second task before the first has ended. What is inductive
(`AllInv`): for an application thread at each place, the slot it has, its lock,
and whether the session is there yet (`AppInv`); tasks and threads
(`ThreadInv`): every task once belonged to a session, the live one is
`thread_ctx->thread`, and while `running` is 0 it lives only as long as the last
close waits for it; for the task (`TaskInv`): that it has the lock at the places
where `wrapper_mutex_lock_if` says so, which is true although `running` is read
three times, because a `running` that has become 0 stays 0 while the task lives;
and the order of the list itself (`QueueInv`). Two frame lemmas (`AppFrame`,
`TaskFrame`) say what a step of one leaves of the others; the cardinalities of
`RunningCounts` are reduced to plain numbers by `CountsAt`.

*DvrRecordProofs.* For any number of segments, blocks, threads and calls, with
and without a guarded size, and whatever fails: types (`TypeCorrect`, which needs
that no more blocks are accounted for than delivered), one writer, writes only to
the open segment, order, sizes in memory and on disk, the guard
(`RecordCorrect`), no block lost or doubled (`BlocksKept`), no segment left open
without a handle (`SegmentsAreClosed`). The argument: while a record thread is
live, the one call that can be under way is waiting in `pthread_join`, so the
thread alone touches `segment_handle` and `segment_info` (`OneLive`); the segment
of the handle is the newest and not yet in the list (`Newest`, `Unfinished`); a
block in hand is the last one delivered, so that what is appended is greater than
all there is (`HandIsLast`); `segment_info.size` is one behind the file exactly
while the thread accounts for its block (`SizeKept`). All but the types and
`SegmentsAreClosed` are under `OnTime`, as the properties are: an event that is
served after the recording was stopped breaks them (section 6).

*RecordDeviceProofs.* For any number of contexts, slots, pids and descriptors
(assumptions: they are numbers where the code counts them, `None` is none of the
rest): the tables are what the kernel has, with any number of threads and any
failure (`TablesAgree`); a device that is not started captures nothing, if
DMX_START does not fail (`DevicesAgree`: a start that fails at the second pid
leaves the first filter running, and says that the device is not started); no
filter is lost, with any number of threads as long as no open takes a context
that another one has taken since it was chosen (`NoFilterLost`; `OpenTake`
empties the table it finds), and so always with one caller (`LoneKeepsFilters`);
a secure buffer lives as long as it is used, with one caller and without `Clone`
(`LoneKeepsBuffers`), or with it as long as every open device has the number of
its frontend as its sid (`OwnSidKeepsBuffers`, `SidIsSource`); else it does not
(section 6). The inductive part is `IInv`: `SlotsAgree` and `NotShared`, slot by
slot; `NoPidNoFilter`; `ClosedIsBare`; and `CallsHold`, that a call between its
two steps has the lock of a context that nobody has closed or reopened. On it
stand `QuietInv`, `FiltersKept` (the open filters are those of the slots and
those a close has left) and `BuffersKept` (what a call between its steps is
about to do with the buffer is still right).

*SegmentProofs*, the index of a segment. For all sets of times and sizes, any of
the three distances, and a segment of any length (assumptions: they are numbers,
a block is not empty, `Unset` is no number): the index is sorted by time and
place (`IndexSound`); no seek ends beyond the data, the times that are told grow
with the places and stay below the total, and the time of a line leads back to
it (`ReadsAreRight`); and no line that is added changes a told time to an
earlier one (`TimeIsNotTakenBack`). That the lines are sorted is not inductive:
what has to be known is that `cur_time` is at least the time of every line and
that the last offset is at least its place (`LinesBounded`), that with the
system clock `cur_time` is the time since the first PCR and this clock does not
go back (`ClockInv`), and that the estimate of `Advance` is never negative.
`AppendInOrder` is the lemma both writers of a line rest on, `AlignedBound` and
`LeastOf` those of the seek, `BetweenBounds` and `BetweenGrows` (the
interpolation between two lines, a quotient rounded down) those of the times,
and `TellAppend` that of a time told before and after a line is added.

*SegmentProofs*, the files. For any number of segments, sessions and kills
(assumptions: bounds are numbers, `None` is no number and no list): a recording
that is appended to keeps the data of its listed segments, also when a kill cut
a deletion short (`RecordedStays`); and if none does (`WipeCrash = FALSE`), what
is on disk outside a deletion is right, failed starts and switches included
(`FilesRight`), and a playback misses no recorded segment but an interrupted
one, or the one being written, that is not the last (`PlaybackIsWhole`).
`NextId` looks only at the last id of the list, so what makes it a new one is
that the list counts up by one from its first id (`ListInv`); this needs nothing
of deletions. The rest is `RightInv`: a segment that has any file has its .ts, a
listed one that was opened all its files and the info of its own data
(`SegmentsInv`); without a list there is nothing under the number of the next
segment (`CurrentInv`; with one there may be the remains of an interrupted one,
which the open truncates); an entry of the recording's .dat is of a listed
segment and of the session that wrote it, and a listed segment without an entry
was never opened, was interrupted or is the one being recorded (`EntriesInv`).
The end of a deletion establishes all of it anew (`WipedRight`), from the files
being gone alone.

*WrapperTimeshiftProofs.* For any sizes of segments and blocks, limits, number of
segments and length of the event lists (assumptions: `SizeAssumption`,
`BoundAssumption`): a segment ends only with its full size, however late its
event is served (`EndsAreFull`); the disk holds the segments of the record list
and those being deleted (`DiskIsListed`); a removal leaves the recording and a
playback that runs a segment (`OneStays`); the list of a playback that was loaded
cleanly is that of the recording (`PlaybackFollows`). What is inductive: an event
of the segment being written tells no more than was written (`EventsTrue`), and
the one that may end it is of this segment (`EventOfCur`), so that its size is
reached when it ends; the list is an unbroken run of ids from `Oldest` to the
newest (`Unbroken`), equal to the files less the dying ones (`DiskIsList`), so
that the one that goes is the oldest, and never the newest (`NewestStays`); and
the list of the playback differs from it only at the two places of the task where
it is about to change it (`Follows`). The rest of `TimeshiftInv`
(`TimeshiftCorrect`) is about sizes (`SizeInv`): an event or an entry of a list
tells no more of an ended segment than its final size (`EventSizes`, `Within`),
so that the totals of the task are bounded by what the segments can hold
(`TaskTotals`), and what is counted as obsolete by what the removed ones had,
also between the counting of a segment and its leaving the list (`ObsoleteInv`).
These are sums over sets of any size. The library defines them by a recursive
function over the subsets; the lemmas `SumStep` (a sum is that without one
element and the element), `SumTakes`, `SumSame` and `SumBound` are proved by
taking the smallest subset on which they would fail, which exists as inclusion
of finite sets is well founded.

*DvrPlaybackProofs.* For any number of segments, units and calls, any size of the
blocks and of the decoder's cache, and whatever segments do not open (assumption:
`PlaybackAssumption`): the blocks written are the units of the listed segments,
each once and in order (`InOrder`); the end is told when all there is has been
given (`EndTold`); `ts_cache_len` is what is in hand, a pause lets one block
through at most, and NODATA is answered before data goes on (`PlayerAgrees`); and
the thread reads from an open file only (`PlayerRight`, all of `PlayerInv`), if
every segment opens. `PlaysInOrder` looks at the moment of a write only, so what
is inductive is a chain (`ChainInv`): the unit the decoder expects, then the units
in hand, then the place of the open file, with no gap between two of them but the
end of a file and the begin of the next segment that opens. It is kept by the
lemmas about chains: of a read (`ChainReads`), a write (`ChainWritten`), a change
of segment (`ChainMoves`, which needs that a file that is not the newest has data),
a recorder or a removal (`ChainStays`), and at the end it says that nothing is left
(`ChainEnds`). It is torn only by the steps that set `raced`; `CurInv` says where
the thread may be while that has not happened, `LifeInv` that no thread runs
beside a stopped player, `TimeInv` that `ts_cache_len` is right at the places
between read and write, too.

*WrapperPlaybackProofs.* For any number of segments, events and calls, any
durations and any distance at which a playback goes on (assumption:
`FollowAssumption`): when the record context is free, a loaded playback that
follows a recording has each of its segments once and in order (`ListIsWhole`),
with the final duration of each that ended (`EndedAreFinal`); what the
application has put in pause nobody else sets going (`HeldIsLeft`); and an
application at rest holds no context lock (`LocksAreGivenBack`), if `"plain"` is
not in `Modes`, for of a plain playback it is false (section 6). `ListWhole`
speaks of an idle record task only, so what is inductive says for each place of
the task how long the list is (`Whole`), which durations are final (`Final`) and
how far the list file has come (`LinkInv`). A timeshift's list is loaded from
the files, which may be ahead of the list in memory; that a start then holds the
record context, and so finds the task idle (`LocksInv`), is why it is whole all
the same. `HeldInv`: a pause of the application has noted speed 0, by which the
record task does not take it for one at the end of data, and the player of a
start that is under way does not run yet. `PlaybackCorrect` is all of
`PlaybackInv`, under the same condition on `Modes`. A seek lands at the time
that was asked for (`PlaceOfSeek`, `TimeOfPlace`) as the sums of the durations
grow by one duration at a time (`SumSteps`, `SumGrows`: the least index on which
they would not) and the ids of the list rise (`Rising`), also in a list that
misses a segment. The durations of the list are not above those of the data, so
that a place found in the list is one in the data (`SeekInside`), and with it
all that the player tells and the wrapper notes (`PlayerInside`, `NotesInside`);
`Starts` counts the events.

The theorems have hypotheses of three kinds only: assumptions on the constants
that the modules state as ASSUME; `OneOpener` and `OneCaller`, which say how
many threads make the calls, as section 5 says of the runs; and `"start" \notin
Faults`, `FreshOpens`, `Clone = FALSE` or `SidIsSource`, `Missing = {}`,
`WipeCrash = FALSE` and `"plain" \notin Modes`, which name the failures, and the
use, under which the statement is false in the code.

Every invariant and every action property of the passing runs is stated by a
theorem. Only model-checked: all liveness, for fairness and ENABLED are beyond
the prover (`NoLostWakeup`, `CloseReturns`, `EventsServed`, `JoinReturns` and
those of the playback and of `DvrTrick`).

## 5. Assumptions of the models

* `DvrRecord`: a write is done as a whole or fails; the caller starts a segment
  when none is open, with an id above all it has used; the wrapper closes at
  once a session whose next_segment has failed (`dvr_wrapper.c:2865`);
  `pthread_join` of a thread that never was, or was joined before, returns at
  once (it is undefined). The loop test reads `state` once. The events that the
  thread posts are in `WrapperThread`.
* `WrapperThread`: an application closes a handle once; the recorder posts
  events between start and stop; in the run one thread opens and closes.
* `WrapperTimeshift`: the recording has `max_size` and a segment size set, and
  starts with segment 0; next_segment succeeds; the last segment is not allowed
  to reach its size (`MaxSegment` bounds the run); the player is a timeshift one
  and pids do not change. Left out: notifications and the .stats file, the
  playback's own count of what is obsolete.
* `WrapperPlayback`: no segment is removed (`WrapperTimeshift` has that), the
  recording starts with segment 0, the player opens what is in its list, and
  speeds are those of the decoder.
* `RecordDevice`: one application thread, as the wrapper makes the calls of one
  session one at a time; the threads of two sessions on one secure buffer are
  outside the run. Every device has the sid it was opened with; `Clone` does not
  change while one is open.
* `SegmentIndex`: integers for times and rates; two PCRs at time 0, whose rate is
  infinite or not a number, leave either outcome where the code converts it.
* `SegmentFile`: a kill of the process, not a loss of power: what was written is
  there. File formats are abstracted to what they say. Left out: a `.going` file
  or a recording's `.dat` that alone does not open (segment_open takes no notice),
  writes and seeks that fail, and a second start without a stop after a start
  that failed.
* `DvrPlayback`: normal speed, no decryption; time-outs come at any time but
  those that the code counts are counted; the wrapper serialises the calls.
* `DvrTrick`: recordings with video, a `FOR_OTT_49490`-less build, pids that do
  not change between segments.
* Left out everywhere: the text of logs, allocation failures, parameter checks
  against NULL.

## 6. Where code and comments disagree, and what else was seen

With a run: `dvr_wrapper.c:1977` "unlock the recorder locked above":
start_playback locks the context of a running timeshift recording for every
playback, and unlocks it only for a timeshift one (`start_keeps_lock`).

Reachable in the models, without a run of its own; the properties above are
stated so that they say what holds beside these:

* `dvr_playback.c:2282-2283` "if updated segment is ongoing segment, we need start
  new add pid stream and stop remove pid stream": when the thread pauses the
  player at the end between the unlock of 2329 and the update of the audio, 2099
  finds no player that plays, 2398 stores the pids all the same, and after a
  resume the old audio plays. `SoundPlays` without `cut` is violated so in three
  calls; `PlaysAtKernelSpeed` without it by the gap of set_speed (3764-3768).
* `record_device.c:619` "shared by multiple recordings under one sid", and 73, by
  which a buffer is freed by sid: where the driver clones the stream the sid is
  the demux (146-153, 701-710), but close compares and frees by the frontend
  (296-304), which dvr_record_open leaves 0 (`dvr_record.c:642-653`). Closing a
  device of another demux frees the buffer of demux 0 under its user, and its own
  is never freed. With `Clone = TRUE`, `Sources = {f1}` and `Demuxes = {f1, f2}`
  `BufferAlive` is violated by two opens, two set_secure_buffer and a close.
* `dvr_wrapper.c:1832` "last info is not found if when recording occured power
  off.": it is not found either after an ordinary stop of a recording whose pids
  changed in pause, or whose switch failed, since the segment is linked whatever
  came of it (1254, 1464, 2765), and the playback then does not start. It is the
  third alternative of `PlaybackStarts`.
* `dvr_wrapper.c:586` "return condition, locked if condition == true":
  `wrapper_mutex_lock_if` reads the condition three times, and may return false
  with the lock or true without it.
* `dvr_wrapper.c:1078` "get a free ctx": two threads that open at once may get
  the same one.
* `dvr_wrapper.c:2864`: after a late size-limit event next_segment refuses and
  the session is closed while its record thread runs (`dvr_record.c:875`).
* `dvr_wrapper.c:2807`: when an event ends a segment and meets a limit, its
  sizes are put over the final ones, and the segment is later counted obsolete
  with less than it had. `ObsoleteIsRemoved` says that no more is counted than
  was removed.
* `dvr_wrapper.c:1020`: a stopped playback still refuses the removal of the
  segment it was in, and of the next when it was fast: neither is reset.
* `dvr_wrapper.c:970`: a player that has been sent to the oldest segment and has
  not said so yet keeps it in its list when it is removed.
* `dvr_playback.c:3116-3119`: RESET_V and RESET_A take no command back.
* `dvr_playback.c:1483`: data read before a seek may be written after it.
* `dvr_playback.c:640-698`: when none of the segments behind the current one
  opens, its file has been closed already, and the thread goes on reading from no
  file (`1246`), with one byte less in hand each time, until a seek opens one.
* A last block shorter than `block_size` is never written; NODATA is not
  answered by DATARESUME when the data that ends it is of a new segment; a stop
  leaves `ts_cache_len`; a read error ends the thread with `is_running` set.
* A trick speed survives a stop; the other cases of `DvrTrick.odd` and `cut`
  leave sound, speed or pause different from those reported.
* A stop does not close a segment whose switch failed after its files were
  opened: its `.going` mark stays (`SegmentFile.GiveUp`). So does that of an open
  that fails late (`OpenFails`).
* A recording killed while its files were wiped keeps an old `.dat`; a segment
  that was interrupted and followed by others is not played.

Seen in the code, not in a model:

* `dvr_wrapper.c:1711`, `1727`, `1733`: early returns of start_playback that
  keep the record lock; `1204`: start_record leaves the wrapper lock taken when
  the location is too long; `2010-2099`: restart_timeshift changes fields of the
  playback context without its lock; set_playback_speed notes a speed that the
  player has refused; `609`: events may stay in the list when the task ends.
* `dvr_record.c:1011` joins a thread that was never created when start_segment
  has failed; `907` leaves the segment open when store_info fails; `491` takes a
  short write for a whole one; `804` accepts a start in PAUSE, beside a running
  thread; `112` initialises two of four sessions; `553` never leaves the discard
  of a segment that was switched while discarding.
* `record_device.c:547`: the eventfd that stop writes is never read, so that
  every later poll returns at once.
* `dvr_segment.c`: a recording is deleted by a prefix of its name, also another
  one whose name goes on after it; a segment deleted by a detached thread may be
  one of the same id that was recorded since.
* `segment.c:355`: the average rate is a quotient that may be infinite or NaN.

## 7. Not modelled

`dvb_dmx_wrapper.c` is used by nothing else in the library. `ts_indexer.c`
parses bits of elementary streams; `am_crypt.c` calls a DES library;
`segment_dataout.c` forwards blocks to a callback; the frontend, demux-source
and sysfs helpers are ioctls and file reads; the test programs are command lines
for a set-top box. Of the modelled parts: VOD recording and resume_segment in
`dvr_record.c`; pid updates of a running session in the wrapper (the player's
side is in `DvrTrick`); the limit mode of `dvr_playback_set_obsolete`; the
play-time arithmetic of `_dvr_get_play_cur_time`; the change of pids at a
segment's begin (`_dvr_replay_changed_pid`); recordings of sound only.

## 8. What is left of the plan

1. A refinement of `DvrTrick` by the pauses of `DvrPlayback`.
2. `DmxWrapper`: filters and callbacks against free and restart of a filter.
3. The composition of wrapper sessions and recorder table: a recorder closed by
   the record task while the application holds its handle.

