------------------------------ MODULE DvrRecord ------------------------------
(***************************************************************************)
(* One recording session of src/dvr_record.c: the session's state, its     *)
(* segment files, the record device behind it, and the record thread that  *)
(* moves blocks from the device to the open segment.                       *)
(*                                                                         *)
(* The calls come one at a time (dvr_wrapper.c makes them under the lock   *)
(* of the wrapper context), but the record thread runs beside them and     *)
(* shares p_ctx->state, segment_handle and segment_info with them without  *)
(* a lock: pthread_join in next_segment and stop_segment is the only       *)
(* synchronisation.                                                        *)
(*                                                                         *)
(* Data: the device delivers blocks 1, 2, 3, ...; a segment file is the    *)
(* sequence of the blocks written to it and a size is a number of blocks.  *)
(***************************************************************************)
EXTENDS Integers, Sequences, FiniteSets, SequencesExt

CONSTANTS MaxSegment,    \* bound: segment ids are 1 .. MaxSegment
          MaxBlock,      \* bound: blocks the device delivers
          MaxThread,     \* bound: record threads created
          MaxCall,       \* bound: pause, resume and discard calls
          Guard,         \* guarded_segment_size; 0: no guard
          Faults,        \* which of "open", "device", "store", "write" may fail
          LateNext       \* with TRUE in it, the event that asks for the next
                         \* segment may be served after the recording was
                         \* paused or stopped

ASSUME BoundAssumption == {MaxSegment, MaxBlock, MaxThread} \subseteq Nat \ {0}
ASSUME GuardAssumption == Guard \in Nat /\ MaxCall \in Nat
ASSUME FaultAssumption == Faults \subseteq {"open", "device", "store", "write"}
ASSUME LateAssumption == LateNext \subseteq BOOLEAN

Segments == 1 .. MaxSegment
Threads == 1 .. MaxThread
None == 0                   \* NULL handle, no thread, no segment, no block
Never == -1                 \* no info stored

VARIABLES
  state,      \* p_ctx->state
  handle,     \* p_ctx->segment_handle: the id of its segment, or None
  info,       \* p_ctx->segment_info: [id, size]
  discard,    \* p_ctx->discard_coming_data
  thread,     \* p_ctx->thread
  device,     \* state of the record device
  delivered,  \* number of blocks read from the device so far
  opened,     \* segments whose files are open
  file,       \* per segment: the blocks in its .ts file
  dat,        \* per segment: the size in its .dat file, or Never
  allInfo,    \* per segment: the size in the recording's .dat list, or Never
  rec,        \* per record thread: [at, block], block being the one in hand
  api,        \* the call under way: [at, op, ret], and whether the events
              \* of the session may be late
  calls,      \* pause, resume and discard calls so far
  dropped     \* history: the blocks the thread read and skipped

ctx == <<state, handle, info, discard, thread>>
disk == <<opened, file, dat, allInfo>>
vars == <<state, handle, info, discard, thread, device, delivered, opened,
          file, dat, allInfo, rec, api, calls, dropped>>

States == {"CLOSED", "OPENED", "STARTED", "STOPPED", "PAUSE"}
Places == {"none", "test", "read", "got", "write", "account", "exit"}
Ops == {"open", "start", "next", "stop", "close", "pause", "resume", "discard"}
ApiPlaces == {"idle", "startDevice", "run", "join", "store", "closing",
              "reopen", "pids"}

NoInfo == [id |-> None, size |-> 0]

Init ==
  /\ state = "CLOSED" /\ handle = None /\ info = NoInfo
  /\ discard = FALSE /\ thread = None /\ device = "closed" /\ delivered = 0
  /\ opened = {}
  /\ file = [s \in Segments |-> <<>>]
  /\ dat = [s \in Segments |-> Never]
  /\ allInfo = [s \in Segments |-> Never]
  /\ rec = [k \in Threads |-> [at |-> "none", block |-> None]]
  /\ api \in [at : {"idle"}, op : {"close"}, ret : {TRUE}, late : LateNext]
  /\ calls = 0
  /\ dropped = {}

Live(k) == rec[k].at \notin {"none", "exit"}
Fresh == {k \in Threads : rec[k].at = "none"}

(* A call that returns at once, a call that goes on, its next step, its    *)
(* end.  The wrapper closes the session at once when next_segment fails.   *)
FailedNext == api.op = "next" /\ ~ api.ret
Called(op, place, ret) ==
  /\ api.at = "idle" /\ (FailedNext => op = "close")
  /\ api' = [api EXCEPT !.at = place, !.op = op, !.ret = ret]
Return(op, ret) == Called(op, "idle", ret)
Begin(op, place) == Called(op, place, TRUE)
Goto(place) == api' = [api EXCEPT !.at = place]
Finish(ret) == api' = [api EXCEPT !.at = "idle", !.ret = ret]

-----------------------------------------------------------------------------
(* dvr_record_open *)
Open ==
  /\ Return("open", TRUE)
  /\ state = "CLOSED"
  /\ state' = "OPENED"
  /\ device' = "opened"
  /\ discard' = FALSE
  /\ UNCHANGED <<handle, info, thread, delivered, disk, rec, calls, dropped>>

(* dvr_record_close clears the whole context.  The wrapper calls it after  *)
(* stop_segment, and when next_segment has failed.                         *)
Close ==
  /\ Return("close", TRUE)
  /\ state # "CLOSED"
  /\ handle = None \/ FailedNext
  /\ state' = "CLOSED" /\ handle' = None /\ info' = NoInfo
  /\ discard' = FALSE /\ thread' = None
  /\ device' = "closed"
  /\ UNCHANGED <<delivered, disk, rec, calls, dropped>>

(* dvr_record_pause, dvr_record_resume, dvr_record_discard_coming_data:    *)
(* any state but CLOSED will do; the application controls what it started  *)
Control(op) ==
  /\ Return(op, TRUE)
  /\ calls < MaxCall
  /\ state # "CLOSED"
  /\ handle # None
  /\ calls' = calls + 1
  /\ UNCHANGED <<handle, info, thread, device, delivered, disk, rec, dropped>>

Pause == Control("pause") /\ thread # None /\ state' = "PAUSE" /\ UNCHANGED discard
Resume == Control("resume") /\ state = "PAUSE" /\ state' = "STARTED" /\ UNCHANGED discard
Discard == Control("discard") /\ discard' = ~ discard /\ UNCHANGED state

-----------------------------------------------------------------------------
(* segment_open for writing truncates the files of the segment *)
OpenSegment(s) ==
  /\ opened' = opened \cup {s}
  /\ file' = [file EXCEPT ![s] = <<>>]
  /\ dat' = [dat EXCEPT ![s] = Never]
  /\ handle' = s
  /\ info' = [id |-> s, size |-> 0]

(* the ids a caller may start: above all that it has used *)
NewSegment(s) == \A x \in Segments : x >= s => dat[x] = Never /\ x \notin opened

(* dvr_record_start_segment up to the segment and its parameters *)
Start ==
  /\ Begin("start", "startDevice")
  /\ state \notin {"STARTED", "CLOSED"} /\ handle = None
  /\ Fresh # {}
  /\ \E s \in Segments : NewSegment(s) /\ OpenSegment(s)
  /\ UNCHANGED <<state, discard, thread, device, delivered, allInfo, rec, calls,
                 dropped>>

(* ... or segment_open fails and nothing has happened *)
StartFails ==
  /\ "open" \in Faults
  /\ Return("start", FALSE)
  /\ state \notin {"STARTED", "CLOSED"} /\ handle = None
  /\ UNCHANGED <<ctx, device, delivered, disk, rec, calls, dropped>>

(* add the pids and start the device; a failure leaves the segment open *)
StartDevice ==
  /\ api.at = "startDevice"
  /\ \/ /\ device \in {"opened", "stopped"}
        /\ device' = "started"
        /\ Goto("run")
     \/ /\ device \notin {"opened", "stopped"} \/ "device" \in Faults
        /\ Finish(FALSE)
        /\ UNCHANGED device
  /\ UNCHANGED <<ctx, delivered, disk, rec, calls, dropped>>

(* the end of start_segment and of next_segment: store the info of the     *)
(* empty segment, then state STARTED and pthread_create                    *)
Run ==
  /\ api.at = "run"
  /\ LET k == CHOOSE x \in Fresh : \A y \in Fresh : x <= y
     IN  /\ thread' = k
         /\ rec' = [rec EXCEPT ![k] = [at |-> "test", block |-> None]]
  /\ dat' = [dat EXCEPT ![handle] = info.size]
  /\ state' = "STARTED"
  /\ Finish(TRUE)
  /\ UNCHANGED <<handle, info, discard, device, delivered, opened, file,
                 allInfo, calls, dropped>>

RunFails ==
  /\ api.at = "run" /\ "store" \in Faults
  /\ Finish(FALSE)
  /\ UNCHANGED <<ctx, device, delivered, disk, rec, calls, dropped>>

-----------------------------------------------------------------------------
(* dvr_record_next_segment, called by the wrapper for an event of a        *)
(* recording; up to pthread_join                                           *)
NextSegment ==
  /\ Begin("next", "join")
  /\ state = "STARTED" /\ handle # None
  /\ Fresh # {}
  /\ \E s \in Segments : NewSegment(s)
  /\ state' = "STOPPED"
  /\ UNCHANGED <<handle, info, discard, thread, device, delivered, disk, rec,
                 calls, dropped>>

NextRefused ==
  /\ api.late
  /\ Return("next", FALSE)
  /\ state \in {"PAUSE", "STOPPED"}
  /\ UNCHANGED <<ctx, device, delivered, disk, rec, calls, dropped>>

(* mutant: stop_segment does not wait for the thread *)
StopNoJoin ==
  /\ Begin("stop", "store")
  /\ handle # None /\ state \notin {"STOPPED", "CLOSED"}
  /\ state' = "STOPPED"
  /\ UNCHANGED <<handle, info, discard, thread, device, delivered, disk, rec,
                 calls, dropped>>

(* dvr_record_stop_segment up to pthread_join; a second stop just returns. *)
(* (A stop in state STOPPED with a segment would fail, but only a failed   *)
(* next_segment leaves that state.)                                        *)
Stop ==
  /\ Begin("stop", "join")
  /\ handle # None /\ state \notin {"STOPPED", "CLOSED"}
  /\ state' = "STOPPED"
  /\ UNCHANGED <<handle, info, discard, thread, device, delivered, disk, rec,
                 calls, dropped>>

StopReturns ==
  /\ handle = None /\ Return("stop", TRUE)
  /\ UNCHANGED <<ctx, device, delivered, disk, rec, calls, dropped>>

(* pthread_join; a thread that never was, or that was joined before, does  *)
(* not block                                                               *)
Join ==
  /\ api.at = "join"
  /\ thread # None => rec[thread].at = "exit"
  /\ Goto("store")
  /\ UNCHANGED <<ctx, device, delivered, disk, rec, calls, dropped>>

(* stop_segment stops the device first, and stores nothing if it cannot *)
StopDevice ==
  /\ api.op = "stop" /\ device = "started" /\ device' = "stopped"
DeviceFails ==
  /\ api.at = "store" /\ api.op = "stop"
  /\ device # "started" \/ "device" \in Faults
  /\ Goto("closing")
  /\ UNCHANGED <<ctx, device, delivered, disk, rec, calls, dropped>>

(* store_info and store_allInfo of the segment that ends *)
Store ==
  /\ api.at = "store"
  /\ StopDevice \/ (api.op = "next" /\ UNCHANGED device)
  /\ dat' = [dat EXCEPT ![handle] = info.size]
  /\ allInfo' = [allInfo EXCEPT ![handle] = info.size]
  /\ Goto("closing")
  /\ UNCHANGED <<ctx, delivered, opened, file, rec, calls, dropped>>

(* store_info fails: next_segment returns, stop_segment closes *)
StoreFails ==
  /\ api.at = "store" /\ "store" \in Faults
  /\ \/ StopDevice /\ Goto("closing")
     \/ api.op = "next" /\ Finish(FALSE) /\ UNCHANGED device
  /\ UNCHANGED <<ctx, delivered, disk, rec, calls, dropped>>

(* mutant: stop_segment forgets the handle before it closes it *)
CloseSegmentForgets ==
  /\ api.at = "closing"
  /\ \/ api.op = "stop" /\ handle' = None /\ Finish(TRUE) /\ UNCHANGED opened
     \/ /\ api.op = "next" /\ UNCHANGED handle /\ Goto("reopen")
        /\ opened' = opened \ {handle}
  /\ UNCHANGED <<state, info, discard, thread, device, delivered, file, dat,
                 allInfo, rec, calls, dropped>>

(* segment_close; next_segment leaves the handle as it is *)
CloseSegment ==
  /\ api.at = "closing"
  /\ opened' = opened \ {handle}
  /\ \/ api.op = "stop" /\ handle' = None /\ Finish(TRUE)
     \/ api.op = "next" /\ UNCHANGED handle /\ Goto("reopen")
  /\ UNCHANGED <<state, info, discard, thread, device, delivered, file, dat,
                 allInfo, rec, calls, dropped>>

(* next_segment opens its new segment ... *)
Reopen ==
  /\ api.at = "reopen"
  /\ \E s \in Segments : NewSegment(s) /\ OpenSegment(s)
  /\ Goto("pids")
  /\ UNCHANGED <<state, discard, thread, device, delivered, allInfo, rec, calls,
                 dropped>>

(* ... or segment_open fails, for the files (and clears the handle) or for *)
(* the directory (and leaves the handle of the closed segment)             *)
ReopenFails ==
  /\ api.at = "reopen" /\ "open" \in Faults
  /\ handle' \in {None, handle}
  /\ Finish(FALSE)
  /\ UNCHANGED <<state, info, discard, thread, device, delivered, disk, rec,
                 calls, dropped>>

(* add and remove the pids of the running device *)
Pids ==
  /\ api.at = "pids"
  /\ Goto("run") \/ ("device" \in Faults /\ Finish(FALSE))
  /\ UNCHANGED <<ctx, device, delivered, disk, rec, calls, dropped>>

-----------------------------------------------------------------------------
(* record_thread *)
RecTo(k, place) == rec' = [rec EXCEPT ![k].at = place]
RecDone(k) == rec' = [rec EXCEPT ![k] = [at |-> "test", block |-> None]]

(* mutant: only CLOSED ends the loop *)
RecTestClosed(k) ==
  /\ rec[k].at = "test"
  /\ RecTo(k, IF state # "CLOSED" THEN "read" ELSE "exit")
  /\ UNCHANGED <<ctx, device, delivered, disk, api, calls, dropped>>

RecTest(k) ==
  /\ rec[k].at = "test"
  /\ RecTo(k, IF state \in {"STARTED", "PAUSE"} THEN "read" ELSE "exit")
  /\ UNCHANGED <<ctx, device, delivered, disk, api, calls, dropped>>

(* record_device_read: a block, or nothing within its timeout *)
RecRead(k) ==
  /\ rec[k].at = "read"
  /\ \/ /\ device = "started" /\ delivered < MaxBlock
        /\ delivered' = delivered + 1
        /\ rec' = [rec EXCEPT ![k] = [at |-> "got", block |-> delivered + 1]]
     \/ RecTo(k, "test") /\ UNCHANGED delivered
  /\ UNCHANGED <<ctx, device, disk, api, calls, dropped>>

(* the block in hand is skipped *)
Skip(k) == dropped' = dropped \cup {rec[k].block} /\ RecDone(k)

(* mutant: the test after the read is state # STARTED *)
RecNotStarted(k) ==
  /\ rec[k].at = "got"
  /\ CASE state = "PAUSE" -> Skip(k)
       [] state = "STARTED" -> RecTo(k, "write") /\ UNCHANGED dropped
       [] OTHER -> RecDone(k) /\ UNCHANGED dropped
  /\ UNCHANGED <<ctx, device, delivered, disk, api, calls>>

RecPaused(k) ==
  /\ rec[k].at = "got"
  /\ IF state = "PAUSE" THEN Skip(k) ELSE RecTo(k, "write") /\ UNCHANGED dropped
  /\ UNCHANGED <<ctx, device, delivered, disk, api, calls>>

Skips == (Guard > 0 /\ info.size + 1 >= Guard) \/ discard

RecSkip(k) ==
  /\ rec[k].at = "write" /\ Skips
  /\ Skip(k)
  /\ UNCHANGED <<ctx, device, delivered, disk, api, calls>>

RecWrite(k) ==
  /\ rec[k].at = "write" /\ ~ Skips /\ handle # None
  /\ file' = [file EXCEPT ![handle] = Append(@, rec[k].block)]
  /\ rec' = [rec EXCEPT ![k] = [at |-> "account", block |-> None]]
  /\ UNCHANGED <<ctx, device, delivered, opened, dat, allInfo, api, calls, dropped>>

(* segment_write fails: the thread posts WRITE_ERROR and ends *)
RecWriteError(k) ==
  /\ rec[k].at = "write" /\ ~ Skips /\ "write" \in Faults
  /\ RecTo(k, "exit")
  /\ UNCHANGED <<ctx, device, delivered, disk, api, calls, dropped>>

(* the session was closed under the thread: no segment_ops, no write *)
RecNoSegment(k) ==
  /\ rec[k].at = "write" /\ ~ Skips /\ handle = None
  /\ RecDone(k)
  /\ UNCHANGED <<ctx, device, delivered, disk, api, calls, dropped>>

(* update segment_info, and store it every 400 ms *)
RecAccount(k) ==
  /\ rec[k].at = "account"
  /\ info' = [info EXCEPT !.size = @ + 1]
  /\ \/ UNCHANGED dat
     \/ handle # None /\ dat' = [dat EXCEPT ![handle] = info.size + 1]
  /\ RecDone(k)
  /\ UNCHANGED <<state, handle, discard, thread, device, delivered, opened, file,
                 allInfo, api, calls, dropped>>

-----------------------------------------------------------------------------
Call == \/ Open \/ Close \/ Pause \/ Resume \/ Discard \/ Start \/ StartFails
        \/ NextSegment \/ NextRefused \/ Stop \/ StopReturns

InCall == \/ StartDevice \/ Run \/ RunFails \/ Join \/ DeviceFails \/ Store
          \/ StoreFails \/ CloseSegment \/ Reopen \/ ReopenFails \/ Pids

RecStep(k) == \/ RecTest(k) \/ RecRead(k) \/ RecPaused(k) \/ RecSkip(k)
              \/ RecWrite(k) \/ RecWriteError(k) \/ RecNoSegment(k)
              \/ RecAccount(k)

Next == Call \/ InCall \/ \E k \in Threads : RecStep(k)

Spec == Init /\ [][Next]_vars

(* the scheduler runs the record thread and the call under way *)
FairSpec == Spec /\ WF_vars(InCall) /\ \A k \in Threads : WF_vars(RecStep(k))

-----------------------------------------------------------------------------
TypeOK ==
  /\ state \in States
  /\ handle \in Segments \cup {None}
  /\ info \in [id : Segments \cup {None}, size : 0 .. MaxBlock]
  /\ discard \in BOOLEAN
  /\ thread \in Threads \cup {None}
  /\ device \in {"closed", "opened", "started", "stopped"}
  /\ delivered \in 0 .. MaxBlock
  /\ opened \subseteq Segments
  /\ file \in [Segments -> Seq(1 .. MaxBlock)]
  /\ dat \in [Segments -> 0 .. MaxBlock \cup {Never}]
  /\ allInfo \in [Segments -> 0 .. MaxBlock \cup {Never}]
  /\ rec \in [Threads -> [at : Places, block : 0 .. MaxBlock]]
  /\ api \in [at : ApiPlaces, op : Ops, ret : BOOLEAN, late : BOOLEAN]
  /\ calls \in 0 .. MaxCall
  /\ dropped \subseteq 1 .. MaxBlock

(* The invariants up to GuardKept are about the sessions whose events come *)
(* in time: a next_segment that is refused makes the wrapper close a       *)
(* session whose thread goes on.                                           *)
OnTime == ~ api.late

(* Only one record thread runs, the one that p_ctx->thread will join, and  *)
(* none while a call works on the segment: segment_handle and segment_info *)
(* have no lock (dvr_record.c:278-594 against 888-976 and 1011-1043).      *)
OneWriter ==
  OnTime => \A k \in Threads : Live(k) => /\ k = thread
                                          /\ api.at \in {"idle", "join"}

(* The thread writes only to a segment whose files are open, the one that  *)
(* segment_info describes (segment_handle dangles from dvr_record.c:912 on *)
(* until the next segment is open).                                        *)
WritesToOpenSegment ==
  OnTime => \A k \in Threads : Live(k) => handle \in opened /\ info.id = handle

(* A block read from the device is in one file, or skipped on purpose, or  *)
(* in hand: none is lost or written twice when next_segment or stop stops  *)
(* the thread between its read and its write (dvr_record.c:349-491).       *)
InHand == {rec[k].block : k \in Threads} \ {None}
Written == UNION {ToSet(file[s]) : s \in Segments}
NoBlockLost ==
  OnTime =>
    /\ Written \cup dropped \cup InHand = 1 .. delivered
    /\ Written \cap dropped = {} /\ (Written \cup dropped) \cap InHand = {}

(* The recording is read segment after segment: what the files hold, in    *)
(* the order of their ids, is in the order it was read from the device.    *)
InOrder ==
  OnTime =>
    \A s, t \in Segments : \A i \in DOMAIN file[s], j \in DOMAIN file[t] :
      (s < t \/ (s = t /\ i < j)) => file[s][i] < file[t][j]

(* segment_info.size is the size of the open file, but for the block that  *)
(* the thread has just written (dvr_record.c:441-491).                     *)
SizeIsWritten ==
  OnTime /\ handle \in opened /\ info.id = handle =>
    info.size + Cardinality({k \in Threads : rec[k].at = "account"})
      = Len(file[handle])

(* No info file claims more than was written, whenever the box is switched *)
(* off; and the list of the recording has the final sizes only.            *)
StoredIsWritten ==
  OnTime =>
    \A s \in Segments : /\ dat[s] <= Len(file[s])
                        /\ allInfo[s] # Never => /\ allInfo[s] = Len(file[s])
                                                 /\ dat[s] = allInfo[s]

(* Segments are closed before their handle goes: none stays open without a *)
(* handle but where the wrapper closes the session after a failed          *)
(* next_segment (dvr_record.c:912, 1042-1043; dvr_wrapper.c:2865).         *)
NoSegmentLeaked ==
  [][opened' \ {handle'} \subseteq opened \ {handle}
       \/ (FailedNext /\ api'.op = "close")]_vars

(* guarded_segment_size: no segment reaches it (dvr_record.c:378-390).     *)
GuardKept == OnTime /\ Guard > 0 => \A s \in Segments : Len(file[s]) < Guard

(* next_segment and stop_segment return: the thread they join sees STOPPED *)
(* whatever it was doing, and nothing sets the state again meanwhile.      *)
JoinReturns == (api.at = "join") ~> (api.at = "idle")

(* The record thread and the calls keep out of each other's way, and what  *)
(* they leave in the files, their infos and segment_info is one story.     *)
RecordInv ==
  /\ TypeOK
  /\ OneWriter
  /\ WritesToOpenSegment
  /\ InOrder
  /\ SizeIsWritten
  /\ StoredIsWritten
  /\ GuardKept
=============================================================================
