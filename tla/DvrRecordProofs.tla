--------------------------- MODULE DvrRecordProofs ---------------------------
(***************************************************************************)
(* Proofs about DvrRecord for any number of segments, blocks, record       *)
(* threads and calls, with and without a guarded size, whatever fails.     *)
(* The argument: while a record thread lives, the one call that can be     *)
(* under way is waiting for it to end, so that the thread alone touches    *)
(* segment_handle and segment_info although nothing locks them; and the    *)
(* segment it writes to is the newest one.                                 *)
(***************************************************************************)
EXTENDS DvrRecord, FiniteSetTheorems, WellFoundedInduction, TLAPS

(***************************************************************************)
(* What holds in every session, also in one whose events come late.        *)
(***************************************************************************)
(* The threads with a block they have read and not yet accounted for.      *)
Busy == {k \in Threads : rec[k].at \in {"got", "write", "account"}}

(* No more blocks are accounted for than were delivered.                   *)
SizeBounded == info.size + Cardinality(Busy) <= delivered

(* A thread that has something to write has a block.                       *)
BlockInHand ==
  \A k \in Threads : /\ rec[k].block <= delivered
                     /\ rec[k].at \in {"got", "write"} => rec[k].block # None

(* The call that creates a thread has one to create.                       *)
ThreadLeft ==
  \/ api.at \in {"startDevice", "run", "reopen", "pids"}
  \/ api.at \in {"join", "store", "closing"} /\ api.op = "next"
  => Fresh # {}

(* next_segment has closed its old segment when it opens the new one.      *)
OldIsClosed == api.at = "reopen" => handle \notin opened

(* Only start_segment and next_segment have most of the steps.             *)
OpOfPlace ==
  /\ api.at \in {"join", "store", "closing"} => api.op \in {"next", "stop"}
  /\ api.at \in {"reopen", "pids"} => api.op = "next"
  /\ api.at # "idle" => api.ret

TypeInv ==
  /\ TypeOK
  /\ SizeBounded
  /\ BlockInHand
  /\ ThreadLeft
  /\ OldIsClosed
  /\ OpOfPlace

(***************************************************************************)
(* What holds when the events come in time.                                *)
(***************************************************************************)
(* The one live thread is that of the session; a call that works on the    *)
(* segment, or a failed next_segment, has joined it.                       *)
OneLive ==
  \A k \in Threads : Live(k) => /\ k = thread
                                /\ api.at \in {"idle", "join"}
                                /\ ~ FailedNext
                                /\ handle # None

(* The handle is that of the open segment that segment_info describes, but *)
(* within next_segment and after it has failed.                            *)
HandleOpen ==
  /\ api.at # "idle" => handle # None
  /\ handle # None /\ ~ FailedNext /\ api.at # "reopen" =>
       handle \in opened /\ info.id = handle

(* The segment of the handle is not in the list of the recording until the *)
(* call that ends it has stored it.                                        *)
Unfinished ==
  handle # None /\ ~ FailedNext /\ api.at \notin {"reopen", "closing"} =>
    allInfo[handle] = Never

(* No segment above that of the handle was ever started.                   *)
Newest ==
  handle # None => \A s \in Segments : s > handle => /\ dat[s] = Never
                                                     /\ s \notin opened

(* What was not started is empty.                                          *)
EmptyAtFirst == \A s \in Segments : dat[s] = Never => file[s] = <<>>

(* The segment of a live thread was started.                               *)
LiveStarted == \A k \in Threads : Live(k) => dat[handle] # Never

(* segment_info.size is the size of the file, less one while the thread    *)
(* accounts for the block that it has written.                             *)
SizeKept ==
  handle \in opened /\ info.id = handle =>
    /\ \A k \in Threads : rec[k].at = "account" => info.size + 1 = Len(file[handle])
    /\ (\A k \in Threads : rec[k].at # "account") => info.size = Len(file[handle])

(* The files hold blocks that were delivered, and all of them before the   *)
(* one in hand, which is the last that was delivered.                      *)
HandIsLast ==
  /\ \A s \in Segments : \A i \in DOMAIN file[s] : file[s][i] <= delivered
  /\ \A k \in Threads : rec[k].at \in {"got", "write"} =>
       /\ rec[k].block = delivered
       /\ \A s \in Segments : \A i \in DOMAIN file[s] : file[s][i] < delivered

(* InOrder, StoredIsWritten and GuardKept without their OnTime.            *)
Ordered ==
  \A s, t \in Segments : \A i \in DOMAIN file[s], j \in DOMAIN file[t] :
    (s < t \/ (s = t /\ i < j)) => file[s][i] < file[t][j]

Stored ==
  \A s \in Segments : /\ dat[s] <= Len(file[s])
                      /\ allInfo[s] # Never => /\ allInfo[s] = Len(file[s])
                                               /\ dat[s] = allInfo[s]

Guarded == Guard > 0 => \A s \in Segments : Len(file[s]) < Guard

(* The parts about the thread and the handle, and those about the files.   *)
SharingInv == OneLive /\ LiveStarted /\ HandleOpen /\ Unfinished /\ Newest /\ SizeKept
FilesInv == EmptyAtFirst /\ HandIsLast /\ Ordered /\ Stored /\ Guarded

IInv == OnTime => SharingInv /\ FilesInv

-----------------------------------------------------------------------------
(* The steps of the call under way, field by field.                        *)
LEMMA CalledFields ==
  ASSUME TypeOK, NEW op \in Ops, NEW place \in ApiPlaces, NEW ret \in BOOLEAN,
         Called(op, place, ret)
  PROVE  /\ api.at = "idle" /\ (FailedNext => op = "close")
         /\ api' \in [at : ApiPlaces, op : Ops, ret : BOOLEAN, late : BOOLEAN]
         /\ api'.at = place /\ api'.op = op /\ api'.ret = ret
         /\ api'.late = api.late
BY DEF TypeOK, Called

(* A step within the call under way.                                       *)
LEMMA GotoFields ==
  ASSUME TypeOK, NEW place \in ApiPlaces, Goto(place)
  PROVE  /\ api' \in [at : ApiPlaces, op : Ops, ret : BOOLEAN, late : BOOLEAN]
         /\ api'.at = place /\ api'.op = api.op /\ api'.ret = api.ret
         /\ api'.late = api.late
BY DEF TypeOK, Goto

(* The end of the call under way.                                          *)
LEMMA FinishFields ==
  ASSUME TypeOK, NEW ret \in BOOLEAN, Finish(ret)
  PROVE  /\ api' \in [at : ApiPlaces, op : Ops, ret : BOOLEAN, late : BOOLEAN]
         /\ api'.at = "idle" /\ api'.op = api.op /\ api'.ret = ret
         /\ api'.late = api.late
BY DEF TypeOK, Finish, ApiPlaces

(* The steps of a record thread, field by field.                           *)
LEMMA RecToFields ==
  ASSUME TypeOK, NEW k \in Threads, NEW place \in Places, RecTo(k, place)
  PROVE  /\ rec' \in [Threads -> [at : Places, block : 0 .. MaxBlock]]
         /\ rec'[k].at = place /\ rec'[k].block = rec[k].block
         /\ \A j \in Threads : j # k => rec'[j] = rec[j]
BY DEF TypeOK, RecTo

(* A thread gets a new place and block.                                    *)
LEMMA RecSetFields ==
  ASSUME TypeOK, BoundAssumption, NEW k \in Threads, NEW place \in Places,
         NEW block \in 0 .. MaxBlock,
         rec' = [rec EXCEPT ![k] = [at |-> place, block |-> block]]
  PROVE  /\ rec' \in [Threads -> [at : Places, block : 0 .. MaxBlock]]
         /\ rec'[k].at = place /\ rec'[k].block = block
         /\ \A j \in Threads : j # k => rec'[j] = rec[j]
BY DEF TypeOK

(* A thread is done with its block.                                        *)
LEMMA RecDoneFields ==
  ASSUME TypeOK, BoundAssumption, NEW k \in Threads, RecDone(k)
  PROVE  /\ rec' \in [Threads -> [at : Places, block : 0 .. MaxBlock]]
         /\ rec'[k].at = "test" /\ rec'[k].block = None
         /\ \A j \in Threads : j # k => rec'[j] = rec[j]
<1>1. "test" \in Places /\ None \in 0 .. MaxBlock
  BY BoundAssumption DEF Places, None
<1>. QED
  BY <1>1, RecSetFields DEF RecDone

(* A set of numbers has a least one, which is how a thread is chosen.      *)
LEMMA LessRelation ==
  \E R : IsWellFoundedOn(R, Nat) /\ \A j, k \in Nat : <<j, k>> \in R <=> j < k
<1>1. \A j, k \in Nat : <<j, k>> \in OpToRel(<, Nat) <=> j < k
  BY Zenon DEF OpToRel
<1>. QED
  BY <1>1, NatLessThanWellFounded, Zenon

(* Run has a thread to create, the first that was never used.              *)
LEMMA NewThread ==
  ASSUME Fresh # {}
  PROVE  LET k == CHOOSE x \in Fresh : \A y \in Fresh : x <= y
         IN  k \in Threads /\ rec[k].at = "none"
<1>0. Fresh \subseteq Nat
  BY DEF Fresh, Threads
<1>1. PICK R : IsWellFoundedOn(R, Nat) /\ \A j, k \in Nat : <<j, k>> \in R <=> j < k
  BY LessRelation
<1>2. PICK k \in Fresh : \A j \in Fresh : ~ (<<j, k>> \in R)
  <2>1. IsWellFoundedOn(R, Nat)
    BY <1>1
  <2>. QED
    BY <1>0, <2>1, WFMin
<1>3. ASSUME NEW j \in Fresh PROVE k <= j
  <2>1. k \in Nat /\ j \in Nat
    BY <1>0
  <2>2. ~ (j < k)
    BY <1>1, <1>2, <2>1, Zenon
  <2>. QED
    BY <2>1, <2>2
<1>4. \E x \in Fresh : \A y \in Fresh : x <= y
  BY <1>3
<1>. QED
  BY <1>4 DEF Fresh

(***************************************************************************)
(* Types, for every session.                                               *)
(***************************************************************************)
LEMMA BusyCounted ==
  ASSUME TypeOK
  PROVE  IsFiniteSet(Busy) /\ Cardinality(Busy) \in Nat
<1>1. IsFiniteSet(Threads)
  BY FS_Interval, BoundAssumption DEF Threads
<1>2. Busy \in SUBSET Threads
  BY DEF Busy
<1>. QED
  BY <1>1, <1>2, FS_Subset, FS_CardinalityType

(* No call changes the blocks; start_segment empties the size.             *)
LEMMA CallType ==
  ASSUME TypeInv, Call
  PROVE  TypeInv'
<1>. USE DEF TypeInv, ctx, disk, None, Never
<1>0. /\ BoundAssumption /\ GuardAssumption
      /\ rec' = rec /\ delivered' = delivered
      /\ (info' = info \/ info'.size = 0)
      /\ 0 \in 0 .. MaxBlock /\ Busy' = Busy /\ Cardinality(Busy) \in Nat
  <2>1. BoundAssumption /\ GuardAssumption
    BY BoundAssumption, GuardAssumption
  <2>2. rec' = rec /\ delivered' = delivered /\ (info' = info \/ info'.size = 0)
    <3>1. CASE Start
      BY <3>1 DEF Start, OpenSegment
    <3>2. CASE Close
      BY <3>2 DEF Close, NoInfo
    <3>. QED
      BY <3>1, <3>2
      DEF Call, Open, Pause, Resume, Discard, Control, StartFails, NextSegment,
          NextRefused, Stop, StopReturns
  <2>3. 0 \in 0 .. MaxBlock
    BY <2>1 DEF BoundAssumption
  <2>4. Busy' = Busy
    BY <2>2 DEF Busy
  <2>. QED
    BY <2>1, <2>2, <2>3, <2>4, BusyCounted
<1>1. SizeBounded' /\ BlockInHand' /\ Fresh' = Fresh
  BY <1>0 DEF SizeBounded, BlockInHand, Fresh, TypeOK
<1>2. CASE Open
  <2>1. /\ api' \in [at : ApiPlaces, op : Ops, ret : BOOLEAN, late : BOOLEAN]
        /\ api'.at = "idle" /\ api'.op = "open" /\ api'.ret = TRUE
    BY <1>2, CalledFields DEF Open, Return, Begin, ApiPlaces, Ops
  <2>2. TypeOK'
    BY <1>2, <1>0, <2>1 DEF Open, Return, TypeOK, States, GuardAssumption
  <2>3. ThreadLeft' /\ OldIsClosed' /\ OpOfPlace'
    BY <1>2, <1>1, <2>1 DEF Open, ThreadLeft, OldIsClosed, OpOfPlace
  <2>. QED
    BY <1>1, <2>2, <2>3
<1>3. CASE Close
  <2>1. /\ api' \in [at : ApiPlaces, op : Ops, ret : BOOLEAN, late : BOOLEAN]
        /\ api'.at = "idle" /\ api'.op = "close" /\ api'.ret = TRUE
    BY <1>3, CalledFields DEF Close, Return, Begin, ApiPlaces, Ops
  <2>2. TypeOK'
    BY <1>3, <1>0, <2>1 DEF Close, Return, NoInfo, TypeOK, States, GuardAssumption
  <2>3. ThreadLeft' /\ OldIsClosed' /\ OpOfPlace'
    BY <1>3, <1>1, <2>1 DEF Close, ThreadLeft, OldIsClosed, OpOfPlace
  <2>. QED
    BY <1>1, <2>2, <2>3
<1>4. CASE Pause
  <2>1. /\ api' \in [at : ApiPlaces, op : Ops, ret : BOOLEAN, late : BOOLEAN]
        /\ api'.at = "idle" /\ api'.op = "pause" /\ api'.ret = TRUE
    BY <1>4, CalledFields DEF Pause, Return, Control, Begin, ApiPlaces, Ops
  <2>2. TypeOK'
    BY <1>4, <1>0, <2>1 DEF Pause, Return, Control, TypeOK, States, GuardAssumption
  <2>3. ThreadLeft' /\ OldIsClosed' /\ OpOfPlace'
    BY <1>4, <1>1, <2>1 DEF Pause, ThreadLeft, OldIsClosed, OpOfPlace
  <2>. QED
    BY <1>1, <2>2, <2>3
<1>5. CASE Resume
  <2>1. /\ api' \in [at : ApiPlaces, op : Ops, ret : BOOLEAN, late : BOOLEAN]
        /\ api'.at = "idle" /\ api'.op = "resume" /\ api'.ret = TRUE
    BY <1>5, CalledFields DEF Resume, Return, Control, Begin, ApiPlaces, Ops
  <2>2. TypeOK'
    BY <1>5, <1>0, <2>1 DEF Resume, Return, Control, TypeOK, States, GuardAssumption
  <2>3. ThreadLeft' /\ OldIsClosed' /\ OpOfPlace'
    BY <1>5, <1>1, <2>1 DEF Resume, ThreadLeft, OldIsClosed, OpOfPlace
  <2>. QED
    BY <1>1, <2>2, <2>3
<1>6. CASE Discard
  <2>1. /\ api' \in [at : ApiPlaces, op : Ops, ret : BOOLEAN, late : BOOLEAN]
        /\ api'.at = "idle" /\ api'.op = "discard" /\ api'.ret = TRUE
    BY <1>6, CalledFields DEF Discard, Return, Control, Begin, ApiPlaces, Ops
  <2>2. TypeOK'
    BY <1>6, <1>0, <2>1
    DEF Discard, Return, Control, TypeOK, States, GuardAssumption
  <2>3. ThreadLeft' /\ OldIsClosed' /\ OpOfPlace'
    BY <1>6, <1>1, <2>1 DEF Discard, ThreadLeft, OldIsClosed, OpOfPlace
  <2>. QED
    BY <1>1, <2>2, <2>3
<1>7. CASE Start
  <2>1. /\ api' \in [at : ApiPlaces, op : Ops, ret : BOOLEAN, late : BOOLEAN]
        /\ api'.at = "startDevice" /\ api'.op = "start" /\ api'.ret = TRUE
    BY <1>7, CalledFields DEF Start, Begin, Begin, ApiPlaces, Ops
  <2>2. TypeOK'
    BY <1>7, <1>0, <2>1
    DEF Start, Begin, OpenSegment, TypeOK, States, GuardAssumption
  <2>3. ThreadLeft' /\ OldIsClosed' /\ OpOfPlace'
    BY <1>7, <1>1, <2>1 DEF Start, ThreadLeft, OldIsClosed, OpOfPlace
  <2>. QED
    BY <1>1, <2>2, <2>3
<1>8. CASE StartFails
  <2>1. /\ api' \in [at : ApiPlaces, op : Ops, ret : BOOLEAN, late : BOOLEAN]
        /\ api'.at = "idle" /\ api'.op = "start" /\ api'.ret = FALSE
    BY <1>8, CalledFields DEF StartFails, Return, Begin, ApiPlaces, Ops
  <2>2. TypeOK'
    BY <1>8, <1>0, <2>1 DEF StartFails, Return, TypeOK, States, GuardAssumption
  <2>3. ThreadLeft' /\ OldIsClosed' /\ OpOfPlace'
    BY <1>8, <1>1, <2>1 DEF StartFails, ThreadLeft, OldIsClosed, OpOfPlace
  <2>. QED
    BY <1>1, <2>2, <2>3
<1>9. CASE NextSegment
  <2>1. /\ api' \in [at : ApiPlaces, op : Ops, ret : BOOLEAN, late : BOOLEAN]
        /\ api'.at = "join" /\ api'.op = "next" /\ api'.ret = TRUE
    BY <1>9, CalledFields DEF NextSegment, Begin, Begin, ApiPlaces, Ops
  <2>2. TypeOK'
    BY <1>9, <1>0, <2>1 DEF NextSegment, Begin, TypeOK, States, GuardAssumption
  <2>3. ThreadLeft' /\ OldIsClosed' /\ OpOfPlace'
    BY <1>9, <1>1, <2>1 DEF NextSegment, ThreadLeft, OldIsClosed, OpOfPlace
  <2>. QED
    BY <1>1, <2>2, <2>3
<1>10. CASE NextRefused
  <2>1. /\ api' \in [at : ApiPlaces, op : Ops, ret : BOOLEAN, late : BOOLEAN]
        /\ api'.at = "idle" /\ api'.op = "next" /\ api'.ret = FALSE
    BY <1>10, CalledFields DEF NextRefused, Return, Begin, ApiPlaces, Ops
  <2>2. TypeOK'
    BY <1>10, <1>0, <2>1 DEF NextRefused, Return, TypeOK, States, GuardAssumption
  <2>3. ThreadLeft' /\ OldIsClosed' /\ OpOfPlace'
    BY <1>10, <1>1, <2>1 DEF NextRefused, ThreadLeft, OldIsClosed, OpOfPlace
  <2>. QED
    BY <1>1, <2>2, <2>3
<1>11. CASE Stop
  <2>1. /\ api' \in [at : ApiPlaces, op : Ops, ret : BOOLEAN, late : BOOLEAN]
        /\ api'.at = "join" /\ api'.op = "stop" /\ api'.ret = TRUE
    BY <1>11, CalledFields DEF Stop, Begin, Begin, ApiPlaces, Ops
  <2>2. TypeOK'
    BY <1>11, <1>0, <2>1 DEF Stop, Begin, TypeOK, States, GuardAssumption
  <2>3. ThreadLeft' /\ OldIsClosed' /\ OpOfPlace'
    BY <1>11, <1>1, <2>1 DEF Stop, ThreadLeft, OldIsClosed, OpOfPlace
  <2>. QED
    BY <1>1, <2>2, <2>3
<1>12. CASE StopReturns
  <2>1. /\ api' \in [at : ApiPlaces, op : Ops, ret : BOOLEAN, late : BOOLEAN]
        /\ api'.at = "idle" /\ api'.op = "stop" /\ api'.ret = TRUE
    BY <1>12, CalledFields DEF StopReturns, Return, Begin, ApiPlaces, Ops
  <2>2. TypeOK'
    BY <1>12, <1>0, <2>1 DEF StopReturns, Return, TypeOK, States, GuardAssumption
  <2>3. ThreadLeft' /\ OldIsClosed' /\ OpOfPlace'
    BY <1>12, <1>1, <2>1 DEF StopReturns, ThreadLeft, OldIsClosed, OpOfPlace
  <2>. QED
    BY <1>1, <2>2, <2>3
<1>. QED
  BY <1>2, <1>3, <1>4, <1>5, <1>6, <1>7, <1>8, <1>9, <1>10, <1>11, <1>12 DEF Call

(* Nor do the steps within a call, of which only Run touches a thread.     *)
LEMMA InCallType ==
  ASSUME TypeInv, InCall
  PROVE  TypeInv'
<1>. USE DEF TypeInv, ctx, disk, None, Never
<1>0. /\ BoundAssumption
      /\ 0 \in 0 .. MaxBlock /\ Cardinality(Busy) \in Nat
  BY BoundAssumption, BusyCounted DEF BoundAssumption
<1>1. CASE Run
  <2>1. /\ api' \in [at : ApiPlaces, op : Ops, ret : BOOLEAN, late : BOOLEAN]
        /\ api'.at = "idle" /\ api'.op = api.op
    BY <1>1, FinishFields DEF Run
  <2>2. PICK k \in Threads :
          /\ rec[k].at = "none" /\ thread' = k
          /\ rec' = [rec EXCEPT ![k] = [at |-> "test", block |-> None]]
    BY <1>1, NewThread DEF Run, ThreadLeft
  <2>3. /\ rec' \in [Threads -> [at : Places, block : 0 .. MaxBlock]]
        /\ rec'[k].at = "test" /\ rec'[k].block = None
        /\ \A j \in Threads : j # k => rec'[j] = rec[j]
    BY <1>0, <2>2, RecSetFields DEF Places
  <2>4. TypeOK'
    BY <1>1, <1>0, <2>1, <2>2, <2>3 DEF Run, TypeOK, States
  <2>5. Busy' = Busy
    BY <2>2, <2>3 DEF Busy
  <2>6. SizeBounded' /\ BlockInHand'
    BY <1>1, <2>3, <2>5 DEF Run, SizeBounded, BlockInHand, TypeOK
  <2>7. ThreadLeft' /\ OldIsClosed' /\ OpOfPlace'
    BY <2>1 DEF ThreadLeft, OldIsClosed, OpOfPlace
  <2>. QED
    BY <2>4, <2>6, <2>7
<1>2. ASSUME rec' = rec, delivered' = delivered, info' = info \/ info'.size = 0
      PROVE  SizeBounded' /\ BlockInHand' /\ Fresh' = Fresh
  <2>1. Busy' = Busy
    BY <1>2 DEF Busy
  <2>. QED
    BY <1>0, <1>2, <2>1 DEF SizeBounded, BlockInHand, Fresh, TypeOK
<1>3. CASE StartDevice
  <2>1. /\ api' \in [at : ApiPlaces, op : Ops, ret : BOOLEAN, late : BOOLEAN]
        /\ api'.op = api.op
        /\ \/ api'.at = "run" /\ api'.ret = api.ret
           \/ api'.at = "idle"
    BY <1>3, GotoFields, FinishFields DEF StartDevice, ApiPlaces
  <2>2. TypeOK'
    BY <1>3, <1>0, <2>1 DEF StartDevice, TypeOK
  <2>3. SizeBounded' /\ BlockInHand' /\ Fresh' = Fresh
    BY <1>3, <1>2 DEF StartDevice
  <2>4. ThreadLeft' /\ OldIsClosed' /\ OpOfPlace'
    BY <1>3, <2>1, <2>3 DEF StartDevice, ThreadLeft, OldIsClosed, OpOfPlace
  <2>. QED
    BY <2>2, <2>3, <2>4
<1>4. CASE RunFails
  <2>1. /\ api' \in [at : ApiPlaces, op : Ops, ret : BOOLEAN, late : BOOLEAN]
        /\ api'.op = api.op
        /\ api'.at = "idle"
    BY <1>4, GotoFields, FinishFields DEF RunFails, ApiPlaces
  <2>2. TypeOK'
    BY <1>4, <1>0, <2>1 DEF RunFails, TypeOK
  <2>3. SizeBounded' /\ BlockInHand' /\ Fresh' = Fresh
    BY <1>4, <1>2 DEF RunFails
  <2>4. ThreadLeft' /\ OldIsClosed' /\ OpOfPlace'
    BY <1>4, <2>1, <2>3 DEF RunFails, ThreadLeft, OldIsClosed, OpOfPlace
  <2>. QED
    BY <2>2, <2>3, <2>4
<1>5. CASE Join
  <2>1. /\ api' \in [at : ApiPlaces, op : Ops, ret : BOOLEAN, late : BOOLEAN]
        /\ api'.op = api.op
        /\ api'.at = "store" /\ api'.ret = api.ret
    BY <1>5, GotoFields, FinishFields DEF Join, ApiPlaces
  <2>2. TypeOK'
    BY <1>5, <1>0, <2>1 DEF Join, TypeOK
  <2>3. SizeBounded' /\ BlockInHand' /\ Fresh' = Fresh
    BY <1>5, <1>2 DEF Join
  <2>4. ThreadLeft' /\ OldIsClosed' /\ OpOfPlace'
    BY <1>5, <2>1, <2>3 DEF Join, ThreadLeft, OldIsClosed, OpOfPlace
  <2>. QED
    BY <2>2, <2>3, <2>4
<1>6. CASE DeviceFails
  <2>1. /\ api' \in [at : ApiPlaces, op : Ops, ret : BOOLEAN, late : BOOLEAN]
        /\ api'.op = api.op
        /\ api'.at = "closing" /\ api'.ret = api.ret
    BY <1>6, GotoFields, FinishFields DEF DeviceFails, ApiPlaces
  <2>2. TypeOK'
    BY <1>6, <1>0, <2>1 DEF DeviceFails, TypeOK
  <2>3. SizeBounded' /\ BlockInHand' /\ Fresh' = Fresh
    BY <1>6, <1>2 DEF DeviceFails
  <2>4. ThreadLeft' /\ OldIsClosed' /\ OpOfPlace'
    BY <1>6, <2>1, <2>3 DEF DeviceFails, ThreadLeft, OldIsClosed, OpOfPlace
  <2>. QED
    BY <2>2, <2>3, <2>4
<1>7. CASE Store
  <2>1. /\ api' \in [at : ApiPlaces, op : Ops, ret : BOOLEAN, late : BOOLEAN]
        /\ api'.op = api.op
        /\ api'.at = "closing" /\ api'.ret = api.ret
    BY <1>7, GotoFields, FinishFields DEF Store, ApiPlaces
  <2>2. TypeOK'
    BY <1>7, <1>0, <2>1 DEF Store, StopDevice, TypeOK
  <2>3. SizeBounded' /\ BlockInHand' /\ Fresh' = Fresh
    BY <1>7, <1>2 DEF Store, StopDevice
  <2>4. ThreadLeft' /\ OldIsClosed' /\ OpOfPlace'
    BY <1>7, <2>1, <2>3 DEF Store, ThreadLeft, OldIsClosed, OpOfPlace
  <2>. QED
    BY <2>2, <2>3, <2>4
<1>8. CASE StoreFails
  <2>1. /\ api' \in [at : ApiPlaces, op : Ops, ret : BOOLEAN, late : BOOLEAN]
        /\ api'.op = api.op
        /\ \/ api'.at = "closing" /\ api'.ret = api.ret
           \/ api'.at = "idle"
    BY <1>8, GotoFields, FinishFields DEF StoreFails, ApiPlaces
  <2>2. TypeOK'
    BY <1>8, <1>0, <2>1 DEF StoreFails, StopDevice, TypeOK
  <2>3. SizeBounded' /\ BlockInHand' /\ Fresh' = Fresh
    BY <1>8, <1>2 DEF StoreFails, StopDevice
  <2>4. ThreadLeft' /\ OldIsClosed' /\ OpOfPlace'
    BY <1>8, <2>1, <2>3 DEF StoreFails, ThreadLeft, OldIsClosed, OpOfPlace
  <2>. QED
    BY <2>2, <2>3, <2>4
<1>9. CASE CloseSegment
  <2>1. /\ api' \in [at : ApiPlaces, op : Ops, ret : BOOLEAN, late : BOOLEAN]
        /\ api'.op = api.op
        /\ \/ api'.at = "idle"
           \/ api'.at = "reopen" /\ api'.ret = api.ret /\ api.op = "next"
    BY <1>9, GotoFields, FinishFields DEF CloseSegment, ApiPlaces
  <2>2. TypeOK'
    BY <1>9, <1>0, <2>1 DEF CloseSegment, TypeOK
  <2>3. SizeBounded' /\ BlockInHand' /\ Fresh' = Fresh
    BY <1>9, <1>2 DEF CloseSegment
  <2>4. ThreadLeft' /\ OldIsClosed' /\ OpOfPlace'
    BY <1>9, <2>1, <2>3 DEF CloseSegment, ThreadLeft, OldIsClosed, OpOfPlace
  <2>. QED
    BY <2>2, <2>3, <2>4
<1>10. CASE Reopen
  <2>1. /\ api' \in [at : ApiPlaces, op : Ops, ret : BOOLEAN, late : BOOLEAN]
        /\ api'.op = api.op
        /\ api'.at = "pids" /\ api'.ret = api.ret
    BY <1>10, GotoFields, FinishFields DEF Reopen, ApiPlaces
  <2>2. TypeOK'
    BY <1>10, <1>0, <2>1 DEF Reopen, OpenSegment, TypeOK
  <2>3. SizeBounded' /\ BlockInHand' /\ Fresh' = Fresh
    BY <1>10, <1>2 DEF Reopen, OpenSegment
  <2>4. ThreadLeft' /\ OldIsClosed' /\ OpOfPlace'
    BY <1>10, <2>1, <2>3 DEF Reopen, ThreadLeft, OldIsClosed, OpOfPlace
  <2>. QED
    BY <2>2, <2>3, <2>4
<1>11. CASE ReopenFails
  <2>1. /\ api' \in [at : ApiPlaces, op : Ops, ret : BOOLEAN, late : BOOLEAN]
        /\ api'.op = api.op
        /\ api'.at = "idle"
    BY <1>11, GotoFields, FinishFields DEF ReopenFails, ApiPlaces
  <2>2. TypeOK'
    BY <1>11, <1>0, <2>1 DEF ReopenFails, TypeOK
  <2>3. SizeBounded' /\ BlockInHand' /\ Fresh' = Fresh
    BY <1>11, <1>2 DEF ReopenFails
  <2>4. ThreadLeft' /\ OldIsClosed' /\ OpOfPlace'
    BY <1>11, <2>1, <2>3 DEF ReopenFails, ThreadLeft, OldIsClosed, OpOfPlace
  <2>. QED
    BY <2>2, <2>3, <2>4
<1>12. CASE Pids
  <2>1. /\ api' \in [at : ApiPlaces, op : Ops, ret : BOOLEAN, late : BOOLEAN]
        /\ api'.op = api.op
        /\ \/ api'.at = "run" /\ api'.ret = api.ret
           \/ api'.at = "idle"
    BY <1>12, GotoFields, FinishFields DEF Pids, ApiPlaces
  <2>2. TypeOK'
    BY <1>12, <1>0, <2>1 DEF Pids, TypeOK
  <2>3. SizeBounded' /\ BlockInHand' /\ Fresh' = Fresh
    BY <1>12, <1>2 DEF Pids
  <2>4. ThreadLeft' /\ OldIsClosed' /\ OpOfPlace'
    BY <1>12, <2>1, <2>3 DEF Pids, ThreadLeft, OldIsClosed, OpOfPlace
  <2>. QED
    BY <2>2, <2>3, <2>4
<1>. QED
  BY <1>1, <1>3, <1>4, <1>5, <1>6, <1>7, <1>8, <1>9, <1>10, <1>11, <1>12 DEF InCall

(* A block is delivered when it is read, and accounted for once.           *)
LEMMA RecType ==
  ASSUME TypeInv, NEW k \in Threads, RecStep(k)
  PROVE  TypeInv'
<1>. USE DEF TypeInv, ctx, disk, None, Never
<1>0. /\ BoundAssumption
      /\ MaxBlock \in Nat /\ info.size \in Nat /\ delivered \in 0 .. MaxBlock
      /\ IsFiniteSet(Busy) /\ Cardinality(Busy) \in Nat
      /\ 0 \in 0 .. MaxBlock
      /\ Cardinality(Busy \cup {k}) =
           IF k \in Busy THEN Cardinality(Busy) ELSE Cardinality(Busy) + 1
      /\ Cardinality(Busy \ {k}) =
           IF k \in Busy THEN Cardinality(Busy) - 1 ELSE Cardinality(Busy)
  <2>1. /\ BoundAssumption /\ 0 \in 0 .. MaxBlock
        /\ MaxBlock \in Nat /\ info.size \in Nat /\ delivered \in 0 .. MaxBlock
    BY BoundAssumption DEF BoundAssumption, TypeOK
  <2>2. IsFiniteSet(Busy) /\ Cardinality(Busy) \in Nat
    BY BusyCounted
  <2>3. Cardinality(Busy \cup {k}) =
          IF k \in Busy THEN Cardinality(Busy) ELSE Cardinality(Busy) + 1
    BY <2>2, FS_AddElement
  <2>4. Cardinality(Busy \ {k}) =
          IF k \in Busy THEN Cardinality(Busy) - 1 ELSE Cardinality(Busy)
    BY <2>2, FS_RemoveElement
  <2>. QED
    BY <2>1, <2>2, <2>3, <2>4
<1>1. ASSUME api' = api, handle' = handle, opened' = opened,
             \A j \in Threads : rec'[j].at = "none" <=> rec[j].at = "none"
      PROVE  ThreadLeft' /\ OldIsClosed' /\ OpOfPlace'
  BY <1>1 DEF ThreadLeft, OldIsClosed, OpOfPlace, Fresh
<1>2. ASSUME NEW place \in {"read", "write", "exit", "test"}, RecTo(k, place),
             rec[k].at \in {"test", "read", "got", "write"},
             place = "write" => rec[k].at = "got",
             info' = info, delivered' = delivered
      PROVE  /\ SizeBounded' /\ BlockInHand'
             /\ rec' \in [Threads -> [at : Places, block : 0 .. MaxBlock]]
             /\ \A j \in Threads : rec'[j].at = "none" <=> rec[j].at = "none"
  <2>1. place \in Places
    BY DEF Places
  <2>2. /\ rec' \in [Threads -> [at : Places, block : 0 .. MaxBlock]]
        /\ rec'[k].at = place /\ rec'[k].block = rec[k].block
        /\ \A j \in Threads : j # k => rec'[j] = rec[j]
    BY <1>2, <2>1, RecToFields
  <2>3. Busy' = Busy \/ Busy' = Busy \ {k}
    BY <1>2, <2>2 DEF Busy
  <2>4. SizeBounded'
    <3>. DEFINE n == Cardinality(Busy)
                m == Cardinality(Busy')
    <3>1. n \in Nat /\ m \in Nat /\ m <= n
      <4>1. CASE Busy' = Busy
        BY <1>0, <4>1
      <4>2. CASE Busy' = Busy \ {k}
        <5>1. m = IF k \in Busy THEN n - 1 ELSE n
          BY <1>0, <4>2
        <5>2. m \in Nat
          BY <1>0, <4>2, FS_RemoveElement, FS_CardinalityType
        <5>3. n \in Nat
          BY <1>0
        <5>. QED
          <6>. HIDE DEF n, m, TypeInv
          <6>. QED
            BY <5>1, <5>2, <5>3
      <4>. QED
        BY <2>3, <4>1, <4>2
    <3>2. info.size + n <= delivered /\ info.size \in Nat /\ delivered \in Nat
      BY <1>0 DEF SizeBounded
    <3>3. info'.size + m <= delivered'
      <4>. HIDE DEF n, m, TypeInv
      <4>. QED
        BY <1>2, <3>1, <3>2
    <3>. QED
      BY <3>3 DEF SizeBounded
  <2>5. BlockInHand'
    BY <1>2, <2>2 DEF BlockInHand
  <2>6. \A j \in Threads : rec'[j].at = "none" <=> rec[j].at = "none"
    BY <1>2, <2>2
  <2>. QED
    BY <2>2, <2>4, <2>5, <2>6
<1>3. ASSUME RecDone(k), delivered' = delivered,
             rec[k].at \in {"got", "write", "account"},
             \/ info' = info
             \/ rec[k].at = "account" /\ info' = [info EXCEPT !.size = @ + 1]
      PROVE  /\ SizeBounded' /\ BlockInHand' /\ info'.size \in 0 .. MaxBlock
             /\ rec' \in [Threads -> [at : Places, block : 0 .. MaxBlock]]
             /\ \A j \in Threads : rec'[j].at = "none" <=> rec[j].at = "none"
  <2>1. /\ rec' \in [Threads -> [at : Places, block : 0 .. MaxBlock]]
        /\ rec'[k].at = "test" /\ rec'[k].block = None
        /\ \A j \in Threads : j # k => rec'[j] = rec[j]
    BY <1>0, <1>3, RecDoneFields
  <2>2. k \in Busy /\ Busy' = Busy \ {k}
    BY <1>3, <2>1 DEF Busy
  <2>3. info' = info \/ info'.size = info.size + 1
    BY <1>3 DEF TypeOK
  <2>7. info'.size + Cardinality(Busy \ {k}) <= delivered /\ info'.size \in Nat
    BY <1>0, <2>2, <2>3 DEF SizeBounded
  <2>8. Cardinality(Busy \ {k}) \in Nat
    BY <1>0, FS_RemoveElement, FS_CardinalityType
  <2>4. SizeBounded' /\ info'.size \in 0 .. MaxBlock
    BY <1>0, <1>3, <2>2, <2>7, <2>8 DEF SizeBounded
  <2>5. BlockInHand'
    BY <1>0, <1>3, <2>1 DEF BlockInHand
  <2>6. \A j \in Threads : rec'[j].at = "none" <=> rec[j].at = "none"
    BY <1>3, <2>1
  <2>. QED
    BY <2>1, <2>4, <2>5, <2>6
<1>4. CASE RecTest(k)
  <2>1. SizeBounded' /\ BlockInHand' /\ ThreadLeft' /\ OldIsClosed' /\ OpOfPlace'
    BY <1>4, <1>1, <1>2 DEF RecTest
  <2>2. TypeOK'
    BY <1>4, <1>2 DEF RecTest, TypeOK
  <2>. QED
    BY <2>1, <2>2
<1>5. CASE RecRead(k)
  <2>1. CASE RecTo(k, "test") /\ UNCHANGED delivered
    <3>1. SizeBounded' /\ BlockInHand' /\ ThreadLeft' /\ OldIsClosed' /\ OpOfPlace'
      BY <1>5, <2>1, <1>1, <1>2 DEF RecRead
    <3>2. TypeOK'
      BY <1>5, <2>1, <1>2 DEF RecRead, TypeOK
    <3>. QED
      BY <3>1, <3>2
  <2>2. CASE /\ delivered < MaxBlock
             /\ delivered' = delivered + 1
             /\ rec' = [rec EXCEPT ![k] = [at |-> "got", block |-> delivered + 1]]
    <3>1. /\ rec' \in [Threads -> [at : Places, block : 0 .. MaxBlock]]
          /\ rec'[k].at = "got" /\ rec'[k].block = delivered + 1
          /\ \A j \in Threads : j # k => rec'[j] = rec[j]
      <4>1. "got" \in Places /\ delivered + 1 \in 0 .. MaxBlock
        BY <1>0, <2>2 DEF TypeOK, Places, BoundAssumption
      <4>. QED
        BY <1>0, <2>2, <4>1, RecSetFields
    <3>2. Busy' = Busy \cup {k} /\ k \notin Busy
      BY <1>5, <3>1 DEF RecRead, Busy
    <3>3. SizeBounded' /\ BlockInHand'
      BY <1>5, <1>0, <2>2, <3>1, <3>2 DEF RecRead, SizeBounded, BlockInHand, TypeOK
    <3>4. TypeOK'
      BY <1>5, <1>0, <2>2, <3>1 DEF RecRead, TypeOK, BoundAssumption
    <3>5. \A j \in Threads : rec'[j].at = "none" <=> rec[j].at = "none"
      BY <1>5, <3>1 DEF RecRead
    <3>. QED
      BY <1>5, <1>1, <3>3, <3>4, <3>5 DEF RecRead
  <2>. QED
    BY <1>5, <2>1, <2>2 DEF RecRead
<1>6. CASE RecPaused(k)
  <2>1. SizeBounded' /\ BlockInHand' /\ ThreadLeft' /\ OldIsClosed' /\ OpOfPlace'
    BY <1>6, <1>1, <1>2, <1>3 DEF RecPaused, Skip
  <2>2. TypeOK'
    <3>1. CASE state = "PAUSE"
      BY <1>6, <1>0, <1>3, <3>1
      DEF RecPaused, Skip, TypeOK, BlockInHand, BoundAssumption
    <3>2. CASE state # "PAUSE"
      BY <1>6, <1>2, <3>2 DEF RecPaused, TypeOK
    <3>. QED
      BY <3>1, <3>2
  <2>. QED
    BY <2>1, <2>2
<1>7. CASE RecSkip(k)
  <2>1. SizeBounded' /\ BlockInHand' /\ ThreadLeft' /\ OldIsClosed' /\ OpOfPlace'
    BY <1>7, <1>1, <1>3 DEF RecSkip, Skip
  <2>2. TypeOK'
    BY <1>7, <1>0, <1>3 DEF RecSkip, Skip, TypeOK, BlockInHand, BoundAssumption
  <2>. QED
    BY <2>1, <2>2
<1>8. CASE RecWrite(k)
  <2>1. "account" \in Places
    BY DEF Places
  <2>2. /\ rec' \in [Threads -> [at : Places, block : 0 .. MaxBlock]]
        /\ rec'[k].at = "account" /\ rec'[k].block = None
        /\ \A j \in Threads : j # k => rec'[j] = rec[j]
    BY <1>8, <1>0, <2>1, RecSetFields DEF RecWrite
  <2>3. Busy' = Busy
    BY <1>8, <2>2 DEF RecWrite, Busy
  <2>4. SizeBounded' /\ BlockInHand'
    BY <1>8, <2>2, <2>3 DEF RecWrite, SizeBounded, BlockInHand, TypeOK
  <2>5. file' \in [Segments -> Seq(1 .. MaxBlock)]
    <3>1. rec[k].block \in 1 .. MaxBlock /\ handle \in Segments
      BY <1>8, <1>0 DEF RecWrite, TypeOK, BlockInHand, BoundAssumption
    <3>2. Append(file[handle], rec[k].block) \in Seq(1 .. MaxBlock)
      BY <3>1 DEF TypeOK
    <3>. QED
      BY <1>8, <3>1, <3>2 DEF RecWrite, TypeOK
  <2>6. TypeOK'
    BY <1>8, <2>2, <2>5 DEF RecWrite, TypeOK
  <2>7. ThreadLeft' /\ OldIsClosed' /\ OpOfPlace'
    BY <1>8, <1>1, <2>2 DEF RecWrite
  <2>. QED
    BY <2>4, <2>6, <2>7
<1>9. CASE RecWriteError(k)
  <2>1. SizeBounded' /\ BlockInHand' /\ ThreadLeft' /\ OldIsClosed' /\ OpOfPlace'
    BY <1>9, <1>1, <1>2 DEF RecWriteError
  <2>2. TypeOK'
    BY <1>9, <1>2 DEF RecWriteError, TypeOK
  <2>. QED
    BY <2>1, <2>2
<1>10. CASE RecNoSegment(k)
  <2>1. SizeBounded' /\ BlockInHand' /\ ThreadLeft' /\ OldIsClosed' /\ OpOfPlace'
    BY <1>10, <1>1, <1>3 DEF RecNoSegment
  <2>2. TypeOK'
    BY <1>10, <1>3 DEF RecNoSegment, TypeOK
  <2>. QED
    BY <2>1, <2>2
<1>11. CASE RecAccount(k)
  <2>1. SizeBounded' /\ BlockInHand' /\ ThreadLeft' /\ OldIsClosed' /\ OpOfPlace'
    BY <1>11, <1>1, <1>3 DEF RecAccount
  <2>2. /\ info'.size \in 0 .. MaxBlock
        /\ rec' \in [Threads -> [at : Places, block : 0 .. MaxBlock]]
    BY <1>11, <1>3 DEF RecAccount
  <2>3. info' \in [id : Segments \cup {None}, size : 0 .. MaxBlock]
        /\ info'.size = info.size + 1
    BY <1>11, <2>2 DEF RecAccount, TypeOK
  <2>4. TypeOK'
    BY <1>11, <2>2, <2>3 DEF RecAccount, TypeOK
  <2>. QED
    BY <2>1, <2>4
<1>. QED
  BY <1>4, <1>5, <1>6, <1>7, <1>8, <1>9, <1>10, <1>11 DEF RecStep

(* Every step keeps the types.                                             *)
LEMMA TypeInvNext ==
  ASSUME TypeInv, [Next]_vars
  PROVE  TypeInv'
<1>1. CASE Next
  BY <1>1, CallType, InCallType, RecType DEF Next
<1>2. CASE UNCHANGED vars
  BY <1>2 DEF vars, TypeInv, TypeOK, SizeBounded, Busy, BlockInHand, ThreadLeft,
              Fresh, OldIsClosed, OpOfPlace
<1>. QED
  BY <1>1, <1>2

(* A session that was not opened has the types.                            *)
LEMMA TypeInvInit ==
  ASSUME Init
  PROVE  TypeInv
<1>. USE DEF Init, None, Never
<1>1. BoundAssumption /\ GuardAssumption /\ LateAssumption
  BY BoundAssumption, GuardAssumption, LateAssumption
<1>2. Busy = {}
  BY DEF Busy
<1>3. file \in [Segments -> Seq(1 .. MaxBlock)]
  <2>1. <<>> \in Seq(1 .. MaxBlock)
    OBVIOUS
  <2>. QED
    BY <2>1
<1>4. 0 \in 0 .. MaxBlock /\ 0 \in 0 .. MaxCall
  BY <1>1 DEF BoundAssumption, GuardAssumption
<1>6. rec \in [Threads -> [at : Places, block : 0 .. MaxBlock]]
  BY <1>4 DEF Places
<1>7. api \in [at : ApiPlaces, op : Ops, ret : BOOLEAN, late : BOOLEAN]
  BY <1>1 DEF LateAssumption, ApiPlaces, Ops
<1>8. TypeOK
  BY <1>3, <1>4, <1>6, <1>7 DEF TypeOK, NoInfo, States
<1>5. SizeBounded
  BY <1>2, FS_EmptySet DEF SizeBounded, NoInfo
<1>. QED
  BY <1>5, <1>8 DEF TypeInv, BlockInHand, ThreadLeft, OldIsClosed, OpOfPlace

(* The state of a session, its segment files and its threads keep their    *)
(* types, in every session and for every bound: segment_info never counts  *)
(* more blocks than the device delivered (dvr_record.c:278-594).           *)
THEOREM TypeCorrect == Spec => []TypeInv
BY TypeInvInit, TypeInvNext, PTL DEF Spec

(***************************************************************************)
(* The sessions whose events come in time.                                 *)
(***************************************************************************)
LEMMA LateStays ==
  ASSUME TypeInv, [Next]_vars
  PROVE  OnTime' <=> OnTime
<1>1. CASE Call
  BY <1>1, CalledFields
  DEF TypeInv, OnTime, Call, Open, Close, Pause, Resume, Discard, Control, Start,
      StartFails, NextSegment, NextRefused, Stop, StopReturns, Return, Begin,
      ApiPlaces, Ops
<1>2. CASE InCall
  BY <1>2, GotoFields, FinishFields
  DEF TypeInv, OnTime, InCall, StartDevice, Run, RunFails, Join, DeviceFails,
      Store, StoreFails, CloseSegment, Reopen, ReopenFails, Pids, ApiPlaces
<1>3. ASSUME NEW k \in Threads, RecStep(k) PROVE api' = api
  BY <1>3
  DEF RecStep, RecTest, RecRead, RecPaused, RecSkip, RecWrite, RecWriteError,
              RecNoSegment, RecAccount
<1>. QED
  BY <1>1, <1>2, <1>3 DEF Next, vars, OnTime

(* A step that leaves the files and the threads alone keeps FilesInv, and  *)
(* what it takes to open a segment is that no thread lives.                *)
LEMMA FilesStay ==
  ASSUME FilesInv, UNCHANGED <<file, dat, allInfo, rec, delivered>>
  PROVE  FilesInv'
BY DEF FilesInv, EmptyAtFirst, HandIsLast, Ordered, Stored, Guarded

(* A segment is opened where no thread lives, and it is the newest.        *)
LEMMA OpenKeeps ==
  ASSUME TypeInv, SharingInv, FilesInv, NEW s \in Segments,
         NewSegment(s), OpenSegment(s), UNCHANGED <<allInfo, rec, delivered>>,
         \A k \in Threads : ~ Live(k),
         api'.at \notin {"idle", "reopen"}
  PROVE  SharingInv' /\ FilesInv'
<1>. USE DEF Never, None
<1>1. /\ handle' = s /\ info'.id = s /\ info'.size = 0
      /\ opened' = opened \cup {s}
      /\ file'[s] = <<>> /\ dat'[s] = Never
      /\ \A x \in Segments : x # s => file'[x] = file[x] /\ dat'[x] = dat[x]
  BY DEF OpenSegment, TypeInv, TypeOK
<1>2. /\ dat[s] = Never /\ file[s] = <<>> /\ allInfo[s] = Never
      /\ \A x \in Segments : x >= s => dat[x] = Never /\ x \notin opened
  <2>1. /\ dat[s] = Never
        /\ \A x \in Segments : x >= s => dat[x] = Never /\ x \notin opened
    BY DEF NewSegment, Segments
  <2>2. file[s] = <<>>
    BY <2>1 DEF FilesInv, EmptyAtFirst
  <2>3. allInfo[s] = Never
    BY <2>1, <2>2 DEF FilesInv, Stored
  <2>. QED
    BY <2>1, <2>2, <2>3
<1>3. \A x \in Segments : file'[x] = file[x] /\ dat'[x] = dat[x]
  BY <1>1, <1>2
<1>4. FilesInv'
  BY <1>3 DEF FilesInv, EmptyAtFirst, HandIsLast, Ordered, Stored, Guarded
<1>5. OneLive' /\ LiveStarted'
  BY DEF OneLive, LiveStarted, Live
<1>6. HandleOpen' /\ Unfinished'
  BY <1>1, <1>2 DEF HandleOpen, Unfinished, Segments
<1>7. Newest'
  BY <1>1, <1>2 DEF Newest, Segments
<1>8. SizeKept'
  BY <1>1, <1>3 DEF SizeKept, Live
<1>. QED
  BY <1>4, <1>5, <1>6, <1>7, <1>8 DEF SharingInv

(* A call starts to work on the segment only where no thread lives.        *)
LEMMA CallKeeps ==
  ASSUME TypeInv, OnTime, SharingInv, FilesInv, Call
  PROVE  SharingInv' /\ FilesInv'
<1>. USE DEF ctx, disk, None, Never
<1>1. /\ TypeOK /\ None \notin opened /\ ~ api.late
      /\ OneLive /\ LiveStarted /\ HandleOpen /\ Unfinished /\ Newest /\ SizeKept
  BY DEF TypeInv, TypeOK, Segments, OnTime, SharingInv
<1>2. CASE Start
  <2>1. /\ api'.at = "startDevice"
        /\ api.at = "idle" /\ ~ FailedNext
    BY <1>1, <1>2, CalledFields DEF Start, Begin, ApiPlaces, Ops
  <2>2. \A k \in Threads : ~ Live(k)
    BY <1>1, <1>2 DEF Start, OneLive
  <2>. QED
    BY <1>2, <2>1, <2>2, OpenKeeps DEF Start
<1>3. CASE NextRefused
  BY <1>1, <1>3 DEF NextRefused
<1>4. CASE Open
  <2>1. /\ api'.at = "idle" /\ api'.op = "open" /\ api'.ret = TRUE
        /\ api.at = "idle" /\ ~ FailedNext
    BY <1>1, <1>4, CalledFields DEF Open, Return, Begin, ApiPlaces, Ops
  <2>2. FilesInv'
    BY <1>4, FilesStay DEF Open
  <2>3. OneLive' /\ LiveStarted'
    BY <1>1, <1>4, <2>1 DEF Open, OneLive, LiveStarted, Live, FailedNext
  <2>4. HandleOpen' /\ Unfinished' /\ Newest' /\ SizeKept'
    BY <1>1, <1>4, <2>1
    DEF Open, HandleOpen, Unfinished, Newest, SizeKept, FailedNext
  <2>. QED
    BY <2>2, <2>3, <2>4 DEF SharingInv
<1>5. CASE Close
  <2>1. /\ api'.at = "idle" /\ api'.op = "close" /\ api'.ret = TRUE
        /\ api.at = "idle"
    BY <1>1, <1>5, CalledFields DEF Close, Return, Begin, ApiPlaces, Ops
  <2>2. FilesInv'
    BY <1>5, FilesStay DEF Close
  <2>3. OneLive' /\ LiveStarted'
    BY <1>1, <1>5, <2>1 DEF Close, OneLive, LiveStarted, Live, FailedNext
  <2>4. HandleOpen' /\ Unfinished' /\ Newest' /\ SizeKept'
    BY <1>1, <1>5, <2>1
    DEF Close, HandleOpen, Unfinished, Newest, SizeKept, FailedNext
  <2>. QED
    BY <2>2, <2>3, <2>4 DEF SharingInv
<1>6. CASE Pause
  <2>1. /\ api'.at = "idle" /\ api'.op = "pause" /\ api'.ret = TRUE
        /\ api.at = "idle" /\ ~ FailedNext
    BY <1>1, <1>6, CalledFields DEF Pause, Return, Control, Begin, ApiPlaces, Ops
  <2>2. FilesInv'
    BY <1>6, FilesStay DEF Pause, Control
  <2>3. OneLive' /\ LiveStarted'
    BY <1>1, <1>6, <2>1 DEF Pause, Control, OneLive, LiveStarted, Live, FailedNext
  <2>4. HandleOpen' /\ Unfinished' /\ Newest' /\ SizeKept'
    BY <1>1, <1>6, <2>1
    DEF Pause, Control, HandleOpen, Unfinished, Newest, SizeKept, FailedNext
  <2>. QED
    BY <2>2, <2>3, <2>4 DEF SharingInv
<1>7. CASE Resume
  <2>1. /\ api'.at = "idle" /\ api'.op = "resume" /\ api'.ret = TRUE
        /\ api.at = "idle" /\ ~ FailedNext
    BY <1>1, <1>7, CalledFields DEF Resume, Return, Control, Begin, ApiPlaces, Ops
  <2>2. FilesInv'
    BY <1>7, FilesStay DEF Resume, Control
  <2>3. OneLive' /\ LiveStarted'
    BY <1>1, <1>7, <2>1 DEF Resume, Control, OneLive, LiveStarted, Live, FailedNext
  <2>4. HandleOpen' /\ Unfinished' /\ Newest' /\ SizeKept'
    BY <1>1, <1>7, <2>1
    DEF Resume, Control, HandleOpen, Unfinished, Newest, SizeKept, FailedNext
  <2>. QED
    BY <2>2, <2>3, <2>4 DEF SharingInv
<1>8. CASE Discard
  <2>1. /\ api'.at = "idle" /\ api'.op = "discard" /\ api'.ret = TRUE
        /\ api.at = "idle" /\ ~ FailedNext
    BY <1>1, <1>8, CalledFields DEF Discard, Return, Control, Begin, ApiPlaces, Ops
  <2>2. FilesInv'
    BY <1>8, FilesStay DEF Discard, Control
  <2>3. OneLive' /\ LiveStarted'
    BY <1>1, <1>8, <2>1 DEF Discard, Control, OneLive, LiveStarted, Live, FailedNext
  <2>4. HandleOpen' /\ Unfinished' /\ Newest' /\ SizeKept'
    BY <1>1, <1>8, <2>1
    DEF Discard, Control, HandleOpen, Unfinished, Newest, SizeKept, FailedNext
  <2>. QED
    BY <2>2, <2>3, <2>4 DEF SharingInv
<1>9. CASE StartFails
  <2>1. /\ api'.at = "idle" /\ api'.op = "start" /\ api'.ret = FALSE
        /\ api.at = "idle" /\ ~ FailedNext
    BY <1>1, <1>9, CalledFields DEF StartFails, Return, Begin, ApiPlaces, Ops
  <2>2. FilesInv'
    BY <1>9, FilesStay DEF StartFails
  <2>3. OneLive' /\ LiveStarted'
    BY <1>1, <1>9, <2>1 DEF StartFails, OneLive, LiveStarted, Live, FailedNext
  <2>4. HandleOpen' /\ Unfinished' /\ Newest' /\ SizeKept'
    BY <1>1, <1>9, <2>1
    DEF StartFails, HandleOpen, Unfinished, Newest, SizeKept, FailedNext
  <2>. QED
    BY <2>2, <2>3, <2>4 DEF SharingInv
<1>10. CASE NextSegment
  <2>1. /\ api'.at = "join" /\ api'.op = "next" /\ api'.ret = TRUE
        /\ api.at = "idle" /\ ~ FailedNext
    BY <1>1, <1>10, CalledFields DEF NextSegment, Begin, Begin, ApiPlaces, Ops
  <2>2. FilesInv'
    BY <1>10, FilesStay DEF NextSegment
  <2>3. OneLive' /\ LiveStarted'
    BY <1>1, <1>10, <2>1 DEF NextSegment, OneLive, LiveStarted, Live, FailedNext
  <2>4. HandleOpen' /\ Unfinished' /\ Newest' /\ SizeKept'
    BY <1>1, <1>10, <2>1
    DEF NextSegment, HandleOpen, Unfinished, Newest, SizeKept, FailedNext
  <2>. QED
    BY <2>2, <2>3, <2>4 DEF SharingInv
<1>11. CASE Stop
  <2>1. /\ api'.at = "join" /\ api'.op = "stop" /\ api'.ret = TRUE
        /\ api.at = "idle" /\ ~ FailedNext
    BY <1>1, <1>11, CalledFields DEF Stop, Begin, Begin, ApiPlaces, Ops
  <2>2. FilesInv'
    BY <1>11, FilesStay DEF Stop
  <2>3. OneLive' /\ LiveStarted'
    BY <1>1, <1>11, <2>1 DEF Stop, OneLive, LiveStarted, Live, FailedNext
  <2>4. HandleOpen' /\ Unfinished' /\ Newest' /\ SizeKept'
    BY <1>1, <1>11, <2>1
    DEF Stop, HandleOpen, Unfinished, Newest, SizeKept, FailedNext
  <2>. QED
    BY <2>2, <2>3, <2>4 DEF SharingInv
<1>12. CASE StopReturns
  <2>1. /\ api'.at = "idle" /\ api'.op = "stop" /\ api'.ret = TRUE
        /\ api.at = "idle" /\ ~ FailedNext
    BY <1>1, <1>12, CalledFields DEF StopReturns, Return, Begin, ApiPlaces, Ops
  <2>2. FilesInv'
    BY <1>12, FilesStay DEF StopReturns
  <2>3. OneLive' /\ LiveStarted'
    BY <1>1, <1>12, <2>1 DEF StopReturns, OneLive, LiveStarted, Live, FailedNext
  <2>4. HandleOpen' /\ Unfinished' /\ Newest' /\ SizeKept'
    BY <1>1, <1>12, <2>1
    DEF StopReturns, HandleOpen, Unfinished, Newest, SizeKept, FailedNext
  <2>. QED
    BY <2>2, <2>3, <2>4 DEF SharingInv
<1>. QED
  BY <1>2, <1>3, <1>4, <1>5, <1>6, <1>7, <1>8, <1>9, <1>10, <1>11, <1>12 DEF Call

(* Within a call no thread lives but in pthread_join.                      *)
LEMMA InCallKeeps ==
  ASSUME TypeInv, OnTime, SharingInv, FilesInv, InCall
  PROVE  SharingInv' /\ FilesInv'
<1>. USE DEF ctx, disk, None, Never
<1>1. /\ TypeOK /\ None \notin opened /\ OpOfPlace /\ ThreadLeft /\ OldIsClosed
      /\ OneLive /\ LiveStarted /\ HandleOpen /\ Unfinished /\ Newest /\ SizeKept
  BY DEF TypeInv, TypeOK, Segments, SharingInv
<1>2. api.at # "idle" /\ ~ FailedNext /\ handle \in Segments
  BY <1>1
  DEF InCall, StartDevice, Run, RunFails, Join, DeviceFails, Store, StoreFails,
              CloseSegment, Reopen, ReopenFails, Pids, OpOfPlace, FailedNext, HandleOpen,
              TypeOK
<1>3. ASSUME api.at # "join" PROVE \A k \in Threads : ~ Live(k)
  BY <1>1, <1>2, <1>3 DEF OneLive
<1>4. ASSUME api.at \notin {"join", "reopen"}
      PROVE  /\ handle \in opened /\ info.id = handle
             /\ info.size = Len(file[handle])
             /\ api.at # "closing" => allInfo[handle] = Never
  BY <1>1, <1>2, <1>3, <1>4 DEF HandleOpen, SizeKept, Unfinished, Live
<1>5. CASE Run
  <2>1. api'.at = "idle" /\ api'.op = api.op /\ api'.ret
    BY <1>1, <1>5, FinishFields DEF Run
  <2>2. PICK k \in Threads :
          /\ rec[k].at = "none" /\ thread' = k
          /\ rec' = [rec EXCEPT ![k] = [at |-> "test", block |-> None]]
    BY <1>1, <1>5, NewThread DEF Run, ThreadLeft
  <2>3. /\ rec'[k].at = "test"
        /\ \A j \in Threads : j # k => rec'[j] = rec[j]
    BY <1>1, <2>2 DEF TypeOK
  <2>4. /\ dat'[handle] = info.size /\ info.size \in Nat
        /\ \A x \in Segments : x # handle => dat'[x] = dat[x]
    BY <1>1, <1>2, <1>5 DEF Run, TypeOK
  <2>5. \A j \in Threads : ~ Live(j)
    BY <1>3, <1>5 DEF Run
  <2>6. OneLive' /\ LiveStarted'
    BY <1>2, <1>5, <2>1, <2>2, <2>3, <2>4, <2>5
    DEF Run, OneLive, LiveStarted, Live, FailedNext, Segments
  <2>7. HandleOpen' /\ Unfinished'
    BY <1>4, <1>5, <2>1 DEF Run, HandleOpen, Unfinished
  <2>8. Newest'
    BY <1>1, <1>2, <1>5, <2>4 DEF Run, Newest, Segments
  <2>9. SizeKept'
    BY <1>1, <1>5, <2>2, <2>3 DEF Run, SizeKept
  <2>10. EmptyAtFirst' /\ Stored' /\ Guarded'
    BY <1>4, <1>5, <2>4 DEF Run, FilesInv, EmptyAtFirst, Stored, Guarded
  <2>11. HandIsLast' /\ Ordered'
    BY <1>5, <2>2, <2>3 DEF Run, FilesInv, HandIsLast, Ordered
  <2>. QED
    BY <2>6, <2>7, <2>8, <2>9, <2>10, <2>11 DEF SharingInv, FilesInv
<1>6. CASE Store
  <2>1. api'.at = "closing" /\ api'.op = api.op /\ api'.ret = api.ret
    BY <1>1, <1>6, GotoFields DEF Store, ApiPlaces
  <2>2. /\ dat'[handle] = info.size /\ allInfo'[handle] = info.size /\ info.size \in Nat
        /\ \A x \in Segments : x # handle => dat'[x] = dat[x] /\ allInfo'[x] = allInfo[x]
    BY <1>1, <1>2, <1>6 DEF Store, TypeOK
  <2>3. \A j \in Threads : ~ Live(j)
    BY <1>3, <1>6 DEF Store
  <2>4. OneLive' /\ LiveStarted'
    BY <1>6, <2>3 DEF Store, OneLive, LiveStarted, Live
  <2>5. HandleOpen' /\ Unfinished'
    BY <1>1, <1>4, <1>6, <2>1 DEF Store, HandleOpen, Unfinished
  <2>6. Newest'
    BY <1>1, <1>2, <1>6, <2>2 DEF Store, Newest, Segments
  <2>7. SizeKept'
    BY <1>1, <1>6 DEF Store, SizeKept
  <2>8. EmptyAtFirst' /\ Stored' /\ Guarded'
    BY <1>4, <1>6, <2>2 DEF Store, FilesInv, EmptyAtFirst, Stored, Guarded
  <2>9. HandIsLast' /\ Ordered'
    BY <1>6 DEF Store, FilesInv, HandIsLast, Ordered
  <2>. QED
    BY <2>4, <2>5, <2>6, <2>7, <2>8, <2>9 DEF SharingInv, FilesInv
<1>7. CASE Reopen
  <2>1. api'.at = "pids"
    BY <1>1, <1>7, GotoFields DEF Reopen, ApiPlaces
  <2>. QED
    BY <1>3, <1>7, <2>1, OpenKeeps DEF Reopen
<1>8. CASE StartDevice
  <2>1. /\ api'.op = api.op
        /\ \/ api'.at = "run" /\ api'.ret = api.ret
           \/ api'.at = "idle"
    BY <1>1, <1>8, GotoFields, FinishFields DEF StartDevice, ApiPlaces
  <2>2. FilesInv'
    BY <1>8, FilesStay DEF StartDevice
  <2>3. OneLive' /\ LiveStarted'
    BY <1>1, <1>3, <1>8 DEF StartDevice, OneLive, LiveStarted, Live
  <2>4. HandleOpen' /\ Unfinished' /\ Newest' /\ SizeKept'
    BY <1>1, <1>2, <1>8, <2>1
    DEF StartDevice, HandleOpen, Unfinished, Newest, SizeKept, FailedNext,
        OldIsClosed
  <2>. QED
    BY <2>2, <2>3, <2>4 DEF SharingInv
<1>9. CASE RunFails
  <2>1. /\ api'.op = api.op
        /\ api'.at = "idle"
    BY <1>1, <1>9, GotoFields, FinishFields DEF RunFails, ApiPlaces
  <2>2. FilesInv'
    BY <1>9, FilesStay DEF RunFails
  <2>3. OneLive' /\ LiveStarted'
    BY <1>1, <1>3, <1>9 DEF RunFails, OneLive, LiveStarted, Live
  <2>4. HandleOpen' /\ Unfinished' /\ Newest' /\ SizeKept'
    BY <1>1, <1>2, <1>9, <2>1
    DEF RunFails, HandleOpen, Unfinished, Newest, SizeKept, FailedNext,
        OldIsClosed
  <2>. QED
    BY <2>2, <2>3, <2>4 DEF SharingInv
<1>10. CASE Join
  <2>1. /\ api'.op = api.op
        /\ api'.at = "store" /\ api'.ret = api.ret
    BY <1>1, <1>10, GotoFields, FinishFields DEF Join, ApiPlaces
  <2>2. FilesInv'
    BY <1>10, FilesStay DEF Join
  <2>3. OneLive' /\ LiveStarted'
    BY <1>1, <1>3, <1>10 DEF Join, OneLive, LiveStarted, Live, Threads
  <2>4. HandleOpen' /\ Unfinished' /\ Newest' /\ SizeKept'
    BY <1>1, <1>2, <1>10, <2>1
    DEF Join, HandleOpen, Unfinished, Newest, SizeKept, FailedNext, OldIsClosed
  <2>. QED
    BY <2>2, <2>3, <2>4 DEF SharingInv
<1>11. CASE DeviceFails
  <2>1. /\ api'.op = api.op
        /\ api'.at = "closing" /\ api'.ret = api.ret
    BY <1>1, <1>11, GotoFields, FinishFields DEF DeviceFails, ApiPlaces
  <2>2. FilesInv'
    BY <1>11, FilesStay DEF DeviceFails
  <2>3. OneLive' /\ LiveStarted'
    BY <1>1, <1>3, <1>11 DEF DeviceFails, OneLive, LiveStarted, Live
  <2>4. HandleOpen' /\ Unfinished' /\ Newest' /\ SizeKept'
    BY <1>1, <1>2, <1>11, <2>1
    DEF DeviceFails, HandleOpen, Unfinished, Newest, SizeKept, FailedNext,
        OldIsClosed
  <2>. QED
    BY <2>2, <2>3, <2>4 DEF SharingInv
<1>12. CASE StoreFails
  <2>1. /\ api'.op = api.op
        /\ \/ api'.at = "closing" /\ api'.ret = api.ret
           \/ api'.at = "idle" /\ api.op = "next" /\ ~ api'.ret
    BY <1>1, <1>12, GotoFields, FinishFields DEF StoreFails, ApiPlaces
  <2>2. FilesInv'
    BY <1>12, FilesStay DEF StoreFails, StopDevice
  <2>3. OneLive' /\ LiveStarted'
    BY <1>1, <1>3, <1>12 DEF StoreFails, StopDevice, OneLive, LiveStarted, Live
  <2>4. HandleOpen' /\ Unfinished' /\ Newest' /\ SizeKept'
    BY <1>1, <1>2, <1>12, <2>1
    DEF StoreFails, StopDevice, HandleOpen, Unfinished, Newest, SizeKept,
        FailedNext, OldIsClosed
  <2>. QED
    BY <2>2, <2>3, <2>4 DEF SharingInv
<1>13. CASE CloseSegment
  <2>1. /\ api'.op = api.op
        /\ \/ api'.at = "idle" /\ api.op = "stop" /\ handle' = None
           \/ api'.at = "reopen" /\ handle' = handle
    BY <1>1, <1>13, GotoFields, FinishFields DEF CloseSegment, ApiPlaces
  <2>2. FilesInv'
    BY <1>13, FilesStay DEF CloseSegment
  <2>3. OneLive' /\ LiveStarted'
    BY <1>1, <1>3, <1>13 DEF CloseSegment, OneLive, LiveStarted, Live
  <2>4. opened' = opened \ {handle} /\ handle' \in {None, handle} /\ info' = info
    BY <1>13 DEF CloseSegment
  <2>5. HandleOpen' /\ Unfinished'
    BY <1>2, <2>1, <2>4 DEF HandleOpen, Unfinished, Segments
  <2>6. Newest' /\ SizeKept'
    BY <1>1, <1>13, <2>4 DEF CloseSegment, Newest, SizeKept
  <2>. QED
    BY <2>2, <2>3, <2>5, <2>6 DEF SharingInv
<1>14. CASE ReopenFails
  <2>1. /\ api'.op = api.op
        /\ api'.at = "idle" /\ api.op = "next" /\ ~ api'.ret
    BY <1>1, <1>14, GotoFields, FinishFields DEF ReopenFails, ApiPlaces, OpOfPlace
  <2>2. FilesInv'
    BY <1>14, FilesStay DEF ReopenFails
  <2>3. OneLive' /\ LiveStarted'
    BY <1>1, <1>3, <1>14 DEF ReopenFails, OneLive, LiveStarted, Live
  <2>4. HandleOpen' /\ Unfinished' /\ Newest' /\ SizeKept'
    BY <1>1, <1>2, <1>14, <2>1
    DEF ReopenFails, HandleOpen, Unfinished, Newest, SizeKept, FailedNext,
        OldIsClosed
  <2>. QED
    BY <2>2, <2>3, <2>4 DEF SharingInv
<1>15. CASE Pids
  <2>1. /\ api'.op = api.op
        /\ \/ api'.at = "run" /\ api'.ret = api.ret
           \/ api'.at = "idle" /\ api.op = "next" /\ ~ api'.ret
    BY <1>1, <1>15, GotoFields, FinishFields DEF Pids, ApiPlaces, OpOfPlace
  <2>2. FilesInv'
    BY <1>15, FilesStay DEF Pids
  <2>3. OneLive' /\ LiveStarted'
    BY <1>1, <1>3, <1>15 DEF Pids, OneLive, LiveStarted, Live
  <2>4. HandleOpen' /\ Unfinished' /\ Newest' /\ SizeKept'
    BY <1>1, <1>2, <1>15, <2>1
    DEF Pids, HandleOpen, Unfinished, Newest, SizeKept, FailedNext, OldIsClosed
  <2>. QED
    BY <2>2, <2>3, <2>4 DEF SharingInv
<1>. QED
  BY <1>5, <1>6, <1>7, <1>8, <1>9, <1>10, <1>11, <1>12, <1>13, <1>14, <1>15
  DEF InCall

(* An element of a sequence.                                               *)
LEMMA ElementIn ==
  ASSUME NEW S, NEW q \in Seq(S), NEW i \in DOMAIN q
  PROVE  q[i] \in S
OBVIOUS

(* The record thread alone writes to the segment and accounts for it.      *)
LEMMA RecKeeps ==
  ASSUME TypeInv, OnTime, SharingInv, FilesInv, NEW k \in Threads, RecStep(k)
  PROVE  SharingInv' /\ FilesInv'
<1>. USE DEF ctx, disk, None, Never
<1>1. /\ TypeOK /\ BlockInHand
      /\ OneLive /\ LiveStarted /\ HandleOpen /\ Unfinished /\ Newest /\ SizeKept
      /\ EmptyAtFirst /\ HandIsLast /\ Ordered /\ Stored /\ Guarded
  BY DEF TypeInv, SharingInv, FilesInv
<1>2. Live(k) /\ api' = api /\ handle' = handle /\ opened' = opened /\ thread' = thread
  BY DEF RecStep, RecTest, RecRead, RecPaused, RecSkip, RecWrite, RecWriteError,
         RecNoSegment, RecAccount, Live
<1>3. /\ k = thread /\ api.at \in {"idle", "join"} /\ ~ FailedNext
      /\ \A j \in Threads : j # k => ~ Live(j)
      /\ handle \in Segments /\ handle \in opened /\ info.id = handle
      /\ dat[handle] # Never /\ allInfo[handle] = Never
      /\ \A s \in Segments : s > handle => file[s] = <<>>
  <2>1. /\ k = thread /\ api.at \in {"idle", "join"} /\ ~ FailedNext /\ handle # None
        /\ dat[handle] # Never
    BY <1>1, <1>2 DEF OneLive, LiveStarted
  <2>2. \A j \in Threads : j # k => ~ Live(j)
    BY <1>1, <2>1 DEF OneLive
  <2>3. /\ handle \in Segments /\ handle \in opened /\ info.id = handle
        /\ allInfo[handle] = Never
    BY <1>1, <2>1 DEF HandleOpen, Unfinished, TypeOK
  <2>4. \A s \in Segments : s > handle => file[s] = <<>>
    BY <1>1, <2>1 DEF Newest, EmptyAtFirst
  <2>. QED
    BY <2>1, <2>2, <2>3, <2>4
<1>4. ASSUME \A j \in Threads : j # k => rec'[j] = rec[j]
      PROVE  OneLive'
  BY <1>2, <1>3, <1>4 DEF OneLive, Live, FailedNext, Segments

(* A step that touches no file and no information about one.               *)
<1>5. ASSUME \A j \in Threads : j # k => rec'[j] = rec[j],
             rec[k].at # "account", rec'[k].at # "account",
             rec'[k].at \in {"got", "write"} =>
               rec[k].at = "got" /\ rec'[k].block = rec[k].block,
             UNCHANGED <<info, delivered, file, dat, allInfo>>
      PROVE  SharingInv' /\ FilesInv'
  <2>1. LiveStarted' /\ HandleOpen' /\ Unfinished' /\ Newest'
    BY <1>1, <1>2, <1>3, <1>5
    DEF LiveStarted, HandleOpen, Unfinished, Newest, FailedNext
  <2>2. SizeKept'
    BY <1>1, <1>2, <1>5 DEF SizeKept
  <2>3. HandIsLast'
    BY <1>1, <1>5 DEF HandIsLast
  <2>4. EmptyAtFirst' /\ Ordered' /\ Stored' /\ Guarded'
    BY <1>1, <1>5 DEF EmptyAtFirst, Ordered, Stored, Guarded
  <2>. QED
    BY <1>4, <1>5, <2>1, <2>2, <2>3, <2>4 DEF SharingInv, FilesInv
<1>6. ASSUME NEW place \in {"read", "write", "exit", "test"}, RecTo(k, place),
             rec[k].at # "account", place = "write" => rec[k].at = "got",
             UNCHANGED <<info, delivered, file, dat, allInfo>>
      PROVE  SharingInv' /\ FilesInv'
  <2>1. place \in Places
    BY DEF Places
  <2>2. /\ rec'[k].at = place /\ rec'[k].block = rec[k].block
        /\ \A j \in Threads : j # k => rec'[j] = rec[j]
    BY <1>1, <1>6, <2>1, RecToFields
  <2>. QED
    BY <1>5, <1>6, <2>2
<1>7. ASSUME RecDone(k), rec[k].at # "account",
             UNCHANGED <<info, delivered, file, dat, allInfo>>
      PROVE  SharingInv' /\ FilesInv'
  <2>1. /\ rec'[k].at = "test"
        /\ \A j \in Threads : j # k => rec'[j] = rec[j]
    BY <1>1, <1>7, RecDoneFields, BoundAssumption
  <2>. QED
    BY <1>5, <1>7, <2>1
<1>8. CASE RecTest(k)
  BY <1>6, <1>8 DEF RecTest
<1>9. CASE RecRead(k)
  <2>1. CASE RecTo(k, "test") /\ UNCHANGED delivered
    BY <1>6, <1>9, <2>1 DEF RecRead
  <2>2. CASE /\ delivered < MaxBlock
             /\ delivered' = delivered + 1
             /\ rec' = [rec EXCEPT ![k] = [at |-> "got", block |-> delivered + 1]]
    <3>1. /\ rec'[k].at = "got" /\ rec'[k].block = delivered + 1
          /\ \A j \in Threads : j # k => rec'[j] = rec[j]
      BY <1>1, <2>2 DEF TypeOK
    <3>2. UNCHANGED <<info, file, dat, allInfo>> /\ rec[k].at = "read"
      BY <1>9 DEF RecRead
    <3>3. LiveStarted' /\ HandleOpen' /\ Unfinished' /\ Newest'
      BY <1>1, <1>2, <1>3, <3>1, <3>2
      DEF LiveStarted, HandleOpen, Unfinished, Newest, FailedNext
    <3>4. SizeKept'
      BY <1>1, <1>2, <3>1, <3>2 DEF SizeKept
    <3>5. \A s \in Segments : \A i \in DOMAIN file[s] :
            file[s][i] \in Nat /\ file[s][i] <= delivered
      <4>1. \A s \in Segments : file[s] \in Seq(1 .. MaxBlock)
        BY <1>1 DEF TypeOK
      <4>2. ASSUME NEW s \in Segments, NEW i \in DOMAIN file[s]
            PROVE  file[s][i] \in Nat
        <5>1. file[s] \in Seq(1 .. MaxBlock)
          BY <4>1
        <5>2. file[s][i] \in 1 .. MaxBlock
          BY <5>1, ElementIn
        <5>. QED
          BY <5>2
      <4>. QED
        BY <1>1, <4>2 DEF HandIsLast
    <3>6. delivered \in Nat
      BY <1>1 DEF TypeOK
    <3>7. HandIsLast'
      BY <1>3, <2>2, <3>1, <3>2, <3>5, <3>6 DEF HandIsLast, Live
    <3>8. EmptyAtFirst' /\ Ordered' /\ Stored' /\ Guarded'
      BY <1>1, <3>2 DEF EmptyAtFirst, Ordered, Stored, Guarded
    <3>. QED
      BY <1>4, <3>1, <3>3, <3>4, <3>7, <3>8 DEF SharingInv, FilesInv
  <2>. QED
    BY <1>9, <2>1, <2>2 DEF RecRead
<1>10. CASE RecPaused(k)
  BY <1>6, <1>7, <1>10 DEF RecPaused, Skip
<1>11. CASE RecSkip(k)
  BY <1>7, <1>11 DEF RecSkip, Skip
<1>12. CASE RecWriteError(k)
  BY <1>6, <1>12 DEF RecWriteError
<1>13. CASE RecNoSegment(k)
  BY <1>7, <1>13 DEF RecNoSegment
<1>14. CASE RecWrite(k)
  <2>1. /\ rec'[k].at = "account"
        /\ \A j \in Threads : j # k => rec'[j] = rec[j]
    BY <1>1, <1>14 DEF RecWrite, TypeOK
  <2>2. /\ file[handle] \in Seq(1 .. MaxBlock) /\ rec[k].block \in Nat
        /\ file'[handle] = Append(file[handle], rec[k].block)
        /\ \A s \in Segments : s # handle => file'[s] = file[s]
        /\ rec[k].at = "write" /\ UNCHANGED <<info, dat, allInfo, delivered>>
    BY <1>1, <1>3, <1>14 DEF RecWrite, TypeOK
  <2>3. /\ Len(file[handle]) \in Nat /\ DOMAIN file[handle] = 1 .. Len(file[handle])
        /\ Len(file'[handle]) = Len(file[handle]) + 1
        /\ DOMAIN file'[handle] = 1 .. Len(file[handle]) + 1
        /\ \A i \in DOMAIN file[handle] : file'[handle][i] = file[handle][i]
        /\ file'[handle][Len(file[handle]) + 1] = rec[k].block
    BY <2>2
  <2>4. info.size = Len(file[handle])
    BY <1>1, <1>3, <2>2 DEF SizeKept, Live
  <2>5. LiveStarted' /\ HandleOpen' /\ Unfinished' /\ Newest'
    BY <1>1, <1>2, <1>3, <2>2
    DEF LiveStarted, HandleOpen, Unfinished, Newest, FailedNext
  <2>6. SizeKept'
    BY <1>2, <2>1, <2>2, <2>3, <2>4 DEF SizeKept
  <2>7. EmptyAtFirst'
    BY <1>1, <1>3, <2>2 DEF EmptyAtFirst
  <2>8. /\ rec[k].block = delivered
        /\ \A s \in Segments : \A i \in DOMAIN file[s] :
             file[s][i] < delivered /\ file[s][i] <= delivered
    BY <1>1, <2>2 DEF HandIsLast
  <2>9. HandIsLast'
    <3>1. ASSUME NEW s \in Segments, NEW i \in DOMAIN file'[s]
          PROVE  file'[s][i] <= delivered
      <4>1. CASE s # handle
        BY <2>2, <2>8, <3>1, <4>1
      <4>2. CASE s = handle /\ i = Len(file[handle]) + 1
        <5>1. file'[s][i] = delivered /\ delivered \in Nat
          BY <2>2, <2>3, <2>8, <4>2
        <5>. QED
          BY <5>1
      <4>3. CASE s = handle /\ i # Len(file[handle]) + 1
        <5>1. i \in DOMAIN file[handle]
          BY <2>3, <3>1, <4>3
        <5>. QED
          BY <2>3, <2>8, <4>3, <5>1
      <4>. QED
        BY <4>1, <4>2, <4>3
    <3>2. \A j \in Threads : rec'[j].at \notin {"got", "write"}
      BY <1>3, <2>1 DEF Live
    <3>. QED
      BY <2>2, <3>1, <3>2 DEF HandIsLast
  <2>10. Ordered'
    <3>1. SUFFICES ASSUME NEW s \in Segments, NEW t \in Segments,
                          NEW i \in DOMAIN file'[s], NEW j \in DOMAIN file'[t],
                          s < t \/ (s = t /\ i < j)
                   PROVE  file'[s][i] < file'[t][j]
      BY DEF Ordered
    <3>2. s \in Nat /\ t \in Nat /\ handle \in Nat
      BY <1>3 DEF Segments
    <3>3. CASE t = handle /\ j = Len(file[handle]) + 1
      <4>1. i \in DOMAIN file[s] /\ file'[s][i] = file[s][i]
        <5>1. CASE s # handle
          BY <2>2, <3>1, <5>1
        <5>2. CASE s = handle
          <6>1. i < Len(file[handle]) + 1
            BY <3>1, <3>2, <3>3, <5>2
          <6>2. i \in 1 .. Len(file[handle])
            BY <2>3, <3>1, <5>2, <6>1
          <6>. QED
            BY <2>3, <5>2, <6>2
        <5>. QED
          BY <5>1, <5>2
      <4>. QED
        BY <2>3, <2>8, <3>3, <4>1
    <3>4. CASE ~ (t = handle /\ j = Len(file[handle]) + 1)
      <4>1. j \in DOMAIN file[t] /\ file'[t][j] = file[t][j]
        <5>1. CASE t # handle
          BY <2>2, <3>1, <5>1
        <5>2. CASE t = handle
          <6>1. j \in 1 .. Len(file[handle])
            BY <2>3, <3>1, <3>4, <5>2
          <6>. QED
            BY <2>3, <5>2, <6>1
        <5>. QED
          BY <5>1, <5>2
      <4>2. ~ (t > handle)
        BY <1>3, <4>1
      <4>3. i \in DOMAIN file[s] /\ file'[s][i] = file[s][i]
        <5>1. CASE s # handle
          BY <2>2, <3>1, <5>1
        <5>2. CASE s = handle
          <6>1. t = handle /\ i < j
            BY <3>1, <3>2, <4>2, <5>2
          <6>2. i \in 1 .. Len(file[handle])
            BY <2>3, <3>1, <4>1, <5>2, <6>1
          <6>. QED
            BY <2>3, <5>2, <6>2
        <5>. QED
          BY <5>1, <5>2
      <4>. QED
        BY <1>1, <3>1, <4>1, <4>3 DEF Ordered
    <3>. QED
      BY <3>3, <3>4
  <2>11. Stored'
    BY <1>1, <1>3, <2>2, <2>3 DEF Stored, TypeOK
  <2>12. Guarded'
    BY <1>1, <1>14, <2>2, <2>3, <2>4, GuardAssumption
    DEF RecWrite, Skips, Guarded, GuardAssumption
  <2>. QED
    BY <1>4, <2>1, <2>5, <2>6, <2>7, <2>9, <2>10, <2>11, <2>12
    DEF SharingInv, FilesInv
<1>15. CASE RecAccount(k)
  <2>1. /\ rec'[k].at = "test" /\ rec[k].at = "account"
        /\ \A j \in Threads : j # k => rec'[j] = rec[j]
    BY <1>1, <1>15, RecDoneFields, BoundAssumption DEF RecAccount
  <2>2. /\ info'.size = info.size + 1 /\ info'.id = info.id /\ info.size \in Nat
        /\ UNCHANGED <<file, allInfo, delivered>>
    BY <1>1, <1>15 DEF RecAccount, TypeOK
  <2>3. /\ dat'[handle] \in {dat[handle], info.size + 1}
        /\ \A s \in Segments : s # handle => dat'[s] = dat[s]
    BY <1>1, <1>3, <1>15 DEF RecAccount, TypeOK
  <2>4. info.size + 1 = Len(file[handle])
    BY <1>1, <1>3, <2>1 DEF SizeKept
  <2>5. LiveStarted'
    BY <1>1, <1>2, <1>3, <2>2, <2>3 DEF LiveStarted
  <2>6. HandleOpen' /\ Unfinished'
    BY <1>1, <1>2, <1>3, <2>2 DEF HandleOpen, Unfinished, FailedNext
  <2>7. Newest'
    BY <1>1, <1>2, <1>3, <2>3 DEF Newest, Segments
  <2>8. SizeKept'
    BY <1>2, <1>3, <2>1, <2>2, <2>4 DEF SizeKept, Live
  <2>9. EmptyAtFirst' /\ Stored'
    BY <1>1, <1>3, <2>2, <2>3, <2>4 DEF EmptyAtFirst, Stored
  <2>10. HandIsLast'
    BY <1>1, <2>1, <2>2 DEF HandIsLast
  <2>11. Ordered' /\ Guarded'
    BY <1>1, <2>2 DEF Ordered, Guarded
  <2>. QED
    BY <1>4, <2>1, <2>5, <2>6, <2>7, <2>8, <2>9, <2>10, <2>11
    DEF SharingInv, FilesInv
<1>. QED
  BY <1>8, <1>9, <1>10, <1>11, <1>12, <1>13, <1>14, <1>15 DEF RecStep

(* Every step keeps the inductive invariant.                               *)
LEMMA IInvNext ==
  ASSUME TypeInv, IInv, [Next]_vars
  PROVE  IInv'
<1>1. SUFFICES ASSUME OnTime, SharingInv, FilesInv
               PROVE  SharingInv' /\ FilesInv'
  BY LateStays DEF IInv
<1>2. CASE Next
  BY <1>1, <1>2, CallKeeps, InCallKeeps, RecKeeps DEF Next
<1>3. CASE UNCHANGED vars
  <2>1. FilesInv'
    BY <1>1, <1>3, FilesStay DEF vars
  <2>2. SharingInv'
    BY <1>1, <1>3
    DEF vars, SharingInv, OneLive, Live, FailedNext, LiveStarted, HandleOpen, Unfinished,
        Newest, SizeKept
  <2>. QED
    BY <2>1, <2>2
<1>. QED
  BY <1>2, <1>3

(* A session that was not opened has the invariant.                        *)
LEMMA IInvInit ==
  ASSUME Init
  PROVE  IInv
<1>. USE DEF Init, None, Never
<1>1. SharingInv
  BY
  DEF SharingInv, OneLive, Live, LiveStarted, HandleOpen, Unfinished, Newest,
      SizeKept
<1>2. EmptyAtFirst /\ HandIsLast /\ Ordered
  BY DEF EmptyAtFirst, HandIsLast, Ordered
<1>3. Stored /\ Guarded
  BY GuardAssumption DEF Stored, Guarded, GuardAssumption
<1>. QED
  BY <1>1, <1>2, <1>3 DEF IInv, FilesInv

(* The properties follow from the inductive invariant.                     *)
LEMMA RecordInvHolds ==
  ASSUME TypeInv, IInv
  PROVE  RecordInv
<1>1. TypeOK
  BY DEF TypeInv
<1>2. OnTime => OneWriter /\ WritesToOpenSegment /\ SizeIsWritten
  <2>. SUFFICES ASSUME OnTime
                PROVE  OneWriter /\ WritesToOpenSegment /\ SizeIsWritten
    OBVIOUS
  <2>1. OneLive /\ HandleOpen /\ SizeKept
    BY DEF IInv, SharingInv
  <2>2. OneWriter
    BY <2>1 DEF OneWriter, OneLive
  <2>3. WritesToOpenSegment
    BY <2>1 DEF WritesToOpenSegment, OneLive, HandleOpen
  <2>4. SizeIsWritten
    <3>. DEFINE A == {k \in Threads : rec[k].at = "account"}
    <3>1. SUFFICES ASSUME handle \in opened, info.id = handle
                   PROVE  info.size + Cardinality(A) = Len(file[handle])
      BY DEF SizeIsWritten
    <3>2. CASE A = {}
      <4>1. Cardinality(A) = 0
        BY <3>2, FS_EmptySet
      <4>2. \A k \in Threads : rec[k].at # "account"
        BY <3>2
      <4>. QED
        BY <1>1, <2>1, <3>1, <4>1, <4>2 DEF SizeKept, TypeOK
    <3>3. CASE A # {}
      <4>1. PICK k \in Threads : rec[k].at = "account"
        BY <3>3
      <4>2. A = {k}
        BY <2>1, <4>1 DEF OneLive, Live
      <4>3. Cardinality(A) = 1
        BY <4>2, FS_Singleton
      <4>. QED
        BY <2>1, <3>1, <4>1, <4>3 DEF SizeKept
    <3>. QED
      BY <3>2, <3>3
  <2>. QED
    BY <2>2, <2>3, <2>4
<1>3. OneWriter /\ WritesToOpenSegment /\ SizeIsWritten
  BY <1>2 DEF OneWriter, WritesToOpenSegment, SizeIsWritten
<1>4. InOrder /\ StoredIsWritten /\ GuardKept
  BY
  DEF IInv, FilesInv, Ordered, Stored, Guarded, InOrder, StoredIsWritten,
      GuardKept
<1>. QED
  BY <1>1, <1>3, <1>4 DEF RecordInv

(* The record thread, which shares state, segment_handle and segment_info  *)
(* with the calls and locks nothing, never meets a call on its segment; it *)
(* writes to the open segment only, the blocks of the files are in the     *)
(* order of the device, and the sizes in memory and on the disk are those  *)
(* of the files (dvr_record.c:278-594 against 888-976 and 1011-1043).      *)
THEOREM RecordCorrect == Spec => []RecordInv
<1>1. Spec => []IInv
  BY TypeCorrect, IInvInit, IInvNext, PTL DEF Spec
<1>. QED
  BY TypeCorrect, RecordInvHolds, <1>1, PTL

(***************************************************************************)
(* Blocks.                                                                 *)
(***************************************************************************)
(* A thread has a block only where it is going to write it, or where it    *)
(* has failed to; and no two threads have the same.                        *)
HandsApart ==
  /\ \A k \in Threads : rec[k].at \in {"none", "test", "read", "account"} =>
                          rec[k].block = None
  /\ \A k, j \in Threads : rec[k].block = rec[j].block /\ k # j => rec[k].block = None

(* Each block that was delivered is in one place.                          *)
EachInOnePlace ==
  /\ Written \cup dropped \cup InHand = 1 .. delivered
  /\ Written \cap dropped = {} /\ (Written \cup dropped) \cap InHand = {}

BlockInv == OnTime => HandsApart /\ EachInOnePlace

(* A block that is appended to a file is in the file.                      *)
LEMMA AppendAdds ==
  ASSUME NEW q \in Seq(1 .. MaxBlock), NEW x \in 1 .. MaxBlock
  PROVE  ToSet(Append(q, x)) = ToSet(q) \cup {x}
<1>1. /\ DOMAIN q = 1 .. Len(q) /\ Len(q) \in Nat
      /\ DOMAIN Append(q, x) = 1 .. Len(q) + 1
      /\ \A i \in DOMAIN q : Append(q, x)[i] = q[i]
      /\ Append(q, x)[Len(q) + 1] = x
  OBVIOUS
<1>2. DOMAIN Append(q, x) = DOMAIN q \cup {Len(q) + 1}
  BY <1>1
<1>. QED
  BY <1>1, <1>2 DEF ToSet

(* The files and the hands as they were.                                   *)
LEMMA BlocksStay ==
  ASSUME TypeOK, HandsApart, EachInOnePlace, UNCHANGED <<dropped, delivered>>,
         \A s \in Segments : file'[s] = file[s],
         \A j \in Threads : rec'[j].block = rec[j].block,
         \A j \in Threads : rec'[j].at \in {"none", "test", "read", "account"} =>
                               rec[j].block = None
  PROVE  HandsApart' /\ EachInOnePlace'
<1>1. HandsApart'
  BY DEF HandsApart
<1>2. InHand' = InHand
  BY DEF InHand
<1>3. Written' = Written
  BY DEF Written
<1>. QED
  BY <1>1, <1>2, <1>3 DEF EachInOnePlace

(* A block leaves the hand of a thread: it is skipped.                     *)
LEMMA SkipKeeps ==
  ASSUME TypeInv, HandsApart, EachInOnePlace, NEW k \in Threads,
         rec[k].at \in {"got", "write"}, Skip(k), UNCHANGED <<file, delivered>>
  PROVE  HandsApart' /\ EachInOnePlace'
<1>1. /\ rec'[k].at = "test" /\ rec'[k].block = None
      /\ \A j \in Threads : j # k => rec'[j] = rec[j]
  BY RecDoneFields, BoundAssumption DEF Skip, TypeInv
<1>2. rec[k].block # None
  BY DEF TypeInv, BlockInHand
<1>3. HandsApart'
  BY <1>1 DEF HandsApart
<1>4. InHand' = InHand \ {rec[k].block} /\ rec[k].block \in InHand
  BY <1>1, <1>2 DEF InHand, HandsApart
<1>5. Written' = Written /\ dropped' = dropped \cup {rec[k].block}
  BY DEF Written, Skip
<1>. QED
  BY <1>3, <1>4, <1>5 DEF EachInOnePlace

(* The thread loses no block and writes none twice.                        *)
LEMMA RecBlocks ==
  ASSUME TypeInv, OnTime, SharingInv, FilesInv, HandsApart, EachInOnePlace,
         NEW k \in Threads, RecStep(k)
  PROVE  HandsApart' /\ EachInOnePlace'
<1>. USE DEF disk, ctx
<1>1. /\ TypeOK /\ BlockInHand /\ BoundAssumption
  BY BoundAssumption DEF TypeInv
<1>2. Live(k) /\ handle \in Segments
  <2>1. Live(k)
    BY DEF RecStep, RecTest, RecRead, RecPaused, RecSkip, RecWrite, RecWriteError,
           RecNoSegment, RecAccount, Live
  <2>. QED
    BY <1>1, <2>1 DEF SharingInv, OneLive, TypeOK
<1>3. ASSUME NEW place \in {"read", "write", "exit", "test"}, RecTo(k, place),
             place \in {"read", "test"} => rec[k].block = None,
             UNCHANGED <<file, dropped, delivered>>
      PROVE  HandsApart' /\ EachInOnePlace'
  <2>1. place \in Places
    BY DEF Places
  <2>2. /\ rec'[k].at = place /\ rec'[k].block = rec[k].block
        /\ \A j \in Threads : j # k => rec'[j] = rec[j]
    BY <1>1, <1>3, <2>1, RecToFields
  <2>3. \A j \in Threads : rec'[j].at \in {"none", "test", "read", "account"} =>
                              rec[j].block = None
    BY <1>3, <2>2 DEF HandsApart
  <2>. QED
    BY <1>1, <1>3, <2>2, <2>3, BlocksStay
<1>4. CASE RecTest(k)
  BY <1>3, <1>4 DEF RecTest, HandsApart
<1>5. CASE RecRead(k)
  <2>1. rec[k].block = None /\ UNCHANGED <<file, dropped>>
    BY <1>5 DEF RecRead, HandsApart
  <2>2. CASE RecTo(k, "test") /\ UNCHANGED delivered
    BY <1>3, <2>1, <2>2
  <2>3. CASE /\ delivered' = delivered + 1
             /\ rec' = [rec EXCEPT ![k] = [at |-> "got", block |-> delivered + 1]]
    <3>1. /\ rec'[k].at = "got" /\ rec'[k].block = delivered + 1
          /\ \A j \in Threads : j # k => rec'[j] = rec[j]
      BY <1>1, <2>3 DEF TypeOK
    <3>2. /\ delivered \in Nat /\ delivered + 1 # None
          /\ \A j \in Threads : rec[j].block # delivered + 1
      BY <1>1 DEF TypeOK, BlockInHand, None
    <3>3. HandsApart'
      BY <3>1, <3>2 DEF HandsApart
    <3>4. InHand' = InHand \cup {delivered + 1}
      BY <2>1, <3>1, <3>2 DEF InHand
    <3>5. Written' = Written /\ dropped' = dropped
      BY <2>1 DEF Written
    <3>6. 1 .. delivered' = (1 .. delivered) \cup {delivered + 1}
      BY <2>3, <3>2
    <3>7. delivered + 1 \notin Written \cup dropped
      BY <3>2 DEF EachInOnePlace
    <3>. QED
      BY <3>3, <3>4, <3>5, <3>6, <3>7 DEF EachInOnePlace
  <2>. QED
    BY <1>5, <2>2, <2>3 DEF RecRead
<1>6. CASE RecPaused(k)
  BY <1>3, <1>6, SkipKeeps DEF RecPaused
<1>7. CASE RecSkip(k)
  BY <1>7, SkipKeeps DEF RecSkip
<1>8. CASE RecWriteError(k)
  BY <1>3, <1>8 DEF RecWriteError
<1>9. CASE RecNoSegment(k)
  BY <1>2, <1>9 DEF RecNoSegment, Segments, None
<1>10. CASE RecWrite(k)
  <2>1. /\ rec'[k].at = "account" /\ rec'[k].block = None
        /\ \A j \in Threads : j # k => rec'[j] = rec[j]
    BY <1>1, <1>10 DEF RecWrite, TypeOK
  <2>2. rec[k].block \in 1 .. MaxBlock
    BY <1>1, <1>10 DEF RecWrite, BlockInHand, TypeOK, BoundAssumption, None
  <2>3. HandsApart'
    BY <2>1 DEF HandsApart
  <2>4. InHand' = InHand \ {rec[k].block} /\ rec[k].block \in InHand
    BY <2>1, <2>2 DEF InHand, HandsApart, None
  <2>5. Written' = Written \cup {rec[k].block}
    <3>1. file[handle] \in Seq(1 .. MaxBlock)
      BY <1>1, <1>2 DEF TypeOK
    <3>2. ToSet(Append(file[handle], rec[k].block))
            = ToSet(file[handle]) \cup {rec[k].block}
      BY <2>2, <3>1, AppendAdds
    <3>3. /\ file'[handle] = Append(file[handle], rec[k].block)
          /\ \A s \in Segments : s # handle => file'[s] = file[s]
      BY <1>1, <1>2, <1>10 DEF RecWrite, TypeOK
    <3>. QED
      BY <1>2, <3>2, <3>3 DEF Written
  <2>6. dropped' = dropped /\ delivered' = delivered
    BY <1>10 DEF RecWrite
  <2>. QED
    BY <2>3, <2>4, <2>5, <2>6 DEF EachInOnePlace
<1>11. CASE RecAccount(k)
  <2>1. rec[k].block = None /\ UNCHANGED <<file, dropped, delivered>>
    BY <1>11 DEF RecAccount, HandsApart
  <2>2. /\ rec'[k].at = "test" /\ rec'[k].block = None
        /\ \A j \in Threads : j # k => rec'[j] = rec[j]
    BY <1>1, <1>11, RecDoneFields DEF RecAccount
  <2>3. \A j \in Threads : rec'[j].at \in {"none", "test", "read", "account"} =>
                              rec[j].block = None
    BY <2>1, <2>2 DEF HandsApart
  <2>. QED
    BY <1>1, <2>1, <2>2, <2>3, BlocksStay
<1>. QED
  BY <1>4, <1>5, <1>6, <1>7, <1>8, <1>9, <1>10, <1>11 DEF RecStep

(* The calls truncate no file but an empty one.                            *)
LEMMA CallBlocks ==
  ASSUME TypeInv, OnTime, FilesInv, HandsApart, EachInOnePlace, Call \/ InCall
  PROVE  HandsApart' /\ EachInOnePlace'
<1>. USE DEF disk, ctx
<1>1. TypeOK /\ ThreadLeft
  BY DEF TypeInv
<1>2. UNCHANGED <<dropped, delivered>>
  BY DEF Call, Open, Close, Pause, Resume, Discard, Control, Start, StartFails,
         NextSegment, NextRefused, Stop, StopReturns, InCall, StartDevice, Run, RunFails,
         Join, DeviceFails, Store, StoreFails, CloseSegment, Reopen, ReopenFails, Pids
<1>3. \A s \in Segments : file'[s] = file[s]
  <2>1. ASSUME NEW s \in Segments, NewSegment(s), OpenSegment(s)
        PROVE  \A x \in Segments : file'[x] = file[x]
    <3>1. dat[s] = Never
      BY <2>1 DEF NewSegment, Segments
    <3>2. file[s] = <<>>
      BY <3>1 DEF FilesInv, EmptyAtFirst
    <3>. QED
      BY <1>1, <2>1, <3>2 DEF OpenSegment, TypeOK
  <2>2. CASE Start \/ Reopen
    BY <2>1, <2>2 DEF Start, Reopen
  <2>3. CASE ~ (Start \/ Reopen)
    BY <2>3
    DEF Call, Open, Close, Pause, Resume, Discard, Control, StartFails, NextSegment,
        NextRefused, Stop, StopReturns, InCall, StartDevice, Run, RunFails, Join,
        DeviceFails, Store, StoreFails, CloseSegment, ReopenFails, Pids
  <2>. QED
    BY <2>2, <2>3
<1>4. /\ \A j \in Threads : rec'[j].block = rec[j].block
      /\ \A j \in Threads : rec'[j].at \in {"none", "test", "read", "account"} =>
                               rec[j].block = None
  <2>1. CASE Run
    <3>1. PICK k \in Threads :
            /\ rec[k].at = "none"
            /\ rec' = [rec EXCEPT ![k] = [at |-> "test", block |-> None]]
      BY <1>1, <2>1, NewThread DEF Run, ThreadLeft
    <3>2. /\ rec'[k].at = "test" /\ rec'[k].block = None
          /\ \A j \in Threads : j # k => rec'[j] = rec[j]
      BY <1>1, <3>1 DEF TypeOK
    <3>. QED
      BY <3>1, <3>2 DEF HandsApart
  <2>2. CASE ~ Run
    <3>1. rec' = rec
      BY <2>2
      DEF Call, Open, Close, Pause, Resume, Discard, Control, Start, StartFails,
          NextSegment, NextRefused, Stop, StopReturns, InCall, StartDevice, RunFails,
          Join, DeviceFails, Store, StoreFails, CloseSegment, Reopen, ReopenFails, Pids
    <3>. QED
      BY <3>1 DEF HandsApart
  <2>. QED
    BY <2>1, <2>2
<1>. QED
  BY <1>1, <1>2, <1>3, <1>4, BlocksStay

(* Every step keeps each block in one place.                               *)
LEMMA BlockInvNext ==
  ASSUME TypeInv, IInv, BlockInv, [Next]_vars
  PROVE  BlockInv'
<1>1. SUFFICES ASSUME OnTime, SharingInv, FilesInv, HandsApart, EachInOnePlace
               PROVE  HandsApart' /\ EachInOnePlace'
  BY LateStays DEF IInv, BlockInv
<1>2. CASE Next
  BY <1>1, <1>2, CallBlocks, RecBlocks DEF Next
<1>3. CASE UNCHANGED vars
  BY <1>1, <1>3 DEF vars, HandsApart, EachInOnePlace, Written, InHand
<1>. QED
  BY <1>2, <1>3

(* At first there are no blocks.                                           *)
LEMMA BlockInvInit ==
  ASSUME Init
  PROVE  BlockInv
<1>. USE DEF Init
<1>1. HandsApart
  BY DEF HandsApart
<1>2. InHand = {}
  BY DEF InHand
<1>3. Written = {}
  BY DEF Written, ToSet
<1>4. 1 .. delivered = {}
  OBVIOUS
<1>. QED
  BY <1>1, <1>2, <1>3, <1>4 DEF BlockInv, EachInOnePlace

(* No block that the device delivered is lost or written twice, wherever a *)
(* next_segment or a stop_segment meets the thread between its read and    *)
(* its write (dvr_record.c:349-491).                                       *)
THEOREM BlocksKept == Spec => []NoBlockLost
<1>1. Spec => []IInv
  BY TypeCorrect, IInvInit, IInvNext, PTL DEF Spec
<1>2. Spec => []BlockInv
  BY TypeCorrect, BlockInvInit, BlockInvNext, <1>1, PTL DEF Spec
<1>3. BlockInv => NoBlockLost
  BY DEF BlockInv, EachInOnePlace, NoBlockLost
<1>. QED
  BY <1>2, <1>3, PTL

(* What a step does to the handle and to the open segments.                *)
LEMMA SegmentsClosed ==
  ASSUME TypeInv, [Next]_vars
  PROVE  \/ opened' \ {handle'} \subseteq opened \ {handle}
         \/ FailedNext /\ api'.op = "close"
<1>. USE DEF ctx, disk
<1>1. TypeOK /\ OldIsClosed /\ None \notin opened
  BY DEF TypeInv, TypeOK, Segments, None
<1>2. ASSUME UNCHANGED <<opened, handle>>
      PROVE  opened' \ {handle'} \subseteq opened \ {handle}
  BY <1>2
<1>3. CASE Close
  <2>1. api'.op = "close"
    BY <1>1, <1>3, CalledFields DEF Close, Return, ApiPlaces, Ops
  <2>. QED
    BY <1>1, <1>3, <2>1 DEF Close
<1>4. CASE Start
  BY <1>1, <1>4 DEF Start, OpenSegment
<1>5. CASE CloseSegment
  BY <1>1, <1>5 DEF CloseSegment
<1>6. CASE Reopen
  BY <1>1, <1>6 DEF Reopen, OpenSegment, OldIsClosed
<1>7. CASE ReopenFails
  BY <1>1, <1>7 DEF ReopenFails, OldIsClosed
<1>8. CASE \/ Open \/ Pause \/ Resume \/ Discard \/ StartFails
           \/ NextSegment \/ NextRefused \/ Stop \/ StopReturns
  BY <1>2, <1>8 DEF Open, Pause, Resume, Discard, Control, StartFails, NextSegment,
                    NextRefused, Stop, StopReturns
<1>9. CASE \/ StartDevice \/ Run \/ RunFails \/ Join \/ DeviceFails \/ Store
           \/ StoreFails \/ Pids
  BY <1>2, <1>9
  DEF StartDevice, Run, RunFails, Join, DeviceFails, Store, StoreFails, Pids
<1>10. CASE \E k \in Threads : RecStep(k)
  BY <1>2, <1>10 DEF RecStep, RecTest, RecRead, RecPaused, RecSkip, RecWrite,
                     RecWriteError, RecNoSegment, RecAccount
<1>11. CASE UNCHANGED vars
  BY <1>2, <1>11 DEF vars
<1>. QED
  BY <1>3, <1>4, <1>5, <1>6, <1>7, <1>8, <1>9, <1>10, <1>11 DEF Next, Call, InCall

(* No call drops the handle of a segment that it has not closed, but where *)
(* the wrapper closes the session after a failed next_segment; in every    *)
(* session, late events included (dvr_record.c:912, 1042-1043).            *)
THEOREM SegmentsAreClosed == Spec => NoSegmentLeaked
<1>1. TypeInv /\ [Next]_vars =>
        [opened' \ {handle'} \subseteq opened \ {handle}
          \/ (FailedNext /\ api'.op = "close")]_vars
  BY SegmentsClosed
<1>. QED
  BY TypeCorrect, <1>1, PTL DEF Spec, NoSegmentLeaked

=============================================================================
