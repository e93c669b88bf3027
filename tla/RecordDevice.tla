---------------------------- MODULE RecordDevice ----------------------------
(***************************************************************************)
(* record_device.c: the table of recording devices, the filters a device   *)
(* opens for its pids, and the secure buffer that the devices of one sid   *)
(* share: a frontend, or a demux where the driver clones the stream.       *)
(* Every call runs under the lock of its own context; open chooses its     *)
(* context before it locks it, and close and set_secure_buffer read the    *)
(* other contexts under no lock of theirs, so these three have two steps.  *)
(* The kernel and the secure demux library are the variables filter and    *)
(* allocated.  record_device_read is the block source of DvrRecord.        *)
(***************************************************************************)
EXTENDS Integers, FiniteSets

CONSTANTS Apps,      \* application threads
          Contexts,  \* the contexts that are initialised to CLOSED, numbers
          Streams,   \* the slots of the stream table of a context, numbers
          Pids,      \* pids that are recorded
          Fds,       \* demux descriptors of the process, numbers
          Sources,   \* frontend devices
          Demuxes,   \* demux devices; the two are numbers, and may overlap
          Clone,     \* dvr_ts_clone_enable()
          Faults,    \* which of the calls "open", "run", "start", "stop",
                     \* "allocate" may fail
          None

\* The calls that are between their two steps.
Calls ==
  [call : {"open"}, on : Contexts]
    \cup [call : {"secure"}, on : Contexts, buf : Sources \cup Demuxes \cup {None}]
    \cup [call : {"close"}, on : Contexts, last : BOOLEAN]

ASSUME NumbersAssumption == Contexts \cup Streams \cup Fds \subseteq Nat
ASSUME CloneAssumption == Clone \in BOOLEAN
ASSUME NoneAssumption ==
  /\ None \notin Apps \cup Pids \cup Sources \cup Demuxes
  /\ None \notin Fds
  /\ None \notin Calls

VARIABLES ctx,        \* record_ctx[]
          lock,       \* the thread inside each context's lock, None if free
          pc,         \* per thread: the call between its two steps, or None
          handles,    \* the contexts a thread has opened and not closed
          filter,     \* the kernel's view of a descriptor
          forgotten,  \* filters that were still in the table of a context
                      \* when it was closed
          allocated   \* the sids whose secure buffer exists

vars == <<ctx, lock, pc, handles, filter, forgotten, allocated>>

Least(S) == CHOOSE x \in S : \A y \in S : x <= y

Unused == [pid |-> None, fid |-> None, isStart |-> FALSE]

ClosedFilter == [state |-> "closed", pid |-> None]

Init ==
  /\ ctx = [c \in Contexts |->
              [state |-> "CLOSED", fend |-> None, dmx |-> None,
               output |-> FALSE, buf |-> None,
               streams |-> [s \in Streams |-> Unused]]]
  /\ lock = [c \in Contexts |-> None]
  /\ pc = [a \in Apps |-> None]
  /\ handles = [a \in Apps |-> {}]
  /\ filter = [f \in Fds |-> ClosedFilter]
  /\ forgotten = {}
  /\ allocated = {}

\* What a call may do to context c when it is not inside another one.
Free(a, c) == c \in handles[a] /\ pc[a] = None /\ lock[c] = None

Set(c, rec) == ctx' = [ctx EXCEPT ![c] = rec]

(***************************************************************************)
(* record_device_open: the first CLOSED context is chosen without a lock.  *)
(***************************************************************************)
OpenFind(a) ==
  LET closed == {c \in Contexts : ctx[c].state = "CLOSED"}
  IN  /\ pc[a] = None
      /\ closed # {}
      /\ pc' = [pc EXCEPT ![a] = [call |-> "open", on |-> Least(closed)]]
      /\ UNCHANGED <<ctx, lock, handles, filter, forgotten, allocated>>

\* The streams are forgotten before the device is opened, which may fail.
OpenTake(a) ==
  \E f \in Sources, m \in Demuxes :
    /\ pc[a] # None /\ pc[a].call = "open"
    /\ LET c == pc[a].on
           streams == [s \in Streams |-> Unused]
       IN  /\ lock[c] = None
           /\ \/ /\ Set(c, [state |-> "OPENED", fend |-> f, dmx |-> m,
                            output |-> FALSE, buf |-> None, streams |-> streams])
                 /\ handles' = [handles EXCEPT ![a] = @ \cup {c}]
              \/ /\ "open" \in Faults
                 /\ Set(c, [ctx[c] EXCEPT !.streams = streams])
                 /\ UNCHANGED handles
    /\ pc' = [pc EXCEPT ![a] = None]
    /\ UNCHANGED <<lock, filter, forgotten, allocated>>

(***************************************************************************)
(* record_device_add_pid.  The slot takes the pid before its filter is     *)
(* opened, and keeps both when the call fails later on.                    *)
(***************************************************************************)
FreeSlots(c) == {s \in Streams : ctx[c].streams[s].pid = None}

ClosedFds == {f \in Fds : filter[f].state = "closed"}

\* The slot and the filter after add_pid: opened, and started if the device
\* is; each of the two calls may fail.
AddOutcomes(c, p) ==
  {<<[pid |-> p, fid |-> None, isStart |-> FALSE], None>> :
      x \in {y \in {p} : ClosedFds = {} \/ "open" \in Faults}}
  \cup {<<[pid |-> p, fid |-> Least(ClosedFds), isStart |-> run],
          [state |-> IF run THEN "running" ELSE "open", pid |-> p]>> :
      run \in {r \in BOOLEAN : /\ ClosedFds # {}
                               /\ r => ctx[c].state = "STARTED"
                               /\ ~r => \/ ctx[c].state # "STARTED"
                                        \/ "run" \in Faults}}

AddPid(a, c, p) ==
  \E o \in AddOutcomes(c, p) :
    /\ Free(a, c)
    /\ ctx[c].state # "CLOSED"
    /\ FreeSlots(c) # {}
    /\ Set(c, [ctx[c] EXCEPT !.streams[Least(FreeSlots(c))] = o[1]])
    /\ filter' = IF o[1].fid = None THEN filter
                 ELSE [filter EXCEPT ![o[1].fid] = o[2]]
    /\ UNCHANGED <<lock, pc, handles, forgotten, allocated>>

(***************************************************************************)
(* record_device_remove_pid: the first slot of the pid, unless it has no   *)
(* filter or the filter does not stop.                                     *)
(***************************************************************************)
SlotsOf(c, p) == {s \in Streams : ctx[c].streams[s].pid = p}

(* mutant: the slot keeps the descriptor it has closed *)
EmptiedKeepsFid(c, slots) ==
  [s \in Streams |-> IF s \in slots THEN [ctx[c].streams[s] EXCEPT !.pid = None]
                     ELSE ctx[c].streams[s]]

\* The table of context c and the filters, once `slots' have been closed.
Emptied(c, slots) ==
  [s \in Streams |-> IF s \in slots THEN Unused ELSE ctx[c].streams[s]]

(* mutant: the filters are not closed *)
ShutNothing(c, slots) == filter

Shut(c, slots) ==
  [f \in Fds |-> IF \E s \in slots : ctx[c].streams[s].fid = f THEN ClosedFilter
                 ELSE filter[f]]

RemovePid(a, c, p) ==
  /\ Free(a, c)
  /\ ctx[c].state # "CLOSED"
  /\ SlotsOf(c, p) # {}
  /\ ctx[c].streams[Least(SlotsOf(c, p))].fid # None
  /\ Set(c, [ctx[c] EXCEPT !.streams = Emptied(c, {Least(SlotsOf(c, p))})])
  /\ filter' = Shut(c, {Least(SlotsOf(c, p))})
  /\ UNCHANGED <<lock, pc, handles, forgotten, allocated>>

(***************************************************************************)
(* record_device_start and record_device_stop go through the slots in      *)
(* order; a call that fails returns at its slot, the slots before it done. *)
(***************************************************************************)
Startable(c) == {s \in Streams : /\ ctx[c].streams[s].fid # None
                                 /\ ctx[c].streams[s].pid # None
                                 /\ ~ctx[c].streams[s].isStart}

Started(c) == {s \in Streams : ctx[c].streams[s].isStart}

\* The slots a loop over `todo' has done when it returns, all or a part.
Done(todo, call) ==
  {todo} \cup {{s \in todo : s < k} : k \in {t \in todo : call \in Faults}}

Start(a, c) ==
  \E done \in Done(Startable(c), "start") :
    /\ Free(a, c)
    /\ ctx[c].state \in {"OPENED", "STOPPED"}
    /\ Set(c, [ctx[c] EXCEPT
         !.state = IF done = Startable(c) THEN "STARTED" ELSE @,
         !.streams = [s \in Streams |->
            IF s \in done THEN [@[s] EXCEPT !.isStart = TRUE] ELSE @[s]]])
    /\ filter' = [f \in Fds |->
         IF \E s \in done : ctx[c].streams[s].fid = f
         THEN [filter[f] EXCEPT !.state = "running"] ELSE filter[f]]
    /\ UNCHANGED <<lock, pc, handles, forgotten, allocated>>

StopState(c, done) == IF done = Started(c) THEN "STOPPED" ELSE "STARTED"

Stop(a, c) ==
  \E done \in Done(Started(c), "stop") :
    /\ Free(a, c)
    /\ ctx[c].state = "STARTED"
    /\ Set(c, [ctx[c] EXCEPT !.streams = Emptied(c, done),
                             !.state = StopState(c, done)])
    /\ filter' = Shut(c, done)
    /\ UNCHANGED <<lock, pc, handles, forgotten, allocated>>

(***************************************************************************)
(* record_device_set_secure_buffer: an output of its own, and the buffer   *)
(* of the sid, from another context that has it or newly allocated.        *)
(***************************************************************************)
\* get_sid
Sid(c) == IF Clone THEN ctx[c].dmx ELSE ctx[c].fend

SharedWith(c) == {d \in Contexts \ {c} : /\ ctx[d].state # "CLOSED"
                                         /\ Sid(d) = Sid(c)
                                         /\ ctx[d].buf # None}

SecureLook(a, c) ==
  /\ Free(a, c)
  /\ ctx[c].state \in {"OPENED", "STOPPED"}
  /\ lock' = [lock EXCEPT ![c] = a]
  /\ IF SharedWith(c) # {}
     THEN /\ pc' = [pc EXCEPT ![a] = [call |-> "secure", on |-> c,
                       buf |-> ctx[Least(SharedWith(c))].buf]]
          /\ UNCHANGED allocated
     ELSE \/ /\ pc' = [pc EXCEPT ![a] = [call |-> "secure", on |-> c,
                                         buf |-> Sid(c)]]
             /\ allocated' = allocated \cup {Sid(c)}
          \/ /\ "allocate" \in Faults
             /\ pc' = [pc EXCEPT ![a] = [call |-> "secure", on |-> c,
                                         buf |-> ctx[c].buf]]
             /\ UNCHANGED allocated
  /\ Set(c, [ctx[c] EXCEPT !.output = TRUE])
  /\ UNCHANGED <<handles, filter, forgotten>>

SecureDone(a) ==
  /\ pc[a] # None /\ pc[a].call = "secure"
  /\ Set(pc[a].on, [ctx[pc[a].on] EXCEPT !.buf = pc[a].buf])
  /\ lock' = [lock EXCEPT ![pc[a].on] = None]
  /\ pc' = [pc EXCEPT ![a] = None]
  /\ UNCHANGED <<handles, filter, forgotten, allocated>>

(***************************************************************************)
(* record_device_close: the descriptors of the device go, the filters in   *)
(* its table do not; the buffer goes with the last context of the frontend *)
(* that has it, and it is that of the frontend that is freed, Clone or not.*)
(***************************************************************************)
(* mutant: the other contexts are not looked at *)
LastUserAlways(c) == TRUE

LastUser(c) == ~ \E d \in Contexts \ {c} : /\ ctx[d].fend = ctx[c].fend
                                           /\ ctx[d].buf = ctx[c].buf

Closed(c) ==
  [ctx[c] EXCEPT !.state = "CLOSED", !.fend = None, !.output = FALSE, !.buf = None]

CloseLook(a, c) ==
  /\ Free(a, c)
  /\ ctx[c].state # "CLOSED"
  /\ lock' = [lock EXCEPT ![c] = a]
  /\ pc' = [pc EXCEPT ![a] = [call |-> "close", on |-> c,
                              last |-> ctx[c].buf # None /\ LastUser(c)]]
  /\ UNCHANGED <<ctx, handles, filter, forgotten, allocated>>

CloseDone(a) ==
  /\ pc[a] # None /\ pc[a].call = "close"
  /\ LET c == pc[a].on
     IN  /\ allocated' = IF pc[a].last THEN allocated \ {ctx[c].fend} ELSE allocated
         /\ forgotten' = forgotten \cup
                           ({ctx[c].streams[s].fid : s \in Streams} \ {None})
         /\ Set(c, Closed(c))
         /\ handles' = [b \in Apps |-> handles[b] \ {c}]
         /\ lock' = [lock EXCEPT ![c] = None]
  /\ pc' = [pc EXCEPT ![a] = None]
  /\ UNCHANGED filter

Call(a) ==
  \/ OpenFind(a)
  \/ OpenTake(a)
  \/ SecureDone(a)
  \/ CloseDone(a)
  \/ \E c \in Contexts :
       \/ Start(a, c)
       \/ Stop(a, c)
       \/ SecureLook(a, c)
       \/ CloseLook(a, c)
       \/ \E p \in Pids : AddPid(a, c, p) \/ RemovePid(a, c, p)

Next == \E a \in Apps : Call(a)

Spec == Init /\ [][Next]_vars

-----------------------------------------------------------------------------
\* The slots that have a filter, in the contexts that are open.
Holders == {h \in Contexts \X Streams : /\ ctx[h[1]].state # "CLOSED"
                                        /\ ctx[h[1]].streams[h[2]].fid # None}

Slot(h) == ctx[h[1]].streams[h[2]]

\* A device between two calls is in one of the states of
\* Record_DeviceState_t, and a closed one has no output and no buffer.
TypeOK ==
  /\ \A c \in Contexts :
       /\ ctx[c].state \in {"OPENED", "STARTED", "STOPPED", "CLOSED"}
       /\ ctx[c].fend \in Sources \cup {None}
       /\ ctx[c].dmx \in Demuxes \cup {None}
       /\ ctx[c].buf \in {Sid(c), None}
       /\ ctx[c].state = "CLOSED" =>
            ctx[c].fend = None /\ ctx[c].buf = None /\ ~ctx[c].output
       /\ \A s \in Streams :
            /\ ctx[c].streams[s].pid \in Pids \cup {None}
            /\ ctx[c].streams[s].fid \in Fds \cup {None}
            /\ ctx[c].streams[s].isStart \in BOOLEAN
  /\ \A f \in Fds : filter[f].state \in {"closed", "open", "running"}
  /\ allocated \subseteq Sources \cup Demuxes
  /\ pc \in [Apps -> Calls \cup {None}]

\* The stream tables and the kernel agree, whichever calls have failed: a
\* slot's filter is open for the slot's pid, runs exactly when the slot says
\* so, and belongs to no other slot, be it of another device.
TableIsKernel ==
  \A h \in Holders :
    /\ filter[Slot(h).fid].pid = Slot(h).pid
    /\ filter[Slot(h).fid].state = IF Slot(h).isStart THEN "running" ELSE "open"
    /\ \A g \in Holders : Slot(g).fid = Slot(h).fid => g = h

\* No descriptor is lost while a device is open: the open filters are those
\* in the tables and those that record_device_close has left behind.
NothingLost ==
  {f \in Fds : filter[f].state # "closed"}
    = {Slot(h).fid : h \in Holders} \cup forgotten

\* A device that record_device_stop has stopped captures nothing, also when
\* an add_pid failed half way before or comes after the stop.
StoppedIsQuiet ==
  \A h \in Holders : ctx[h[1]].state \in {"OPENED", "STOPPED"} => ~Slot(h).isStart

\* The buffer of a device exists as long as the device has it: closing one
\* device does not free what another one of the same sid writes to.  False
\* where Clone is set: buffers are shared by dmx_dev_id and freed by fend_dev_id.
BufferAlive == \A c \in Contexts : ctx[c].buf # None => ctx[c].buf \in allocated

\* ... and it is freed with the last of them, so that the secure memory does
\* not run out.
BufferFreed ==
  \A f \in allocated : \/ \E c \in Contexts : ctx[c].buf = f
                       \/ \E a \in Apps : pc[a] # None /\ pc[a].call # "open"

\* A shared secure buffer lives as long as some device has it, no less and
\* no longer, where the driver does not clone the stream.
BufferAsUsed == BufferAlive /\ BufferFreed

\* The table of pids, the filters of the kernel and the state of the device
\* agree between any two calls.
DeviceInv ==
  /\ TypeOK
  /\ TableIsKernel
  /\ StoppedIsQuiet
=============================================================================
