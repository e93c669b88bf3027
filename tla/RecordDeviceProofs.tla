------------------------- MODULE RecordDeviceProofs -------------------------
(***************************************************************************)
(* Proofs about RecordDevice for any number of applications, contexts,     *)
(* slots, pids and descriptors: the tables of the devices are what the     *)
(* kernel has open, although open and close look at contexts that they     *)
(* have not locked.  That no filter is lost and that the secure buffers    *)
(* live as long as they should takes one caller at a time: two that open   *)
(* at once may take the same context.  The buffers also take devices that  *)
(* have no sid but their frontend.                                         *)
(***************************************************************************)
EXTENDS RecordDevice, WellFoundedInduction, TLAPS

(***************************************************************************)
(* Whatever the callers do.                                                *)
(***************************************************************************)
Sids == Sources \cup Demuxes

SlotType == [pid : Pids \cup {None}, fid : Fds \cup {None}, isStart : BOOLEAN]

ContextType ==
  [state : {"OPENED", "STARTED", "STOPPED", "CLOSED"}, fend : Sources \cup {None},
   dmx : Demuxes \cup {None}, output : BOOLEAN, buf : Sids \cup {None},
   streams : [Streams -> SlotType]]

FilterType == [state : {"closed", "open", "running"}, pid : Pids \cup {None}]

Types ==
  /\ ctx \in [Contexts -> ContextType]
  /\ lock \in [Contexts -> Apps \cup {None}]
  /\ pc \in [Apps -> Calls \cup {None}]
  /\ handles \in [Apps -> SUBSET Contexts]
  /\ filter \in [Fds -> FilterType]
  /\ forgotten \subseteq Fds
  /\ allocated \subseteq Sids

(* A closed device has nothing, an open one only the buffer of its sid.    *)
ClosedIsBare ==
  \A c \in Contexts :
    /\ ctx[c].buf \in {Sid(c), None}
    /\ ctx[c].state = "CLOSED" <=> ctx[c].fend = None
    /\ ctx[c].state # "CLOSED" => ctx[c].dmx # None
    /\ ctx[c].state = "CLOSED" => ~ ctx[c].output /\ ctx[c].buf = None

In(a, call) == pc[a] # None /\ pc[a].call = call

(* A call between its steps holds the lock of its context, which nobody    *)
(* has closed, or opened again, meanwhile.                                 *)
CallsHold ==
  \A a \in Apps :
    /\ In(a, "secure") => /\ lock[pc[a].on] = a
                          /\ ctx[pc[a].on].state \in {"OPENED", "STOPPED"}
                          /\ pc[a].buf \in {Sid(pc[a].on), None}
    /\ In(a, "close") => lock[pc[a].on] = a /\ ctx[pc[a].on].state # "CLOSED"

(* A slot of an open device that has a filter.                             *)
Holds(c, s) == ctx[c].state # "CLOSED" /\ ctx[c].streams[s].fid # None

(* TableIsKernel, slot by slot.                                            *)
SlotsAgree ==
  \A c \in Contexts, s \in Streams : Holds(c, s) =>
    LET slot == ctx[c].streams[s]
    IN  /\ filter[slot.fid].pid = slot.pid
        /\ filter[slot.fid].state = IF slot.isStart THEN "running" ELSE "open"

NotShared ==
  \A c, d \in Contexts, s, t \in Streams :
    Holds(c, s) /\ Holds(d, t) /\ ctx[c].streams[s].fid = ctx[d].streams[t].fid =>
      c = d /\ s = t

(* No slot without a pid has a filter.                                     *)
NoPidNoFilter ==
  \A c \in Contexts, s \in Streams :
    Holds(c, s) => ctx[c].streams[s].pid # None

TableInv == SlotsAgree /\ NotShared /\ NoPidNoFilter

IInv == Types /\ ClosedIsBare /\ CallsHold /\ TableInv

(* StoppedIsQuiet, slot by slot.                                           *)
QuietInv ==
  \A c \in Contexts, s \in Streams :
    Holds(c, s) /\ ctx[c].state \in {"OPENED", "STOPPED"} => ~ ctx[c].streams[s].isStart

(***************************************************************************)
(* Opens that take the context they chose, and one caller at a time.       *)
(***************************************************************************)
FreshOpens == \A a \in Apps : OpenTake(a) => ctx[pc[a].on].state = "CLOSED"

OneCaller == \A a, b \in Apps : a = b

(* The buffer that a device uses is the one its close frees.               *)
SidIsSource == \A c \in Contexts : ctx[c].state # "CLOSED" => Sid(c) = ctx[c].fend

(* The context that is being opened is still closed.                       *)
OpensClosed == \A a \in Apps : In(a, "open") => ctx[pc[a].on].state = "CLOSED"

(* The open filters are those of the slots and the forgotten ones, which   *)
(* no slot has.                                                            *)
FiltersKept ==
  /\ \A f \in Fds : filter[f].state # "closed" <=>
       \/ f \in forgotten
       \/ \E c \in Contexts, s \in Streams : Holds(c, s) /\ ctx[c].streams[s].fid = f
  /\ \A c \in Contexts, s \in Streams :
       Holds(c, s) => ctx[c].streams[s].fid \notin forgotten

(* A buffer that is allocated has a device, or is about to be given to one;*)
(* a close frees it if and only if nobody else has it.                     *)
BuffersKept ==
  /\ \A c \in Contexts : ctx[c].buf # None => ctx[c].buf \in allocated
  /\ \A a \in Apps : In(a, "secure") =>
       /\ pc[a].buf # None => pc[a].buf \in allocated
       /\ ctx[pc[a].on].buf # None => pc[a].buf = ctx[pc[a].on].buf
  /\ \A a \in Apps : In(a, "close") =>
       (pc[a].last <=> ctx[pc[a].on].buf # None /\ LastUser(pc[a].on))
  /\ \A f \in allocated : \/ \E c \in Contexts : ctx[c].buf = f
                          \/ \E a \in Apps : In(a, "secure") /\ pc[a].buf = f

-----------------------------------------------------------------------------
(* Less-than on the naturals as a well-founded relation.                   *)
LEMMA LessRelation ==
  \E R : IsWellFoundedOn(R, Nat) /\ \A j, k \in Nat : <<j, k>> \in R <=> j < k
<1>1. \A j, k \in Nat : <<j, k>> \in OpToRel(<, Nat) <=> j < k
  BY Zenon DEF OpToRel
<1>. QED
  BY <1>1, NatLessThanWellFounded, Zenon

(* Least finds a slot, a descriptor or a context if there is one.          *)
LEMMA LeastOf ==
  ASSUME NEW S, S \subseteq Contexts \cup Streams \cup Fds, S # {}
  PROVE  Least(S) \in S
<1>0. S \subseteq Nat
  BY NumbersAssumption
<1>1. PICK R : IsWellFoundedOn(R, Nat) /\ \A j, k \in Nat : <<j, k>> \in R <=> j < k
  BY LessRelation
<1>2. PICK k \in S : \A j \in S : ~ (<<j, k>> \in R)
  <2>1. IsWellFoundedOn(R, Nat)
    BY <1>1
  <2>. QED
    BY <1>0, <2>1, WFMin
<1>3. ASSUME NEW j \in S PROVE k <= j
  <2>1. k \in Nat /\ j \in Nat
    BY <1>0
  <2>2. ~ (j < k)
    BY <1>1, <1>2, <2>1, Zenon
  <2>. QED
    BY <2>1, <2>2
<1>. QED
  BY <1>3 DEF Least

(* What a call between its steps is.                                       *)
LEMMA CallFields ==
  ASSUME Types, NEW a \in Apps, pc[a] # None
  PROVE  /\ pc[a].on \in Contexts
         /\ pc[a].call \in {"open", "secure", "close"}
         /\ pc[a].call = "secure" => pc[a].buf \in Sids \cup {None}
         /\ pc[a].call = "close" => pc[a].last \in BOOLEAN
<1>1. pc[a] \in Calls
  BY DEF Types
<1>. QED
  BY <1>1 DEF Calls, Sids

(* A step of one caller on a context that is free, or that it has locked,  *)
(* disturbs no other call.                                                 *)
LEMMA OthersHold ==
  ASSUME IInv, NEW a \in Apps, NEW c \in Contexts,
         lock[c] \in {None, a} \/ UNCHANGED <<ctx, lock>>,
         \A d \in Contexts : d # c => ctx'[d] = ctx[d] /\ lock'[d] = lock[d],
         \A b \in Apps : b # a => pc'[b] = pc[b],
         In(a, "secure")' => /\ lock'[pc'[a].on] = a
                             /\ ctx'[pc'[a].on].state \in {"OPENED", "STOPPED"}
                             /\ pc'[a].buf \in {Sid(pc[a].on)', None},
         In(a, "close")' => /\ lock'[pc'[a].on] = a
                            /\ ctx'[pc'[a].on].state # "CLOSED"
  PROVE  CallsHold'
<1>1. SUFFICES ASSUME NEW b \in Apps, b # a
               PROVE  /\ In(b, "secure")' =>
                           /\ lock'[pc'[b].on] = b
                           /\ ctx'[pc'[b].on].state \in {"OPENED", "STOPPED"}
                           /\ pc'[b].buf \in {Sid(pc[b].on)', None}
                      /\ In(b, "close")' => /\ lock'[pc'[b].on] = b
                                            /\ ctx'[pc'[b].on].state # "CLOSED"
  BY DEF CallsHold
<1>2. In(b, "secure")' \/ In(b, "close")' =>
        /\ pc[b].on \in Contexts /\ lock[pc[b].on] = b
        /\ In(b, "secure")' <=> In(b, "secure")
        /\ In(b, "close")' <=> In(b, "close")
  BY <1>1, CallFields DEF In, IInv, CallsHold
<1>3. lock[c] \in {None, a} => lock[c] # b
  BY <1>1, NoneAssumption
<1>. QED
  BY <1>1, <1>2, <1>3 DEF In, IInv, CallsHold, Sid

(* A step after which no more slots hold filters than before, and those    *)
(* that do still hold the same.                                            *)
LEMMA FewerHolders ==
  ASSUME TableInv,
         \A d \in Contexts, t \in Streams : Holds(d, t)' =>
           /\ Holds(d, t) /\ ctx'[d].streams[t] = ctx[d].streams[t]
           /\ filter'[ctx[d].streams[t].fid] = filter[ctx[d].streams[t].fid]
  PROVE  TableInv'
<1>1. SlotsAgree'
  BY DEF TableInv, SlotsAgree
<1>2. NotShared'
  BY DEF TableInv, NotShared
<1>3. NoPidNoFilter'
  BY DEF TableInv, NoPidNoFilter
<1>. QED
  BY <1>1, <1>2, <1>3 DEF TableInv

(* A filter in the table of an open device is not a closed one.            *)
LEMMA HeldIsOpen ==
  ASSUME Types, TableInv, NEW c \in Contexts, NEW s \in Streams, Holds(c, s)
  PROVE  /\ ctx[c].streams[s].fid \in Fds
         /\ filter[ctx[c].streams[s].fid].state # "closed"
<1>1. ctx[c].streams[s] \in SlotType /\ ctx[c].streams[s].fid # None
  BY DEF Types, ContextType, Holds
<1>2. ctx[c].streams[s].fid \in Fds
  BY <1>1 DEF SlotType
<1>. QED
  BY <1>2 DEF TableInv, SlotsAgree

(* A free call works on a context that nobody has locked.                  *)
LEMMA FreeCall ==
  ASSUME IInv, NEW a \in Apps, NEW c \in Contexts, Free(a, c)
  PROVE  pc[a] = None /\ lock[c] = None /\ ~ In(a, "secure") /\ ~ In(a, "close")
BY DEF Free, In

(* An open that only chooses its context changes no device.                *)
LEMMA OpenFindKeeps ==
  ASSUME IInv, NEW a \in Apps, OpenFind(a)
  PROVE  IInv'
<1>. DEFINE c == Least({d \in Contexts : ctx[d].state = "CLOSED"})
            call == [call |-> "open", on |-> c]
<1>1. c \in Contexts
  BY LeastOf DEF OpenFind
<1>2. /\ pc' = [pc EXCEPT ![a] = call]
      /\ UNCHANGED <<ctx, lock, handles, filter, forgotten, allocated>>
  BY DEF OpenFind
<1>3. call \in Calls
  BY <1>1 DEF Calls
<1>4. call.call = "open"
  OBVIOUS
<1>. HIDE DEF c, call
<1>5. Types'
  BY <1>2, <1>3 DEF IInv, Types
<1>6. pc'[a] = call /\ \A b \in Apps : b # a => pc'[b] = pc[b]
  BY <1>2 DEF IInv, Types
<1>7. CallsHold'
  BY <1>1, <1>2, <1>4, <1>6, OthersHold DEF In
<1>8. TableInv'
  BY <1>2, FewerHolders DEF IInv, Holds
<1>. QED
  BY <1>2, <1>5, <1>7, <1>8 DEF IInv, ClosedIsBare, Sid

(* ... and one that takes it leaves a table without filters, be it that it *)
(* has succeeded or failed.                                                *)
LEMMA OpenTakeKeeps ==
  ASSUME IInv, NEW a \in Apps, OpenTake(a)
  PROVE  IInv'
<1>. DEFINE c == pc[a].on
            streams == [s \in Streams |-> Unused]
<1>1. c \in Contexts /\ lock[c] = None /\ pc[a] # None
  BY CallFields DEF OpenTake, IInv
<1>2. streams \in [Streams -> SlotType] /\ \A s \in Streams : streams[s].fid = None
  BY DEF SlotType, Unused
<1>3. PICK f \in Sources, m \in Demuxes :
        /\ \/ /\ ctx' = [ctx EXCEPT ![c] =
                            [state |-> "OPENED", fend |-> f, dmx |-> m,
                             output |-> FALSE, buf |-> None, streams |-> streams]]
              /\ handles' = [handles EXCEPT ![a] = @ \cup {c}]
           \/ /\ ctx' = [ctx EXCEPT ![c] = [ctx[c] EXCEPT !.streams = streams]]
              /\ UNCHANGED handles
        /\ pc' = [pc EXCEPT ![a] = None]
        /\ UNCHANGED <<lock, filter, forgotten, allocated>>
  BY DEF OpenTake, Set
<1>. HIDE DEF c, streams
<1>4. /\ ctx' \in [Contexts -> ContextType] /\ ctx'[c].streams = streams
      /\ \A d \in Contexts : d # c => ctx'[d] = ctx[d]
      /\ \/ /\ ctx'[c].state = "OPENED" /\ ctx'[c].fend = f /\ ctx'[c].dmx = m
            /\ ctx'[c].buf = None
         \/ /\ ctx'[c].state = ctx[c].state /\ ctx'[c].fend = ctx[c].fend
            /\ ctx'[c].dmx = ctx[c].dmx
            /\ ctx'[c].buf = ctx[c].buf /\ ctx'[c].output = ctx[c].output
  <2>1. CASE ctx' = [ctx EXCEPT ![c] = [state |-> "OPENED", fend |-> f, dmx |-> m,
                                        output |-> FALSE, buf |-> None,
                                        streams |-> streams]]
    <3>1. [state |-> "OPENED", fend |-> f, dmx |-> m, output |-> FALSE,
           buf |-> None, streams |-> streams] \in ContextType
      BY <1>2 DEF ContextType
    <3>. QED
      BY <1>1, <2>1, <3>1 DEF IInv, Types
  <2>2. CASE ctx' = [ctx EXCEPT ![c] = [ctx[c] EXCEPT !.streams = streams]]
    <3>1. ctx[c] \in ContextType
      BY <1>1 DEF IInv, Types
    <3>2. [ctx[c] EXCEPT !.streams = streams] \in ContextType
      BY <1>2, <3>1 DEF ContextType
    <3>. QED
      BY <1>1, <2>2, <3>1, <3>2 DEF IInv, Types, ContextType
  <2>. QED
    BY <1>3, <2>1, <2>2
<1>5. pc'[a] = None /\ \A b \in Apps : b # a => pc'[b] = pc[b]
  BY <1>3 DEF IInv, Types
<1>6. Types'
  BY <1>1, <1>3, <1>4 DEF IInv, Types
<1>7. ClosedIsBare'
  BY <1>1, <1>4, NoneAssumption DEF IInv, ClosedIsBare, Sid
<1>8. CallsHold'
  BY <1>1, <1>3, <1>4, <1>5, OthersHold DEF In
<1>9. TableInv'
  BY <1>1, <1>2, <1>3, <1>4, FewerHolders DEF IInv, Holds
<1>. QED
  BY <1>6, <1>7, <1>8, <1>9 DEF IInv

(* What the calls that change the table of a device leave alone.           *)
LEMMA TableStep ==
  ASSUME IInv, NEW a \in Apps, NEW c \in Contexts, Free(a, c),
         NEW state \in {"OPENED", "STARTED", "STOPPED"},
         NEW streams \in [Streams -> SlotType], ctx[c].state # "CLOSED",
         ctx' = [ctx EXCEPT ![c].state = state, ![c].streams = streams],
         filter' \in [Fds -> FilterType],
         UNCHANGED <<lock, pc, handles, forgotten, allocated>>
  PROVE  /\ ctx'[c].streams = streams /\ ctx'[c].state = state
         /\ \A d \in Contexts : d # c => ctx'[d] = ctx[d]
         /\ Types' /\ ClosedIsBare' /\ CallsHold'
         /\ \A d \in Contexts : ctx'[d].buf = ctx[d].buf /\ ctx'[d].fend = ctx[d].fend
<1>1. /\ ctx' \in [Contexts -> ContextType]
      /\ ctx'[c].streams = streams /\ ctx'[c].state = state
      /\ ctx'[c].buf = ctx[c].buf /\ ctx'[c].fend = ctx[c].fend
      /\ ctx'[c].dmx = ctx[c].dmx
      /\ \A d \in Contexts : d # c => ctx'[d] = ctx[d]
  <2>. DEFINE mid == [ctx[c] EXCEPT !.state = state]
              new == [mid EXCEPT !.streams = streams]
  <2>1. ctx \in [Contexts -> ContextType] /\ ctx[c] \in ContextType
    BY DEF IInv, Types
  <2>2. /\ mid \in ContextType /\ mid.state = state
        /\ mid.buf = ctx[c].buf /\ mid.fend = ctx[c].fend /\ mid.dmx = ctx[c].dmx
    BY <2>1 DEF ContextType
  <2>. HIDE DEF mid
  <2>3. /\ new \in ContextType /\ new.state = state /\ new.streams = streams
        /\ new.buf = ctx[c].buf /\ new.fend = ctx[c].fend /\ new.dmx = ctx[c].dmx
    BY <2>2 DEF ContextType
  <2>4. ctx' = [ctx EXCEPT ![c] = new]
    BY <2>1 DEF mid
  <2>. HIDE DEF new
  <2>. QED
    BY <2>1, <2>3, <2>4
<1>2. Types'
  BY <1>1 DEF IInv, Types
<1>3. ClosedIsBare'
  BY <1>1 DEF IInv, ClosedIsBare, Sid
<1>4. pc[a] = None /\ lock[c] = None
  BY FreeCall
<1>5. CallsHold'
  BY <1>1, <1>4, OthersHold DEF In
<1>. QED
  BY <1>1, <1>2, <1>3, <1>5

(* add_pid takes a slot that was free, and a filter that was closed; only  *)
(* on a started device it starts the filter.                               *)
AddPidDoes(c, p) ==
  \E s \in Streams, slot \in SlotType :
    /\ slot.pid = p /\ (ctx[c].state # "STARTED" => slot.isStart = FALSE)
    /\ ctx[c].state # "CLOSED" /\ ctx[c].streams[s].pid = None
    /\ ctx'[c].state = ctx[c].state /\ ctx'[c].streams[s] = slot
    /\ \A t \in Streams : t # s => ctx'[c].streams[t] = ctx[c].streams[t]
    /\ \A d \in Contexts : d # c => ctx'[d] = ctx[d]
    /\ \/ slot.fid = None /\ filter' = filter
       \/ \E f \in Fds, fl \in FilterType :
            /\ slot.fid = f /\ filter[f].state = "closed" /\ fl.pid = p
            /\ fl.state = IF slot.isStart THEN "running" ELSE "open"
            /\ filter' = [filter EXCEPT ![f] = fl]

(* That is all that add_pid does.                                          *)
LEMMA AddPidTakes ==
  ASSUME IInv, NEW a \in Apps, NEW c \in Contexts, NEW p \in Pids, AddPid(a, c, p)
  PROVE  /\ AddPidDoes(c, p)
         /\ Types' /\ ClosedIsBare' /\ CallsHold'
         /\ \A d \in Contexts : ctx'[d].buf = ctx[d].buf
         /\ pc[a] = None /\ UNCHANGED <<pc, forgotten, allocated>>
<1>. DEFINE s0 == Least(FreeSlots(c))
            f0 == Least(ClosedFds)
<1>1. /\ Free(a, c) /\ ctx[c].state # "CLOSED" /\ ctx[c] \in ContextType
      /\ s0 \in Streams /\ ctx[c].streams[s0].pid = None
  <2>1. s0 \in FreeSlots(c)
    BY LeastOf DEF AddPid, FreeSlots
  <2>. QED
    BY <2>1 DEF AddPid, FreeSlots, IInv, Types
<1>2. PICK o \in AddOutcomes(c, p) :
        /\ ctx' = [ctx EXCEPT ![c] = [ctx[c] EXCEPT !.streams[s0] = o[1]]]
        /\ filter' = IF o[1].fid = None THEN filter
                     ELSE [filter EXCEPT ![o[1].fid] = o[2]]
        /\ UNCHANGED <<lock, pc, handles, forgotten, allocated>>
  BY DEF AddPid, Set
<1>3. f0 \in ClosedFds \/ ClosedFds = {}
  BY LeastOf DEF ClosedFds
<1>4. PICK slot \in SlotType :
        /\ slot = o[1] /\ slot.pid = p
        /\ ctx[c].state # "STARTED" => slot.isStart = FALSE
        /\ \/ slot.fid = None /\ filter' = filter
           \/ /\ slot.fid = f0 /\ f0 \in Fds /\ filter[f0].state = "closed"
              /\ \E fl \in FilterType :
                   /\ fl.pid = p
                   /\ fl.state = IF slot.isStart THEN "running" ELSE "open"
                   /\ filter' = [filter EXCEPT ![f0] = fl]
  <2>1. CASE o = <<[pid |-> p, fid |-> None, isStart |-> FALSE], None>>
    <3>. HIDE DEF s0, f0
    <3>1. [pid |-> p, fid |-> None, isStart |-> FALSE] \in SlotType
      BY DEF SlotType
    <3>2. o[1] = [pid |-> p, fid |-> None, isStart |-> FALSE]
      BY <2>1
    <3>. QED
      BY <1>2, <3>1, <3>2
  <2>2. CASE /\ ClosedFds # {}
             /\ \E run \in BOOLEAN :
                  /\ run => ctx[c].state = "STARTED"
                  /\ o = <<[pid |-> p, fid |-> f0, isStart |-> run],
                         [state |-> IF run THEN "running" ELSE "open", pid |-> p]>>
    <3>1. PICK run \in BOOLEAN :
            /\ run => ctx[c].state = "STARTED"
            /\ o = <<[pid |-> p, fid |-> f0, isStart |-> run],
                    [state |-> IF run THEN "running" ELSE "open", pid |-> p]>>
      BY <2>2
    <3>2. f0 \in Fds /\ f0 # None /\ filter[f0].state = "closed"
      BY <1>3, <2>2, NoneAssumption DEF ClosedFds
    <3>. HIDE DEF f0
    <3>3. /\ [pid |-> p, fid |-> f0, isStart |-> run] \in SlotType
          /\ [state |-> IF run THEN "running" ELSE "open", pid |-> p] \in FilterType
      BY <3>2 DEF SlotType, FilterType
    <3>. QED
      BY <1>2, <3>1, <3>2, <3>3
  <2>. QED
    BY <2>1, <2>2 DEF AddOutcomes
<1>. DEFINE streams == [ctx[c].streams EXCEPT ![s0] = slot]
<1>. HIDE DEF s0, f0
<1>5. /\ streams \in [Streams -> SlotType] /\ streams[s0] = slot
      /\ \A t \in Streams : t # s0 => streams[t] = ctx[c].streams[t]
  BY <1>1, <1>4 DEF ContextType
<1>6. filter' \in [Fds -> FilterType]
  BY <1>4 DEF IInv, Types
<1>7. ctx' = [ctx EXCEPT ![c].state = ctx[c].state, ![c].streams = streams]
  BY <1>1, <1>2, <1>4 DEF IInv, Types, ContextType
<1>. HIDE DEF streams
<1>8. /\ ctx'[c].streams = streams /\ ctx'[c].state = ctx[c].state
      /\ \A d \in Contexts : d # c => ctx'[d] = ctx[d]
      /\ Types' /\ ClosedIsBare' /\ CallsHold'
      /\ \A d \in Contexts : ctx'[d].buf = ctx[d].buf
  <2>1. ctx[c].state \in {"OPENED", "STARTED", "STOPPED"}
    BY <1>1 DEF ContextType
  <2>. QED
    BY <1>1, <1>2, <1>5, <1>6, <1>7, <2>1, TableStep
<1>9. \/ slot.fid = None /\ filter' = filter
      \/ \E f \in Fds, fl \in FilterType :
           /\ slot.fid = f /\ filter[f].state = "closed" /\ fl.pid = p
           /\ fl.state = IF slot.isStart THEN "running" ELSE "open"
           /\ filter' = [filter EXCEPT ![f] = fl]
  BY <1>4
<1>10. AddPidDoes(c, p)
  BY <1>1, <1>4, <1>5, <1>8, <1>9 DEF AddPidDoes
<1>. QED
  BY <1>1, <1>2, <1>8, <1>10, FreeCall

(* ... so that no other slot has the filter it opens.                      *)
LEMMA AddPidKeeps ==
  ASSUME IInv, NEW a \in Apps, NEW c \in Contexts, NEW p \in Pids, AddPid(a, c, p)
  PROVE  IInv'
<1>1. AddPidDoes(c, p) /\ Types' /\ ClosedIsBare' /\ CallsHold'
  BY AddPidTakes
<1>2. PICK s0 \in Streams, slot \in SlotType : AddPidDoes(c, p)!(s0, slot)
  BY <1>1 DEF AddPidDoes
<1>3. \A d \in Contexts, t \in Streams : Holds(d, t)' =>
        IF d = c /\ t = s0 THEN slot.fid # None
        ELSE Holds(d, t) /\ ctx'[d].streams[t] = ctx[d].streams[t]
  BY <1>2 DEF Holds
<1>4. TableInv'
  <2>1. CASE slot.fid = None /\ filter' = filter
    BY <1>3, <2>1, FewerHolders DEF IInv
  <2>2. ASSUME NEW f0 \in Fds, NEW fl \in FilterType,
               slot.fid = f0, filter[f0].state = "closed", fl.pid = p,
               fl.state = IF slot.isStart THEN "running" ELSE "open",
               filter' = [filter EXCEPT ![f0] = fl]
        PROVE  TableInv'
    <3>1. /\ filter'[f0].pid = p
          /\ filter'[f0].state = IF slot.isStart THEN "running" ELSE "open"
          /\ \A f \in Fds : f # f0 => filter'[f] = filter[f]
      BY <2>2 DEF IInv, Types
    <3>2. ASSUME NEW d \in Contexts, NEW t \in Streams, Holds(d, t)
          PROVE  ctx[d].streams[t].fid \in Fds /\ ctx[d].streams[t].fid # f0
      BY <2>2, <3>2, HeldIsOpen DEF IInv
    <3>3. SlotsAgree'
      <4>1. ASSUME NEW d \in Contexts, NEW t \in Streams, Holds(d, t)'
            PROVE  LET new == ctx'[d].streams[t]
                   IN  /\ filter'[new.fid].pid = new.pid
                       /\ filter'[new.fid].state = IF new.isStart THEN "running" ELSE "open"
        <5>1. CASE d = c /\ t = s0
          BY <1>2, <2>2, <3>1, <5>1
        <5>2. CASE ~ (d = c /\ t = s0)
          BY <1>3, <3>1, <3>2, <4>1, <5>2 DEF IInv, TableInv, SlotsAgree
        <5>. QED
          BY <5>1, <5>2
      <4>. QED
        BY <4>1 DEF SlotsAgree
    <3>4. NotShared'
      <4>1. SUFFICES ASSUME NEW d \in Contexts, NEW e \in Contexts,
                            NEW t \in Streams, NEW u \in Streams,
                            Holds(d, t)', Holds(e, u)',
                            ctx'[d].streams[t].fid = ctx'[e].streams[u].fid
                     PROVE  d = e /\ t = u
        BY DEF NotShared
      <4>2. ctx'[c].streams[s0].fid = f0
        BY <1>2, <2>2
      <4>3. CASE d = c /\ t = s0
        BY <1>3, <3>2, <4>1, <4>2, <4>3
      <4>4. CASE e = c /\ u = s0
        BY <1>3, <3>2, <4>1, <4>2, <4>4
      <4>5. CASE ~ (d = c /\ t = s0) /\ ~ (e = c /\ u = s0)
        <5>1. /\ Holds(d, t) /\ Holds(e, u)
              /\ ctx[d].streams[t].fid = ctx[e].streams[u].fid
          BY <1>3, <4>1, <4>5
        <5>. QED
          BY <5>1 DEF IInv, TableInv, NotShared
      <4>. QED
        BY <4>3, <4>4, <4>5
    <3>5. NoPidNoFilter'
      BY <1>2, <1>3, NoneAssumption DEF IInv, TableInv, NoPidNoFilter
    <3>. QED
      BY <3>3, <3>4, <3>5 DEF TableInv
  <2>. QED
    BY <1>2, <2>1, <2>2
<1>. QED
  BY <1>1, <1>4 DEF IInv

(* Filters that are closed are those of the slots that are emptied: no     *)
(* other slot has one of them.                                             *)
LEMMA EmptyKeeps ==
  ASSUME Types, TableInv, NEW c \in Contexts, NEW slots \in SUBSET Streams,
         ctx[c].state # "CLOSED",
         \A d \in Contexts : d # c => ctx'[d] = ctx[d],
         ctx'[c].streams = Emptied(c, slots), filter' = Shut(c, slots)
  PROVE  TableInv' /\ filter' \in [Fds -> FilterType]
<1>1. ASSUME NEW d \in Contexts, NEW t \in Streams, Holds(d, t)'
      PROVE  /\ Holds(d, t) /\ ctx'[d].streams[t] = ctx[d].streams[t]
             /\ filter'[ctx[d].streams[t].fid] = filter[ctx[d].streams[t].fid]
  <2>1. /\ Holds(d, t) /\ ctx'[d].streams[t] = ctx[d].streams[t]
        /\ ~ (d = c /\ t \in slots)
    BY <1>1 DEF Holds, Emptied, Unused
  <2>2. ctx[d].streams[t].fid \in Fds
    BY <2>1 DEF Holds, Types, ContextType, SlotType
  <2>3. ~ \E s \in slots : ctx[c].streams[s].fid = ctx[d].streams[t].fid
    BY <2>1, <2>2, NoneAssumption DEF Holds, TableInv, NotShared
  <2>. QED
    BY <2>1, <2>2, <2>3 DEF Shut
<1>2. TableInv'
  BY <1>1, FewerHolders
<1>3. ClosedFilter \in FilterType
  BY DEF ClosedFilter, FilterType
<1>4. filter' \in [Fds -> FilterType]
  BY <1>3 DEF Shut, Types
<1>. QED
  BY <1>2, <1>4

(* The table of a device with some slots emptied.                          *)
LEMMA EmptiedType ==
  ASSUME Types, NEW c \in Contexts, NEW slots \in SUBSET Streams
  PROVE  Emptied(c, slots) \in [Streams -> SlotType]
<1>1. Unused \in SlotType
  BY DEF Unused, SlotType
<1>2. ctx[c].streams \in [Streams -> SlotType]
  BY DEF Types, ContextType
<1>. QED
  BY <1>1, <1>2 DEF Emptied

(* remove_pid empties one slot.                                            *)
LEMMA RemovePidKeeps ==
  ASSUME IInv, NEW a \in Apps, NEW c \in Contexts, NEW p \in Pids, RemovePid(a, c, p)
  PROVE  IInv'
<1>. DEFINE s0 == Least(SlotsOf(c, p))
            streams == Emptied(c, {s0})
<1>1. s0 \in Streams
  <2>1. s0 \in SlotsOf(c, p)
    BY LeastOf DEF RemovePid, SlotsOf
  <2>. QED
    BY <2>1 DEF SlotsOf
<1>2. /\ Free(a, c) /\ ctx[c].state # "CLOSED"
      /\ ctx' = [ctx EXCEPT ![c] = [ctx[c] EXCEPT !.streams = streams]]
      /\ filter' = Shut(c, {s0})
      /\ UNCHANGED <<lock, pc, handles, forgotten, allocated>>
  BY DEF RemovePid, Set
<1>3. streams \in [Streams -> SlotType]
  BY <1>1, EmptiedType DEF IInv
<1>. HIDE DEF streams
<1>4. /\ ctx' = [ctx EXCEPT ![c].state = ctx[c].state, ![c].streams = streams]
      /\ ctx[c].state \in {"OPENED", "STARTED", "STOPPED"}
      /\ ctx'[c].streams = streams
      /\ \A d \in Contexts : d # c => ctx'[d] = ctx[d]
  BY <1>2 DEF IInv, Types, ContextType
<1>5. TableInv' /\ filter' \in [Fds -> FilterType]
  BY <1>1, <1>2, <1>4, EmptyKeeps DEF IInv, streams
<1>. QED
  BY <1>2, <1>3, <1>4, <1>5, TableStep DEF IInv

(* stop empties the slots it has stopped, in order, all or up to one.      *)
LEMMA StopKeeps ==
  ASSUME IInv, NEW a \in Apps, NEW c \in Contexts, Stop(a, c)
  PROVE  IInv'
<1>1. PICK done \in Done(Started(c), "stop") :
        /\ Free(a, c) /\ ctx[c].state = "STARTED"
        /\ ctx' = [ctx EXCEPT ![c] = [ctx[c] EXCEPT !.streams = Emptied(c, done),
                                                   !.state = StopState(c, done)]]
        /\ filter' = Shut(c, done)
        /\ UNCHANGED <<lock, pc, handles, forgotten, allocated>>
  BY DEF Stop, Set
<1>2. done \in SUBSET Streams
  BY DEF Done, Started
<1>. DEFINE streams == Emptied(c, done)
            state == StopState(c, done)
<1>3. streams \in [Streams -> SlotType] /\ state \in {"OPENED", "STARTED", "STOPPED"}
  BY <1>2, EmptiedType DEF IInv, StopState
<1>. HIDE DEF streams, state
<1>4. /\ ctx' = [ctx EXCEPT ![c].state = state, ![c].streams = streams]
      /\ ctx'[c].streams = streams
      /\ \A d \in Contexts : d # c => ctx'[d] = ctx[d]
  BY <1>1 DEF IInv, Types, ContextType, streams, state
<1>5. TableInv' /\ filter' \in [Fds -> FilterType]
  BY <1>1, <1>2, <1>4, EmptyKeeps DEF IInv, streams
<1>. QED
  BY <1>1, <1>3, <1>4, <1>5, TableStep DEF IInv

(* start marks the slots whose filters it has started, all or up to one.   *)
StartDoes(c) ==
  \E done \in SUBSET Startable(c) :
    /\ ctx[c].state # "CLOSED" /\ ctx'[c].state # "CLOSED"
    /\ \A d \in Contexts : d # c => ctx'[d] = ctx[d]
    /\ \A s \in Streams : /\ ctx'[c].streams[s].fid = ctx[c].streams[s].fid
                           /\ ctx'[c].streams[s].pid = ctx[c].streams[s].pid
                           /\ \/ s \in done /\ ctx'[c].streams[s].isStart = TRUE
                              \/ /\ ctx'[c].streams[s] = ctx[c].streams[s]
                                 /\ s \notin done
    /\ \A f \in Fds : /\ filter'[f].pid = filter[f].pid
                       /\ IF \E s \in done : ctx[c].streams[s].fid = f
                          THEN filter'[f].state = "running"
                          ELSE filter'[f] = filter[f]

(* That is all that start does.                                            *)
LEMMA StartMarks ==
  ASSUME IInv, NEW a \in Apps, NEW c \in Contexts, Start(a, c)
  PROVE  /\ StartDoes(c)
         /\ Types' /\ ClosedIsBare' /\ CallsHold'
         /\ \A d \in Contexts : ctx'[d].buf = ctx[d].buf
         /\ pc[a] = None /\ UNCHANGED <<pc, forgotten, allocated>>
<1>1. PICK done \in Done(Startable(c), "start") :
        /\ Free(a, c) /\ ctx[c].state \in {"OPENED", "STOPPED"}
        /\ ctx' = [ctx EXCEPT ![c] = [ctx[c] EXCEPT
             !.state = IF done = Startable(c) THEN "STARTED" ELSE @,
             !.streams = [s \in Streams |->
                IF s \in done THEN [@[s] EXCEPT !.isStart = TRUE] ELSE @[s]]]]
        /\ filter' = [f \in Fds |->
             IF \E s \in done : ctx[c].streams[s].fid = f
             THEN [filter[f] EXCEPT !.state = "running"] ELSE filter[f]]
        /\ UNCHANGED <<lock, pc, handles, forgotten, allocated>>
  BY DEF Start, Set
<1>2. done \in SUBSET Startable(c) /\ Startable(c) \subseteq Streams
  BY DEF Done, Startable
<1>. DEFINE streams == [s \in Streams |->
               IF s \in done THEN [ctx[c].streams[s] EXCEPT !.isStart = TRUE]
               ELSE ctx[c].streams[s]]
            state == IF done = Startable(c) THEN "STARTED" ELSE ctx[c].state
<1>3. ctx[c].streams \in [Streams -> SlotType] /\ ctx[c].state # "CLOSED"
  BY <1>1 DEF IInv, Types, ContextType
<1>4. /\ streams \in [Streams -> SlotType] /\ state \in {"OPENED", "STARTED", "STOPPED"}
      /\ \A s \in Streams : /\ streams[s].fid = ctx[c].streams[s].fid
                             /\ streams[s].pid = ctx[c].streams[s].pid
                             /\ \/ s \in done /\ streams[s].isStart = TRUE
                                \/ streams[s] = ctx[c].streams[s] /\ s \notin done
  BY <1>1, <1>3 DEF SlotType
<1>5. ctx' = [ctx EXCEPT ![c].state = state, ![c].streams = streams]
  BY <1>1 DEF IInv, Types, ContextType
<1>. HIDE DEF streams, state
<1>6. ASSUME NEW f \in Fds
      PROVE  /\ filter'[f] \in FilterType /\ filter'[f].pid = filter[f].pid
             /\ IF \E s \in done : ctx[c].streams[s].fid = f
                THEN filter'[f].state = "running"
                ELSE filter'[f] = filter[f]
  <2>1. filter[f] \in FilterType
    BY DEF IInv, Types
  <2>2. CASE \E s \in done : ctx[c].streams[s].fid = f
    <3>1. filter'[f] = [filter[f] EXCEPT !.state = "running"]
      BY <1>1, <2>2
    <3>. QED
      BY <2>1, <2>2, <3>1 DEF FilterType
  <2>3. CASE ~ \E s \in done : ctx[c].streams[s].fid = f
    BY <1>1, <2>1, <2>3
  <2>. QED
    BY <2>2, <2>3
<1>7. filter' \in [Fds -> FilterType]
  BY <1>1, <1>6
<1>8. /\ ctx'[c].streams = streams /\ ctx'[c].state = state
      /\ \A d \in Contexts : d # c => ctx'[d] = ctx[d]
      /\ Types' /\ ClosedIsBare' /\ CallsHold'
      /\ \A d \in Contexts : ctx'[d].buf = ctx[d].buf
  BY <1>1, <1>3, <1>4, <1>5, <1>7, TableStep
<1>9. StartDoes(c)
  BY <1>2, <1>3, <1>4, <1>6, <1>8 DEF StartDoes
<1>. QED
  BY <1>1, <1>8, <1>9, FreeCall

(* ... and their filters, which no other slot has.                         *)
LEMMA StartKeeps ==
  ASSUME IInv, NEW a \in Apps, NEW c \in Contexts, Start(a, c)
  PROVE  IInv'
<1>1. StartDoes(c) /\ Types' /\ ClosedIsBare' /\ CallsHold'
  BY StartMarks
<1>2. PICK done \in SUBSET Startable(c) : StartDoes(c)!(done)
  BY <1>1 DEF StartDoes
<1>3. ASSUME NEW d \in Contexts, NEW t \in Streams, Holds(d, t)'
      PROVE  /\ Holds(d, t)
             /\ ctx'[d].streams[t].fid = ctx[d].streams[t].fid
             /\ ctx'[d].streams[t].pid = ctx[d].streams[t].pid
             /\ \/ d = c /\ t \in done /\ ctx'[d].streams[t].isStart = TRUE
                \/ ctx'[d].streams[t] = ctx[d].streams[t] /\ ~ (d = c /\ t \in done)
  BY <1>2, <1>3 DEF Holds
<1>4. SlotsAgree'
  <2>1. SUFFICES ASSUME NEW d \in Contexts, NEW t \in Streams, Holds(d, t)'
                 PROVE  /\ filter'[ctx'[d].streams[t].fid].pid = ctx'[d].streams[t].pid
                        /\ filter'[ctx'[d].streams[t].fid].state
                             = IF ctx'[d].streams[t].isStart THEN "running" ELSE "open"
    BY DEF SlotsAgree
  <2>. DEFINE f == ctx[d].streams[t].fid
  <2>2. /\ Holds(d, t) /\ f \in Fds
        /\ filter[f].pid = ctx[d].streams[t].pid
        /\ filter[f].state = IF ctx[d].streams[t].isStart THEN "running" ELSE "open"
    BY <1>3, <2>1, HeldIsOpen DEF IInv, TableInv, SlotsAgree
  <2>. HIDE DEF f
  <2>3. CASE d = c /\ t \in done
    <3>1. \E s \in done : ctx[c].streams[s].fid = f
      BY <2>3 DEF f
    <3>2. filter'[f].state = "running" /\ filter'[f].pid = filter[f].pid
      BY <1>2, <2>2, <3>1
    <3>3. /\ ctx'[d].streams[t].isStart = TRUE /\ ctx'[d].streams[t].fid = f
          /\ ctx'[d].streams[t].pid = ctx[d].streams[t].pid
      BY <1>3, <2>1, <2>3 DEF f
    <3>. QED
      BY <2>2, <3>2, <3>3
  <2>4. CASE ~ (d = c /\ t \in done)
    <3>1. ASSUME NEW s \in done, ctx[c].streams[s].fid = f
          PROVE  FALSE
      <4>1. s \in Streams /\ Holds(c, s)
        BY <1>2, <3>1 DEF Startable, Holds
      <4>2. c = d /\ s = t
        BY <2>2, <3>1, <4>1 DEF IInv, TableInv, NotShared, f
      <4>. QED
        BY <2>4, <3>1, <4>2
    <3>2. filter'[f] = filter[f]
      BY <1>2, <2>2, <3>1
    <3>. QED
      BY <1>3, <2>1, <2>2, <2>4, <3>2 DEF f
  <2>. QED
    BY <2>3, <2>4
<1>5. NotShared'
  <2>1. \A d \in Contexts, t \in Streams : Holds(d, t)' =>
          Holds(d, t) /\ ctx'[d].streams[t].fid = ctx[d].streams[t].fid
    BY <1>3
  <2>. QED
    BY <2>1 DEF IInv, TableInv, NotShared
<1>6. NoPidNoFilter'
  <2>1. ASSUME NEW d \in Contexts, NEW t \in Streams, Holds(d, t)'
        PROVE  ctx'[d].streams[t].pid # None
    <3>1. Holds(d, t) /\ ctx'[d].streams[t].pid = ctx[d].streams[t].pid
      BY <1>3, <2>1
    <3>. QED
      BY <3>1 DEF IInv, TableInv, NoPidNoFilter
  <2>. QED
    BY <2>1 DEF NoPidNoFilter
<1>. QED
  BY <1>1, <1>4, <1>5, <1>6 DEF IInv, TableInv

(* A call that gives and takes neither filters nor slots.                  *)
LEMMA TablesStay ==
  ASSUME TableInv, UNCHANGED filter,
         \A d \in Contexts : /\ ctx'[d].streams = ctx[d].streams
                             /\ ctx[d].state = "CLOSED" => ctx'[d].state = "CLOSED"
  PROVE  TableInv'
BY FewerHolders DEF Holds

(* set_secure_buffer takes the lock and finds a buffer: that of its sid.   *)
LEMMA SecureLookKeeps ==
  ASSUME IInv, NEW a \in Apps, NEW c \in Contexts, SecureLook(a, c)
  PROVE  IInv'
<1>1. /\ Free(a, c) /\ ctx[c].state \in {"OPENED", "STOPPED"}
      /\ lock' = [lock EXCEPT ![c] = a]
      /\ ctx' = [ctx EXCEPT ![c] = [ctx[c] EXCEPT !.output = TRUE]]
      /\ UNCHANGED <<handles, filter, forgotten>>
  BY DEF SecureLook, Set
<1>2. Sid(c) \in Sids /\ ctx[c].buf \in {Sid(c), None}
  BY <1>1 DEF IInv, ClosedIsBare, Types, ContextType, Sid, Sids
<1>3. SharedWith(c) # {} => ctx[Least(SharedWith(c))].buf = Sid(c)
  <2>1. SharedWith(c) # {} => Least(SharedWith(c)) \in SharedWith(c)
    BY LeastOf DEF SharedWith
  <2>. QED
    BY <2>1 DEF SharedWith, IInv, ClosedIsBare
<1>4. PICK buf \in {Sid(c), None} :
        pc' = [pc EXCEPT ![a] = [call |-> "secure", on |-> c, buf |-> buf]]
  BY <1>2, <1>3 DEF SecureLook
<1>5. allocated' \in {allocated, allocated \cup {Sid(c)}}
  BY DEF SecureLook
<1>6. [call |-> "secure", on |-> c, buf |-> buf] \in Calls
  BY <1>2 DEF Calls, Sids
<1>7. /\ ctx' \in [Contexts -> ContextType]
      /\ ctx'[c].state = ctx[c].state /\ ctx'[c].fend = ctx[c].fend
      /\ ctx'[c].dmx = ctx[c].dmx
      /\ ctx'[c].buf = ctx[c].buf /\ ctx'[c].streams = ctx[c].streams
      /\ \A d \in Contexts : d # c => ctx'[d] = ctx[d]
  BY <1>1 DEF IInv, Types, ContextType
<1>8. /\ pc'[a] = [call |-> "secure", on |-> c, buf |-> buf]
      /\ \A b \in Apps : b # a => pc'[b] = pc[b]
      /\ lock'[c] = a /\ \A d \in Contexts : d # c => lock'[d] = lock[d]
  BY <1>1, <1>4 DEF IInv, Types
<1>9. Types'
  BY <1>1, <1>2, <1>4, <1>5, <1>6, <1>7 DEF IInv, Types
<1>10. ClosedIsBare'
  BY <1>1, <1>7 DEF IInv, ClosedIsBare, Sid
<1>11. CallsHold'
  <2>1. lock[c] = None
    BY <1>1, FreeCall
  <2>2. ctx'[c].state \in {"OPENED", "STOPPED"} /\ buf \in {Sid(c)', None}
    BY <1>1, <1>4, <1>7 DEF Sid
  <2>. QED
    BY <1>7, <1>8, <2>1, <2>2, OthersHold DEF In, Sid
<1>12. TableInv'
  BY <1>1, <1>7, TablesStay DEF IInv
<1>. QED
  BY <1>9, <1>10, <1>11, <1>12 DEF IInv

(* ... and stores it while it still has the lock.                          *)
LEMMA SecureDoneKeeps ==
  ASSUME IInv, NEW a \in Apps, SecureDone(a)
  PROVE  IInv'
<1>. DEFINE c == pc[a].on
            buf == pc[a].buf
<1>1. /\ c \in Contexts /\ lock[c] = a /\ ctx[c].state # "CLOSED"
      /\ buf \in {Sid(c), None}
  BY CallFields DEF SecureDone, IInv, CallsHold, In
<1>2. /\ ctx' = [ctx EXCEPT ![c] = [ctx[c] EXCEPT !.buf = buf]]
      /\ lock' = [lock EXCEPT ![c] = None]
      /\ pc' = [pc EXCEPT ![a] = None]
      /\ UNCHANGED <<handles, filter, forgotten, allocated>>
  BY DEF SecureDone, Set
<1>. HIDE DEF c, buf
<1>3. /\ ctx' \in [Contexts -> ContextType]
      /\ ctx'[c].state = ctx[c].state /\ ctx'[c].fend = ctx[c].fend
      /\ ctx'[c].dmx = ctx[c].dmx /\ ctx'[c].output = ctx[c].output
      /\ ctx'[c].buf = buf /\ ctx'[c].streams = ctx[c].streams
      /\ \A d \in Contexts : d # c => ctx'[d] = ctx[d]
  BY <1>1, <1>2 DEF IInv, Types, ContextType, Sid, Sids
<1>4. /\ pc'[a] = None /\ \A b \in Apps : b # a => pc'[b] = pc[b]
      /\ \A d \in Contexts : d # c => lock'[d] = lock[d]
  BY <1>1, <1>2 DEF IInv, Types
<1>5. Types'
  BY <1>1, <1>2, <1>3 DEF IInv, Types
<1>6. ClosedIsBare'
  BY <1>1, <1>3 DEF IInv, ClosedIsBare, Sid
<1>7. CallsHold'
  BY <1>1, <1>3, <1>4, OthersHold DEF In
<1>8. TableInv'
  BY <1>2, <1>3, TablesStay DEF IInv
<1>. QED
  BY <1>5, <1>6, <1>7, <1>8 DEF IInv

(* close takes the lock of its context and looks at the others.            *)
LEMMA CloseLookKeeps ==
  ASSUME IInv, NEW a \in Apps, NEW c \in Contexts, CloseLook(a, c)
  PROVE  IInv'
<1>. DEFINE last == ctx[c].buf # None /\ LastUser(c)
<1>1. /\ Free(a, c) /\ ctx[c].state # "CLOSED" /\ lock[c] = None
      /\ lock' = [lock EXCEPT ![c] = a]
      /\ pc' = [pc EXCEPT ![a] = [call |-> "close", on |-> c, last |-> last]]
      /\ UNCHANGED <<ctx, handles, filter, forgotten, allocated>>
  BY FreeCall DEF CloseLook
<1>2. last \in BOOLEAN
  OBVIOUS
<1>. HIDE DEF last
<1>3. [call |-> "close", on |-> c, last |-> last] \in Calls
  BY <1>2 DEF Calls
<1>4. /\ pc'[a] = [call |-> "close", on |-> c, last |-> last]
      /\ \A b \in Apps : b # a => pc'[b] = pc[b]
      /\ lock'[c] = a /\ \A d \in Contexts : d # c => lock'[d] = lock[d]
  BY <1>1 DEF IInv, Types
<1>5. Types'
  BY <1>1, <1>3 DEF IInv, Types
<1>6. CallsHold'
  BY <1>1, <1>4, OthersHold DEF In
<1>7. TableInv'
  BY <1>1, TablesStay DEF IInv
<1>. QED
  BY <1>1, <1>5, <1>6, <1>7 DEF IInv, ClosedIsBare, Sid

(* ... and closes it: the slots that had filters are no slots of an open   *)
(* device any more.                                                        *)
LEMMA CloseDoneKeeps ==
  ASSUME IInv, NEW a \in Apps, CloseDone(a)
  PROVE  IInv'
<1>. DEFINE c == pc[a].on
<1>1. c \in Contexts /\ lock[c] = a /\ ctx[c].state # "CLOSED"
  BY CallFields DEF CloseDone, IInv, CallsHold, In
<1>2. /\ ctx' = [ctx EXCEPT ![c] = Closed(c)]
      /\ lock' = [lock EXCEPT ![c] = None]
      /\ pc' = [pc EXCEPT ![a] = None]
      /\ handles' = [b \in Apps |-> handles[b] \ {c}]
      /\ forgotten' = forgotten \cup ({ctx[c].streams[s].fid : s \in Streams} \ {None})
      /\ allocated' \in {allocated, allocated \ {ctx[c].fend}}
      /\ UNCHANGED filter
  BY DEF CloseDone, Set
<1>. HIDE DEF c
<1>3. /\ ctx' \in [Contexts -> ContextType]
      /\ ctx'[c].state = "CLOSED" /\ ctx'[c].fend = None /\ ctx'[c].buf = None
      /\ ctx'[c].output = FALSE /\ ctx'[c].streams = ctx[c].streams
      /\ \A d \in Contexts : d # c => ctx'[d] = ctx[d]
  <2>. DEFINE new == Closed(c)
  <2>1. ctx \in [Contexts -> ContextType] /\ ctx[c] \in ContextType
    BY <1>1 DEF IInv, Types
  <2>2. /\ new \in ContextType
        /\ new.state = "CLOSED" /\ new.fend = None /\ new.buf = None
        /\ new.output = FALSE /\ new.streams = ctx[c].streams
    BY <2>1 DEF ContextType, Closed
  <2>3. ctx' = [ctx EXCEPT ![c] = new]
    BY <1>2
  <2>. HIDE DEF new
  <2>. QED
    BY <1>1, <2>1, <2>2, <2>3
<1>4. /\ pc'[a] = None /\ \A b \in Apps : b # a => pc'[b] = pc[b]
      /\ \A d \in Contexts : d # c => lock'[d] = lock[d]
  BY <1>1, <1>2 DEF IInv, Types
<1>5. Types'
  <2>1. forgotten' \subseteq Fds
    BY <1>1, <1>2 DEF IInv, Types, ContextType, SlotType
  <2>2. handles' \in [Apps -> SUBSET Contexts]
    BY <1>2 DEF IInv, Types
  <2>3. lock' \in [Contexts -> Apps \cup {None}] /\ pc' \in [Apps -> Calls \cup {None}]
    BY <1>2 DEF IInv, Types
  <2>. QED
    BY <1>2, <1>3, <2>1, <2>2, <2>3 DEF IInv, Types
<1>6. ClosedIsBare'
  BY <1>1, <1>3 DEF IInv, ClosedIsBare, Sid
<1>7. CallsHold'
  BY <1>1, <1>3, <1>4, OthersHold DEF In
<1>8. TableInv'
  BY <1>2, <1>3, TablesStay DEF IInv
<1>. QED
  BY <1>5, <1>6, <1>7, <1>8 DEF IInv

(* Closed devices, no calls, no filters: a state of the invariant.         *)
LEMMA IInvInit == Init => IInv
<1>. SUFFICES ASSUME Init PROVE IInv
  OBVIOUS
<1>1. /\ \A s \in Streams : Unused \in SlotType
      /\ ClosedFilter \in FilterType
  BY DEF Unused, SlotType, ClosedFilter, FilterType
<1>2. [state |-> "CLOSED", fend |-> None, dmx |-> None, output |-> FALSE,
       buf |-> None, streams |-> [s \in Streams |-> Unused]] \in ContextType
  BY <1>1 DEF ContextType
<1>3. Types
  BY <1>1, <1>2 DEF Init, Types
<1>4. \A c \in Contexts : /\ ctx[c].state = "CLOSED" /\ ctx[c].fend = None
                          /\ ctx[c].buf = None /\ ctx[c].output = FALSE
  BY DEF Init
<1>5. ClosedIsBare
  BY <1>4 DEF ClosedIsBare
<1>6. TableInv
  BY <1>4 DEF TableInv, SlotsAgree, NotShared, NoPidNoFilter, Holds
<1>7. CallsHold
  BY DEF CallsHold, In, Init
<1>. QED
  BY <1>3, <1>5, <1>6, <1>7 DEF IInv

(* Every call preserves the invariant.                                     *)
LEMMA IInvNext == IInv /\ [Next]_vars => IInv'
<1>1. CASE UNCHANGED vars
  BY <1>1 DEF vars, IInv, Types, ClosedIsBare, Sid, CallsHold, In, TableInv,
              SlotsAgree, NotShared, NoPidNoFilter, Holds
<1>2. ASSUME IInv, NEW a \in Apps, Call(a) PROVE IInv'
  BY <1>2, OpenFindKeeps, OpenTakeKeeps, SecureDoneKeeps, CloseDoneKeeps, StartKeeps,
     StopKeeps, SecureLookKeeps, CloseLookKeeps, AddPidKeeps, RemovePidKeeps DEF Call
<1>. QED
  BY <1>1, <1>2 DEF Next

(* The named parts of the invariant are what TypeOK and TableIsKernel say. *)
LEMMA IInvSays == IInv => TypeOK /\ TableIsKernel
<1>. SUFFICES ASSUME IInv PROVE TypeOK /\ TableIsKernel
  OBVIOUS
<1>1. TypeOK
  <2>1. ASSUME NEW c \in Contexts
        PROVE  /\ ctx[c].state \in {"OPENED", "STARTED", "STOPPED", "CLOSED"}
               /\ ctx[c].fend \in Sources \cup {None}
               /\ ctx[c].dmx \in Demuxes \cup {None}
               /\ ctx[c].buf \in {Sid(c), None}
               /\ ctx[c].state = "CLOSED" =>
                    ctx[c].fend = None /\ ctx[c].buf = None /\ ~ctx[c].output
    BY DEF IInv, Types, ContextType, ClosedIsBare
  <2>2. ASSUME NEW c \in Contexts, NEW s \in Streams
        PROVE  /\ ctx[c].streams[s].pid \in Pids \cup {None}
               /\ ctx[c].streams[s].fid \in Fds \cup {None}
               /\ ctx[c].streams[s].isStart \in BOOLEAN
    BY DEF IInv, Types, ContextType, SlotType
  <2>3. \A f \in Fds : filter[f].state \in {"closed", "open", "running"}
    BY DEF IInv, Types, FilterType
  <2>. QED
    BY <2>1, <2>2, <2>3 DEF TypeOK, IInv, Types, Sids
<1>2. TableIsKernel
  <2>1. ASSUME NEW h \in Holders
        PROVE  h[1] \in Contexts /\ h[2] \in Streams /\ Holds(h[1], h[2])
               /\ h = <<h[1], h[2]>>
    BY DEF Holders, Holds
  <2>2. ASSUME NEW h \in Holders, NEW g \in Holders, Slot(g).fid = Slot(h).fid
        PROVE  g = h
    <3>1. g[1] = h[1] /\ g[2] = h[2]
      BY <2>1, <2>2 DEF IInv, TableInv, NotShared, Slot
    <3>. QED
      BY <2>1, <3>1
  <2>3. ASSUME NEW h \in Holders
        PROVE  /\ filter[Slot(h).fid].pid = Slot(h).pid
               /\ filter[Slot(h).fid].state
                    = IF Slot(h).isStart THEN "running" ELSE "open"
    BY <2>1 DEF IInv, TableInv, SlotsAgree, Slot
  <2>. QED
    BY <2>2, <2>3 DEF TableIsKernel
<1>. QED
  BY <1>1, <1>2

(* Whatever fails and however the calls of any number of threads interleave*)
(* the table of a device and the filters of the kernel agree.              *)
THEOREM TablesAgree == Spec => [](TypeOK /\ TableIsKernel)
<1>1. Spec => []IInv
  BY IInvInit, IInvNext, PTL DEF Spec
<1>. QED
  BY <1>1, IInvSays, PTL

-----------------------------------------------------------------------------
(* A step after which no slot of a device that is not started runs that    *)
(* did not before.                                                         *)
LEMMA QuietStays ==
  ASSUME QuietInv,
         \A d \in Contexts, t \in Streams :
           Holds(d, t)' /\ ctx'[d].state \in {"OPENED", "STOPPED"} =>
             \/ ctx'[d].streams[t].isStart = FALSE
             \/ /\ Holds(d, t) /\ ctx[d].state \in {"OPENED", "STOPPED"}
                /\ ctx'[d].streams[t] = ctx[d].streams[t]
  PROVE  QuietInv'
BY DEF QuietInv

(* add_pid starts the filter of its slot only when the device is started.  *)
LEMMA AddPidQuiet ==
  ASSUME IInv, QuietInv, NEW a \in Apps, NEW c \in Contexts, NEW p \in Pids,
         AddPid(a, c, p)
  PROVE  QuietInv'
<1>1. AddPidDoes(c, p)
  BY AddPidTakes
<1>2. PICK s0 \in Streams, slot \in SlotType :
        /\ ctx[c].state # "STARTED" => slot.isStart = FALSE
        /\ ctx[c].state # "CLOSED" /\ ctx'[c].state = ctx[c].state
        /\ ctx'[c].streams[s0] = slot
        /\ \A t \in Streams : t # s0 => ctx'[c].streams[t] = ctx[c].streams[t]
        /\ \A d \in Contexts : d # c => ctx'[d] = ctx[d]
  BY <1>1 DEF AddPidDoes
<1>3. ASSUME NEW d \in Contexts, NEW t \in Streams, Holds(d, t)',
             ctx'[d].state \in {"OPENED", "STOPPED"}
      PROVE  \/ ctx'[d].streams[t].isStart = FALSE
             \/ /\ Holds(d, t) /\ ctx[d].state \in {"OPENED", "STOPPED"}
                /\ ctx'[d].streams[t] = ctx[d].streams[t]
  BY <1>2, <1>3 DEF Holds
<1>. QED
  BY <1>3, QuietStays

(* What remove_pid and stop empty does not run.                            *)
LEMMA EmptyQuiet ==
  ASSUME IInv, QuietInv, NEW c \in Contexts, NEW slots \in SUBSET Streams,
         NEW state \in {"OPENED", "STARTED", "STOPPED"},
         ctx' = [ctx EXCEPT ![c] = [ctx[c] EXCEPT !.streams = Emptied(c, slots),
                                                  !.state = state]],
         \/ state = ctx[c].state
         \/ state = "STARTED"
         \/ \A s \in Streams \ slots : ~ ctx[c].streams[s].isStart
  PROVE  QuietInv'
<1>1. /\ ctx'[c].state = state /\ ctx'[c].streams = Emptied(c, slots)
      /\ \A d \in Contexts : d # c => ctx'[d] = ctx[d]
  BY DEF IInv, Types, ContextType
<1>2. ASSUME NEW d \in Contexts, NEW t \in Streams, Holds(d, t)',
             ctx'[d].state \in {"OPENED", "STOPPED"}
      PROVE  \/ ctx'[d].streams[t].isStart = FALSE
             \/ /\ Holds(d, t) /\ ctx[d].state \in {"OPENED", "STOPPED"}
                /\ ctx'[d].streams[t] = ctx[d].streams[t]
  <2>1. CASE d # c
    BY <1>1, <1>2, <2>1 DEF Holds
  <2>2. CASE d = c /\ t \in slots
    BY <1>1, <2>2 DEF Emptied, Unused
  <2>3. CASE d = c /\ t \notin slots
    <3>1. ctx'[c].streams[t] = ctx[c].streams[t] /\ ctx[c].streams[t].isStart \in BOOLEAN
      BY <1>1, <2>3 DEF Emptied, IInv, Types, ContextType, SlotType
    <3>2. CASE state = ctx[c].state
      BY <1>1, <1>2, <2>3, <3>1, <3>2 DEF Holds
    <3>3. CASE \A s \in Streams \ slots : ~ ctx[c].streams[s].isStart
      BY <2>3, <3>1, <3>3
    <3>. QED
      BY <1>1, <1>2, <2>3, <3>2, <3>3
  <2>. QED
    BY <2>1, <2>2, <2>3
<1>. QED
  BY <1>2, QuietStays

(* remove_pid does not change the state of the device.                     *)
LEMMA RemovePidQuiet ==
  ASSUME IInv, QuietInv, NEW a \in Apps, NEW c \in Contexts, NEW p \in Pids,
         RemovePid(a, c, p)
  PROVE  QuietInv'
<1>. DEFINE slots == {Least(SlotsOf(c, p))}
<1>1. slots \in SUBSET Streams
  BY LeastOf DEF RemovePid, SlotsOf
<1>2. /\ ctx' = [ctx EXCEPT ![c] = [ctx[c] EXCEPT !.streams = Emptied(c, slots)]]
      /\ ctx[c].state # "CLOSED"
  BY DEF RemovePid, Set
<1>. HIDE DEF slots
<1>3. /\ ctx' = [ctx EXCEPT ![c] = [ctx[c] EXCEPT !.streams = Emptied(c, slots),
                                                  !.state = ctx[c].state]]
      /\ ctx[c].state \in {"OPENED", "STARTED", "STOPPED"}
  BY <1>2 DEF IInv, Types, ContextType
<1>. QED
  BY <1>1, <1>3, EmptyQuiet

(* stop leaves a device that is stopped, or else one that is started.      *)
LEMMA StopQuiet ==
  ASSUME IInv, QuietInv, NEW a \in Apps, NEW c \in Contexts, Stop(a, c)
  PROVE  QuietInv'
<1>1. PICK done \in Done(Started(c), "stop") :
        ctx' = [ctx EXCEPT ![c] = [ctx[c] EXCEPT !.streams = Emptied(c, done),
                                                 !.state = StopState(c, done)]]
  BY DEF Stop, Set
<1>2. done \in SUBSET Streams
  BY DEF Done, Started
<1>3. /\ StopState(c, done) \in {"OPENED", "STARTED", "STOPPED"}
      /\ \/ StopState(c, done) = "STARTED"
         \/ \A s \in Streams \ done : ~ ctx[c].streams[s].isStart
  BY DEF StopState, Started
<1>. QED
  BY <1>1, <1>2, <1>3, EmptyQuiet

(* A start that does not fail half way leaves a started device.            *)
LEMMA StartQuiet ==
  ASSUME IInv, QuietInv, "start" \notin Faults,
         NEW a \in Apps, NEW c \in Contexts, Start(a, c)
  PROVE  QuietInv'
<1>1. Done(Startable(c), "start") = {Startable(c)}
  BY DEF Done
<1>2. \E streams : ctx' = [ctx EXCEPT ![c] = [ctx[c] EXCEPT !.state = "STARTED",
                                                            !.streams = streams]]
  BY <1>1 DEF Start, Set
<1>3. /\ ctx'[c].state = "STARTED"
      /\ \A d \in Contexts : d # c => ctx'[d] = ctx[d]
  BY <1>2 DEF IInv, Types, ContextType
<1>. QED
  BY <1>3, QuietStays DEF Holds

(* open empties the table of its context, whether or not it succeeds.      *)
OpenedEmpty(c) ==
  /\ \A t \in Streams : ctx'[c].streams[t].fid = None
  /\ \A d \in Contexts : d # c => ctx'[d] = ctx[d]
  /\ ctx'[c].buf \in {ctx[c].buf, None}

(* ... and touches no other context.                                       *)
LEMMA OpenTakeEmpties ==
  ASSUME IInv, NEW a \in Apps, OpenTake(a)
  PROVE  OpenedEmpty(pc[a].on)
<1>. DEFINE c == pc[a].on
            streams == [s \in Streams |-> Unused]
<1>1. c \in Contexts /\ ctx[c] \in ContextType
  BY CallFields DEF OpenTake, IInv, Types
<1>2. PICK f \in Sources, m \in Demuxes :
        \/ ctx' = [ctx EXCEPT ![c] = [state |-> "OPENED", fend |-> f, dmx |-> m,
                                      output |-> FALSE, buf |-> None,
                                      streams |-> streams]]
        \/ ctx' = [ctx EXCEPT ![c] = [ctx[c] EXCEPT !.streams = streams]]
  BY DEF OpenTake, Set
<1>3. \A t \in Streams : streams[t].fid = None
  BY DEF Unused
<1>. HIDE DEF c, streams
<1>4. /\ ctx'[c].streams = streams /\ ctx'[c].buf \in {ctx[c].buf, None}
      /\ \A d \in Contexts : d # c => ctx'[d] = ctx[d]
  BY <1>1, <1>2 DEF IInv, Types, ContextType
<1>. QED
  BY <1>3, <1>4 DEF OpenedEmpty, c

(* The calls that leave the slots and the states of the devices alone.     *)
LEMMA SlotsStay ==
  ASSUME IInv, NEW a \in Apps,
         \/ OpenFind(a) \/ SecureDone(a)
         \/ \E c \in Contexts : SecureLook(a, c) \/ CloseLook(a, c)
  PROVE  \A d \in Contexts : /\ ctx'[d].streams = ctx[d].streams
                             /\ ctx'[d].state = ctx[d].state
<1>1. CASE OpenFind(a) \/ \E c \in Contexts : CloseLook(a, c)
  BY <1>1 DEF OpenFind, CloseLook
<1>2. CASE SecureDone(a)
  <2>1. /\ pc[a].on \in Contexts
        /\ ctx' = [ctx EXCEPT ![pc[a].on] = [ctx[pc[a].on] EXCEPT !.buf = pc[a].buf]]
    BY <1>2, CallFields DEF SecureDone, Set, IInv
  <2>. QED
    BY <2>1 DEF IInv, Types, ContextType
<1>3. ASSUME NEW c \in Contexts, SecureLook(a, c)
      PROVE  \A d \in Contexts : /\ ctx'[d].streams = ctx[d].streams
                                 /\ ctx'[d].state = ctx[d].state
  <2>1. ctx' = [ctx EXCEPT ![c] = [ctx[c] EXCEPT !.output = TRUE]]
    BY <1>3 DEF SecureLook, Set
  <2>. QED
    BY <2>1 DEF IInv, Types, ContextType
<1>. QED
  BY <1>1, <1>2, <1>3

(* The other calls: a slot is emptied, or goes with its device, or stays.  *)
LEMMA OthersQuiet ==
  ASSUME IInv, QuietInv, NEW a \in Apps,
         \/ OpenFind(a) \/ OpenTake(a) \/ SecureDone(a) \/ CloseDone(a)
         \/ \E c \in Contexts : SecureLook(a, c) \/ CloseLook(a, c)
  PROVE  QuietInv'
<1>1. CASE OpenTake(a)
  BY <1>1, OpenTakeEmpties, QuietStays DEF Holds, OpenedEmpty
<1>2. CASE CloseDone(a)
  <2>1. pc[a].on \in Contexts /\ ctx' = [ctx EXCEPT ![pc[a].on] = Closed(pc[a].on)]
    BY <1>2, CallFields DEF CloseDone, Set, IInv
  <2>2. /\ ctx'[pc[a].on].state = "CLOSED"
        /\ \A d \in Contexts : d # pc[a].on => ctx'[d] = ctx[d]
    BY <2>1 DEF IInv, Types, ContextType, Closed
  <2>. QED
    BY <2>2, QuietStays DEF Holds
<1>3. CASE \/ OpenFind(a) \/ SecureDone(a)
           \/ \E c \in Contexts : SecureLook(a, c) \/ CloseLook(a, c)
  BY <1>3, SlotsStay, QuietStays DEF Holds
<1>. QED
  BY <1>1, <1>2, <1>3

(* A device that is not started captures nothing, unless a start that      *)
(* failed at one of its filters has left the ones before it running.       *)
THEOREM DevicesAgree ==
  ASSUME "start" \notin Faults
  PROVE  Spec => []DeviceInv
<1>1. Init => IInv /\ QuietInv
  <2>1. Init => QuietInv
    BY DEF Init, QuietInv, Holds
  <2>. QED
    BY <2>1, IInvInit
<1>2. IInv /\ QuietInv /\ [Next]_vars => IInv' /\ QuietInv'
  <2>1. CASE UNCHANGED vars
    BY <2>1, IInvNext DEF vars, QuietInv, Holds
  <2>2. ASSUME IInv, QuietInv, NEW a \in Apps, Call(a) PROVE QuietInv'
    BY <2>2, AddPidQuiet, RemovePidQuiet, StopQuiet, StartQuiet, OthersQuiet DEF Call
  <2>. QED
    BY <2>1, <2>2, IInvNext DEF Next
<1>3. IInv /\ QuietInv => DeviceInv
  <2>. SUFFICES ASSUME IInv, QuietInv PROVE DeviceInv
    OBVIOUS
  <2>1. StoppedIsQuiet
    BY DEF QuietInv, StoppedIsQuiet, Holders, Holds, Slot
  <2>. QED
    BY <2>1, IInvSays DEF DeviceInv
<1>. QED
  BY <1>1, <1>2, <1>3, PTL DEF Spec

-----------------------------------------------------------------------------
(* A step that neither closes, opens nor moves a filter that a slot has.   *)
LEMMA FiltersStay ==
  ASSUME FiltersKept, UNCHANGED forgotten,
         \A f \in Fds : filter'[f].state = "closed" <=> filter[f].state = "closed",
         \A d \in Contexts, t \in Streams :
           /\ Holds(d, t)' <=> Holds(d, t)
           /\ Holds(d, t) => ctx'[d].streams[t].fid = ctx[d].streams[t].fid
  PROVE  FiltersKept'
<1>1. ASSUME NEW f \in Fds
      PROVE  (filter'[f].state # "closed") <=>
               \/ f \in forgotten'
               \/ \E c \in Contexts, s \in Streams :
                    Holds(c, s)' /\ ctx'[c].streams[s].fid = f
  BY DEF FiltersKept
<1>2. \A c \in Contexts, s \in Streams :
        Holds(c, s)' => ctx'[c].streams[s].fid \notin forgotten'
  BY DEF FiltersKept
<1>. QED
  BY <1>1, <1>2 DEF FiltersKept

(* add_pid opens one filter, for a slot that had none.                     *)
LEMMA AddPidFilters ==
  ASSUME IInv, FiltersKept, NEW a \in Apps, NEW c \in Contexts, NEW p \in Pids,
         AddPid(a, c, p)
  PROVE  FiltersKept'
<1>1. AddPidDoes(c, p) /\ UNCHANGED forgotten
  BY AddPidTakes
<1>2. PICK s0 \in Streams, slot \in SlotType : AddPidDoes(c, p)!(s0, slot)
  BY <1>1 DEF AddPidDoes
<1>3. ~ Holds(c, s0)
  BY <1>2 DEF IInv, TableInv, NoPidNoFilter
<1>4. \A d \in Contexts, t \in Streams :
        IF d = c /\ t = s0 THEN Holds(d, t)' <=> slot.fid # None
        ELSE /\ Holds(d, t)' <=> Holds(d, t)
             /\ ctx'[d].streams[t] = ctx[d].streams[t]
  BY <1>2 DEF Holds
<1>5. CASE slot.fid = None /\ filter' = filter
  BY <1>1, <1>3, <1>4, <1>5, FiltersStay
<1>6. ASSUME NEW f0 \in Fds, NEW fl \in FilterType,
             slot.fid = f0, filter[f0].state = "closed",
             fl.state = IF slot.isStart THEN "running" ELSE "open",
             filter' = [filter EXCEPT ![f0] = fl]
      PROVE  FiltersKept'
  <2>1. /\ filter'[f0].state # "closed" /\ f0 \notin forgotten
        /\ \A f \in Fds : f # f0 => filter'[f] = filter[f]
    BY <1>6 DEF IInv, Types, FiltersKept
  <2>2. Holds(c, s0)' /\ ctx'[c].streams[s0].fid = f0
    BY <1>2, <1>4, <1>6, NoneAssumption
  <2>3. ASSUME NEW f \in Fds
        PROVE  (filter'[f].state # "closed") <=>
                 \/ f \in forgotten'
                 \/ \E d \in Contexts, t \in Streams :
                      Holds(d, t)' /\ ctx'[d].streams[t].fid = f
    <3>1. CASE f = f0
      BY <2>1, <2>2, <3>1
    <3>2. CASE f # f0
      <4>1. \A d \in Contexts, t \in Streams :
              (Holds(d, t)' /\ ctx'[d].streams[t].fid = f) <=>
              (Holds(d, t) /\ ctx[d].streams[t].fid = f)
        BY <1>3, <1>4, <2>2, <3>2
      <4>. QED
        BY <1>1, <2>1, <3>2, <4>1 DEF FiltersKept
    <3>. QED
      BY <3>1, <3>2
  <2>4. \A d \in Contexts, t \in Streams :
          Holds(d, t)' => ctx'[d].streams[t].fid \notin forgotten'
    BY <1>1, <1>4, <2>1, <2>2 DEF FiltersKept
  <2>. QED
    BY <2>3, <2>4 DEF FiltersKept
<1>. QED
  BY <1>2, <1>5, <1>6

(* The filters of the slots that are emptied are closed, no other one is.  *)
LEMMA EmptyFilters ==
  ASSUME IInv, FiltersKept, NEW c \in Contexts, NEW slots \in SUBSET Streams,
         ctx[c].state # "CLOSED", ctx'[c].state # "CLOSED", UNCHANGED forgotten,
         \A d \in Contexts : d # c => ctx'[d] = ctx[d],
         ctx'[c].streams = Emptied(c, slots), filter' = Shut(c, slots)
  PROVE  FiltersKept'
<1>1. ASSUME NEW d \in Contexts, NEW t \in Streams
      PROVE  IF d = c /\ t \in slots THEN ~ Holds(d, t)'
             ELSE /\ Holds(d, t)' <=> Holds(d, t)
                  /\ ctx'[d].streams[t] = ctx[d].streams[t]
  BY DEF Holds, Emptied, Unused
<1>2. ASSUME NEW f \in Fds
      PROVE  (filter'[f].state # "closed") <=>
               \/ f \in forgotten'
               \/ \E d \in Contexts, t \in Streams :
                    Holds(d, t)' /\ ctx'[d].streams[t].fid = f
  <2>1. CASE \E s \in slots : ctx[c].streams[s].fid = f
    <3>1. PICK s \in slots : ctx[c].streams[s].fid = f
      BY <2>1
    <3>2. Holds(c, s)
      BY <3>1, NoneAssumption DEF Holds
    <3>3. filter'[f].state = "closed" /\ f \notin forgotten'
      BY <2>1, <3>1, <3>2 DEF Shut, ClosedFilter, FiltersKept
    <3>4. ASSUME NEW d \in Contexts, NEW t \in Streams, Holds(d, t)',
                 ctx'[d].streams[t].fid = f
          PROVE  FALSE
      <4>1. Holds(d, t) /\ ctx[d].streams[t].fid = f /\ ~ (d = c /\ t \in slots)
        BY <1>1, <3>4
      <4>. QED
        BY <3>1, <3>2, <4>1 DEF IInv, TableInv, NotShared
    <3>. QED
      BY <3>3, <3>4
  <2>2. CASE ~ \E s \in slots : ctx[c].streams[s].fid = f
    <3>1. filter'[f] = filter[f]
      BY <2>2 DEF Shut
    <3>2. \A d \in Contexts, t \in Streams :
            (Holds(d, t)' /\ ctx'[d].streams[t].fid = f) <=>
            (Holds(d, t) /\ ctx[d].streams[t].fid = f)
      BY <1>1, <2>2
    <3>. QED
      BY <3>1, <3>2 DEF FiltersKept
  <2>. QED
    BY <2>1, <2>2
<1>3. \A d \in Contexts, t \in Streams :
        Holds(d, t)' => ctx'[d].streams[t].fid \notin forgotten'
  BY <1>1 DEF FiltersKept
<1>. QED
  BY <1>2, <1>3 DEF FiltersKept

(* remove_pid closes the filter of its slot.                               *)
LEMMA RemovePidFilters ==
  ASSUME IInv, FiltersKept, NEW a \in Apps, NEW c \in Contexts, NEW p \in Pids,
         RemovePid(a, c, p)
  PROVE  FiltersKept'
<1>. DEFINE slots == {Least(SlotsOf(c, p))}
            streams == Emptied(c, slots)
<1>1. slots \in SUBSET Streams
  BY LeastOf DEF RemovePid, SlotsOf
<1>2. /\ ctx' = [ctx EXCEPT ![c] = [ctx[c] EXCEPT !.streams = streams]]
      /\ ctx[c].state # "CLOSED" /\ filter' = Shut(c, slots) /\ UNCHANGED forgotten
  BY DEF RemovePid, Set
<1>. HIDE DEF slots, streams
<1>3. /\ ctx'[c].streams = streams /\ ctx'[c].state = ctx[c].state
      /\ \A d \in Contexts : d # c => ctx'[d] = ctx[d]
  BY <1>2 DEF IInv, Types, ContextType
<1>. QED
  BY <1>1, <1>2, <1>3, EmptyFilters DEF streams

(* stop closes the filters of the slots that it has stopped.               *)
LEMMA StopFilters ==
  ASSUME IInv, FiltersKept, NEW a \in Apps, NEW c \in Contexts, Stop(a, c)
  PROVE  FiltersKept'
<1>1. PICK done \in Done(Started(c), "stop") :
        /\ ctx[c].state = "STARTED"
        /\ ctx' = [ctx EXCEPT ![c] = [ctx[c] EXCEPT !.streams = Emptied(c, done),
                                                   !.state = StopState(c, done)]]
        /\ filter' = Shut(c, done) /\ UNCHANGED forgotten
  BY DEF Stop, Set
<1>2. done \in SUBSET Streams /\ StopState(c, done) # "CLOSED"
  BY DEF Done, Started, StopState
<1>3. /\ ctx'[c].streams = Emptied(c, done) /\ ctx'[c].state = StopState(c, done)
      /\ \A d \in Contexts : d # c => ctx'[d] = ctx[d]
  BY <1>1 DEF IInv, Types, ContextType
<1>. QED
  BY <1>1, <1>2, <1>3, EmptyFilters

(* start runs filters that are open.                                       *)
LEMMA StartFilters ==
  ASSUME IInv, FiltersKept, NEW a \in Apps, NEW c \in Contexts, Start(a, c)
  PROVE  FiltersKept'
<1>1. StartDoes(c) /\ UNCHANGED forgotten
  BY StartMarks
<1>2. PICK done \in SUBSET Startable(c) : StartDoes(c)!(done)
  BY <1>1 DEF StartDoes
<1>3. \A d \in Contexts, t \in Streams :
        /\ Holds(d, t)' <=> Holds(d, t)
        /\ ctx'[d].streams[t].fid = ctx[d].streams[t].fid
  BY <1>2 DEF Holds
<1>4. ASSUME NEW f \in Fds
      PROVE  filter'[f].state = "closed" <=> filter[f].state = "closed"
  <2>1. CASE \E s \in done : ctx[c].streams[s].fid = f
    <3>1. PICK s \in done : ctx[c].streams[s].fid = f
      BY <2>1
    <3>2. s \in Streams /\ Holds(c, s)
      BY <1>2, <3>1, NoneAssumption DEF Startable, Holds
    <3>3. filter[f].state # "closed"
      BY <3>1, <3>2, HeldIsOpen DEF IInv
    <3>4. filter'[f].state = "running"
      BY <1>2, <2>1
    <3>. QED
      BY <3>3, <3>4
  <2>2. CASE ~ \E s \in done : ctx[c].streams[s].fid = f
    BY <1>2, <2>2
  <2>. QED
    BY <2>1, <2>2
<1>. QED
  BY <1>1, <1>3, <1>4, FiltersStay

(* close leaves the filters of its device open, and forgets them.          *)
LEMMA CloseFilters ==
  ASSUME IInv, FiltersKept, NEW a \in Apps, CloseDone(a)
  PROVE  FiltersKept'
<1>. DEFINE c == pc[a].on
            left == {ctx[c].streams[s].fid : s \in Streams} \ {None}
<1>1. c \in Contexts /\ ctx[c].state # "CLOSED"
  BY CallFields DEF CloseDone, IInv, CallsHold, In
<1>2. /\ ctx' = [ctx EXCEPT ![c] = Closed(c)]
      /\ forgotten' = forgotten \cup left /\ UNCHANGED filter
  BY DEF CloseDone, Set
<1>3. \A f : f \in left <=> f # None /\ \E s \in Streams : ctx[c].streams[s].fid = f
  OBVIOUS
<1>. HIDE DEF c, left
<1>4. ctx'[c].state = "CLOSED" /\ \A d \in Contexts : d # c => ctx'[d] = ctx[d]
  BY <1>1, <1>2 DEF IInv, Types, ContextType, Closed
<1>5. \A d \in Contexts, t \in Streams :
        IF d = c THEN ~ Holds(d, t)'
        ELSE (Holds(d, t)' <=> Holds(d, t)) /\ ctx'[d] = ctx[d]
  BY <1>4 DEF Holds
<1>6. \A f \in Fds : f \in left <=> \E s \in Streams :
                                       Holds(c, s) /\ ctx[c].streams[s].fid = f
  BY <1>1, <1>3, NoneAssumption DEF Holds
<1>7. ASSUME NEW f \in Fds
      PROVE  (filter'[f].state # "closed") <=>
               \/ f \in forgotten'
               \/ \E d \in Contexts, t \in Streams :
                    Holds(d, t)' /\ ctx'[d].streams[t].fid = f
  <2>1. (filter'[f].state # "closed") <=>
          \/ f \in forgotten
          \/ \E d \in Contexts, t \in Streams : Holds(d, t) /\ ctx[d].streams[t].fid = f
    BY <1>2 DEF FiltersKept
  <2>2. (\E d \in Contexts, t \in Streams : Holds(d, t) /\ ctx[d].streams[t].fid = f) <=>
          \/ f \in left
          \/ \E d \in Contexts, t \in Streams :
               Holds(d, t)' /\ ctx'[d].streams[t].fid = f
    BY <1>1, <1>5, <1>6
  <2>. QED
    BY <1>2, <2>1, <2>2
<1>8. ASSUME NEW d \in Contexts, NEW t \in Streams, Holds(d, t)'
      PROVE  ctx'[d].streams[t].fid \notin forgotten'
  <2>1. d # c /\ Holds(d, t) /\ ctx'[d] = ctx[d]
    BY <1>5, <1>8
  <2>2. ctx[d].streams[t].fid \in Fds /\ ctx[d].streams[t].fid \notin forgotten
    BY <2>1, HeldIsOpen DEF IInv, FiltersKept
  <2>3. ctx[d].streams[t].fid \notin left
    BY <1>1, <1>6, <2>1, <2>2 DEF IInv, TableInv, NotShared
  <2>. QED
    BY <1>2, <2>1, <2>2, <2>3
<1>. QED
  BY <1>7, <1>8 DEF FiltersKept

(* The calls that open and close no filter; an open finds its context still*)
(* closed, with no slot that holds one.                                    *)
LEMMA OthersFilters ==
  ASSUME IInv, FiltersKept, FreshOpens, NEW a \in Apps,
         \/ OpenFind(a) \/ OpenTake(a) \/ SecureDone(a)
         \/ \E c \in Contexts : SecureLook(a, c) \/ CloseLook(a, c)
  PROVE  FiltersKept'
<1>1. UNCHANGED <<filter, forgotten>>
  BY DEF OpenFind, OpenTake, SecureDone, SecureLook, CloseLook
<1>2. CASE OpenTake(a)
  <2>. DEFINE c == pc[a].on
  <2>1. c \in Contexts /\ ctx[c].state = "CLOSED"
    BY <1>2, CallFields DEF OpenTake, IInv, FreshOpens
  <2>2. OpenedEmpty(c)
    BY <1>2, OpenTakeEmpties
  <2>. HIDE DEF c
  <2>3. \A d \in Contexts, t \in Streams :
          /\ Holds(d, t)' <=> Holds(d, t)
          /\ Holds(d, t) => ctx'[d].streams[t].fid = ctx[d].streams[t].fid
    BY <2>1, <2>2 DEF Holds, OpenedEmpty
  <2>. QED
    BY <1>1, <2>3, FiltersStay
<1>3. CASE \/ OpenFind(a) \/ SecureDone(a)
           \/ \E c \in Contexts : SecureLook(a, c) \/ CloseLook(a, c)
  <2>1. \A d \in Contexts : /\ ctx'[d].streams = ctx[d].streams
                            /\ ctx'[d].state = ctx[d].state
    BY <1>3, SlotsStay
  <2>. QED
    BY <1>1, <2>1, FiltersStay DEF Holds
<1>. QED
  BY <1>2, <1>3

(* Every call keeps account of the filters, if no open takes a context that*)
(* is open already.                                                        *)
LEMMA FiltersNext == IInv /\ FiltersKept /\ FreshOpens /\ [Next]_vars => FiltersKept'
<1>1. ASSUME IInv, FiltersKept, FreshOpens, NEW a \in Apps, Call(a)
      PROVE  FiltersKept'
  BY <1>1, AddPidFilters, RemovePidFilters, StartFilters, StopFilters, CloseFilters,
     OthersFilters DEF Call
<1>2. CASE UNCHANGED vars
  BY <1>2 DEF vars, FiltersKept, Holds
<1>. QED
  BY <1>1, <1>2 DEF Next

(* At first all filters are closed.                                        *)
LEMMA FiltersInit == Init => FiltersKept
BY DEF Init, FiltersKept, Holds, ClosedFilter

(* The account says that no filter is lost.                                *)
LEMMA FiltersSay == IInv /\ FiltersKept => NothingLost
<1>. SUFFICES ASSUME IInv, FiltersKept PROVE NothingLost
  OBVIOUS
<1>1. ASSUME NEW f
      PROVE  f \in {Slot(h).fid : h \in Holders} <=>
               \E c \in Contexts, s \in Streams : Holds(c, s) /\ ctx[c].streams[s].fid = f
  <2>1. ASSUME NEW h \in Holders
        PROVE  h[1] \in Contexts /\ h[2] \in Streams /\ Holds(h[1], h[2])
    BY DEF Holders, Holds
  <2>2. ASSUME NEW c \in Contexts, NEW s \in Streams, Holds(c, s)
        PROVE  <<c, s>> \in Holders /\ Slot(<<c, s>>) = ctx[c].streams[s]
    BY <2>2 DEF Holders, Holds, Slot
  <2>. QED
    BY <2>1, <2>2 DEF Slot
<1>2. \A c \in Contexts, s \in Streams : Holds(c, s) => ctx[c].streams[s].fid \in Fds
  BY HeldIsOpen DEF IInv
<1>3. forgotten \subseteq Fds
  BY DEF IInv, Types
<1>. QED
  BY <1>1, <1>2, <1>3 DEF NothingLost, FiltersKept

(* As long as no open takes a context that another one has taken since it  *)
(* was chosen, no filter is lost, however many threads there are: those    *)
(* that are open are those in the tables and those of the closed devices.  *)
THEOREM NoFilterLost == Spec /\ [][FreshOpens]_vars => []NothingLost
<1>1. Init => IInv /\ FiltersKept
  BY IInvInit, FiltersInit
<1>2. IInv /\ FiltersKept /\ [Next]_vars /\ [FreshOpens]_vars => IInv' /\ FiltersKept'
  <2>1. CASE UNCHANGED vars
    BY <2>1, IInvNext DEF vars, FiltersKept, Holds
  <2>2. CASE FreshOpens
    BY <2>2, IInvNext, FiltersNext
  <2>. QED
    BY <2>1, <2>2
<1>. QED
  BY <1>1, <1>2, FiltersSay, PTL DEF Spec

(* One caller opens only contexts that are closed.                         *)
LEMMA LoneOpens ==
  ASSUME OneCaller
  PROVE  Spec => [](IInv /\ OpensClosed)
<1>1. Init => OpensClosed
  BY DEF Init, OpensClosed, In
<1>2. IInv /\ OpensClosed /\ [Next]_vars => OpensClosed'
  <2>1. CASE UNCHANGED vars
    BY <2>1 DEF vars, OpensClosed, In
  <2>2. ASSUME IInv, NEW a \in Apps, Call(a) PROVE OpensClosed'
    <3>1. SUFFICES ASSUME In(a, "open")' PROVE ctx'[pc'[a].on].state = "CLOSED"
      BY DEF OneCaller, OpensClosed
    <3>2. CASE OpenFind(a)
      <4>. DEFINE closed == {c \in Contexts : ctx[c].state = "CLOSED"}
      <4>1. Least(closed) \in closed
        BY <3>2, LeastOf DEF OpenFind
      <4>2. pc'[a].on = Least(closed) /\ UNCHANGED ctx
        BY <2>2, <3>2 DEF OpenFind, IInv, Types
      <4>. QED
        BY <4>1, <4>2
    <3>3. CASE OpenTake(a) \/ SecureDone(a) \/ CloseDone(a)
      <4>1. pc' = [pc EXCEPT ![a] = None]
        BY <3>3 DEF OpenTake, SecureDone, CloseDone
      <4>2. pc'[a] = None
        BY <2>2, <4>1 DEF IInv, Types
      <4>. QED
        BY <3>1, <4>2 DEF In
    <3>4. ASSUME NEW c \in Contexts, SecureLook(a, c) \/ CloseLook(a, c) PROVE FALSE
      <4>1. CASE CloseLook(a, c)
        <5>1. PICK last : pc' = [pc EXCEPT ![a] = [call |-> "close", on |-> c,
                                                  last |-> last]]
          BY <4>1 DEF CloseLook
        <5>. QED
          BY <2>2, <3>1, <5>1 DEF In, IInv, Types
      <4>2. CASE SecureLook(a, c)
        <5>1. PICK buf : pc' = [pc EXCEPT ![a] = [call |-> "secure", on |-> c,
                                                 buf |-> buf]]
          BY <4>2 DEF SecureLook
        <5>. QED
          BY <2>2, <3>1, <5>1 DEF In, IInv, Types
      <4>. QED
        BY <3>4, <4>1, <4>2
    <3>5. ASSUME NEW c \in Contexts,
                 \/ Start(a, c) \/ Stop(a, c)
                 \/ \E p \in Pids : AddPid(a, c, p) \/ RemovePid(a, c, p)
          PROVE  FALSE
      <4>1. pc' = pc /\ pc[a] = None
        BY <3>5 DEF Start, Stop, AddPid, RemovePid, Free
      <4>. QED
        BY <3>1, <4>1 DEF In
    <3>. QED
      BY <2>2, <3>2, <3>3, <3>4, <3>5 DEF Call
  <2>. QED
    BY <2>1, <2>2 DEF Next
<1>. QED
  BY <1>1, <1>2, IInvInit, IInvNext, PTL DEF Spec

(* With one caller no filter is ever lost.                                 *)
THEOREM LoneKeepsFilters ==
  ASSUME OneCaller
  PROVE  Spec => []NothingLost
<1>1. Spec => [](IInv /\ OpensClosed)
  BY LoneOpens
<1>2. OpensClosed => FreshOpens
  BY DEF OpensClosed, FreshOpens, OpenTake, In
<1>. QED
  BY <1>1, <1>2, NoFilterLost, PTL

-----------------------------------------------------------------------------
(* A call that neither gives nor takes buffers.                            *)
LEMMA BuffersStay ==
  ASSUME OneCaller, BuffersKept, NEW a \in Apps, UNCHANGED allocated,
         ~ In(a, "secure"), ~ In(a, "secure")', ~ In(a, "close")',
         \A d \in Contexts : ctx'[d].buf = ctx[d].buf
  PROVE  BuffersKept'
<1>1. \A b \in Apps : b = a
  BY DEF OneCaller
<1>2. \A d \in Contexts : ctx'[d].buf # None => ctx'[d].buf \in allocated'
  BY DEF BuffersKept
<1>3. \A f \in allocated' : \E d \in Contexts : ctx'[d].buf = f
  BY <1>1 DEF BuffersKept
<1>. QED
  BY <1>1, <1>2, <1>3 DEF BuffersKept

(* The calls that change the table of a device leave the buffers alone.    *)
LEMMA TableBuffers ==
  ASSUME OneCaller, IInv, BuffersKept, NEW a \in Apps, NEW c \in Contexts,
         \/ Start(a, c) \/ Stop(a, c)
         \/ \E p \in Pids : AddPid(a, c, p) \/ RemovePid(a, c, p)
  PROVE  BuffersKept'
<1>1. pc[a] = None /\ UNCHANGED <<pc, allocated>>
  BY DEF Start, Stop, AddPid, RemovePid, Free
<1>2. \A d \in Contexts : ctx'[d].buf = ctx[d].buf
  <2>1. CASE Start(a, c)
    BY <2>1, StartMarks
  <2>2. CASE \E p \in Pids : AddPid(a, c, p)
    BY <2>2, AddPidTakes
  <2>3. CASE Stop(a, c)
    <3>1. \E streams, state : ctx' = [ctx EXCEPT ![c] = [ctx[c] EXCEPT !.streams = streams,
                                                                       !.state = state]]
      BY <2>3 DEF Stop, Set
    <3>. QED
      BY <3>1 DEF IInv, Types, ContextType
  <2>4. CASE \E p \in Pids : RemovePid(a, c, p)
    <3>1. \E streams : ctx' = [ctx EXCEPT ![c] = [ctx[c] EXCEPT !.streams = streams]]
      BY <2>4 DEF RemovePid, Set
    <3>. QED
      BY <3>1 DEF IInv, Types, ContextType
  <2>. QED
    BY <2>1, <2>2, <2>3, <2>4
<1>. QED
  BY <1>1, <1>2, BuffersStay DEF In

(* An open chooses a context, and finds it closed, without a buffer.       *)
LEMMA OpenBuffers ==
  ASSUME OneCaller, IInv, FreshOpens, BuffersKept, NEW a \in Apps,
         OpenFind(a) \/ OpenTake(a)
  PROVE  BuffersKept'
<1>1. CASE OpenFind(a)
  <2>1. pc[a] = None /\ pc'[a].call = "open" /\ UNCHANGED <<ctx, allocated>>
    BY <1>1 DEF OpenFind, IInv, Types
  <2>. QED
    BY <2>1, BuffersStay DEF In
<1>2. CASE OpenTake(a)
  <2>1. pc' = [pc EXCEPT ![a] = None] /\ pc[a].call = "open" /\ UNCHANGED allocated
    BY <1>2 DEF OpenTake
  <2>2. pc'[a] = None
    BY <2>1 DEF IInv, Types
  <2>. DEFINE c == pc[a].on
  <2>3. c \in Contexts /\ ctx[c].buf = None
    BY <1>2, CallFields DEF OpenTake, IInv, FreshOpens, ClosedIsBare
  <2>4. OpenedEmpty(c)
    BY <1>2, OpenTakeEmpties
  <2>. HIDE DEF c
  <2>5. \A d \in Contexts : ctx'[d].buf = ctx[d].buf
    BY <2>3, <2>4 DEF OpenedEmpty
  <2>. QED
    BY <2>1, <2>2, <2>5, BuffersStay DEF In
<1>. QED
  BY <1>1, <1>2

(* set_secure_buffer finds the buffer of its sid, or allocates it.         *)
LEMMA SecureLookBuffers ==
  ASSUME OneCaller, IInv, BuffersKept, NEW a \in Apps, NEW c \in Contexts,
         SecureLook(a, c)
  PROVE  BuffersKept'
<1>1. \A b \in Apps : b = a
  BY DEF OneCaller
<1>2. /\ ctx[c].state # "CLOSED" /\ pc[a] = None
      /\ ctx' = [ctx EXCEPT ![c] = [ctx[c] EXCEPT !.output = TRUE]]
  BY DEF SecureLook, Set, Free
<1>3. \A d \in Contexts : ctx'[d].buf = ctx[d].buf
  BY <1>2 DEF IInv, Types, ContextType
<1>4. ctx[c].buf \in {Sid(c), None} /\ Sid(c) \in Sids
  BY <1>2 DEF IInv, ClosedIsBare, Types, ContextType, Sid, Sids
<1>5. PICK buf :
        /\ pc' = [pc EXCEPT ![a] = [call |-> "secure", on |-> c, buf |-> buf]]
        /\ \/ buf = Sid(c) /\ buf \in allocated /\ UNCHANGED allocated
           \/ buf = Sid(c) /\ allocated' = allocated \cup {buf}
           \/ buf = ctx[c].buf /\ UNCHANGED allocated
  <2>1. CASE SharedWith(c) # {}
    <3>. DEFINE d == Least(SharedWith(c))
    <3>1. d \in SharedWith(c)
      BY <2>1, LeastOf DEF SharedWith
    <3>. HIDE DEF d
    <3>2. ctx[d].buf = Sid(c) /\ ctx[d].buf \in allocated
      BY <3>1 DEF SharedWith, IInv, ClosedIsBare, BuffersKept
    <3>3. /\ pc' = [pc EXCEPT ![a] = [call |-> "secure", on |-> c, buf |-> ctx[d].buf]]
          /\ UNCHANGED allocated
      BY <2>1 DEF SecureLook, d
    <3>. QED
      BY <3>2, <3>3
  <2>2. CASE SharedWith(c) = {}
    BY <2>2 DEF SecureLook
  <2>. QED
    BY <2>1, <2>2
<1>6. pc'[a] = [call |-> "secure", on |-> c, buf |-> buf]
  BY <1>5 DEF IInv, Types
<1>7. In(a, "secure")' /\ ~ In(a, "close")' /\ pc'[a].on = c /\ pc'[a].buf = buf
  <2>1. pc'[a] # None
    <3>1. pc'[a] \in Calls \cup {None}
      BY SecureLookKeeps DEF IInv, Types
    <3>2. pc'[a] \in [call : {"secure"}, on : Contexts, buf : Sids \cup {None}]
      BY <1>4, <1>5, <1>6
    <3>. QED
      BY <3>2, NoneAssumption DEF Calls, Sids
  <2>. QED
    BY <1>6, <2>1 DEF In
<1>8. \A d \in Contexts : ctx'[d].buf # None => ctx'[d].buf \in allocated'
  BY <1>3, <1>5 DEF BuffersKept
<1>9. /\ buf # None => buf \in allocated'
      /\ ctx'[c].buf # None => buf = ctx'[c].buf
  BY <1>3, <1>4, <1>5 DEF BuffersKept
<1>10. \A f \in allocated' : buf = f \/ \E d \in Contexts : ctx'[d].buf = f
  <2>1. \A f \in allocated : \E d \in Contexts : ctx[d].buf = f
    BY <1>1, <1>2 DEF BuffersKept, In
  <2>. QED
    BY <1>3, <1>5, <2>1
<1>. QED
  BY <1>1, <1>7, <1>8, <1>9, <1>10 DEF BuffersKept

(* ... and stores it: the buffer it had, if any, is the same.              *)
LEMMA SecureDoneBuffers ==
  ASSUME OneCaller, IInv, BuffersKept, NEW a \in Apps, SecureDone(a)
  PROVE  BuffersKept'
<1>. DEFINE c == pc[a].on
            buf == pc[a].buf
<1>1. \A b \in Apps : b = a
  BY DEF OneCaller
<1>2. /\ c \in Contexts /\ In(a, "secure")
      /\ ctx' = [ctx EXCEPT ![c] = [ctx[c] EXCEPT !.buf = buf]]
      /\ pc' = [pc EXCEPT ![a] = None] /\ UNCHANGED allocated
  BY CallFields DEF SecureDone, Set, In, IInv
<1>3. /\ buf # None => buf \in allocated
      /\ ctx[c].buf # None => buf = ctx[c].buf
  BY <1>2 DEF BuffersKept
<1>4. \A f \in allocated : buf = f \/ \E d \in Contexts : ctx[d].buf = f
  BY <1>1 DEF BuffersKept
<1>. HIDE DEF c, buf
<1>5. ctx'[c].buf = buf /\ \A d \in Contexts : d # c => ctx'[d].buf = ctx[d].buf
  BY <1>2 DEF IInv, Types, ContextType
<1>6. pc'[a] = None
  BY <1>2 DEF IInv, Types
<1>7. None \notin allocated
  BY NoneAssumption DEF IInv, Types, Sids
<1>8. \A d \in Contexts : ctx'[d].buf # None => ctx'[d].buf \in allocated'
  BY <1>2, <1>3, <1>5 DEF BuffersKept
<1>9. \A f \in allocated' : \E d \in Contexts : ctx'[d].buf = f
  BY <1>2, <1>3, <1>4, <1>5, <1>7
<1>. QED
  BY <1>1, <1>6, <1>8, <1>9 DEF BuffersKept, In

(* close looks whether its device is the last that has the buffer.         *)
LEMMA CloseLookBuffers ==
  ASSUME OneCaller, IInv, BuffersKept, NEW a \in Apps, NEW c \in Contexts,
         CloseLook(a, c)
  PROVE  BuffersKept'
<1>. DEFINE last == ctx[c].buf # None /\ LastUser(c)
<1>1. \A b \in Apps : b = a
  BY DEF OneCaller
<1>2. /\ pc[a] = None /\ UNCHANGED <<ctx, allocated>>
      /\ pc' = [pc EXCEPT ![a] = [call |-> "close", on |-> c, last |-> last]]
  BY DEF CloseLook, Free
<1>3. LastUser(c)' <=> LastUser(c)
  BY <1>2 DEF LastUser
<1>4. (last <=> ctx'[c].buf # None /\ LastUser(c)') /\ last \in BOOLEAN
  BY <1>2, <1>3
<1>. HIDE DEF last
<1>5. pc'[a] = [call |-> "close", on |-> c, last |-> last]
  BY <1>2 DEF IInv, Types
<1>6. ~ In(a, "secure")' /\ pc'[a].on = c /\ pc'[a].last = last
  BY <1>5 DEF In
<1>7. \A f \in allocated : \E d \in Contexts : ctx[d].buf = f
  BY <1>1, <1>2 DEF BuffersKept, In
<1>8. \A d \in Contexts : ctx'[d].buf # None => ctx'[d].buf \in allocated'
  BY <1>2 DEF BuffersKept
<1>9. \A b \in Apps : In(b, "close")' =>
        (pc'[b].last <=> ctx'[pc'[b].on].buf # None /\ LastUser(pc[b].on)')
  BY <1>1, <1>4, <1>6
<1>. QED
  BY <1>1, <1>2, <1>6, <1>7, <1>8, <1>9 DEF BuffersKept

(* ... and frees it if and only if it is.                                  *)
LEMMA CloseDoneBuffers ==
  ASSUME OneCaller, SidIsSource, IInv, BuffersKept, NEW a \in Apps, CloseDone(a)
  PROVE  BuffersKept'
<1>. DEFINE c == pc[a].on
            last == pc[a].last
<1>1. \A b \in Apps : b = a
  BY DEF OneCaller
<1>2. /\ c \in Contexts /\ In(a, "close") /\ ctx[c].state # "CLOSED"
      /\ ctx' = [ctx EXCEPT ![c] = Closed(c)]
      /\ pc' = [pc EXCEPT ![a] = None]
      /\ allocated' = IF last THEN allocated \ {ctx[c].fend} ELSE allocated
  BY CallFields DEF CloseDone, Set, In, IInv, CallsHold
<1>3. last <=> ctx[c].buf # None /\ LastUser(c)
  BY <1>2 DEF BuffersKept
<1>4. \A f \in allocated : \E d \in Contexts : ctx[d].buf = f
  BY <1>1, <1>2 DEF BuffersKept, In
<1>. HIDE DEF c, last
<1>5. ctx'[c].buf = None /\ \A d \in Contexts : d # c => ctx'[d].buf = ctx[d].buf
  BY <1>2 DEF IInv, Types, ContextType, Closed
<1>6. pc'[a] = None
  BY <1>2 DEF IInv, Types
<1>7. None \notin allocated /\ \A d \in Contexts : ctx[d].buf \in {ctx[d].fend, None}
  BY NoneAssumption DEF IInv, Types, ClosedIsBare, Sids, SidIsSource
<1>8. ASSUME NEW d \in Contexts, ctx'[d].buf # None
      PROVE  ctx'[d].buf \in allocated'
  <2>1. d # c /\ ctx'[d].buf = ctx[d].buf /\ ctx[d].buf \in allocated
    BY <1>5, <1>8 DEF BuffersKept
  <2>2. last => ctx[d].buf # ctx[c].fend
    BY <1>2, <1>3, <1>7, <1>8, <2>1 DEF LastUser
  <2>. QED
    BY <1>2, <2>1, <2>2
<1>9. ASSUME NEW f \in allocated'
      PROVE  \E d \in Contexts : ctx'[d].buf = f
  <2>1. f \in allocated
    BY <1>2
  <2>2. PICK d \in Contexts : ctx[d].buf = f
    BY <1>4, <2>1
  <2>3. CASE d # c
    BY <1>5, <2>2, <2>3
  <2>4. CASE d = c
    <3>1. ctx[c].buf = f /\ f # None /\ f = ctx[c].fend
      BY <1>7, <2>1, <2>2, <2>4
    <3>2. ~ last
      BY <1>2, <3>1
    <3>3. PICK e \in Contexts \ {c} : ctx[e].buf = ctx[c].buf
      BY <1>3, <3>1, <3>2 DEF LastUser
    <3>. QED
      BY <1>5, <3>1, <3>3
  <2>. QED
    BY <2>3, <2>4
<1>. QED
  BY <1>1, <1>6, <1>8, <1>9 DEF BuffersKept, In

(* With one caller a secure buffer lives exactly as long as some device    *)
(* has it, whatever the order in which the devices of a sid are closed, as *)
(* long as each device has the number of its frontend as its sid.          *)
THEOREM OwnSidKeepsBuffers ==
  ASSUME OneCaller
  PROVE  Spec /\ []SidIsSource => []BufferAsUsed
<1>1. Spec => [](IInv /\ OpensClosed)
  BY LoneOpens
<1>2. Init => BuffersKept
  BY DEF Init, BuffersKept, In
<1>3. IInv /\ OpensClosed /\ SidIsSource /\ BuffersKept /\ [Next]_vars => BuffersKept'
  <2>1. CASE UNCHANGED vars
    BY <2>1 DEF vars, BuffersKept, In, LastUser
  <2>2. OpensClosed => FreshOpens
    BY DEF OpensClosed, FreshOpens, OpenTake, In
  <2>3. ASSUME IInv, FreshOpens, SidIsSource, BuffersKept, NEW a \in Apps, Call(a)
        PROVE  BuffersKept'
    BY <2>3, TableBuffers, OpenBuffers, SecureLookBuffers, SecureDoneBuffers,
       CloseLookBuffers, CloseDoneBuffers DEF Call
  <2>. QED
    BY <2>1, <2>2, <2>3 DEF Next
<1>4. BuffersKept => BufferAsUsed
  BY DEF BuffersKept, BufferAsUsed, BufferAlive, BufferFreed, In
<1>. QED
  BY <1>1, <1>2, <1>3, <1>4, PTL DEF Spec

(* Where the driver does not clone the stream that is so for every device. *)
(* Where it does, set_secure_buffer shares by the demux and close frees by *)
(* the frontend, and the property fails.                                   *)
THEOREM LoneKeepsBuffers ==
  ASSUME OneCaller, Clone = FALSE
  PROVE  Spec => []BufferAsUsed
<1>1. SidIsSource
  BY DEF SidIsSource, Sid
<1>. QED
  BY <1>1, OwnSidKeepsBuffers, PTL
=============================================================================
