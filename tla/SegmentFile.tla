----------------------------- MODULE SegmentFile -----------------------------
(***************************************************************************)
(* The files of one recording over several sessions: a session writes its  *)
(* segments one after the other, may be killed between any two of its      *)
(* steps, and the next one starts over or appends.  segment.c keeps the    *)
(* files of a segment (.ts, .idx, .dat, .going) and the .dat file of the   *)
(* recording, dvr_segment.c the .list file, dvr_wrapper.c decides when and *)
(* reads them back for a playback.  A kill loses what is in memory; what   *)
(* was flushed to a file stays (the loss of power is not modelled, nor are *)
(* timeshift recordings, which WrapperTimeshift has).  The opening of the  *)
(* files and the device may fail; then the wrapper puts the segment in the *)
(* list all the same.  A .going file or a recording's .dat that alone      *)
(* cannot be opened, which segment_open ignores, and a write or a seek     *)
(* that fails are left out.  An application stops a recording whose start  *)
(* or switch failed before it starts it again.                             *)
(***************************************************************************)
EXTENDS Integers, Sequences, FiniteSets, FiniteSetsExt, SequencesExt

CONSTANTS MaxId,       \* bound: segment ids are 0 .. MaxId
          MaxSession,  \* bound: calls of dvr_wrapper_start_record
          MaxCrash,    \* bound: kills
          WipeCrash,   \* TRUE: also while the files are being deleted
          None

ASSUME BoundAssumption == MaxId \in Nat /\ MaxSession \in Nat /\ MaxCrash \in Nat
ASSUME FlagAssumption == WipeCrash \in BOOLEAN

Ids == 0 .. MaxId

\* An entry of the recording's .dat: the segment and the session it is of.
Entry == [id : Ids, by : Nat]

ASSUME NoneAssumption ==
  None \notin Nat /\ None \notin Seq(Ids) /\ None \notin Seq(Entry)

VARIABLES there,    \* per segment: which of its files exist
          dat,      \* per segment: the session whose info .dat has, or None
          wrote,    \* per segment: the session that created its .ts file
          all,      \* the recording's .dat: the entries of segments, or None
          list,     \* the recording's .list: segment ids, or None
          stats,    \* the recording's .stats: the segments counted, or None
          rec,      \* the recorder: the step it is at and its segment
          segments, \* the wrapper's list of the segments of this session
          session,  \* number of the session
          crashes,
          stranded, \* segments that were being written at a kill or an error
          unopened  \* segments whose files were not opened, listed or not

fileVars == <<there, dat, wrote, all, list, stats, rec, segments, session,
              crashes, stranded, unopened>>

files == <<there, dat, wrote, all, list, stats>>

At(step) == rec.at = step

Go(step) == rec' = [rec EXCEPT !.at = step]

FilesInit ==
  /\ there = [i \in Ids |-> {}]
  /\ dat = [i \in Ids |-> None] /\ wrote = [i \in Ids |-> None]
  /\ all = None /\ list = None /\ stats = None
  /\ rec = [at |-> "idle", id |-> 0]
  /\ segments = {} /\ session = 0 /\ crashes = 0
  /\ stranded = {} /\ unopened = {}

(***************************************************************************)
(* dvr_segment_get_list: what the .list file names, or else the .ts files  *)
(* there are, in the order of their numbers.                               *)
(***************************************************************************)
GetList ==
  IF list # None THEN ToSet(list) ELSE {i \in Ids : "ts" \in there[i]}

LastOfList == IF list # None THEN Last(list) ELSE Max(GetList)

LengthOfList == IF list # None THEN Len(list) ELSE Cardinality(GetList)

\* segment_open for reading.
Readable(i) == {"ts", "idx", "dat"} \subseteq there[i]

(***************************************************************************)
(* dvr_wrapper_start_record                                                *)
(***************************************************************************)
Begins == /\ At("idle") /\ session < MaxSession
          /\ session' = session + 1

\* save_rec_file 0: what is at the location is deleted first.
StartNew ==
  /\ Begins
  /\ rec' = [at |-> "wipe", id |-> 0]
  /\ UNCHANGED <<files, segments, crashes, stranded, unopened>>

\* save_rec_file 1: the new segment follows the last one of the list.
(* mutant: numbered by how many there are *)
NextIdCount == LengthOfList

NextId == IF GetList = {} THEN 0 ELSE LastOfList + 1

StartAppend ==
  /\ Begins
  /\ NextId \in Ids
  /\ rec' = [at |-> "ts", id |-> NextId]
  /\ UNCHANGED <<files, segments, crashes, stranded, unopened>>

\* dvr_segment_del_by_location: every file in the directory whose name
\* begins with that of the recording, in the order readdir gives them.
OwnFiles == {<<i, part>> : i \in Ids, part \in {"ts", "idx", "dat", "going"}}

WipeSegmentFile ==
  /\ At("wipe")
  /\ \E i \in Ids : \E part \in there[i] :
       there' = [there EXCEPT ![i] = @ \ {part}]
  /\ UNCHANGED <<dat, wrote, all, list, stats, rec, segments, session,
                 crashes, stranded, unopened>>

WipeRecordingFile ==
  /\ At("wipe")
  /\ \/ all # None /\ all' = None /\ UNCHANGED <<list, stats>>
     \/ list # None /\ list' = None /\ UNCHANGED <<all, stats>>
     \/ stats # None /\ stats' = None /\ UNCHANGED <<all, list>>
  /\ UNCHANGED <<there, dat, wrote, rec, segments, session, crashes, stranded,
                 unopened>>

Wiped ==
  /\ At("wipe")
  /\ \A i \in Ids : there[i] = {}
  /\ all = None /\ list = None /\ stats = None
  /\ stranded' = {} /\ unopened' = {}
  /\ Go("ts")
  /\ UNCHANGED <<files, segments, session, crashes>>

(***************************************************************************)
(* segment_open for writing: .ts, .idx and .dat are truncated, the         *)
(* recording's .dat is opened to append, .going marks the segment.         *)
(***************************************************************************)
OpenTs ==
  /\ At("ts")
  /\ there' = [there EXCEPT ![rec.id] = @ \cup {"ts"}]
  /\ wrote' = [wrote EXCEPT ![rec.id] = session]
  /\ Go("open")
  /\ UNCHANGED <<dat, all, list, stats, segments, session, crashes, stranded,
                 unopened>>

Opened == {"ts", "idx", "dat", "going"}

OpenOthers ==
  /\ At("open")
  /\ there' = [there EXCEPT ![rec.id] = Opened]
  /\ dat' = [dat EXCEPT ![rec.id] = None]
  /\ all' = IF all = None THEN <<>> ELSE all
  /\ unopened' = unopened \ {rec.id}
  /\ Go("begin")
  /\ UNCHANGED <<wrote, list, stats, segments, session, crashes, stranded>>

\* ... or not all of .ts, .idx and .dat can be opened.  What was opened stays
\* behind, .going too.
OpenFails ==
  /\ At("ts")
  /\ \E some \in SUBSET Opened :
       /\ ~({"ts", "idx", "dat"} \subseteq some)
       /\ there' = [there EXCEPT ![rec.id] = @ \cup some]
       /\ wrote' = [wrote EXCEPT ![rec.id] = IF "ts" \in some THEN session ELSE @]
       /\ dat' = [dat EXCEPT ![rec.id] = IF "dat" \in some THEN None ELSE @]
  /\ all' = all \/ (all = None /\ all' = <<>>)
  /\ unopened' = unopened \cup {rec.id}
  /\ Go("unopened")
  /\ UNCHANGED <<list, stats, segments, session, crashes, stranded>>

\* segment_store_info, of the segment's pids and of what it has so far.
StoreBegin ==
  /\ At("begin")
  /\ dat' = [dat EXCEPT ![rec.id] = session]
  /\ Go("link")
  /\ UNCHANGED <<there, wrote, all, list, stats, segments, session,
                 crashes, stranded, unopened>>

\* Before it, a pid cannot be added or the device not started.
DeviceFails ==
  /\ At("begin")
  /\ Go("unstored")
  /\ UNCHANGED <<files, segments, session, crashes, stranded, unopened>>

\* wrapper_addRecordSegment and dvr_segment_link_op with SEGMENT_OP_ADD,
\* whether or not the segment was started.
LinkOf(i) == IF list = None THEN <<i>> ELSE Append(list, i)

Linked == LinkOf(rec.id)

LinkTo(step) ==
  /\ list' = Linked
  /\ segments' = segments \cup {rec.id}
  /\ Go(step)
  /\ UNCHANGED <<there, dat, wrote, all, stats, session, crashes, stranded, unopened>>

Link == \/ At("link") /\ LinkTo("run")
        \/ At("unstored") /\ LinkTo("half")
        \/ At("unopened") /\ LinkTo("failed")

\* record.next_segment_id: the session's segments count up.
NextOfSession == Max(segments) + 1

\* The pids change while the recording is paused, or after a start or a switch
\* that failed: dvr_record_next_segment refuses, and its segment is listed.
NextRefused ==
  /\ rec.at \in {"run", "half", "failed"}
  /\ NextOfSession \in Ids
  /\ list' = LinkOf(NextOfSession)
  /\ segments' = segments \cup {NextOfSession}
  /\ unopened' = unopened \cup {NextOfSession}
  /\ UNCHANGED <<there, dat, wrote, all, stats, rec, session, crashes, stranded>>

\* The segment is the first of the session, that dvr_record_start_segment began.
OfStart == \A i \in segments : rec.id <= i

\* The event task: wrapper_saveRecordStatistics of the segments it knows, also
\* when it has closed a recording whose switch failed.
SaveStatistics ==
  /\ At("run") \/ (rec.at \in {"half", "failed"} /\ ~OfStart)
  /\ stats' = segments
  /\ UNCHANGED <<there, dat, wrote, all, list, rec, segments, session,
                 crashes, stranded, unopened>>

(***************************************************************************)
(* The end of a segment, in dvr_record_next_segment and in                 *)
(* dvr_record_stop_segment: store_info, store_allInfo, close.              *)
(***************************************************************************)
\* A segment whose start failed is stopped like another; one whose switch
\* failed is in state STOPPED and cannot be.
StoreEnd ==
  /\ At("run") \/ (At("half") /\ OfStart)
  /\ \E next \in IF At("run") THEN {"next", "stop"} ELSE {"stop"} :
       rec' = [at |-> "all", id |-> rec.id, then |-> next]
  /\ dat' = [dat EXCEPT ![rec.id] = session]
  /\ UNCHANGED <<there, wrote, all, list, stats, segments, session,
                 crashes, stranded, unopened>>

\* dvr_record_stop_segment where the device does not stop: only close.
StopFails ==
  /\ At("run") \/ (At("half") /\ OfStart)
  /\ rec' = [at |-> "close", id |-> rec.id, then |-> "stop"]
  /\ stranded' = stranded \cup {rec.id}
  /\ UNCHANGED <<files, segments, session, crashes, unopened>>

WithEntry == Append(all, [id |-> rec.id, by |-> dat[rec.id]])

StoreAllInfo ==
  /\ At("all")
  /\ all' = WithEntry
  /\ Go("close")
  /\ UNCHANGED <<there, dat, wrote, list, stats, segments, session,
                 crashes, stranded, unopened>>

\* segment_close removes the mark.  The last event of a stopped recording
\* finds its segments forgotten: ctx_freeSegments.
Close ==
  /\ At("close")
  /\ rec.then = "next" => NextOfSession \in Ids
  /\ there' = [there EXCEPT ![rec.id] = @ \ {"going"}]
  /\ IF rec.then = "next"
     THEN rec' = [at |-> "ts", id |-> NextOfSession] /\ UNCHANGED segments
     ELSE rec' = [at |-> "idle", id |-> 0] /\ segments' = {}
  /\ UNCHANGED <<dat, wrote, all, list, stats, session, crashes, stranded, unopened>>

\* A recording whose start or switch failed is stopped or closed: there is no
\* segment to close, or its handle is forgotten with its mark left behind.
GiveUp ==
  /\ At("failed") \/ (At("half") /\ ~OfStart)
  /\ stranded' = IF At("half") THEN stranded \cup {rec.id} ELSE stranded
  /\ rec' = [at |-> "idle", id |-> 0]
  /\ segments' = {}
  /\ UNCHANGED <<files, session, crashes, unopened>>

\* The process is killed.
Crash ==
  /\ ~At("idle")
  /\ At("wipe") => WipeCrash
  /\ crashes < MaxCrash
  /\ crashes' = crashes + 1
  /\ rec' = [at |-> "idle", id |-> 0]
  /\ segments' = {}
  /\ stranded' = IF At("wipe") THEN stranded ELSE stranded \cup {rec.id}
  /\ UNCHANGED <<files, session, unopened>>

FilesNext ==
  \/ StartNew \/ StartAppend \/ Crash
  \/ WipeSegmentFile \/ WipeRecordingFile \/ Wiped
  \/ OpenTs \/ OpenOthers \/ OpenFails \/ StoreBegin \/ DeviceFails
  \/ Link \/ NextRefused \/ SaveStatistics
  \/ StoreEnd \/ StopFails \/ StoreAllInfo \/ Close \/ GiveUp

FilesSpec == FilesInit /\ [][FilesNext]_fileVars

(***************************************************************************)
(* What is read back, by dvr_wrapper_start_playback and (for the sums) by  *)
(* dvr_wrapper_segment_get_info_by_location.  Only a segment with an audio *)
(* or video pid is taken, which one with an empty .dat does not have.      *)
(***************************************************************************)
(* mutant: an empty .dat of the recording is taken for a good one *)
AllInfoFailsMissing == ~Readable(0) \/ all = None

\* dvr_segment_get_allInfo: by way of the files of segment 0.
AllInfoFails == ~Readable(0) \/ all = None \/ all = <<>>

Entries(i) == {k \in DOMAIN all : all[k].id = i}

\* Every segment by its own info; one that cannot be opened ends the loop.
LoadEach ==
  [ok |-> \A i \in GetList : Readable(i),
   from |-> [i \in {j \in GetList : dat[j] # None} |-> dat[i]],
   first |-> \E i \in GetList : dat[i] # None]

\* Every segment by its entry; one without is read by its own info if its id
\* is that of the last of a list that begins with 0.
(* mutant: a segment without an entry is left out *)
LoadAllOnly ==
  LET found == {i \in GetList : Entries(i) # {}}
  IN  [ok |-> TRUE,
       from |-> [i \in found |-> all[Min(Entries(i))].by],
       first |-> found # {}]

LoadAll ==
  LET ids == GetList
      found == {i \in ids : Entries(i) # {}}
      last == {i \in ids \ found : i = LengthOfList - 1}
  IN  [ok |-> \A i \in last : Readable(i),
       from |-> [i \in found \cup {j \in last : dat[j] # None} |->
                    IF i \in found THEN all[Min(Entries(i))].by ELSE dat[i]],
       first |-> found # {}]

Load == IF AllInfoFails THEN LoadEach ELSE LoadAll

\* dvr_wrapper_segment_get_info_by_location: the segments it sums up.
Counted == IF stats # None THEN stats ELSE DOMAIN Load.from

-----------------------------------------------------------------------------
\* The files of a segment and of the recording are what the sessions make
\* them.
FilesTypeOK ==
  /\ \A i \in Ids : /\ there[i] \subseteq {"ts", "idx", "dat", "going"}
                    /\ dat[i] \in 1 .. session \cup {None}
                    /\ wrote[i] \in 1 .. session \cup {None}
  /\ list # None => list \in Seq(Ids)
  /\ all # None => all \in Seq([id : Ids, by : 1 .. session])
  /\ segments \subseteq Ids /\ stranded \cup unopened \subseteq Ids

\* The segments a user has recorded: listed, begun, their data there.
Recorded == IF list = None THEN {}
            ELSE {i \in ToSet(list) \ unopened : Readable(i) /\ dat[i] # None}

\* While a recording is not being deleted, the playback of it starts as soon
\* as it has a segment, whenever the recorder was killed or stopped.  Only a
\* listed segment that was never opened stops it: any one while no segment
\* has ended or segment 0 is not there, else the last of a list from 0.
PlaybackStarts ==
  ~At("wipe") /\ Recorded # {} =>
    \/ Load.ok /\ Load.first
    \/ unopened \cap GetList # {} /\ AllInfoFails
    \/ LengthOfList - 1 \in unopened

\* The playback has every recorded segment, the one that was being written
\* when the recorder was killed too; only a segment that was interrupted, or
\* is still being written, and is followed by others may be missing.  (The
\* list of a recording that was appended to one killed before its first
\* segment was listed does not begin with 0, and its last segment is not
\* looked for.)
PlaybackHasAll ==
  ~At("wipe") /\ Recorded # {} /\ Head(list) = 0 =>
    \A i \in Recorded \ DOMAIN Load.from :
       (i \in stranded \/ (i = rec.id /\ ~At("idle"))) /\ i # Last(list)

\* The info the playback uses for a segment that was opened, its pids among
\* it, is of the session that wrote its data, not left over from an earlier
\* recording.
InfoIsOfData ==
  ~At("wipe") =>
    \A i \in DOMAIN Load.from \ unopened : Readable(i) => Load.from[i] = wrote[i]

\* What the sums of a recording count (from .stats, or else loaded) are
\* segments of its list, of this recording and not of a deleted one.
SumsAreOfList == ~At("wipe") => Counted \subseteq GetList

\* A recording that is appended to keeps the data of its segments.
AppendKeeps ==
  [][\A i \in Recorded : wrote'[i] = wrote[i]]_fileVars

\* The files of the segment are open.
Written == rec.at \in {"begin", "unstored", "link", "run", "half", "all", "close"}

\* The .going file marks the segment that is being written, and only it: a
\* player at the end of the data waits for more.  A kill leaves the mark, and
\* so do a failed open and the close of a session whose switch failed.
GoingIsWritten ==
  \A i \in Ids :
    /\ "going" \in there[i] => \/ rec.id = i /\ Written
                               \/ i \in stranded \cup unopened
                               \/ At("wipe")
    /\ rec.id = i /\ Written => "going" \in there[i]

\* What is on disk between two operations on it: a playback can start but for
\* a segment that was never opened, infos and marks belong to their data, the
\* list adds up.
FilesInv ==
  /\ FilesTypeOK
  /\ PlaybackStarts
  /\ InfoIsOfData
  /\ GoingIsWritten
  /\ SumsAreOfList
=============================================================================
