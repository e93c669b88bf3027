---------------------------- MODULE SegmentIndex ----------------------------
(***************************************************************************)
(* The time index of one segment (segment.c): the record thread appends    *)
(* data to the .ts file and lines to the .idx file, a player seeks and     *)
(* tells times by the lines that are there at that moment.  No lock is     *)
(* shared: every fputs of a line is flushed, so the reader sees a prefix   *)
(* of the lines.  Times and offsets are numbers.  A PCR may do whatever a  *)
(* broadcast does, stand still, jump, go back; the system clock only goes  *)
(* forward.                                                                *)
(***************************************************************************)
EXTENDS Integers, Sequences

CONSTANTS Pts,          \* the times the record thread may index
          BlockSizes,   \* sizes of the blocks it writes
          AlignSizes,   \* block_size of the player, 0 for no alignment
          Times,        \* times the player may seek to
          Interval,     \* PCR_RECORD_INTERVAL_MS
          Jump,         \* PCR_JUMP_DUR
          Threshold,    \* MAX_PTS_THRESHOLD
          MaxSize,      \* bound: size of the .ts file
          MaxUpdate,    \* bound: calls of segment_update_pts
          Unset         \* ULLONG_MAX

ASSUME NumbersAssumption ==
  /\ Pts \subseteq Nat /\ Times \subseteq Nat
  /\ BlockSizes \subseteq Nat \ {0} /\ AlignSizes \subseteq Nat
  /\ Interval \in Nat /\ Jump \in Nat \ {0} /\ Threshold \in Nat
  /\ MaxSize \in Nat /\ MaxUpdate \in Nat
ASSUME UnsetAssumption == Unset \notin Nat

VARIABLES sysclock,    \* force_sysclock
          first,       \* first_pts
          last,        \* last_pts
          lastRecord,  \* last_record_pts
          lastOffset,  \* last_offset
          curTime,     \* cur_time
          rate,        \* avg_rate, bytes of the first per time of the second
          index,       \* the lines of the .idx file
          size,        \* size of the .ts file
          from,        \* where its last block begins
          updates,     \* calls of segment_update_pts so far
          closed,      \* segment_close has been called
          position     \* the player's place in the .ts file

writer == <<sysclock, first, last, lastRecord, lastOffset, curTime, rate>>
vars == <<sysclock, first, last, lastRecord, lastOffset, curTime, rate,
          index, size, from, updates, closed, position>>

Line == [time : Nat, offset : Nat]

NoRate == <<0, 1>>

Init ==
  /\ sysclock \in BOOLEAN
  /\ first = Unset /\ last = Unset /\ lastRecord = Unset
  /\ lastOffset = 0 /\ curTime = 0 /\ rate = NoRate
  /\ index = <<>> /\ size = 0 /\ from = 0
  /\ updates = 0 /\ closed = FALSE
  /\ position = 0

(***************************************************************************)
(* The record thread: segment_write, then the pts of the block.            *)
(***************************************************************************)
Write(n) ==
  /\ ~closed
  /\ size + n <= MaxSize
  /\ from' = size
  /\ size' = size + n
  /\ UNCHANGED <<writer, index, updates, closed, position>>

\* pts goes on from the last one: no jump back, none that is too long.
Follows(pts) == pts >= last /\ pts - last <= Threshold

\* avg_rate as the comparison finds it: computed from the whole segment if
\* it is 0.0.  A second part of 0 stands for infinity or not a number.
RateAt(offset, diff) ==
  IF rate[1] = 0 /\ rate[2] # 0 THEN <<offset, curTime + diff>> ELSE rate

\* What cur_time advances by.  After a long jump with little data the time
\* is the one the data takes at the average rate; converting infinity or
\* not a number to int is undefined, and gives either branch, with 0.
Advance(offset, diff) ==
  LET r == RateAt(offset, diff)
      data == offset - lastOffset
  IN  IF diff < Jump THEN {diff}
      ELSE IF r[2] = 0 THEN {0, diff}
      ELSE IF r[1] # 0 /\ r[1] \div r[2] >= (4 * data) \div diff
           THEN {(data * r[2]) \div r[1]}
      ELSE {diff}

\* The values of cur_time after segment_update_pts(pts, offset).
(* mutant: a pts that goes back is subtracted *)
NewTimeBack(pts, offset) ==
  IF last = Unset THEN {0}
  ELSE IF sysclock THEN {pts - first}
  ELSE IF pts > last + Threshold THEN {curTime}
  ELSE {curTime + pts - last}

NewTime(pts, offset) ==
  IF last = Unset THEN {0}
  ELSE IF sysclock THEN {pts - first}
  ELSE IF Follows(pts) THEN {curTime + a : a \in Advance(offset, pts - last)}
  ELSE {curTime}

\* A jump of the pts restarts the interval between two lines.
Restarts(pts) == last # Unset /\ ~sysclock /\ ~Follows(pts)

Due(pts) ==
  \/ lastRecord = Unset
  \/ ~Restarts(pts) /\ pts - lastRecord > Interval

\* A PCR may be anything, the system clock does not go back.
Possible(pts) == IF sysclock /\ last # Unset THEN pts >= last ELSE TRUE

\* segment_update_pts; the offset is that of the PCR's packet in the last
\* block or the end of the block.
UpdatePts(pts, offset) ==
  /\ ~closed
  /\ updates < MaxUpdate
  /\ offset >= from /\ offset >= lastOffset /\ offset <= size
  /\ Possible(pts)
  /\ first' = IF first = Unset THEN pts ELSE first
  /\ \E t \in NewTime(pts, offset) :
       /\ curTime' = t
       /\ index' = IF Due(pts) THEN Append(index, [time |-> t, offset |-> offset])
                   ELSE index
       /\ rate' = IF Due(pts) /\ t > 0 THEN <<offset, t>>
                  ELSE IF last = Unset \/ sysclock \/ Restarts(pts) THEN rate
                  ELSE RateAt(offset, pts - last)
  /\ lastRecord' = IF Due(pts) \/ Restarts(pts) THEN pts ELSE lastRecord
  /\ last' = pts
  /\ lastOffset' = offset
  /\ updates' = updates + 1
  /\ UNCHANGED <<sysclock, size, from, closed, position>>

\* segment_update_pts_force: the line of the end of the segment, written by
\* dvr_record with the duration so far, which is no PCR; then the close.
ForceTime(pts) ==
  IF last # Unset /\ Follows(pts) THEN curTime + pts - last ELSE curTime

UpdatePtsForce(pts) ==
  /\ ~closed
  /\ Possible(pts)
  /\ first' = IF first = Unset THEN pts ELSE first
  /\ curTime' = ForceTime(pts)
  /\ index' = Append(index, [time |-> curTime', offset |-> size])
  /\ lastRecord' = pts
  /\ last' = pts
  /\ closed' = TRUE
  /\ UNCHANGED <<sysclock, lastOffset, rate, size, from, updates, position>>

(***************************************************************************)
(* The reader.                                                             *)
(***************************************************************************)
Least(S) == CHOOSE k \in S : \A j \in S : k <= j

LastLine == IF index = <<>> THEN [time |-> 0, offset |-> 0] ELSE index[Len(index)]

Aligned(offset, b) == IF b > 0 THEN offset - (offset % b) ELSE offset

\* segment_seek: the first line at or after the time, or else the last line.
(* mutant: a line of exactly the time does not fit *)
SeekOffsetStrict(t, b) ==
  LET reached == {k \in DOMAIN index : t < index[k].time}
  IN  IF t = 0 THEN 0
      ELSE IF reached # {} THEN Aligned(index[Least(reached)].offset, b)
      ELSE Aligned(LastLine.offset, b)

SeekOffset(t, b) ==
  LET reached == {k \in DOMAIN index : t <= index[k].time}
  IN  IF t = 0 THEN 0
      ELSE IF reached # {} THEN Aligned(index[Least(reached)].offset, b)
      ELSE Aligned(LastLine.offset, b)

LineBefore(k) == IF k = 1 THEN [time |-> 0, offset |-> 0] ELSE index[k - 1]

\* segment_tell_position_time: between two lines the time is interpolated.
TellPositionTime(p) ==
  LET around == {k \in DOMAIN index : /\ LineBefore(k).offset <= p
                                      /\ p <= index[k].offset
                                      /\ LineBefore(k).offset < index[k].offset}
      k == Least(around)
      a == LineBefore(k)
  IN  IF around = {} THEN LastLine.time
      ELSE a.time + ((index[k].time - a.time) * (p - a.offset))
                       \div (index[k].offset - a.offset)

\* segment_tell_current_time: the first line that is not before the place.
TellCurrentTime(p) ==
  LET after == {k \in DOMAIN index : p <= index[k].offset}
  IN  IF after = {} THEN LastLine.time ELSE index[Least(after)].time

\* segment_tell_total_time; -1 (DVR_FAILURE) without a line.
TellTotalTime == IF index = <<>> THEN -1 ELSE LastLine.time

Seek(t, b) ==
  /\ position' = SeekOffset(t, b)
  /\ UNCHANGED <<writer, index, size, from, updates, closed>>

\* segment_read returns what there is, up to the size of a block.
Read(n) ==
  /\ position < size
  /\ position' = IF position + n > size THEN size ELSE position + n
  /\ UNCHANGED <<writer, index, size, from, updates, closed>>

Next ==
  \/ \E n \in BlockSizes : Write(n) \/ Read(n)
  \/ \E pts \in Pts : \/ \E offset \in 0 .. size : UpdatePts(pts, offset)
                      \/ UpdatePtsForce(pts)
  \/ \E t \in Times, b \in AlignSizes : Seek(t, b)

Spec == Init /\ [][Next]_vars

-----------------------------------------------------------------------------
\* The fields of the writer have their types; a rate has a second part.
TypeOK ==
  /\ sysclock \in BOOLEAN
  /\ first \in Nat \cup {Unset} /\ last \in Nat \cup {Unset}
  /\ lastRecord \in Nat \cup {Unset}
  /\ lastOffset \in Nat /\ curTime \in Nat /\ rate \in Nat \X Nat
  /\ index \in Seq(Line)
  /\ size \in Nat /\ from \in Nat /\ updates \in Nat /\ closed \in BOOLEAN
  /\ position \in Nat

\* The lines of the index are in order, of time and of place, whatever the
\* pts did and whichever of the two calls wrote them: segment_seek takes the
\* first line that fits and tells nothing right without it.
IndexInOrder ==
  \A i, j \in DOMAIN index : i <= j => /\ index[i].time <= index[j].time
                                       /\ index[i].offset <= index[j].offset

\* What keeps the next line in order, and the player within the file.
IInv ==
  /\ TypeOK
  /\ IndexInOrder
  /\ \A i \in DOMAIN index : /\ index[i].time <= curTime
                             /\ index[i].offset <= size
                             /\ ~closed => index[i].offset <= lastOffset
  /\ lastOffset <= size /\ from <= size
  /\ last = Unset <=> first = Unset
  /\ last = Unset => curTime = 0
  /\ sysclock /\ last # Unset =>
       /\ first <= last
       /\ ~closed => curTime = last - first
  /\ position <= size

\* No seek takes the player behind the data that is in the file, whatever
\* the writer does meanwhile: it would read nothing and take that for the
\* end of the segment.
SeekInFile ==
  /\ position <= size
  /\ \A t \in Times, b \in AlignSizes : SeekOffset(t, b) <= size

\* The time a place stands for grows with the place, and is never more than
\* the whole segment: the play time the application sees does not run back.
TimeGrows ==
  /\ \A p, q \in 0 .. size : p <= q => TellPositionTime(p) <= TellPositionTime(q)
  /\ index # <<>> => \A p \in 0 .. size : TellPositionTime(p) <= TellTotalTime

\* Seeking to the time of a line and asking for the time of the place are
\* inverse to each other, where no other line has that time or that place.
SeekThenTell ==
  \A k \in DOMAIN index :
    (\A j \in DOMAIN index \ {k} : /\ index[j].time # index[k].time
                                   /\ index[j].offset # index[k].offset)
      => LET place == SeekOffset(index[k].time, 0)
         IN  index[k].time > 0 => /\ TellPositionTime(place) = index[k].time
                                  /\ TellCurrentTime(place) = index[k].time

\* What a player reads out of the index, at any moment of the recording.
IndexReads == SeekInFile /\ TimeGrows /\ SeekThenTell

\* No line the writer adds changes the time of a place to an earlier one, so
\* that a player beside the recording never sees its time run back.
ToldTimeStays ==
  [][\A p \in 0 .. size : /\ TellPositionTime(p) <= TellPositionTime(p)'
                          /\ TellTotalTime <= TellTotalTime']_vars
=============================================================================
