---------------------------- MODULE SegmentProofs ----------------------------
(***************************************************************************)
(* Proofs about what a recording leaves on disk.                           *)
(*                                                                         *)
(* SegmentIndex, for every set of times and of block sizes and for         *)
(* segments of any length: the index stays sorted in time and place,       *)
(* whatever the PCRs do, no seek goes beyond the data, and what a player   *)
(* is told of the time grows with the place and is not taken back.         *)
(*                                                                         *)
(* SegmentFile, whatever the number of segments, sessions, kills and       *)
(* failed starts: an appended recording keeps its data, and what the files *)
(* of a recording say is right whenever it is not just being deleted.      *)
(***************************************************************************)
EXTENDS SegmentIndex, SegmentFile, WellFoundedInduction, TLAPS

(* The parts of IInv that are not about types, named for the proofs.       *)
LinesBounded ==
  \A i \in DOMAIN index : /\ index[i].time <= curTime
                          /\ index[i].offset <= size
                          /\ ~closed => index[i].offset <= lastOffset

PlaceInv == lastOffset <= size /\ from <= size /\ position <= size

ClockInv ==
  /\ last = Unset <=> first = Unset
  /\ last = Unset => curTime = 0
  /\ sysclock /\ last # Unset =>
       /\ first <= last
       /\ ~closed => curTime = last - first

(* IInv is the conjunction of the named parts.                             *)
LEMMA IInvParts ==
  IInv <=> TypeOK /\ IndexInOrder /\ LinesBounded /\ PlaceInv /\ ClockInv
BY DEF IInv, LinesBounded, PlaceInv, ClockInv

(* Rounding an offset down to a multiple of the block size.                *)
LEMMA AlignedBound ==
  ASSUME NEW offset \in Nat, NEW b \in Nat
  PROVE  Aligned(offset, b) \in Nat /\ Aligned(offset, b) <= offset
<1>1. CASE b = 0
  BY <1>1 DEF Aligned
<1>2. CASE b > 0
  <2>1. /\ offset % b \in Nat /\ offset \div b \in Nat
        /\ offset = b * (offset \div b) + (offset % b)
    BY <1>2
  <2>2. offset % b <= offset
    BY <2>1, <1>2
  <2>. QED
    BY <2>1, <2>2, <1>2 DEF Aligned
<1>. QED
  BY <1>1, <1>2

(* Less-than on the naturals as a well-founded relation.                   *)
LEMMA LessRelation ==
  \E R : IsWellFoundedOn(R, Nat) /\ \A j, k \in Nat : <<j, k>> \in R <=> j < k
<1>1. \A j, k \in Nat : <<j, k>> \in OpToRel(<, Nat) <=> j < k
  BY Zenon DEF OpToRel
<1>. QED
  BY <1>1, NatLessThanWellFounded, Zenon

(* A set of line numbers has a least one, which Least finds.               *)
LEMMA LeastOf ==
  ASSUME NEW S, S \subseteq Nat, S # {}
  PROVE  Least(S) \in S /\ \A j \in S : Least(S) <= j
<1>1. PICK R : IsWellFoundedOn(R, Nat) /\ \A j, k \in Nat : <<j, k>> \in R <=> j < k
  BY LessRelation
<1>2. IsWellFoundedOn(R, Nat)
  BY <1>1
<1>3. \E k \in S : \A j \in S : ~ (<<j, k>> \in R)
  BY <1>2, WFMin
<1>4. PICK k \in S : \A j \in S : ~ (<<j, k>> \in R)
  BY <1>3
<1>5. ASSUME NEW j \in S PROVE k <= j
  <2>1. k \in Nat /\ j \in Nat
    OBVIOUS
  <2>2. ~ (<<j, k>> \in R)
    BY <1>4
  <2>3. ~ (j < k)
    BY <1>1, <2>1, <2>2, Zenon
  <2>. QED
    BY <2>1, <2>3
<1>. QED
  BY <1>5 DEF Least

(* The time never goes back when a PCR is indexed, and with the system     *)
(* clock it is the time since the first one.                               *)
LEMMA AdvanceType ==
  ASSUME TypeOK, NEW offset \in Nat, offset >= lastOffset, NEW diff \in Nat,
         NEW a \in Advance(offset, diff)
  PROVE  a \in Nat
<1>. DEFINE r == RateAt(offset, diff)
            data == offset - lastOffset
<1>1. r \in Nat \X Nat /\ data \in Nat
  BY DEF TypeOK, RateAt
<1>2. CASE a = diff \/ a = 0
  BY <1>2
<1>3. CASE r[1] # 0 /\ a = (data * r[2]) \div r[1]
  <2>1. r[1] \in Nat \ {0} /\ r[2] \in Nat
    BY <1>1, <1>3
  <2>2. data * r[2] \in Nat
    BY <1>1, <2>1
  <2>. HIDE DEF r, data
  <2>. QED
    BY <1>3, <2>1, <2>2
<1>4. (a = diff \/ a = 0) \/ (r[1] # 0 /\ a = (data * r[2]) \div r[1])
  <2>. HIDE DEF r, data
  <2>1. a \in IF diff < Jump THEN {diff}
              ELSE IF r[2] = 0 THEN {0, diff}
              ELSE IF r[1] # 0 /\ r[1] \div r[2] >= (4 * data) \div diff
                   THEN {(data * r[2]) \div r[1]}
              ELSE {diff}
    BY DEF Advance, r, data
  <2>. QED
    BY <2>1
<1>. QED
  BY <1>2, <1>3, <1>4

(* The time that a new line gets is not below the current one.             *)
LEMMA NewTimeGrows ==
  ASSUME TypeOK, ClockInv, ~closed, NEW pts \in Nat, Possible(pts),
         NEW offset \in Nat, offset >= lastOffset,
         NEW t \in NewTime(pts, offset)
  PROVE  /\ t \in Nat /\ t >= curTime
         /\ last = Unset => t = 0
         /\ sysclock /\ last # Unset => t = pts - first
<1>. USE UnsetAssumption
<1>1. CASE last = Unset
  BY <1>1 DEF NewTime, ClockInv, TypeOK
<1>2. CASE last # Unset /\ sysclock
  BY <1>2 DEF NewTime, ClockInv, TypeOK, Possible
<1>3. CASE last # Unset /\ ~sysclock /\ Follows(pts)
  <2>1. last \in Nat /\ curTime \in Nat /\ pts - last \in Nat
    BY <1>3 DEF TypeOK, Follows
  <2>2. PICK a \in Advance(offset, pts - last) : t = curTime + a
    BY <1>3 DEF NewTime
  <2>3. a \in Nat
    BY <2>1, <2>2, AdvanceType
  <2>. QED
    BY <1>3, <2>1, <2>2, <2>3
<1>4. CASE last # Unset /\ ~sysclock /\ ~Follows(pts)
  BY <1>4 DEF NewTime, TypeOK
<1>. QED
  BY <1>1, <1>2, <1>3, <1>4

(* The first state is one of the invariant.                                *)
LEMMA InitIInv == Init => IInv
<1>. SUFFICES ASSUME Init PROVE IInv
  OBVIOUS
<1>1. TypeOK
  <2>1. rate \in Nat \X Nat
    BY DEF Init, NoRate
  <2>2. index \in Seq(Line)
    BY DEF Init
  <2>. QED
    BY <2>1, <2>2 DEF Init, TypeOK
<1>2. IndexInOrder /\ LinesBounded
  BY DEF Init, IndexInOrder, LinesBounded
<1>3. PlaceInv /\ ClockInv
  BY UnsetAssumption DEF Init, PlaceInv, ClockInv
<1>. QED
  BY <1>1, <1>2, <1>3, IInvParts

(* A line that is not before the others, in time and in place, leaves the  *)
(* index sorted: what both calls that write a line rest on.                *)
LEMMA AppendInOrder ==
  ASSUME TypeOK, IndexInOrder, NEW line \in Line,
         index' = Append(index, line),
         \A i \in DOMAIN index : /\ index[i].time <= line.time
                                 /\ index[i].offset <= line.offset
  PROVE  /\ index' \in Seq(Line) /\ IndexInOrder'
         /\ \A i \in DOMAIN index' : /\ index'[i].time <= line.time
                                      /\ index'[i].offset <= line.offset
<1>1. index \in Seq(Line)
  BY DEF TypeOK
<1>2. /\ index' \in Seq(Line)
      /\ DOMAIN index' = 1 .. Len(index) + 1 /\ DOMAIN index = 1 .. Len(index)
      /\ Len(index) \in Nat
      /\ \A i \in 1 .. Len(index) : index'[i] = index[i]
      /\ index'[Len(index) + 1] = line
  BY <1>1
<1>3. \A i \in DOMAIN index' : i \in DOMAIN index \/ i = Len(index) + 1
  BY <1>2
<1>4. line.time \in Nat /\ line.offset \in Nat
  BY DEF Line
<1>5. ASSUME NEW i \in DOMAIN index'
      PROVE  index'[i].time <= line.time /\ index'[i].offset <= line.offset
  BY <1>2, <1>3, <1>4, <1>5
<1>6. ASSUME NEW i \in DOMAIN index', NEW j \in DOMAIN index', i <= j
      PROVE  index'[i].time <= index'[j].time /\ index'[i].offset <= index'[j].offset
  <2>1. CASE j = Len(index) + 1
    BY <1>2, <1>5, <2>1
  <2>2. CASE j \in DOMAIN index
    <3>1. i \in DOMAIN index
      BY <1>2, <1>6, <2>2
    <3>. QED
      BY <1>2, <1>6, <2>2, <3>1 DEF IndexInOrder
  <2>. QED
    BY <1>3, <2>1, <2>2
<1>. QED
  BY <1>2, <1>5, <1>6 DEF IndexInOrder

(* segment_update_pts preserves the invariant.                             *)
LEMMA UpdatePtsIInv ==
  ASSUME IInv, NEW pts \in Pts, NEW offset \in 0 .. size, UpdatePts(pts, offset)
  PROVE  IInv'
<1>. USE NumbersAssumption, UnsetAssumption
<1>1. TypeOK /\ IndexInOrder /\ LinesBounded /\ PlaceInv /\ ClockInv
  BY IInvParts
<1>2. /\ pts \in Nat /\ offset \in Nat /\ ~closed /\ Possible(pts)
      /\ offset >= lastOffset /\ offset <= size
  BY <1>1 DEF UpdatePts, TypeOK
<1>3. PICK t \in NewTime(pts, offset) :
        /\ curTime' = t
        /\ index' = IF Due(pts) THEN Append(index, [time |-> t, offset |-> offset])
                    ELSE index
        /\ rate' = IF Due(pts) /\ t > 0 THEN <<offset, t>>
                   ELSE IF last = Unset \/ sysclock \/ Restarts(pts) THEN rate
                   ELSE RateAt(offset, pts - last)
  BY DEF UpdatePts
<1>4. /\ t \in Nat /\ t >= curTime
      /\ last = Unset => t = 0
      /\ sysclock /\ last # Unset => t = pts - first
  BY <1>1, <1>2, NewTimeGrows
<1>5. /\ first' = IF first = Unset THEN pts ELSE first
      /\ lastRecord' = IF Due(pts) \/ Restarts(pts) THEN pts ELSE lastRecord
      /\ last' = pts /\ lastOffset' = offset /\ updates' = updates + 1
      /\ UNCHANGED <<sysclock, size, from, closed, position>>
  BY DEF UpdatePts
<1>6. rate' \in Nat \X Nat
  <2>1. rate \in Nat \X Nat /\ <<offset, t>> \in Nat \X Nat
    BY <1>1, <1>2, <1>4 DEF TypeOK
  <2>2. CASE ~ (last = Unset \/ sysclock \/ Restarts(pts))
    <3>1. pts - last \in Nat
      BY <1>1, <1>2, <2>2 DEF Restarts, Follows, TypeOK
    <3>2. RateAt(offset, pts - last) \in Nat \X Nat
      BY <1>1, <1>2, <2>1, <3>1 DEF RateAt, TypeOK
    <3>. QED
      BY <1>3, <2>1, <2>2, <3>2
  <2>3. CASE last = Unset \/ sysclock \/ Restarts(pts)
    BY <1>3, <2>1, <2>3
  <2>. QED
    BY <2>2, <2>3
<1>7. /\ index' \in Seq(Line) /\ IndexInOrder'
      /\ \A i \in DOMAIN index' : index'[i].time <= t /\ index'[i].offset <= offset
  <2>1. \A i \in DOMAIN index : index[i] \in Line
    BY <1>1 DEF TypeOK
  <2>2. ASSUME NEW i \in DOMAIN index
        PROVE  index[i].time <= t /\ index[i].offset <= offset
    <3>1. index[i].time \in Nat /\ index[i].offset \in Nat
      BY <2>1 DEF Line
    <3>2. /\ index[i].time <= curTime /\ index[i].offset <= lastOffset
          /\ curTime \in Nat /\ lastOffset \in Nat
      BY <1>1, <1>2 DEF LinesBounded, TypeOK
    <3>. QED
      BY <1>2, <1>4, <3>1, <3>2
  <2>3. CASE Due(pts)
    <3>1. [time |-> t, offset |-> offset] \in Line
      BY <1>2, <1>4 DEF Line
    <3>2. index' = Append(index, [time |-> t, offset |-> offset])
      BY <1>3, <2>3
    <3>. QED
      BY <1>1, <2>2, <3>1, <3>2, AppendInOrder
  <2>4. CASE ~Due(pts)
    <3>1. index' = index
      BY <1>3, <2>4
    <3>. QED
      BY <1>1, <2>2, <3>1 DEF IndexInOrder, TypeOK
  <2>. QED
    BY <2>3, <2>4
<1>8. TypeOK'
  <2>1. curTime' \in Nat /\ rate' \in Nat \X Nat /\ index' \in Seq(Line)
    BY <1>3, <1>4, <1>6, <1>7
  <2>2. /\ first' \in Nat \cup {Unset} /\ last' \in Nat \cup {Unset}
        /\ lastRecord' \in Nat \cup {Unset} /\ lastOffset' \in Nat
        /\ updates' \in Nat
    BY <1>1, <1>2, <1>5 DEF TypeOK
  <2>3. /\ sysclock' \in BOOLEAN /\ size' \in Nat /\ from' \in Nat
        /\ closed' \in BOOLEAN /\ position' \in Nat
    BY <1>1, <1>5 DEF TypeOK
  <2>. QED
    BY <2>1, <2>2, <2>3 DEF TypeOK
<1>9. LinesBounded'
  <2>1. curTime' = t /\ size' = size /\ lastOffset' = offset /\ size \in Nat
    BY <1>1, <1>3, <1>5 DEF TypeOK
  <2>2. ASSUME NEW i \in DOMAIN index'
        PROVE  /\ index'[i].time <= t
               /\ index'[i].offset <= size /\ index'[i].offset <= offset
    <3>1. index'[i] \in Line
      BY <1>7, <2>2
    <3>. QED
      BY <1>2, <1>7, <2>1, <2>2, <3>1 DEF Line
  <2>. QED
    BY <2>1, <2>2 DEF LinesBounded
<1>10. PlaceInv'
  BY <1>1, <1>2, <1>5 DEF PlaceInv
<1>11. ClockInv'
  BY <1>1, <1>2, <1>3, <1>4, <1>5 DEF ClockInv, TypeOK, Possible
<1>. QED
  BY <1>7, <1>8, <1>9, <1>10, <1>11 DEF IInv, LinesBounded, PlaceInv, ClockInv

(* segment_update_pts_force, the line of the end, preserves it too: the    *)
(* duration it is called with may have any relation to the last PCR.       *)
LEMMA UpdatePtsForceIInv ==
  ASSUME IInv, NEW pts \in Pts, UpdatePtsForce(pts)
  PROVE  IInv'
<1>. USE NumbersAssumption, UnsetAssumption
<1>1. TypeOK /\ IndexInOrder /\ LinesBounded /\ PlaceInv /\ ClockInv
  BY IInvParts
<1>2. pts \in Nat /\ ~closed /\ Possible(pts)
  BY DEF UpdatePtsForce
<1>3. /\ first' = IF first = Unset THEN pts ELSE first
      /\ curTime' = ForceTime(pts)
      /\ index' = Append(index, [time |-> curTime', offset |-> size])
      /\ lastRecord' = pts /\ last' = pts /\ closed' = TRUE
      /\ UNCHANGED <<sysclock, lastOffset, rate, size, from, updates, position>>
  BY DEF UpdatePtsForce
<1>4. curTime' \in Nat /\ curTime' >= curTime
  BY <1>1, <1>2, <1>3 DEF ForceTime, Follows, TypeOK
<1>5. /\ index' \in Seq(Line) /\ IndexInOrder'
      /\ \A i \in DOMAIN index' : index'[i].time <= curTime' /\ index'[i].offset <= size
  <2>1. \A i \in DOMAIN index : index[i] \in Line
    BY <1>1 DEF TypeOK
  <2>2. ASSUME NEW i \in DOMAIN index
        PROVE  index[i].time <= curTime' /\ index[i].offset <= size
    <3>1. index[i].time \in Nat /\ index[i].offset \in Nat
      BY <2>1 DEF Line
    <3>2. /\ index[i].time <= curTime /\ index[i].offset <= size
          /\ curTime \in Nat /\ size \in Nat
      BY <1>1 DEF LinesBounded, TypeOK
    <3>. QED
      BY <1>4, <3>1, <3>2
  <2>3. [time |-> curTime', offset |-> size] \in Line
    BY <1>1, <1>4 DEF TypeOK, Line
  <2>. QED
    BY <1>1, <1>3, <2>2, <2>3, AppendInOrder
<1>6. TypeOK'
  BY <1>1, <1>2, <1>3, <1>4, <1>5 DEF TypeOK
<1>7. LinesBounded'
  BY <1>3, <1>5 DEF LinesBounded
<1>8. PlaceInv'
  BY <1>1, <1>3 DEF PlaceInv
<1>9. ClockInv'
  BY <1>1, <1>2, <1>3 DEF ClockInv, TypeOK, Possible
<1>. QED
  BY <1>5, <1>6, <1>7, <1>8, <1>9 DEF IInv, LinesBounded, PlaceInv, ClockInv

(* Wherever the index is sorted and within the data, a seek ends in it.    *)
LEMMA SeekBound ==
  ASSUME IInv, NEW t \in Nat, NEW b \in Nat
  PROVE  SeekOffset(t, b) \in Nat /\ SeekOffset(t, b) <= size
<1>. DEFINE reached == {k \in DOMAIN index : t <= index[k].time}
<1>1. TypeOK /\ LinesBounded
  BY IInvParts
<1>2. /\ size \in Nat /\ index \in Seq(Line)
      /\ DOMAIN index = 1 .. Len(index) /\ Len(index) \in Nat
  BY <1>1 DEF TypeOK
<1>3. ASSUME NEW k \in DOMAIN index
      PROVE  /\ Aligned(index[k].offset, b) \in Nat
             /\ Aligned(index[k].offset, b) <= size
  <2>1. index[k].offset \in Nat /\ index[k].offset <= size
    <3>1. index[k] \in Line
      BY <1>2
    <3>. QED
      BY <1>1, <3>1 DEF LinesBounded, Line
  <2>2. /\ Aligned(index[k].offset, b) \in Nat
        /\ Aligned(index[k].offset, b) <= index[k].offset
    BY <2>1, AlignedBound
  <2>. QED
    BY <1>2, <2>1, <2>2
<1>4. CASE t = 0
  BY <1>2, <1>4 DEF SeekOffset
<1>5. CASE t # 0 /\ reached # {}
  <2>1. reached \subseteq Nat
    BY <1>2
  <2>2. Least(reached) \in DOMAIN index
    BY <1>5, <2>1, LeastOf
  <2>3. SeekOffset(t, b) = Aligned(index[Least(reached)].offset, b)
    BY <1>5 DEF SeekOffset
  <2>. QED
    BY <1>3, <2>2, <2>3
<1>6. CASE t # 0 /\ reached = {}
  <2>1. SeekOffset(t, b) = Aligned(LastLine.offset, b)
    BY <1>6 DEF SeekOffset
  <2>2. CASE index = <<>>
    <3>1. LastLine.offset = 0
      BY <2>2 DEF LastLine
    <3>2. Aligned(0, b) \in Nat /\ Aligned(0, b) <= 0
      BY AlignedBound
    <3>. QED
      BY <1>2, <2>1, <3>1, <3>2
  <2>3. CASE index # <<>>
    <3>1. Len(index) \in DOMAIN index /\ LastLine = index[Len(index)]
      BY <1>2, <2>3 DEF LastLine
    <3>. QED
      BY <1>3, <2>1, <3>1
  <2>. QED
    BY <2>2, <2>3
<1>. QED
  BY <1>4, <1>5, <1>6

(* Every step preserves the invariant: one proof step per action.          *)
LEMMA NextIInv == IInv /\ [Next]_vars => IInv'
<1>. SUFFICES ASSUME IInv, [Next]_vars PROVE IInv'
  OBVIOUS
<1>. USE NumbersAssumption, UnsetAssumption
<1>1. TypeOK /\ IndexInOrder /\ LinesBounded /\ PlaceInv /\ ClockInv
  BY IInvParts
<1>2. ASSUME NEW n \in BlockSizes, Write(n) PROVE IInv'
  <2>1. /\ n \in Nat /\ size' = size + n /\ from' = size
        /\ UNCHANGED <<writer, index, updates, closed, position>>
    BY <1>2 DEF Write
  <2>2. TypeOK' /\ IndexInOrder'
    BY <1>1, <2>1 DEF TypeOK, IndexInOrder, writer
  <2>3. LinesBounded'
    <3>1. ASSUME NEW i \in DOMAIN index
          PROVE  index[i].offset <= size + n
      <4>1. index[i] \in Line /\ size \in Nat
        BY <1>1 DEF TypeOK
      <4>. QED
        BY <1>1, <2>1, <4>1 DEF LinesBounded, Line
    <3>2. size' = size + n /\ UNCHANGED <<curTime, lastOffset, index, closed>>
      BY <2>1 DEF writer
    <3>. QED
      BY <1>1, <3>1, <3>2 DEF LinesBounded
  <2>4. PlaceInv' /\ ClockInv'
    BY <1>1, <2>1 DEF PlaceInv, ClockInv, TypeOK, writer
  <2>. QED
    BY <2>2, <2>3, <2>4 DEF IInv, LinesBounded, PlaceInv, ClockInv
<1>3. ASSUME NEW n \in BlockSizes, Read(n) PROVE IInv'
  <2>1. /\ position' \in Nat /\ position' <= size
        /\ UNCHANGED <<writer, index, size, from, updates, closed>>
    BY <1>1, <1>3 DEF Read, TypeOK
  <2>. QED
    BY <1>1, <2>1
       DEF IInv, TypeOK, IndexInOrder, LinesBounded, PlaceInv, ClockInv, writer
<1>4. ASSUME NEW t \in Times, NEW b \in AlignSizes, Seek(t, b) PROVE IInv'
  <2>1. /\ position' \in Nat /\ position' <= size
        /\ UNCHANGED <<writer, index, size, from, updates, closed>>
    BY <1>4, SeekBound DEF Seek
  <2>. QED
    BY <1>1, <2>1
       DEF IInv, TypeOK, IndexInOrder, LinesBounded, PlaceInv, ClockInv, writer
<1>5. ASSUME NEW pts \in Pts, NEW offset \in 0 .. size, UpdatePts(pts, offset) PROVE IInv'
  BY <1>5, UpdatePtsIInv
<1>6. ASSUME NEW pts \in Pts, UpdatePtsForce(pts) PROVE IInv'
  BY <1>6, UpdatePtsForceIInv
<1>7. CASE UNCHANGED vars
  BY <1>1, <1>7
     DEF vars, IInv, TypeOK, IndexInOrder, LinesBounded, PlaceInv, ClockInv
<1>. QED
  BY <1>2, <1>3, <1>4, <1>5, <1>6, <1>7 DEF Next

(* The index of a segment is sorted by time and by place at every moment,  *)
(* for every sequence of PCRs, blocks and reads, however long the segment: *)
(* segment_seek and the tell functions of segment.c take the first line    *)
(* that fits and rest on it.                                               *)
THEOREM IndexSound == Spec => []IInv
BY InitIInv, NextIInv, PTL DEF Spec

-----------------------------------------------------------------------------
(***************************************************************************)
(* The readers.  What a segment tells of a place is a function of its      *)
(* lines; the lemmas are about any sorted sequence of lines, so that they  *)
(* hold of the index before a step and after it.                           *)
(***************************************************************************)
Origin == [time |-> 0, offset |-> 0]
Before(s, k) == IF k = 1 THEN Origin ELSE s[k - 1]
End(s) == IF s = <<>> THEN Origin ELSE s[Len(s)]
Around(s, p) == {k \in DOMAIN s : /\ Before(s, k).offset <= p
                                  /\ p <= s[k].offset
                                  /\ Before(s, k).offset < s[k].offset}
Between(s, k, p) ==
  Before(s, k).time + ((s[k].time - Before(s, k).time) * (p - Before(s, k).offset))
                         \div (s[k].offset - Before(s, k).offset)
Tell(s, p) == IF Around(s, p) = {} THEN End(s).time
              ELSE Between(s, Least(Around(s, p)), p)

Sorted(s) ==
  /\ s \in Seq(Line)
  /\ \A i, j \in DOMAIN s : i <= j => /\ s[i].time <= s[j].time
                                     /\ s[i].offset <= s[j].offset

(* Products and quotients of naturals grow with their first operand.       *)
LEMMA TimesGrows ==
  ASSUME NEW x \in Nat, NEW y \in Nat, NEW d \in Nat, x <= y
  PROVE  d * x \in Nat /\ d * y \in Nat /\ d * x <= d * y
<1>1. y = x + (y - x) /\ y - x \in Nat
  OBVIOUS
<1>2. d * (y - x) \in Nat /\ d * x \in Nat /\ d * y \in Nat
  BY <1>1
<1>3. d * y = d * x + d * (y - x)
  BY <1>1
<1>. QED
  BY <1>2, <1>3

(* Integer division does not decrease.                                     *)
LEMMA DivGrows ==
  ASSUME NEW x \in Nat, NEW y \in Nat, NEW d \in Nat \ {0}, x <= y
  PROVE  x \div d \in Nat /\ y \div d \in Nat /\ x \div d <= y \div d
<1>1. /\ x \div d \in Nat /\ x % d \in Nat /\ x = d * (x \div d) + (x % d)
      /\ y \div d \in Nat /\ y % d \in Nat /\ y = d * (y \div d) + (y % d)
      /\ y % d < d
  OBVIOUS
<1>2. SUFFICES ASSUME y \div d < x \div d PROVE FALSE
  BY <1>1
<1>3. (y \div d) + 1 <= x \div d /\ (y \div d) + 1 \in Nat
  BY <1>1, <1>2
<1>4. d * ((y \div d) + 1) <= d * (x \div d)
  BY <1>1, <1>3, TimesGrows
<1>5. d * ((y \div d) + 1) = d * (y \div d) + d
  BY <1>1
<1>. QED
  BY <1>1, <1>4, <1>5

(* ... and undoes a multiplication.                                        *)
LEMMA DivOfProduct ==
  ASSUME NEW x \in Nat, NEW d \in Nat \ {0}
  PROVE  (x * d) \div d = x /\ 0 \div d = 0
OBVIOUS

(* What a line and the one before it are: numbers, in order.               *)
LEMMA SortedLines ==
  ASSUME NEW s, Sorted(s)
  PROVE  /\ Len(s) \in Nat /\ DOMAIN s = 1 .. Len(s)
         /\ \A k \in DOMAIN s :
              /\ s[k].time \in Nat /\ s[k].offset \in Nat
              /\ Before(s, k).time \in Nat /\ Before(s, k).offset \in Nat
              /\ Before(s, k).time <= s[k].time /\ Before(s, k).offset <= s[k].offset
              /\ \A j \in DOMAIN s : j < k => /\ s[j].time <= Before(s, k).time
                                              /\ s[j].offset <= Before(s, k).offset
              /\ s[k].time <= End(s).time
         /\ End(s).time \in Nat
<1>1. s \in Seq(Line) /\ Len(s) \in Nat /\ DOMAIN s = 1 .. Len(s)
  BY DEF Sorted
<1>2. ASSUME NEW k \in DOMAIN s PROVE s[k].time \in Nat /\ s[k].offset \in Nat
  <2>1. s[k] \in Line
    BY <1>1
  <2>. QED
    BY <2>1 DEF Line
<1>3. ASSUME NEW k \in DOMAIN s
      PROVE  /\ Before(s, k).time \in Nat /\ Before(s, k).offset \in Nat
             /\ Before(s, k).time <= s[k].time /\ Before(s, k).offset <= s[k].offset
             /\ \A j \in DOMAIN s : j < k => /\ s[j].time <= Before(s, k).time
                                             /\ s[j].offset <= Before(s, k).offset
  <2>1. CASE k = 1
    BY <1>1, <1>2, <2>1 DEF Before, Origin
  <2>2. CASE k # 1
    <3>1. k - 1 \in DOMAIN s /\ Before(s, k) = s[k - 1]
      BY <1>1, <2>2 DEF Before
    <3>2. \A j \in DOMAIN s : j < k => j <= k - 1
      BY <1>1
    <3>. QED
      BY <1>1, <1>2, <3>1, <3>2 DEF Sorted
  <2>. QED
    BY <2>1, <2>2
<1>4. ASSUME NEW k \in DOMAIN s PROVE s[k].time <= End(s).time
  <2>1. s # <<>> /\ Len(s) \in DOMAIN s /\ k <= Len(s)
    BY <1>1
  <2>. QED
    BY <2>1 DEF Sorted, End
<1>5. End(s).time \in Nat
  <2>1. CASE s = <<>>
    BY <2>1 DEF End, Origin
  <2>2. CASE s # <<>>
    <3>1. Len(s) \in DOMAIN s
      BY <1>1, <2>2
    <3>. QED
      BY <1>2, <2>2, <3>1 DEF End
  <2>. QED
    BY <2>1, <2>2
<1>. QED
  BY <1>1, <1>2, <1>3, <1>4, <1>5

(* Between two lines the time told is between theirs and grows.            *)
LEMMA BetweenBounds ==
  ASSUME NEW s, Sorted(s), NEW p \in Nat, NEW k \in Around(s, p)
  PROVE  /\ Between(s, k, p) \in Nat
         /\ Before(s, k).time <= Between(s, k, p)
         /\ Between(s, k, p) <= s[k].time
<1>. DEFINE a == Before(s, k)
            dt == s[k].time - a.time
            dp == p - a.offset
            d == s[k].offset - a.offset
<1>1. /\ k \in DOMAIN s /\ a.offset <= p /\ p <= s[k].offset
      /\ a.offset < s[k].offset
  BY DEF Around
<1>2. /\ a.time \in Nat /\ s[k].time \in Nat /\ dt \in Nat /\ dp \in Nat
      /\ d \in Nat \ {0} /\ dp <= d
      /\ s[k].time = a.time + dt
  BY <1>1, SortedLines
<1>3. Between(s, k, p) = a.time + (dt * dp) \div d
  BY DEF Between
<1>. HIDE DEF a, dt, dp, d
<1>4. dt * dp \in Nat /\ dt * d \in Nat /\ dt * dp <= dt * d
  BY <1>2, TimesGrows
<1>5. (dt * dp) \div d \in Nat /\ (dt * dp) \div d <= (dt * d) \div d
  BY <1>2, <1>4, DivGrows
<1>6. (dt * d) \div d = dt
  BY <1>2, DivOfProduct
<1>. QED
  BY <1>2, <1>3, <1>5, <1>6 DEF a

(* Between the same two lines a later offset is not given an earlier       *)
(* time.                                                                   *)
LEMMA BetweenGrows ==
  ASSUME NEW s, Sorted(s), NEW p \in Nat, NEW q \in Nat, p <= q, NEW k,
         k \in Around(s, p), k \in Around(s, q)
  PROVE  Between(s, k, p) <= Between(s, k, q)
<1>. DEFINE a == Before(s, k)
            dt == s[k].time - a.time
            dp == p - a.offset
            dq == q - a.offset
            d == s[k].offset - a.offset
<1>1. /\ k \in DOMAIN s /\ a.offset <= p /\ a.offset <= q
      /\ a.offset < s[k].offset
  BY DEF Around
<1>2. /\ a.time \in Nat /\ dt \in Nat /\ dp \in Nat /\ dq \in Nat
      /\ d \in Nat \ {0} /\ dp <= dq
  BY <1>1, SortedLines
<1>3. /\ Between(s, k, p) = a.time + (dt * dp) \div d
      /\ Between(s, k, q) = a.time + (dt * dq) \div d
  BY DEF Between
<1>. HIDE DEF a, dt, dp, dq, d
<1>4. dt * dp \in Nat /\ dt * dq \in Nat /\ dt * dp <= dt * dq
  BY <1>2, TimesGrows
<1>5. /\ (dt * dp) \div d \in Nat /\ (dt * dq) \div d \in Nat
      /\ (dt * dp) \div d <= (dt * dq) \div d
  BY <1>2, <1>4, DivGrows
<1>. QED
  BY <1>2, <1>3, <1>5

(* A place before a line that has some place around it is itself between   *)
(* two lines.                                                              *)
LEMMA AroundBefore ==
  ASSUME NEW s, Sorted(s), NEW p \in Nat, NEW l \in DOMAIN s, p < Before(s, l).offset
  PROVE  Around(s, p) # {}
<1>. DEFINE beyond == {k \in DOMAIN s : p < s[k].offset}
            k == Least(beyond)
<1>1. /\ Len(s) \in Nat /\ DOMAIN s = 1 .. Len(s)
      /\ \A j \in DOMAIN s : s[j].offset \in Nat
  BY SortedLines
<1>2. l # 1 /\ l - 1 \in DOMAIN s /\ Before(s, l) = s[l - 1]
  BY <1>1 DEF Before, Origin
<1>3. beyond \subseteq Nat /\ beyond # {}
  BY <1>1, <1>2
<1>4. k \in DOMAIN s /\ p < s[k].offset /\ \A j \in beyond : k <= j
  BY <1>3, LeastOf
<1>. HIDE DEF k
<1>5. Before(s, k).offset <= p
  <2>1. CASE k = 1
    BY <2>1 DEF Before, Origin
  <2>2. CASE k # 1
    <3>1. k - 1 \in DOMAIN s /\ ~(k - 1 \in beyond)
      BY <1>1, <1>4, <2>2
    <3>. QED
      BY <1>1, <2>2, <3>1 DEF Before
  <2>. QED
    BY <2>1, <2>2
<1>6. Before(s, k).offset \in Nat /\ s[k].offset \in Nat
  BY <1>4, SortedLines
<1>7. k \in Around(s, p)
  BY <1>4, <1>5, <1>6 DEF Around
<1>. QED
  BY <1>7

(* The lines around an offset have a first one.                            *)
LEMMA LeastAround ==
  ASSUME NEW s, Sorted(s), NEW p \in Nat, Around(s, p) # {}
  PROVE  /\ Least(Around(s, p)) \in Around(s, p)
         /\ \A j \in Around(s, p) : Least(Around(s, p)) <= j
<1>1. Around(s, p) \subseteq Nat
  BY SortedLines DEF Around
<1>. QED
  BY <1>1, LeastOf

(* The time told of a place is a number, never more than the whole, and    *)
(* grows with the place.                                                   *)
LEMMA TellBound ==
  ASSUME NEW s, Sorted(s), NEW p \in Nat
  PROVE  Tell(s, p) \in Nat /\ Tell(s, p) <= End(s).time
<1>1. End(s).time \in Nat
  BY SortedLines
<1>2. CASE Around(s, p) = {}
  BY <1>1, <1>2 DEF Tell
<1>3. CASE Around(s, p) # {}
  <2>. DEFINE k == Least(Around(s, p))
  <2>1. k \in Around(s, p) /\ k \in DOMAIN s
    BY <1>3, LeastAround DEF Around
  <2>2. Between(s, k, p) \in Nat /\ Between(s, k, p) <= s[k].time
    BY <2>1, BetweenBounds
  <2>3. s[k].time \in Nat /\ s[k].time <= End(s).time
    BY <2>1, SortedLines
  <2>. QED
    BY <1>1, <1>3, <2>2, <2>3 DEF Tell
<1>. QED
  BY <1>2, <1>3

(* A later offset in the same index is not told an earlier time.           *)
LEMMA TellGrows ==
  ASSUME NEW s, Sorted(s), NEW p \in Nat, NEW q \in Nat, p <= q
  PROVE  Tell(s, p) <= Tell(s, q)
<1>. DEFINE k == Least(Around(s, p))
            l == Least(Around(s, q))
<1>1. CASE Around(s, q) = {}
  BY <1>1, TellBound DEF Tell
<1>2. CASE Around(s, q) # {}
  <2>1. l \in Around(s, q) /\ \A j \in Around(s, q) : l <= j
    BY <1>2, LeastAround
  <2>2. l \in DOMAIN s /\ l \in Nat /\ Before(s, l).offset <= q /\ q <= s[l].offset
        /\ Before(s, l).offset < s[l].offset
    BY <2>1, SortedLines DEF Around
  <2>3. Around(s, p) # {}
    <3>1. CASE p < Before(s, l).offset
      BY <2>2, <3>1, AroundBefore
    <3>2. CASE ~(p < Before(s, l).offset)
      <4>1. Before(s, l).offset \in Nat /\ s[l].offset \in Nat
        BY <2>2, SortedLines
      <4>2. l \in Around(s, p)
        BY <2>2, <3>2, <4>1 DEF Around
      <4>. QED
        BY <4>2
    <3>. QED
      BY <3>1, <3>2
  <2>4. k \in Around(s, p) /\ \A j \in Around(s, p) : k <= j
    BY <2>3, LeastAround
  <2>5. k \in DOMAIN s /\ k \in Nat /\ Before(s, k).offset <= p /\ p <= s[k].offset
        /\ Before(s, k).offset < s[k].offset
    BY <2>4, SortedLines DEF Around
  <2>6. Tell(s, p) = Between(s, k, p) /\ Tell(s, q) = Between(s, l, q)
    BY <1>2, <2>3 DEF Tell
  <2>. HIDE DEF k, l
  <2>7. /\ Before(s, k).offset \in Nat /\ s[k].offset \in Nat /\ s[k].time \in Nat
        /\ Before(s, l).offset \in Nat /\ s[l].offset \in Nat
        /\ Before(s, l).time \in Nat
    BY <2>2, <2>5, SortedLines
  <2>8. CASE k = l
    BY <2>1, <2>4, <2>6, <2>8, BetweenGrows
  <2>9. CASE k < l
    <3>1. s[k].time <= Before(s, l).time
      BY <2>2, <2>5, <2>9, SortedLines
    <3>2. /\ Between(s, k, p) \in Nat /\ Between(s, k, p) <= s[k].time
          /\ Between(s, l, q) \in Nat /\ Before(s, l).time <= Between(s, l, q)
      BY <2>1, <2>4, BetweenBounds
    <3>. QED
      BY <2>6, <2>7, <3>1, <3>2
  <2>10. CASE l < k
    <3>1. ~(l \in Around(s, p))
      BY <2>2, <2>4, <2>5, <2>10
    <3>2. p < Before(s, l).offset
      BY <2>2, <2>7, <3>1 DEF Around
    <3>3. s[l].offset <= Before(s, k).offset
      BY <2>2, <2>5, <2>10, SortedLines
    <3>. QED
      BY <2>2, <2>5, <2>7, <3>2, <3>3
  <2>. QED
    BY <2>2, <2>5, <2>8, <2>9, <2>10
<1>. QED
  BY <1>1, <1>2

(* A line added at the end takes no told time back, of a place or of the   *)
(* whole: for the places between lines nothing changes.                    *)
LEMMA TellAppend ==
  ASSUME NEW s, Sorted(s), NEW line \in Line, NEW r, r = Append(s, line), Sorted(r),
         NEW p \in Nat
  PROVE  Tell(s, p) <= Tell(r, p) /\ End(s).time <= End(r).time
<1>1. /\ s \in Seq(Line) /\ Len(s) \in Nat /\ DOMAIN s = 1 .. Len(s)
      /\ Len(r) = Len(s) + 1 /\ DOMAIN r = 1 .. Len(s) + 1
      /\ \A k \in DOMAIN s : r[k] = s[k]
  BY DEF Sorted
<1>2. /\ \A k \in DOMAIN s : k \in DOMAIN r /\ Before(r, k) = Before(s, k)
      /\ Before(r, Len(s) + 1) = End(s)
  <2>1. \A k \in DOMAIN s : k \in DOMAIN r /\ Before(r, k) = Before(s, k)
    BY <1>1 DEF Before
  <2>2. CASE s = <<>>
    BY <1>1, <2>2 DEF Before, End
  <2>3. CASE s # <<>>
    <3>1. Len(s) \in DOMAIN s /\ Len(s) + 1 # 1 /\ (Len(s) + 1) - 1 = Len(s)
      BY <1>1, <2>3
    <3>. QED
      BY <1>1, <2>3, <3>1 DEF Before, End
  <2>. QED
    BY <2>1, <2>2, <2>3
<1>3. r # <<>> /\ End(r) = r[Len(s) + 1]
  BY <1>1 DEF End
<1>4. Len(s) + 1 \in DOMAIN r
  BY <1>1
<1>5. End(s).time <= End(r).time
  BY <1>2, <1>3, <1>4, SortedLines
<1>6. /\ Around(s, p) \subseteq Around(r, p)
      /\ \A k \in Around(r, p) : k \in Around(s, p) \/ k = Len(s) + 1
  BY <1>1, <1>2 DEF Around
<1>7. CASE Around(s, p) = {}
  <2>1. Tell(s, p) = End(s).time
    BY <1>7 DEF Tell
  <2>2. CASE Around(r, p) = {}
    BY <1>5, <2>1, <2>2 DEF Tell
  <2>3. CASE Around(r, p) # {}
    <3>1. Least(Around(r, p)) \in Around(r, p)
      BY <2>3, LeastAround
    <3>2. Least(Around(r, p)) = Len(s) + 1 /\ Len(s) + 1 \in Around(r, p)
      BY <1>6, <1>7, <3>1
    <3>3. Tell(r, p) = Between(r, Len(s) + 1, p)
      BY <2>3, <3>2 DEF Tell
    <3>4. Before(r, Len(s) + 1).time <= Between(r, Len(s) + 1, p)
      BY <3>2, BetweenBounds
    <3>. QED
      BY <1>2, <1>5, <2>1, <3>3, <3>4
  <2>. QED
    BY <2>2, <2>3
<1>8. CASE Around(s, p) # {}
  <2>. DEFINE k == Least(Around(s, p))
              l == Least(Around(r, p))
  <2>1. k \in Around(s, p) /\ \A j \in Around(s, p) : k <= j
    BY <1>8, LeastAround
  <2>2. Around(r, p) # {} /\ k \in Around(r, p)
    BY <1>6, <2>1
  <2>3. l \in Around(r, p) /\ \A j \in Around(r, p) : l <= j
    BY <2>2, LeastAround
  <2>4. Tell(s, p) = Between(s, k, p) /\ Tell(r, p) = Between(r, l, p)
    BY <1>8, <2>2 DEF Tell
  <2>. HIDE DEF k, l
  <2>5. k \in DOMAIN s /\ k \in 1 .. Len(s) /\ l \in DOMAIN r
    BY <1>1, <2>1, <2>3 DEF Around
  <2>6. l <= k
    BY <2>2, <2>3
  <2>7. l \in Around(s, p)
    BY <1>1, <1>6, <2>3, <2>5, <2>6
  <2>8. k <= l
    BY <2>1, <2>7
  <2>9. k = l
    BY <1>1, <2>5, <2>6, <2>8
  <2>10. Between(r, k, p) = Between(s, k, p)
    BY <1>1, <1>2, <2>5 DEF Between
  <2>11. Tell(s, p) \in Nat
    BY TellBound
  <2>. QED
    BY <1>5, <2>4, <2>9, <2>10, <2>11
<1>. QED
  BY <1>7, <1>8

(* What is told of the place a seek to the time of a line goes to.         *)
LEMMA TellOfLine ==
  ASSUME NEW s, Sorted(s), NEW k \in DOMAIN s,
         \A j \in DOMAIN s \ {k} : s[j].offset # s[k].offset
  PROVE  Tell(s, s[k].offset) = s[k].time
<1>. DEFINE p == s[k].offset
<1>1. /\ Len(s) \in Nat /\ DOMAIN s = 1 .. Len(s) /\ k \in Nat
      /\ p \in Nat /\ s[k].time \in Nat
  BY SortedLines
<1>2. \A j \in DOMAIN s : j < k => s[j].offset < p
  <2>1. ASSUME NEW j \in DOMAIN s, j < k PROVE s[j].offset < p
    <3>1. s[j].offset \in Nat
      BY SortedLines
    <3>2. s[j].offset <= p
      BY <2>1 DEF Sorted
    <3>3. s[j].offset # p
      BY <1>1, <2>1
    <3>. QED
      BY <1>1, <3>1, <3>2, <3>3
  <2>. QED
    BY <2>1
<1>3. \A j \in Around(s, p) : ~(j < k)
  <2>1. ASSUME NEW j \in Around(s, p), j < k PROVE FALSE
    <3>1. j \in DOMAIN s /\ p <= s[j].offset /\ s[j].offset \in Nat
      BY SortedLines DEF Around
    <3>. QED
      BY <1>1, <1>2, <2>1, <3>1
  <2>. QED
    BY <2>1
<1>4. CASE k \in Around(s, p)
  <2>1. Least(Around(s, p)) \in Around(s, p) /\ Least(Around(s, p)) <= k
    BY <1>1, <1>4, LeastAround
  <2>2. Least(Around(s, p)) = k
    <3>. DEFINE j == Least(Around(s, p))
    <3>1. j \in Nat /\ k \in Nat
      <4>1. \A x \in Around(s, p) : x \in 1 .. Len(s)
        BY <1>1 DEF Around
      <4>2. \A x \in Around(s, p) : x \in Nat
        BY <1>1, <4>1
      <4>. QED
        BY <1>1, <2>1, <4>2
    <3>2. j <= k
      BY <2>1
    <3>4. ~ (j < k)
      BY <1>3, <2>1
    <3>. HIDE DEF j
    <3>3. j = k
      BY <3>1, <3>2, <3>4
    <3>. QED
      BY <3>3 DEF j
  <2>3. Tell(s, p) = Between(s, k, p)
    BY <1>4, <2>2 DEF Tell
  <2>. DEFINE a == Before(s, k)
              dt == s[k].time - a.time
              d == p - a.offset
  <2>4. /\ a.time \in Nat /\ dt \in Nat /\ d \in Nat \ {0}
        /\ s[k].time = a.time + dt
    <3>1. /\ s[k].time \in Nat /\ a.time \in Nat /\ a.time <= s[k].time
          /\ a.offset \in Nat /\ p \in Nat /\ s[k].offset = p
      BY <1>1, SortedLines
    <3>2. a.offset < p
      BY <1>4, <3>1 DEF Around
    <3>. HIDE DEF a
    <3>. QED
      BY <3>1, <3>2
  <2>5. Between(s, k, p) = a.time + (dt * d) \div d
    BY DEF Between
  <2>. HIDE DEF a, dt, d, p
  <2>6. (dt * d) \div d = dt
    BY <2>4, DivOfProduct
  <2>. QED
    BY <2>3, <2>4, <2>5, <2>6 DEF p
<1>5. CASE ~(k \in Around(s, p))
  <2>1. Before(s, k).offset = p
    <3>1. Before(s, k).offset \in Nat /\ Before(s, k).offset <= p
      BY SortedLines
    <3>. QED
      BY <1>1, <1>5, <3>1 DEF Around
  <2>2. k = 1 /\ p = 0
    <3>1. CASE k # 1
      <4>1. k - 1 \in DOMAIN s /\ k - 1 < k /\ Before(s, k) = s[k - 1]
        BY <1>1, <3>1 DEF Before
      <4>2. s[k - 1].offset < p
        BY <1>2, <4>1
      <4>. QED
        BY <1>1, <2>1, <4>1, <4>2
    <3>2. CASE k = 1
      BY <2>1, <3>2 DEF Before, Origin
    <3>. QED
      BY <3>1, <3>2
  <2>3. CASE Around(s, p) = {}
    <3>1. \A l \in DOMAIN s : l = 1
      <4>1. SUFFICES ASSUME NEW l \in DOMAIN s, l # 1 PROVE FALSE
        OBVIOUS
      <4>2. 2 \in DOMAIN s /\ Before(s, 2) = s[1]
        BY <1>1, <4>1 DEF Before
      <4>3. s[2].offset \in Nat /\ s[2].offset # p /\ s[1].offset = p
        BY <2>2, <4>2, SortedLines
      <4>4. 2 \in Around(s, p)
        BY <2>2, <4>2, <4>3 DEF Around
      <4>. QED
        BY <2>3, <4>4
    <3>2. Len(s) \in DOMAIN s /\ s # <<>>
      BY <1>1
    <3>3. End(s) = s[k]
      BY <2>2, <3>1, <3>2 DEF End
    <3>. QED
      BY <2>3, <3>3 DEF Tell
  <2>4. CASE Around(s, p) # {}
    <3>. DEFINE l == Least(Around(s, p))
    <3>1. l \in Around(s, p)
      BY <1>1, <2>4, LeastAround
    <3>2. Tell(s, p) = Between(s, l, p)
      BY <2>4 DEF Tell
    <3>. HIDE DEF l
    <3>3. l \in DOMAIN s /\ Before(s, l).offset <= p /\ Before(s, l).offset < s[l].offset
      BY <3>1 DEF Around
    <3>4. l \in Nat /\ l # 1 /\ k < l
      BY <1>1, <1>5, <2>2, <3>1, <3>3
    <3>5. l - 1 \in DOMAIN s /\ Before(s, l) = s[l - 1] /\ s[l - 1].offset \in Nat
      BY <1>1, <3>3, <3>4, SortedLines DEF Before
    <3>6. s[l - 1].offset = p
      BY <1>1, <2>2, <3>3, <3>5
    <3>7. l - 1 = k
      BY <3>5, <3>6
    <3>8. /\ Before(s, l) = s[k] /\ s[l].time \in Nat /\ s[l].offset \in Nat
          /\ s[k].offset < s[l].offset
      BY <3>3, <3>5, <3>7, SortedLines
    <3>. DEFINE dt == s[l].time - s[k].time
                d == s[l].offset - p
    <3>9. dt \in Int /\ d \in Nat \ {0}
      BY <1>1, <3>8
    <3>10. Between(s, l, p) = s[k].time + (dt * (p - p)) \div d
      BY <3>8 DEF Between
    <3>. HIDE DEF p, dt, d
    <3>11. p - p = 0 /\ dt * 0 = 0 /\ 0 \div d = 0
      BY <1>1, <3>9, DivOfProduct
    <3>. QED
      BY <1>1, <3>2, <3>10, <3>11 DEF p
  <2>. QED
    BY <2>3, <2>4
<1>. QED
  BY <1>4, <1>5

(* The tell functions of the module are those of its index.                *)
LEMMA TellOfIndex ==
  /\ IInv => Sorted(index)
  /\ \A p : TellPositionTime(p) = Tell(index, p)
  /\ index # <<>> => TellTotalTime = End(index).time
  /\ index = <<>> => TellTotalTime = -1
<1>1. IInv => Sorted(index)
  BY DEF IInv, TypeOK, IndexInOrder, Sorted
<1>2. ASSUME NEW p PROVE TellPositionTime(p) = Tell(index, p)
  <2>1. \A k : LineBefore(k) = Before(index, k)
    BY DEF LineBefore, Before, Origin
  <2>2. LastLine = End(index)
    BY DEF LastLine, End, Origin
  <2>. QED
    BY <2>1, <2>2 DEF TellPositionTime, Tell, Around, Between
<1>3. /\ index # <<>> => TellTotalTime = End(index).time
      /\ index = <<>> => TellTotalTime = -1
  BY DEF TellTotalTime, LastLine, End, Origin
<1>. QED
  BY <1>1, <1>2, <1>3

(* The time a player shows grows with its place and is at most the whole.  *)
LEMMA TimesTold == IInv => TimeGrows
<1>. SUFFICES ASSUME IInv PROVE TimeGrows
  OBVIOUS
<1>1. Sorted(index) /\ size \in Nat
  BY TellOfIndex DEF IInv, TypeOK
<1>2. ASSUME NEW p \in 0 .. size, NEW q \in 0 .. size, p <= q
      PROVE  TellPositionTime(p) <= TellPositionTime(q)
  <2>1. p \in Nat /\ q \in Nat
    BY <1>1
  <2>2. Tell(index, p) <= Tell(index, q)
    BY <1>1, <1>2, <2>1, TellGrows
  <2>. QED
    BY <2>2, TellOfIndex
<1>3. ASSUME index # <<>>, NEW p \in 0 .. size
      PROVE  TellPositionTime(p) <= TellTotalTime
  <2>1. p \in Nat
    BY <1>1
  <2>2. Tell(index, p) <= End(index).time
    BY <1>1, <2>1, TellBound
  <2>. QED
    BY <1>3, <2>2, TellOfIndex
<1>. QED
  BY <1>2, <1>3 DEF TimeGrows

(* A seek to the time of a line, and back.                                 *)
LEMMA SeekAndTell == IInv => SeekThenTell
<1>. SUFFICES ASSUME IInv, NEW k \in DOMAIN index,
                     \A j \in DOMAIN index \ {k} : /\ index[j].time # index[k].time
                                                  /\ index[j].offset # index[k].offset,
                     index[k].time > 0
              PROVE  LET place == SeekOffset(index[k].time, 0)
                     IN  /\ TellPositionTime(place) = index[k].time
                         /\ TellCurrentTime(place) = index[k].time
  BY DEF SeekThenTell
<1>. DEFINE t == index[k].time
            p == index[k].offset
            reached == {j \in DOMAIN index : t <= index[j].time}
            after == {j \in DOMAIN index : p <= index[j].offset}
<1>1. Sorted(index)
  BY TellOfIndex
<1>2. /\ Len(index) \in Nat /\ DOMAIN index = 1 .. Len(index)
      /\ \A j \in DOMAIN index : index[j].time \in Nat /\ index[j].offset \in Nat
  BY <1>1, SortedLines
<1>3. \A j \in DOMAIN index : j < k => index[j].time < t /\ index[j].offset < p
  <2>1. ASSUME NEW j \in DOMAIN index, j < k
        PROVE  index[j].time < t /\ index[j].offset < p
    <3>1. /\ index[j].time <= t /\ index[j].time # t
          /\ index[j].offset <= p /\ index[j].offset # p
      BY <1>1, <1>2, <2>1 DEF Sorted
    <3>. QED
      BY <1>2, <3>1
  <2>. QED
    BY <2>1
<1>4. Least(reached) = k
  <2>1. reached \subseteq Nat /\ k \in reached
    BY <1>2
  <2>2. Least(reached) \in reached /\ Least(reached) <= k
    BY <2>1, LeastOf
  <2>. QED
    BY <1>2, <1>3, <2>2
<1>5. Least(after) = k
  <2>1. after \subseteq Nat /\ k \in after
    BY <1>2
  <2>2. Least(after) \in after /\ Least(after) <= k
    BY <2>1, LeastOf
  <2>. QED
    BY <1>2, <1>3, <2>2
<1>6. SeekOffset(t, 0) = p
  <2>1. reached # {} /\ t # 0
    BY <1>2
  <2>2. SeekOffset(t, 0) = Aligned(index[Least(reached)].offset, 0)
    BY <2>1 DEF SeekOffset
  <2>. QED
    BY <1>4, <2>2 DEF Aligned
<1>7. TellPositionTime(p) = t
  BY <1>1, TellOfLine, TellOfIndex
<1>8. TellCurrentTime(p) = t
  <2>1. after # {}
    BY <1>2
  <2>. QED
    BY <1>5, <2>1 DEF TellCurrentTime
<1>. QED
  BY <1>6, <1>7, <1>8

(* What a player reads out of the index is right at any moment of the      *)
(* recording, whatever the PCRs do: seeks end in the file, times grow with *)
(* places, and a seek to a line's time tells that time (segment.c:451-560). *)
THEOREM ReadsAreRight == Spec => []IndexReads
<1>1. IInv => SeekInFile
  BY SeekBound, NumbersAssumption, IInvParts DEF SeekInFile, PlaceInv
<1>2. IInv => IndexReads
  BY <1>1, TimesTold, SeekAndTell DEF IndexReads
<1>. QED
  BY <1>2, IndexSound, PTL

(* No step of the writer takes back the time of a place or of the whole    *)
(* segment, so a player beside the recording never sees its time run back. *)
THEOREM TimeIsNotTakenBack == Spec => ToldTimeStays
<1>. DEFINE Stays == \A p \in 0 .. size :
                       /\ TellPositionTime(p) <= TellPositionTime(p)'
                       /\ TellTotalTime <= TellTotalTime'
<1>1. ASSUME IInv, IInv', [Next]_vars PROVE Stays
  <2>1. Sorted(index) /\ size \in Nat
    BY <1>1, TellOfIndex DEF IInv, TypeOK
  <2>2. Sorted(index')
    BY <1>1 DEF IInv, TypeOK, IndexInOrder, Sorted
  <2>3. index' = index \/ \E line \in Line : index' = Append(index, line)
    <3>1. ASSUME NEW pts \in Pts, NEW offset \in 0 .. size, UpdatePts(pts, offset)
          PROVE  index' = index \/ \E line : index' = Append(index, line)
      BY <3>1 DEF UpdatePts
    <3>2. ASSUME NEW pts \in Pts, UpdatePtsForce(pts)
          PROVE  \E line : index' = Append(index, line)
      BY <3>2 DEF UpdatePtsForce
    <3>3. index' = index \/ \E line : index' = Append(index, line)
      BY <1>1, <3>1, <3>2 DEF Next, vars, Write, Read, Seek
    <3>4. ASSUME NEW line, index' = Append(index, line) PROVE line \in Line
      <4>1. index \in Seq(Line) /\ index' \in Seq(Line)
        BY <2>1, <2>2 DEF Sorted
      <4>2. Len(index) + 1 \in DOMAIN index' /\ index'[Len(index) + 1] = line
        BY <3>4, <4>1
      <4>. QED
        BY <4>1, <4>2
    <3>. QED
      BY <3>3, <3>4
  <2>4. /\ \A p : TellPositionTime(p) = Tell(index, p)
        /\ \A p : TellPositionTime(p)' = Tell(index', p)
        /\ TellTotalTime = IF index = <<>> THEN -1 ELSE End(index).time
        /\ TellTotalTime' = IF index' = <<>> THEN -1 ELSE End(index').time
    <3>1. \A p : TellPositionTime(p) = Tell(index, p)
      BY TellOfIndex
    <3>2. ASSUME NEW p PROVE TellPositionTime(p)' = Tell(index', p)
      <4>1. \A k : LineBefore(k)' = Before(index', k)
        BY DEF LineBefore, Before, Origin
      <4>2. LastLine' = End(index')
        BY DEF LastLine, End, Origin
      <4>. QED
        BY <4>1, <4>2 DEF TellPositionTime, Tell, Around, Between
    <3>. QED
      BY <3>1, <3>2 DEF TellTotalTime, LastLine, End, Origin
  <2>5. ASSUME NEW p \in 0 .. size
        PROVE  /\ Tell(index, p) <= Tell(index', p)
               /\ TellTotalTime <= TellTotalTime'
    <3>1. p \in Nat
      BY <2>1
    <3>2. /\ Tell(index, p) \in Nat /\ End(index).time \in Nat /\ End(index').time \in Nat
      BY <2>1, <2>2, <3>1, TellBound, SortedLines
    <3>3. CASE index' = index
      BY <2>4, <3>2, <3>3
    <3>4. CASE \E line \in Line : index' = Append(index, line)
      <4>1. PICK line \in Line : index' = Append(index, line)
        BY <3>4
      <4>2. /\ Tell(index, p) <= Tell(index', p)
            /\ End(index).time <= End(index').time
        BY <2>1, <2>2, <3>1, <4>1, TellAppend
      <4>3. index' # <<>>
        BY <2>1, <4>1 DEF Sorted
      <4>. QED
        BY <2>4, <3>2, <4>2, <4>3
    <3>. QED
      BY <2>3, <3>3, <3>4
  <2>. QED
    BY <2>4, <2>5
<1>. QED
  BY <1>1, IndexSound, PTL DEF Spec, ToldTimeStays

-----------------------------------------------------------------------------
\* The files of a recording: the inductive invariant.

Steps == {"idle", "wipe", "ts", "open", "begin", "unopened", "unstored", "link",
          "run", "half", "failed", "all", "close"}

Recs == [at : Steps, id : Ids]
        \cup [at : Steps, id : Ids, then : {"next", "stop"}]

Files == {"ts", "idx", "dat", "going"}

\* The segment is not in the list yet, or it is in it.
Fresh == rec.at \in {"ts", "open", "begin", "unopened", "unstored", "link"}
InList == rec.at \in {"run", "half", "failed", "all", "close"}

Types ==
  /\ there \in [Ids -> SUBSET Files]
  /\ session \in Nat
  /\ dat \in [Ids -> 1 .. session \cup {None}]
  /\ wrote \in [Ids -> 1 .. session \cup {None}]
  /\ list # None => list \in Seq(Ids)
  /\ all # None => all \in Seq([id : Ids, by : 1 .. session])
  /\ segments \subseteq Ids /\ stranded \subseteq Ids /\ unopened \subseteq Ids
  /\ rec \in Recs
  /\ ~At("idle") => session >= 1
  /\ At("all") => dat[rec.id] = session
  /\ Written => all # None

Listed == IF list = None THEN {} ELSE ToSet(list)

\* The list counts up, and the segment being recorded comes after it or is
\* in it.  The segments the wrapper knows are listed, the last of the list
\* among them while one is recorded, and none once it is stopped.
ListInv ==
  /\ list # None => /\ list # <<>>
                    /\ \A k \in DOMAIN list : list[k] = Head(list) + k - 1
  /\ Fresh /\ list # None => rec.id = Last(list) + 1
  /\ InList => /\ list # None /\ rec.id \in Listed
               /\ Last(list) \in segments
  /\ segments \subseteq Listed
  /\ rec.at \in {"idle", "wipe"} => segments = {}

KeepInv == Types /\ ListInv

\* The files of every segment: without its .ts none has an info; of a listed
\* segment that was opened they are all there, and the info is of the data.
SegmentsInv ==
  /\ \A i \in Ids : "ts" \notin there[i] /\ "dat" \in there[i] => dat[i] = None
  /\ \A i \in Listed \ unopened : Readable(i) /\ dat[i] \in {None, wrote[i]}
  /\ list = None =>
       \A i \in Ids : Readable(i) /\ dat[i] # None => dat[i] = wrote[i]

\* The files of the segment being recorded.
CurrentInv ==
  /\ At("ts") /\ list = None => "ts" \notin there[rec.id]
  /\ At("open") /\ list = None => ("dat" \in there[rec.id] => dat[rec.id] = None)
  /\ Written => there[rec.id] = Opened /\ rec.id \notin unopened
  /\ At("open") \/ Written => wrote[rec.id] = session
  /\ rec.at \in {"link", "run", "all"} => dat[rec.id] = session
  /\ rec.at \in {"begin", "unstored", "half"} => dat[rec.id] = None
  /\ At("unopened") => rec.id \in unopened

\* The entries are those of listed segments, and say who wrote them; a listed
\* segment that was opened has one unless it was interrupted or is still being
\* recorded.
EntriesInv ==
  /\ all = None => Listed \subseteq unopened
  /\ all # None =>
       \A k \in DOMAIN all : /\ all[k].id \in Listed \ unopened
                             /\ all[k].by = wrote[all[k].id]
  /\ \A i \in Listed \ unopened :
       \/ \E k \in DOMAIN all : all[k].id = i
       \/ i \in stranded
       \/ rec.id = i /\ rec.at \in {"run", "half", "all"}

\* What the .stats file counts is listed.
CountsInv == stats # None => stats \subseteq Listed

RightInv == SegmentsInv /\ CurrentInv /\ EntriesInv /\ CountsInv /\ GoingIsWritten

FilesIInv == KeepInv /\ (~At("wipe") => RightInv)

-----------------------------------------------------------------------------
\* Sequences, numbers, and the record of the recorder.

(* The first of the entries of a segment.                                   *)
LEMMA MinOf ==
  ASSUME NEW S, S \subseteq Nat, S # {}
  PROVE  Min(S) \in S
<1>1. PICK R : IsWellFoundedOn(R, Nat) /\ \A j, k \in Nat : <<j, k>> \in R <=> j < k
  BY LessRelation
<1>2. PICK k \in S : \A j \in S : ~ (<<j, k>> \in R)
  <2>1. IsWellFoundedOn(R, Nat)
    BY <1>1
  <2>. QED
    BY <2>1, WFMin
<1>3. ASSUME NEW j \in S PROVE k <= j
  <2>1. k \in Nat /\ j \in Nat
    OBVIOUS
  <2>2. ~ (j < k)
    BY <1>1, <1>2, <2>1, Zenon
  <2>. QED
    BY <2>1, <2>2
<1>. QED
  BY <1>3 DEF Min

(* The greatest id of a set of them.                                        *)
LEMMA MaxOf ==
  ASSUME NEW S, S \subseteq Ids, S # {}
  PROVE  Max(S) \in S /\ \A j \in S : j <= Max(S)
<1>1. S \subseteq 0 .. MaxId /\ MaxId \in Nat
  BY BoundAssumption DEF Ids
<1>. DEFINE T == {MaxId - j : j \in S}
<1>2. T \subseteq Nat /\ T # {}
  <2>1. ASSUME NEW j \in S PROVE MaxId - j \in Nat
    BY <1>1
  <2>2. PICK j \in S : TRUE
    OBVIOUS
  <2>. QED
    BY <2>1, <2>2
<1>3. PICK k \in S : \A j \in S : MaxId - k <= MaxId - j
  <2>1. PICK R : IsWellFoundedOn(R, Nat) /\ \A j, k \in Nat : <<j, k>> \in R <=> j < k
    BY LessRelation
  <2>2. PICK m \in T : \A j \in T : ~ (<<j, m>> \in R)
    <3>1. IsWellFoundedOn(R, Nat)
      BY <2>1
    <3>. QED
      BY <3>1, <1>2, WFMin
  <2>3. PICK k \in S : m = MaxId - k
    BY <2>2
  <2>4. ASSUME NEW j \in S PROVE MaxId - k <= MaxId - j
    <3>1. m \in Nat /\ MaxId - j \in T /\ MaxId - j \in Nat
      BY <1>2, <2>2
    <3>2. ~ (MaxId - j < m)
      BY <2>1, <2>2, <3>1, Zenon
    <3>. QED
      BY <3>1, <3>2, <2>3
  <2>. QED
    BY <2>4
<1>4. \A j \in S : k >= j
  BY <1>1, <1>3
<1>5. Max(S) \in S /\ \A j \in S : Max(S) >= j
  BY <1>4 DEF Max
<1>. QED
  BY <1>1, <1>5

(* A sequence with one more element.                                        *)
LEMMA Appended ==
  ASSUME NEW S, NEW s \in Seq(S), NEW e \in S
  PROVE  /\ Append(s, e) \in Seq(S) /\ Append(s, e) # <<>>
         /\ Len(Append(s, e)) = Len(s) + 1
         /\ Last(Append(s, e)) = e
         /\ ToSet(Append(s, e)) = ToSet(s) \cup {e}
         /\ s # <<>> => Head(Append(s, e)) = Head(s)
         /\ \A k \in DOMAIN s : k \in DOMAIN Append(s, e) /\ Append(s, e)[k] = s[k]
         /\ DOMAIN Append(s, e) = DOMAIN s \cup {Len(s) + 1}
         /\ Append(s, e)[Len(s) + 1] = e
<1>. DEFINE a == Append(s, e)
<1>1. /\ a \in Seq(S) /\ Len(a) = Len(s) + 1 /\ Len(s) \in Nat
      /\ DOMAIN s = 1 .. Len(s) /\ DOMAIN a = 1 .. Len(s) + 1
      /\ a[Len(s) + 1] = e /\ \A k \in 1 .. Len(s) : a[k] = s[k]
  OBVIOUS
<1>2. a # <<>> /\ Last(a) = e
  BY <1>1 DEF Last
<1>3. DOMAIN a = DOMAIN s \cup {Len(s) + 1}
  BY <1>1
<1>4. ToSet(a) = ToSet(s) \cup {e}
  BY <1>1, <1>3 DEF ToSet
<1>5. s # <<>> => Head(a) = Head(s)
  BY <1>1
<1>. QED
  BY <1>1, <1>2, <1>3, <1>4, <1>5

(* A sequence over a set is one over a larger set.                          *)
LEMMA WiderSeq ==
  ASSUME NEW S, NEW T, S \subseteq T, NEW s \in Seq(S)
  PROVE  s \in Seq(T)
OBVIOUS

(* The empty sequence is one of any.                                        *)
LEMMA EmptySeq ==
  ASSUME NEW S
  PROVE  <<>> \in Seq(S)
OBVIOUS

(* A sequence of one element.                                               *)
LEMMA Single ==
  ASSUME NEW S, NEW e \in S
  PROVE  /\ <<e>> \in Seq(S) /\ <<e>> # <<>> /\ Len(<<e>>) = 1
         /\ Last(<<e>>) = e /\ Head(<<e>>) = e
         /\ ToSet(<<e>>) = {e} /\ DOMAIN <<e>> = {1} /\ <<e>>[1] = e
<1>1. /\ <<e>> \in Seq(S) /\ <<e>> # <<>> /\ Len(<<e>>) = 1
      /\ Head(<<e>>) = e /\ <<e>>[1] = e /\ DOMAIN <<e>> = {1}
  OBVIOUS
<1>. QED
  BY <1>1 DEF Last, ToSet

(* Ends of a non-empty sequence.                                            *)
LEMMA Ends ==
  ASSUME NEW S, NEW s \in Seq(S), s # <<>>
  PROVE  /\ Len(s) \in Nat /\ Len(s) >= 1 /\ DOMAIN s = 1 .. Len(s)
         /\ Last(s) \in S /\ Head(s) \in S /\ Head(s) = s[1]
         /\ Last(s) = s[Len(s)] /\ Last(s) \in ToSet(s)
<1>1. Len(s) \in Nat /\ Len(s) >= 1 /\ DOMAIN s = 1 .. Len(s) /\ Head(s) = s[1]
  OBVIOUS
<1>2. s[1] \in S /\ s[Len(s)] \in S
  BY <1>1
<1>. QED
  BY <1>1, <1>2 DEF Last, ToSet

(* What Go changes.                                                         *)
LEMMA Gone ==
  ASSUME rec \in Recs, NEW step \in Steps, Go(step)
  PROVE  rec' \in Recs /\ rec'.at = step /\ rec'.id = rec.id
<1>1. rec' = [rec EXCEPT !.at = step]
  BY DEF Go
<1>2. CASE rec \in [at : Steps, id : Ids]
  BY <1>1, <1>2 DEF Recs
<1>3. CASE rec \in [at : Steps, id : Ids, then : {"next", "stop"}]
  BY <1>1, <1>3 DEF Recs
<1>. QED
  BY <1>2, <1>3 DEF Recs

(* Where the recorder is.                                                   *)
LEMMA RecIs ==
  ASSUME rec \in Recs
  PROVE  rec.at \in Steps /\ rec.id \in Ids
BY DEF Recs

-----------------------------------------------------------------------------
\* Types and the list.

(* A number or None stays one in the next session.                         *)
LEMMA OneMoreSession ==
  ASSUME session \in Nat, session' = session + 1
  PROVE  /\ (1 .. session \cup {None}) \subseteq (1 .. session' \cup {None})
         /\ [id : Ids, by : 1 .. session] \subseteq [id : Ids, by : 1 .. session']
<1>1. 1 .. session \subseteq 1 .. session'
  OBVIOUS
<1>. QED
  BY <1>1

(* The numbers of the segments are those of the list, so that the next one  *)
(* is not among them.                                                       *)
LEMMA NextIsNew ==
  ASSUME list \in Seq(Ids), list # <<>>,
         \A k \in DOMAIN list : list[k] = Head(list) + k - 1
  PROVE  /\ Last(list) \in Ids /\ Last(list) \in ToSet(list)
         /\ Last(list) = Head(list) + Len(list) - 1
         /\ Last(list) + 1 \notin ToSet(list)
         /\ \A i \in ToSet(list) : i <= Last(list)
<1>1. /\ Len(list) \in Nat /\ Len(list) >= 1 /\ DOMAIN list = 1 .. Len(list)
      /\ Last(list) \in Ids /\ Head(list) \in Ids
      /\ Last(list) = list[Len(list)] /\ Last(list) \in ToSet(list)
  BY Ends
<1>2. Head(list) \in Nat
  BY <1>1, BoundAssumption DEF Ids
<1>3. Last(list) = Head(list) + Len(list) - 1
  BY <1>1
<1>4. ASSUME NEW i \in ToSet(list) PROVE i <= Last(list) /\ i # Last(list) + 1
  <2>1. PICK k \in DOMAIN list : i = list[k]
    BY DEF ToSet
  <2>2. k \in 1 .. Len(list) /\ i = Head(list) + k - 1
    BY <1>1, <2>1
  <2>. QED
    BY <1>1, <1>2, <1>3, <2>2
<1>. QED
  BY <1>1, <1>3, <1>4

(* NextId follows the list, or the .ts files if there is none.              *)
LEMMA NextIdIs ==
  ASSUME KeepInv, NextId \in Ids
  PROVE  /\ list # None => NextId = Last(list) + 1
         /\ list = None => "ts" \notin there[NextId]
<1>1. CASE list # None
  <2>1. list \in Seq(Ids) /\ list # <<>>
    BY <1>1 DEF KeepInv, Types, ListInv
  <2>2. Last(list) \in ToSet(list)
    BY <2>1, Ends
  <2>3. GetList = ToSet(list) /\ LastOfList = Last(list) /\ GetList # {}
    BY <1>1, <2>2 DEF GetList, LastOfList
  <2>. QED
    BY <1>1, <2>3 DEF NextId
<1>2. CASE list = None
  <2>1. GetList = {i \in Ids : "ts" \in there[i]} /\ LastOfList = Max(GetList)
    BY <1>2 DEF GetList, LastOfList
  <2>2. CASE GetList = {}
    BY <1>2, <2>1, <2>2
  <2>3. CASE GetList # {}
    <3>1. GetList \subseteq Ids
      BY <2>1
    <3>2. Max(GetList) \in GetList /\ \A j \in GetList : j <= Max(GetList)
      BY <2>3, <3>1, MaxOf
    <3>3. NextId = Max(GetList) + 1 /\ Max(GetList) \in Nat
      BY <2>1, <2>3, <3>1, <3>2, BoundAssumption DEF NextId, Ids
    <3>4. NextId \notin GetList
      BY <3>2, <3>3
    <3>. QED
      BY <1>2, <2>1, <3>4
  <2>. QED
    BY <2>2, <2>3
<1>. QED
  BY <1>1, <1>2

(* What linking a segment that follows the list does to it.                 *)
LEMMA LinkIs ==
  ASSUME KeepInv, NEW i \in Ids, list # None => i = Last(list) + 1
  PROVE  /\ LinkOf(i) \in Seq(Ids) /\ LinkOf(i) # None /\ LinkOf(i) # <<>>
         /\ \A k \in DOMAIN LinkOf(i) : LinkOf(i)[k] = Head(LinkOf(i)) + k - 1
         /\ Last(LinkOf(i)) = i
         /\ ToSet(LinkOf(i)) = Listed \cup {i}
<1>1. CASE list = None
  <2>1. LinkOf(i) = <<i>> /\ Listed = {}
    BY <1>1 DEF LinkOf, Listed
  <2>2. /\ <<i>> \in Seq(Ids) /\ <<i>> # <<>> /\ Last(<<i>>) = i
        /\ Head(<<i>>) = i /\ ToSet(<<i>>) = {i}
        /\ DOMAIN <<i>> = {1} /\ <<i>>[1] = i
    BY Single
  <2>3. i \in Nat
    BY BoundAssumption DEF Ids
  <2>4. \A k \in DOMAIN <<i>> : <<i>>[k] = Head(<<i>>) + k - 1
    BY <2>2, <2>3
  <2>. QED
    BY <2>1, <2>2, <2>4, NoneAssumption
<1>2. CASE list # None
  <2>1. /\ list \in Seq(Ids) /\ list # <<>> /\ i = Last(list) + 1
        /\ \A k \in DOMAIN list : list[k] = Head(list) + k - 1
    BY <1>2 DEF KeepInv, Types, ListInv
  <2>2. LinkOf(i) = Append(list, i) /\ Listed = ToSet(list)
    BY <1>2 DEF LinkOf, Listed
  <2>. DEFINE a == Append(list, i)
  <2>3. /\ a \in Seq(Ids) /\ a # <<>> /\ Last(a) = i
        /\ ToSet(a) = ToSet(list) \cup {i} /\ Head(a) = Head(list)
        /\ \A k \in DOMAIN list : a[k] = list[k]
        /\ DOMAIN a = DOMAIN list \cup {Len(list) + 1}
        /\ a[Len(list) + 1] = i
    BY <2>1, Appended
  <2>4. Last(list) = Head(list) + Len(list) - 1
    BY <2>1, NextIsNew
  <2>5. Head(list) \in Nat /\ Len(list) \in Nat
    BY <2>1, Ends, BoundAssumption DEF Ids
  <2>. HIDE DEF a
  <2>6. ASSUME NEW k \in DOMAIN a PROVE a[k] = Head(a) + k - 1
    <3>1. CASE k \in DOMAIN list
      BY <2>1, <2>3, <3>1
    <3>2. CASE k = Len(list) + 1
      BY <2>1, <2>3, <2>4, <2>5, <3>2
    <3>. QED
      BY <2>3, <3>1, <3>2
  <2>7. LinkOf(i) = a
    BY <2>2 DEF a
  <2>. QED
    BY <2>2, <2>3, <2>6, <2>7, NoneAssumption
<1>. QED
  BY <1>1, <1>2

(* What Link does to the list.                                              *)
LEMMA LinkedIs ==
  ASSUME KeepInv, Fresh
  PROVE  /\ Linked \in Seq(Ids) /\ Linked # None /\ Linked # <<>>
         /\ \A k \in DOMAIN Linked : Linked[k] = Head(Linked) + k - 1
         /\ Last(Linked) = rec.id
         /\ ToSet(Linked) = Listed \cup {rec.id}
<1>1. rec.id \in Ids /\ (list # None => rec.id = Last(list) + 1)
  BY RecIs DEF KeepInv, Types, ListInv
<1>. QED
  BY <1>1, LinkIs DEF Linked

(* The next segment of a session follows the list.                          *)
LEMMA NextOfSessionIs ==
  ASSUME KeepInv, InList
  PROVE  /\ list # None /\ NextOfSession = Last(list) + 1
         /\ NextOfSession \notin Listed
<1>1. /\ list # None /\ list \in Seq(Ids) /\ list # <<>>
      /\ \A k \in DOMAIN list : list[k] = Head(list) + k - 1
      /\ segments \subseteq Listed /\ Last(list) \in segments
      /\ segments \subseteq Ids /\ Listed = ToSet(list)
  BY DEF KeepInv, Types, ListInv, Listed
<1>2. /\ Last(list) + 1 \notin ToSet(list) /\ Last(list) \in Ids
      /\ \A i \in ToSet(list) : i <= Last(list)
  BY <1>1, NextIsNew
<1>3. Max(segments) \in segments /\ \A j \in segments : j <= Max(segments)
  BY <1>1, MaxOf
<1>4. Max(segments) <= Last(list) /\ Last(list) <= Max(segments)
  BY <1>1, <1>2, <1>3
<1>5. Ids \subseteq Int
  BY BoundAssumption DEF Ids
<1>6. Max(segments) = Last(list)
  <2>1. Max(segments) \in Int /\ Last(list) \in Int
    BY <1>1, <1>2, <1>3, <1>5
  <2>. QED
    BY <1>4, <2>1
<1>7. Last(list) + 1 \notin Listed /\ list # None
  BY <1>1, <1>2
<1>. QED
  BY <1>6, <1>7 DEF NextOfSession

(* Every step keeps the types and the list's order.                         *)
LEMMA KeepNext ==
  ASSUME KeepInv, [FilesNext]_fileVars
  PROVE  KeepInv'
<1>0. /\ Types /\ ListInv /\ rec \in Recs /\ rec.id \in Ids /\ rec.at \in Steps
      /\ session \in Nat
  BY RecIs DEF KeepInv, Types
<1>1. CASE StartNew
  <2>1. /\ UNCHANGED <<files, segments, stranded, unopened>> /\ session' = session + 1
        /\ rec' = [at |-> "wipe", id |-> 0] /\ At("idle")
    BY <1>1 DEF StartNew, Begins
  <2>2. rec' \in Recs /\ rec'.at = "wipe"
    BY <2>1, BoundAssumption DEF Recs, Steps, Ids
  <2>3. /\ (1 .. session \cup {None}) \subseteq (1 .. session' \cup {None})
        /\ [id : Ids, by : 1 .. session] \subseteq [id : Ids, by : 1 .. session']
    BY <1>0, <2>1, OneMoreSession
  <2>4. /\ dat' \in [Ids -> 1 .. session' \cup {None}]
        /\ wrote' \in [Ids -> 1 .. session' \cup {None}]
    BY <1>0, <2>1, <2>3 DEF Types, files
  <2>5. all' # None => all' \in Seq([id : Ids, by : 1 .. session'])
    <3>. DEFINE E == [id : Ids, by : 1 .. session]
             F == [id : Ids, by : 1 .. session']
    <3>1. (all # None => all \in Seq(E)) /\ E \subseteq F /\ all' = all
      BY <1>0, <2>1, <2>3 DEF Types, files
    <3>. HIDE DEF E, F
    <3>2. all' # None => all' \in Seq(F)
      BY <3>1, WiderSeq
    <3>. QED
      BY <3>2 DEF F
  <2>6. Types'
    BY <1>0, <2>1, <2>2, <2>4, <2>5 DEF Types, files, At, Written
  <2>7. ListInv'
    BY <1>0, <2>1, <2>2 DEF ListInv, Listed, files, Fresh, InList, At
  <2>. QED
    BY <2>6, <2>7 DEF KeepInv
<1>2. CASE StartAppend
  <2>1. /\ UNCHANGED <<files, segments, stranded, unopened>> /\ session' = session + 1
        /\ rec' = [at |-> "ts", id |-> NextId] /\ NextId \in Ids
    BY <1>2 DEF StartAppend, Begins
  <2>2. rec' \in Recs /\ rec'.at = "ts" /\ rec'.id = NextId
    BY <2>1 DEF Recs, Steps
  <2>3. /\ (1 .. session \cup {None}) \subseteq (1 .. session' \cup {None})
        /\ [id : Ids, by : 1 .. session] \subseteq [id : Ids, by : 1 .. session']
    BY <1>0, <2>1, OneMoreSession
  <2>4. /\ dat' \in [Ids -> 1 .. session' \cup {None}]
        /\ wrote' \in [Ids -> 1 .. session' \cup {None}]
    BY <1>0, <2>1, <2>3 DEF Types, files
  <2>5. all' # None => all' \in Seq([id : Ids, by : 1 .. session'])
    <3>. DEFINE E == [id : Ids, by : 1 .. session]
             F == [id : Ids, by : 1 .. session']
    <3>1. (all # None => all \in Seq(E)) /\ E \subseteq F /\ all' = all
      BY <1>0, <2>1, <2>3 DEF Types, files
    <3>. HIDE DEF E, F
    <3>2. all' # None => all' \in Seq(F)
      BY <3>1, WiderSeq
    <3>. QED
      BY <3>2 DEF F
  <2>6. Types'
    BY <1>0, <2>1, <2>2, <2>4, <2>5 DEF Types, files, At, Written
  <2>7. list # None => NextId = Last(list) + 1
    BY <2>1, NextIdIs
  <2>8. ListInv'
    BY <1>0, <2>1, <2>2, <2>7 DEF ListInv, Listed, files, Fresh, InList
  <2>. QED
    BY <2>6, <2>8 DEF KeepInv
<1>3. CASE Crash
  <2>1. /\ UNCHANGED <<files, session, unopened>> /\ segments' = {}
        /\ rec' = [at |-> "idle", id |-> 0]
        /\ stranded' \subseteq stranded \cup {rec.id}
    BY <1>3 DEF Crash
  <2>2. rec' \in Recs /\ rec'.at = "idle"
    BY <2>1, BoundAssumption DEF Recs, Steps, Ids
  <2>3. Types'
    BY <1>0, <2>1, <2>2 DEF Types, files, At, Written
  <2>4. ListInv'
    BY <1>0, <2>1, <2>2 DEF ListInv, Listed, files, Fresh, InList
  <2>. QED
    BY <2>3, <2>4 DEF KeepInv
<1>4. CASE WipeSegmentFile
  <2>1. /\ UNCHANGED <<dat, wrote, all, list, rec, segments, session, stranded, unopened>>
        /\ \E i \in Ids : \E part \in there[i] : there' = [there EXCEPT ![i] = @ \ {part}]
    BY <1>4 DEF WipeSegmentFile
  <2>2. there' \in [Ids -> SUBSET Files]
    BY <1>0, <2>1 DEF Types
  <2>3. Types'
    BY <1>0, <2>1, <2>2 DEF Types, At, Written
  <2>4. ListInv'
    BY <1>0, <2>1 DEF ListInv, Listed, Fresh, InList
  <2>. QED
    BY <2>3, <2>4 DEF KeepInv
<1>5. CASE WipeRecordingFile
  <2>1. /\ UNCHANGED <<there, dat, wrote, rec, segments, session, stranded, unopened>>
        /\ all' = all \/ all' = None
        /\ list' = list \/ list' = None
        /\ At("wipe")
    BY <1>5 DEF WipeRecordingFile
  <2>2. Types'
    BY <1>0, <2>1 DEF Types, At, Written
  <2>3. ListInv'
    BY <1>0, <2>1 DEF ListInv, Listed, Fresh, InList, At
  <2>. QED
    BY <2>2, <2>3 DEF KeepInv
<1>6. CASE Wiped
  <2>1. /\ UNCHANGED <<files, segments, session>> /\ Go("ts")
        /\ stranded' = {} /\ unopened' = {}
        /\ list = None /\ At("wipe")
    BY <1>6 DEF Wiped
  <2>2. rec' \in Recs /\ rec'.at = "ts" /\ rec'.id = rec.id
    BY <1>0, <2>1, Gone DEF Steps
  <2>3. Types'
    BY <1>0, <2>1, <2>2 DEF Types, files, At, Written
  <2>4. ListInv'
    BY <1>0, <2>1, <2>2 DEF ListInv, Listed, files, Fresh, InList, At
  <2>. QED
    BY <2>3, <2>4 DEF KeepInv
<1>7. CASE OpenTs
  <2>1. /\ UNCHANGED <<dat, all, list, segments, session, stranded, unopened>> /\ Go("open")
        /\ there' = [there EXCEPT ![rec.id] = @ \cup {"ts"}]
        /\ wrote' = [wrote EXCEPT ![rec.id] = session] /\ At("ts")
    BY <1>7 DEF OpenTs
  <2>2. rec' \in Recs /\ rec'.at = "open" /\ rec'.id = rec.id
    BY <1>0, <2>1, Gone DEF Steps
  <2>3. there' \in [Ids -> SUBSET Files]
    BY <1>0, <2>1 DEF Types, Files
  <2>4. session \in 1 .. session
    BY <1>0, <2>1 DEF Types, At
  <2>5. wrote' \in [Ids -> 1 .. session \cup {None}]
    BY <1>0, <2>1, <2>4 DEF Types
  <2>6. Types'
    BY <1>0, <2>1, <2>2, <2>3, <2>5 DEF Types, At, Written
  <2>7. ListInv'
    BY <1>0, <2>1, <2>2 DEF ListInv, Listed, Fresh, InList, At
  <2>. QED
    BY <2>6, <2>7 DEF KeepInv
<1>8. CASE OpenOthers
  <2>1. /\ UNCHANGED <<wrote, list, segments, session, stranded>> /\ Go("begin")
        /\ unopened' = unopened \ {rec.id}
        /\ there' = [there EXCEPT ![rec.id] = Opened]
        /\ dat' = [dat EXCEPT ![rec.id] = None] /\ At("open")
        /\ all' = IF all = None THEN <<>> ELSE all
    BY <1>8 DEF OpenOthers
  <2>2. rec' \in Recs /\ rec'.at = "begin" /\ rec'.id = rec.id
    BY <1>0, <2>1, Gone DEF Steps
  <2>3. there' \in [Ids -> SUBSET Files]
    BY <1>0, <2>1 DEF Types, Files, Opened
  <2>4. dat' \in [Ids -> 1 .. session \cup {None}]
    BY <1>0, <2>1 DEF Types
  <2>5. all' # None => all' \in Seq([id : Ids, by : 1 .. session])
    BY <1>0, <2>1, EmptySeq DEF Types
  <2>9. all' # None
    BY <2>1, EmptySeq, NoneAssumption
  <2>6. Types'
    BY <1>0, <2>1, <2>2, <2>3, <2>4, <2>5, <2>9 DEF Types, At, Written
  <2>7. ListInv'
    BY <1>0, <2>1, <2>2 DEF ListInv, Listed, Fresh, InList, At
  <2>. QED
    BY <2>6, <2>7 DEF KeepInv
<1>9. CASE StoreBegin
  <2>1. /\ UNCHANGED <<there, wrote, all, list, segments, session, stranded, unopened>> /\ Go("link")
        /\ dat' = [dat EXCEPT ![rec.id] = session] /\ At("begin")
    BY <1>9 DEF StoreBegin
  <2>2. rec' \in Recs /\ rec'.at = "link" /\ rec'.id = rec.id
    BY <1>0, <2>1, Gone DEF Steps
  <2>3. session \in 1 .. session
    BY <1>0, <2>1 DEF Types, At
  <2>4. dat' \in [Ids -> 1 .. session \cup {None}]
    BY <1>0, <2>1, <2>3 DEF Types
  <2>5. Types'
    BY <1>0, <2>1, <2>2, <2>4 DEF Types, At, Written
  <2>6. ListInv'
    BY <1>0, <2>1, <2>2 DEF ListInv, Listed, Fresh, InList, At
  <2>. QED
    BY <2>5, <2>6 DEF KeepInv
<1>10. CASE Link
  <2>1. /\ UNCHANGED <<there, dat, wrote, all, session, stranded, unopened>>
        /\ list' = Linked /\ segments' = segments \cup {rec.id}
    BY <1>10 DEF Link, LinkTo
  <2>2. PICK step \in {"run", "half", "failed"} :
          /\ Go(step) /\ Fresh /\ ~At("open")
          /\ step # "failed" => Written
    BY <1>10 DEF Link, LinkTo, At, Fresh, Written
  <2>3. rec' \in Recs /\ rec'.at = step /\ rec'.id = rec.id
    BY <1>0, <2>2, Gone DEF Steps
  <2>4. /\ Linked \in Seq(Ids) /\ Linked # None /\ Linked # <<>>
        /\ \A k \in DOMAIN Linked : Linked[k] = Head(Linked) + k - 1
        /\ Last(Linked) = rec.id /\ ToSet(Linked) = Listed \cup {rec.id}
    BY <2>2, LinkedIs
  <2>5. Types'
    BY <1>0, <2>1, <2>2, <2>3, <2>4 DEF Types, At, Written, Fresh
  <2>6. segments \subseteq Listed
    BY <1>0 DEF ListInv
  <2>7. ListInv'
    BY <2>1, <2>2, <2>3, <2>4, <2>6 DEF ListInv, Listed, Fresh, InList
  <2>. QED
    BY <2>5, <2>7 DEF KeepInv
<1>11. CASE SaveStatistics
  <2>1. UNCHANGED <<there, dat, wrote, all, list, rec, segments, session, stranded, unopened>>
    BY <1>11 DEF SaveStatistics
  <2>. QED
    BY <1>0, <2>1 DEF KeepInv, Types, ListInv, Listed, Fresh, InList, At, Written
<1>12. CASE StoreEnd
  <2>1. /\ UNCHANGED <<there, wrote, all, list, segments, session, stranded, unopened>>
        /\ dat' = [dat EXCEPT ![rec.id] = session] /\ rec.at \in {"run", "half"}
    BY <1>12 DEF StoreEnd, At
  <2>2. PICK next \in {"next", "stop"} :
           rec' = [at |-> "all", id |-> rec.id, then |-> next]
    BY <1>12 DEF StoreEnd
  <2>3. rec' \in Recs /\ rec'.at = "all" /\ rec'.id = rec.id
    BY <1>0, <2>2 DEF Recs, Steps
  <2>4. session \in 1 .. session
    BY <1>0, <2>1 DEF Types, At
  <2>5. dat' \in [Ids -> 1 .. session \cup {None}] /\ dat'[rec.id] = session
    BY <1>0, <2>1, <2>4 DEF Types
  <2>6. Types'
    BY <1>0, <2>1, <2>3, <2>4, <2>5 DEF Types, At, Written
  <2>7. ListInv'
    BY <1>0, <2>1, <2>3 DEF ListInv, Listed, Fresh, InList, At
  <2>. QED
    BY <2>6, <2>7 DEF KeepInv
<1>13. CASE StoreAllInfo
  <2>1. /\ UNCHANGED <<there, dat, wrote, list, segments, session, stranded, unopened>> /\ Go("close")
        /\ all' = Append(all, [id |-> rec.id, by |-> dat[rec.id]]) /\ At("all")
    BY <1>13 DEF StoreAllInfo, WithEntry
  <2>2. rec' \in Recs /\ rec'.at = "close" /\ rec'.id = rec.id
    BY <1>0, <2>1, Gone DEF Steps
  <2>3. [id |-> rec.id, by |-> dat[rec.id]] \in [id : Ids, by : 1 .. session]
    BY <1>0, <2>1 DEF Types, At
  <2>. DEFINE E == [id : Ids, by : 1 .. session]
           e == [id |-> rec.id, by |-> dat[rec.id]]
  <2>4. all' \in Seq(E) /\ all' # None
    <3>1. all \in Seq(E) /\ e \in E /\ all' = Append(all, e)
      BY <1>0, <2>1, <2>3 DEF Types, At, Written
    <3>2. E \subseteq Entry
      BY <1>0 DEF Entry
    <3>. HIDE DEF E, e
    <3>3. Append(all, e) \in Seq(E)
      BY <3>1, Appended
    <3>4. Append(all, e) \in Seq(Entry)
      BY <3>2, <3>3, WiderSeq
    <3>. QED
      BY <3>1, <3>3, <3>4, NoneAssumption
  <2>5. Types'
    BY <1>0, <2>1, <2>2, <2>4 DEF Types, At, Written
  <2>6. ListInv'
    BY <1>0, <2>1, <2>2 DEF ListInv, Listed, Fresh, InList, At
  <2>. QED
    BY <2>5, <2>6 DEF KeepInv
<1>14. CASE Close
  <2>1. /\ UNCHANGED <<dat, wrote, all, list, session, stranded, unopened>>
        /\ there' = [there EXCEPT ![rec.id] = @ \ {"going"}] /\ At("close")
        /\ \/ rec' = [at |-> "ts", id |-> NextOfSession] /\ NextOfSession \in Ids
              /\ segments' = segments
           \/ rec' = [at |-> "idle", id |-> 0] /\ segments' = {}
    BY <1>14 DEF Close
  <2>2. /\ rec' \in Recs
        /\ (rec'.at = "ts" /\ rec'.id = NextOfSession) \/ rec'.at = "idle"
    BY <1>0, <2>1, BoundAssumption DEF Recs, Steps, Ids
  <2>3. there' \in [Ids -> SUBSET Files]
    BY <1>0, <2>1 DEF Types
  <2>4. Types'
    BY <1>0, <2>1, <2>2, <2>3 DEF Types, At, Written
  <2>5. NextOfSession = Last(list) + 1
    BY <2>1, NextOfSessionIs DEF InList, At
  <2>6. ListInv'
    BY <1>0, <2>1, <2>2, <2>5 DEF ListInv, Listed, Fresh, InList
  <2>. QED
    BY <2>4, <2>6 DEF KeepInv
<1>15. CASE OpenFails
  <2>1. /\ UNCHANGED <<list, segments, session, stranded>> /\ Go("unopened")
        /\ unopened' = unopened \cup {rec.id} /\ At("ts")
        /\ all' = all \/ all' = <<>>
    BY <1>15 DEF OpenFails
  <2>2. PICK some \in SUBSET Opened :
          /\ there' = [there EXCEPT ![rec.id] = @ \cup some]
          /\ wrote' = [wrote EXCEPT ![rec.id] = IF "ts" \in some THEN session ELSE @]
          /\ dat' = [dat EXCEPT ![rec.id] = IF "dat" \in some THEN None ELSE @]
    BY <1>15 DEF OpenFails
  <2>3. rec' \in Recs /\ rec'.at = "unopened" /\ rec'.id = rec.id
    BY <1>0, <2>1, Gone DEF Steps
  <2>4. there' \in [Ids -> SUBSET Files]
    BY <1>0, <2>2 DEF Types, Files, Opened
  <2>5. session \in 1 .. session
    BY <1>0, <2>1 DEF Types, At
  <2>6. wrote' \in [Ids -> 1 .. session \cup {None}]
    BY <1>0, <2>2, <2>5 DEF Types
  <2>7. dat' \in [Ids -> 1 .. session \cup {None}]
    BY <1>0, <2>2 DEF Types
  <2>8. all' # None => all' \in Seq([id : Ids, by : 1 .. session])
    BY <1>0, <2>1, EmptySeq DEF Types
  <2>9. Types'
    BY <1>0, <2>1, <2>3, <2>4, <2>6, <2>7, <2>8 DEF Types, At, Written
  <2>10. ListInv'
    BY <1>0, <2>1, <2>3 DEF ListInv, Listed, Fresh, InList, At
  <2>. QED
    BY <2>9, <2>10 DEF KeepInv
<1>16. CASE DeviceFails
  <2>1. /\ UNCHANGED <<files, segments, session, stranded, unopened>>
        /\ Go("unstored") /\ At("begin")
    BY <1>16 DEF DeviceFails
  <2>2. rec' \in Recs /\ rec'.at = "unstored" /\ rec'.id = rec.id
    BY <1>0, <2>1, Gone DEF Steps
  <2>3. Types'
    BY <1>0, <2>1, <2>2 DEF Types, files, At, Written
  <2>4. ListInv'
    BY <1>0, <2>1, <2>2 DEF ListInv, Listed, files, Fresh, InList, At
  <2>. QED
    BY <2>3, <2>4 DEF KeepInv
<1>17. CASE NextRefused
  <2>1. /\ UNCHANGED <<there, dat, wrote, all, rec, session, stranded>>
        /\ NextOfSession \in Ids /\ list' = LinkOf(NextOfSession)
        /\ segments' = segments \cup {NextOfSession}
        /\ unopened' = unopened \cup {NextOfSession}
        /\ rec.at \in {"run", "half", "failed"}
    BY <1>17 DEF NextRefused
  <2>2. NextOfSession = Last(list) + 1
    BY <2>1, NextOfSessionIs DEF InList
  <2>. DEFINE l == LinkOf(NextOfSession)
  <2>3. /\ l \in Seq(Ids) /\ l # None /\ l # <<>>
        /\ \A k \in DOMAIN l : l[k] = Head(l) + k - 1
        /\ Last(l) = NextOfSession /\ ToSet(l) = Listed \cup {NextOfSession}
    BY <2>1, <2>2, LinkIs
  <2>. HIDE DEF l
  <2>4. list' = l
    BY <2>1 DEF l
  <2>5. Types'
    BY <1>0, <2>1, <2>3, <2>4 DEF Types, At, Written
  <2>6. Listed' = Listed \cup {NextOfSession}
    BY <2>3, <2>4 DEF Listed
  <2>7. rec.id \in Listed /\ segments \subseteq Listed
    BY <1>0, <2>1 DEF ListInv, InList
  <2>8. ListInv'
    BY <2>1, <2>3, <2>4, <2>6, <2>7 DEF ListInv, Fresh, InList
  <2>. QED
    BY <2>5, <2>8 DEF KeepInv
<1>18. CASE StopFails
  <2>1. /\ UNCHANGED <<files, segments, session, unopened>>
        /\ rec' = [at |-> "close", id |-> rec.id, then |-> "stop"]
        /\ stranded' = stranded \cup {rec.id} /\ rec.at \in {"run", "half"}
    BY <1>18 DEF StopFails, At
  <2>2. rec' \in Recs /\ rec'.at = "close" /\ rec'.id = rec.id
    BY <1>0, <2>1 DEF Recs, Steps
  <2>3. Types'
    BY <1>0, <2>1, <2>2 DEF Types, files, At, Written
  <2>4. ListInv'
    BY <1>0, <2>1, <2>2 DEF ListInv, Listed, files, Fresh, InList
  <2>. QED
    BY <2>3, <2>4 DEF KeepInv
<1>19. CASE GiveUp
  <2>1. /\ UNCHANGED <<files, session, unopened>> /\ segments' = {}
        /\ rec' = [at |-> "idle", id |-> 0]
        /\ stranded' \subseteq stranded \cup {rec.id}
    BY <1>19 DEF GiveUp
  <2>2. rec' \in Recs /\ rec'.at = "idle"
    BY <2>1, BoundAssumption DEF Recs, Steps, Ids
  <2>3. Types'
    BY <1>0, <2>1, <2>2 DEF Types, files, At, Written
  <2>4. ListInv'
    BY <1>0, <2>1, <2>2 DEF ListInv, Listed, files, Fresh, InList
  <2>. QED
    BY <2>3, <2>4 DEF KeepInv
<1>20. CASE UNCHANGED fileVars
  BY <1>0, <1>20 DEF fileVars, KeepInv, Types, ListInv, Listed, Fresh, InList, At,
     Written
<1>. QED
  BY <1>1, <1>2, <1>3, <1>4, <1>5, <1>6, <1>7, <1>8, <1>9, <1>10, <1>11, <1>12,
     <1>13, <1>14, <1>15, <1>16, <1>17, <1>18, <1>19, <1>20 DEF FilesNext

(* What the list says of the segment being recorded.                        *)
LEMMA ListedIs ==
  ASSUME KeepInv
  PROVE  /\ Listed \subseteq Ids /\ rec.id \in Ids /\ rec.at \in Steps
         /\ Fresh => rec.id \notin Listed
         /\ InList => rec.id \in Listed /\ list # None
         /\ list = None => Listed = {}
<1>1. rec.id \in Ids /\ rec.at \in Steps
  BY RecIs DEF KeepInv, Types
<1>2. list # None => /\ list \in Seq(Ids) /\ list # <<>>
                     /\ \A k \in DOMAIN list : list[k] = Head(list) + k - 1
  BY DEF KeepInv, Types, ListInv
<1>3. Listed \subseteq Ids
  BY <1>2 DEF Listed, ToSet
<1>4. ASSUME list # None
      PROVE  Last(list) \in Listed /\ Last(list) + 1 \notin Listed
  BY <1>2, <1>4, NextIsNew DEF Listed
<1>. QED
  BY <1>1, <1>3, <1>4 DEF KeepInv, ListInv, Listed

(* Only segments of the list that were opened are recorded ones.            *)
LEMMA RecordedIs ==
  /\ Recorded \subseteq Listed \ unopened
  /\ \A i \in Recorded : Readable(i) /\ dat[i] # None /\ list # None
BY DEF Recorded, Listed

(* No step touches the data of a recorded segment.                          *)
LEMMA StepKeeps ==
  ASSUME KeepInv, [FilesNext]_fileVars, NEW i \in Recorded
  PROVE  wrote'[i] = wrote[i]
<1>1. CASE OpenTs \/ OpenFails
  <2>1. rec.id \notin Listed /\ wrote \in [Ids -> 1 .. session \cup {None}]
    BY <1>1, ListedIs DEF OpenTs, OpenFails, At, Fresh, KeepInv, Types
  <2>2. i # rec.id
    BY <2>1, RecordedIs
  <2>3. \E v : wrote' = [wrote EXCEPT ![rec.id] = v]
    <3>1. CASE OpenTs
      BY <3>1 DEF OpenTs
    <3>2. CASE OpenFails
      <4>1. PICK some : wrote' = [wrote EXCEPT ![rec.id] =
                                    IF "ts" \in some THEN session ELSE @]
        BY <3>2 DEF OpenFails
      <4>. QED
        BY <4>1
    <3>. QED
      BY <1>1, <3>1, <3>2
  <2>. QED
    BY <2>1, <2>2, <2>3
<1>2. CASE UNCHANGED fileVars
  BY <1>2 DEF fileVars
<1>3. CASE StartNew \/ StartAppend \/ Crash \/ Wiped \/ DeviceFails \/ StopFails \/ GiveUp
  BY <1>3 DEF StartNew, StartAppend, Crash, Wiped, DeviceFails, StopFails, GiveUp, files
<1>4. CASE WipeSegmentFile \/ WipeRecordingFile \/ OpenOthers \/ StoreBegin
  BY <1>4 DEF WipeSegmentFile, WipeRecordingFile, OpenOthers, StoreBegin
<1>5. CASE Link \/ NextRefused \/ SaveStatistics \/ StoreEnd \/ StoreAllInfo \/ Close
  BY <1>5 DEF Link, LinkTo, NextRefused, SaveStatistics, StoreEnd, StoreAllInfo, Close
<1>. QED
  BY <1>1, <1>2, <1>3, <1>4, <1>5 DEF FilesNext

(* At the start there are no files.                                         *)
LEMMA KeepInit ==
  FilesInit => KeepInv
<1>. SUFFICES ASSUME FilesInit PROVE KeepInv
  OBVIOUS
<1>1. rec = [at |-> "idle", id |-> 0] /\ 0 \in Ids
  BY BoundAssumption DEF FilesInit, Ids
<1>2. Types
  BY <1>1 DEF FilesInit, Types, Recs, Steps, At, Written
<1>. QED
  BY <1>1, <1>2 DEF FilesInit, KeepInv, ListInv, Fresh, InList

(* Types and the list's order hold always, also when the recorder may be    *)
(* killed while it deletes a recording.                                     *)
THEOREM KeepAlways == FilesSpec => []KeepInv
<1>1. KeepInv /\ [FilesNext]_fileVars => KeepInv'
  BY KeepNext
<1>. QED
  BY <1>1, KeepInit, PTL DEF FilesSpec

(* A recording that is appended to keeps the data of its segments: the next *)
(* segment never has the number of one that is listed.                      *)
THEOREM RecordedStays == FilesSpec => AppendKeeps
<1>1. KeepInv /\ [FilesNext]_fileVars => [\A i \in Recorded : wrote'[i] = wrote[i]]_fileVars
  BY StepKeeps
<1>2. FilesSpec => []KeepInv
  BY KeepAlways
<1>. QED
  BY <1>1, <1>2, PTL DEF FilesSpec, AppendKeeps

-----------------------------------------------------------------------------
\* What the files say.

(* Deleting ends with nothing there.                                        *)
LEMMA WipedRight ==
  ASSUME FilesIInv, Wiped
  PROVE  RightInv'
<1>1. /\ Types /\ rec \in Recs /\ Go("ts") /\ UNCHANGED <<files, segments, session>>
      /\ \A i \in Ids : there[i] = {}
      /\ all = None /\ list = None /\ stats = None
  BY DEF Wiped, FilesIInv, KeepInv, Types
<1>2. rec' \in Recs /\ rec'.at = "ts" /\ rec'.id = rec.id /\ rec.id \in Ids
  BY <1>1, Gone, RecIs DEF Steps
<1>3. Listed' = {}
  BY <1>1 DEF Listed, files
<1>4. \A i \in Ids : ~ Readable(i)' /\ there'[i] = {}
  BY <1>1 DEF Readable, files
<1>5. SegmentsInv'
  BY <1>3, <1>4 DEF SegmentsInv
<1>6. CurrentInv'
  BY <1>2, <1>4 DEF CurrentInv, At, Written
<1>7. EntriesInv' /\ CountsInv'
  BY <1>1, <1>3 DEF EntriesInv, CountsInv, files
<1>8. GoingIsWritten'
  BY <1>2, <1>4 DEF GoingIsWritten, Written
<1>. QED
  BY <1>5, <1>6, <1>7, <1>8 DEF RightInv

(* A new session appends: the files are as they were left.                  *)
LEMMA AppendRight ==
  ASSUME KeepInv, RightInv, StartAppend
  PROVE  RightInv'
<1>1. /\ UNCHANGED <<files, segments, stranded, unopened>> /\ At("idle")
      /\ rec' = [at |-> "ts", id |-> NextId] /\ NextId \in Ids
  BY DEF StartAppend, Begins
<1>2. list = None => "ts" \notin there[NextId]
  BY <1>1, NextIdIs
<1>3. Listed' = Listed /\ \A i \in Ids : Readable(i)' = Readable(i)
  BY <1>1 DEF Listed, files, Readable
<1>4. SegmentsInv'
  BY <1>1, <1>3, ListedIs DEF SegmentsInv, RightInv, files
<1>5. CurrentInv'
  BY <1>1, <1>2 DEF CurrentInv, At, Written, files
<1>6. EntriesInv'
  BY <1>1, <1>3 DEF EntriesInv, RightInv, files, At
<1>7. CountsInv'
  BY <1>1, <1>3 DEF CountsInv, RightInv, files
<1>8. GoingIsWritten'
  BY <1>1 DEF GoingIsWritten, RightInv, files, At, Written
<1>. QED
  BY <1>4, <1>5, <1>6, <1>7, <1>8 DEF RightInv

(* A kill leaves the files as they are and their segment stranded.          *)
LEMMA CrashRight ==
  ASSUME KeepInv, RightInv, Crash, ~At("wipe")
  PROVE  RightInv'
<1>1. /\ UNCHANGED <<files, session, unopened>> /\ rec' = [at |-> "idle", id |-> 0]
      /\ segments' = {} /\ stranded' = stranded \cup {rec.id}
  BY DEF Crash
<1>3. Listed' = Listed /\ \A i \in Ids : Readable(i)' = Readable(i)
  BY <1>1 DEF Listed, files, Readable
<1>4. SegmentsInv'
  BY <1>1, <1>3, ListedIs DEF SegmentsInv, RightInv, files
<1>5. CurrentInv'
  BY <1>1 DEF CurrentInv, At, Written
<1>6. EntriesInv'
  BY <1>1, <1>3 DEF EntriesInv, RightInv, files
<1>7. CountsInv'
  BY <1>1, <1>3 DEF CountsInv, RightInv, files
<1>8. GoingIsWritten'
  BY <1>1 DEF GoingIsWritten, RightInv, files, At, Written
<1>. QED
  BY <1>4, <1>5, <1>6, <1>7, <1>8 DEF RightInv

(* So does giving up a session whose start or switch failed.                *)
LEMMA GiveUpRight ==
  ASSUME KeepInv, RightInv, GiveUp
  PROVE  RightInv'
<1>1. /\ UNCHANGED <<files, session, unopened>> /\ rec' = [at |-> "idle", id |-> 0]
      /\ stranded' = IF At("half") THEN stranded \cup {rec.id} ELSE stranded
      /\ At("failed") \/ At("half")
  BY DEF GiveUp
<1>2. Listed' = Listed /\ \A i \in Ids : Readable(i)' = Readable(i)
  BY <1>1 DEF Listed, files, Readable
<1>3. SegmentsInv'
  BY <1>1, <1>2, ListedIs DEF SegmentsInv, RightInv, files
<1>4. CurrentInv'
  BY <1>1 DEF CurrentInv, At, Written
<1>5. EntriesInv'
  BY <1>1, <1>2 DEF EntriesInv, RightInv, files, At
<1>6. CountsInv'
  BY <1>1, <1>2 DEF CountsInv, RightInv, files
<1>7. GoingIsWritten'
  BY <1>1 DEF GoingIsWritten, RightInv, files, At, Written
<1>. QED
  BY <1>3, <1>4, <1>5, <1>6, <1>7 DEF RightInv

(* A step that only moves the recorder and leaves what it writes open.      *)
LEMMA MovedRight ==
  ASSUME KeepInv, RightInv, UNCHANGED <<files, session, unopened>>,
         rec'.id = rec.id, Written,
         \/ At("begin") /\ rec'.at = "unstored" /\ stranded' = stranded
         \/ rec'.at = "close" /\ stranded' = stranded \cup {rec.id}
  PROVE  RightInv'
<1>1. Listed' = Listed /\ \A i \in Ids : Readable(i)' = Readable(i)
  BY DEF Listed, files, Readable
<1>2. SegmentsInv'
  BY <1>1, ListedIs DEF SegmentsInv, RightInv, files
<1>3. CurrentInv'
  BY DEF CurrentInv, RightInv, files, At, Written
<1>4. EntriesInv'
  BY <1>1 DEF EntriesInv, RightInv, files, At
<1>5. CountsInv'
  BY <1>1 DEF CountsInv, RightInv, files
<1>6. GoingIsWritten'
  BY DEF GoingIsWritten, RightInv, files, At, Written
<1>. QED
  BY <1>2, <1>3, <1>4, <1>5, <1>6 DEF RightInv

(* The device fails while the segment is started, or does not stop.         *)
LEMMA DeviceRight ==
  ASSUME KeepInv, RightInv, DeviceFails \/ StopFails
  PROVE  RightInv'
<1>1. CASE DeviceFails
  <2>1. /\ UNCHANGED <<files, session, unopened, stranded>>
        /\ At("begin") /\ Go("unstored")
    BY <1>1 DEF DeviceFails
  <2>2. rec'.at = "unstored" /\ rec'.id = rec.id
    BY <2>1, Gone DEF KeepInv, Types, Steps
  <2>. QED
    BY <2>1, <2>2, MovedRight DEF Written, At
<1>2. CASE StopFails
  <2>1. /\ UNCHANGED <<files, session, unopened>> /\ rec.at \in {"run", "half"}
        /\ rec'.at = "close" /\ rec'.id = rec.id /\ stranded' = stranded \cup {rec.id}
    BY <1>2 DEF StopFails, At
  <2>. QED
    BY <2>1, MovedRight DEF Written
<1>. QED
  BY <1>1, <1>2

(* The .ts of a segment that is not listed is created.                      *)
LEMMA TsRight ==
  ASSUME KeepInv, RightInv, OpenTs
  PROVE  RightInv'
<1>1. /\ UNCHANGED <<dat, all, list, stats, segments, session, stranded, unopened>>
      /\ there' = [there EXCEPT ![rec.id] = @ \cup {"ts"}]
      /\ wrote' = [wrote EXCEPT ![rec.id] = session] /\ At("ts") /\ Go("open")
  BY DEF OpenTs
<1>2. /\ rec'.at = "open" /\ rec'.id = rec.id /\ rec.id \in Ids
      /\ there \in [Ids -> SUBSET Files] /\ wrote \in [Ids -> 1 .. session \cup {None}]
  BY <1>1, Gone, RecIs DEF KeepInv, Types, Steps
<1>3. Listed' = Listed /\ Listed \subseteq Ids /\ rec.id \notin Listed
  BY <1>1, ListedIs DEF Listed, Fresh, At
<1>4. /\ \A i \in Ids \ {rec.id} : there'[i] = there[i] /\ wrote'[i] = wrote[i]
      /\ there'[rec.id] = there[rec.id] \cup {"ts"} /\ wrote'[rec.id] = session
  BY <1>1, <1>2
<1>5. \A i \in Ids \ {rec.id} : Readable(i)' = Readable(i)
  BY <1>4 DEF Readable
<1>6. list = None /\ "dat" \in there'[rec.id] => dat[rec.id] = None
  BY <1>1, <1>2, <1>4 DEF RightInv, CurrentInv, SegmentsInv
<1>7. SegmentsInv'
  <2>1. \A i \in Ids : "ts" \notin there'[i] /\ "dat" \in there'[i] => dat'[i] = None
    BY <1>1, <1>4 DEF SegmentsInv, RightInv
  <2>2. \A i \in Listed' \ unopened' : Readable(i)' /\ dat'[i] \in {None, wrote'[i]}
    BY <1>1, <1>3, <1>4, <1>5 DEF SegmentsInv, RightInv
  <2>3. list' = None => \A i \in Ids : Readable(i)' /\ dat'[i] # None => dat'[i] = wrote'[i]
    <3>1. list = None => ~ (Readable(rec.id)' /\ dat'[rec.id] # None)
      BY <1>1, <1>2, <1>6 DEF Readable
    <3>. QED
      BY <1>1, <1>2, <1>4, <1>5, <3>1 DEF SegmentsInv, RightInv
  <2>. QED
    BY <2>1, <2>2, <2>3 DEF SegmentsInv
<1>8. CurrentInv'
  BY <1>1, <1>2, <1>4, <1>6 DEF CurrentInv, At, Written
<1>9. EntriesInv'
  <2>1. all' = None => Listed' \subseteq unopened'
    BY <1>1, <1>3 DEF EntriesInv, RightInv
  <2>2. all # None =>
         \A k \in DOMAIN all : all[k].id \in Listed \ unopened /\ all[k].by = wrote[all[k].id]
    BY DEF EntriesInv, RightInv
  <2>3. \A i \in Listed : wrote'[i] = wrote[i]
    BY <1>3, <1>4
  <2>4. all' # None => \A k \in DOMAIN all' : /\ all'[k].id \in Listed' \ unopened'
                                             /\ all'[k].by = wrote'[all'[k].id]
    BY <1>1, <1>3, <2>2, <2>3
  <2>5. \A i \in Listed \ unopened : (\E k \in DOMAIN all : all[k].id = i) \/ i \in stranded
    BY <1>1 DEF EntriesInv, RightInv, At
  <2>. QED
    BY <1>1, <1>3, <2>1, <2>4, <2>5 DEF EntriesInv
<1>10. CountsInv'
  BY <1>1, <1>3 DEF CountsInv, RightInv
<1>11. GoingIsWritten'
  BY <1>1, <1>2, <1>4 DEF GoingIsWritten, RightInv, At, Written
<1>. QED
  BY <1>7, <1>8, <1>9, <1>10, <1>11 DEF RightInv

(* Its other files are.                                                     *)
LEMMA OthersRight ==
  ASSUME KeepInv, RightInv, OpenOthers
  PROVE  RightInv'
<1>1. /\ UNCHANGED <<wrote, list, stats, segments, session, stranded>>
      /\ unopened' = unopened \ {rec.id}
      /\ there' = [there EXCEPT ![rec.id] = Opened]
      /\ dat' = [dat EXCEPT ![rec.id] = None] /\ At("open") /\ Go("begin")
      /\ all' = IF all = None THEN <<>> ELSE all
  BY DEF OpenOthers
<1>2. /\ rec'.at = "begin" /\ rec'.id = rec.id /\ rec.id \in Ids
      /\ there \in [Ids -> SUBSET Files] /\ dat \in [Ids -> 1 .. session \cup {None}]
  BY <1>1, Gone, RecIs DEF KeepInv, Types, Steps
<1>3. /\ Listed' = Listed /\ Listed \subseteq Ids /\ rec.id \notin Listed
      /\ Listed' \ unopened' = Listed \ unopened
  BY <1>1, ListedIs DEF Listed, Fresh, At
<1>4. /\ \A i \in Ids \ {rec.id} : there'[i] = there[i] /\ dat'[i] = dat[i]
      /\ there'[rec.id] = Opened /\ dat'[rec.id] = None
  BY <1>1, <1>2
<1>5. \A i \in Ids \ {rec.id} : Readable(i)' = Readable(i)
  BY <1>4 DEF Readable
<1>6. SegmentsInv'
  <2>1. \A i \in Ids : "ts" \notin there'[i] /\ "dat" \in there'[i] => dat'[i] = None
    BY <1>4 DEF SegmentsInv, RightInv
  <2>2. \A i \in Listed' \ unopened' : Readable(i)' /\ dat'[i] \in {None, wrote'[i]}
    BY <1>1, <1>3, <1>4, <1>5 DEF SegmentsInv, RightInv
  <2>3. list' = None => \A i \in Ids : Readable(i)' /\ dat'[i] # None => dat'[i] = wrote'[i]
    BY <1>1, <1>2, <1>4, <1>5 DEF SegmentsInv, RightInv
  <2>. QED
    BY <2>1, <2>2, <2>3 DEF SegmentsInv
<1>7. CurrentInv'
  BY <1>1, <1>2, <1>4 DEF CurrentInv, RightInv, At, Written
<1>8. EntriesInv'
  <2>1. all' # None
    BY <1>1, EmptySeq, NoneAssumption
  <2>2. CASE all = None
    <3>1. Listed \ unopened = {} /\ all' = <<>>
      BY <1>1, <2>2 DEF EntriesInv, RightInv
    <3>2. \A k \in DOMAIN all' : FALSE
      BY <3>1
    <3>. QED
      BY <1>3, <2>1, <3>1, <3>2 DEF EntriesInv
  <2>3. CASE all # None
    <3>1. all' = all
      BY <1>1, <2>3
    <3>. QED
      BY <1>1, <1>3, <2>1, <2>3, <3>1 DEF EntriesInv, RightInv, At
  <2>. QED
    BY <2>2, <2>3
<1>9. CountsInv'
  BY <1>1, <1>3 DEF CountsInv, RightInv
<1>10. GoingIsWritten'
  BY <1>1, <1>2, <1>4 DEF GoingIsWritten, RightInv, At, Opened, Written
<1>. QED
  BY <1>6, <1>7, <1>8, <1>9, <1>10 DEF RightInv

(* Not all of them can be opened.                                           *)
LEMMA OpenFailsRight ==
  ASSUME KeepInv, RightInv, OpenFails
  PROVE  RightInv'
<1>1. /\ UNCHANGED <<list, stats, segments, session, stranded>>
      /\ unopened' = unopened \cup {rec.id}
      /\ At("ts") /\ Go("unopened")
      /\ all' = all \/ (all = None /\ all' = <<>>)
  BY DEF OpenFails
<1>2. /\ rec'.at = "unopened" /\ rec'.id = rec.id /\ rec.id \in Ids
      /\ there \in [Ids -> SUBSET Files]
      /\ dat \in [Ids -> 1 .. session \cup {None}]
      /\ wrote \in [Ids -> 1 .. session \cup {None}]
  BY <1>1, Gone, RecIs DEF KeepInv, Types, Steps
<1>3. PICK some \in SUBSET Opened :
        /\ there' = [there EXCEPT ![rec.id] = @ \cup some]
        /\ wrote' = [wrote EXCEPT ![rec.id] = IF "ts" \in some THEN session ELSE @]
        /\ dat' = [dat EXCEPT ![rec.id] = IF "dat" \in some THEN None ELSE @]
  BY DEF OpenFails
<1>4. /\ \A i \in Ids \ {rec.id} : /\ there'[i] = there[i] /\ wrote'[i] = wrote[i]
                                   /\ dat'[i] = dat[i]
      /\ there'[rec.id] = there[rec.id] \cup some
      /\ dat'[rec.id] = IF "dat" \in some THEN None ELSE dat[rec.id]
  BY <1>2, <1>3
<1>5. /\ Listed' = Listed /\ Listed \subseteq Ids /\ rec.id \notin Listed
      /\ Listed' \ unopened' = Listed \ unopened
  BY <1>1, ListedIs DEF Listed, Fresh, At
<1>6. \A i \in Ids \ {rec.id} : Readable(i)' = Readable(i)
  BY <1>4 DEF Readable
<1>7. /\ "ts" \notin there'[rec.id] /\ "dat" \in there'[rec.id] => dat'[rec.id] = None
      /\ list = None /\ "dat" \in there'[rec.id] => dat'[rec.id] = None
  BY <1>1, <1>2, <1>4 DEF RightInv, CurrentInv, SegmentsInv
<1>8. SegmentsInv'
  <2>1. \A i \in Ids : "ts" \notin there'[i] /\ "dat" \in there'[i] => dat'[i] = None
    BY <1>4, <1>7 DEF SegmentsInv, RightInv
  <2>2. \A i \in Listed' \ unopened' : Readable(i)' /\ dat'[i] \in {None, wrote'[i]}
    BY <1>4, <1>5, <1>6 DEF SegmentsInv, RightInv
  <2>3. list' = None => \A i \in Ids : Readable(i)' /\ dat'[i] # None => dat'[i] = wrote'[i]
    <3>1. list = None => ~ (Readable(rec.id)' /\ dat'[rec.id] # None)
      BY <1>1, <1>2, <1>7 DEF Readable
    <3>. QED
      BY <1>1, <1>2, <1>4, <1>6, <3>1 DEF SegmentsInv, RightInv
  <2>. QED
    BY <2>1, <2>2, <2>3 DEF SegmentsInv
<1>9. CurrentInv'
  BY <1>1, <1>2 DEF CurrentInv, At, Written
<1>10. EntriesInv'
  <2>1. \A i \in Listed : wrote'[i] = wrote[i]
    BY <1>4, <1>5
  <2>2. all' = None => Listed' \subseteq unopened'
    BY <1>1, <1>5 DEF EntriesInv, RightInv
  <2>3. /\ all' # None => \A k \in DOMAIN all' : /\ all'[k].id \in Listed' \ unopened'
                                                /\ all'[k].by = wrote'[all'[k].id]
        /\ \A i \in Listed' \ unopened' :
             (\E k \in DOMAIN all' : all'[k].id = i) \/ i \in stranded'
    <3>1. CASE all' = all
      <4>1. all # None =>
             \A k \in DOMAIN all : /\ all[k].id \in Listed \ unopened
                                   /\ all[k].by = wrote[all[k].id]
        BY DEF EntriesInv, RightInv
      <4>2. \A i \in Listed \ unopened :
              (\E k \in DOMAIN all : all[k].id = i) \/ i \in stranded
        BY <1>1 DEF EntriesInv, RightInv, At
      <4>. QED
        BY <1>1, <1>5, <2>1, <3>1, <4>1, <4>2
    <3>2. CASE all = None /\ all' = <<>>
      <4>1. Listed' \ unopened' = {}
        BY <1>5, <3>2 DEF EntriesInv, RightInv
      <4>. QED
        BY <3>2, <4>1
    <3>. QED
      BY <1>1, <3>1, <3>2
  <2>. QED
    BY <2>2, <2>3 DEF EntriesInv
<1>11. CountsInv'
  BY <1>1, <1>5 DEF CountsInv, RightInv
<1>12. GoingIsWritten'
  BY <1>1, <1>2, <1>4 DEF GoingIsWritten, RightInv, At, Written
<1>. QED
  BY <1>8, <1>9, <1>10, <1>11, <1>12 DEF RightInv

(* The info of a segment that is not listed is written.                     *)
LEMMA BeginRight ==
  ASSUME KeepInv, RightInv, StoreBegin
  PROVE  RightInv'
<1>1. /\ UNCHANGED <<there, wrote, all, list, stats, segments, session, stranded, unopened>>
      /\ dat' = [dat EXCEPT ![rec.id] = session] /\ At("begin") /\ Go("link")
  BY DEF StoreBegin
<1>2. /\ rec'.at = "link" /\ rec'.id = rec.id /\ rec.id \in Ids
      /\ dat \in [Ids -> 1 .. session \cup {None}]
  BY <1>1, Gone, RecIs DEF KeepInv, Types, Steps
<1>3. Listed' = Listed /\ Listed \subseteq Ids /\ rec.id \notin Listed
  BY <1>1, ListedIs DEF Listed, Fresh, At
<1>4. /\ \A i \in Ids \ {rec.id} : dat'[i] = dat[i]
      /\ dat'[rec.id] = session /\ wrote[rec.id] = session
      /\ there[rec.id] = Opened
      /\ \A i \in Ids : Readable(i)' = Readable(i)
  BY <1>1, <1>2 DEF RightInv, CurrentInv, At, Written, Readable
<1>5. SegmentsInv'
  BY <1>1, <1>2, <1>3, <1>4 DEF SegmentsInv, RightInv, Opened
<1>6. CurrentInv'
  BY <1>1, <1>2, <1>4 DEF CurrentInv, RightInv, At, Written
<1>7. EntriesInv' /\ CountsInv'
  BY <1>1, <1>3 DEF EntriesInv, CountsInv, RightInv, At
<1>8. GoingIsWritten'
  BY <1>1, <1>2 DEF GoingIsWritten, RightInv, At, Written
<1>. QED
  BY <1>5, <1>6, <1>7, <1>8 DEF RightInv

(* The segment is put in the list: its files and its info complete, or its  *)
(* info still empty, or never opened.                                       *)
LEMMA LinkRight ==
  ASSUME KeepInv, RightInv, Link
  PROVE  RightInv'
<1>1. /\ UNCHANGED <<there, dat, wrote, all, stats, session, stranded, unopened>>
      /\ list' = Linked
  BY DEF Link, LinkTo
<1>2. /\ rec.id \in Ids /\ session \in Nat /\ rec' \in Recs /\ rec'.id = rec.id
      /\ \/ At("link") /\ rec'.at = "run"
         \/ At("unstored") /\ rec'.at = "half"
         \/ At("unopened") /\ rec'.at = "failed"
  <2>1. rec \in Recs /\ rec.id \in Ids /\ session \in Nat
    BY RecIs DEF KeepInv, Types
  <2>2. \/ At("link") /\ Go("run")
        \/ At("unstored") /\ Go("half")
        \/ At("unopened") /\ Go("failed")
    BY DEF Link, LinkTo
  <2>. QED
    BY <2>1, <2>2, Gone DEF Steps
<1>3. Listed' = Listed \cup {rec.id} /\ list' # None
  BY <1>1, <1>2, LinkedIs DEF Listed, Fresh, At
<1>4. \A i \in Ids : Readable(i)' = Readable(i)
  BY <1>1 DEF Readable
<1>5. Listed \subseteq Ids
  BY ListedIs
<1>6. CASE At("unopened")
  <2>1. rec.id \in unopened /\ rec'.at = "failed"
    BY <1>2, <1>6 DEF RightInv, CurrentInv, At
  <2>2. Listed' \ unopened' = Listed \ unopened
    BY <1>1, <1>3, <2>1
  <2>3. SegmentsInv'
    BY <1>1, <1>3, <1>4, <1>5, <2>2 DEF SegmentsInv, RightInv
  <2>4. CurrentInv'
    BY <2>1 DEF CurrentInv, At, Written
  <2>5. EntriesInv'
    BY <1>1, <1>2, <1>3, <1>6, <2>1, <2>2 DEF EntriesInv, RightInv, At
  <2>6. CountsInv' /\ GoingIsWritten'
    BY <1>1, <1>2, <1>3, <1>6, <2>1 DEF CountsInv, GoingIsWritten, RightInv, At, Written
  <2>. QED
    BY <2>3, <2>4, <2>5, <2>6 DEF RightInv
<1>7. CASE At("link") \/ At("unstored")
  <2>1. /\ wrote[rec.id] = session /\ there[rec.id] = Opened /\ rec.id \notin unopened
        /\ dat[rec.id] \in {None, wrote[rec.id]} /\ all # None
        /\ rec'.at \in {"run", "half"}
    BY <1>2, <1>7 DEF KeepInv, Types, RightInv, CurrentInv, At, Written
  <2>2. Readable(rec.id)
    BY <2>1 DEF Readable, Opened
  <2>3. SegmentsInv'
    BY <1>1, <1>2, <1>3, <1>4, <1>5, <2>1, <2>2 DEF SegmentsInv, RightInv
  <2>4. CurrentInv'
    BY <1>1, <1>2, <1>7, <2>1 DEF CurrentInv, RightInv, At, Written
  <2>5. EntriesInv'
    BY <1>1, <1>2, <1>3, <1>7, <2>1 DEF EntriesInv, RightInv, At
  <2>6. CountsInv' /\ GoingIsWritten'
    BY <1>1, <1>2, <1>3, <1>7, <2>1 DEF CountsInv, GoingIsWritten, RightInv, At, Written
  <2>. QED
    BY <2>3, <2>4, <2>5, <2>6 DEF RightInv
<1>. QED
  BY <1>2, <1>6, <1>7

(* One that is refused is put there too.                                    *)
LEMMA RefusedRight ==
  ASSUME KeepInv, RightInv, NextRefused
  PROVE  RightInv'
<1>. DEFINE n == NextOfSession
<1>1. /\ UNCHANGED <<there, dat, wrote, all, stats, rec, session, stranded>>
      /\ n \in Ids /\ list' = LinkOf(n) /\ unopened' = unopened \cup {n}
      /\ rec.at \in {"run", "half", "failed"}
  BY DEF NextRefused
<1>2. n = Last(list) + 1 /\ n \notin Listed
  BY <1>1, NextOfSessionIs DEF InList
<1>. HIDE DEF n
<1>3. Listed' = Listed \cup {n} /\ list' # None
  BY <1>1, <1>2, LinkIs DEF Listed
<1>4. rec.id \in Listed /\ rec.id # n /\ Listed \subseteq Ids
  BY <1>1, <1>2, ListedIs DEF InList
<1>5. Listed' \ unopened' = Listed \ unopened
  BY <1>1, <1>2, <1>3
<1>6. \A i \in Ids : Readable(i)' = Readable(i)
  BY <1>1 DEF Readable
<1>7. SegmentsInv'
  BY <1>1, <1>3, <1>4, <1>5, <1>6 DEF SegmentsInv, RightInv
<1>8. CurrentInv'
  BY <1>1, <1>3, <1>4 DEF CurrentInv, RightInv, At, Written
<1>9. EntriesInv'
  BY <1>1, <1>3, <1>5 DEF EntriesInv, RightInv
<1>10. CountsInv' /\ GoingIsWritten'
  BY <1>1, <1>3 DEF CountsInv, GoingIsWritten, RightInv, At, Written
<1>. QED
  BY <1>7, <1>8, <1>9, <1>10 DEF RightInv

(* The statistics are of the segments of this session, all listed.          *)
LEMMA StatisticsRight ==
  ASSUME KeepInv, RightInv, SaveStatistics
  PROVE  RightInv'
<1>1. /\ UNCHANGED <<there, dat, wrote, all, list, rec, segments, session, stranded, unopened>>
      /\ stats' = segments
  BY DEF SaveStatistics
<1>2. Listed' = Listed /\ \A i \in Ids : Readable(i)' = Readable(i)
  BY <1>1 DEF Listed, Readable
<1>3. SegmentsInv'
  BY <1>1, <1>2, ListedIs DEF SegmentsInv, RightInv
<1>4. CurrentInv' /\ GoingIsWritten'
  BY <1>1 DEF CurrentInv, GoingIsWritten, RightInv, At, Written
<1>5. EntriesInv'
  BY <1>1, <1>2 DEF EntriesInv, RightInv
<1>6. CountsInv'
  BY <1>1, <1>2 DEF CountsInv, KeepInv, ListInv
<1>. QED
  BY <1>3, <1>4, <1>5, <1>6 DEF RightInv

(* The info is written again, or at last, at the segment's end.             *)
LEMMA EndRight ==
  ASSUME KeepInv, RightInv, StoreEnd
  PROVE  RightInv'
<1>1. /\ UNCHANGED <<there, wrote, all, list, stats, segments, session, stranded, unopened>>
      /\ dat' = [dat EXCEPT ![rec.id] = session] /\ rec.at \in {"run", "half"}
  BY DEF StoreEnd, At
<1>2. rec'.at = "all" /\ rec'.id = rec.id /\ rec.id \in Ids
  BY RecIs DEF StoreEnd, KeepInv, Types
<1>3. /\ wrote[rec.id] = session /\ dat'[rec.id] = session /\ there[rec.id] = Opened
      /\ \A i \in Ids \ {rec.id} : dat'[i] = dat[i]
  BY <1>1, <1>2 DEF KeepInv, Types, RightInv, CurrentInv, Written
<1>4. /\ Listed' = Listed /\ Listed \subseteq Ids /\ list # None
      /\ \A i \in Ids : Readable(i)' = Readable(i)
  BY <1>1, ListedIs DEF Listed, Readable, InList
<1>5. SegmentsInv'
  BY <1>1, <1>2, <1>3, <1>4 DEF SegmentsInv, RightInv, Opened
<1>6. CurrentInv'
  BY <1>1, <1>2, <1>3 DEF CurrentInv, RightInv, At, Written
<1>7. EntriesInv' /\ CountsInv'
  BY <1>1, <1>2, <1>4 DEF EntriesInv, CountsInv, RightInv, At
<1>8. GoingIsWritten'
  BY <1>1, <1>2 DEF GoingIsWritten, RightInv, At, Written
<1>. QED
  BY <1>5, <1>6, <1>7, <1>8 DEF RightInv

(* Its entry is written: the session that wrote its data.                   *)
LEMMA AllRight ==
  ASSUME KeepInv, RightInv, StoreAllInfo
  PROVE  RightInv'
<1>. DEFINE E == [id : Ids, by : 1 .. session]
            e == [id |-> rec.id, by |-> dat[rec.id]]
<1>1. /\ UNCHANGED <<there, dat, wrote, list, stats, segments, session, stranded, unopened>>
      /\ all' = Append(all, e) /\ At("all") /\ Go("close")
  BY DEF StoreAllInfo, WithEntry
<1>2. /\ rec'.at = "close" /\ rec'.id = rec.id /\ rec.id \in Ids
      /\ wrote[rec.id] = session /\ dat[rec.id] = session
      /\ all # None /\ all \in Seq(E) /\ session \in 1 .. session
      /\ rec.id \in Listed \ unopened /\ list # None
  BY <1>1, Gone, RecIs, ListedIs
     DEF KeepInv, Types, Steps, RightInv, CurrentInv, At, Written, InList
<1>3. Listed' = Listed /\ \A i \in Ids : Readable(i)' = Readable(i)
  BY <1>1 DEF Listed, Readable
<1>4. SegmentsInv'
  BY <1>1, <1>3, ListedIs DEF SegmentsInv, RightInv
<1>5. CurrentInv'
  BY <1>1, <1>2 DEF CurrentInv, RightInv, At, Written
<1>6. CountsInv' /\ GoingIsWritten'
  BY <1>1, <1>2, <1>3 DEF CountsInv, GoingIsWritten, RightInv, At, Written
<1>7. EntriesInv'
  <2>1. e \in E /\ e.id = rec.id /\ e.by = wrote[rec.id]
    BY <1>2
  <2>2. all' # None
    BY KeepNext, <1>1, <1>2 DEF FilesNext, KeepInv, Types, Written
  <2>. HIDE DEF E, e
  <2>3. /\ \A k \in DOMAIN all : k \in DOMAIN all' /\ all'[k] = all[k]
        /\ DOMAIN all' = DOMAIN all \cup {Len(all) + 1}
        /\ all'[Len(all) + 1] = e
    BY <1>1, <1>2, <2>1, Appended
  <2>4. \A k \in DOMAIN all' : /\ all'[k].id \in Listed \ unopened
                               /\ all'[k].by = wrote[all'[k].id]
    BY <1>2, <2>1, <2>3 DEF EntriesInv, RightInv
  <2>5. \A i \in Listed \ unopened : \/ \E k \in DOMAIN all' : all'[k].id = i
                                     \/ i \in stranded
    BY <1>1, <2>1, <2>3 DEF EntriesInv, RightInv
  <2>. QED
    BY <1>1, <1>3, <2>2, <2>4, <2>5 DEF EntriesInv
<1>. QED
  BY <1>4, <1>5, <1>6, <1>7 DEF RightInv

(* The mark is removed.                                                     *)
LEMMA CloseRight ==
  ASSUME KeepInv, RightInv, Close
  PROVE  RightInv'
<1>1. /\ UNCHANGED <<dat, wrote, all, list, stats, session, stranded, unopened>>
      /\ there' = [there EXCEPT ![rec.id] = @ \ {"going"}] /\ At("close")
      /\ rec'.at \in {"ts", "idle"}
  BY DEF Close
<1>2. /\ rec.id \in Ids /\ there \in [Ids -> SUBSET Files] /\ list # None
      /\ rec.id \in Listed /\ Listed \subseteq Ids /\ there[rec.id] = Opened
  BY <1>1, RecIs, ListedIs
     DEF KeepInv, Types, RightInv, CurrentInv, At, Written, InList
<1>3. /\ \A i \in Ids \ {rec.id} : there'[i] = there[i]
      /\ there'[rec.id] = {"ts", "idx", "dat"}
  BY <1>1, <1>2 DEF Opened
<1>4. Listed' = Listed
  BY <1>1 DEF Listed
<1>5. \A i \in Ids : Readable(i) => Readable(i)'
  BY <1>3 DEF Readable
<1>6. SegmentsInv'
  BY <1>1, <1>2, <1>3, <1>4, <1>5 DEF SegmentsInv, RightInv
<1>7. CurrentInv'
  BY <1>1, <1>2 DEF CurrentInv, At, Written
<1>8. EntriesInv' /\ CountsInv'
  BY <1>1, <1>4 DEF EntriesInv, CountsInv, RightInv, At
<1>9. GoingIsWritten'
  BY <1>1, <1>3 DEF GoingIsWritten, RightInv, At, Written
<1>. QED
  BY <1>6, <1>7, <1>8, <1>9 DEF RightInv

(* Every step keeps the invariant, if deleting is not cut short.            *)
LEMMA IInvNext ==
  ASSUME WipeCrash = FALSE, FilesIInv, [FilesNext]_fileVars
  PROVE  FilesIInv'
<1>1. KeepInv'
  BY KeepNext DEF FilesIInv
<1>2. ASSUME ~ At("wipe")' PROVE RightInv'
  <2>1. CASE Wiped
    BY <2>1, WipedRight
  <2>2. CASE At("wipe") /\ ~ Wiped
    <3>1. ~ Crash
      BY <2>2 DEF Crash
    <3>2. rec' = rec
      BY <2>2, <3>1 DEF FilesNext, StartNew, StartAppend, Begins, WipeSegmentFile,
        WipeRecordingFile, OpenTs, OpenOthers, OpenFails, StoreBegin, DeviceFails,
        Link, NextRefused, SaveStatistics, StoreEnd, StopFails, StoreAllInfo, Close,
        GiveUp, At, fileVars
    <3>. QED
      BY <1>2, <2>2, <3>2 DEF At
  <2>3. CASE ~ At("wipe")
    <3>1. KeepInv /\ RightInv
      BY <2>3 DEF FilesIInv
    <3>2. ~ StartNew /\ ~ WipeSegmentFile /\ ~ WipeRecordingFile /\ ~ Wiped
      BY <1>2, <2>3 DEF StartNew, WipeSegmentFile, WipeRecordingFile, Wiped, At
    <3>3. CASE UNCHANGED fileVars
      <4>1. Listed' = Listed /\ \A i \in Ids : Readable(i)' = Readable(i)
        BY <3>3 DEF fileVars, Listed, Readable
      <4>2. SegmentsInv'
        BY <3>1, <3>3, <4>1, ListedIs DEF fileVars, SegmentsInv, RightInv
      <4>3. CurrentInv' /\ GoingIsWritten'
        BY <3>1, <3>3 DEF fileVars, CurrentInv, GoingIsWritten, RightInv, At, Written
      <4>4. EntriesInv' /\ CountsInv'
        BY <3>1, <3>3, <4>1 DEF fileVars, EntriesInv, CountsInv, RightInv
      <4>. QED
        BY <4>2, <4>3, <4>4 DEF RightInv
    <3>. QED
      BY <2>3, <3>1, <3>2, <3>3, AppendRight, CrashRight, GiveUpRight, DeviceRight,
         TsRight, OthersRight, OpenFailsRight, BeginRight, LinkRight, RefusedRight,
         StatisticsRight, EndRight, AllRight, CloseRight
         DEF FilesNext
  <2>. QED
    BY <2>1, <2>2, <2>3
<1>. QED
  BY <1>1, <1>2 DEF FilesIInv

-----------------------------------------------------------------------------
\* What a playback reads.

(* The list a playback gets is the .list file's when there is one.          *)
LEMMA GetListIs ==
  ASSUME KeepInv
  PROVE  /\ GetList \subseteq Ids
         /\ list # None => GetList = Listed
  BY ListedIs DEF GetList, Listed

(* An entry that is found is of the segment's data.                         *)
LEMMA EntryIsOfData ==
  ASSUME KeepInv, RightInv, all # None, NEW i \in Ids, Entries(i) # {}
  PROVE  i \in Listed \ unopened /\ all[Min(Entries(i))].by = wrote[i]
<1>. DEFINE E == [id : Ids, by : 1 .. session]
<1>1. all \in Seq(E)
  BY DEF KeepInv, Types
<1>. HIDE DEF E
<1>2. DOMAIN all \subseteq Nat
  BY <1>1
<1>3. Entries(i) \subseteq Nat
  BY <1>2 DEF Entries
<1>4. Min(Entries(i)) \in Entries(i)
  BY <1>3, MinOf
<1>5. Min(Entries(i)) \in DOMAIN all /\ all[Min(Entries(i))].id = i
  BY <1>4 DEF Entries
<1>. QED
  BY <1>5 DEF RightInv, EntriesInv

(* The recording's .dat is only used when it has an entry, and then there is *)
(* a list.                                                                  *)
LEMMA AllInfoIs ==
  ASSUME KeepInv, RightInv, ~AllInfoFails
  PROVE  /\ list # None /\ all # None
         /\ \E i \in Listed : Entries(i) # {}
<1>. DEFINE E == [id : Ids, by : 1 .. session]
<1>1. all # None /\ all # <<>> /\ all \in Seq(E)
  BY DEF AllInfoFails, KeepInv, Types
<1>. HIDE DEF E
<1>2. 1 \in DOMAIN all
  BY <1>1
<1>3. all[1].id \in Listed /\ 1 \in Entries(all[1].id)
  BY <1>1, <1>2 DEF RightInv, EntriesInv, Entries
<1>. QED
  BY <1>1, <1>3 DEF Listed

(* Read one by one, the segments have the infos of their data.              *)
LEMMA EachIs ==
  ASSUME KeepInv, RightInv
  PROVE  /\ LoadEach.ok = (\A i \in GetList : Readable(i))
         /\ LoadEach.first = (\E i \in GetList : dat[i] # None)
         /\ DOMAIN LoadEach.from = {i \in GetList : dat[i] # None}
         /\ \A i \in DOMAIN LoadEach.from : LoadEach.from[i] = dat[i]
<1>. DEFINE f == [i \in {j \in GetList : dat[j] # None} |-> dat[i]]
<1>1. /\ LoadEach.ok = (\A i \in GetList : Readable(i))
      /\ LoadEach.first = (\E i \in GetList : dat[i] # None)
      /\ LoadEach.from = f
  BY DEF LoadEach
<1>. QED
  BY <1>1

(* Read by their entries, they have them as well, and nothing else is lost. *)
LEMMA AllIs ==
  ASSUME KeepInv, RightInv, ~AllInfoFails
  PROVE  LET found == {i \in Listed : Entries(i) # {}}
             tail == {i \in Listed \ found : i = LengthOfList - 1}
         IN  /\ LoadAll.ok = (\A i \in tail : Readable(i))
             /\ LoadAll.first = (found # {})
             /\ DOMAIN LoadAll.from = found \cup {j \in tail : dat[j] # None}
             /\ DOMAIN LoadAll.from \subseteq Listed
             /\ \A i \in DOMAIN LoadAll.from \ unopened : LoadAll.from[i] = wrote[i]
<1>. DEFINE found == {i \in Listed : Entries(i) # {}}
            tail == {i \in Listed \ found : i = LengthOfList - 1}
            f == [i \in found \cup {j \in tail : dat[j] # None} |->
                    IF i \in found THEN all[Min(Entries(i))].by ELSE dat[i]]
<1>1. GetList = Listed /\ all # None /\ Listed \subseteq Ids
  BY AllInfoIs, GetListIs, ListedIs
<1>2. /\ LoadAll.ok = (\A i \in tail : Readable(i))
      /\ LoadAll.first = (found # {})
      /\ LoadAll.from = f
  BY <1>1 DEF LoadAll
<1>3. ASSUME NEW i \in DOMAIN f \ unopened PROVE f[i] = wrote[i]
  <2>1. CASE i \in found
    BY <1>1, <2>1, EntryIsOfData
  <2>2. CASE i \notin found
    <3>1. f[i] = dat[i] /\ dat[i] # None /\ i \in Listed \ unopened
      BY <1>3, <2>2
    <3>. QED
      BY <3>1 DEF RightInv, SegmentsInv
  <2>. QED
    BY <2>1, <2>2
<1>. QED
  BY <1>2, <1>3

(* What is on disk is right when nothing is being deleted.                  *)
LEMMA RightFiles ==
  ASSUME KeepInv, RightInv
  PROVE  FilesInv
<1>0. FilesTypeOK
  BY DEF KeepInv, Types, FilesTypeOK, Files
<1>1. CASE AllInfoFails
  <2>1. Load = LoadEach
    BY <1>1 DEF Load
  <2>2. PlaybackStarts
    <3>1. ASSUME Recorded # {}, unopened \cap GetList = {}
          PROVE  LoadEach.ok /\ LoadEach.first
      <4>1. list # None /\ GetList = Listed
        BY <3>1, RecordedIs, GetListIs
      <4>2. \A i \in GetList : Readable(i)
        BY <3>1, <4>1 DEF RightInv, SegmentsInv
      <4>3. \E i \in GetList : dat[i] # None
        BY <3>1, <4>1, RecordedIs
      <4>. QED
        BY <4>2, <4>3, EachIs
    <3>. QED
      BY <1>1, <2>1, <3>1 DEF PlaybackStarts
  <2>3. InfoIsOfData
    <3>1. ASSUME NEW i \in DOMAIN LoadEach.from \ unopened, Readable(i)
          PROVE  LoadEach.from[i] = wrote[i]
      <4>1. LoadEach.from[i] = dat[i] /\ dat[i] # None /\ i \in GetList
        BY EachIs
      <4>2. CASE list = None
        BY <3>1, <4>1, <4>2, GetListIs DEF RightInv, SegmentsInv
      <4>3. CASE list # None
        BY <3>1, <4>1, <4>3, GetListIs DEF RightInv, SegmentsInv
      <4>. QED
        BY <4>2, <4>3
    <3>. QED
      BY <2>1, <3>1 DEF InfoIsOfData
  <2>4. SumsAreOfList
    <3>1. DOMAIN Load.from \subseteq GetList
      BY <2>1, EachIs
    <3>2. stats # None => stats \subseteq GetList
      BY GetListIs DEF RightInv, CountsInv, Listed
    <3>. QED
      BY <3>1, <3>2 DEF SumsAreOfList, Counted
  <2>. QED
    BY <1>0, <2>2, <2>3, <2>4 DEF FilesInv, RightInv
<1>2. CASE ~AllInfoFails
  <2>. DEFINE found == {i \in Listed : Entries(i) # {}}
              tail == {i \in Listed \ found : i = LengthOfList - 1}
  <2>1. Load = LoadAll /\ list # None /\ GetList = Listed /\ found # {}
    BY <1>2, AllInfoIs, GetListIs DEF Load
  <2>2. /\ LoadAll.ok = (\A i \in tail : Readable(i))
        /\ LoadAll.first = (found # {})
        /\ DOMAIN LoadAll.from \subseteq Listed
        /\ \A i \in DOMAIN LoadAll.from \ unopened : LoadAll.from[i] = wrote[i]
    BY <1>2, AllIs
  <2>3. PlaybackStarts
    <3>1. LengthOfList - 1 \notin unopened => \A i \in tail : Readable(i)
      BY DEF RightInv, SegmentsInv
    <3>. QED
      BY <2>1, <2>2, <3>1 DEF PlaybackStarts
  <2>4. InfoIsOfData
    BY <2>1, <2>2 DEF InfoIsOfData
  <2>5. SumsAreOfList
    <3>1. DOMAIN Load.from \subseteq GetList
      BY <2>1, <2>2
    <3>2. stats # None => stats \subseteq GetList
      BY <2>1 DEF RightInv, CountsInv
    <3>. QED
      BY <3>1, <3>2 DEF SumsAreOfList, Counted
  <2>. QED
    BY <1>0, <2>3, <2>4, <2>5 DEF FilesInv, RightInv
<1>. QED
  BY <1>1, <1>2

(* And a playback misses no recorded segment but an interrupted one and the *)
(* one that is being recorded, if others follow.                            *)
LEMMA RightHasAll ==
  ASSUME KeepInv, RightInv
  PROVE  PlaybackHasAll
<1>. SUFFICES ASSUME Recorded # {}, Head(list) = 0,
                     NEW i \in Recorded, i \notin DOMAIN Load.from
              PROVE  (i \in stranded \/ (i = rec.id /\ ~At("idle"))) /\ i # Last(list)
  BY DEF PlaybackHasAll
<1>1. /\ list # None /\ GetList = Listed /\ i \in Listed \ unopened /\ dat[i] # None
      /\ Listed \subseteq Ids
  BY RecordedIs, GetListIs, ListedIs
<1>2. ~AllInfoFails
  <2>1. SUFFICES ASSUME AllInfoFails PROVE i \in DOMAIN Load.from
    OBVIOUS
  <2>2. Load = LoadEach
    BY <2>1 DEF Load
  <2>. QED
    BY <1>1, <2>2, EachIs
<1>. DEFINE found == {j \in Listed : Entries(j) # {}}
            tail == {j \in Listed \ found : j = LengthOfList - 1}
<1>3. i \notin found /\ ~(i \in tail)
  <2>1. DOMAIN Load.from = found \cup {j \in tail : dat[j] # None}
    BY <1>2, AllIs DEF Load
  <2>. QED
    BY <1>1, <2>1
<1>4. i # Last(list)
  <2>1. /\ list \in Seq(Ids) /\ list # <<>>
        /\ \A k \in DOMAIN list : list[k] = Head(list) + k - 1
    BY <1>1 DEF KeepInv, Types, ListInv
  <2>2. Last(list) = 0 + Len(list) - 1 /\ Len(list) \in Nat
    BY <2>1, NextIsNew
  <2>3. LengthOfList = Len(list)
    BY <1>1 DEF LengthOfList
  <2>. QED
    BY <1>1, <1>3, <2>2, <2>3
<1>5. i \in stranded \/ (i = rec.id /\ ~At("idle"))
  <2>1. ~ \E k \in DOMAIN all : all[k].id = i
    BY <1>1, <1>3 DEF Entries
  <2>. QED
    BY <1>1, <2>1 DEF RightInv, EntriesInv, At
<1>. QED
  BY <1>4, <1>5

-----------------------------------------------------------------------------
(* The inductive invariant holds in every state, if the recorder is not     *)
(* killed while it deletes a recording.                                     *)
THEOREM FilesIndexed ==
  ASSUME WipeCrash = FALSE
  PROVE  FilesSpec => []FilesIInv
<1>1. FilesInit => FilesIInv
  <2>. SUFFICES ASSUME FilesInit PROVE FilesIInv
    OBVIOUS
  <2>1. KeepInv
    BY KeepInit
  <2>2. \A i \in Ids : there[i] = {} /\ dat[i] = None
    BY DEF FilesInit
  <2>3. SegmentsInv /\ CurrentInv /\ EntriesInv /\ CountsInv /\ GoingIsWritten
    BY <2>2 DEF FilesInit, SegmentsInv, CurrentInv, EntriesInv, CountsInv,
      GoingIsWritten, Listed, At, Written
  <2>. QED
    BY <2>1, <2>3 DEF FilesIInv, RightInv
<1>2. FilesIInv /\ [FilesNext]_fileVars => FilesIInv'
  BY IInvNext
<1>. QED
  BY <1>1, <1>2, PTL DEF FilesSpec

(* Whatever steps of a recording failed or were interrupted: infos, marks   *)
(* and sums are of its own data, and a playback can start unless a listed   *)
(* segment that was never opened stops it.                                  *)
THEOREM FilesRight ==
  ASSUME WipeCrash = FALSE
  PROVE  FilesSpec => []FilesInv
<1>1. FilesIInv => FilesInv
  <2>1. CASE At("wipe") /\ KeepInv
    <3>1. FilesTypeOK
      BY <2>1 DEF KeepInv, Types, FilesTypeOK, Files
    <3>2. GoingIsWritten
      BY <2>1 DEF GoingIsWritten, At, Written
    <3>. QED
      BY <2>1, <3>1, <3>2 DEF FilesInv, PlaybackStarts, InfoIsOfData, SumsAreOfList
  <2>. QED
    BY <2>1, RightFiles DEF FilesIInv
<1>2. FilesSpec => []FilesIInv
  BY FilesIndexed
<1>. QED
  BY <1>1, <1>2, PTL

(* A playback has every recorded segment but an interrupted one that is not *)
(* the last.                                                                *)
THEOREM PlaybackIsWhole ==
  ASSUME WipeCrash = FALSE
  PROVE  FilesSpec => []PlaybackHasAll
<1>1. FilesIInv => PlaybackHasAll
  BY RightHasAll DEF FilesIInv, PlaybackHasAll
<1>2. FilesSpec => []FilesIInv
  BY FilesIndexed
<1>. QED
  BY <1>1, <1>2, PTL
=============================================================================
