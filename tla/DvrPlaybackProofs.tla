--------------------------- MODULE DvrPlaybackProofs ---------------------------
(***************************************************************************)
(* Proofs about DvrPlayback for any number of segments, units and calls,   *)
(* any size of blocks and of the decoder's cache, and whatever segments do *)
(* not open.  The argument: what the decoder has, what the thread has in   *)
(* hand and the place it reads next are a chain without a gap (ChainInv),  *)
(* which every step either extends, or starts anew (a seek), or may tear,  *)
(* and then it is one of those that set seen.raced.                        *)
(***************************************************************************)
EXTENDS DvrPlayback, FiniteSetTheorems, WellFoundedInduction, TLAPS

(* Places in the recording: of a unit, of the reader.                      *)
Place == [seg : Nat, pos : Nat]

(* Is of DvrPlayback for any files sz and any segments op that open.       *)
IsIn(sz, op, u, v) ==
  \/ v = u
  \/ /\ v.seg > u.seg /\ v.pos = 0
     /\ u.pos = sz[u.seg]
     /\ ~ \E s \in op : u.seg < s /\ s < v.seg

Succ(u) == [seg |-> u.seg, pos |-> u.pos + 1]

(* The place behind the units of buf, or e if there are none.              *)
Behind(e, buf) == IF buf = <<>> THEN e ELSE Succ(Last(buf))

(* From e on, the units of buf and then those at h are all there is.       *)
ChainIn(sz, op, e, buf, h) ==
  /\ buf # <<>> => IsIn(sz, op, e, buf[1])
  /\ \A i \in 2 .. Len(buf) : IsIn(sz, op, Succ(buf[i - 1]), buf[i])
  /\ IsIn(sz, op, Behind(e, buf), h)

-----------------------------------------------------------------------------
Unit == [seg : Segments, pos : 0 .. MaxUnit - 1]

PlayerT == [state : {"STOP", "START", "PAUSE"}, cur : 0 .. MaxSegment,
            open : BOOLEAN, seekPause : BOOLEAN, drop : BOOLEAN,
            running : BOOLEAN, cacheLen : 0 .. Block]
HandleT == [seg : 0 .. MaxSegment, pos : 0 .. MaxUnit]
ThreadT == [pc : {"none", "start", "first", "top", "read", "change", "reread",
                  "end", "endpause", "drop", "write", "exit"},
            buf : Seq(Unit), rewrite : BOOLEAN, noData : 0 .. NoDataTime + 1,
            waits : 0 .. MaxWait, delay : 0 .. Cache]
DecoderT == [units : 0 .. Cache, frame : {"none", "fed", "shown"}]
AppT == [op : {"none", "seek", "join", "stop", "remove"},
         seg : 0 .. MaxSegment, pos : 0 .. MaxUnit + 1]

Types ==
  /\ size \in [Segments -> 0 .. MaxUnit]
  /\ list \subseteq Segments
  /\ player \in PlayerT
  /\ handle \in HandleT
  /\ thread \in ThreadT
  /\ decoder \in DecoderT
  /\ app \in AppT
  /\ calls \in 0 .. MaxCall /\ prompt \in BOOLEAN
  /\ seen \in Seen

(* The decoder holds whole blocks.                                         *)
WholeBlocks == \E k \in Nat : decoder.units = k * Block

(* The newest segment is listed; those before it have data, those to come  *)
(* have none, and nobody is in one of those.                               *)
ListInv ==
  /\ list # {}
  /\ \A s \in Segments : /\ s < Newest => size[s] > 0
                         /\ s > Newest => size[s] = 0
  /\ handle.seg <= Newest
  /\ \A i \in DOMAIN thread.buf : thread.buf[i].seg <= Newest
  /\ app.op = "remove" => app.seg \in Segments /\ app.seg < Newest
  /\ app.op = "seek" => app.seg \in Openable

(* The thread lives from start to the join of stop.                        *)
LifeInv ==
  CASE player.state = "STOP" ->
         ~player.running /\ At("none") /\ app.op \notin {"join", "stop"}
    [] player.state # "STOP" /\ app.op = "join" -> ~player.running /\ ~At("none")
    [] player.state # "STOP" /\ app.op = "stop" -> ~player.running /\ At("none")
    [] OTHER -> player.running /\ ~At("none")

(* Whole blocks are written, cut ones wait for more.                       *)
BufInv ==
  /\ thread.rewrite => At("top")
  /\ thread.pc \in {"none", "start", "first", "exit"} => thread.buf = <<>>
  /\ thread.pc \in {"read", "change", "reread", "end", "endpause"}
       => Len(thread.buf) < Block
  /\ thread.pc \in {"drop", "write"} => Len(thread.buf) = Block
  /\ At("top") => IF thread.rewrite THEN Len(thread.buf) = Block
                  ELSE Len(thread.buf) < Block

(* The file that is open.                                                  *)
HandleInv ==
  /\ handle # NoHandle => /\ handle.seg \in Segments
                          /\ handle.pos <= size[handle.seg]
                          /\ player.open
  /\ thread.pc \in {"change", "reread", "drop", "write"} \/ thread.rewrite
       => handle # NoHandle

(* With files that all open, the thread has one once it has begun.         *)
OpenInv ==
  Missing = {} => /\ player.open => handle # NoHandle
                  /\ thread.pc \notin {"none", "start", "first", "exit"} => player.open

(* NODATA was told, and not answered, only while noData counts.            *)
ToldInv ==
  /\ seen.told => thread.noData >= NoDataTime
  /\ thread.pc \in {"drop", "write"} \/ thread.rewrite => ~seen.told

(* The block in hand has been written when late is 1.                      *)
QuietInv ==
  /\ seen.late <= 1
  /\ player.state = "PAUSE" /\ seen.late # 0
       => ~player.seekPause /\ thread.pc \in {"top", "exit", "none"}

(* A player that is stopped, perhaps positioned by a seek.                 *)
StopInv ==
  player.state = "STOP" =>
    /\ ~seen.raced
    /\ handle = NoHandle => ~player.open
    /\ handle # NoHandle => handle.seg = player.cur
    /\ app.op = "seek" => player.open /\ player.cur = app.seg
    /\ app.op = "remove" => player.cur # app.seg

(* Unless raced, the file is that of the current segment, which is listed, *)
(* and no seek has come while the thread begins.                           *)
CurInv ==
  /\ Alive /\ ~seen.raced /\ handle # NoHandle
       => handle.seg = player.cur /\ player.cur \in list
  /\ player.drop /\ ~seen.raced => ~Busy
  /\ At("change") /\ ~seen.raced => handle.pos = size[handle.seg]
  /\ At("first") /\ player.open => seen.raced

(* ts_cache_len is what is in hand.                                        *)
Playing == Alive \/ player.state = "STOP"
TimeInv ==
  /\ Alive /\ ~seen.raced /\ handle.pos > 0 /\ ~player.drop
       => player.cacheLen = Len(thread.buf)
  /\ Playing /\ ~seen.raced /\ handle.pos > 0 /\ player.drop => player.cacheLen = 0
  /\ (player.state = "STOP" \/ At("start")) /\ handle.pos > 0 => player.drop

(* What comes next to the decoder, and what there is of it in hand.        *)
Expected == IF seen.fresh THEN seen.at ELSE Succ(seen.at)
Kept == IF player.drop THEN <<>> ELSE thread.buf

(* What is in hand and what is read next follow what the decoder has: once *)
(* a seek in a stopped player is done, and as long as it is refused.       *)
Positioned == \/ Alive
              \/ /\ player.state = "STOP"
                 /\ app.op = "seek" => app.pos > size[app.seg]
ChainInv ==
  Positioned /\ ~seen.raced /\ handle # NoHandle
    => /\ Expected.seg \in Segments
       /\ ChainIn(size, Openable, Expected, Kept, handle)

(* The decoder has been given everything there is, or has it in hand.      *)
AllGiven ==
  LET buf == thread.buf
      u == Behind(Expected, buf)
  IN  /\ buf # <<>> => InSequence(buf)
      /\ ~ \E s \in Openable : s > u.seg /\ size[s] > 0
      /\ u.pos = size[u.seg]

(* EndIsTheEnd from the change of segment on that found none.              *)
EndInv ==
  thread.pc \in {"end", "endpause"} /\ ~seen.raced /\ ~seen.moved => AllGiven

IInv ==
  /\ Types /\ WholeBlocks /\ ListInv /\ LifeInv /\ BufInv /\ HandleInv /\ OpenInv
  /\ ToldInv /\ QuietInv /\ StopInv /\ CurInv /\ TimeInv /\ ChainInv /\ EndInv
-----------------------------------------------------------------------------
(* The constants are positive numbers.                                     *)
LEMMA Constants ==
  /\ MaxSegment \in Nat /\ MaxSegment > 0 /\ MaxUnit \in Nat /\ MaxUnit > 0
  /\ Block \in Nat /\ Block > 0 /\ Block < MaxUnit /\ Cache \in Nat /\ Cache >= Block
  /\ NoDataTime \in Nat /\ NoDataTime > 0 /\ MaxWait \in Nat /\ MaxCall \in Nat
<1>1. /\ {MaxSegment, MaxUnit, Block, Cache, NoDataTime, MaxWait} \subseteq Nat \ {0}
      /\ Cache >= Block /\ MaxUnit > Block /\ MaxCall \in Nat
  BY PlaybackAssumption
<1>. QED
  BY <1>1

(* Nought is in each range.                                                *)
LEMMA Zero ==
  /\ 0 \in 0 .. MaxSegment /\ 0 \in 0 .. MaxUnit /\ 0 \in 0 .. MaxUnit + 1
  /\ 0 \in 0 .. Block /\ 0 \in 0 .. 2
  /\ 0 \in 0 .. Cache /\ 0 \in 0 .. NoDataTime + 1 /\ 0 \in 0 .. MaxWait
BY Constants

(* A segment is a positive number.                                         *)
LEMMA SegmentsAre == \A s \in Segments : s \in Nat /\ s # None /\ s <= MaxSegment
BY Constants DEF Segments, None

(* Less-than on the naturals as a well-founded relation.                   *)
LEMMA LessRelation ==
  \E R : IsWellFoundedOn(R, Nat) /\ \A j, k \in Nat : <<j, k>> \in R <=> j < k
<1>1. \A j, k \in Nat : <<j, k>> \in OpToRel(<, Nat) <=> j < k
  BY Zenon DEF OpToRel
<1>. QED
  BY <1>1, NatLessThanWellFounded, Zenon

(* Min finds the least of some numbers.                                    *)
LEMMA MinOf ==
  ASSUME NEW S, S \subseteq Nat, S # {}
  PROVE  Min(S) \in S /\ \A j \in S : Min(S) <= j
<1>1. PICK R : IsWellFoundedOn(R, Nat) /\ \A j, k \in Nat : <<j, k>> \in R <=> j < k
  BY LessRelation
<1>2. PICK k \in S : \A j \in S : ~ (<<j, k>> \in R)
  <2>1. IsWellFoundedOn(R, Nat)
    BY <1>1
  <2>. QED
    BY <2>1, WFMin
<1>3. ASSUME NEW j \in S PROVE k <= j
  <2>1. k \in Nat /\ j \in Nat
    OBVIOUS
  <2>2. ~ (j < k)
    BY <1>1, <1>2, <2>1, Zenon
  <2>. QED
    BY <2>1, <2>2
<1>. QED
  BY <1>3 DEF Min

(* Min of two numbers.                                                     *)
LEMMA MinOfTwo ==
  ASSUME NEW a \in Nat, NEW b \in Nat
  PROVE  /\ Min({a, b}) \in Nat /\ Min({a, b}) <= a /\ Min({a, b}) <= b
         /\ Min({a, b}) = a \/ Min({a, b}) = b
<1>1. {a, b} \subseteq Nat /\ {a, b} # {}
  OBVIOUS
<1>2. Min({a, b}) \in {a, b} /\ \A j \in {a, b} : Min({a, b}) <= j
  BY <1>1, MinOf
<1>. QED
  BY <1>2

(* Max finds the greatest of some segments.                                *)
LEMMA MaxOf ==
  ASSUME NEW S, S \subseteq Segments, S # {}
  PROVE  Max(S) \in S /\ \A j \in S : j <= Max(S)
<1>1. S \subseteq 0 .. MaxSegment /\ MaxSegment \in Nat
  BY Constants DEF Segments
<1>. DEFINE T == {MaxSegment - j : j \in S}
<1>2. T \subseteq Nat /\ T # {}
  <2>1. ASSUME NEW j \in S PROVE MaxSegment - j \in Nat
    BY <1>1
  <2>2. PICK j \in S : TRUE
    OBVIOUS
  <2>. QED
    BY <2>1, <2>2
<1>3. PICK k \in S : \A j \in S : MaxSegment - k <= MaxSegment - j
  <2>1. Min(T) \in T /\ \A x \in T : Min(T) <= x
    BY <1>2, MinOf
  <2>2. PICK k \in S : Min(T) = MaxSegment - k
    BY <2>1
  <2>. QED
    BY <2>1, <2>2
<1>4. \A j \in S : k >= j
  BY <1>1, <1>3
<1>5. Max(S) \in S /\ \A j \in S : Max(S) >= j
  BY <1>4 DEF Max
<1>. QED
  BY <1>1, <1>5

(* The greatest is the only one of its kind.                               *)
LEMMA MaxIs ==
  ASSUME NEW S, S \subseteq Segments, NEW n \in S, \A j \in S : j <= n
  PROVE  Max(S) = n
<1>1. Max(S) \in S /\ \A j \in S : j <= Max(S)
  BY MaxOf
<1>2. n \in Nat /\ Max(S) \in Nat /\ n <= Max(S) /\ Max(S) <= n
  BY <1>1, SegmentsAre
<1>. QED
  BY <1>2

-----------------------------------------------------------------------------
(* Chains of units.                                                        *)
(* The place behind some units is a place.                                 *)
LEMMA BehindIs ==
  ASSUME NEW e \in Place, NEW buf \in Seq(Place)
  PROVE  Behind(e, buf) \in Place
<1>1. CASE buf = <<>>
  BY <1>1 DEF Behind
<1>2. CASE buf # <<>>
  <2>1. Len(buf) \in 1 .. Len(buf)
    BY <1>2
  <2>2. Last(buf) \in Place
    BY <2>1 DEF Last
  <2>. QED
    BY <1>2, <2>2 DEF Behind, Succ, Place
<1>. QED
  BY <1>1, <1>2

(* A chain does not depend on files and segments that come later, nor on   *)
(* segments that are removed.                                              *)
LEMMA ChainStays ==
  ASSUME NEW sz, NEW sz2, NEW op, NEW op2, NEW n \in Nat,
         op \subseteq Nat, op2 \subseteq Nat,
         \A s \in op2 : s \in op \/ s >= n,
         \A s \in Segments : s < n => sz2[s] = sz[s],
         NEW e \in Place, NEW h \in Place, NEW buf \in Seq(Place),
         e.seg \in Segments, h.seg <= n,
         \A i \in DOMAIN buf : buf[i].seg \in Segments /\ buf[i].seg <= n,
         ChainIn(sz, op, e, buf, h)
  PROVE  ChainIn(sz2, op2, e, buf, h)
<1>1. ASSUME NEW u \in Place, NEW v \in Place, u.seg \in Segments, v.seg <= n,
             IsIn(sz, op, u, v)
      PROVE  IsIn(sz2, op2, u, v)
  <2>1. CASE v = u
    BY <2>1 DEF IsIn
  <2>2. CASE v # u
    <3>1. u.seg \in Nat /\ v.seg \in Nat
      BY DEF Place
    <3>2. /\ v.seg > u.seg /\ v.pos = 0 /\ u.pos = sz[u.seg]
          /\ ~ \E s \in op : u.seg < s /\ s < v.seg
      BY <1>1, <2>2 DEF IsIn
    <3>3. u.pos = sz2[u.seg]
      BY <1>1, <3>1, <3>2
    <3>4. ASSUME NEW s \in op2, u.seg < s, s < v.seg PROVE FALSE
      BY <1>1, <3>1, <3>2, <3>4
    <3>. QED
      BY <3>2, <3>3, <3>4 DEF IsIn
  <2>. QED
    BY <2>1, <2>2
<1>2. /\ Len(buf) \in Nat /\ DOMAIN buf = 1 .. Len(buf)
      /\ \A i \in 1 .. Len(buf) : /\ buf[i] \in Place /\ buf[i].seg <= n
                                  /\ buf[i].seg \in Segments
  OBVIOUS
<1>3. buf # <<>> => IsIn(sz2, op2, e, buf[1])
  <2>. SUFFICES ASSUME buf # <<>> PROVE IsIn(sz2, op2, e, buf[1])
    OBVIOUS
  <2>1. 1 \in 1 .. Len(buf) /\ IsIn(sz, op, e, buf[1])
    BY <1>2 DEF ChainIn
  <2>. QED
    BY <1>1, <1>2, <2>1
<1>4. ASSUME NEW i \in 2 .. Len(buf)
      PROVE  IsIn(sz2, op2, Succ(buf[i - 1]), buf[i])
  <2>1. i \in 1 .. Len(buf) /\ i - 1 \in 1 .. Len(buf)
    BY <1>2
  <2>2. buf[i - 1] \in Place /\ buf[i] \in Place /\ buf[i].seg <= n
    BY <1>2, <2>1
  <2>. DEFINE w == buf[i - 1]
  <2>4. Succ(w) \in Place /\ Succ(w).seg \in Segments
    BY <1>2, <2>1, <2>2 DEF Succ, Place
  <2>3. IsIn(sz, op, Succ(buf[i - 1]), buf[i])
    BY DEF ChainIn
  <2>. QED
    BY <1>1, <2>2, <2>3, <2>4
<1>5. IsIn(sz2, op2, Behind(e, buf), h)
  <2>1. Behind(e, buf) \in Place
    BY BehindIs
  <2>2. IsIn(sz, op, Behind(e, buf), h)
    BY DEF ChainIn
  <2>3. Behind(e, buf).seg \in Segments
    <3>1. CASE buf = <<>>
      BY <3>1 DEF Behind
    <3>2. CASE buf # <<>>
      <4>1. Len(buf) \in 1 .. Len(buf)
        BY <1>2, <3>2
      <4>2. Last(buf).seg \in Segments
        BY <1>2, <4>1 DEF Last
      <4>. QED
        BY <3>2, <4>2 DEF Behind, Succ
    <3>. QED
      BY <3>1, <3>2
  <2>. QED
    BY <1>1, <2>1, <2>2, <2>3
<1>. QED
  BY <1>3, <1>4, <1>5 DEF ChainIn

(* The elements of two sequences that are put together.                    *)
LEMMA Concat ==
  ASSUME NEW S, NEW s \in Seq(S), NEW t \in Seq(S)
  PROVE  /\ Len(s) \in Nat /\ s \o t \in Seq(S) /\ Len(s \o t) = Len(s) + Len(t)
         /\ \A i \in 1 .. Len(s) : (s \o t)[i] = s[i]
         /\ \A i \in 1 .. Len(t) : (s \o t)[Len(s) + i] = t[i]
OBVIOUS

(* The units of a segment from the place h on.                             *)
AreAt(h, units) ==
  \A i \in 1 .. Len(units) : units[i] = [seg |-> h.seg, pos |-> h.pos + i - 1]

(* What is read follows what was in hand.                                  *)
LEMMA ChainReads ==
  ASSUME NEW sz, NEW op, NEW e \in Place, NEW h \in Place, NEW buf \in Seq(Place),
         NEW units \in Seq(Place),
         AreAt(h, units),
         ChainIn(sz, op, e, buf, h)
  PROVE  ChainIn(sz, op, e, buf \o units, [seg |-> h.seg, pos |-> h.pos + Len(units)])
<1>. DEFINE new == buf \o units
            k == Len(units)
            h2 == [seg |-> h.seg, pos |-> h.pos + k]
<1>1. /\ Len(buf) \in Nat /\ new \in Seq(Place) /\ Len(new) = Len(buf) + k
      /\ \A i \in 1 .. Len(buf) : new[i] = buf[i]
      /\ \A i \in 1 .. k : new[Len(buf) + i] = units[i]
  BY Concat
<1>2. h = [seg |-> h.seg, pos |-> h.pos] /\ h.seg \in Nat /\ h.pos \in Nat
  BY DEF Place
<1>3. CASE k = 0
  <2>1. units = <<>> /\ new = buf
    BY <1>3
  <2>2. h2 = h
    BY <1>2, <1>3
  <2>. QED
    BY <2>1, <2>2
<1>4. CASE k > 0
  <2>1. new # <<>> /\ units[1] = h
    BY <1>1, <1>2, <1>4 DEF AreAt
  <2>2. IsIn(sz, op, e, new[1])
    <3>1. CASE buf = <<>>
      <4>1. new[1] = h
        BY <1>1, <1>4, <2>1, <3>1
      <4>. QED
        BY <3>1, <4>1 DEF ChainIn, Behind
    <3>2. CASE buf # <<>>
      <4>1. new[1] = buf[1]
        BY <1>1, <3>2
      <4>. QED
        BY <3>2, <4>1 DEF ChainIn
    <3>. QED
      BY <3>1, <3>2
  <2>3. ASSUME NEW i \in 2 .. Len(new)
        PROVE  IsIn(sz, op, Succ(new[i - 1]), new[i])
    <3>1. CASE i <= Len(buf)
      <4>1. i \in 2 .. Len(buf) /\ new[i] = buf[i] /\ new[i - 1] = buf[i - 1]
        BY <1>1, <3>1
      <4>. QED
        BY <4>1 DEF ChainIn
    <3>2. CASE i = Len(buf) + 1
      <4>1. Len(buf) \in 1 .. Len(buf) /\ buf # <<>>
        BY <1>1, <3>2
      <4>2. new[i - 1] = Last(buf)
        BY <1>1, <3>2, <4>1 DEF Last
      <4>3. new[i] = h
        BY <1>1, <1>4, <2>1, <3>2
      <4>. QED
        BY <4>1, <4>2, <4>3 DEF ChainIn, Behind
    <3>3. CASE i > Len(buf) + 1
      <4>1. PICK j \in 2 .. k : i = Len(buf) + j
        <5>1. i - Len(buf) \in 2 .. k /\ i = Len(buf) + (i - Len(buf))
          BY <1>1, <3>3
        <5>. QED
          BY <5>1
      <4>2. /\ j \in 1 .. k /\ j - 1 \in 1 .. k /\ i - 1 = Len(buf) + (j - 1)
            /\ j \in Nat
        BY <1>1, <4>1
      <4>3. new[i] = units[j] /\ new[i - 1] = units[j - 1]
        BY <1>1, <4>1, <4>2
      <4>4. /\ units[j] = [seg |-> h.seg, pos |-> h.pos + j - 1]
            /\ units[j - 1] = [seg |-> h.seg, pos |-> h.pos + (j - 1) - 1]
        BY <4>2 DEF AreAt
      <4>5. Succ(units[j - 1]) = units[j]
        BY <1>2, <4>2, <4>4 DEF Succ
      <4>. QED
        BY <4>3, <4>5 DEF IsIn
    <3>. QED
      BY <1>1, <3>1, <3>2, <3>3
  <2>4. Behind(e, new) = h2
    <3>1. Len(new) = Len(buf) + k /\ k \in 1 .. k
      BY <1>1, <1>4
    <3>2. Last(new) = units[k]
      BY <1>1, <3>1 DEF Last
    <3>3. units[k] = [seg |-> h.seg, pos |-> h.pos + k - 1]
      BY <3>1 DEF AreAt
    <3>. QED
      BY <1>2, <2>1, <3>2, <3>3 DEF Behind, Succ
  <2>. QED
    BY <2>1, <2>2, <2>3, <2>4 DEF ChainIn, IsIn
<1>. QED
  BY <1>3, <1>4

(* The end of a file is followed by the begin of the next segment, as long *)
(* as an empty one has none behind it.                                     *)
LEMMA ChainMoves ==
  ASSUME NEW sz, NEW op, op \subseteq Nat, NEW e \in Place, NEW h \in Place,
         NEW buf \in Seq(Place), ChainIn(sz, op, e, buf, h),
         h.pos = sz[h.seg], sz[h.seg] # 0,
         NEW m \in Nat, m > h.seg, \A s \in op : s > h.seg => m <= s
  PROVE  ChainIn(sz, op, e, buf, [seg |-> m, pos |-> 0])
<1>. DEFINE u == Behind(e, buf)
            v == [seg |-> m, pos |-> 0]
<1>1. u = h
  <2>1. IsIn(sz, op, u, h)
    BY DEF ChainIn
  <2>. QED
    BY <2>1 DEF IsIn
<1>2. ~ \E s \in op : h.seg < s /\ s < m
  BY DEF Place
<1>3. IsIn(sz, op, u, v)
  BY <1>1, <1>2 DEF IsIn, Place
<1>. QED
  BY <1>3 DEF ChainIn

(* At the end of a file and with no segment behind it all is in hand.      *)
LEMMA ChainEnds ==
  ASSUME NEW sz, NEW op, op \subseteq Nat, NEW e \in Place, NEW h \in Place,
         NEW buf \in Seq(Place), ChainIn(sz, op, e, buf, h),
         h.pos = sz[h.seg], \A s \in op : s <= h.seg
  PROVE  LET u == Behind(e, buf)
         IN  u.pos = sz[u.seg] /\ ~ \E s \in op : s > u.seg /\ sz[s] > 0
<1>. DEFINE u == Behind(e, buf)
<1>1. u \in Place
  BY BehindIs
<1>2. IsIn(sz, op, u, h)
  BY DEF ChainIn
<1>. HIDE DEF u
<1>3. u.pos = sz[u.seg] /\ ~ \E s \in op : s > u.seg /\ sz[s] > 0
  BY <1>1, <1>2 DEF IsIn, Place
<1>. QED
  BY <1>3 DEF u

(* What was written is what the decoder has.                               *)
LEMMA ChainWritten ==
  ASSUME NEW sz, NEW op, NEW e, NEW h, NEW buf, buf # <<>>,
         ChainIn(sz, op, e, buf, h)
  PROVE  ChainIn(sz, op, Succ(Last(buf)), <<>>, h)
BY DEF ChainIn, Behind

-----------------------------------------------------------------------------
(* What the steps read from the state.                                     *)
(* The newest segment is the last one listed.                              *)
LEMMA NewestIs ==
  ASSUME Types, ListInv
  PROVE  /\ Newest \in list /\ Newest \in Segments /\ Newest \in Nat
         /\ \A s \in list : s <= Newest
<1>1. list \subseteq Segments /\ list # {}
  BY DEF Types, ListInv
<1>2. Newest \in list /\ \A s \in list : s <= Newest
  BY <1>1, MaxOf DEF Newest
<1>. QED
  BY <1>1, <1>2, SegmentsAre

(* A unit and the open file are places.                                    *)
LEMMA PlacesAre ==
  ASSUME Types
  PROVE  /\ Unit \subseteq Place /\ Seq(Unit) \subseteq Seq(Place)
         /\ handle \in Place /\ thread.buf \in Seq(Place)
         /\ seen.at \in Place /\ Expected \in Place /\ Kept \in Seq(Place)
         /\ Kept \in Seq(Unit)
<1>1. Unit \subseteq Place
  BY Constants, SegmentsAre DEF Unit, Place
<1>2. Seq(Unit) \subseteq Seq(Place)
  BY <1>1
<1>3. handle \in Place
  BY Constants DEF Types, HandleT, Place
<1>4. thread.buf \in Seq(Unit)
  BY DEF Types, ThreadT
<1>5. seen.at \in [seg : 0 .. MaxSegment, pos : 0 .. MaxUnit] /\ seen.fresh \in BOOLEAN
  BY DEF Types, Seen
<1>6. seen.at \in Place
  BY <1>5, Constants DEF Place
<1>7. Expected \in Place
  BY <1>6 DEF Expected, Succ, Place
<1>8. Kept \in Seq(Unit)
  BY <1>4 DEF Kept
<1>. QED
  BY <1>1, <1>2, <1>3, <1>4, <1>6, <1>7, <1>8

(* What segment_read reads: as much as there is and is asked for.          *)
LEMMA UnitsAre ==
  ASSUME Types, NEW s \in Segments, NEW p \in Nat, p <= size[s], NEW n \in Nat
  PROVE  LET us == Units(s, p, n)
         IN  /\ us \in Seq(Unit) /\ Len(us) \in Nat
             /\ Len(us) <= n /\ p + Len(us) <= size[s]
             /\ Len(us) = 0 => n = 0 \/ p = size[s]
             /\ AreAt([seg |-> s, pos |-> p], us)
<1>. DEFINE k == Min({n, size[s] - p})
            us == [i \in 1 .. k |-> [seg |-> s, pos |-> p + i - 1]]
<1>1. size[s] \in Nat /\ size[s] <= MaxUnit /\ MaxUnit \in Nat
  BY Constants DEF Types
<1>2. size[s] - p \in Nat
  BY <1>1
<1>3. /\ k \in Nat /\ k <= n /\ k <= size[s] - p
      /\ k = n \/ k = size[s] - p
  BY <1>2, MinOfTwo
<1>. HIDE DEF k
<1>4. ASSUME NEW i \in 1 .. k
      PROVE  [seg |-> s, pos |-> p + i - 1] \in Unit
  BY <1>1, <1>3 DEF Unit
<1>5. us \in Seq(Unit) /\ Len(us) = k
  BY <1>3, <1>4
<1>6. \A i \in 1 .. k : us[i] = [seg |-> s, pos |-> p + i - 1]
  OBVIOUS
<1>7. Units(s, p, n) = us
  BY DEF Units, k
<1>. HIDE DEF us
<1>8. AreAt([seg |-> s, pos |-> p], us)
  BY <1>5, <1>6 DEF AreAt
<1>. QED
  BY <1>1, <1>3, <1>5, <1>7, <1>8

(* What is in hand after a read, and where the file is then.               *)
LEMMA FilledIs ==
  ASSUME Types, BufInv, HandleInv, handle # NoHandle, thread.pc \in {"read", "reread"}
  PROVE  /\ Filled \in Seq(Unit)
         /\ Len(Filled) \in Nat /\ Len(Filled) <= Block
         /\ Len(thread.buf) \in Nat /\ Len(thread.buf) <= Len(Filled)
         /\ handle.pos + (Len(Filled) - Len(thread.buf)) <= size[handle.seg]
         /\ Filled = thread.buf => handle.pos = size[handle.seg]
         /\ \A i \in DOMAIN Filled :
              \/ Filled[i].seg = handle.seg
              \/ \E j \in DOMAIN thread.buf : Filled[i] = thread.buf[j]
         /\ \A sz, op, e : e \in Place /\ ChainIn(sz, op, e, thread.buf, handle)
              => ChainIn(sz, op, e, Filled, [seg |-> handle.seg,
                           pos |-> handle.pos + (Len(Filled) - Len(thread.buf))])
<1>. DEFINE buf == thread.buf
            n == Block - Len(buf)
            us == Units(handle.seg, handle.pos, n)
<1>1. /\ buf \in Seq(Unit) /\ Len(buf) \in Nat /\ Len(buf) < Block
      /\ handle.seg \in Segments /\ handle.pos \in Nat /\ handle.pos <= size[handle.seg]
      /\ handle = [seg |-> handle.seg, pos |-> handle.pos]
  BY Constants DEF Types, ThreadT, HandleT, BufInv, HandleInv
<1>2. n \in Nat /\ n > 0
  BY <1>1, Constants
<1>3. Filled = buf \o us
  BY DEF Filled
<1>. HIDE DEF n
<1>4. /\ us \in Seq(Unit) /\ Len(us) \in Nat
      /\ Len(us) <= n /\ handle.pos + Len(us) <= size[handle.seg]
      /\ Len(us) = 0 => n = 0 \/ handle.pos = size[handle.seg]
      /\ AreAt([seg |-> handle.seg, pos |-> handle.pos], us)
  BY <1>1, <1>2, UnitsAre
<1>. HIDE DEF us, buf
<1>5. /\ buf \o us \in Seq(Unit) /\ Len(buf \o us) = Len(buf) + Len(us)
      /\ \A i \in 1 .. Len(buf) : (buf \o us)[i] = buf[i]
      /\ \A i \in 1 .. Len(us) : (buf \o us)[Len(buf) + i] = us[i]
  BY <1>1, <1>4, Concat
<1>6. Len(buf \o us) <= Block /\ Len(buf \o us) - Len(buf) = Len(us)
  BY <1>1, <1>4, <1>5, Constants DEF n
<1>7. buf \o us = buf => handle.pos = size[handle.seg]
  BY <1>1, <1>2, <1>4, <1>5
<1>8. ASSUME NEW i \in DOMAIN (buf \o us)
      PROVE  \/ (buf \o us)[i].seg = handle.seg
             \/ \E j \in DOMAIN buf : (buf \o us)[i] = buf[j]
  <2>1. i \in 1 .. Len(buf) + Len(us)
    BY <1>5
  <2>2. CASE i \in 1 .. Len(buf)
    BY <1>1, <1>5, <2>2
  <2>3. CASE ~ (i \in 1 .. Len(buf))
    <3>1. i - Len(buf) \in 1 .. Len(us) /\ i = Len(buf) + (i - Len(buf))
      BY <1>1, <1>4, <2>1, <2>3
    <3>. DEFINE j == i - Len(buf)
    <3>2. (buf \o us)[Len(buf) + j] = us[j]
      BY <1>5, <3>1
    <3>3. us[j] = [seg |-> handle.seg, pos |-> handle.pos + j - 1]
      BY <1>4, <3>1 DEF AreAt
    <3>. QED
      BY <3>1, <3>2, <3>3
  <2>. QED
    BY <2>2, <2>3
<1>9. ASSUME NEW sz, NEW op, NEW e, e \in Place, ChainIn(sz, op, e, buf, handle)
      PROVE  ChainIn(sz, op, e, buf \o us,
                     [seg |-> handle.seg, pos |-> handle.pos + Len(us)])
  <2>1. handle \in Place /\ buf \in Seq(Place) /\ us \in Seq(Place)
    BY <1>1, <1>4, PlacesAre DEF buf
  <2>2. AreAt(handle, us)
    BY <1>1, <1>4
  <2>. QED
    BY <1>9, <2>1, <2>2, ChainReads
<1>. QED
  BY <1>1, <1>3, <1>4, <1>5, <1>6, <1>7, <1>8, <1>9 DEF buf

(* The segments that may come next are listed.                             *)
LEMMA NextListed ==
  ASSUME Types
  PROVE  LET n == Next_(player.cur)
         IN  /\ n \subseteq list /\ n \subseteq Segments /\ n \subseteq Nat
             /\ player.open => /\ \A s \in n : s > player.cur
                               /\ n # {} => player.cur \in list
             /\ player.open /\ player.cur \in list
                  => \A s \in list : s > player.cur => s \in n
             /\ ~player.open => n = list
<1>1. list \subseteq Segments /\ player.open \in BOOLEAN
  BY DEF Types, PlayerT
<1>. QED
  BY <1>1, SegmentsAre DEF Next_, After

(* The next segment is the first of those that open.                       *)
LEMMA NextIs ==
  ASSUME Types
  PROVE  /\ NextId # None => /\ NextId \in Openable /\ NextId \in Segments
                             /\ NextId \in Next_(player.cur)
                             /\ \A s \in Next_(player.cur) \ Missing : NextId <= s
         /\ NextId = None => Next_(player.cur) \ Missing = {}
<1>. DEFINE n == Next_(player.cur) \ Missing
<1>1. /\ n \subseteq Next_(player.cur) /\ n \subseteq list
      /\ n \subseteq Segments /\ n \subseteq Nat
  BY NextListed
<1>2. NextId = IF n # {} THEN Min(n) ELSE None
  BY DEF NextId
<1>. HIDE DEF n
<1>3. CASE n # {}
  <2>1. Min(n) \in n /\ \A s \in n : Min(n) <= s
    BY <1>1, <1>3, MinOf
  <2>2. NextId \in n /\ \A s \in n : NextId <= s
    BY <1>2, <1>3, <2>1
  <2>3. NextId \in Segments /\ NextId # None
    BY <1>1, <2>2, SegmentsAre
  <2>4. NextId \in Openable
    BY <1>1, <2>2 DEF Openable, n
  <2>. QED
    BY <2>2, <2>3, <2>4 DEF n
<1>4. CASE n = {}
  BY <1>2, <1>4 DEF n
<1>. QED
  BY <1>3, <1>4

(* A change of segment: one opens, or none of the rest does, or there is   *)
(* no other.                                                               *)
LEMMA ChangedIs ==
  ASSUME Types, Changed
  PROVE  \/ /\ NextId # None
            /\ player' = [player EXCEPT !.open = TRUE, !.cur = NextId]
            /\ handle' = [seg |-> NextId, pos |-> 0]
         \/ /\ NextId = None
            /\ \E m \in list : player' = [player EXCEPT !.open = TRUE, !.cur = m]
            /\ handle' = NoHandle
            /\ Missing # {}
         \/ /\ NextId = None /\ Next_(player.cur) = {}
            /\ UNCHANGED <<player, handle>>
<1>1. CASE NextId # None
  BY <1>1 DEF Changed
<1>2. CASE NextId = None /\ Next_(player.cur) = {}
  BY <1>2 DEF Changed
<1>3. CASE NextId = None /\ Next_(player.cur) # {}
  <2>1. /\ player' = [player EXCEPT !.open = TRUE, !.cur = Max(Next_(player.cur))]
        /\ handle' = NoHandle
    BY <1>3 DEF Changed
  <2>2. Next_(player.cur) \subseteq Segments /\ Next_(player.cur) \subseteq list
    BY NextListed
  <2>3. Max(Next_(player.cur)) \in list
    BY <1>3, <2>2, MaxOf
  <2>4. Missing # {}
    BY <1>3, NextIs
  <2>. QED
    BY <1>3, <2>1, <2>3, <2>4
<1>. QED
  BY <1>1, <1>2, <1>3

(* An empty buffer.                                                        *)
LEMMA NoUnits == <<>> \in Seq(Unit)
OBVIOUS

(* A change of segment keeps the types.                                    *)
LEMMA ChangedTyped ==
  ASSUME Types, Changed
  PROVE  player' \in PlayerT /\ handle' \in HandleT
<1>. USE Constants DEF Types
<1>1. CASE UNCHANGED <<player, handle>>
  BY <1>1
<1>2. ASSUME NEW m \in 0 .. MaxSegment,
             player' = [player EXCEPT !.open = TRUE, !.cur = m]
      PROVE  player' \in PlayerT
  BY <1>2 DEF PlayerT
<1>3. ASSUME NEW m \in 0 .. MaxSegment, handle' = [seg |-> m, pos |-> 0]
      PROVE  handle' \in HandleT
  BY <1>3 DEF HandleT
<1>4. Segments \subseteq 0 .. MaxSegment /\ None \in 0 .. MaxSegment
  BY SegmentsAre DEF None
<1>5. CASE /\ NextId # None
           /\ player' = [player EXCEPT !.open = TRUE, !.cur = NextId]
           /\ handle' = [seg |-> NextId, pos |-> 0]
  BY <1>2, <1>3, <1>4, <1>5, NextIs
<1>6. CASE /\ \E m \in list : player' = [player EXCEPT !.open = TRUE, !.cur = m]
           /\ handle' = NoHandle
  BY <1>2, <1>3, <1>4, <1>6 DEF NoHandle
<1>. QED
  BY <1>1, <1>5, <1>6, ChangedIs

(* A call is counted.                                                      *)
LEMMA CallsTyped ==
  ASSUME calls \in 0 .. MaxCall, NEW op, Calls(op)
  PROVE  calls' \in 0 .. MaxCall
BY Constants DEF Calls

(* The length of what is in hand.                                          *)
LEMMA LengthOfBuf ==
  ASSUME Types
  PROVE  thread.buf \in Seq(Unit) /\ Len(thread.buf) \in Nat
BY DEF Types, ThreadT

(* What is in hand after a read, and the place of the file, have their     *)
(* types, also when there is no file.                                      *)
LEMMA FilledTyped ==
  ASSUME Types, BufInv, HandleInv, thread.pc \in {"read", "reread"}
  PROVE  /\ Filled \in Seq(Unit) /\ Len(Filled) \in 0 .. Block
         /\ Advance => handle' \in HandleT
<1>1. CASE handle = NoHandle
  <2>1. Filled = <<>> /\ (Advance => handle' = handle)
    BY <1>1 DEF Filled, Advance
  <2>. QED
    BY <2>1, Constants DEF Types
<1>2. CASE handle # NoHandle
  <2>. DEFINE k == Len(Filled) - Len(thread.buf)
  <2>1. /\ Filled \in Seq(Unit) /\ Len(Filled) \in 0 .. Block
        /\ k \in Nat /\ handle.pos + k <= size[handle.seg]
    BY <1>2, FilledIs
  <2>. HIDE DEF k
  <2>2. /\ handle.seg \in Segments /\ handle.pos \in Nat
        /\ size[handle.seg] \in 0 .. MaxUnit
    BY <1>2 DEF HandleInv, Types, HandleT
  <2>3. ASSUME Advance PROVE handle' \in HandleT
    <3>1. handle' = [handle EXCEPT !.pos = @ + Len(Filled) - Len(thread.buf)]
      BY <1>2, <2>3 DEF Advance
    <3>2. handle.pos + Len(Filled) - Len(thread.buf) = handle.pos + k
      BY <2>1, <2>2, LengthOfBuf DEF k
    <3>3. handle' = [handle EXCEPT !.pos = handle.pos + k]
      BY <3>1, <3>2
    <3>4. handle.pos + k \in 0 .. MaxUnit
      BY <2>1, <2>2, Constants
    <3>. QED
      BY <3>3, <3>4 DEF Types, HandleT
  <2>. QED
    BY <2>1, <2>3
<1>. QED
  BY <1>1, <1>2

-----------------------------------------------------------------------------
(* Types.                                                                  *)
LEMMA TypesNext ==
  ASSUME Types, WholeBlocks, ListInv, BufInv, HandleInv, [Next]_vars
  PROVE  Types'
<1>. USE Zero DEF Types
<1>1. CASE UNCHANGED vars
  BY <1>1 DEF vars
<1>2. CASE Grow
  <2>1. Newest \in Segments /\ size[Newest] < MaxUnit
    BY <1>2, NewestIs DEF Grow
  <2>2. size' \in [Segments -> 0 .. MaxUnit]
    BY <1>2, <2>1, Constants DEF Grow
  <2>3. seen' \in Seen
    BY <1>2 DEF Grow, Seen
  <2>. QED
    BY <1>2, <2>2, <2>3 DEF Grow
<1>3. CASE AddSegment
  <2>1. Newest \in Segments /\ Newest < MaxSegment
    BY <1>3, NewestIs DEF AddSegment
  <2>2. Newest + 1 \in Segments
    BY <2>1, Constants DEF Segments
  <2>3. seen' \in Seen
    BY <1>3 DEF AddSegment, Seen
  <2>. QED
    BY <1>3, <2>2, <2>3 DEF AddSegment
<1>4. CASE Show
  <2>1. decoder.units - Block \in 0 .. Cache
    <3>1. PICK k \in Nat : decoder.units = k * Block
      BY DEF WholeBlocks
    <3>2. decoder.units \in 0 .. Cache /\ decoder.units > 0
      BY <1>4, Constants DEF Show, DecoderT
    <3>3. k # 0
      BY <3>1, <3>2, Constants
    <3>4. k - 1 \in Nat /\ k * Block = (k - 1) * Block + Block
      BY <3>3, Constants
    <3>5. (k - 1) * Block \in Nat
      BY <3>4, Constants
    <3>. QED
      BY <3>1, <3>2, <3>4, <3>5, Constants
  <2>2. decoder' \in DecoderT
    BY <1>4, <2>1 DEF Show, DecoderT
  <2>. QED
    BY <1>4, <2>2 DEF Show
<1>5. CASE FirstFrame
  <2>1. decoder' \in DecoderT
    BY <1>5 DEF FirstFrame, DecoderT
  <2>2. player' \in PlayerT
    BY <1>5 DEF FirstFrame, PlayerT
  <2>. QED
    BY <1>5, <2>1, <2>2 DEF FirstFrame
<1>6. CASE Start
  <2>1. player' \in PlayerT
    BY <1>6 DEF Start, PlayerT
  <2>2. thread' \in ThreadT
    <3>1. CASE player.running
      BY <1>6, <3>1 DEF Start
    <3>2. CASE ~player.running
      <4>1. thread' = [NoThread EXCEPT !.pc = "start", !.noData = thread.noData]
        BY <1>6, <3>2 DEF Start
      <4>2. thread.noData \in 0 .. NoDataTime + 1
        BY DEF ThreadT
      <4>. QED
        BY <4>1, <4>2, NoUnits DEF NoThread, ThreadT
    <3>. QED
      BY <3>1, <3>2
  <2>3. decoder' \in DecoderT
    BY <1>6 DEF Start, DecoderT
  <2>. QED
    BY <1>6, <2>1, <2>2, <2>3, CallsTyped DEF Start
<1>7. CASE Pause
  <2>1. player' \in PlayerT
    BY <1>7 DEF Pause, PlayerT, Paused
  <2>2. seen' \in Seen
    BY <1>7 DEF Pause, Seen
  <2>. QED
    BY <1>7, <2>1, <2>2, CallsTyped DEF Pause
<1>8. CASE Resume
  <2>1. player' \in PlayerT
    BY <1>8 DEF Resume, PlayerT
  <2>2. seen' \in Seen
    BY <1>8 DEF Resume, Seen
  <2>. QED
    BY <1>8, <2>1, <2>2, CallsTyped DEF Resume
<1>9. CASE StopAsk
  <2>1. player' \in PlayerT
    BY <1>9 DEF StopAsk, PlayerT
  <2>2. app' \in AppT
    BY <1>9 DEF StopAsk, AppT, Idle, None
  <2>. QED
    BY <1>9, <2>1, <2>2, CallsTyped DEF StopAsk
<1>10. CASE Join
  <2>1. app' \in AppT
    BY <1>10 DEF Join, AppT, Idle, None
  <2>2. thread' \in ThreadT
    <3>1. thread' = [NoThread EXCEPT !.noData = thread.noData]
      BY <1>10 DEF Join
    <3>2. thread.noData \in 0 .. NoDataTime + 1
      BY DEF ThreadT
    <3>. QED
      BY <3>1, <3>2, NoUnits DEF NoThread, ThreadT
  <2>. QED
    BY <1>10, <2>1, <2>2 DEF Join
<1>11. CASE Stop
  <2>1. app' \in AppT
    BY <1>11 DEF Stop, AppT, Idle, None
  <2>2. handle' \in HandleT
    BY <1>11 DEF Stop, HandleT, NoHandle, None
  <2>3. player' \in PlayerT
    <3>1. player' = [player EXCEPT !.state = "STOP", !.cur = 0, !.open = FALSE]
      BY <1>11 DEF Stop, None
    <3>. QED
      BY <3>1 DEF PlayerT
  <2>4. decoder' \in DecoderT
    BY <1>11 DEF Stop, DecoderT
  <2>5. seen' \in Seen
    BY <1>11 DEF Stop, Seen
  <2>. QED
    BY <1>11, <2>1, <2>2, <2>3, <2>4, <2>5 DEF Stop
<1>12. CASE SeekRefused
  <2>1. app' \in AppT
    BY <1>12 DEF SeekRefused, AppT, Idle, None
  <2>. QED
    BY <1>12, <2>1 DEF SeekRefused
<1>13. CASE RemoveDone
  <2>1. app' \in AppT
    BY <1>13 DEF RemoveDone, AppT, Idle, None
  <2>2. seen' \in Seen
    BY <1>13 DEF RemoveDone, Seen
  <2>3. list' \subseteq Segments
    BY <1>13 DEF RemoveDone
  <2>. QED
    BY <1>13, <2>1, <2>2, <2>3 DEF RemoveDone
<1>14. CASE Leave
  <2>1. thread' \in ThreadT
    BY <1>14, NoUnits DEF Leave, ThreadT
  <2>. QED
    BY <1>14, <2>1 DEF Leave
<1>15. CASE Head_
  <2>1. thread' \in ThreadT
    <3>1. CASE player.drop
      <4>1. thread' = [thread EXCEPT !.pc = "read", !.buf = <<>>, !.rewrite = FALSE]
        BY <1>15, <3>1 DEF Head_
      <4>. QED
        BY <4>1, NoUnits DEF ThreadT
    <3>2. CASE ~player.drop
      <4>. DEFINE pc == IF thread.rewrite THEN "drop" ELSE "read"
      <4>1. thread' = [thread EXCEPT !.pc = pc, !.rewrite = FALSE]
        BY <1>15, <3>2 DEF Head_
      <4>2. pc \in {"read", "drop"}
        OBVIOUS
      <4>. HIDE DEF pc
      <4>. QED
        BY <4>1, <4>2 DEF ThreadT
    <3>. QED
      BY <3>1, <3>2
  <2>2. player' \in PlayerT
    BY <1>15 DEF Head_, PlayerT
  <2>. QED
    BY <1>15, <2>1, <2>2 DEF Head_
<1>16. CASE NothingNext
  <2>1. thread' \in ThreadT
    <3>1. Min({NoData, NoDataTime + 1}) \in 0 .. NoDataTime + 1
      BY MinOfTwo, Constants DEF NoData, ThreadT
    <3>2. Min({Waits, MaxWait}) \in 0 .. MaxWait
      BY MinOfTwo, Constants DEF Waits, ThreadT
    <3>3. decoder.units \in 0 .. Cache
      BY DEF DecoderT
    <3>. QED
      BY <1>16, <3>1, <3>2, <3>3 DEF NothingNext, ThreadT
  <2>2. seen' \in Seen
    BY <1>16 DEF NothingNext, Seen
  <2>. QED
    BY <1>16, <2>1, <2>2 DEF NothingNext
<1>17. CASE EndPause
  <2>1. player' \in PlayerT
    BY <1>17 DEF EndPause, PlayerT, Paused
  <2>2. thread' \in ThreadT
    BY <1>17, NoUnits DEF EndPause, ThreadT, Go
  <2>3. seen' \in Seen
    BY <1>17 DEF EndPause, Seen
  <2>. QED
    BY <1>17, <2>1, <2>2, <2>3 DEF EndPause
<1>18. CASE Drop
  <2>1. player' \in PlayerT
    <3>1. CASE player.drop
      <4>1. player' = [player EXCEPT !.drop = FALSE, !.cacheLen = 0]
        BY <1>18, <3>1 DEF Drop
      <4>. QED
        BY <4>1 DEF PlayerT
    <3>2. CASE ~player.drop
      BY <1>18, <3>2 DEF Drop
    <3>. QED
      BY <3>1, <3>2
  <2>2. thread' \in ThreadT
    BY <1>18, NoUnits DEF Drop, ThreadT, Go
  <2>. QED
    BY <1>18, <2>1, <2>2 DEF Drop
<1>19. CASE ReadFails
  <2>1. thread' \in ThreadT
    BY <1>19, NoUnits DEF ReadFails, ThreadT
  <2>. QED
    BY <1>19, <2>1 DEF ReadFails
<1>20. CASE SeekFile
  <2>. DEFINE p == Min({app.pos, size[app.seg]})
  <2>1. app.seg \in Segments /\ app.pos \in Nat /\ size[app.seg] \in 0 .. MaxUnit
    BY <1>20 DEF SeekFile, ListInv, Openable, AppT
  <2>2. p \in 0 .. MaxUnit
    BY <2>1, MinOfTwo, Constants
  <2>. HIDE DEF p
  <2>3. handle.seg \in Segments
    BY <1>20 DEF SeekFile, HandleInv
  <2>4. Min({p, size[handle.seg]}) \in 0 .. MaxUnit
    BY <2>2, <2>3, MinOfTwo, Constants
  <2>5. handle' \in HandleT
    BY <1>20, <2>4 DEF SeekFile, HandleT, p
  <2>6. player' \in PlayerT
    <3>1. app.seg \in 0 .. MaxSegment
      BY DEF AppT
    <3>2. Sought \in PlayerT
      BY <3>1 DEF Sought, PlayerT
    <3>. QED
      BY <1>20, <3>2 DEF SeekFile
  <2>7. decoder' \in DecoderT
    BY <1>20 DEF SeekFile, DecoderT
  <2>8. seen' \in Seen
    <3>. DEFINE torn == Busy \/ At("first") \/ (Alive /\ handle.seg # app.seg)
    <3>1. seen' = [seen EXCEPT !.at = [seg |-> app.seg, pos |-> p], !.fresh = TRUE,
                               !.moved = TRUE, !.raced = torn, !.late = 0]
      BY <1>20 DEF SeekFile, p
    <3>2. [seg |-> app.seg, pos |-> p] \in [seg : 0 .. MaxSegment, pos : 0 .. MaxUnit]
      BY <2>1, <2>2, SegmentsAre
    <3>3. torn \in BOOLEAN
      OBVIOUS
    <3>. HIDE DEF torn
    <3>. QED
      BY <3>1, <3>2, <3>3 DEF Seen
  <2>9. app' \in AppT
    BY <1>20 DEF SeekFile, Idle, None, AppT
  <2>. QED
    BY <1>20, <2>5, <2>6, <2>7, <2>8, <2>9 DEF SeekFile
<1>21. ASSUME NEW s \in Segments, NEW p \in 0 .. MaxUnit + 1, SeekOpen(s, p)
      PROVE  Types'
  <2>1. s \in 0 .. MaxSegment
    BY SegmentsAre
  <2>2. app' \in AppT
    BY <1>21, <2>1 DEF SeekOpen, AppT
  <2>3. player' \in PlayerT
    BY <1>21, <2>1 DEF SeekOpen, PlayerT
  <2>4. handle' \in HandleT
    BY <1>21, <2>1 DEF SeekOpen, HandleT
  <2>5. seen' \in Seen
    BY <1>21 DEF SeekOpen, Alive, Seen
  <2>. QED
    BY <1>21, <2>2, <2>3, <2>4, <2>5, CallsTyped DEF SeekOpen
<1>22. ASSUME NEW s \in Segments, RemoveLook(s)
      PROVE  Types'
  <2>1. app' \in AppT
    BY <1>22, SegmentsAre, Constants DEF RemoveLook, AppT
  <2>. QED
    BY <1>22, <2>1, CallsTyped DEF RemoveLook
<1>23. CASE FirstSegment
  <2>1. thread' \in ThreadT
    BY <1>23, NoUnits DEF FirstSegment, Go, ThreadT
  <2>2. NextId \in 0 .. MaxSegment
    BY NextIs, SegmentsAre DEF None
  <2>3. player' \in PlayerT
    BY <1>23, <2>2, ChangedTyped DEF FirstSegment
  <2>4. handle' \in HandleT
    BY <1>23, <2>2, ChangedTyped DEF FirstSegment
  <2>5. seen' \in Seen
    <3>1. seen' = [seen EXCEPT !.at = [seg |-> NextId, pos |-> 0], !.fresh = TRUE]
      BY <1>23 DEF FirstSegment
    <3>2. [seg |-> NextId, pos |-> 0] \in [seg : 0 .. MaxSegment, pos : 0 .. MaxUnit]
      BY <2>2
    <3>. QED
      BY <3>1, <3>2 DEF Seen
  <2>. QED
    BY <1>23, <2>1, <2>3, <2>4, <2>5 DEF FirstSegment
<1>28. CASE Begin
  <2>1. thread' \in ThreadT
    BY <1>28, NoUnits DEF Begin, Go, ThreadT
  <2>. QED
    BY <1>28, <2>1 DEF Begin
<1>24. CASE Change
  <2>1. thread' \in ThreadT
    BY <1>24, NoUnits DEF Change, Go, ThreadT
  <2>2. NextId \in 0 .. MaxSegment
    BY NextIs, SegmentsAre DEF None
  <2>3. player' \in PlayerT
    BY <1>24, <2>2, ChangedTyped DEF Change
  <2>4. handle' \in HandleT
    BY <1>24, <2>2, ChangedTyped DEF Change
  <2>. QED
    BY <1>24, <2>1, <2>3, <2>4 DEF Change
<1>25. CASE Read
  <2>1. Filled \in Seq(Unit) /\ Len(Filled) \in 0 .. Block
    BY <1>25, FilledTyped DEF Read, At
  <2>2. player' \in PlayerT
    BY <1>25, <2>1 DEF Read, PlayerT
  <2>3. thread' \in ThreadT
    <3>1. CASE handle # NoHandle /\ Filled = thread.buf
      BY <1>25, <3>1 DEF Read, Go, ThreadT
    <3>2. CASE ~ (handle # NoHandle /\ Filled = thread.buf)
      <4>. DEFINE pc == IF Len(Filled) = Block THEN "drop" ELSE "top"
                  n == IF Counted THEN 0 ELSE thread.noData
      <4>1. thread' = [thread EXCEPT !.pc = pc, !.buf = Filled, !.noData = n, !.waits = 0]
        BY <1>25, <3>2 DEF Read, WithData
      <4>2. n \in 0 .. NoDataTime + 1 /\ pc \in {"drop", "top"}
        BY DEF ThreadT
      <4>. HIDE DEF pc, n
      <4>. QED
        BY <4>1, <4>2, <2>1 DEF ThreadT
    <3>. QED
      BY <3>1, <3>2
  <2>4. handle' \in HandleT
    BY <1>25, FilledTyped DEF Read, At
  <2>5. seen' \in Seen
    BY <1>25 DEF Read, WithData, Counted, Seen
  <2>. QED
    BY <1>25, <2>2, <2>3, <2>4, <2>5 DEF Read
<1>26. CASE Reread
  <2>1. Filled \in Seq(Unit) /\ Len(Filled) \in 0 .. Block
    BY <1>26, FilledTyped DEF Reread, At
  <2>2. player' \in PlayerT
    BY <1>26, <2>1 DEF Reread, PlayerT
  <2>3. thread' \in ThreadT
    <3>. DEFINE pc == IF Len(Filled) = Block THEN "drop" ELSE "top"
    <3>1. thread' = [thread EXCEPT !.pc = pc, !.buf = Filled, !.noData = 0,
                                   !.waits = 0, !.delay = 0]
      BY <1>26 DEF Reread
    <3>2. pc \in {"drop", "top"}
      OBVIOUS
    <3>. HIDE DEF pc
    <3>. QED
      BY <2>1, <3>1, <3>2 DEF ThreadT
  <2>4. handle' \in HandleT
    BY <1>26, FilledTyped DEF Reread, At
  <2>5. seen' \in Seen
    BY <1>26 DEF Reread, Seen
  <2>. QED
    BY <1>26, <2>2, <2>3, <2>4, <2>5 DEF Reread
<1>27. CASE Write
  <2>1. Len(thread.buf) = Block /\ thread.buf \in Seq(Unit)
    BY <1>27 DEF Write, At, BufInv, ThreadT
  <2>2. player' \in PlayerT
    BY <1>27, <2>1 DEF Write, LeftInHand, PlayerT
  <2>3. thread' \in ThreadT
    <3>1. CASE Fits
      <4>1. thread' = [thread EXCEPT !.pc = "top", !.buf = <<>>]
        BY <1>27, <3>1 DEF Write
      <4>. QED
        BY <4>1, NoUnits DEF ThreadT
    <3>2. CASE ~Fits
      <4>1. thread' = [thread EXCEPT !.pc = "top", !.rewrite = TRUE]
        BY <1>27, <3>2 DEF Write
      <4>. QED
        BY <4>1 DEF ThreadT
    <3>. QED
      BY <3>1, <3>2
  <2>4. decoder' \in DecoderT
    BY <1>27, <2>1 DEF Write, Fits, DecoderT
  <2>5. seen' \in Seen
    <3>1. Last(thread.buf) \in Unit
      BY <2>1, Constants DEF Last
    <3>2. Last(thread.buf) \in [seg : 0 .. MaxSegment, pos : 0 .. MaxUnit]
      BY <3>1, SegmentsAre, Constants DEF Unit
    <3>3. seen.late \in 0 .. 2
      BY DEF Seen
    <3>4. Min({seen.late + 1, 2}) \in 0 .. 2
      BY <3>3, MinOfTwo, Constants
    <3>. QED
      BY <1>27, <3>2, <3>3, <3>4 DEF Write, Seen
  <2>. QED
    BY <1>27, <2>2, <2>3, <2>4, <2>5 DEF Write
<1>. QED
  BY <1>1, <1>2, <1>3, <1>4, <1>5, <1>6, <1>7, <1>8, <1>9, <1>10, <1>11,
     <1>12, <1>13, <1>14, <1>15, <1>16, <1>17, <1>18, <1>19, <1>20, <1>21,
     <1>22, <1>23, <1>24, <1>25, <1>26, <1>27, <1>28 DEF Next, Thread

-----------------------------------------------------------------------------
(* The thread lives from start to the join of stop.                        *)
LEMMA LifeNext ==
  ASSUME Types, LifeInv, [Next]_vars
  PROVE  LifeInv'
<1>1. CASE UNCHANGED vars
  BY <1>1 DEF vars, LifeInv, At, Alive, Types, PlayerT, ThreadT, AppT
<1>2. CASE Grow
  BY <1>2 DEF Grow, LifeInv, At, Alive, Types, PlayerT, ThreadT, AppT
<1>3. CASE AddSegment
  BY <1>3 DEF AddSegment, LifeInv, At, Alive, Types, PlayerT, ThreadT, AppT
<1>4. CASE Show
  BY <1>4 DEF Show, LifeInv, At, Alive, Types, PlayerT, ThreadT, AppT
<1>5. CASE FirstFrame
  BY <1>5 DEF FirstFrame, LifeInv, At, Alive, Types, PlayerT, ThreadT, AppT
<1>6. CASE Start
  BY <1>6 DEF Start, NoThread, LifeInv, At, Alive, Types, PlayerT, ThreadT, AppT
<1>7. CASE Pause
  BY <1>7 DEF Pause, Paused, LifeInv, At, Alive, Types, PlayerT, ThreadT, AppT
<1>8. CASE Resume
  BY <1>8 DEF Resume, LifeInv, At, Alive, Types, PlayerT, ThreadT, AppT
<1>9. CASE StopAsk
  BY <1>9 DEF StopAsk, Idle, Calls, LifeInv, At, Alive, Types, PlayerT, ThreadT, AppT
<1>10. CASE Join
  BY <1>10 DEF Join, NoThread, Idle, LifeInv, At, Alive, Types, PlayerT, ThreadT, AppT
<1>11. CASE Stop
  BY <1>11 DEF Stop, Idle, LifeInv, At, Alive, Types, PlayerT, ThreadT, AppT
<1>12. CASE SeekRefused
  BY <1>12 DEF SeekRefused, Idle, LifeInv, At, Alive, Types, PlayerT, ThreadT, AppT
<1>13. CASE SeekFile
  BY <1>13 DEF SeekFile, Sought, Idle, LifeInv, At, Alive, Types, PlayerT, ThreadT, AppT
<1>14. ASSUME NEW s \in Segments, NEW p \in 0 .. MaxUnit + 1, SeekOpen(s, p)
      PROVE  LifeInv'
  BY <1>14 DEF SeekOpen, Calls, Idle, LifeInv, At, Alive, Types, PlayerT, ThreadT, AppT
<1>15. ASSUME NEW s \in Segments, RemoveLook(s)
      PROVE  LifeInv'
  BY <1>15 DEF RemoveLook, Calls, Idle, LifeInv, At, Alive, Types, PlayerT, ThreadT, AppT
<1>16. CASE RemoveDone
  BY <1>16 DEF RemoveDone, Idle, LifeInv, At, Alive, Types, PlayerT, ThreadT, AppT
<1>17. CASE Begin
  BY <1>17 DEF Begin, Go, LifeInv, At, Alive, Types, PlayerT, ThreadT, AppT
<1>28. CASE FirstSegment
  BY <1>28, ChangedIs DEF FirstSegment, Go, LifeInv, At, Alive, Types, PlayerT, ThreadT, AppT
<1>18. CASE Leave
  BY <1>18 DEF Leave, LifeInv, At, Alive, Types, PlayerT, ThreadT, AppT
<1>19. CASE Head_
  BY <1>19 DEF Head_, Go, LifeInv, At, Alive, Types, PlayerT, ThreadT, AppT
<1>20. CASE Read
  BY <1>20 DEF Read, WithData, Go, LifeInv, At, Alive, Types, PlayerT, ThreadT, AppT
<1>21. CASE Change
  BY <1>21, ChangedIs DEF Change, Go, LifeInv, At, Alive, Types, PlayerT, ThreadT, AppT
<1>22. CASE Reread
  BY <1>22 DEF Reread, LifeInv, At, Alive, Types, PlayerT, ThreadT, AppT
<1>23. CASE NothingNext
  BY <1>23 DEF NothingNext, LifeInv, At, Alive, Types, PlayerT, ThreadT, AppT
<1>24. CASE EndPause
  BY <1>24 DEF EndPause, Paused, Go, LifeInv, At, Alive, Types, PlayerT, ThreadT, AppT
<1>25. CASE Drop
  BY <1>25 DEF Drop, Go, LifeInv, At, Alive, Types, PlayerT, ThreadT, AppT
<1>26. CASE Write
  BY <1>26 DEF Write, LifeInv, At, Alive, Types, PlayerT, ThreadT, AppT
<1>27. CASE ReadFails
  BY <1>27 DEF ReadFails, LifeInv, At, Alive, Types, PlayerT, ThreadT, AppT
<1>. QED
  BY <1>1, <1>2, <1>3, <1>4, <1>5, <1>6, <1>7, <1>8, <1>9, <1>10, <1>11, <1>12, <1>13,
     <1>14, <1>15, <1>16, <1>17, <1>18, <1>19, <1>20, <1>21, <1>22, <1>23, <1>24,
     <1>25, <1>26, <1>27, <1>28 DEF Next, Thread

(* NODATA and its answer.                                                  *)
LEMMA ToldNext ==
  ASSUME Types, BufInv, ToldInv, [Next]_vars
  PROVE  ToldInv'
<1>1. CASE UNCHANGED vars
  BY <1>1 DEF vars, ToldInv, At, Types, ThreadT, Seen
<1>2. CASE Grow
  BY <1>2 DEF Grow, ToldInv, At, Types, ThreadT, Seen
<1>3. CASE AddSegment
  BY <1>3 DEF AddSegment, ToldInv, At, Types, ThreadT, Seen
<1>4. CASE Show
  BY <1>4 DEF Show, ToldInv, At, Types, ThreadT, Seen
<1>5. CASE FirstFrame
  BY <1>5 DEF FirstFrame, ToldInv, At, Types, ThreadT, Seen
<1>6. CASE Start
  BY <1>6 DEF Start, NoThread, ToldInv, At, Types, ThreadT, Seen
<1>7. CASE Pause
  BY <1>7 DEF Pause, Paused, ToldInv, At, Types, ThreadT, Seen
<1>8. CASE Resume
  BY <1>8 DEF Resume, ToldInv, At, Types, ThreadT, Seen
<1>9. CASE StopAsk
  BY <1>9 DEF StopAsk, Idle, ToldInv, At, Types, ThreadT, Seen
<1>10. CASE Join
  BY <1>10 DEF Join, NoThread, Idle, ToldInv, At, Types, ThreadT, Seen
<1>11. CASE Stop
  BY <1>11 DEF Stop, Idle, ToldInv, At, Types, ThreadT, Seen
<1>12. CASE SeekRefused
  BY <1>12 DEF SeekRefused, Idle, ToldInv, At, Types, ThreadT, Seen
<1>13. CASE SeekFile
  BY <1>13 DEF SeekFile, Sought, Idle, ToldInv, At, Types, ThreadT, Seen
<1>14. ASSUME NEW s \in Segments, NEW p \in 0 .. MaxUnit + 1, SeekOpen(s, p)
      PROVE  ToldInv'
  BY <1>14 DEF SeekOpen, ToldInv, At, Types, ThreadT, Seen
<1>15. ASSUME NEW s \in Segments, RemoveLook(s)
      PROVE  ToldInv'
  BY <1>15 DEF RemoveLook, ToldInv, At, Types, ThreadT, Seen
<1>16. CASE RemoveDone
  BY <1>16 DEF RemoveDone, Idle, ToldInv, At, Types, ThreadT, Seen
<1>17. CASE Begin
  BY <1>17 DEF Begin, Go, ToldInv, At, Types, ThreadT, Seen
<1>28. CASE FirstSegment
  BY <1>28 DEF FirstSegment, Go, ToldInv, At, Types, ThreadT, Seen
<1>18. CASE Leave
  BY <1>18 DEF Leave, ToldInv, At, Types, ThreadT, Seen
<1>19. CASE Head_
  BY <1>19 DEF Head_, Go, ToldInv, At, Types, ThreadT, Seen
<1>20. CASE Read
  BY <1>20 DEF Read, WithData, Go, Counted, BufInv, ToldInv, At, Types, ThreadT, Seen
<1>21. CASE Change
  BY <1>21 DEF Change, Go, ToldInv, At, Types, ThreadT, Seen
<1>22. CASE Reread
  BY <1>22 DEF Reread, ToldInv, At, Types, ThreadT, Seen
<1>23. CASE NothingNext
  <2>. DEFINE n == Min({NoData, NoDataTime + 1})
  <2>1. thread.noData \in Nat /\ NoData \in Nat /\ NoData >= thread.noData
    BY Constants DEF NoData, Types, ThreadT
  <2>2. n <= NoDataTime + 1 /\ (n = NoData \/ n = NoDataTime + 1) /\ n \in Nat
    BY <2>1, MinOfTwo, Constants
  <2>. HIDE DEF n
  <2>3. /\ thread'.noData = n /\ thread'.pc \in {"endpause", "top"}
        /\ thread'.rewrite = thread.rewrite
    BY <1>23 DEF NothingNext, Types, ThreadT, n
  <2>4. seen'.told => seen.told \/ NoData = NoDataTime
    BY <1>23 DEF NothingNext, Types, Seen
  <2>5. ~thread.rewrite
    BY <1>23 DEF NothingNext, BufInv, At
  <2>. QED
    BY <2>1, <2>2, <2>3, <2>4, <2>5, Constants DEF ToldInv
<1>24. CASE EndPause
  BY <1>24 DEF EndPause, Paused, Go, ToldInv, At, Types, ThreadT, Seen
<1>25. CASE Drop
  BY <1>25 DEF Drop, Go, ToldInv, At, Types, ThreadT, Seen
<1>26. CASE Write
  BY <1>26 DEF Write, ToldInv, At, Types, ThreadT, Seen
<1>27. CASE ReadFails
  BY <1>27 DEF ReadFails, ToldInv, At, Types, ThreadT, Seen
<1>. QED
  BY <1>1, <1>2, <1>3, <1>4, <1>5, <1>6, <1>7, <1>8, <1>9, <1>10, <1>11, <1>12, <1>13,
     <1>14, <1>15, <1>16, <1>17, <1>18, <1>19, <1>20, <1>21, <1>22, <1>23, <1>24,
     <1>25, <1>26, <1>27, <1>28 DEF Next, Thread

(* What is written in a pause.                                             *)
LEMMA QuietNext ==
  ASSUME Types, QuietInv, [Next]_vars
  PROVE  QuietInv'
<1>1. CASE UNCHANGED vars
  BY <1>1 DEF vars, QuietInv, At, Types, PlayerT, ThreadT, Seen
<1>2. CASE Grow
  BY <1>2 DEF Grow, QuietInv, At, Types, PlayerT, ThreadT, Seen
<1>3. CASE AddSegment
  BY <1>3 DEF AddSegment, QuietInv, At, Types, PlayerT, ThreadT, Seen
<1>4. CASE Show
  BY <1>4 DEF Show, QuietInv, At, Types, PlayerT, ThreadT, Seen
<1>5. CASE FirstFrame
  BY <1>5 DEF FirstFrame, QuietInv, At, Types, PlayerT, ThreadT, Seen
<1>6. CASE Start
  BY <1>6 DEF Start, NoThread, QuietInv, At, Types, PlayerT, ThreadT, Seen
<1>7. CASE Pause
  BY <1>7 DEF Pause, Paused, QuietInv, At, Types, PlayerT, ThreadT, Seen
<1>8. CASE Resume
  BY <1>8 DEF Resume, QuietInv, At, Types, PlayerT, ThreadT, Seen
<1>9. CASE StopAsk
  BY <1>9 DEF StopAsk, Idle, QuietInv, At, Types, PlayerT, ThreadT, Seen
<1>10. CASE Join
  BY <1>10 DEF Join, NoThread, Idle, QuietInv, At, Types, PlayerT, ThreadT, Seen
<1>11. CASE Stop
  BY <1>11 DEF Stop, Idle, QuietInv, At, Types, PlayerT, ThreadT, Seen
<1>12. CASE SeekRefused
  BY <1>12 DEF SeekRefused, Idle, QuietInv, At, Types, PlayerT, ThreadT, Seen
<1>13. CASE SeekFile
  BY <1>13 DEF SeekFile, Sought, Idle, QuietInv, At, Types, PlayerT, ThreadT, Seen
<1>14. ASSUME NEW s \in Segments, NEW p \in 0 .. MaxUnit + 1, SeekOpen(s, p)
      PROVE  QuietInv'
  BY <1>14 DEF SeekOpen, QuietInv, At, Types, PlayerT, ThreadT, Seen
<1>15. ASSUME NEW s \in Segments, RemoveLook(s)
      PROVE  QuietInv'
  BY <1>15 DEF RemoveLook, QuietInv, At, Types, PlayerT, ThreadT, Seen
<1>16. CASE RemoveDone
  BY <1>16 DEF RemoveDone, Idle, QuietInv, At, Types, PlayerT, ThreadT, Seen
<1>17. CASE Begin
  BY <1>17 DEF Begin, Go, QuietInv, At, Types, PlayerT, ThreadT, Seen
<1>28. CASE FirstSegment
  BY <1>28, ChangedIs DEF FirstSegment, Go, QuietInv, At, Types, PlayerT, ThreadT, Seen
<1>18. CASE Leave
  BY <1>18 DEF Leave, QuietInv, At, Types, PlayerT, ThreadT, Seen
<1>19. CASE Head_
  BY <1>19 DEF Head_, Go, MayGo, Held, QuietInv, At, Types, PlayerT, ThreadT, Seen
<1>20. CASE Read
  BY <1>20 DEF Read, WithData, Go, QuietInv, At, Types, PlayerT, ThreadT, Seen
<1>21. CASE Change
  BY <1>21, ChangedIs DEF Change, Go, QuietInv, At, Types, PlayerT, ThreadT, Seen
<1>22. CASE Reread
  BY <1>22 DEF Reread, QuietInv, At, Types, PlayerT, ThreadT, Seen
<1>23. CASE NothingNext
  BY <1>23 DEF NothingNext, QuietInv, At, Types, PlayerT, ThreadT, Seen
<1>24. CASE EndPause
  BY <1>24 DEF EndPause, Paused, Go, QuietInv, At, Types, PlayerT, ThreadT, Seen
<1>25. CASE Drop
  BY <1>25 DEF Drop, Go, QuietInv, At, Types, PlayerT, ThreadT, Seen
<1>26. CASE Write
  <2>1. At("write") /\ (seen.late \in 0 .. 2)
    BY <1>26 DEF Write, Types, Seen
  <2>2. thread'.pc = "top" /\ player'.state = player.state
        /\ player'.seekPause = player.seekPause
    BY <1>26 DEF Write, Types, ThreadT, PlayerT
  <2>3. CASE seen'.late = seen.late
    BY <2>1, <2>2, <2>3 DEF QuietInv, At
  <2>4. CASE Held /\ seen'.late = Min({seen.late + 1, 2})
    <3>1. player.state = "PAUSE" /\ ~player.seekPause /\ seen.late = 0
      BY <2>1, <2>4 DEF Held, QuietInv, At
    <3>2. seen'.late <= 1
      BY <2>4, <3>1, MinOfTwo
    <3>. QED
      BY <2>2, <3>1, <3>2 DEF QuietInv
  <2>5. seen'.late = seen.late \/ (Held /\ seen'.late = Min({seen.late + 1, 2}))
    BY <1>26 DEF Write, Types, Seen
  <2>. QED
    BY <2>3, <2>4, <2>5
<1>27. CASE ReadFails
  BY <1>27 DEF ReadFails, QuietInv, At, Types, PlayerT, ThreadT, Seen
<1>. QED
  BY <1>1, <1>2, <1>3, <1>4, <1>5, <1>6, <1>7, <1>8, <1>9, <1>10, <1>11, <1>12, <1>13,
     <1>14, <1>15, <1>16, <1>17, <1>18, <1>19, <1>20, <1>21, <1>22, <1>23, <1>24,
     <1>25, <1>26, <1>27, <1>28 DEF Next, Thread

(* No blocks at all.                                                       *)
LEMMA NoBlocks == 0 \in Nat /\ 0 = 0 * Block
BY Constants

(* The decoder gets and shows whole blocks.                                *)
LEMMA BlocksNext ==
  ASSUME Types, BufInv, WholeBlocks, [Next]_vars
  PROVE  WholeBlocks'
<1>1. CASE UNCHANGED vars
  BY <1>1 DEF vars, WholeBlocks, Types, DecoderT
<1>2. CASE Grow
  BY <1>2 DEF Grow, WholeBlocks, Types, DecoderT
<1>3. CASE AddSegment
  BY <1>3 DEF AddSegment, WholeBlocks, Types, DecoderT
<1>4. CASE Show
  <2>1. PICK k \in Nat : decoder.units = k * Block
    BY DEF WholeBlocks
  <2>2. decoder.units > 0 /\ decoder'.units = decoder.units - Block
    BY <1>4 DEF Show, Types, DecoderT
  <2>3. k # 0
    BY <2>1, <2>2, Constants
  <2>4. k - 1 \in Nat /\ k * Block = (k - 1) * Block + Block
    BY <2>3, Constants
  <2>5. (k - 1) * Block \in Nat
    BY <2>4, Constants
  <2>6. decoder'.units = (k - 1) * Block
    BY <2>1, <2>2, <2>4, <2>5, Constants
  <2>. QED
    BY <2>4, <2>6 DEF WholeBlocks
<1>5. CASE FirstFrame
  BY <1>5 DEF FirstFrame, WholeBlocks, Types, DecoderT
<1>6. CASE Start
  BY <1>6 DEF Start, NoThread, WholeBlocks, Types, DecoderT
<1>7. CASE Pause
  BY <1>7 DEF Pause, Paused, WholeBlocks, Types, DecoderT
<1>8. CASE Resume
  BY <1>8 DEF Resume, WholeBlocks, Types, DecoderT
<1>9. CASE StopAsk
  BY <1>9 DEF StopAsk, Idle, WholeBlocks, Types, DecoderT
<1>10. CASE Join
  BY <1>10 DEF Join, NoThread, Idle, WholeBlocks, Types, DecoderT
<1>11. CASE Stop
  BY <1>11, NoBlocks DEF Stop, Idle, WholeBlocks, Types, DecoderT
<1>12. CASE SeekRefused
  BY <1>12 DEF SeekRefused, Idle, WholeBlocks, Types, DecoderT
<1>13. CASE SeekFile
  BY <1>13, NoBlocks DEF SeekFile, Sought, Idle, WholeBlocks, Types, DecoderT
<1>14. ASSUME NEW s \in Segments, NEW p \in 0 .. MaxUnit + 1, SeekOpen(s, p)
      PROVE  WholeBlocks'
  BY <1>14 DEF SeekOpen, WholeBlocks, Types, DecoderT
<1>15. ASSUME NEW s \in Segments, RemoveLook(s)
      PROVE  WholeBlocks'
  BY <1>15 DEF RemoveLook, WholeBlocks, Types, DecoderT
<1>16. CASE RemoveDone
  BY <1>16 DEF RemoveDone, Idle, WholeBlocks, Types, DecoderT
<1>17. CASE Begin
  BY <1>17 DEF Begin, Go, WholeBlocks, Types, DecoderT
<1>28. CASE FirstSegment
  BY <1>28 DEF FirstSegment, Go, WholeBlocks, Types, DecoderT
<1>18. CASE Leave
  BY <1>18 DEF Leave, WholeBlocks, Types, DecoderT
<1>19. CASE Head_
  BY <1>19 DEF Head_, Go, WholeBlocks, Types, DecoderT
<1>20. CASE Read
  BY <1>20 DEF Read, WithData, Go, WholeBlocks, Types, DecoderT
<1>21. CASE Change
  BY <1>21 DEF Change, Go, WholeBlocks, Types, DecoderT
<1>22. CASE Reread
  BY <1>22 DEF Reread, WholeBlocks, Types, DecoderT
<1>23. CASE NothingNext
  BY <1>23 DEF NothingNext, WholeBlocks, Types, DecoderT
<1>24. CASE EndPause
  BY <1>24 DEF EndPause, Paused, Go, WholeBlocks, Types, DecoderT
<1>25. CASE Drop
  BY <1>25 DEF Drop, Go, WholeBlocks, Types, DecoderT
<1>26. CASE Write
  <2>1. PICK k \in Nat : decoder.units = k * Block
    BY DEF WholeBlocks
  <2>2. Len(thread.buf) = Block
    BY <1>26 DEF Write, At, BufInv
  <2>3. k + 1 \in Nat /\ k * Block + Block = (k + 1) * Block
    BY Constants
  <2>4. CASE Fits
    <3>1. decoder'.units = (k + 1) * Block
      BY <1>26, <2>1, <2>2, <2>3, <2>4 DEF Write
    <3>. QED
      BY <2>3, <3>1 DEF WholeBlocks
  <2>5. CASE ~Fits
    BY <1>26, <2>5 DEF Write, WholeBlocks
  <2>. QED
    BY <2>4, <2>5
<1>27. CASE ReadFails
  BY <1>27 DEF ReadFails, WholeBlocks, Types, DecoderT
<1>. QED
  BY <1>1, <1>2, <1>3, <1>4, <1>5, <1>6, <1>7, <1>8, <1>9, <1>10, <1>11, <1>12, <1>13,
     <1>14, <1>15, <1>16, <1>17, <1>18, <1>19, <1>20, <1>21, <1>22, <1>23, <1>24,
     <1>25, <1>26, <1>27, <1>28 DEF Next, Thread

(* Whole blocks are written, cut ones wait.                                *)
LEMMA BufNext ==
  ASSUME Types, BufInv, HandleInv, [Next]_vars
  PROVE  BufInv'
<1>1. CASE UNCHANGED vars
  BY <1>1 DEF vars, BufInv, At, Types, ThreadT
<1>2. CASE Grow
  BY <1>2, Constants DEF Grow, BufInv, At, Types, ThreadT
<1>3. CASE AddSegment
  BY <1>3, Constants DEF AddSegment, BufInv, At, Types, ThreadT
<1>4. CASE Show
  BY <1>4, Constants DEF Show, BufInv, At, Types, ThreadT
<1>5. CASE FirstFrame
  BY <1>5, Constants DEF FirstFrame, BufInv, At, Types, ThreadT
<1>6. CASE Start
  BY <1>6, Constants DEF Start, NoThread, BufInv, At, Types, ThreadT
<1>7. CASE Pause
  BY <1>7, Constants DEF Pause, Paused, BufInv, At, Types, ThreadT
<1>8. CASE Resume
  BY <1>8, Constants DEF Resume, BufInv, At, Types, ThreadT
<1>9. CASE StopAsk
  BY <1>9, Constants DEF StopAsk, Idle, BufInv, At, Types, ThreadT
<1>10. CASE Join
  BY <1>10, Constants DEF Join, NoThread, Idle, BufInv, At, Types, ThreadT
<1>11. CASE Stop
  BY <1>11, Constants DEF Stop, Idle, BufInv, At, Types, ThreadT
<1>12. CASE SeekRefused
  BY <1>12, Constants DEF SeekRefused, Idle, BufInv, At, Types, ThreadT
<1>13. CASE SeekFile
  BY <1>13, Constants DEF SeekFile, Sought, Idle, BufInv, At, Types, ThreadT
<1>14. ASSUME NEW s \in Segments, NEW p \in 0 .. MaxUnit + 1, SeekOpen(s, p)
      PROVE  BufInv'
  BY <1>14, Constants DEF SeekOpen, BufInv, At, Types, ThreadT
<1>15. ASSUME NEW s \in Segments, RemoveLook(s)
      PROVE  BufInv'
  BY <1>15, Constants DEF RemoveLook, BufInv, At, Types, ThreadT
<1>16. CASE RemoveDone
  BY <1>16, Constants DEF RemoveDone, Idle, BufInv, At, Types, ThreadT
<1>17. CASE Begin
  BY <1>17, Constants DEF Begin, Go, BufInv, At, Types, ThreadT
<1>28. CASE FirstSegment
  BY <1>28, Constants DEF FirstSegment, Go, BufInv, At, Types, ThreadT
<1>18. CASE Leave
  BY <1>18, Constants DEF Leave, BufInv, At, Types, ThreadT
<1>19. CASE Head_
  <2>1. At("top") /\ thread.buf \in Seq(Unit)
    BY <1>19 DEF Head_, Types, ThreadT
  <2>2. CASE player.drop
    <3>1. thread'.buf = <<>> /\ thread'.rewrite = FALSE /\ thread'.pc = "read"
      BY <1>19, <2>2 DEF Head_, Types, ThreadT
    <3>. QED
      BY <3>1, Constants DEF BufInv, At
  <2>3. CASE ~player.drop
    <3>1. /\ thread'.buf = thread.buf /\ thread'.rewrite = FALSE
          /\ thread'.pc = IF thread.rewrite THEN "drop" ELSE "read"
      BY <1>19, <2>3 DEF Head_, Types, ThreadT
    <3>. QED
      BY <2>1, <3>1 DEF BufInv, At
  <2>. QED
    BY <2>2, <2>3
<1>20. CASE Read
  <2>1. /\ Len(Filled) \in Nat /\ Len(Filled) <= Block /\ At("read")
        /\ Len(thread.buf) < Block /\ ~thread.rewrite
    BY <1>20, FilledTyped, Constants DEF Read, At, BufInv
  <2>2. CASE handle # NoHandle /\ Filled = thread.buf
    BY <1>20, <2>1, <2>2 DEF Read, Go, BufInv, At, Types, ThreadT
  <2>3. CASE ~ (handle # NoHandle /\ Filled = thread.buf)
    <3>1. /\ thread'.buf = Filled /\ thread'.rewrite = thread.rewrite
          /\ thread'.pc = IF Len(Filled) = Block THEN "drop" ELSE "top"
      BY <1>20, <2>3 DEF Read, WithData, Types, ThreadT
    <3>. QED
      BY <2>1, <3>1, Constants DEF BufInv, At
  <2>. QED
    BY <2>2, <2>3
<1>21. CASE Change
  BY <1>21, Constants DEF Change, Go, BufInv, At, Types, ThreadT
<1>22. CASE Reread
  <2>1. /\ Len(Filled) \in Nat /\ Len(Filled) <= Block /\ At("reread")
        /\ ~thread.rewrite
    BY <1>22, FilledTyped, Constants DEF Reread, At, BufInv
  <2>2. /\ thread'.buf = Filled /\ thread'.rewrite = thread.rewrite
        /\ thread'.pc = IF Len(Filled) = Block THEN "drop" ELSE "top"
    BY <1>22 DEF Reread, Types, ThreadT
  <2>. QED
    BY <2>1, <2>2, Constants DEF BufInv, At
<1>23. CASE NothingNext
  BY <1>23, Constants DEF NothingNext, BufInv, At, Types, ThreadT
<1>24. CASE EndPause
  BY <1>24, Constants DEF EndPause, Paused, Go, BufInv, At, Types, ThreadT
<1>25. CASE Drop
  <2>1. At("drop") /\ thread.buf \in Seq(Unit) /\ ~thread.rewrite
    BY <1>25 DEF Drop, Types, ThreadT, BufInv, At
  <2>2. CASE player.drop
    <3>1. /\ thread'.buf = <<>> /\ thread'.rewrite = thread.rewrite
          /\ thread'.pc = "top"
      BY <1>25, <2>2 DEF Drop, Types, ThreadT
    <3>. QED
      BY <2>1, <3>1, Constants DEF BufInv, At
  <2>3. CASE ~player.drop
    <3>1. /\ thread'.buf = thread.buf /\ thread'.rewrite = thread.rewrite
          /\ thread'.pc = "write"
      BY <1>25, <2>3 DEF Drop, Go, Types, ThreadT
    <3>. QED
      BY <2>1, <3>1 DEF BufInv, At
  <2>. QED
    BY <2>2, <2>3
<1>26. CASE Write
  <2>1. At("write") /\ thread.buf \in Seq(Unit) /\ ~thread.rewrite
    BY <1>26 DEF Write, Types, ThreadT, BufInv, At
  <2>2. CASE Fits
    <3>1. /\ thread'.buf = <<>> /\ thread'.rewrite = thread.rewrite
          /\ thread'.pc = "top"
      BY <1>26, <2>2 DEF Write, Types, ThreadT
    <3>. QED
      BY <2>1, <3>1, Constants DEF BufInv, At
  <2>3. CASE ~Fits
    <3>1. thread'.buf = thread.buf /\ thread'.rewrite = TRUE /\ thread'.pc = "top"
      BY <1>26, <2>3 DEF Write, Types, ThreadT
    <3>. QED
      BY <2>1, <3>1 DEF BufInv, At
  <2>. QED
    BY <2>2, <2>3
<1>27. CASE ReadFails
  BY <1>27, Constants DEF ReadFails, BufInv, At, Types, ThreadT
<1>. QED
  BY <1>1, <1>2, <1>3, <1>4, <1>5, <1>6, <1>7, <1>8, <1>9, <1>10, <1>11, <1>12, <1>13,
     <1>14, <1>15, <1>16, <1>17, <1>18, <1>19, <1>20, <1>21, <1>22, <1>23, <1>24,
     <1>25, <1>26, <1>27, <1>28 DEF Next, Thread

(* The player that is stopped.                                             *)
LEMMA StopNext ==
  ASSUME Types, LifeInv, HandleInv, StopInv, [Next]_vars
  PROVE  StopInv'
<1>1. CASE UNCHANGED vars
  BY <1>1 DEF vars, StopInv, LifeInv, At, Types, PlayerT, AppT, Seen
<1>2. CASE Grow
  BY <1>2 DEF Grow, StopInv, LifeInv, At, Types, PlayerT, AppT, Seen
<1>3. CASE AddSegment
  BY <1>3 DEF AddSegment, StopInv, LifeInv, At, Types, PlayerT, AppT, Seen
<1>4. CASE Show
  BY <1>4 DEF Show, StopInv, LifeInv, At, Types, PlayerT, AppT, Seen
<1>5. CASE FirstFrame
  BY <1>5 DEF FirstFrame, StopInv, LifeInv, At, Types, PlayerT, AppT, Seen
<1>6. CASE Start
  BY <1>6 DEF Start, NoThread, StopInv, LifeInv, At, Types, PlayerT, AppT, Seen
<1>7. CASE Pause
  BY <1>7 DEF Pause, Paused, StopInv, LifeInv, At, Types, PlayerT, AppT, Seen
<1>8. CASE Resume
  BY <1>8 DEF Resume, StopInv, LifeInv, At, Types, PlayerT, AppT, Seen
<1>9. CASE StopAsk
  BY <1>9 DEF StopAsk, Idle, StopInv, LifeInv, At, Types, PlayerT, AppT, Seen
<1>10. CASE Join
  BY <1>10 DEF Join, NoThread, Idle, StopInv, LifeInv, At, Types, PlayerT, AppT, Seen
<1>11. CASE Stop
  BY <1>11 DEF Stop, Idle, StopInv, LifeInv, At, Types, PlayerT, AppT, Seen
<1>12. CASE SeekRefused
  BY <1>12 DEF SeekRefused, Idle, StopInv, LifeInv, At, Types, PlayerT, AppT, Seen
<1>13. CASE SeekFile
  BY <1>13, SegmentsAre DEF SeekFile, Sought, Idle, Alive, Busy, NoHandle, None,
     HandleInv, HandleT, StopInv, LifeInv, At, Types, PlayerT, AppT, Seen
<1>14. ASSUME NEW s \in Segments, NEW p \in 0 .. MaxUnit + 1, SeekOpen(s, p)
      PROVE  StopInv'
  <2>1. CASE player.open /\ player.cur = s
    BY <1>14, <2>1 DEF SeekOpen, StopInv, Types, AppT
  <2>2. CASE ~ (player.open /\ player.cur = s)
    <3>1. /\ player'.state = player.state /\ player'.open = TRUE /\ player'.cur = s
      BY <1>14, <2>2 DEF SeekOpen, Types, PlayerT
    <3>2. handle'.seg = s /\ s # None
      BY <1>14, <2>2, SegmentsAre DEF SeekOpen
    <3>3. seen'.raced = Alive
      BY <1>14, <2>2 DEF SeekOpen, Types, Seen
    <3>4. player.state = "STOP" => ~Alive
      BY DEF LifeInv, Alive, At
    <3>5. app'.seg = s /\ app'.op = "seek"
      BY <1>14 DEF SeekOpen
    <3>. QED
      BY <3>1, <3>2, <3>3, <3>4, <3>5 DEF StopInv, NoHandle
  <2>. QED
    BY <2>1, <2>2
<1>15. ASSUME NEW s \in Segments, RemoveLook(s)
      PROVE  StopInv'
  BY <1>15 DEF RemoveLook, Calls, StopInv, LifeInv, At, Types, PlayerT, AppT, Seen
<1>16. CASE RemoveDone
  BY <1>16 DEF RemoveDone, Idle, StopInv, LifeInv, At, Types, PlayerT, AppT, Seen
<1>17. CASE Begin
  BY <1>17 DEF Begin, Go, StopInv, LifeInv, At, Types, PlayerT, AppT, Seen
<1>28. CASE FirstSegment
  BY <1>28, ChangedIs DEF FirstSegment, Go, StopInv, LifeInv, At, Types,
     PlayerT, AppT, Seen
<1>18. CASE Leave
  BY <1>18 DEF Leave, StopInv, LifeInv, At, Types, PlayerT, AppT, Seen
<1>19. CASE Head_
  BY <1>19 DEF Head_, Go, StopInv, LifeInv, At, Types, PlayerT, AppT, Seen
<1>20. CASE Read
  BY <1>20 DEF Read, WithData, Go, Advance, StopInv, LifeInv, At, Types, PlayerT,
     AppT, Seen
<1>21. CASE Change
  BY <1>21, ChangedIs DEF Change, Go, StopInv, LifeInv, At, Types, PlayerT, AppT, Seen
<1>22. CASE Reread
  BY <1>22 DEF Reread, Advance, StopInv, LifeInv, At, Types, PlayerT, AppT, Seen
<1>23. CASE NothingNext
  BY <1>23 DEF NothingNext, StopInv, LifeInv, At, Types, PlayerT, AppT, Seen
<1>24. CASE EndPause
  BY <1>24 DEF EndPause, Paused, Go, StopInv, LifeInv, At, Types, PlayerT, AppT, Seen
<1>25. CASE Drop
  BY <1>25 DEF Drop, Go, StopInv, LifeInv, At, Types, PlayerT, AppT, Seen
<1>26. CASE Write
  BY <1>26 DEF Write, StopInv, LifeInv, At, Types, PlayerT, AppT, Seen
<1>27. CASE ReadFails
  BY <1>27 DEF ReadFails, StopInv, LifeInv, At, Types, PlayerT, AppT, Seen
<1>. QED
  BY <1>1, <1>2, <1>3, <1>4, <1>5, <1>6, <1>7, <1>8, <1>9, <1>10, <1>11, <1>12, <1>13,
     <1>14, <1>15, <1>16, <1>17, <1>18, <1>19, <1>20, <1>21, <1>22, <1>23, <1>24,
     <1>25, <1>26, <1>27, <1>28 DEF Next, Thread

(* What a step does not touch stays true of the list and of those in it.   *)
LEMMA ListFrame ==
  ASSUME ListInv, UNCHANGED <<size, list>>,
         handle'.seg <= Newest,
         \A i \in DOMAIN thread'.buf : thread'.buf[i].seg <= Newest,
         app'.op = "remove" => app'.seg \in Segments /\ app'.seg < Newest,
         app'.op = "seek" => app'.seg \in Openable
  PROVE  ListInv'
BY DEF ListInv, Newest, Openable

(* A change of segment does not lead beyond the newest one.                *)
LEMMA ChangedStays ==
  ASSUME Types, ListInv, Changed
  PROVE  handle'.seg <= Newest
<1>1. Newest \in Nat /\ \A s \in list : s <= Newest
  BY NewestIs
<1>2. CASE NextId # None /\ handle' = [seg |-> NextId, pos |-> 0]
  <2>1. NextId \in list
    BY <1>2, NextIs DEF Openable
  <2>. QED
    BY <1>1, <1>2, <2>1
<1>3. CASE handle' = NoHandle
  BY <1>1, <1>3 DEF NoHandle, None
<1>4. CASE UNCHANGED handle
  BY <1>4 DEF ListInv
<1>. QED
  BY <1>2, <1>3, <1>4, ChangedIs

(* The segments, and those who are in one.                                 *)
LEMMA ListNext ==
  ASSUME Types, BufInv, HandleInv, ListInv, [Next]_vars
  PROVE  ListInv'
<1>1. CASE UNCHANGED vars
  BY <1>1 DEF vars, ListInv, Newest, Openable
<1>2. CASE Grow
  <2>1. Newest' = Newest /\ Newest \in Segments
    BY <1>2, NewestIs DEF Grow, Newest
  <2>2. ASSUME NEW s \in Segments, s # Newest PROVE size'[s] = size[s]
    BY <1>2, <2>2 DEF Grow, Types
  <2>3. \A s \in Segments : /\ s < Newest => size'[s] > 0
                            /\ s > Newest => size'[s] = 0
    BY <2>1, <2>2, SegmentsAre DEF ListInv
  <2>. QED
    BY <1>2, <2>1, <2>3 DEF Grow, ListInv, Openable
<1>3. CASE AddSegment
  <2>1. /\ Newest \in list /\ Newest \in Segments /\ Newest \in Nat
        /\ \A s \in list : s <= Newest
    BY NewestIs
  <2>2. Newest + 1 \in Segments
    BY <1>3, <2>1, Constants DEF AddSegment, Segments
  <2>3. list' = list \cup {Newest + 1} /\ list' \subseteq Segments
    BY <1>3, <2>2 DEF AddSegment, Types
  <2>4. \A s \in list' : s <= Newest + 1
    BY <2>1, <2>3, SegmentsAre DEF Types
  <2>5. Newest' = Newest + 1
    <3>1. Max(list') = Newest + 1
      BY <2>3, <2>4, MaxIs
    <3>. QED
      BY <3>1 DEF Newest
  <2>6. \A s \in Segments : /\ s < Newest + 1 => size[s] > 0
                            /\ s > Newest + 1 => size[s] = 0
    BY <1>3, <2>1, SegmentsAre DEF AddSegment, ListInv
  <2>7. handle.seg <= Newest + 1
    BY <2>1, Constants DEF ListInv, Types, HandleT
  <2>8. ASSUME NEW i \in DOMAIN thread.buf PROVE thread.buf[i].seg <= Newest + 1
    <3>1. thread.buf[i] \in Unit
      BY LengthOfBuf
    <3>2. thread.buf[i].seg \in Nat
      BY <3>1, SegmentsAre DEF Unit
    <3>3. thread.buf[i].seg <= Newest
      BY DEF ListInv
    <3>. QED
      BY <2>1, <3>2, <3>3
  <2>9. app.op = "remove" => app.seg \in Segments /\ app.seg < Newest + 1
    <3>1. ASSUME NEW a \in Segments, a < Newest PROVE a < Newest + 1
      BY <2>1, <3>1, SegmentsAre
    <3>. QED
      BY <3>1 DEF ListInv
  <2>10. UNCHANGED <<size, handle, thread, app>> /\ app.op # "seek"
    BY <1>3 DEF AddSegment, Unlocked
  <2>. QED
    BY <2>3, <2>5, <2>6, <2>7, <2>8, <2>9, <2>10 DEF ListInv
<1>4. CASE Show
  <2>1. UNCHANGED <<size, list>>
    BY <1>4 DEF Show
  <2>2. handle'.seg <= Newest
    BY <1>4 DEF Show, ListInv
  <2>3. \A i \in DOMAIN thread'.buf : thread'.buf[i].seg <= Newest
    BY <1>4 DEF Show, ListInv
  <2>4. app'.op = "remove" => app'.seg \in Segments /\ app'.seg < Newest
    BY <1>4 DEF Show, ListInv
  <2>5. app'.op = "seek" => app'.seg \in Openable
    BY <1>4 DEF Show, ListInv
  <2>. QED
    BY <2>1, <2>2, <2>3, <2>4, <2>5, ListFrame
<1>5. CASE FirstFrame
  <2>1. UNCHANGED <<size, list>>
    BY <1>5 DEF FirstFrame
  <2>2. handle'.seg <= Newest
    BY <1>5 DEF FirstFrame, ListInv
  <2>3. \A i \in DOMAIN thread'.buf : thread'.buf[i].seg <= Newest
    BY <1>5 DEF FirstFrame, ListInv
  <2>4. app'.op = "remove" => app'.seg \in Segments /\ app'.seg < Newest
    BY <1>5 DEF FirstFrame, ListInv
  <2>5. app'.op = "seek" => app'.seg \in Openable
    BY <1>5 DEF FirstFrame, ListInv
  <2>. QED
    BY <2>1, <2>2, <2>3, <2>4, <2>5, ListFrame
<1>6. CASE Start
  <2>1. UNCHANGED <<size, list>>
    BY <1>6 DEF Start
  <2>2. handle'.seg <= Newest
    BY <1>6 DEF Start, ListInv
  <2>3. \A i \in DOMAIN thread'.buf : thread'.buf[i].seg <= Newest
    BY <1>6 DEF Start, NoThread, ListInv, Types, ThreadT
  <2>4. app'.op = "remove" => app'.seg \in Segments /\ app'.seg < Newest
    BY <1>6 DEF Start, ListInv
  <2>5. app'.op = "seek" => app'.seg \in Openable
    BY <1>6 DEF Start, ListInv
  <2>. QED
    BY <2>1, <2>2, <2>3, <2>4, <2>5, ListFrame
<1>7. CASE Pause
  <2>1. UNCHANGED <<size, list>>
    BY <1>7 DEF Pause
  <2>2. handle'.seg <= Newest
    BY <1>7 DEF Pause, ListInv
  <2>3. \A i \in DOMAIN thread'.buf : thread'.buf[i].seg <= Newest
    BY <1>7 DEF Pause, ListInv
  <2>4. app'.op = "remove" => app'.seg \in Segments /\ app'.seg < Newest
    BY <1>7 DEF Pause, ListInv
  <2>5. app'.op = "seek" => app'.seg \in Openable
    BY <1>7 DEF Pause, ListInv
  <2>. QED
    BY <2>1, <2>2, <2>3, <2>4, <2>5, ListFrame
<1>8. CASE Resume
  <2>1. UNCHANGED <<size, list>>
    BY <1>8 DEF Resume
  <2>2. handle'.seg <= Newest
    BY <1>8 DEF Resume, ListInv
  <2>3. \A i \in DOMAIN thread'.buf : thread'.buf[i].seg <= Newest
    BY <1>8 DEF Resume, ListInv
  <2>4. app'.op = "remove" => app'.seg \in Segments /\ app'.seg < Newest
    BY <1>8 DEF Resume, ListInv
  <2>5. app'.op = "seek" => app'.seg \in Openable
    BY <1>8 DEF Resume, ListInv
  <2>. QED
    BY <2>1, <2>2, <2>3, <2>4, <2>5, ListFrame
<1>9. CASE StopAsk
  <2>1. UNCHANGED <<size, list>>
    BY <1>9 DEF StopAsk
  <2>2. handle'.seg <= Newest
    BY <1>9 DEF StopAsk, ListInv
  <2>3. \A i \in DOMAIN thread'.buf : thread'.buf[i].seg <= Newest
    BY <1>9 DEF StopAsk, ListInv
  <2>4. app'.op = "remove" => app'.seg \in Segments /\ app'.seg < Newest
    BY <1>9 DEF StopAsk, Idle
  <2>5. app'.op = "seek" => app'.seg \in Openable
    BY <1>9 DEF StopAsk, Idle
  <2>. QED
    BY <2>1, <2>2, <2>3, <2>4, <2>5, ListFrame
<1>10. CASE Join
  <2>1. UNCHANGED <<size, list>>
    BY <1>10 DEF Join
  <2>2. handle'.seg <= Newest
    BY <1>10 DEF Join, ListInv
  <2>3. \A i \in DOMAIN thread'.buf : thread'.buf[i].seg <= Newest
    BY <1>10 DEF Join, NoThread, ListInv, Types, ThreadT
  <2>4. app'.op = "remove" => app'.seg \in Segments /\ app'.seg < Newest
    BY <1>10 DEF Join, Idle
  <2>5. app'.op = "seek" => app'.seg \in Openable
    BY <1>10 DEF Join, Idle
  <2>. QED
    BY <2>1, <2>2, <2>3, <2>4, <2>5, ListFrame
<1>11. CASE Stop
  <2>1. UNCHANGED <<size, list>>
    BY <1>11 DEF Stop
  <2>2. handle'.seg <= Newest
    BY <1>11, NewestIs DEF Stop, NoHandle, None
  <2>3. \A i \in DOMAIN thread'.buf : thread'.buf[i].seg <= Newest
    BY <1>11 DEF Stop, ListInv
  <2>4. app'.op = "remove" => app'.seg \in Segments /\ app'.seg < Newest
    BY <1>11 DEF Stop, Idle
  <2>5. app'.op = "seek" => app'.seg \in Openable
    BY <1>11 DEF Stop, Idle
  <2>. QED
    BY <2>1, <2>2, <2>3, <2>4, <2>5, ListFrame
<1>12. CASE SeekRefused
  <2>1. UNCHANGED <<size, list>>
    BY <1>12 DEF SeekRefused
  <2>2. handle'.seg <= Newest
    BY <1>12 DEF SeekRefused, ListInv
  <2>3. \A i \in DOMAIN thread'.buf : thread'.buf[i].seg <= Newest
    BY <1>12 DEF SeekRefused, ListInv
  <2>4. app'.op = "remove" => app'.seg \in Segments /\ app'.seg < Newest
    BY <1>12 DEF SeekRefused, Idle
  <2>5. app'.op = "seek" => app'.seg \in Openable
    BY <1>12 DEF SeekRefused, Idle
  <2>. QED
    BY <2>1, <2>2, <2>3, <2>4, <2>5, ListFrame
<1>13. CASE SeekFile
  <2>1. UNCHANGED <<size, list>>
    BY <1>13 DEF SeekFile
  <2>2. handle'.seg <= Newest
    BY <1>13 DEF SeekFile, ListInv, Types, HandleT
  <2>3. \A i \in DOMAIN thread'.buf : thread'.buf[i].seg <= Newest
    BY <1>13 DEF SeekFile, ListInv
  <2>4. app'.op = "remove" => app'.seg \in Segments /\ app'.seg < Newest
    BY <1>13 DEF SeekFile, Idle
  <2>5. app'.op = "seek" => app'.seg \in Openable
    BY <1>13 DEF SeekFile, Idle
  <2>. QED
    BY <2>1, <2>2, <2>3, <2>4, <2>5, ListFrame
<1>14. ASSUME NEW s \in Segments, NEW p \in 0 .. MaxUnit + 1, SeekOpen(s, p)
      PROVE  ListInv'
  <2>1. UNCHANGED <<size, list>>
    BY <1>14 DEF SeekOpen
  <2>2. handle'.seg <= Newest
    BY <1>14, NewestIs DEF SeekOpen, Openable, ListInv
  <2>3. \A i \in DOMAIN thread'.buf : thread'.buf[i].seg <= Newest
    BY <1>14 DEF SeekOpen, ListInv
  <2>4. app'.op = "remove" => app'.seg \in Segments /\ app'.seg < Newest
    BY <1>14 DEF SeekOpen
  <2>5. app'.op = "seek" => app'.seg \in Openable
    BY <1>14 DEF SeekOpen
  <2>. QED
    BY <2>1, <2>2, <2>3, <2>4, <2>5, ListFrame
<1>15. ASSUME NEW s \in Segments, RemoveLook(s)
      PROVE  ListInv'
  <2>1. UNCHANGED <<size, list>>
    BY <1>15 DEF RemoveLook
  <2>2. handle'.seg <= Newest
    BY <1>15 DEF RemoveLook, ListInv
  <2>3. \A i \in DOMAIN thread'.buf : thread'.buf[i].seg <= Newest
    BY <1>15 DEF RemoveLook, ListInv
  <2>4. app'.op = "remove" => app'.seg \in Segments /\ app'.seg < Newest
    BY <1>15, NewestIs, SegmentsAre DEF RemoveLook
  <2>5. app'.op = "seek" => app'.seg \in Openable
    BY <1>15, NewestIs, SegmentsAre DEF RemoveLook
  <2>. QED
    BY <2>1, <2>2, <2>3, <2>4, <2>5, ListFrame
<1>16. CASE RemoveDone
  <2>1. /\ Newest \in list /\ Newest \in Segments /\ Newest \in Nat
        /\ \A s \in list : s <= Newest
    BY NewestIs
  <2>2. app.seg \in Segments /\ app.seg < Newest /\ list' = list \ {app.seg}
    BY <1>16 DEF RemoveDone, ListInv
  <2>3. Newest' = Newest
    <3>1. list' \subseteq Segments
      BY <2>2 DEF Types
    <3>2. Newest \in list'
      BY <2>1, <2>2, SegmentsAre
    <3>3. \A s \in list' : s <= Newest
      BY <2>1, <2>2
    <3>4. Max(list') = Newest
      BY <3>1, <3>2, <3>3, MaxIs
    <3>. QED
      BY <3>4 DEF Newest
  <2>4. list' # {}
    BY <2>1, <2>2
  <2>. QED
    BY <1>16, <2>3, <2>4 DEF RemoveDone, ListInv, Idle
<1>17. CASE Begin
  <2>1. UNCHANGED <<size, list, handle, app>> /\ thread'.buf = thread.buf
    BY <1>17 DEF Begin, Go, Types, ThreadT
  <2>. QED
    BY <2>1, ListFrame DEF ListInv
<1>28. CASE FirstSegment
  <2>1. UNCHANGED <<size, list>>
    BY <1>28 DEF FirstSegment
  <2>2. handle'.seg <= Newest
    BY <1>28, ChangedStays DEF FirstSegment, ListInv
  <2>3. \A i \in DOMAIN thread'.buf : thread'.buf[i].seg <= Newest
    BY <1>28 DEF FirstSegment, Go, ListInv, Types, ThreadT
  <2>4. app'.op = "remove" => app'.seg \in Segments /\ app'.seg < Newest
    BY <1>28 DEF FirstSegment, ListInv
  <2>5. app'.op = "seek" => app'.seg \in Openable
    BY <1>28 DEF FirstSegment, ListInv
  <2>. QED
    BY <2>1, <2>2, <2>3, <2>4, <2>5, ListFrame
<1>18. CASE Leave
  <2>1. UNCHANGED <<size, list>>
    BY <1>18 DEF Leave
  <2>2. handle'.seg <= Newest
    BY <1>18 DEF Leave, ListInv
  <2>3. \A i \in DOMAIN thread'.buf : thread'.buf[i].seg <= Newest
    BY <1>18 DEF Leave, Go, ListInv, Types, ThreadT
  <2>4. app'.op = "remove" => app'.seg \in Segments /\ app'.seg < Newest
    BY <1>18 DEF Leave, ListInv
  <2>5. app'.op = "seek" => app'.seg \in Openable
    BY <1>18 DEF Leave, ListInv
  <2>. QED
    BY <2>1, <2>2, <2>3, <2>4, <2>5, ListFrame
<1>19. CASE Head_
  <2>1. UNCHANGED <<size, list>>
    BY <1>19 DEF Head_
  <2>2. handle'.seg <= Newest
    BY <1>19 DEF Head_, ListInv
  <2>3. \A i \in DOMAIN thread'.buf : thread'.buf[i].seg <= Newest
    <3>1. thread'.buf = thread.buf \/ thread'.buf = <<>>
      BY <1>19 DEF Head_, Go, Types, ThreadT
    <3>. QED
      BY <3>1 DEF ListInv
  <2>4. app'.op = "remove" => app'.seg \in Segments /\ app'.seg < Newest
    BY <1>19 DEF Head_, ListInv
  <2>5. app'.op = "seek" => app'.seg \in Openable
    BY <1>19 DEF Head_, ListInv
  <2>. QED
    BY <2>1, <2>2, <2>3, <2>4, <2>5, ListFrame
<1>20. CASE Read
  <2>1. UNCHANGED <<size, list>>
    BY <1>20 DEF Read
  <2>2. handle'.seg <= Newest
    BY <1>20 DEF Read, Advance, ListInv, Types, HandleT
  <2>3. \A i \in DOMAIN thread'.buf : thread'.buf[i].seg <= Newest
    <3>1. thread'.buf = thread.buf \/ thread'.buf = Filled
      BY <1>20 DEF Read, WithData, Go, Types, ThreadT
    <3>2. ASSUME NEW i \in DOMAIN Filled PROVE Filled[i].seg <= Newest
      <4>1. CASE handle = NoHandle
        BY <4>1 DEF Filled
      <4>2. CASE handle # NoHandle
        <5>1. \/ Filled[i].seg = handle.seg
              \/ \E j \in DOMAIN thread.buf : Filled[i] = thread.buf[j]
          BY <1>20, <4>2, FilledIs DEF Read, At
        <5>. QED
          BY <5>1 DEF ListInv
      <4>. QED
        BY <4>1, <4>2
    <3>. QED
      BY <3>1, <3>2 DEF ListInv
  <2>4. app'.op = "remove" => app'.seg \in Segments /\ app'.seg < Newest
    BY <1>20 DEF Read, ListInv
  <2>5. app'.op = "seek" => app'.seg \in Openable
    BY <1>20 DEF Read, ListInv
  <2>. QED
    BY <2>1, <2>2, <2>3, <2>4, <2>5, ListFrame
<1>21. CASE Change
  <2>1. UNCHANGED <<size, list>>
    BY <1>21 DEF Change
  <2>2. handle'.seg <= Newest
    BY <1>21, ChangedStays DEF Change, ListInv
  <2>3. \A i \in DOMAIN thread'.buf : thread'.buf[i].seg <= Newest
    BY <1>21 DEF Change, Go, ListInv, Types, ThreadT
  <2>4. app'.op = "remove" => app'.seg \in Segments /\ app'.seg < Newest
    BY <1>21 DEF Change, ListInv
  <2>5. app'.op = "seek" => app'.seg \in Openable
    BY <1>21 DEF Change, ListInv
  <2>. QED
    BY <2>1, <2>2, <2>3, <2>4, <2>5, ListFrame
<1>22. CASE Reread
  <2>1. UNCHANGED <<size, list>>
    BY <1>22 DEF Reread
  <2>2. handle'.seg <= Newest
    BY <1>22 DEF Reread, Advance, ListInv, Types, HandleT
  <2>3. \A i \in DOMAIN thread'.buf : thread'.buf[i].seg <= Newest
    <3>1. thread'.buf = thread.buf \/ thread'.buf = Filled
      BY <1>22 DEF Reread, Types, ThreadT
    <3>2. ASSUME NEW i \in DOMAIN Filled PROVE Filled[i].seg <= Newest
      <4>1. CASE handle = NoHandle
        BY <4>1 DEF Filled
      <4>2. CASE handle # NoHandle
        <5>1. \/ Filled[i].seg = handle.seg
              \/ \E j \in DOMAIN thread.buf : Filled[i] = thread.buf[j]
          BY <1>22, <4>2, FilledIs DEF Reread, At
        <5>. QED
          BY <5>1 DEF ListInv
      <4>. QED
        BY <4>1, <4>2
    <3>. QED
      BY <3>1, <3>2 DEF ListInv
  <2>4. app'.op = "remove" => app'.seg \in Segments /\ app'.seg < Newest
    BY <1>22 DEF Reread, ListInv
  <2>5. app'.op = "seek" => app'.seg \in Openable
    BY <1>22 DEF Reread, ListInv
  <2>. QED
    BY <2>1, <2>2, <2>3, <2>4, <2>5, ListFrame
<1>23. CASE NothingNext
  <2>1. UNCHANGED <<size, list>>
    BY <1>23 DEF NothingNext
  <2>2. handle'.seg <= Newest
    BY <1>23 DEF NothingNext, ListInv
  <2>3. \A i \in DOMAIN thread'.buf : thread'.buf[i].seg <= Newest
    BY <1>23 DEF NothingNext, Go, ListInv, Types, ThreadT
  <2>4. app'.op = "remove" => app'.seg \in Segments /\ app'.seg < Newest
    BY <1>23 DEF NothingNext, ListInv
  <2>5. app'.op = "seek" => app'.seg \in Openable
    BY <1>23 DEF NothingNext, ListInv
  <2>. QED
    BY <2>1, <2>2, <2>3, <2>4, <2>5, ListFrame
<1>24. CASE EndPause
  <2>1. UNCHANGED <<size, list>>
    BY <1>24 DEF EndPause
  <2>2. handle'.seg <= Newest
    BY <1>24 DEF EndPause, ListInv
  <2>3. \A i \in DOMAIN thread'.buf : thread'.buf[i].seg <= Newest
    BY <1>24 DEF EndPause, Go, ListInv, Types, ThreadT
  <2>4. app'.op = "remove" => app'.seg \in Segments /\ app'.seg < Newest
    BY <1>24 DEF EndPause, ListInv
  <2>5. app'.op = "seek" => app'.seg \in Openable
    BY <1>24 DEF EndPause, ListInv
  <2>. QED
    BY <2>1, <2>2, <2>3, <2>4, <2>5, ListFrame
<1>25. CASE Drop
  <2>1. UNCHANGED <<size, list>>
    BY <1>25 DEF Drop
  <2>2. handle'.seg <= Newest
    BY <1>25 DEF Drop, ListInv
  <2>3. \A i \in DOMAIN thread'.buf : thread'.buf[i].seg <= Newest
    <3>1. thread'.buf = thread.buf \/ thread'.buf = <<>>
      BY <1>25 DEF Drop, Go, Types, ThreadT
    <3>. QED
      BY <3>1 DEF ListInv
  <2>4. app'.op = "remove" => app'.seg \in Segments /\ app'.seg < Newest
    BY <1>25 DEF Drop, ListInv
  <2>5. app'.op = "seek" => app'.seg \in Openable
    BY <1>25 DEF Drop, ListInv
  <2>. QED
    BY <2>1, <2>2, <2>3, <2>4, <2>5, ListFrame
<1>26. CASE Write
  <2>1. UNCHANGED <<size, list>>
    BY <1>26 DEF Write
  <2>2. handle'.seg <= Newest
    BY <1>26 DEF Write, ListInv
  <2>3. \A i \in DOMAIN thread'.buf : thread'.buf[i].seg <= Newest
    <3>1. thread'.buf = thread.buf \/ thread'.buf = <<>>
      BY <1>26 DEF Write, Go, Types, ThreadT
    <3>. QED
      BY <3>1 DEF ListInv
  <2>4. app'.op = "remove" => app'.seg \in Segments /\ app'.seg < Newest
    BY <1>26 DEF Write, ListInv
  <2>5. app'.op = "seek" => app'.seg \in Openable
    BY <1>26 DEF Write, ListInv
  <2>. QED
    BY <2>1, <2>2, <2>3, <2>4, <2>5, ListFrame
<1>27. CASE ReadFails
  <2>1. UNCHANGED <<size, list>>
    BY <1>27 DEF ReadFails
  <2>2. handle'.seg <= Newest
    BY <1>27 DEF ReadFails, ListInv
  <2>3. \A i \in DOMAIN thread'.buf : thread'.buf[i].seg <= Newest
    BY <1>27 DEF ReadFails, Go, ListInv, Types, ThreadT
  <2>4. app'.op = "remove" => app'.seg \in Segments /\ app'.seg < Newest
    BY <1>27 DEF ReadFails, ListInv
  <2>5. app'.op = "seek" => app'.seg \in Openable
    BY <1>27 DEF ReadFails, ListInv
  <2>. QED
    BY <2>1, <2>2, <2>3, <2>4, <2>5, ListFrame
<1>. QED
  BY <1>1, <1>2, <1>3, <1>4, <1>5, <1>6, <1>7, <1>8, <1>9, <1>10, <1>11, <1>12, <1>13,
     <1>14, <1>15, <1>16, <1>17, <1>18, <1>19, <1>20, <1>21, <1>22, <1>23, <1>24,
     <1>25, <1>26, <1>27, <1>28 DEF Next, Thread

(* A change of segment opens the next one, if files open.                  *)
LEMMA ChangedOpens ==
  ASSUME Types, OpenInv, Missing = {}, Changed
  PROVE  /\ player'.open => handle' # NoHandle
         /\ NextId # None \/ player.open => player'.open
<1>1. CASE UNCHANGED <<player, handle>> /\ NextId = None
  BY <1>1 DEF OpenInv
<1>2. CASE /\ NextId # None /\ handle' = [seg |-> NextId, pos |-> 0]
           /\ player' = [player EXCEPT !.open = TRUE, !.cur = NextId]
  <2>1. player'.open
    BY <1>2 DEF Types, PlayerT
  <2>2. handle'.seg # None
    BY <1>2
  <2>. QED
    BY <2>1, <2>2 DEF NoHandle
<1>. QED
  BY <1>1, <1>2, ChangedIs

(* The open file.                                                          *)
LEMMA HandleNext ==
  ASSUME Types, ListInv, LifeInv, BufInv, HandleInv, [Next]_vars
  PROVE  HandleInv'
<1>1. CASE UNCHANGED vars
  BY <1>1 DEF vars, HandleInv, At, Types, PlayerT, ThreadT
<1>2. CASE Grow
  <2>1. UNCHANGED <<handle, thread, player>>
    BY <1>2 DEF Grow
  <2>2. Newest \in Segments
    BY NewestIs
  <2>3. ASSUME NEW s \in Segments PROVE size[s] \in Nat /\ size'[s] >= size[s]
    BY <1>2, <2>2, Constants DEF Grow, Types
  <2>4. handle # NoHandle => handle.pos <= size'[handle.seg]
    <3>. SUFFICES ASSUME handle # NoHandle PROVE handle.pos <= size'[handle.seg]
      OBVIOUS
    <3>1. handle.seg \in Segments /\ handle.pos <= size[handle.seg] /\ handle.pos \in Nat
      BY DEF HandleInv, Types, HandleT
    <3>2. size'[handle.seg] \in Nat
      BY <1>2, <2>2, <3>1, Constants DEF Grow, Types
    <3>. QED
      BY <2>3, <3>1, <3>2
  <2>. QED
    BY <2>1, <2>4 DEF HandleInv
<1>3. CASE AddSegment
  BY <1>3 DEF AddSegment, HandleInv, At, Types, PlayerT, ThreadT
<1>4. CASE Show
  BY <1>4 DEF Show, HandleInv, At, Types, PlayerT, ThreadT
<1>5. CASE FirstFrame
  BY <1>5 DEF FirstFrame, HandleInv, At, Types, PlayerT, ThreadT
<1>6. CASE Start
  BY <1>6 DEF Start, NoThread, LifeInv, HandleInv, At, Types, PlayerT, ThreadT
<1>7. CASE Pause
  BY <1>7 DEF Pause, Paused, HandleInv, At, Types, PlayerT, ThreadT
<1>8. CASE Resume
  BY <1>8 DEF Resume, HandleInv, At, Types, PlayerT, ThreadT
<1>9. CASE StopAsk
  BY <1>9 DEF StopAsk, Idle, HandleInv, At, Types, PlayerT, ThreadT
<1>10. CASE Join
  BY <1>10 DEF Join, NoThread, Idle, BufInv, HandleInv, At, Types, PlayerT, ThreadT
<1>11. CASE Stop
  <2>1. At("none") /\ ~thread.rewrite
    BY <1>11 DEF Stop, LifeInv, BufInv, At
  <2>2. handle' = NoHandle /\ thread' = thread
    BY <1>11 DEF Stop
  <2>. QED
    BY <2>1, <2>2 DEF HandleInv, At
<1>12. CASE SeekRefused
  BY <1>12 DEF SeekRefused, Idle, HandleInv, At, Types, PlayerT, ThreadT
<1>13. CASE SeekFile
  <2>. DEFINE p == Min({app.pos, size[app.seg]})
  <2>1. /\ handle # NoHandle /\ handle.seg \in Segments /\ handle.seg # None
        /\ player.open /\ app.seg \in Segments
    BY <1>13, SegmentsAre DEF SeekFile, HandleInv, ListInv, Openable, Types
  <2>2. size[handle.seg] \in Nat /\ size[app.seg] \in Nat /\ app.pos \in Nat
    BY <2>1, Constants DEF Types, AppT
  <2>3. p \in Nat
    BY <2>2, MinOfTwo
  <2>. HIDE DEF p
  <2>4. Min({p, size[handle.seg]}) <= size[handle.seg]
    BY <2>2, <2>3, MinOfTwo
  <2>5. handle'.seg = handle.seg /\ handle'.pos = Min({p, size[handle.seg]})
    BY <1>13 DEF SeekFile, Types, HandleT, p
  <2>6. player'.open = player.open /\ UNCHANGED <<size, thread>>
    BY <1>13 DEF SeekFile, Sought, Types, PlayerT
  <2>. QED
    BY <2>1, <2>4, <2>5, <2>6 DEF HandleInv, NoHandle
<1>14. ASSUME NEW s \in Segments, NEW p \in 0 .. MaxUnit + 1, SeekOpen(s, p)
      PROVE  HandleInv'
  <2>1. CASE player.open /\ player.cur = s
    BY <1>14, <2>1 DEF SeekOpen, HandleInv
  <2>2. CASE ~ (player.open /\ player.cur = s)
    <3>1. player'.open /\ handle' = [seg |-> s, pos |-> 0] /\ size' = size
      BY <1>14, <2>2 DEF SeekOpen, Types, PlayerT
    <3>2. s # None /\ size[s] >= 0
      BY SegmentsAre, Constants DEF Types
    <3>. QED
      BY <3>1, <3>2 DEF HandleInv, NoHandle
  <2>. QED
    BY <2>1, <2>2
<1>15. ASSUME NEW s \in Segments, RemoveLook(s)
      PROVE  HandleInv'
  BY <1>15 DEF RemoveLook, HandleInv, At, Types, PlayerT, ThreadT
<1>16. CASE RemoveDone
  BY <1>16 DEF RemoveDone, Idle, HandleInv, At, Types, PlayerT, ThreadT
<1>17. CASE Begin
  BY <1>17 DEF Begin, Go, HandleInv, At, Types, ThreadT
<1>28. CASE FirstSegment
  <2>1. thread'.rewrite = thread.rewrite /\ size' = size /\ ~thread.rewrite
    BY <1>28 DEF FirstSegment, Go, At, BufInv, Types, ThreadT
  <2>2. CASE UNCHANGED <<player, handle>>
    BY <1>28, <2>1, <2>2 DEF FirstSegment, Go, At, HandleInv, Types, ThreadT
  <2>3. CASE NextId # None /\ handle' = [seg |-> NextId, pos |-> 0] /\ player'.open
    <3>1. handle'.seg \in Segments /\ handle' # NoHandle /\ handle'.pos = 0
      BY <2>3, NextIs, SegmentsAre DEF NoHandle
    <3>2. size[handle'.seg] >= 0
      BY <3>1, Constants DEF Types
    <3>. QED
      BY <2>1, <2>3, <3>1, <3>2 DEF HandleInv
  <2>4. CASE NextId = None /\ handle' = NoHandle
    <3>1. thread'.pc \in {"exit", "end", "top"}
      BY <1>28, <2>4 DEF FirstSegment, Go, Types, ThreadT
    <3>. QED
      BY <2>1, <2>4, <3>1 DEF HandleInv
  <2>5. Changed /\ player \in PlayerT
    BY <1>28 DEF FirstSegment, Types
  <2>. QED
    BY <2>2, <2>3, <2>4, <2>5, ChangedIs DEF PlayerT
<1>18. CASE Leave
  BY <1>18 DEF Leave, HandleInv, At, Types, PlayerT, ThreadT
<1>19. CASE Head_
  BY <1>19 DEF Head_, Go, BufInv, HandleInv, At, Types, PlayerT, ThreadT
<1>20. CASE Read
  <2>1. At("read") /\ (At("read") \/ At("reread"))
    BY <1>20 DEF Read, At
  <2>2. CASE handle = NoHandle
    <3>1. handle' = handle /\ Filled = <<>>
      BY <1>20, <2>2 DEF Read, Advance, Filled
    <3>2. thread'.pc \in {"top", "drop"} /\ (thread'.pc = "drop" => Len(Filled) = Block)
          /\ thread'.rewrite = thread.rewrite
      BY <1>20, <2>2 DEF Read, WithData, Go, Types, ThreadT
    <3>3. thread'.pc = "top" /\ ~thread'.rewrite
      BY <2>1, <3>1, <3>2, Constants DEF BufInv, At
    <3>. QED
      BY <2>2, <3>1, <3>3 DEF HandleInv
  <2>3. CASE handle # NoHandle
    <3>1. /\ handle.seg \in Segments /\ player.open /\ handle.seg # None
          /\ handle.pos \in Nat
      BY <2>3, SegmentsAre DEF HandleInv, Types, HandleT
    <3>2. Len(Filled) \in Nat /\ Len(thread.buf) \in Nat
          /\ handle.pos + (Len(Filled) - Len(thread.buf)) <= size[handle.seg]
      BY <2>1, <2>3, FilledIs DEF At
    <3>3. handle' = [handle EXCEPT !.pos = @ + Len(Filled) - Len(thread.buf)]
      BY <1>20, <2>3 DEF Read, Advance
    <3>4. /\ handle'.seg = handle.seg
          /\ handle'.pos = handle.pos + (Len(Filled) - Len(thread.buf))
      BY <3>1, <3>2, <3>3 DEF Types, HandleT
    <3>5. player'.open = player.open /\ size' = size
      BY <1>20 DEF Read, Types, PlayerT
    <3>. QED
      BY <3>1, <3>2, <3>4, <3>5 DEF HandleInv, NoHandle
  <2>. QED
    BY <2>2, <2>3
<1>21. CASE Change
  <2>1. thread'.rewrite = thread.rewrite /\ size' = size /\ ~thread.rewrite
    BY <1>21 DEF Change, Go, At, BufInv, Types, ThreadT
  <2>2. CASE UNCHANGED <<player, handle>> 
    BY <1>21, <2>1, <2>2 DEF Change, Go, At, HandleInv, Types, ThreadT
  <2>3. CASE NextId # None /\ handle' = [seg |-> NextId, pos |-> 0] /\ player'.open
    <3>1. handle'.seg \in Segments /\ handle' # NoHandle /\ handle'.pos = 0
      BY <2>3, NextIs, SegmentsAre DEF NoHandle
    <3>2. size[handle'.seg] >= 0
      BY <3>1, Constants DEF Types
    <3>. QED
      BY <2>1, <2>3, <3>1, <3>2 DEF HandleInv
  <2>4. CASE NextId = None /\ handle' = NoHandle
    <3>1. thread'.pc \in {"exit", "end", "top"}
      BY <1>21, <2>4 DEF Change, Go, Types, ThreadT
    <3>. QED
      BY <2>1, <2>4, <3>1 DEF HandleInv
  <2>. QED
    BY <1>21, <2>2, <2>3, <2>4, ChangedIs DEF Change, Types, PlayerT
<1>22. CASE Reread
  <2>1. At("reread") /\ (At("read") \/ At("reread"))
    BY <1>22 DEF Reread, At
  <2>2. CASE handle = NoHandle
    <3>1. handle' = handle /\ Filled = <<>>
      BY <1>22, <2>2 DEF Reread, Advance, Filled
    <3>2. thread'.pc \in {"top", "drop"} /\ (thread'.pc = "drop" => Len(Filled) = Block)
          /\ thread'.rewrite = thread.rewrite
      BY <1>22, <2>2 DEF Reread, Types, ThreadT
    <3>3. thread'.pc = "top" /\ ~thread'.rewrite
      BY <2>1, <3>1, <3>2, Constants DEF BufInv, At
    <3>. QED
      BY <2>2, <3>1, <3>3 DEF HandleInv
  <2>3. CASE handle # NoHandle
    <3>1. /\ handle.seg \in Segments /\ player.open /\ handle.seg # None
          /\ handle.pos \in Nat
      BY <2>3, SegmentsAre DEF HandleInv, Types, HandleT
    <3>2. Len(Filled) \in Nat /\ Len(thread.buf) \in Nat
          /\ handle.pos + (Len(Filled) - Len(thread.buf)) <= size[handle.seg]
      BY <2>1, <2>3, FilledIs DEF At
    <3>3. handle' = [handle EXCEPT !.pos = @ + Len(Filled) - Len(thread.buf)]
      BY <1>22, <2>3 DEF Reread, Advance
    <3>4. /\ handle'.seg = handle.seg
          /\ handle'.pos = handle.pos + (Len(Filled) - Len(thread.buf))
      BY <3>1, <3>2, <3>3 DEF Types, HandleT
    <3>5. player'.open = player.open /\ size' = size
      BY <1>22 DEF Reread, Types, PlayerT
    <3>. QED
      BY <3>1, <3>2, <3>4, <3>5 DEF HandleInv, NoHandle
  <2>. QED
    BY <2>2, <2>3
<1>23. CASE NothingNext
  BY <1>23 DEF NothingNext, BufInv, HandleInv, At, Types, PlayerT, ThreadT
<1>24. CASE EndPause
  BY <1>24 DEF EndPause, Paused, Go, BufInv, HandleInv, At, Types, PlayerT, ThreadT
<1>25. CASE Drop
  BY <1>25 DEF Drop, Go, BufInv, HandleInv, At, Types, PlayerT, ThreadT
<1>26. CASE Write
  BY <1>26 DEF Write, BufInv, HandleInv, At, Types, PlayerT, ThreadT
<1>27. CASE ReadFails
  BY <1>27 DEF ReadFails, HandleInv, At, Types, PlayerT, ThreadT
<1>. QED
  BY <1>1, <1>2, <1>3, <1>4, <1>5, <1>6, <1>7, <1>8, <1>9, <1>10, <1>11, <1>12, <1>13,
     <1>14, <1>15, <1>16, <1>17, <1>18, <1>19, <1>20, <1>21, <1>22, <1>23, <1>24,
     <1>25, <1>26, <1>27, <1>28 DEF Next, Thread

(* With files that open the thread has one.                                *)
LEMMA OpenNext ==
  ASSUME Types, LifeInv, HandleInv, OpenInv, [Next]_vars
  PROVE  OpenInv'
<1>1. CASE UNCHANGED vars
  BY <1>1 DEF vars, OpenInv, At, Types, PlayerT, ThreadT
<1>2. CASE Grow
  BY <1>2 DEF Grow, OpenInv, At, Types, PlayerT, ThreadT
<1>3. CASE AddSegment
  BY <1>3 DEF AddSegment, OpenInv, At, Types, PlayerT, ThreadT
<1>4. CASE Show
  BY <1>4 DEF Show, OpenInv, At, Types, PlayerT, ThreadT
<1>5. CASE FirstFrame
  BY <1>5 DEF FirstFrame, OpenInv, At, Types, PlayerT, ThreadT
<1>6. CASE Start
  BY <1>6 DEF Start, NoThread, OpenInv, At, Types, PlayerT, ThreadT
<1>7. CASE Pause
  BY <1>7 DEF Pause, Paused, OpenInv, At, Types, PlayerT, ThreadT
<1>8. CASE Resume
  BY <1>8 DEF Resume, OpenInv, At, Types, PlayerT, ThreadT
<1>9. CASE StopAsk
  BY <1>9 DEF StopAsk, Idle, OpenInv, At, Types, PlayerT, ThreadT
<1>10. CASE Join
  BY <1>10 DEF Join, NoThread, Idle, OpenInv, At, Types, PlayerT, ThreadT
<1>11. CASE Stop
  <2>1. At("none") /\ thread' = thread /\ player'.open = FALSE
    BY <1>11 DEF Stop, LifeInv, At, Types, PlayerT
  <2>. QED
    BY <2>1 DEF OpenInv, At
<1>12. CASE SeekRefused
  BY <1>12 DEF SeekRefused, Idle, OpenInv, At, Types, PlayerT, ThreadT
<1>13. CASE SeekFile
  BY <1>13, SegmentsAre DEF SeekFile, Sought, Idle, HandleInv, HandleT, NoHandle,
     OpenInv, At, Types, PlayerT, ThreadT
<1>14. ASSUME NEW s \in Segments, NEW p \in 0 .. MaxUnit + 1, SeekOpen(s, p)
      PROVE  OpenInv'
  <2>1. CASE player.open /\ player.cur = s
    BY <1>14, <2>1 DEF SeekOpen, OpenInv
  <2>2. CASE ~ (player.open /\ player.cur = s)
    <3>1. player'.open = TRUE
      BY <1>14, <2>2 DEF SeekOpen, Types, PlayerT
    <3>2. handle' = [seg |-> s, pos |-> 0] /\ thread' = thread
      BY <1>14, <2>2 DEF SeekOpen
    <3>3. s # None
      BY SegmentsAre
    <3>. QED
      BY <3>1, <3>2, <3>3 DEF OpenInv, NoHandle
  <2>. QED
    BY <2>1, <2>2
<1>15. ASSUME NEW s \in Segments, RemoveLook(s)
      PROVE  OpenInv'
  BY <1>15 DEF RemoveLook, OpenInv, At, Types, PlayerT, ThreadT
<1>16. CASE RemoveDone
  BY <1>16 DEF RemoveDone, Idle, OpenInv, At, Types, PlayerT, ThreadT
<1>17. CASE Begin
  BY <1>17 DEF Begin, Go, OpenInv, At, Types, ThreadT
<1>28. CASE FirstSegment
  <2>1. Changed /\ thread'.pc = (IF NextId = None THEN "exit" ELSE "top")
    BY <1>28 DEF FirstSegment, Go, Types, ThreadT
  <2>. QED
    BY <2>1, ChangedOpens DEF OpenInv
<1>18. CASE Leave
  BY <1>18 DEF Leave, OpenInv, At, Types, PlayerT, ThreadT
<1>19. CASE Head_
  BY <1>19 DEF Head_, Go, OpenInv, At, Types, PlayerT, ThreadT
<1>20. CASE Read
  BY <1>20, SegmentsAre DEF Read, WithData, Go, Advance, HandleInv, HandleT, NoHandle,
     OpenInv, At, Types, PlayerT, ThreadT
<1>21. CASE Change
  <2>1. Changed /\ thread'.pc \in {"reread", "end"} /\ At("change")
    BY <1>21 DEF Change, Go, Types, ThreadT
  <2>2. Missing = {} => player.open
    BY <2>1 DEF OpenInv, At
  <2>. QED
    BY <2>1, <2>2, ChangedOpens DEF OpenInv
<1>22. CASE Reread
  BY <1>22, SegmentsAre DEF Reread, Advance, HandleInv, HandleT, NoHandle, OpenInv,
     At, Types, PlayerT, ThreadT
<1>23. CASE NothingNext
  BY <1>23 DEF NothingNext, OpenInv, At, Types, PlayerT, ThreadT
<1>24. CASE EndPause
  BY <1>24 DEF EndPause, Paused, Go, OpenInv, At, Types, PlayerT, ThreadT
<1>25. CASE Drop
  BY <1>25 DEF Drop, Go, OpenInv, At, Types, PlayerT, ThreadT
<1>26. CASE Write
  BY <1>26 DEF Write, OpenInv, At, Types, PlayerT, ThreadT
<1>27. CASE ReadFails
  BY <1>27 DEF ReadFails, OpenInv, At, Types, PlayerT, ThreadT
<1>. QED
  BY <1>1, <1>2, <1>3, <1>4, <1>5, <1>6, <1>7, <1>8, <1>9, <1>10, <1>11, <1>12, <1>13,
     <1>14, <1>15, <1>16, <1>17, <1>18, <1>19, <1>20, <1>21, <1>22, <1>23, <1>24,
     <1>25, <1>26, <1>27, <1>28 DEF Next, Thread

(* A change of segment leads to the begin of a file, or to none.           *)
LEMMA ChangedPlace ==
  ASSUME Changed
  PROVE  UNCHANGED <<player, handle>> \/ handle'.pos = 0
<1>1. CASE handle' = [seg |-> NextId, pos |-> 0]
  BY <1>1
<1>2. CASE handle' = NoHandle
  BY <1>2 DEF NoHandle
<1>. QED
  BY <1>1, <1>2 DEF Changed

(* A change of segment leads to a listed one, or to none.                  *)
LEMMA ChangedCur ==
  ASSUME Types, Changed
  PROVE  \/ UNCHANGED <<player, handle>>
         \/ handle' = NoHandle
         \/ handle'.seg = player'.cur /\ player'.cur \in list
<1>1. CASE /\ NextId # None /\ handle' = [seg |-> NextId, pos |-> 0]
           /\ player' = [player EXCEPT !.open = TRUE, !.cur = NextId]
  <2>1. NextId \in list
    BY <1>1, NextIs DEF Openable
  <2>2. player'.cur = NextId
    BY <1>1 DEF Types, PlayerT
  <2>. QED
    BY <1>1, <2>1, <2>2
<1>. QED
  BY <1>1, ChangedIs

(* The file that is open is that of the current segment.                   *)
LEMMA CurNext ==
  ASSUME Types, ListInv, LifeInv, BufInv, HandleInv, StopInv, CurInv, [Next]_vars
  PROVE  CurInv'
<1>1. CASE UNCHANGED vars
  BY <1>1 DEF vars, CurInv, Alive, Busy, At, Types, PlayerT, ThreadT
<1>2. CASE Grow
  <2>1. /\ UNCHANGED <<player, handle, thread, list>>
        /\ seen'.raced = (seen.raced \/ (At("change") /\ handle.seg = Newest))
    BY <1>2 DEF Grow, Types, Seen
  <2>2. handle.seg # Newest => size'[handle.seg] = size[handle.seg]
    BY <1>2 DEF Grow, Types
  <2>. QED
    BY <2>1, <2>2 DEF CurInv, Alive, Busy, At
<1>3. CASE AddSegment
  BY <1>3 DEF AddSegment, Seen, CurInv, Alive, Busy, At, Types, PlayerT, ThreadT
<1>4. CASE Show
  BY <1>4 DEF Show, CurInv, Alive, Busy, At, Types, PlayerT, ThreadT
<1>5. CASE FirstFrame
  BY <1>5 DEF FirstFrame, CurInv, Alive, Busy, At, Types, PlayerT, ThreadT
<1>6. CASE Start
  BY <1>6, SegmentsAre DEF Start, NoThread, LifeInv, StopInv, HandleInv, NoHandle,
     Seen, CurInv, Alive, Busy, At, Types, PlayerT, ThreadT
<1>7. CASE Pause
  BY <1>7 DEF Pause, Paused, Seen, CurInv, Alive, Busy, At, Types, PlayerT, ThreadT
<1>8. CASE Resume
  BY <1>8 DEF Resume, Seen, CurInv, Alive, Busy, At, Types, PlayerT, ThreadT
<1>9. CASE StopAsk
  BY <1>9 DEF StopAsk, Idle, CurInv, Alive, Busy, At, Types, PlayerT, ThreadT
<1>10. CASE Join
  BY <1>10 DEF Join, NoThread, Idle, CurInv, Alive, Busy, At, Types, PlayerT, ThreadT
<1>11. CASE Stop
  BY <1>11 DEF Stop, Idle, LifeInv, CurInv, Alive, Busy, At, Types, PlayerT, ThreadT
<1>12. CASE SeekRefused
  BY <1>12 DEF SeekRefused, Idle, CurInv, Alive, Busy, At, Types, PlayerT, ThreadT
<1>13. CASE SeekFile
  <2>1. /\ seen'.raced = (Busy \/ At("first") \/ (Alive /\ handle.seg # app.seg))
        /\ player'.cur = app.seg /\ handle'.seg = handle.seg
        /\ UNCHANGED <<thread, list, size>>
    BY <1>13 DEF SeekFile, Sought, Types, PlayerT, HandleT, Seen
  <2>2. app.seg \in list
    BY <1>13 DEF SeekFile, ListInv, Openable
  <2>. QED
    BY <2>1, <2>2 DEF CurInv, Alive, Busy, At
<1>14. ASSUME NEW s \in Segments, NEW p \in 0 .. MaxUnit + 1, SeekOpen(s, p)
      PROVE  CurInv'
  <2>1. CASE player.open /\ player.cur = s
    BY <1>14, <2>1 DEF SeekOpen, CurInv, Alive, Busy, At
  <2>2. CASE ~ (player.open /\ player.cur = s)
    <3>1. seen'.raced = Alive /\ thread' = thread
      BY <1>14, <2>2 DEF SeekOpen, Types, Seen
    <3>. QED
      BY <3>1 DEF CurInv, Alive, Busy, At
  <2>. QED
    BY <2>1, <2>2
<1>15. ASSUME NEW s \in Segments, RemoveLook(s)
      PROVE  CurInv'
  BY <1>15 DEF RemoveLook, CurInv, Alive, Busy, At, Types, PlayerT, ThreadT
<1>16. CASE RemoveDone
  BY <1>16 DEF RemoveDone, Idle, Seen, CurInv, Alive, Busy, At, Types, PlayerT, ThreadT
<1>17. CASE Begin
  <2>1. /\ UNCHANGED <<size, list, player, handle, seen>> /\ At("start")
        /\ thread'.pc = IF player.open THEN "top" ELSE "first"
    BY <1>17 DEF Begin, Go, Types, ThreadT
  <2>. QED
    BY <2>1 DEF CurInv, Alive, Busy, At
<1>28. CASE FirstSegment
  <2>1. At("first") /\ UNCHANGED list /\ thread'.pc \in {"top", "exit"}
        /\ seen'.raced = seen.raced /\ Changed
    BY <1>28 DEF FirstSegment, Go, Types, ThreadT, Seen
  <2>2. CASE player.open
    BY <2>1, <2>2 DEF CurInv, Busy, At
  <2>3. CASE ~player.open
    <3>1. handle = NoHandle
      BY <2>3 DEF HandleInv
    <3>2. handle' # NoHandle => handle'.seg = player'.cur /\ player'.cur \in list
      BY <2>1, <3>1, ChangedCur
    <3>. QED
      BY <2>1, <3>2 DEF CurInv, Busy, At
  <2>. QED
    BY <2>2, <2>3
<1>18. CASE Leave
  BY <1>18 DEF Leave, CurInv, Alive, Busy, At, Types, PlayerT, ThreadT
<1>19. CASE Head_
  BY <1>19 DEF Head_, Go, CurInv, Alive, Busy, At, Types, PlayerT, ThreadT
<1>20. CASE Read
  <2>1. /\ At("read") /\ UNCHANGED <<size, list>> /\ seen'.raced = seen.raced
        /\ thread'.pc # "first"
    <3>1. At("read") /\ UNCHANGED <<size, list>>
      BY <1>20 DEF Read
    <3>2. seen'.raced = seen.raced
      BY <1>20 DEF Read, WithData, Types, Seen
    <3>3. thread'.pc \in {"change", "drop", "top"}
      BY <1>20 DEF Read, WithData, Go, Types, ThreadT
    <3>. QED
      BY <3>1, <3>2, <3>3
  <2>2. player'.cur = player.cur /\ player'.drop = player.drop
    BY <1>20 DEF Read, Types, PlayerT
  <2>3. handle'.seg = handle.seg /\ (handle' # NoHandle => handle # NoHandle)
    BY <1>20 DEF Read, Advance, Types, HandleT
  <2>4. thread'.pc = "change" => handle'.pos = size[handle'.seg]
    <3>. SUFFICES ASSUME thread'.pc = "change" PROVE handle'.pos = size[handle'.seg]
      OBVIOUS
    <3>1. handle # NoHandle /\ Filled = thread.buf
      BY <1>20 DEF Read, WithData, Types, ThreadT
    <3>2. handle.pos = size[handle.seg]
      BY <2>1, <3>1, FilledIs DEF At
    <3>3. handle' = [handle EXCEPT !.pos = @ + Len(thread.buf) - Len(thread.buf)]
      BY <1>20, <3>1 DEF Read, Advance
    <3>4. handle.pos \in Nat /\ Len(thread.buf) \in Nat
      BY LengthOfBuf DEF Types, HandleT
    <3>5. handle'.pos = handle.pos
      BY <3>3, <3>4 DEF Types, HandleT
    <3>. QED
      BY <2>3, <3>2, <3>5
  <2>. QED
    BY <2>1, <2>2, <2>3, <2>4 DEF CurInv, Alive, Busy, At
<1>21. CASE Change
  <2>1. /\ Changed /\ At("change") /\ UNCHANGED <<seen, list>>
        /\ thread'.pc \in {"reread", "end"}
    BY <1>21 DEF Change, Go, Types, ThreadT
  <2>2. player'.drop = player.drop
    BY <2>1, ChangedIs DEF Types, PlayerT
  <2>3. ~seen.raced /\ handle' # NoHandle
          => handle'.seg = player'.cur /\ player'.cur \in list
    BY <2>1, ChangedCur DEF CurInv, Alive, At
  <2>. QED
    BY <2>1, <2>2, <2>3 DEF CurInv, Busy, At
<1>22. CASE Reread
  <2>1. At("reread") /\ UNCHANGED <<size, list>> /\ seen'.raced = seen.raced
        /\ thread'.pc \in {"drop", "top"}
    BY <1>22 DEF Reread, Types, ThreadT, Seen
  <2>2. player'.cur = player.cur /\ player'.drop = player.drop
    BY <1>22 DEF Reread, Types, PlayerT
  <2>3. handle'.seg = handle.seg /\ (handle' # NoHandle => handle # NoHandle)
    BY <1>22 DEF Reread, Advance, Types, HandleT
  <2>. QED
    BY <2>1, <2>2, <2>3 DEF CurInv, Alive, Busy, At
<1>23. CASE NothingNext
  BY <1>23 DEF NothingNext, Seen, CurInv, Alive, Busy, At, Types, PlayerT, ThreadT
<1>24. CASE EndPause
  <2>1. /\ At("endpause") /\ thread'.pc = "top" /\ UNCHANGED <<size, list, handle>>
        /\ seen'.raced = seen.raced
    BY <1>24 DEF EndPause, Go, Types, ThreadT, Seen
  <2>2. player'.cur = player.cur
    BY <1>24 DEF EndPause, Paused, Types, PlayerT
  <2>. QED
    BY <2>1, <2>2 DEF CurInv, Alive, Busy, At
<1>25. CASE Drop
  BY <1>25 DEF Drop, Go, CurInv, Alive, Busy, At, Types, PlayerT, ThreadT
<1>26. CASE Write
  <2>1. /\ At("write") /\ thread'.pc = "top" /\ UNCHANGED <<size, list, handle>>
        /\ seen'.raced = seen.raced
    BY <1>26 DEF Write, Types, ThreadT, Seen
  <2>2. player'.cur = player.cur
    BY <1>26 DEF Write, Types, PlayerT
  <2>. QED
    BY <2>1, <2>2 DEF CurInv, Alive, Busy, At
<1>27. CASE ReadFails
  BY <1>27 DEF ReadFails, CurInv, Alive, Busy, At, Types, PlayerT, ThreadT
<1>. QED
  BY <1>1, <1>2, <1>3, <1>4, <1>5, <1>6, <1>7, <1>8, <1>9, <1>10, <1>11, <1>12, <1>13,
     <1>14, <1>15, <1>16, <1>17, <1>18, <1>19, <1>20, <1>21, <1>22, <1>23, <1>24,
     <1>25, <1>26, <1>27, <1>28 DEF Next, Thread

(* ts_cache_len is what is in hand.                                        *)
LEMMA TimeNext ==
  ASSUME Types, LifeInv, BufInv, HandleInv, StopInv, CurInv, TimeInv, [Next]_vars
  PROVE  TimeInv'
<1>1. CASE UNCHANGED vars
  BY <1>1 DEF vars, TimeInv, Playing, Alive, At, Types, PlayerT, ThreadT
<1>2. CASE Grow
  BY <1>2 DEF Grow, Seen, TimeInv, Playing, Alive, At, Types, PlayerT, ThreadT
<1>3. CASE AddSegment
  BY <1>3 DEF AddSegment, Seen, TimeInv, Playing, Alive, At, Types, PlayerT, ThreadT
<1>4. CASE Show
  BY <1>4 DEF Show, TimeInv, Playing, Alive, At, Types, PlayerT, ThreadT
<1>5. CASE FirstFrame
  BY <1>5 DEF FirstFrame, TimeInv, Playing, Alive, At, Types, PlayerT, ThreadT
<1>6. CASE Start
  BY <1>6 DEF Start, NoThread, LifeInv, StopInv, TimeInv, Playing, Alive, At, Types,
     PlayerT, ThreadT
<1>7. CASE Pause
  BY <1>7 DEF Pause, Paused, Seen, TimeInv, Playing, Alive, At, Types, PlayerT, ThreadT
<1>8. CASE Resume
  BY <1>8 DEF Resume, Seen, TimeInv, Playing, Alive, At, Types, PlayerT, ThreadT
<1>9. CASE StopAsk
  BY <1>9 DEF StopAsk, Idle, TimeInv, Playing, Alive, At, Types, PlayerT, ThreadT
<1>10. CASE Join
  BY <1>10 DEF Join, NoThread, Idle, LifeInv, TimeInv, Playing, Alive, At, Types,
     PlayerT, ThreadT
<1>11. CASE Stop
  BY <1>11 DEF Stop, Idle, NoHandle, TimeInv, Playing, Alive, At, Types, PlayerT, ThreadT
<1>12. CASE SeekRefused
  BY <1>12 DEF SeekRefused, Idle, TimeInv, Playing, Alive, At, Types, PlayerT, ThreadT
<1>13. CASE SeekFile
  <2>1. player'.drop = TRUE /\ player'.cacheLen = 0
    BY <1>13 DEF SeekFile, Sought, Types, PlayerT
  <2>. QED
    BY <2>1 DEF TimeInv
<1>14. ASSUME NEW s \in Segments, NEW p \in 0 .. MaxUnit + 1, SeekOpen(s, p)
      PROVE  TimeInv'
  <2>1. CASE player.open /\ player.cur = s
    BY <1>14, <2>1 DEF SeekOpen, TimeInv, Alive, Playing, At
  <2>2. CASE ~ (player.open /\ player.cur = s)
    <3>1. handle'.pos = 0
      BY <1>14, <2>2 DEF SeekOpen
    <3>. QED
      BY <3>1 DEF TimeInv
  <2>. QED
    BY <2>1, <2>2
<1>15. ASSUME NEW s \in Segments, RemoveLook(s)
      PROVE  TimeInv'
  BY <1>15 DEF RemoveLook, TimeInv, Playing, Alive, At, Types, PlayerT, ThreadT
<1>16. CASE RemoveDone
  BY <1>16 DEF RemoveDone, Idle, Seen, TimeInv, Playing, Alive, At, Types, PlayerT,
     ThreadT
<1>17. CASE Begin
  <2>1. /\ At("start") /\ thread'.pc \in {"first", "top"} /\ thread'.buf = thread.buf
        /\ UNCHANGED <<player, handle, seen>>
    BY <1>17 DEF Begin, Go, Types, ThreadT
  <2>. QED
    BY <2>1 DEF TimeInv, Alive, Playing, At
<1>28. CASE FirstSegment
  <2>1. At("first") /\ thread'.pc \in {"top", "exit"} /\ seen'.raced = seen.raced
        /\ Changed
    BY <1>28 DEF FirstSegment, Go, Types, ThreadT, Seen
  <2>2. player.state # "STOP" /\ player'.state = player.state
    BY <2>1, ChangedIs DEF LifeInv, At, Types, PlayerT
  <2>3. CASE player.open
    BY <2>1, <2>2, <2>3 DEF TimeInv, CurInv, At
  <2>4. CASE ~player.open
    <3>1. handle = NoHandle
      BY <2>4 DEF HandleInv
    <3>2. handle'.pos = 0
      BY <2>1, <3>1, ChangedPlace DEF NoHandle
    <3>. QED
      BY <3>2 DEF TimeInv
  <2>. QED
    BY <2>3, <2>4
<1>18. CASE Leave
  <2>1. At("top") /\ thread'.pc = "exit" /\ UNCHANGED player
    BY <1>18 DEF Leave, Types, ThreadT
  <2>2. player.state # "STOP"
    BY <2>1 DEF LifeInv, At
  <2>. QED
    BY <2>1, <2>2 DEF TimeInv, Alive, Playing, At
<1>19. CASE Head_
  <2>1. /\ At("top") /\ UNCHANGED <<seen, handle>> /\ thread'.pc \in {"read", "drop"}
        /\ player'.state = player.state /\ player'.cacheLen = player.cacheLen
        /\ player'.drop = FALSE
    BY <1>19 DEF Head_, Types, ThreadT, PlayerT
  <2>2. player.state # "STOP"
    BY <2>1 DEF LifeInv, At
  <2>3. ~player.drop => thread'.buf = thread.buf
    BY <1>19 DEF Head_, Types, ThreadT
  <2>4. player.drop => thread'.buf = <<>>
    BY <1>19 DEF Head_, Types, ThreadT
  <2>5. player.drop => Len(thread'.buf) = 0
    BY <2>4
  <2>. QED
    BY <2>1, <2>2, <2>3, <2>5 DEF TimeInv, Alive, Playing, At
<1>20. CASE Read
  <2>1. /\ At("read") /\ seen'.raced = seen.raced /\ thread'.pc # "start"
        /\ thread'.buf = Filled
    BY <1>20 DEF Read, WithData, Go, Types, ThreadT, Seen
  <2>2. /\ player'.state = player.state /\ player'.cacheLen = Len(Filled)
        /\ player'.drop = player.drop
    BY <1>20 DEF Read, Types, PlayerT
  <2>3. player.state # "STOP" /\ (~seen.raced => ~player.drop)
    BY <2>1 DEF LifeInv, CurInv, Busy, At
  <2>. QED
    BY <2>1, <2>2, <2>3 DEF TimeInv, Alive, Playing, At
<1>21. CASE Change
  <2>1. /\ Changed /\ At("change") /\ UNCHANGED seen /\ thread'.buf = thread.buf
        /\ thread'.pc \in {"reread", "end"}
    BY <1>21 DEF Change, Go, Types, ThreadT
  <2>2. player.state # "STOP" /\ player'.state = player.state
    BY <2>1, ChangedIs DEF LifeInv, At, Types, PlayerT
  <2>3. handle'.pos = 0 \/ UNCHANGED <<player, handle>>
    BY <2>1, ChangedPlace
  <2>. QED
    BY <2>1, <2>2, <2>3 DEF TimeInv, Alive, Playing, At
<1>22. CASE Reread
  <2>1. /\ At("reread") /\ seen'.raced = seen.raced /\ thread'.pc # "start"
        /\ thread'.buf = Filled
    BY <1>22 DEF Reread, Types, ThreadT, Seen
  <2>2. /\ player'.state = player.state /\ player'.cacheLen = Len(Filled)
        /\ player'.drop = player.drop
    BY <1>22 DEF Reread, Types, PlayerT
  <2>3. player.state # "STOP" /\ (~seen.raced => ~player.drop)
    BY <2>1 DEF LifeInv, CurInv, Busy, At
  <2>. QED
    BY <2>1, <2>2, <2>3 DEF TimeInv, Alive, Playing, At
<1>23. CASE NothingNext
  BY <1>23 DEF NothingNext, Seen, TimeInv, Playing, Alive, At, Types, PlayerT, ThreadT
<1>24. CASE EndPause
  BY <1>24 DEF EndPause, Paused, Go, Seen, TimeInv, Playing, Alive, At, Types,
     PlayerT, ThreadT
<1>25. CASE Drop
  <2>1. /\ At("drop") /\ UNCHANGED <<seen, handle>> /\ thread'.pc \in {"top", "write"}
        /\ player'.state = player.state /\ player'.drop = FALSE
    BY <1>25 DEF Drop, Go, Types, ThreadT, PlayerT
  <2>2. player.state # "STOP"
    BY <2>1 DEF LifeInv, At
  <2>3. IF player.drop THEN Len(thread'.buf) = 0 /\ player'.cacheLen = 0
        ELSE thread'.buf = thread.buf /\ player'.cacheLen = player.cacheLen
    BY <1>25 DEF Drop, Go, Types, ThreadT, PlayerT
  <2>. QED
    BY <2>1, <2>2, <2>3 DEF TimeInv, Alive, Playing, At
<1>26. CASE Write
  <2>1. /\ At("write") /\ UNCHANGED handle /\ thread'.pc = "top"
        /\ seen'.raced = seen.raced
        /\ player'.state = player.state /\ player'.drop = player.drop
    BY <1>26 DEF Write, Types, ThreadT, PlayerT, Seen
  <2>2. player.state # "STOP" /\ (~seen.raced => ~player.drop)
    BY <2>1 DEF LifeInv, CurInv, Busy, At
  <2>3. player'.cacheLen = Len(thread'.buf)
    BY <1>26 DEF Write, LeftInHand, Types, ThreadT, PlayerT
  <2>. QED
    BY <2>1, <2>2, <2>3 DEF TimeInv, Alive, Playing, At
<1>27. CASE ReadFails
  <2>1. At("read") /\ thread'.pc = "exit" /\ UNCHANGED player
    BY <1>27 DEF ReadFails, Types, ThreadT
  <2>2. player.state # "STOP"
    BY <2>1 DEF LifeInv, At
  <2>. QED
    BY <2>1, <2>2 DEF TimeInv, Alive, Playing, At
<1>. QED
  BY <1>1, <1>2, <1>3, <1>4, <1>5, <1>6, <1>7, <1>8, <1>9, <1>10, <1>11, <1>12, <1>13,
     <1>14, <1>15, <1>16, <1>17, <1>18, <1>19, <1>20, <1>21, <1>22, <1>23, <1>24,
     <1>25, <1>26, <1>27, <1>28 DEF Next, Thread

(* What a step does not touch of the chain.                                *)
LEMMA ChainFrame ==
  ASSUME ChainInv, UNCHANGED <<size, list, handle>>, Expected' = Expected, Kept' = Kept,
         seen'.raced = seen.raced, Positioned' => Positioned
  PROVE  ChainInv'
<1>1. Openable' = Openable
  BY DEF Openable
<1>. QED
  BY <1>1 DEF ChainInv

(* Nor has a step that leaves what the decoder has and what is in hand.    *)
LEMMA ChainQuiet ==
  ASSUME ChainInv, UNCHANGED <<size, list, handle>>,
         seen'.at = seen.at, seen'.fresh = seen.fresh, seen'.raced = seen.raced,
         thread'.buf = thread.buf, player'.drop = player.drop,
         Positioned' => Positioned
  PROVE  ChainInv'
<1>1. Expected' = Expected /\ Kept' = Kept
  BY DEF Expected, Kept
<1>. QED
  BY <1>1, ChainFrame

(* The recorder changes what comes, a removal what has gone.               *)
LEMMA ChainLater ==
  ASSUME Types, ListInv, ChainInv, UNCHANGED <<handle, player, thread>>,
         seen'.at = seen.at, seen'.fresh = seen.fresh,
         ~seen'.raced => ~seen.raced, Positioned' => Positioned,
         \A s \in Segments : s < Newest => size'[s] = size[s],
         list' \subseteq Segments, \A s \in list' : s \in list \/ s >= Newest
  PROVE  ChainInv'
<1>. SUFFICES ASSUME Positioned', ~seen'.raced, handle' # NoHandle
              PROVE  /\ Expected'.seg \in Segments
                     /\ ChainIn(size', Openable', Expected', Kept', handle')
  BY DEF ChainInv
<1>1. Expected' = Expected /\ Kept' = Kept /\ handle' = handle
  BY DEF Expected, Kept
<1>2. Expected.seg \in Segments /\ ChainIn(size, Openable, Expected, Kept, handle)
  BY <1>1 DEF ChainInv
<1>3. /\ Openable \subseteq Nat /\ Openable' \subseteq Nat
      /\ \A s \in Openable' : s \in Openable \/ s >= Newest
  BY SegmentsAre DEF Openable, Types
<1>4. /\ Expected \in Place /\ handle \in Place /\ Kept \in Seq(Place)
      /\ Kept \in Seq(Unit)
  BY PlacesAre
<1>5. Newest \in Nat /\ handle.seg <= Newest
  BY NewestIs DEF ListInv
<1>6. \A i \in DOMAIN Kept : Kept[i].seg \in Segments /\ Kept[i].seg <= Newest
  <2>1. \A i \in DOMAIN Kept : Kept[i].seg <= Newest
    BY DEF Kept, ListInv
  <2>2. \A i \in DOMAIN Kept : Kept[i] \in Unit
    BY <1>4
  <2>. QED
    BY <2>1, <2>2 DEF Unit
<1>7. ChainIn(size', Openable', Expected, Kept, handle)
  BY <1>2, <1>3, <1>4, <1>5, <1>6, ChainStays
<1>. QED
  BY <1>1, <1>2, <1>7

(* With the file at the place that is expected and nothing in hand.        *)
LEMMA ChainStarts ==
  ASSUME NEW sz, NEW op, NEW e
  PROVE  ChainIn(sz, op, e, <<>>, e)
<1>1. Len(<<>>) = 0 /\ 2 .. 0 = {}
  OBVIOUS
<1>. QED
  BY <1>1 DEF ChainIn, IsIn, Behind

(* The least of two numbers when it is known.                              *)
LEMMA MinIs ==
  ASSUME NEW a \in Nat, NEW b \in Nat, a <= b
  PROVE  Min({a, b}) = a
BY MinOfTwo

(* Where the file is after a read.                                         *)
LEMMA Advanced ==
  ASSUME Types, BufInv, HandleInv, handle # NoHandle, thread.pc \in {"read", "reread"},
         Advance
  PROVE  handle' = [seg |-> handle.seg,
                    pos |-> handle.pos + (Len(Filled) - Len(thread.buf))]
<1>1. handle' = [handle EXCEPT !.pos = @ + Len(Filled) - Len(thread.buf)]
  BY DEF Advance
<1>2. Len(Filled) \in Nat /\ Len(thread.buf) \in Nat
  BY FilledIs
<1>3. handle.pos \in Nat
  BY Constants DEF Types, HandleT
<1>4. handle.pos + Len(Filled) - Len(thread.buf)
        = handle.pos + (Len(Filled) - Len(thread.buf))
  BY <1>2, <1>3
<1>. QED
  BY <1>1, <1>4 DEF Types, HandleT

(* A change of segment at the end of the file of the current segment goes  *)
(* to the first segment behind it that opens.                              *)
LEMMA ChangedNext ==
  ASSUME Types, ListInv, HandleInv, handle # NoHandle, handle.seg = player.cur,
         player.cur \in list, NextId # None
  PROVE  /\ NextId \in Nat /\ NextId > handle.seg
         /\ \A s \in Openable : s > handle.seg => NextId <= s
         /\ size[handle.seg] # 0
<1>1. player.open /\ player.open \in BOOLEAN
  BY DEF HandleInv, Types, PlayerT
<1>2. /\ NextId \in Next_(player.cur) /\ NextId \in Segments
      /\ \A s \in Next_(player.cur) \ Missing : NextId <= s
  BY NextIs
<1>3. /\ NextId > player.cur /\ NextId \in list
      /\ \A s \in list : s > player.cur => s \in Next_(player.cur)
  BY <1>1, <1>2, NextListed
<1>4. NextId \in Nat /\ NextId <= Newest /\ Newest \in Nat
  BY <1>2, <1>3, NewestIs, SegmentsAre
<1>5. handle.seg \in Segments /\ handle.seg \in Nat /\ handle.seg < Newest
  BY <1>3, <1>4, SegmentsAre DEF HandleInv
<1>6. size[handle.seg] > 0
  BY <1>5 DEF ListInv
<1>. QED
  BY <1>2, <1>3, <1>4, <1>6, Constants DEF Openable

(* A change that finds none: no segment behind the current one opens.      *)
LEMMA ChangedLast ==
  ASSUME Types, ListInv, HandleInv, handle # NoHandle, handle.seg = player.cur,
         player.cur \in list, NextId = None
  PROVE  \A s \in Openable : s <= handle.seg
<1>1. player.open /\ player.open \in BOOLEAN
  BY DEF HandleInv, Types, PlayerT
<1>2. Next_(player.cur) \ Missing = {}
  BY NextIs
<1>3. \A s \in list : s > player.cur => s \in Next_(player.cur)
  BY <1>1, NextListed
<1>4. \A s \in Openable : ~ (s > player.cur)
  BY <1>2, <1>3 DEF Openable
<1>5. player.cur \in Nat /\ \A s \in Openable : s \in Nat
  BY SegmentsAre DEF Openable, Types
<1>. QED
  BY <1>4, <1>5

(* What the decoder has, what is in hand and what is read next: a chain.   *)
LEMMA ChainNext ==
  ASSUME Types, ListInv, LifeInv, BufInv, HandleInv, StopInv, CurInv, ChainInv, [Next]_vars
  PROVE  ChainInv'
<1>1. CASE UNCHANGED vars
  <2>1. UNCHANGED <<size, list, handle, player, thread, seen, app>>
    BY <1>1 DEF vars
  <2>2. Positioned' => Positioned
    BY <2>1 DEF Positioned, Alive
  <2>. QED
    BY <2>1, <2>2, ChainQuiet
<1>2. CASE Grow
  <2>1. UNCHANGED <<handle, player, thread>>
    BY <1>2 DEF Grow
  <2>2. seen'.at = seen.at /\ seen'.fresh = seen.fresh /\ (~seen'.raced => ~seen.raced)
    BY <1>2 DEF Grow, Types, Seen
  <2>3. Positioned' => Positioned
    <3>1. UNCHANGED <<app, player, thread>>
      BY <1>2 DEF Grow
    <3>2. app.op = "seek" => app.seg \in Segments
      BY DEF ListInv, Openable, Types
    <3>3. ASSUME NEW s \in Segments PROVE size'[s] >= size[s]
      BY <1>2, Constants DEF Grow, Types
    <3>4. app.op = "seek" /\ app.pos > size'[app.seg] => app.pos > size[app.seg]
      <4>1. SUFFICES ASSUME app.op = "seek", app.pos > size'[app.seg]
                     PROVE  app.pos > size[app.seg]
        OBVIOUS
      <4>2. size'[app.seg] >= size[app.seg] /\ size[app.seg] \in Nat
        BY <3>2, <3>3, <4>1, Constants DEF Types
      <4>3. size'[app.seg] \in Nat /\ app.pos \in Nat
        BY <1>2, <3>2, <4>1, <4>2, Constants DEF Grow, Types, AppT
      <4>. QED
        BY <4>1, <4>2, <4>3
    <3>. QED
      BY <3>1, <3>4 DEF Positioned, Alive
  <2>4. \A s \in Segments : s < Newest => size'[s] = size[s]
    BY <1>2, NewestIs, SegmentsAre DEF Grow, Types
  <2>5. list' \subseteq Segments /\ \A s \in list' : s \in list \/ s >= Newest
    BY <1>2 DEF Grow, Types
  <2>. QED
    BY <2>1, <2>2, <2>3, <2>4, <2>5, ChainLater
<1>3. CASE AddSegment
  <2>1. UNCHANGED <<handle, player, thread>>
    BY <1>3 DEF AddSegment
  <2>2. seen'.at = seen.at /\ seen'.fresh = seen.fresh /\ (~seen'.raced => ~seen.raced)
    BY <1>3 DEF AddSegment, Types, Seen
  <2>3. Positioned' => Positioned
    BY <1>3 DEF AddSegment, Positioned, Alive, At
  <2>4. \A s \in Segments : s < Newest => size'[s] = size[s]
    BY <1>3 DEF AddSegment
  <2>5. list' \subseteq Segments /\ \A s \in list' : s \in list \/ s >= Newest
    <3>1. Newest \in Segments /\ Newest < MaxSegment
      BY <1>3, NewestIs DEF AddSegment
    <3>2. Newest + 1 \in Segments /\ Newest + 1 >= Newest
      BY <3>1, Constants DEF Segments
    <3>. QED
      BY <1>3, <3>2 DEF AddSegment, Types
  <2>. QED
    BY <2>1, <2>2, <2>3, <2>4, <2>5, ChainLater
<1>4. CASE Show
  <2>1. UNCHANGED <<size, list, handle>>
    BY <1>4 DEF Show
  <2>2. seen'.at = seen.at /\ seen'.fresh = seen.fresh /\ seen'.raced = seen.raced
    BY <1>4 DEF Show, Types, Seen
  <2>3. player'.drop = player.drop
    BY <1>4 DEF Show, Types, PlayerT
  <2>4. thread'.buf = thread.buf
    BY <1>4 DEF Show, Types, ThreadT
  <2>5. Positioned' => Positioned
    BY <1>4 DEF Show, Positioned, Alive, At
  <2>. QED
    BY <2>1, <2>2, <2>3, <2>4, <2>5, ChainQuiet
<1>5. CASE FirstFrame
  <2>1. UNCHANGED <<size, list, handle>>
    BY <1>5 DEF FirstFrame
  <2>2. seen'.at = seen.at /\ seen'.fresh = seen.fresh /\ seen'.raced = seen.raced
    BY <1>5 DEF FirstFrame, Types, Seen
  <2>3. player'.drop = player.drop
    BY <1>5 DEF FirstFrame, Types, PlayerT
  <2>4. thread'.buf = thread.buf
    BY <1>5 DEF FirstFrame, Types, ThreadT
  <2>5. Positioned' => Positioned
    BY <1>5 DEF FirstFrame, Positioned, Alive, At, Types, PlayerT
  <2>. QED
    BY <2>1, <2>2, <2>3, <2>4, <2>5, ChainQuiet
<1>6. CASE Start
  <2>1. player.state = "STOP" /\ app.op = "none" /\ UNCHANGED <<size, list, handle, seen>>
    BY <1>6 DEF Start, Calls, Idle
  <2>2. player'.drop = player.drop
    BY <1>6 DEF Start, Types, PlayerT
  <2>3. thread'.buf = <<>> /\ thread.buf = <<>>
    BY <1>6, <2>1 DEF Start, LifeInv, BufInv, At, NoThread
  <2>4. Positioned
    BY <2>1 DEF Positioned
  <2>. QED
    BY <2>1, <2>2, <2>3, <2>4, ChainQuiet
<1>7. CASE Pause
  <2>1. UNCHANGED <<size, list, handle>>
    BY <1>7 DEF Pause
  <2>2. seen'.at = seen.at /\ seen'.fresh = seen.fresh /\ seen'.raced = seen.raced
    BY <1>7 DEF Pause, Paused, Types, Seen
  <2>3. player'.drop = player.drop
    BY <1>7 DEF Pause, Paused, Types, PlayerT
  <2>4. thread'.buf = thread.buf
    BY <1>7 DEF Pause, Paused, Types, ThreadT
  <2>5. Positioned' => Positioned
    BY <1>7 DEF Pause, Paused, Positioned, Alive, At, Types, PlayerT
  <2>. QED
    BY <2>1, <2>2, <2>3, <2>4, <2>5, ChainQuiet
<1>8. CASE Resume
  <2>1. UNCHANGED <<size, list, handle>>
    BY <1>8 DEF Resume
  <2>2. seen'.at = seen.at /\ seen'.fresh = seen.fresh /\ seen'.raced = seen.raced
    BY <1>8 DEF Resume, Types, Seen
  <2>3. player'.drop = player.drop
    BY <1>8 DEF Resume, Types, PlayerT
  <2>4. thread'.buf = thread.buf
    BY <1>8 DEF Resume, Types, ThreadT
  <2>5. Positioned' => Positioned
    BY <1>8 DEF Resume, Positioned, Alive, At, Types, PlayerT
  <2>. QED
    BY <2>1, <2>2, <2>3, <2>4, <2>5, ChainQuiet
<1>9. CASE StopAsk
  <2>1. UNCHANGED <<size, list, handle>>
    BY <1>9 DEF StopAsk
  <2>2. seen'.at = seen.at /\ seen'.fresh = seen.fresh /\ seen'.raced = seen.raced
    BY <1>9 DEF StopAsk, Types, Seen
  <2>3. player'.drop = player.drop
    BY <1>9 DEF StopAsk, Types, PlayerT
  <2>4. thread'.buf = thread.buf
    BY <1>9 DEF StopAsk, Types, ThreadT
  <2>5. Positioned' => Positioned
    BY <1>9 DEF StopAsk, Positioned, Alive, At, Types, PlayerT
  <2>. QED
    BY <2>1, <2>2, <2>3, <2>4, <2>5, ChainQuiet
<1>10. CASE Join
  <2>1. ~Positioned'
    <3>1. thread'.pc = "none" /\ player' = player
      BY <1>10 DEF Join, NoThread
    <3>2. player.state # "STOP"
      BY <1>10 DEF Join, LifeInv
    <3>. QED
      BY <3>1, <3>2 DEF Positioned, Alive
  <2>. QED
    BY <2>1 DEF ChainInv
<1>11. CASE Stop
  <2>1. handle' = NoHandle
    BY <1>11 DEF Stop
  <2>. QED
    BY <2>1 DEF ChainInv, NoHandle
<1>12. CASE SeekRefused
  <2>1. UNCHANGED <<size, list, handle>>
    BY <1>12 DEF SeekRefused
  <2>2. seen'.at = seen.at /\ seen'.fresh = seen.fresh /\ seen'.raced = seen.raced
    BY <1>12 DEF SeekRefused, Types, Seen
  <2>3. player'.drop = player.drop
    BY <1>12 DEF SeekRefused, Types, PlayerT
  <2>4. thread'.buf = thread.buf
    BY <1>12 DEF SeekRefused, Types, ThreadT
  <2>5. Positioned' => Positioned
    BY <1>12 DEF SeekRefused, Positioned, Alive, At
  <2>. QED
    BY <2>1, <2>2, <2>3, <2>4, <2>5, ChainQuiet
<1>13. CASE SeekFile
  <2>. DEFINE p == Min({app.pos, size[app.seg]})
              r == Min({p, size[handle.seg]})
  <2>1. /\ app.seg \in Segments /\ app.pos \in Nat /\ size[app.seg] \in Nat
    BY <1>13, Constants DEF SeekFile, ListInv, Openable, AppT, Types
  <2>2. p \in Nat /\ p <= size[app.seg]
    BY <2>1, MinOfTwo
  <2>3. seen'.at = [seg |-> app.seg, pos |-> p] /\ seen'.fresh = TRUE
    BY <1>13 DEF SeekFile, Types, Seen
  <2>4. seen'.raced = (Busy \/ At("first") \/ (Alive /\ handle.seg # app.seg))
    BY <1>13 DEF SeekFile, Types, Seen
  <2>5. handle'.seg = handle.seg /\ handle'.pos = r /\ handle' = [handle EXCEPT !.pos = r]
    BY <1>13 DEF SeekFile, Types, HandleT
  <2>6. player'.drop = TRUE /\ player'.state = player.state /\ UNCHANGED thread
    BY <1>13 DEF SeekFile, Sought, Types, PlayerT
  <2>. SUFFICES ASSUME Positioned', ~seen'.raced
                PROVE  /\ Expected'.seg \in Segments
                       /\ ChainIn(size', Openable', Expected', Kept', handle')
    BY DEF ChainInv
  <2>7. handle.seg = app.seg
    <3>1. CASE Alive
      BY <2>4, <3>1
    <3>2. CASE ~Alive
      <4>1. player.state = "STOP"
        BY <2>6, <3>2 DEF Positioned, Alive
      <4>. QED
        BY <1>13, <4>1 DEF SeekFile, StopInv
    <3>. QED
      BY <3>1, <3>2
  <2>. HIDE DEF p
  <2>8. r = p
    BY <2>1, <2>2, <2>7, MinIs
  <2>9. handle' = [seg |-> app.seg, pos |-> p]
    BY <2>5, <2>7, <2>8 DEF Types, HandleT
  <2>10. Expected' = handle' /\ Kept' = <<>>
    BY <2>3, <2>6, <2>9 DEF Expected, Kept
  <2>. QED
    BY <2>1, <2>9, <2>10, ChainStarts
<1>14. ASSUME NEW s \in Segments, NEW p \in 0 .. MaxUnit + 1, SeekOpen(s, p)
      PROVE  ChainInv'
  <2>1. CASE player.open /\ player.cur = s
    <3>1. UNCHANGED <<size, list, handle, seen, thread, player>> /\ app.op = "none"
      BY <1>14, <2>1 DEF SeekOpen, Calls, Idle
    <3>2. Positioned' => Positioned
      BY <3>1 DEF Positioned, Alive
    <3>. QED
      BY <3>1, <3>2, ChainQuiet
  <2>2. CASE ~ (player.open /\ player.cur = s)
    <3>1. /\ seen'.raced = Alive /\ thread' = thread /\ size' = size
          /\ app' = [op |-> "seek", seg |-> s, pos |-> p] /\ p <= size[s]
      BY <1>14, <2>2 DEF SeekOpen, Types, Seen
    <3>2. ~ (app'.pos > size'[app'.seg])
      BY <3>1, Constants DEF Types
    <3>. QED
      BY <3>1, <3>2 DEF ChainInv, Positioned, Alive
  <2>. QED
    BY <2>1, <2>2
<1>15. ASSUME NEW s \in Segments, RemoveLook(s)
      PROVE  ChainInv'
  <2>1. UNCHANGED <<size, list, handle>>
    BY <1>15 DEF RemoveLook
  <2>2. seen'.at = seen.at /\ seen'.fresh = seen.fresh /\ seen'.raced = seen.raced
    BY <1>15 DEF RemoveLook, Types, Seen
  <2>3. player'.drop = player.drop
    BY <1>15 DEF RemoveLook, Types, PlayerT
  <2>4. thread'.buf = thread.buf
    BY <1>15 DEF RemoveLook, Types, ThreadT
  <2>5. Positioned' => Positioned
    BY <1>15 DEF RemoveLook, Calls, Idle, Positioned, Alive, At
  <2>. QED
    BY <2>1, <2>2, <2>3, <2>4, <2>5, ChainQuiet
<1>16. CASE RemoveDone
  <2>1. UNCHANGED <<handle, player, thread>>
    BY <1>16 DEF RemoveDone
  <2>2. seen'.at = seen.at /\ seen'.fresh = seen.fresh /\ (~seen'.raced => ~seen.raced)
    BY <1>16 DEF RemoveDone, Types, Seen
  <2>3. Positioned' => Positioned
    BY <1>16 DEF RemoveDone, Idle, Positioned, Alive, At
  <2>4. \A s \in Segments : s < Newest => size'[s] = size[s]
    BY <1>16 DEF RemoveDone
  <2>5. list' \subseteq Segments /\ \A s \in list' : s \in list \/ s >= Newest
    BY <1>16 DEF RemoveDone, Types
  <2>. QED
    BY <2>1, <2>2, <2>3, <2>4, <2>5, ChainLater
<1>17. CASE Begin
  <2>1. /\ UNCHANGED <<size, list, player, handle, seen>> /\ Alive /\ Positioned
        /\ thread'.buf = thread.buf
    BY <1>17 DEF Begin, Go, Types, ThreadT, Positioned, Alive, At
  <2>. QED
    BY <2>1, ChainQuiet
<1>28. CASE FirstSegment
  <2>1. /\ At("first") /\ UNCHANGED <<size, list>> /\ Alive /\ Positioned
        /\ seen'.raced = seen.raced /\ thread'.buf = thread.buf
    BY <1>28 DEF FirstSegment, Go, Types, ThreadT, Seen, Positioned, Alive, At
  <2>2. CASE player.open
    BY <2>1, <2>2 DEF ChainInv, CurInv
  <2>3. CASE ~player.open
    <3>1. Changed /\ handle = NoHandle
      BY <1>28, <2>3 DEF FirstSegment, HandleInv
    <3>2. seen'.at = [seg |-> NextId, pos |-> 0] /\ seen'.fresh = TRUE
      BY <1>28, <2>3 DEF FirstSegment, Types, Seen
    <3>3. CASE NextId = None
      <4>1. handle' = NoHandle
        BY <3>1, <3>3, ChangedIs
      <4>. QED
        BY <4>1 DEF ChainInv, NoHandle
    <3>4. CASE NextId # None
      <4>1. handle' = [seg |-> NextId, pos |-> 0] /\ NextId \in Segments
        BY <3>1, <3>4, ChangedIs, NextIs
      <4>2. Expected' = handle' /\ Expected'.seg \in Segments
        BY <3>2, <4>1 DEF Expected
      <4>3. Kept' = <<>>
        BY <2>1 DEF Kept, BufInv, At
      <4>. QED
        BY <4>2, <4>3, ChainStarts DEF ChainInv
    <3>. QED
      BY <3>3, <3>4
  <2>. QED
    BY <2>2, <2>3
<1>18. CASE Leave
  <2>1. ~Positioned'
    <3>1. thread'.pc = "exit" /\ player' = player
      BY <1>18 DEF Leave, Types, ThreadT
    <3>2. player.state # "STOP"
      BY <1>18 DEF Leave, LifeInv, At
    <3>. QED
      BY <3>1, <3>2 DEF Positioned, Alive
  <2>. QED
    BY <2>1 DEF ChainInv
<1>19. CASE Head_
  <2>1. /\ UNCHANGED <<size, list, handle, seen>> /\ Alive
        /\ player'.drop = FALSE
    BY <1>19 DEF Head_, Alive, At, Types, PlayerT
  <2>2. ASSUME player.drop PROVE Kept' = Kept
    <3>1. thread'.buf = <<>>
      BY <1>19, <2>2 DEF Head_, Types, ThreadT
    <3>. QED
      BY <2>1, <2>2, <3>1 DEF Kept
  <2>3. ASSUME ~player.drop PROVE Kept' = Kept
    <3>1. thread'.buf = thread.buf
      BY <1>19, <2>3 DEF Head_, Go, Types, ThreadT
    <3>. QED
      BY <2>1, <2>3, <3>1 DEF Kept
  <2>4. Kept' = Kept
    BY <2>2, <2>3
  <2>5. Expected' = Expected /\ Positioned
    BY <2>1 DEF Expected, Positioned
  <2>. QED
    BY <2>1, <2>4, <2>5, ChainFrame
<1>20. CASE Read
  <2>1. At("read") /\ Advance /\ UNCHANGED <<size, list>> /\ Busy /\ Positioned
    BY <1>20 DEF Read, Busy, Positioned, Alive, At
  <2>2. seen'.at = seen.at /\ seen'.fresh = seen.fresh /\ seen'.raced = seen.raced
    BY <1>20 DEF Read, WithData, Go, Types, Seen
  <2>3. player'.drop = player.drop
    BY <1>20 DEF Read, Types, PlayerT
  <2>4. thread'.buf = Filled
    BY <1>20 DEF Read, WithData, Go, Types, ThreadT
  <2>. SUFFICES ASSUME ~seen'.raced, handle' # NoHandle
                PROVE  /\ Expected'.seg \in Segments
                       /\ ChainIn(size', Openable', Expected', Kept', handle')
    BY DEF ChainInv
  <2>5. Kept = thread.buf /\ Kept' = Filled
    BY <2>1, <2>2, <2>3, <2>4 DEF CurInv, Kept
  <2>6. Expected' = Expected /\ Openable' = Openable
    BY <2>1, <2>2 DEF Expected, Openable
  <2>7. handle # NoHandle
    BY <2>1 DEF Advance
  <2>8. /\ Expected.seg \in Segments
        /\ ChainIn(size, Openable, Expected, thread.buf, handle)
    BY <2>1, <2>2, <2>5, <2>7 DEF ChainInv
  <2>9. handle' = [seg |-> handle.seg, pos |-> handle.pos + (Len(Filled) - Len(thread.buf))]
    BY <2>1, <2>7, Advanced DEF At
  <2>10. ChainIn(size, Openable, Expected, Filled, handle')
    <3>1. Expected \in Place
      BY PlacesAre
    <3>. QED
      BY <2>1, <2>7, <2>8, <2>9, <3>1, FilledIs DEF At
  <2>. QED
    BY <2>1, <2>5, <2>6, <2>8, <2>10
<1>21. CASE Change
  <2>1. At("change") /\ Changed /\ UNCHANGED <<size, list, seen>> /\ Positioned
    BY <1>21 DEF Change, Positioned, Alive, At
  <2>2. thread'.buf = thread.buf
    BY <1>21 DEF Change, Go, Types, ThreadT
  <2>3. player'.drop = player.drop
    BY <2>1, ChangedIs DEF Types, PlayerT
  <2>4. CASE UNCHANGED <<player, handle>>
    BY <2>1, <2>2, <2>3, <2>4, ChainQuiet
  <2>5. CASE handle' = NoHandle
    BY <2>5 DEF ChainInv, NoHandle
  <2>6. CASE NextId # None /\ handle' = [seg |-> NextId, pos |-> 0]
    <3>. SUFFICES ASSUME ~seen.raced
                  PROVE  /\ Expected'.seg \in Segments
                         /\ ChainIn(size', Openable', Expected', Kept', handle')
      BY <2>1 DEF ChainInv
    <3>1. handle # NoHandle
      BY <2>1 DEF HandleInv, At
    <3>2. /\ handle.seg = player.cur /\ player.cur \in list
          /\ handle.pos = size[handle.seg]
      BY <2>1, <3>1 DEF CurInv, Alive, At
    <3>3. /\ NextId \in Nat /\ NextId > handle.seg
          /\ \A s \in Openable : s > handle.seg => NextId <= s
          /\ size[handle.seg] # 0
      BY <2>6, <3>1, <3>2, ChangedNext
    <3>4. /\ Expected.seg \in Segments
          /\ ChainIn(size, Openable, Expected, Kept, handle)
      BY <2>1, <3>1 DEF ChainInv
    <3>5. Expected \in Place /\ handle \in Place /\ Kept \in Seq(Place)
      BY PlacesAre
    <3>6. Openable \subseteq Nat
      BY SegmentsAre DEF Openable, Types
    <3>7. ChainIn(size, Openable, Expected, Kept, [seg |-> NextId, pos |-> 0])
      BY <3>2, <3>3, <3>4, <3>5, <3>6, ChainMoves
    <3>8. Expected' = Expected /\ Openable' = Openable /\ Kept' = Kept
      BY <2>1, <2>2, <2>3 DEF Expected, Openable, Kept
    <3>. QED
      BY <2>1, <2>6, <3>4, <3>7, <3>8
  <2>. QED
    BY <2>1, <2>4, <2>5, <2>6, ChangedIs
<1>22. CASE Reread
  <2>1. At("reread") /\ Advance /\ UNCHANGED <<size, list>> /\ Busy /\ Positioned
    BY <1>22 DEF Reread, Busy, Positioned, Alive, At
  <2>2. seen'.at = seen.at /\ seen'.fresh = seen.fresh /\ seen'.raced = seen.raced
    BY <1>22 DEF Reread, Go, Types, Seen
  <2>3. player'.drop = player.drop
    BY <1>22 DEF Reread, Types, PlayerT
  <2>4. thread'.buf = Filled
    BY <1>22 DEF Reread, Go, Types, ThreadT
  <2>. SUFFICES ASSUME ~seen'.raced, handle' # NoHandle
                PROVE  /\ Expected'.seg \in Segments
                       /\ ChainIn(size', Openable', Expected', Kept', handle')
    BY DEF ChainInv
  <2>5. Kept = thread.buf /\ Kept' = Filled
    BY <2>1, <2>2, <2>3, <2>4 DEF CurInv, Kept
  <2>6. Expected' = Expected /\ Openable' = Openable
    BY <2>1, <2>2 DEF Expected, Openable
  <2>7. handle # NoHandle
    BY <2>1 DEF Advance
  <2>8. /\ Expected.seg \in Segments
        /\ ChainIn(size, Openable, Expected, thread.buf, handle)
    BY <2>1, <2>2, <2>5, <2>7 DEF ChainInv
  <2>9. handle' = [seg |-> handle.seg, pos |-> handle.pos + (Len(Filled) - Len(thread.buf))]
    BY <2>1, <2>7, Advanced DEF At
  <2>10. ChainIn(size, Openable, Expected, Filled, handle')
    <3>1. Expected \in Place
      BY PlacesAre
    <3>. QED
      BY <2>1, <2>7, <2>8, <2>9, <3>1, FilledIs DEF At
  <2>. QED
    BY <2>1, <2>5, <2>6, <2>8, <2>10
<1>23. CASE NothingNext
  <2>1. UNCHANGED <<size, list, handle>>
    BY <1>23 DEF NothingNext
  <2>2. seen'.at = seen.at /\ seen'.fresh = seen.fresh /\ seen'.raced = seen.raced
    BY <1>23 DEF NothingNext, Types, Seen
  <2>3. player'.drop = player.drop
    BY <1>23 DEF NothingNext, Types, PlayerT
  <2>4. thread'.buf = thread.buf
    BY <1>23 DEF NothingNext, Types, ThreadT
  <2>5. Positioned' => Positioned
    BY <1>23 DEF NothingNext, Positioned, Alive, At
  <2>. QED
    BY <2>1, <2>2, <2>3, <2>4, <2>5, ChainQuiet
<1>24. CASE EndPause
  <2>1. UNCHANGED <<size, list, handle>>
    BY <1>24 DEF EndPause
  <2>2. seen'.at = seen.at /\ seen'.fresh = seen.fresh /\ seen'.raced = seen.raced
    BY <1>24 DEF EndPause, Paused, Go, Types, Seen
  <2>3. player'.drop = player.drop
    BY <1>24 DEF EndPause, Paused, Go, Types, PlayerT
  <2>4. thread'.buf = thread.buf
    BY <1>24 DEF EndPause, Paused, Go, Types, ThreadT
  <2>5. Positioned' => Positioned
    BY <1>24 DEF EndPause, Positioned, Alive, At
  <2>. QED
    BY <2>1, <2>2, <2>3, <2>4, <2>5, ChainQuiet
<1>25. CASE Drop
  <2>1. /\ UNCHANGED <<size, list, handle, seen>> /\ Alive
        /\ player'.drop = FALSE
    BY <1>25 DEF Drop, Alive, At, Types, PlayerT
  <2>2. ASSUME player.drop PROVE Kept' = Kept
    <3>1. thread'.buf = <<>>
      BY <1>25, <2>2 DEF Drop, Types, ThreadT
    <3>. QED
      BY <2>1, <2>2, <3>1 DEF Kept
  <2>3. ASSUME ~player.drop PROVE Kept' = Kept
    <3>1. thread'.buf = thread.buf
      BY <1>25, <2>3 DEF Drop, Go, Types, ThreadT
    <3>. QED
      BY <2>1, <2>3, <3>1 DEF Kept
  <2>4. Kept' = Kept
    BY <2>2, <2>3
  <2>5. Expected' = Expected /\ Positioned
    BY <2>1 DEF Expected, Positioned
  <2>. QED
    BY <2>1, <2>4, <2>5, ChainFrame
<1>26. CASE Write
  <2>1. At("write") /\ UNCHANGED <<size, list, handle>> /\ Positioned
    BY <1>26 DEF Write, Positioned, Alive, At
  <2>2. player'.drop = player.drop
    BY <1>26 DEF Write, Types, PlayerT
  <2>3. CASE Fits
    <3>1. seen'.at = Last(thread.buf) /\ seen'.fresh = FALSE /\ seen'.raced = seen.raced
      BY <1>26, <2>3 DEF Write, Types, Seen
    <3>2. thread'.buf = <<>>
      BY <1>26, <2>3 DEF Write, Types, ThreadT
    <3>. SUFFICES ASSUME ~seen.raced, handle # NoHandle
                  PROVE  /\ Expected'.seg \in Segments
                         /\ ChainIn(size', Openable', Expected', Kept', handle')
      BY <2>1, <3>1 DEF ChainInv
    <3>3. Kept = thread.buf /\ Kept' = <<>>
      BY <2>1, <2>2, <3>2 DEF CurInv, Busy, At, Kept
    <3>4. ChainIn(size, Openable, Expected, thread.buf, handle)
      BY <2>1, <3>3 DEF ChainInv
    <3>5. thread.buf # <<>> /\ Last(thread.buf) \in Unit
      <4>1. Len(thread.buf) = Block /\ thread.buf \in Seq(Unit)
        BY <2>1, LengthOfBuf DEF BufInv, At
      <4>2. Len(thread.buf) \in 1 .. Len(thread.buf)
        BY <4>1, Constants
      <4>. QED
        BY <4>1, <4>2 DEF Last
    <3>6. Expected' = Succ(Last(thread.buf)) /\ Openable' = Openable
      BY <2>1, <3>1 DEF Expected, Openable
    <3>7. Expected'.seg \in Segments
      BY <3>5, <3>6 DEF Succ, Unit
    <3>. QED
      BY <2>1, <3>3, <3>4, <3>5, <3>6, <3>7, ChainWritten
  <2>4. CASE ~Fits
    <3>1. thread'.buf = thread.buf /\ seen' = seen
      BY <1>26, <2>4 DEF Write, Types, ThreadT
    <3>. QED
      BY <2>1, <2>2, <3>1, ChainQuiet
  <2>. QED
    BY <2>3, <2>4
<1>27. CASE ReadFails
  <2>1. ~Positioned'
    <3>1. thread'.pc = "exit" /\ player' = player
      BY <1>27 DEF ReadFails, Types, ThreadT
    <3>2. player.state # "STOP"
      BY <1>27 DEF ReadFails, LifeInv, At
    <3>. QED
      BY <3>1, <3>2 DEF Positioned, Alive
  <2>. QED
    BY <2>1 DEF ChainInv
<1>. QED
  BY <1>1, <1>2, <1>3, <1>4, <1>5, <1>6, <1>7, <1>8, <1>9, <1>10, <1>11, <1>12, <1>13,
     <1>14, <1>15, <1>16, <1>17, <1>18, <1>19, <1>20, <1>21, <1>22, <1>23, <1>24,
     <1>25, <1>26, <1>27, <1>28 DEF Next, Thread

(* A chain is what the properties of DvrPlayback call a sequence.          *)
LEMMA ChainInSequence ==
  ASSUME Types, NEW h, NEW buf \in Seq(Unit), buf # <<>>,
         ChainIn(size, Openable, Expected, buf, h)
  PROVE  InSequence(buf)
<1>1. ASSUME NEW u \in Place, NEW v
      PROVE  /\ IsIn(size, Openable, u, v) => Is(u, v)
             /\ IsIn(size, Openable, Succ(u), v) => Follows(u, v)
  <2>1. Succ(u) = [u EXCEPT !.pos = @ + 1]
    BY DEF Succ, Place
  <2>. QED
    BY <2>1 DEF IsIn, Is, Follows
<1>2. IF seen.fresh THEN Is(seen.at, buf[1]) ELSE Follows(seen.at, buf[1])
  <2>1. IsIn(size, Openable, Expected, buf[1])
    BY DEF ChainIn
  <2>2. seen.at \in Place
    BY PlacesAre
  <2>3. CASE seen.fresh
    <3>1. IsIn(size, Openable, seen.at, buf[1])
      BY <2>1, <2>3 DEF Expected
    <3>. QED
      BY <1>1, <2>2, <2>3, <3>1
  <2>4. CASE ~seen.fresh
    <3>1. IsIn(size, Openable, Succ(seen.at), buf[1])
      BY <2>1, <2>4 DEF Expected
    <3>. QED
      BY <1>1, <2>2, <2>4, <3>1
  <2>. QED
    BY <2>3, <2>4
<1>3. ASSUME NEW i \in 2 .. Len(buf) PROVE Follows(buf[i - 1], buf[i])
  <2>1. i - 1 \in 1 .. Len(buf)
    OBVIOUS
  <2>2. buf[i - 1] \in Place
    BY <2>1, PlacesAre
  <2>3. IsIn(size, Openable, Succ(buf[i - 1]), buf[i])
    BY DEF ChainIn
  <2>. QED
    BY <1>1, <2>2, <2>3
<1>. QED
  BY <1>2, <1>3 DEF InSequence

(* What a step does not touch of the end.                                  *)
LEMMA EndFrame ==
  ASSUME EndInv, UNCHANGED <<size, list>>,
         thread'.pc = thread.pc \/ (thread.pc = "end" /\ thread'.pc = "endpause"),
         thread'.buf = thread.buf,
         seen'.at = seen.at, seen'.fresh = seen.fresh, seen'.raced = seen.raced,
         seen'.moved = seen.moved
  PROVE  EndInv'
<1>. SUFFICES ASSUME thread'.pc \in {"end", "endpause"}, ~seen'.raced, ~seen'.moved
              PROVE  AllGiven'
  BY DEF EndInv
<1>1. AllGiven
  BY DEF EndInv
<1>2. Expected' = Expected /\ Openable' = Openable
  BY DEF Expected, Openable
<1>3. InSequence(thread.buf) => InSequence(thread.buf)'
  BY <1>2 DEF InSequence, Follows, Is
<1>. QED
  BY <1>1, <1>2, <1>3 DEF AllGiven

(* At the end everything has been given.                                   *)
LEMMA EndNext ==
  ASSUME Types, ListInv, LifeInv, BufInv, HandleInv, CurInv, ChainInv, EndInv, [Next]_vars
  PROVE  EndInv'
<1>1. CASE UNCHANGED vars
  <2>1. UNCHANGED <<size, list, thread, seen>>
    BY <1>1 DEF vars
  <2>. QED
    BY <2>1, EndFrame
<1>2. CASE Grow
  <2>1. seen'.moved = TRUE
    BY <1>2 DEF Grow, Types, Seen
  <2>. QED
    BY <2>1 DEF EndInv
<1>3. CASE AddSegment
  <2>1. seen'.moved = TRUE
    BY <1>3 DEF AddSegment, Types, Seen
  <2>. QED
    BY <2>1 DEF EndInv
<1>4. CASE Show
  <2>1. UNCHANGED <<size, list>>
    BY <1>4 DEF Show
  <2>2. /\ seen'.at = seen.at /\ seen'.fresh = seen.fresh /\ seen'.raced = seen.raced
        /\ seen'.moved = seen.moved
    BY <1>4 DEF Show, Types, Seen
  <2>3. thread'.buf = thread.buf
    BY <1>4 DEF Show, Types, ThreadT
  <2>4. thread'.pc = thread.pc \/ (thread.pc = "end" /\ thread'.pc = "endpause")
    BY <1>4 DEF Show
  <2>. QED
    BY <2>1, <2>2, <2>3, <2>4, EndFrame
<1>5. CASE FirstFrame
  <2>1. UNCHANGED <<size, list>>
    BY <1>5 DEF FirstFrame
  <2>2. /\ seen'.at = seen.at /\ seen'.fresh = seen.fresh /\ seen'.raced = seen.raced
        /\ seen'.moved = seen.moved
    BY <1>5 DEF FirstFrame, Types, Seen
  <2>3. thread'.buf = thread.buf
    BY <1>5 DEF FirstFrame, Types, ThreadT
  <2>4. thread'.pc = thread.pc \/ (thread.pc = "end" /\ thread'.pc = "endpause")
    BY <1>5 DEF FirstFrame
  <2>. QED
    BY <2>1, <2>2, <2>3, <2>4, EndFrame
<1>6. CASE Start
  <2>1. thread'.pc = "start"
    BY <1>6 DEF Start, LifeInv, NoThread
  <2>. QED
    BY <2>1 DEF EndInv
<1>7. CASE Pause
  <2>1. UNCHANGED <<size, list>>
    BY <1>7 DEF Pause
  <2>2. /\ seen'.at = seen.at /\ seen'.fresh = seen.fresh /\ seen'.raced = seen.raced
        /\ seen'.moved = seen.moved
    BY <1>7 DEF Pause, Types, Seen
  <2>3. thread'.buf = thread.buf
    BY <1>7 DEF Pause, Types, ThreadT
  <2>4. thread'.pc = thread.pc \/ (thread.pc = "end" /\ thread'.pc = "endpause")
    BY <1>7 DEF Pause
  <2>. QED
    BY <2>1, <2>2, <2>3, <2>4, EndFrame
<1>8. CASE Resume
  <2>1. UNCHANGED <<size, list>>
    BY <1>8 DEF Resume
  <2>2. /\ seen'.at = seen.at /\ seen'.fresh = seen.fresh /\ seen'.raced = seen.raced
        /\ seen'.moved = seen.moved
    BY <1>8 DEF Resume, Types, Seen
  <2>3. thread'.buf = thread.buf
    BY <1>8 DEF Resume, Types, ThreadT
  <2>4. thread'.pc = thread.pc \/ (thread.pc = "end" /\ thread'.pc = "endpause")
    BY <1>8 DEF Resume
  <2>. QED
    BY <2>1, <2>2, <2>3, <2>4, EndFrame
<1>9. CASE StopAsk
  <2>1. UNCHANGED <<size, list>>
    BY <1>9 DEF StopAsk
  <2>2. /\ seen'.at = seen.at /\ seen'.fresh = seen.fresh /\ seen'.raced = seen.raced
        /\ seen'.moved = seen.moved
    BY <1>9 DEF StopAsk, Types, Seen
  <2>3. thread'.buf = thread.buf
    BY <1>9 DEF StopAsk, Types, ThreadT
  <2>4. thread'.pc = thread.pc \/ (thread.pc = "end" /\ thread'.pc = "endpause")
    BY <1>9 DEF StopAsk
  <2>. QED
    BY <2>1, <2>2, <2>3, <2>4, EndFrame
<1>10. CASE Join
  <2>1. thread'.pc = "none"
    BY <1>10 DEF Join, NoThread
  <2>. QED
    BY <2>1 DEF EndInv
<1>11. CASE Stop
  <2>1. At("none") /\ thread' = thread
    BY <1>11 DEF Stop, LifeInv
  <2>. QED
    BY <2>1 DEF EndInv, At
<1>12. CASE SeekRefused
  <2>1. UNCHANGED <<size, list>>
    BY <1>12 DEF SeekRefused
  <2>2. /\ seen'.at = seen.at /\ seen'.fresh = seen.fresh /\ seen'.raced = seen.raced
        /\ seen'.moved = seen.moved
    BY <1>12 DEF SeekRefused, Types, Seen
  <2>3. thread'.buf = thread.buf
    BY <1>12 DEF SeekRefused, Types, ThreadT
  <2>4. thread'.pc = thread.pc \/ (thread.pc = "end" /\ thread'.pc = "endpause")
    BY <1>12 DEF SeekRefused
  <2>. QED
    BY <2>1, <2>2, <2>3, <2>4, EndFrame
<1>13. CASE SeekFile
  <2>1. seen'.moved = TRUE
    BY <1>13 DEF SeekFile, Types, Seen
  <2>. QED
    BY <2>1 DEF EndInv
<1>14. ASSUME NEW s \in Segments, NEW p \in 0 .. MaxUnit + 1, SeekOpen(s, p)
      PROVE  EndInv'
  <2>1. CASE player.open /\ player.cur = s
    <3>1. UNCHANGED <<size, list, thread, seen>>
      BY <1>14, <2>1 DEF SeekOpen
    <3>. QED
      BY <3>1, EndFrame
  <2>2. CASE ~ (player.open /\ player.cur = s)
    <3>1. seen'.raced = Alive /\ thread' = thread
      BY <1>14, <2>2 DEF SeekOpen, Types, Seen
    <3>. QED
      BY <3>1 DEF EndInv, Alive
  <2>. QED
    BY <2>1, <2>2
<1>15. ASSUME NEW s \in Segments, RemoveLook(s)
      PROVE  EndInv'
  <2>1. UNCHANGED <<size, list>>
    BY <1>15 DEF RemoveLook
  <2>2. /\ seen'.at = seen.at /\ seen'.fresh = seen.fresh /\ seen'.raced = seen.raced
        /\ seen'.moved = seen.moved
    BY <1>15 DEF RemoveLook, Types, Seen
  <2>3. thread'.buf = thread.buf
    BY <1>15 DEF RemoveLook, Types, ThreadT
  <2>4. thread'.pc = thread.pc \/ (thread.pc = "end" /\ thread'.pc = "endpause")
    BY <1>15 DEF RemoveLook
  <2>. QED
    BY <2>1, <2>2, <2>3, <2>4, EndFrame
<1>16. CASE RemoveDone
  <2>1. UNCHANGED <<size, thread>> /\ list' \subseteq list
    BY <1>16 DEF RemoveDone
  <2>2. /\ seen'.at = seen.at /\ seen'.fresh = seen.fresh /\ seen'.moved = seen.moved
        /\ (~seen'.raced => ~seen.raced)
    BY <1>16 DEF RemoveDone, Types, Seen
  <2>. SUFFICES ASSUME thread'.pc \in {"end", "endpause"}, ~seen'.raced, ~seen'.moved
                PROVE  AllGiven'
    BY DEF EndInv
  <2>3. AllGiven
    BY <2>1, <2>2 DEF EndInv
  <2>4. Expected' = Expected /\ Openable' \subseteq Openable
    BY <2>1, <2>2 DEF Expected, Openable
  <2>5. ASSUME NEW u, NEW v, Is(u, v) PROVE Is(u, v)'
    BY <2>1, <2>4, <2>5 DEF Is
  <2>6. InSequence(thread.buf) => InSequence(thread.buf)'
    <3>1. seen.fresh' = seen.fresh /\ seen.at' = seen.at
      BY <2>2
    <3>. QED
      BY <2>1, <2>5, <3>1 DEF InSequence, Follows
  <2>. QED
    BY <2>1, <2>3, <2>4, <2>6 DEF AllGiven
<1>17. CASE Begin
  <2>1. thread'.pc \in {"first", "top"}
    BY <1>17 DEF Begin, Go, Types, ThreadT
  <2>. QED
    BY <2>1 DEF EndInv
<1>28. CASE FirstSegment
  <2>1. thread'.pc \in {"top", "exit"}
    BY <1>28 DEF FirstSegment, Go, Types, ThreadT
  <2>. QED
    BY <2>1 DEF EndInv
<1>18. CASE Leave
  <2>1. thread'.pc \in {"exit"}
    BY <1>18 DEF Leave, Types, ThreadT
  <2>. QED
    BY <2>1 DEF EndInv
<1>19. CASE Head_
  <2>1. thread'.pc \in {"read", "drop"}
    BY <1>19 DEF Head_, Go, Types, ThreadT
  <2>. QED
    BY <2>1 DEF EndInv
<1>20. CASE Read
  <2>1. thread'.pc \in {"change", "drop", "top"}
    BY <1>20 DEF Read, Go, WithData, Types, ThreadT
  <2>. QED
    BY <2>1 DEF EndInv
<1>21. CASE Change
  <2>1. At("change") /\ UNCHANGED <<size, list, seen>> /\ Alive
    BY <1>21 DEF Change, Alive, At
  <2>2. thread'.buf = thread.buf
    BY <1>21 DEF Change, Go, Types, ThreadT
  <2>. SUFFICES ASSUME thread'.pc \in {"end", "endpause"}, ~seen'.raced
                PROVE  AllGiven'
    BY DEF EndInv
  <2>3. NextId = None
    BY <1>21 DEF Change, Go, Types, ThreadT
  <2>4. handle # NoHandle /\ ~seen.raced /\ Kept = thread.buf
    BY <2>1 DEF HandleInv, CurInv, Busy, At, Kept
  <2>5. /\ handle.seg = player.cur /\ player.cur \in list
        /\ handle.pos = size[handle.seg]
    BY <2>1, <2>4 DEF CurInv
  <2>6. \A s \in Openable : s <= handle.seg
    BY <2>3, <2>4, <2>5, ChangedLast
  <2>7. ChainIn(size, Openable, Expected, thread.buf, handle)
    BY <2>1, <2>4 DEF ChainInv, Positioned
  <2>8. /\ Expected \in Place /\ handle \in Place /\ thread.buf \in Seq(Place)
        /\ thread.buf \in Seq(Unit)
    BY PlacesAre, LengthOfBuf
  <2>9. Openable \subseteq Nat
    BY SegmentsAre DEF Openable, Types
  <2>10. LET u == Behind(Expected, thread.buf)
         IN  /\ u.pos = size[u.seg]
             /\ ~ \E s \in Openable : s > u.seg /\ size[s] > 0
    BY <2>5, <2>6, <2>7, <2>8, <2>9, ChainEnds
  <2>11. thread.buf # <<>> => InSequence(thread.buf)
    BY <2>7, <2>8, ChainInSequence
  <2>12. Expected' = Expected /\ Openable' = Openable
    BY <2>1 DEF Expected, Openable
  <2>13. InSequence(thread.buf) => InSequence(thread.buf)'
    BY <2>1, <2>2, <2>12 DEF InSequence, Follows, Is
  <2>. QED
    BY <2>1, <2>2, <2>10, <2>11, <2>12, <2>13 DEF AllGiven
<1>22. CASE Reread
  <2>1. thread'.pc \in {"drop", "top"}
    BY <1>22 DEF Reread, Types, ThreadT
  <2>. QED
    BY <2>1 DEF EndInv
<1>23. CASE NothingNext
  <2>1. UNCHANGED <<size, list>>
    BY <1>23 DEF NothingNext
  <2>2. /\ seen'.at = seen.at /\ seen'.fresh = seen.fresh /\ seen'.raced = seen.raced
        /\ seen'.moved = seen.moved
    BY <1>23 DEF NothingNext, Types, Seen
  <2>3. thread'.buf = thread.buf
    BY <1>23 DEF NothingNext, Types, ThreadT
  <2>4. CASE thread'.pc = "endpause"
    BY <1>23, <2>1, <2>2, <2>3, <2>4, EndFrame DEF NothingNext, At
  <2>5. CASE thread'.pc = "top"
    BY <2>5 DEF EndInv
  <2>. QED
    BY <1>23, <2>4, <2>5 DEF NothingNext, Types, ThreadT
<1>24. CASE EndPause
  <2>1. thread'.pc \in {"top"}
    BY <1>24 DEF EndPause, Go, Types, ThreadT
  <2>. QED
    BY <2>1 DEF EndInv
<1>25. CASE Drop
  <2>1. thread'.pc \in {"top", "write"}
    BY <1>25 DEF Drop, Go, Types, ThreadT
  <2>. QED
    BY <2>1 DEF EndInv
<1>26. CASE Write
  <2>1. thread'.pc \in {"top"}
    BY <1>26 DEF Write, Types, ThreadT
  <2>. QED
    BY <2>1 DEF EndInv
<1>27. CASE ReadFails
  <2>1. thread'.pc \in {"exit"}
    BY <1>27 DEF ReadFails, Types, ThreadT
  <2>. QED
    BY <2>1 DEF EndInv
<1>. QED
  BY <1>1, <1>2, <1>3, <1>4, <1>5, <1>6, <1>7, <1>8, <1>9, <1>10, <1>11, <1>12, <1>13,
     <1>14, <1>15, <1>16, <1>17, <1>18, <1>19, <1>20, <1>21, <1>22, <1>23, <1>24,
     <1>25, <1>26, <1>27, <1>28 DEF Next, Thread

-----------------------------------------------------------------------------
(* The invariant holds at first.                                           *)
LEMMA InvariantInit == Init => IInv
<1>. SUFFICES ASSUME Init PROVE IInv
  OBVIOUS
<1>1. size = [s \in Segments |-> IF s = 1 THEN Block + 1 ELSE 0] /\ list = {1}
  BY DEF Init
<1>2. player = [state |-> "STOP", cur |-> 0, open |-> FALSE, seekPause |-> FALSE,
                drop |-> FALSE, running |-> FALSE, cacheLen |-> 0]
  BY DEF Init, None
<1>3. handle = [seg |-> 0, pos |-> 0] /\ handle = NoHandle
  BY DEF Init, NoHandle, None
<1>4. thread = [pc |-> "none", buf |-> <<>>, rewrite |-> FALSE, noData |-> 0,
                waits |-> 0, delay |-> 0]
  BY DEF Init, NoThread
<1>5. /\ decoder = [units |-> 0, frame |-> "none"] /\ calls = 0 /\ prompt \in Prompts
      /\ app = [op |-> "none", seg |-> 0, pos |-> 0]
  BY DEF Init, Idle, None
<1>6. seen = [at |-> [seg |-> 1, pos |-> 0], fresh |-> TRUE, raced |-> FALSE,
              moved |-> FALSE, told |-> FALSE, late |-> 0]
  BY DEF Init
<1>7. Newest = 1
  <2>1. 1 \in Segments /\ {1} \subseteq Segments
    BY Constants DEF Segments
  <2>2. Max({1}) = 1
    BY <2>1, MaxIs
  <2>. QED
    BY <1>1, <2>2 DEF Newest
<1>8. Types
  <2>1. size \in [Segments -> 0 .. MaxUnit] /\ list \subseteq Segments
    BY <1>1, Constants DEF Segments
  <2>2. player \in PlayerT
    BY <1>2, Zero DEF PlayerT
  <2>3. handle \in HandleT
    BY <1>3, Zero DEF HandleT
  <2>4. thread \in ThreadT
    BY <1>4, Zero, NoUnits DEF ThreadT
  <2>5. decoder \in DecoderT /\ app \in AppT
    BY <1>5, Zero DEF DecoderT, AppT
  <2>6. calls \in 0 .. MaxCall /\ prompt \in BOOLEAN
    BY <1>5, Constants, PlaybackAssumption
  <2>7. seen \in Seen
    <3>1. 1 \in 0 .. MaxSegment
      BY Constants
    <3>. QED
      BY <1>6, <3>1, Zero DEF Seen
  <2>. QED
    BY <2>1, <2>2, <2>3, <2>4, <2>5, <2>6, <2>7 DEF Types
<1>9. WholeBlocks
  <2>1. 0 \in Nat /\ 0 = 0 * Block
    BY Constants
  <2>. QED
    BY <1>5, <2>1 DEF WholeBlocks
<1>10. ListInv
  BY <1>1, <1>3, <1>4, <1>5, <1>7, SegmentsAre, Constants DEF ListInv, Segments
<1>11. LifeInv /\ BufInv
  BY <1>2, <1>4, <1>5 DEF LifeInv, BufInv, At
<1>12. HandleInv /\ OpenInv
  BY <1>2, <1>3, <1>4 DEF HandleInv, OpenInv
<1>13. ToldInv /\ QuietInv
  BY <1>2, <1>4, <1>6 DEF ToldInv, QuietInv
<1>14. StopInv /\ CurInv /\ TimeInv
  BY <1>2, <1>3, <1>4, <1>5, <1>6 DEF StopInv, CurInv, TimeInv, Alive, Busy, At
<1>15. ChainInv /\ EndInv
  BY <1>3, <1>4 DEF ChainInv, EndInv
<1>. QED
  BY <1>8, <1>9, <1>10, <1>11, <1>12, <1>13, <1>14, <1>15 DEF IInv

(* Every step keeps the invariant.                                         *)
LEMMA InvariantNext == IInv /\ [Next]_vars => IInv'
<1>. SUFFICES ASSUME IInv, [Next]_vars PROVE IInv'
  OBVIOUS
<1>1. /\ Types /\ WholeBlocks /\ ListInv /\ LifeInv /\ BufInv /\ HandleInv /\ OpenInv
      /\ ToldInv /\ QuietInv /\ StopInv /\ CurInv /\ TimeInv /\ ChainInv /\ EndInv
  BY DEF IInv
<1>2. Types'
  BY <1>1, TypesNext
<1>3. WholeBlocks'
  BY <1>1, BlocksNext
<1>4. ListInv'
  BY <1>1, ListNext
<1>5. LifeInv'
  BY <1>1, LifeNext
<1>6. BufInv'
  BY <1>1, BufNext
<1>7. HandleInv'
  BY <1>1, HandleNext
<1>8. OpenInv'
  BY <1>1, OpenNext
<1>9. ToldInv'
  BY <1>1, ToldNext
<1>10. QuietInv'
  BY <1>1, QuietNext
<1>11. StopInv'
  BY <1>1, StopNext
<1>12. CurInv'
  BY <1>1, CurNext
<1>13. TimeInv'
  BY <1>1, TimeNext
<1>14. ChainInv'
  BY <1>1, ChainNext
<1>15. EndInv'
  BY <1>1, EndNext
<1>. QED
  BY <1>2, <1>3, <1>4, <1>5, <1>6, <1>7, <1>8, <1>9, <1>10, <1>11, <1>12, <1>13,
     <1>14, <1>15 DEF IInv

(* The invariant of the player.                                            *)
LEMMA Invariant == Spec => []IInv
BY InvariantInit, InvariantNext, PTL DEF Spec

-----------------------------------------------------------------------------
(* What DvrPlayback calls TypeOK follows.                                  *)
LEMMA TypesAreOK == IInv => TypeOK
<1>. SUFFICES ASSUME IInv PROVE TypeOK
  OBVIOUS
<1>1. Types /\ ListInv /\ BufInv
  BY DEF IInv
<1>2. /\ thread.pc \in {"none", "start", "first", "top", "read", "change", "reread", "end",
                        "endpause", "drop", "write", "exit"}
      /\ thread.noData \in 0 .. NoDataTime + 1 /\ thread.waits \in 0 .. MaxWait
      /\ thread.buf \in Seq(Unit) /\ thread.rewrite \in BOOLEAN
  BY <1>1 DEF Types, ThreadT
<1>3. thread.noData <= NoDataTime + 1 /\ thread.waits <= MaxWait
  BY <1>2, Constants
<1>4. Len(thread.buf) <= Block
  <2>1. Len(thread.buf) \in Nat /\ Len(<<>>) = 0
    BY <1>2
  <2>. QED
    BY <1>1, <1>2, <2>1, Constants DEF BufInv, At
<1>5. app.op \in {"none", "seek", "join", "stop", "remove"}
  BY <1>1 DEF Types, AppT
<1>6. size \in [Segments -> 0 .. MaxUnit] /\ list \subseteq Segments /\ list # {}
  BY <1>1 DEF Types, ListInv
<1>7. player \in PlayerT /\ handle \in HandleT /\ decoder \in DecoderT
  BY <1>1 DEF Types
<1>8. calls \in 0 .. MaxCall /\ prompt \in BOOLEAN /\ seen \in Seen
  BY <1>1 DEF Types
<1>. QED
  BY <1>2, <1>3, <1>4, <1>5, <1>6, <1>7, <1>8 DEF TypeOK, PlayerT, HandleT, DecoderT

(* TimeIsHonest, PausedIsQuiet and NoDataAnswered follow.                  *)
LEMMA AgreesFollows == IInv => TimeIsHonest /\ PausedIsQuiet /\ NoDataAnswered
<1>. SUFFICES ASSUME IInv PROVE TimeIsHonest /\ PausedIsQuiet /\ NoDataAnswered
  OBVIOUS
<1>1. TimeInv /\ QuietInv /\ ToldInv
  BY DEF IInv
<1>2. TimeIsHonest
  BY <1>1 DEF TimeInv, TimeIsHonest
<1>3. PausedIsQuiet
  BY <1>1 DEF QuietInv, PausedIsQuiet
<1>4. NoDataAnswered
  BY <1>1 DEF ToldInv, NoDataAnswered, At
<1>. QED
  BY <1>2, <1>3, <1>4

(* PlaysInOrder follows.                                                   *)
LEMMA OrderFollows == IInv => PlaysInOrder
<1>. SUFFICES ASSUME IInv, At("write"), ~seen.raced PROVE InSequence(thread.buf)
  BY DEF PlaysInOrder
<1>1. Types /\ BufInv /\ HandleInv /\ CurInv /\ ChainInv
  BY DEF IInv
<1>2. handle # NoHandle /\ Kept = thread.buf /\ Positioned
  BY <1>1 DEF HandleInv, CurInv, Busy, At, Kept, Positioned, Alive
<1>3. thread.buf \in Seq(Unit) /\ thread.buf # <<>>
  <2>1. Len(thread.buf) = Block /\ thread.buf \in Seq(Unit)
    BY <1>1, LengthOfBuf DEF BufInv, At
  <2>. QED
    BY <2>1, Constants
<1>4. ChainIn(size, Openable, Expected, thread.buf, handle)
  BY <1>1, <1>2 DEF ChainInv
<1>. QED
  BY <1>1, <1>3, <1>4, ChainInSequence

(* EndIsTheEnd follows.                                                    *)
LEMMA EndFollows == IInv => EndIsTheEnd
<1>. SUFFICES ASSUME IInv, At("endpause"), ~seen.raced, ~seen.moved PROVE EndIsTheEnd
  BY DEF EndIsTheEnd
<1>. DEFINE buf == thread.buf
            u == IF buf # <<>> THEN [Last(buf) EXCEPT !.pos = @ + 1]
                 ELSE IF seen.fresh THEN seen.at ELSE [seen.at EXCEPT !.pos = @ + 1]
<1>1. Types /\ AllGiven
  BY DEF IInv, EndInv, At
<1>2. buf \in Seq(Unit) /\ seen.at \in Place
  BY <1>1, PlacesAre, LengthOfBuf
<1>3. \A v \in Place : [v EXCEPT !.pos = @ + 1] = Succ(v)
  BY DEF Succ, Place
<1>4. u = Behind(Expected, buf)
  <2>1. CASE buf # <<>>
    <3>1. Len(buf) \in 1 .. Len(buf)
      BY <1>2, <2>1
    <3>2. Last(buf) \in Place
      BY <1>1, <1>2, <3>1, PlacesAre DEF Last
    <3>. QED
      BY <1>3, <2>1, <3>2 DEF Behind
  <2>2. CASE buf = <<>>
    BY <1>2, <1>3, <2>2 DEF Behind, Expected
  <2>. QED
    BY <2>1, <2>2
<1>. HIDE DEF u
<1>5. /\ buf # <<>> => InSequence(buf)
      /\ ~ \E s \in Openable : s > u.seg /\ size[s] > 0
      /\ u.pos = size[u.seg]
  BY <1>1, <1>4 DEF AllGiven
<1>. QED
  BY <1>5 DEF EndIsTheEnd, u

(* ReadsOpenFile follows if every segment opens.                           *)
LEMMA ReadsFollows == ASSUME Missing = {} PROVE IInv => ReadsOpenFile
BY DEF IInv, OpenInv, ReadsOpenFile

(* The player, its thread and the calls agree on the bytes in hand, on the *)
(* pause and on the NODATA that was told, whatever segments do not open.   *)
THEOREM PlayerAgrees ==
  Spec => [](TypeOK /\ TimeIsHonest /\ PausedIsQuiet /\ NoDataAnswered)
BY Invariant, TypesAreOK, AgreesFollows, PTL

(* With segments that open the thread also reads from an open file only,   *)
(* and that is all of PlayerInv.                                           *)
THEOREM PlayerRight == ASSUME Missing = {} PROVE Spec => []PlayerInv
<1>1. IInv => PlayerInv
  BY TypesAreOK, AgreesFollows, ReadsFollows DEF PlayerInv
<1>. QED
  BY <1>1, Invariant, PTL

(* The blocks written are the units of the listed segments, each once and  *)
(* in order, across reads that were cut, writes that were refused, seeks   *)
(* and a growing recording, unless a seek or the recorder came in between. *)
THEOREM InOrder == Spec => []PlaysInOrder
BY Invariant, OrderFollows, PTL

(* The end is told when the decoder has been given all there is but for    *)
(* the cut block in hand.                                                  *)
THEOREM EndTold == Spec => []EndIsTheEnd
BY Invariant, EndFollows, PTL
=============================================================================
