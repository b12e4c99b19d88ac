-------------------------- MODULE FileStore_proofs --------------------------
(***************************************************************************)
(* What TLAPS proves of a store (modules FileStore and FileStoreTape), for *)
(* every chunk size, every bound and every environment (but those with a   *)
(* reset, where the code does lose a number).  First what its files and    *)
(* its indexes look like; then the tape it holds: one run of entries, each *)
(* once and in order, in memory and on the disk, across flushes, drops,    *)
(* deliveries, crashes and power losses; last the contract it keeps: what  *)
(* was reported durable is there after any death, and the store is the     *)
(* tape of module Tape, which loses entries at its two ends only.          *)
(***************************************************************************)
EXTENDS FileStoreTape, SequenceFacts

------------------------------------------------------------------------------
\* The records of an index follow one another in the uncompressed data.
InOrder(recs) ==
    \A i, j \in 1 .. Len(recs) :
        i < j => recs[i].start + recs[i].len <= recs[j].start

\* While a flush has written its frame but not its record, the trunk is one
\* frame further than the index in memory.
IndexWithinTrunk ==
    /\ CompSize <= Len(trunk)
    /\ pc \in {"record", "replay_record", "replay_sync", "adopt_record"} =>
          CompSize < Len(trunk)

\* A flush knows where to return to, and staging is an import's, between stage()
\* and commit or abort, across the flushes in between.
Flushing == {"flush", "frame", "record", "harden", "swap", "unlink"}
StagingLabels == {"staged", "publish"}

StagingWithinImport ==
    /\ pc \in Flushing => after # "none"
    /\ pc = "stage" => role = "import"
    /\ pc \in StagingLabels => staged # NotStaged
    /\ IF staged = NotStaged THEN pc \in Flushing => after \notin StagingLabels
       ELSE /\ role = "import"
            /\ pc \in StagingLabels \cup {"flush", "frame", "record", "exit"}
            /\ pc \in Flushing => after \in StagingLabels

\* The index on disk is the one in memory, but for the record a replay has just
\* written and for those a delivery holds back.
RingsFollowChunks ==
    pc # "down" =>
        CASE pc = "replay_sync" ->
                /\ Len(rings) = CompSize + 1
                /\ chunks = SubSeq(rings, 1, CompSize)
                /\ rings[Len(rings)].start = bufStart
                /\ rings[Len(rings)].len = hi - lo
          [] pc # "replay_sync" /\ staged = NotStaged -> rings = chunks
          [] OTHER ->
                /\ staged <= Len(rings) /\ Len(rings) <= CompSize
                /\ rings = SubSeq(chunks, 1, Len(rings))
                /\ pc # "publish" => Len(rings) = staged

\* The invariant the type invariant rests on: lengths and positions are only
\* natural numbers because the two indexes, the trunk and the buffer agree.
IndexInv ==
    /\ TypeOK
    /\ InOrder(rings)
    /\ InOrder(chunks)
    /\ bufStart = IndexedEnd(chunks)
    /\ lo <= hi
    /\ IndexWithinTrunk
    /\ StagingWithinImport
    /\ RingsFollowChunks

------------------------------------------------------------------------------
\* A record of an index, and where the index ends.
LEMMA RecordOfIndex ==
    ASSUME NEW s \in Seq(ChunkRecord)
    PROVE  /\ Len(s) \in Nat
           /\ s = <<>> <=> Len(s) = 0
           /\ \A i \in 1 .. Len(s) :
                 /\ s[i] \in ChunkRecord
                 /\ s[i].start \in Nat
                 /\ s[i].len \in Nat
                 /\ s[i].seq \in Nat
           /\ IndexedEnd(s) \in Nat
           /\ SeqAfter(s) \in Nat
<1>1. Len(s) \in Nat /\ (s = <<>> <=> Len(s) = 0)
  BY EmptySeq, LenProperties
<1>2. \A i \in 1 .. Len(s) : s[i] \in ChunkRecord
  BY ElementOfSeq
<1>3. \A i \in 1 .. Len(s) : s[i].start \in Nat /\ s[i].len \in Nat /\ s[i].seq \in Nat
  BY <1>2 DEF ChunkRecord
<1>4. s # <<>> => Len(s) \in 1 .. Len(s)
  BY <1>1
<1>5. QED
  BY <1>1, <1>2, <1>3, <1>4 DEF IndexedEnd, SeqAfter

\* A prefix of an index in order is in order, and an index may be extended at
\* its end.
LEMMA PrefixInOrder ==
    ASSUME NEW s \in Seq(ChunkRecord), NEW n \in 0 .. Len(s), InOrder(s)
    PROVE  /\ SubSeq(s, 1, n) \in Seq(ChunkRecord)
           /\ Len(SubSeq(s, 1, n)) = n
           /\ InOrder(SubSeq(s, 1, n))
BY PrefixIsSeq, RecordOfIndex DEF InOrder

LEMMA AppendInOrder ==
    ASSUME NEW s \in Seq(ChunkRecord), InOrder(s),
           NEW r \in ChunkRecord, r.start = IndexedEnd(s)
    PROVE  /\ InOrder(Append(s, r))
           /\ IndexedEnd(Append(s, r)) = r.start + r.len
<1> DEFINE t == Append(s, r)
<1>1. /\ t \in Seq(ChunkRecord) /\ Len(t) = Len(s) + 1 /\ t # <<>>
      /\ \A i \in 1 .. Len(s) : t[i] = s[i]
      /\ t[Len(s) + 1] = r
  BY AppendIsSeq
<1> HIDE DEF t
<1>2. IndexedEnd(t) = r.start + r.len
  BY <1>1 DEF IndexedEnd
<1>3. ASSUME NEW i \in 1 .. Len(t), NEW j \in 1 .. Len(t), i < j
      PROVE  t[i].start + t[i].len <= t[j].start
  <2>1. CASE j \in 1 .. Len(s)
    <3>1. i \in 1 .. Len(s)
      BY <1>1, <1>3, <2>1, RecordOfIndex
    <3>2. QED
      BY <1>1, <1>3, <2>1, <3>1 DEF InOrder
  <2>2. CASE j = Len(s) + 1
    <3>1. i \in 1 .. Len(s) /\ s # <<>>
      BY <1>1, <1>3, <2>2, RecordOfIndex
    <3>2. i < Len(s) => s[i].start + s[i].len <= s[Len(s)].start
      BY <3>1, RecordOfIndex DEF InOrder
    <3>3. s[i].start + s[i].len <= s[Len(s)].start + s[Len(s)].len
      <4>1. /\ Len(s) \in Nat /\ Len(s) \in 1 .. Len(s)
            /\ s[i].start \in Nat /\ s[i].len \in Nat
            /\ s[Len(s)].start \in Nat /\ s[Len(s)].len \in Nat
        BY <3>1, RecordOfIndex
      <4>2. i = Len(s) \/ i < Len(s)
        BY <3>1, <4>1
      <4>3. QED
        BY <3>2, <4>1, <4>2
    <3>4. QED
      BY <1>1, <2>2, <3>1, <3>3 DEF IndexedEnd
  <2>3. QED
    BY <1>1, <2>1, <2>2, RecordOfIndex
<1>4. QED
  BY <1>2, <1>3 DEF InOrder, t

\* Tape positions and segments have their types.
LEMMA TapeEndIsNat ==
    ASSUME TypeOK, NEW n \in 0 .. Len(trunk)
    PROVE  TapeEnd(n) \in Nat
<1>1. n # 0 => n \in 1 .. Len(trunk)
  BY LenProperties DEF TypeOK
<1>2. n # 0 => trunk[n] \in Frame
  BY <1>1, ElementOfSeq DEF TypeOK
<1>3. QED
  BY <1>2 DEF TapeEnd, Frame, TypeOK

LEMMA SegmentTypes ==
    /\ NoSegment \in Segment
    /\ \A base, ubase, at \in Nat : FreshSegment(base, ubase, at) \in Segment
    /\ \A s \in Segment :
          /\ s.there \in BOOLEAN
          /\ s.base \in Nat /\ s.ubase \in Nat
          /\ s.lo \in Nat /\ s.hi \in Nat /\ s.syn \in Nat
    /\ \A s \in Segment, h, y \in Nat :
          /\ [s EXCEPT !.hi = h] \in Segment
          /\ [s EXCEPT !.syn = y] \in Segment
          /\ [s EXCEPT !.hi = h, !.syn = y] \in Segment
    /\ \A s \in Segment, b, u, l, h, y \in Nat :
          [s EXCEPT !.base = b, !.ubase = u, !.lo = l, !.hi = h, !.syn = y] \in Segment
BY DEF Segment, NoSegment, FreshSegment

LEMMA StoredSegments ==
    ASSUME TypeOK
    PROVE  /\ sap.there \in BOOLEAN /\ sap.base \in Nat /\ sap.ubase \in Nat
           /\ sap.lo \in Nat /\ sap.hi \in Nat /\ sap.syn \in Nat
           /\ seal.lo \in Nat /\ seal.hi \in Nat /\ seal.base \in Nat
BY SegmentTypes DEF TypeOK

\* A step that leaves the indexes, the trunk and the buffer alone only has to
\* mind where it goes.
LEMMA IndexLeftAlone ==
    ASSUME IndexInv, TypeOK', StagingWithinImport',
           UNCHANGED <<trunk, rings, chunks, bufStart, lo, hi, staged>>,
           pc \notin {"down", "replay_sync"},
           pc = "publish" => pc' = "publish",
           pc' \in {"record", "replay_record", "replay_sync", "adopt_record"} =>
               CompSize < Len(trunk),
           pc' # "replay_sync"
    PROVE  IndexInv'
BY DEF IndexInv, InOrder, IndexedEnd, IndexWithinTrunk, CompSize, RingsFollowChunks

\* What write_all_at leaves of the trunk, and a record written where the index
\* in memory ends.
LEMMA WriteFrameType ==
    ASSUME IndexInv, NEW f \in Frame, WriteFrame(f)
    PROVE  /\ trunk' \in Seq(Frame)
           /\ trunkSynced' \in Nat
           /\ trunkSynced' <= CompSize
           /\ Len(trunk) <= Len(trunk')
           /\ CompSize < Len(trunk')
<1>1. CompSize \in Nat /\ Len(trunk) \in Nat /\ CompSize <= Len(trunk)
  BY LenProperties DEF CompSize, IndexInv, TypeOK, IndexWithinTrunk
<1>2. CASE CompSize < Len(trunk)
  <2>1. CompSize + 1 \in 1 .. Len(trunk)
    BY <1>1, <1>2
  <2>2. QED
    BY <1>1, <1>2, <2>1, ExceptSeq DEF WriteFrame, IndexInv, TypeOK, Least
<1>3. CASE CompSize = Len(trunk)
  BY <1>1, <1>3, AppendIsSeq DEF WriteFrame, IndexInv, TypeOK, Least
<1>4. QED
  BY <1>1, <1>2, <1>3

LEMMA NextRecordType ==
    ASSUME IndexInv, NEW n \in Nat
    PROVE  /\ NextRecord(n) \in ChunkRecord
           /\ NextRecord(n).start = bufStart
           /\ NextRecord(n).start = IndexedEnd(chunks)
           /\ NextRecord(n).len = n
           /\ NextRecord(n).seq = nextSeq
           /\ Append(chunks, NextRecord(n)) \in Seq(ChunkRecord)
           /\ Len(Append(chunks, NextRecord(n))) = CompSize + 1
           /\ InOrder(Append(chunks, NextRecord(n)))
           /\ IndexedEnd(Append(chunks, NextRecord(n))) = bufStart + n
           /\ SubSeq(Append(chunks, NextRecord(n)), 1, CompSize) = chunks
           /\ Append(chunks, NextRecord(n))[CompSize + 1] = NextRecord(n)
<1>1. /\ NextRecord(n) \in ChunkRecord
      /\ NextRecord(n).start = bufStart
      /\ NextRecord(n).start = IndexedEnd(chunks)
      /\ NextRecord(n).len = n
      /\ NextRecord(n).seq = nextSeq
  BY DEF NextRecord, ChunkRecord, IndexInv, TypeOK
<1>2. QED
  BY <1>1, AppendInOrder, AppendIsSeq DEF IndexInv, TypeOK, CompSize

LEMMA WriteRecordType ==
    ASSUME IndexInv, rings = chunks, NEW rec, WriteRecord(rec)
    PROVE  /\ rings' = Append(chunks, rec)
           /\ ringsSynced' \in Nat
           /\ ringsSynced' <= CompSize
<1>1. SubSeq(rings, 1, CompSize) = chunks
  BY PrefixIsSeq, LenProperties DEF CompSize, IndexInv, TypeOK
<1>2. CompSize \in Nat
  BY LenProperties DEF CompSize, IndexInv, TypeOK
<1>3. QED
  BY <1>1, <1>2 DEF WriteRecord, IndexInv, TypeOK, Least

LEMMA SyncPairType ==
    ASSUME TypeOK, SyncPair
    PROVE  /\ trunkSynced' \in Nat /\ trunkSynced' = Len(trunk)
           /\ ringsSynced' \in Nat /\ ringsSynced' = Len(rings)
           /\ numbered' \in Nat
BY LenProperties, RecordOfIndex DEF SyncPair, TypeOK, Greatest

LEMMA OpenPreservesIndexInv ==
    ASSUME IndexInv, Open
    PROVE  IndexInv'
<1> USE DEF Goto
<1>1. ASSUME NEW r \in Programs, OpenIndex(r)
      PROVE  IndexInv'
  <2>1. /\ Intact \in 0 .. Len(rings)
        /\ Intact \in 0 .. Len(trunk)
    BY LenProperties DEF Intact, Least, IndexInv, TypeOK
  <2>2. TapeEnd(Intact) \in Nat
    BY <2>1, TapeEndIsNat DEF IndexInv
  <2>3. /\ chunks' \in Seq(ChunkRecord) /\ Len(chunks') = Intact
        /\ InOrder(chunks') /\ InOrder(rings')
        /\ IndexedEnd(chunks') \in Nat
    BY <1>1, <2>1, PrefixInOrder, RecordOfIndex DEF OpenIndex, IndexInv, TypeOK
  <2>4. TypeOK'
    BY <1>1, <2>1, <2>2, <2>3, RecordOfIndex
    DEF OpenIndex, IndexInv, TypeOK, ResumedSeq, Greatest, Least, Labels, Returns, history
  <2>5. StagingWithinImport' /\ RingsFollowChunks' /\ IndexWithinTrunk'
    BY <1>1, <2>1, <2>3
    DEF OpenIndex, IndexInv, StagingWithinImport, RingsFollowChunks, IndexWithinTrunk,
        CompSize, Flushing, StagingLabels
  <2>6. QED
    BY <1>1, <2>2, <2>3, <2>4, <2>5 DEF OpenIndex, IndexInv
<1>2. CASE DiscardSeal \/ ReplayUnlink
  <2>1. TypeOK'
    BY <1>2, SegmentTypes
    DEF DiscardSeal, ReplayUnlink, IndexInv, TypeOK, Labels, history, memory
  <2>2. StagingWithinImport'
    BY <1>2 DEF DiscardSeal, ReplayUnlink, IndexInv, StagingWithinImport, StagingLabels, Flushing, memory
  <2>3. QED
    BY <1>2, <2>1, <2>2, IndexLeftAlone DEF DiscardSeal, ReplayUnlink, memory
<1>3. CASE ReplaySeal
  <2>1. TypeOK' /\ (lo <= hi)'
    BY <1>3, StoredSegments DEF ReplaySeal, IndexInv, TypeOK, Labels, history, disk
  <2>2. /\ StagingWithinImport' /\ RingsFollowChunks' /\ IndexWithinTrunk'
        /\ InOrder(rings') /\ InOrder(chunks') /\ (bufStart = IndexedEnd(chunks))'
    BY <1>3 DEF ReplaySeal, IndexInv, StagingWithinImport, StagingLabels, Flushing,
                RingsFollowChunks, IndexWithinTrunk, CompSize, disk
  <2>3. QED
    BY <2>1, <2>2 DEF IndexInv
<1>4. CASE ReplayFrame
  <2>1. /\ trunk' \in Seq(Frame) /\ trunkSynced' \in Nat
        /\ (CompSize < Len(trunk))'
    BY <1>4, WriteFrameType DEF ReplayFrame, Frame, IndexInv, TypeOK, memory, CompSize
  <2>2. TypeOK'
    BY <1>4, <2>1 DEF ReplayFrame, IndexInv, TypeOK, Labels, history, memory
  <2>3. /\ StagingWithinImport' /\ RingsFollowChunks'
        /\ InOrder(rings') /\ InOrder(chunks')
        /\ (bufStart = IndexedEnd(chunks))' /\ (lo <= hi)'
    BY <1>4 DEF ReplayFrame, IndexInv, StagingWithinImport, StagingLabels, Flushing,
                RingsFollowChunks, CompSize, memory
  <2>4. IndexWithinTrunk'
    BY <2>1, LenProperties DEF IndexWithinTrunk, CompSize, TypeOK
  <2>5. QED
    BY <2>2, <2>3, <2>4 DEF IndexInv
<1>5. CASE ReplayRecord
  <2>1. staged = NotStaged /\ rings = chunks /\ CompSize < Len(trunk) /\ hi - lo \in Nat
    BY <1>5 DEF ReplayRecord, IndexInv, TypeOK, StagingWithinImport, StagingLabels, Flushing,
                RingsFollowChunks, IndexWithinTrunk
  <2>2. rings' = Append(chunks, NextRecord(hi - lo)) /\ ringsSynced' \in Nat
    BY <1>5, <2>1, WriteRecordType DEF ReplayRecord
  <2>3. TypeOK'
    BY <1>5, <2>1, <2>2, NextRecordType DEF ReplayRecord, IndexInv, TypeOK, Labels, history
  <2>4. /\ InOrder(rings') /\ InOrder(chunks')
        /\ (bufStart = IndexedEnd(chunks))' /\ (lo <= hi)'
    BY <1>5, <2>1, <2>2, NextRecordType DEF ReplayRecord, IndexInv
  <2>5. RingsFollowChunks'
    BY <1>5, <2>1, <2>2, NextRecordType DEF ReplayRecord, RingsFollowChunks, CompSize
  <2>6. StagingWithinImport' /\ IndexWithinTrunk'
    BY <1>5, <2>1 DEF ReplayRecord, IndexInv, StagingWithinImport, StagingLabels, Flushing,
                      IndexWithinTrunk, CompSize
  <2>7. QED
    BY <2>3, <2>4, <2>5, <2>6 DEF IndexInv
<1>6. CASE ReplaySync
  <2>1. /\ staged = NotStaged /\ hi - lo \in Nat
        /\ Len(rings) = CompSize + 1 /\ chunks = SubSeq(rings, 1, CompSize)
        /\ rings[Len(rings)].start = bufStart /\ rings[Len(rings)].len = hi - lo
        /\ CompSize < Len(trunk) /\ CompSize \in Nat
    <3>1. pc = "replay_sync"
      BY <1>6 DEF ReplaySync
    <3>2. staged = NotStaged
      BY <3>1 DEF IndexInv, StagingWithinImport, StagingLabels
    <3>3. /\ Len(rings) = CompSize + 1 /\ chunks = SubSeq(rings, 1, CompSize)
          /\ rings[Len(rings)].start = bufStart /\ rings[Len(rings)].len = hi - lo
      BY <3>1 DEF IndexInv, RingsFollowChunks
    <3>4. CompSize < Len(trunk)
      BY <3>1 DEF IndexInv, IndexWithinTrunk
    <3>5. hi - lo \in Nat /\ CompSize \in Nat
      BY LenProperties DEF IndexInv, TypeOK, CompSize
    <3>6. QED
      BY <3>2, <3>3, <3>4, <3>5
  <2>2. IndexedEnd(rings) = bufStart + (hi - lo)
    <3>1. rings \in Seq(ChunkRecord) /\ rings # <<>>
      BY <2>1, RecordOfIndex DEF IndexInv, TypeOK
    <3>2. QED
      BY <2>1, <3>1 DEF IndexedEnd
  <2>3. TypeOK'
    <3>1. TypeOK /\ SyncPair
      BY <1>6 DEF ReplaySync, IndexInv
    <3>2. /\ trunkSynced' \in Nat /\ ringsSynced' \in Nat /\ numbered' \in Nat
      BY <3>1, SyncPairType
    <3>3. bufStart' \in Nat /\ chunks' \in Seq(ChunkRecord) /\ lo' \in Nat
      BY <1>6, <3>1 DEF ReplaySync, IndexInv, TypeOK
    <3>4. QED
      BY <1>6, <3>1, <3>2, <3>3 DEF ReplaySync, TypeOK, Labels
  <2>4. /\ InOrder(rings') /\ InOrder(chunks')
        /\ (bufStart = IndexedEnd(chunks))' /\ (lo <= hi)'
    BY <1>6, <2>2 DEF ReplaySync, IndexInv, TypeOK
  <2>5. RingsFollowChunks' /\ StagingWithinImport' /\ IndexWithinTrunk'
    BY <1>6, <2>1, LenProperties
    DEF ReplaySync, RingsFollowChunks, IndexInv, TypeOK, StagingWithinImport, StagingLabels,
        Flushing, IndexWithinTrunk, CompSize
  <2>6. QED
    BY <2>3, <2>4, <2>5 DEF IndexInv
<1>8. CASE OpenLive
  <2>1. staged = NotStaged /\ rings = chunks /\ CompSize \in Nat
    BY <1>8, LenProperties
    DEF OpenLive, IndexInv, TypeOK, StagingWithinImport, StagingLabels, Flushing,
        RingsFollowChunks, CompSize
  <2>2. /\ lo' \in Nat /\ hi' \in Nat /\ (lo <= hi)' /\ walHi' \in Nat
    <3>1. /\ lo' = IF sap.lo < sap.hi THEN sap.lo ELSE lo
          /\ hi' = IF sap.lo < sap.hi THEN sap.hi ELSE hi
          /\ walHi' = hi'
      BY <1>8 DEF OpenLive
    <3>2. /\ lo \in Nat /\ hi \in Nat /\ lo <= hi
          /\ sap.lo \in Nat /\ sap.hi \in Nat
      BY StoredSegments DEF IndexInv, TypeOK
    <3>3. QED
      BY <3>1, <3>2
  <2>3. sap' \in Segment
    <3>1. CASE declared /\ sap.there
      <4> DEFINE y == IF sap.base # CompSize \/ sap.ubase # bufStart
                      THEN hi' ELSE Greatest(lo', sap.syn)
      <4>1. sap' = [sap EXCEPT !.base = CompSize, !.ubase = bufStart,
                               !.lo = lo', !.hi = hi', !.syn = y]
        BY <1>8, <3>1 DEF OpenLive
      <4>2. y \in Nat /\ bufStart \in Nat /\ sap \in Segment
        BY <2>2, StoredSegments DEF Greatest, IndexInv, TypeOK
      <4> HIDE DEF y
      <4>3. QED
        BY <2>1, <2>2, <4>1, <4>2, SegmentTypes
    <3>2. CASE declared /\ ~sap.there
      BY <1>8, <2>1, <2>2, <3>2, SegmentTypes DEF OpenLive, IndexInv, TypeOK
    <3>3. CASE ~declared
      BY <1>8, <3>3, SegmentTypes DEF OpenLive
    <3>4. QED
      BY <3>1, <3>2, <3>3
  <2>4. TypeOK'
    BY <1>8, <2>2, <2>3 DEF OpenLive, Opened, IndexInv, TypeOK, Labels, history
  <2>5. /\ InOrder(rings') /\ InOrder(chunks') /\ (bufStart = IndexedEnd(chunks))'
    BY <1>8 DEF OpenLive, IndexInv
  <2>6. RingsFollowChunks' /\ StagingWithinImport' /\ IndexWithinTrunk'
    BY <1>8, <2>1
    DEF OpenLive, Opened, RingsFollowChunks, IndexInv, StagingWithinImport, StagingLabels,
        Flushing, IndexWithinTrunk, CompSize
  <2>7. QED
    BY <2>2, <2>4, <2>5, <2>6 DEF IndexInv
<1>9. QED
  BY <1>1, <1>2, <1>3, <1>4, <1>5, <1>6, <1>8 DEF Open

LEMMA FlushPreservesIndexInv ==
    ASSUME IndexInv, Flush
    PROVE  IndexInv'
<1> USE DEF Goto
<1>1. CASE FlushBegin
  <2>1. TypeOK'
    <3>1. sap \in Segment /\ seal \in Segment /\ walHi \in Nat
      BY DEF IndexInv, TypeOK
    <3>2. sap' \in Segment /\ seal' \in Segment
      <4>1. [sap EXCEPT !.hi = walHi, !.syn = walHi] \in Segment /\ NoSegment \in Segment
        BY <3>1, SegmentTypes
      <4>2. QED
        BY <1>1, <3>1, <4>1 DEF FlushBegin
    <3>3. QED
      BY <1>1, <3>2 DEF FlushBegin, IndexInv, TypeOK, Labels, history, memory
  <2>2. StagingWithinImport'
    BY <1>1 DEF FlushBegin, IndexInv, StagingWithinImport, StagingLabels, Flushing, memory
  <2>3. QED
    BY <1>1, <2>1, <2>2, IndexLeftAlone DEF FlushBegin, memory
<1>2. CASE FlushFrame
  <2>1. /\ trunk' \in Seq(Frame) /\ trunkSynced' \in Nat
        /\ (CompSize < Len(trunk))'
    BY <1>2, WriteFrameType DEF FlushFrame, Frame, IndexInv, TypeOK, memory, CompSize
  <2>2. TypeOK'
    BY <1>2, <2>1 DEF FlushFrame, IndexInv, TypeOK, Labels, history, memory
  <2>3. /\ StagingWithinImport' /\ RingsFollowChunks'
        /\ InOrder(rings') /\ InOrder(chunks')
        /\ (bufStart = IndexedEnd(chunks))' /\ (lo <= hi)'
    BY <1>2 DEF FlushFrame, IndexInv, StagingWithinImport, StagingLabels, Flushing,
                RingsFollowChunks, CompSize, memory
  <2>4. IndexWithinTrunk'
    BY <2>1, <2>2, LenProperties DEF IndexWithinTrunk, CompSize, TypeOK
  <2>5. QED
    BY <2>2, <2>3, <2>4 DEF IndexInv
<1>3. CASE FlushRecord
  <2>1. /\ CompSize < Len(trunk) /\ hi - lo \in Nat /\ CompSize \in Nat
        /\ chunks \in Seq(ChunkRecord)
    BY <1>3, LenProperties DEF FlushRecord, IndexInv, TypeOK, IndexWithinTrunk, CompSize
  <2>2. /\ chunks' \in Seq(ChunkRecord) /\ Len(chunks') = CompSize + 1
        /\ InOrder(chunks') /\ IndexedEnd(chunks') = bufStart'
        /\ SubSeq(chunks', 1, CompSize) = chunks
    BY <1>3, <2>1, NextRecordType DEF FlushRecord
  <2>3. IF staged = NotStaged THEN rings' = chunks' /\ ringsSynced' \in Nat
        ELSE rings' = rings /\ ringsSynced' = ringsSynced
    BY <1>3, WriteRecordType DEF FlushRecord, IndexInv, RingsFollowChunks
  <2>4. InOrder(rings')
    BY <2>2, <2>3 DEF IndexInv
  <2>5. TypeOK'
    <3>1. rings' \in Seq(ChunkRecord) /\ ringsSynced' \in Nat
      BY <2>2, <2>3 DEF IndexInv, TypeOK
    <3>2. pc' \in Labels /\ after' \in Returns
      BY <1>3
      DEF FlushRecord, IndexInv, StagingWithinImport, Flushing, TypeOK, Labels, Returns
    <3>3. bufStart' \in Nat /\ nextSeq' \in Nat /\ lo' \in Nat
      BY <1>3, <2>1 DEF FlushRecord, IndexInv, TypeOK
    <3>4. QED
      BY <1>3, <2>2, <3>1, <3>2, <3>3 DEF FlushRecord, IndexInv, TypeOK, history
  <2>6. StagingWithinImport' /\ IndexWithinTrunk'
    BY <1>3, <2>1, <2>2
    DEF FlushRecord, Sealing, IndexInv, StagingWithinImport, StagingLabels, Flushing,
        IndexWithinTrunk, CompSize, TypeOK, Returns
  <2>7. RingsFollowChunks'
    <3>1. CASE staged = NotStaged
      BY <1>3, <2>3, <2>5, <3>1 DEF FlushRecord, RingsFollowChunks, IndexInv, TypeOK, Returns
    <3>2. CASE staged # NotStaged
      <4>1. /\ staged <= Len(rings) /\ Len(rings) <= CompSize /\ Len(rings) = staged
            /\ rings = SubSeq(chunks, 1, Len(rings)) /\ Len(rings) \in Nat
        BY <1>3, <3>2, LenProperties DEF FlushRecord, RingsFollowChunks, IndexInv, TypeOK
      <4>2. SubSeq(chunks', 1, Len(rings)) = SubSeq(chunks, 1, Len(rings))
        BY <2>1, <2>2, <4>1, PrefixOfPrefix DEF CompSize
      <4>3. QED
        BY <1>3, <2>1, <2>2, <2>3, <2>6, <3>2, <4>1, <4>2
        DEF FlushRecord, RingsFollowChunks, StagingWithinImport, StagingLabels, CompSize
    <3>3. QED
      BY <3>1, <3>2
  <2>8. QED
    BY <1>3, <2>1, <2>2, <2>4, <2>5, <2>6, <2>7 DEF FlushRecord, IndexInv, TypeOK
<1>4. CASE FlushHarden
  <2>1. TypeOK'
    BY <1>4, SyncPairType DEF FlushHarden, IndexInv, TypeOK, Labels, memory
  <2>2. StagingWithinImport'
    BY <1>4 DEF FlushHarden, IndexInv, StagingWithinImport, StagingLabels, Flushing, memory
  <2>3. QED
    BY <1>4, <2>1, <2>2, IndexLeftAlone DEF FlushHarden, memory
<1>5. CASE FlushSwap
  <2>1. TypeOK'
    <3>1. CompSize \in Nat /\ bufStart \in Nat /\ hi \in Nat /\ sap \in Segment
      BY LenProperties DEF CompSize, IndexInv, TypeOK
    <3>2. sap' \in Segment
      <4>1. FreshSegment(CompSize, bufStart, hi) \in Segment
        BY <3>1, SegmentTypes
      <4>2. QED
        BY <1>5, <3>1, <4>1 DEF FlushSwap
    <3>3. wal' \in BOOLEAN /\ walHi' \in Nat /\ pc' \in Labels
      BY <1>5 DEF FlushSwap, IndexInv, TypeOK, Labels
    <3>4. QED
      BY <1>5, <3>2, <3>3 DEF FlushSwap, IndexInv, TypeOK, history
  <2>2. StagingWithinImport'
    BY <1>5 DEF FlushSwap, IndexInv, StagingWithinImport, StagingLabels, Flushing
  <2>3. QED
    BY <1>5, <2>1, <2>2, IndexLeftAlone DEF FlushSwap
<1>6. CASE FlushUnlink
  <2>1. TypeOK'
    <3>1. pc' \in Labels /\ after' \in Returns /\ seal' \in Segment
      BY <1>6, SegmentTypes
      DEF FlushUnlink, IndexInv, StagingWithinImport, Flushing, TypeOK, Labels, Returns
    <3>2. QED
      BY <1>6, <3>1 DEF FlushUnlink, IndexInv, TypeOK, history, memory
  <2>2. StagingWithinImport'
    BY <1>6 DEF FlushUnlink, IndexInv, TypeOK, Returns, StagingWithinImport, StagingLabels,
                Flushing, memory
  <2>3. QED
    BY <1>6, <2>1, <2>2, IndexLeftAlone DEF FlushUnlink, IndexInv, TypeOK, Returns, memory
<1>7. CASE FrameFails \/ RecordFails \/ HardenFails
  <2>1. TypeOK'
    <3>1. /\ pc' \in Labels /\ after' \in Returns
          /\ sap' \in Segment /\ seal' \in Segment
      BY <1>7, SegmentTypes
      DEF FrameFails, RecordFails, HardenFails, Unseal, IndexInv, TypeOK, Labels, Returns
    <3>2. QED
      <4>1. CASE FrameFails \/ HardenFails
        BY <3>1, <4>1 DEF FrameFails, HardenFails, IndexInv, TypeOK, history, memory
      <4>2. CASE RecordFails
        BY <3>1, <4>2 DEF RecordFails, IndexInv, TypeOK, history
      <4>3. QED
        BY <1>7, <4>1, <4>2
  <2>2. StagingWithinImport'
    BY <1>7
    DEF FrameFails, RecordFails, HardenFails, Unseal, IndexInv, StagingWithinImport,
        StagingLabels, Flushing, memory
  <2>3. QED
    BY <1>7, <2>1, <2>2, IndexLeftAlone
    DEF FrameFails, RecordFails, HardenFails, Unseal, memory
<1>8. QED
  BY <1>1, <1>2, <1>3, <1>4, <1>5, <1>6, <1>7 DEF Flush

\* A flush is called, or not needed: where the writer goes.
LEMMA CallFlushGoes ==
    ASSUME TypeOK, NEW next \in Returns \ {"none"}, CallFlush(next)
    PROVE  /\ pc' \in Labels /\ after' \in Returns
           /\ \/ pc' = "flush" /\ after' = next
              \/ pc' = next /\ after' = "none"
BY DEF CallFlush, Labels, Returns

\* A dead writer leaves an index on disk that is in order.
LEMMA ForgetPreservesIndexInv ==
    ASSUME IndexInv, Forget,
           trunk' \in Seq(Frame), trunkSynced' \in Nat,
           rings' \in Seq(ChunkRecord), ringsSynced' \in Nat, InOrder(rings'),
           sap' \in Segment,
           UNCHANGED <<hdrSeq, seal, declared, history>>
    PROVE  IndexInv'
<1>1. TypeOK'
  BY EmptySeq DEF Forget, IndexInv, TypeOK, Labels, Returns, history
<1>2. InOrder(chunks') /\ (bufStart = IndexedEnd(chunks))' /\ (lo <= hi)'
  BY EmptySeq DEF Forget, InOrder, IndexedEnd
<1>3. StagingWithinImport' /\ RingsFollowChunks'
  BY DEF Forget, StagingWithinImport, StagingLabels, Flushing, RingsFollowChunks
<1>4. IndexWithinTrunk'
  BY <1>1, EmptySeq, LenProperties DEF Forget, IndexWithinTrunk, CompSize
<1>5. QED
  BY <1>1, <1>2, <1>3, <1>4 DEF IndexInv

LEMMA ImportPreservesIndexInv ==
    ASSUME IndexInv, Import
    PROVE  IndexInv'
<1> USE DEF Goto
<1>1. CASE Stage
  <2>1. staged = NotStaged /\ rings = chunks /\ Len(chunks) \in Nat
    BY <1>1, LenProperties
    DEF Stage, IndexInv, TypeOK, StagingWithinImport, StagingLabels, Flushing, RingsFollowChunks
  <2>2. TypeOK'
    BY <1>1, <2>1 DEF Stage, IndexInv, TypeOK, Labels, history, disk
  <2>3. StagingWithinImport'
    BY <1>1, <2>1 DEF Stage, IndexInv, StagingWithinImport, StagingLabels, Flushing, NotStaged
  <2>4. SubSeq(chunks, 1, Len(chunks)) = chunks
    BY SubSeqFull DEF IndexInv, TypeOK
  <2>5. RingsFollowChunks' /\ IndexWithinTrunk'
    BY <1>1, <2>1, <2>4
    DEF Stage, IndexInv, RingsFollowChunks, IndexWithinTrunk, CompSize, disk, NotStaged
  <2>6. QED
    BY <1>1, <2>2, <2>3, <2>5 DEF Stage, IndexInv, disk
<1>2. CASE Commit
  <2>1. /\ pc' \in Labels /\ after' \in Returns
        /\ \/ pc' = "flush" /\ after' = "publish"
           \/ pc' = "publish" /\ after' = "none"
    BY <1>2, CallFlushGoes DEF Commit, IndexInv, Returns
  <2>2. TypeOK'
    BY <1>2, <2>1 DEF Commit, IndexInv, TypeOK, history, disk, memory
  <2>3. StagingWithinImport'
    BY <1>2, <2>1
    DEF Commit, IndexInv, StagingWithinImport, StagingLabels, Flushing, NotStaged, memory
  <2>4. QED
    BY <1>2, <2>1, <2>2, <2>3, IndexLeftAlone DEF Commit, disk, memory
<1>3. CASE CommitRecord
  <2>1. /\ staged # NotStaged /\ staged <= Len(rings)
        /\ rings = SubSeq(chunks, 1, Len(rings))
        /\ Len(rings) \in Nat /\ Len(chunks) \in Nat /\ staged \in Nat
        /\ Len(rings) + 1 \in 1 .. Len(chunks)
        /\ chunks \in Seq(ChunkRecord) /\ rings \in Seq(ChunkRecord)
        /\ chunks[Len(rings) + 1] \in ChunkRecord
    <3>1. pc = "publish" /\ Len(rings) < Len(chunks)
      BY <1>3 DEF CommitRecord
    <3>2. /\ chunks \in Seq(ChunkRecord) /\ rings \in Seq(ChunkRecord)
          /\ Len(rings) \in Nat /\ Len(chunks) \in Nat
      BY LenProperties DEF IndexInv, TypeOK
    <3>3. staged # NotStaged /\ staged \in Nat
      BY <3>1 DEF IndexInv, TypeOK, StagingWithinImport, StagingLabels
    <3>4. staged <= Len(rings) /\ rings = SubSeq(chunks, 1, Len(rings))
      BY <3>1, <3>3 DEF IndexInv, RingsFollowChunks
    <3>5. Len(rings) + 1 \in 1 .. Len(chunks)
      BY <3>1, <3>2
    <3>6. QED
      BY <3>2, <3>3, <3>4, <3>5, ElementOfSeq
  <2>2. rings' = SubSeq(chunks, 1, Len(rings) + 1)
    BY <1>3, <2>1, PrefixGrows DEF CommitRecord
  <2>3. /\ rings' \in Seq(ChunkRecord) /\ Len(rings') = Len(rings) + 1
        /\ InOrder(rings')
    BY <2>1, <2>2, PrefixInOrder DEF IndexInv
  <2>4. TypeOK'
    BY <1>3, <2>3 DEF CommitRecord, IndexInv, TypeOK, history, memory
  <2>5. StagingWithinImport' /\ IndexWithinTrunk'
    BY <1>3 DEF CommitRecord, IndexInv, StagingWithinImport, IndexWithinTrunk, CompSize, memory
  <2>6. RingsFollowChunks'
    BY <1>3, <2>1, <2>2, <2>3
    DEF CommitRecord, IndexInv, RingsFollowChunks, CompSize, memory
  <2>7. QED
    BY <1>3, <2>3, <2>4, <2>5, <2>6 DEF CommitRecord, IndexInv, memory
<1>4. CASE CommitSync
  <2>1. rings = chunks
    <3>1. rings = SubSeq(chunks, 1, Len(chunks))
      BY <1>4 DEF CommitSync, IndexInv, StagingWithinImport, StagingLabels, RingsFollowChunks
    <3>2. QED
      BY <3>1, SubSeqFull DEF IndexInv, TypeOK
  <2>2. TypeOK'
    BY <1>4, SyncPairType DEF CommitSync, IndexInv, TypeOK, Labels
  <2>3. StagingWithinImport' /\ IndexWithinTrunk' /\ RingsFollowChunks'
    BY <1>4, <2>1
    DEF CommitSync, IndexInv, StagingWithinImport, StagingLabels, Flushing, IndexWithinTrunk,
        RingsFollowChunks, CompSize
  <2>4. QED
    BY <1>4, <2>2, <2>3 DEF CommitSync, IndexInv
<1>5. CASE Abort
  <2>1. /\ staged # NotStaged /\ Len(rings) = staged
        /\ rings = SubSeq(chunks, 1, staged)
        /\ staged \in 0 .. Len(chunks) /\ staged \in 0 .. Len(trunk)
        /\ chunks \in Seq(ChunkRecord) /\ trunk \in Seq(Frame)
    <3>1. pc = "staged"
      BY <1>5 DEF Abort
    <3>2. /\ chunks \in Seq(ChunkRecord) /\ trunk \in Seq(Frame) /\ rings \in Seq(ChunkRecord)
          /\ Len(rings) \in Nat /\ Len(chunks) \in Nat /\ Len(trunk) \in Nat
      BY LenProperties DEF IndexInv, TypeOK
    <3>3. staged # NotStaged
      BY <3>1 DEF IndexInv, StagingWithinImport, StagingLabels
    <3>4. /\ Len(rings) = staged /\ rings = SubSeq(chunks, 1, Len(rings))
          /\ Len(rings) <= CompSize
      BY <3>1, <3>3 DEF IndexInv, RingsFollowChunks
    <3>5. CompSize <= Len(trunk)
      BY DEF IndexInv, IndexWithinTrunk
    <3>6. QED
      BY <3>2, <3>3, <3>4, <3>5 DEF CompSize
  <2>2. /\ chunks' \in Seq(ChunkRecord) /\ Len(chunks') = staged /\ InOrder(chunks')
        /\ IndexedEnd(chunks') \in Nat
        /\ chunks' = rings
    BY <1>5, <2>1, PrefixInOrder, RecordOfIndex DEF Abort, IndexInv
  <2>3. trunk' \in Seq(Frame) /\ Len(trunk') = staged /\ TapeEnd(staged) \in Nat
    BY <1>5, <2>1, PrefixIsSeq, TapeEndIsNat DEF Abort, IndexInv
  <2>4. TypeOK'
    BY <1>5, <2>1, <2>2, <2>3 DEF Abort, IndexInv, TypeOK, Labels, Least, history
  <2>5. StagingWithinImport' /\ IndexWithinTrunk' /\ RingsFollowChunks'
    BY <1>5, <2>1, <2>2, <2>3
    DEF Abort, IndexInv, StagingWithinImport, StagingLabels, Flushing, IndexWithinTrunk,
        RingsFollowChunks, CompSize
  <2>6. QED
    BY <1>5, <2>2, <2>3, <2>4, <2>5 DEF Abort, IndexInv
<1>6. CASE Exit
  BY <1>6, ForgetPreservesIndexInv DEF Exit, IndexInv, TypeOK, disk, history
<1>7. QED
  BY <1>1, <1>2, <1>3, <1>4, <1>5, <1>6 DEF Import

LEMMA WritePreservesIndexInv ==
    ASSUME IndexInv, Write \/ SetWal
    PROVE  IndexInv'
<1> USE DEF Goto
<1>1. CASE AppendEntry
  <2>1. hi' \in Nat /\ lo <= hi'
    <3>1. hi' = hi + 1
      BY <1>1, Zenon DEF AppendEntry
    <3>2. QED
      BY <3>1 DEF IndexInv, TypeOK
  <2>2. sap' \in Segment /\ walHi' \in Nat
    <3>1. CASE Sealing
      <4>1. /\ walHi' = hi + 1
            /\ \E h \in sap.hi .. hi + 1 : sap' = [sap EXCEPT !.hi = h]
        BY <1>1, <3>1, Zenon DEF AppendEntry
      <4>2. sap \in Segment /\ sap.hi \in Nat /\ hi \in Nat
        BY StoredSegments DEF IndexInv, TypeOK
      <4>3. \A h \in sap.hi .. hi + 1 : h \in Nat
        BY <4>2
      <4>4. \A h \in sap.hi .. hi + 1 : [sap EXCEPT !.hi = h] \in Segment
        BY <4>2, <4>3, SegmentTypes, Zenon
      <4>5. QED
        BY <4>1, <4>2, <4>4
    <3>2. CASE ~Sealing
      BY <1>1, <3>2 DEF AppendEntry, IndexInv, TypeOK
    <3>3. QED
      BY <3>1, <3>2
  <2>3. \/ pc' = "flush" /\ after' = pc
        \/ UNCHANGED <<pc, after>>
    BY <1>1 DEF AppendEntry
  <2>4. TypeOK'
    <3>1. pc' \in Labels /\ after' \in Returns
      BY <1>1, <2>3 DEF AppendEntry, IndexInv, TypeOK, Labels, Returns
    <3>2. QED
      BY <1>1, <2>1, <2>2, <3>1 DEF AppendEntry, IndexInv, TypeOK, history
  <2>5. StagingWithinImport' /\ IndexWithinTrunk' /\ RingsFollowChunks'
    BY <1>1, <2>3
    DEF AppendEntry, IndexInv, StagingWithinImport, StagingLabels, Flushing, IndexWithinTrunk,
        RingsFollowChunks, CompSize
  <2>6. QED
    BY <1>1, <2>1, <2>4, <2>5 DEF AppendEntry, IndexInv
<1>2. ASSUME FlushAged \/ Sync \/ ApplyWalOn
      PROVE  IndexInv'
  <2>1. PICK next \in {"idle", "sync", "start_wal"} : CallFlush(next)
    BY <1>2 DEF FlushAged, Sync, ApplyWalOn
  <2>2. /\ pc' \in Labels /\ after' \in Returns
        /\ \/ pc' = "flush" /\ after' = next
           \/ pc' = next /\ after' = "none"
    BY <2>1, CallFlushGoes DEF IndexInv, Returns
  <2>3. pc = "idle" /\ UNCHANGED <<disk, memory, history>>
    BY <1>2 DEF FlushAged, Sync, ApplyWalOn
  <2>4. TypeOK'
    BY <2>2, <2>3 DEF IndexInv, TypeOK, disk, memory, history
  <2>5. StagingWithinImport'
    BY <2>2, <2>3 DEF IndexInv, StagingWithinImport, StagingLabels, Flushing, memory
  <2>6. QED
    BY <2>2, <2>3, <2>4, <2>5, IndexLeftAlone DEF disk, memory
<1>3. CASE SyncFiles
  <2>1. TypeOK'
    BY <1>3, SyncPairType DEF SyncFiles, IndexInv, TypeOK, Labels, Returns, memory
  <2>2. StagingWithinImport'
    BY <1>3 DEF SyncFiles, IndexInv, StagingWithinImport, StagingLabels, Flushing, memory
  <2>3. QED
    BY <1>3, <2>1, <2>2, IndexLeftAlone DEF SyncFiles, memory
<1>4. CASE SapFlush \/ SapSync
  <2>1. sap' \in Segment
    <3>1. sap \in Segment /\ walHi \in Nat
      BY DEF IndexInv, TypeOK
    <3>2. QED
      <4>1. /\ [sap EXCEPT !.hi = walHi] \in Segment
            /\ [sap EXCEPT !.hi = walHi, !.syn = walHi] \in Segment
        BY <3>1, SegmentTypes
      <4>2. QED
        BY <1>4, <4>1 DEF SapFlush, SapSync
  <2>2. TypeOK'
    BY <1>4, <2>1 DEF SapFlush, SapSync, IndexInv, TypeOK, memory, history
  <2>3. StagingWithinImport'
    BY <1>4 DEF SapFlush, SapSync, IndexInv, StagingWithinImport, StagingLabels, Flushing, memory
  <2>4. QED
    BY <1>4, <2>2, <2>3, IndexLeftAlone DEF SapFlush, SapSync, memory
<1>5. CASE StartWal \/ ApplyWalOff
  <2>1. sap' \in Segment
    <3>1. CompSize \in Nat /\ bufStart \in Nat /\ hi \in Nat
      BY LenProperties DEF CompSize, IndexInv, TypeOK
    <3>2. FreshSegment(CompSize, bufStart, hi) \in Segment /\ NoSegment \in Segment
      BY <3>1, SegmentTypes
    <3>3. sap' = FreshSegment(CompSize, bufStart, hi) \/ sap' = NoSegment
      BY <1>5, Zenon DEF StartWal, ApplyWalOff
    <3>4. QED
      BY <3>2, <3>3
  <2>2. TypeOK'
    BY <1>5, <2>1 DEF StartWal, ApplyWalOff, IndexInv, TypeOK, Labels, history
  <2>3. StagingWithinImport'
    BY <1>5 DEF StartWal, ApplyWalOff, IndexInv, StagingWithinImport, StagingLabels, Flushing
  <2>4. QED
    BY <1>5, <2>2, <2>3, IndexLeftAlone DEF StartWal, ApplyWalOff
<1>6. CASE SetWal
  <2>1. TypeOK'
    BY <1>6 DEF SetWal, IndexInv, TypeOK, memory, history
  <2>2. QED
    BY <1>6, <2>1
    DEF SetWal, IndexInv, StagingWithinImport, RingsFollowChunks, IndexWithinTrunk, CompSize,
        memory
<1>7. QED
  BY <1>1, <1>2, <1>3, <1>4, <1>5, <1>6 DEF Write

\* A head drop keeps a suffix of the index, moved down to start at zero, and of
\* the trunk.
LEMMA DropHeadPreservesIndexInv ==
    ASSUME IndexInv, NEW k \in 1 .. Len(chunks), NEW rewrite \in BOOLEAN,
           DropHead(k, rewrite)
    PROVE  IndexInv'
<1> DEFINE n == Len(chunks) - k
           cut == chunks[k].start + chunks[k].len
           kept == [i \in 1 .. n |-> [chunks[i + k] EXCEPT !.start = @ - cut]]
<1>1. /\ staged = NotStaged /\ rings = chunks /\ pc = "idle"
      /\ chunks \in Seq(ChunkRecord) /\ Len(chunks) \in Nat /\ n \in Nat /\ k \in Nat
      /\ Len(chunks) <= Len(trunk) /\ Len(trunk) \in Nat /\ InOrder(chunks)
  <2>1. pc = "idle"
    BY DEF DropHead
  <2>2. staged = NotStaged /\ rings = chunks
    BY <2>1
    DEF IndexInv, StagingWithinImport, StagingLabels, Flushing, RingsFollowChunks
  <2>3. chunks \in Seq(ChunkRecord) /\ Len(chunks) \in Nat /\ Len(trunk) \in Nat
    BY LenProperties DEF IndexInv, TypeOK
  <2>4. QED
    BY <2>1, <2>2, <2>3 DEF IndexInv, IndexWithinTrunk, CompSize
<1>2. cut \in Nat
  BY <1>1, RecordOfIndex
<1>3. \A i \in 1 .. n : /\ i + k \in 1 .. Len(chunks)
                        /\ chunks[i + k] \in ChunkRecord
                        /\ chunks[i + k].start - cut \in Nat
  <2>1. ASSUME NEW i \in 1 .. n
        PROVE  /\ i + k \in 1 .. Len(chunks)
               /\ chunks[i + k] \in ChunkRecord
               /\ chunks[i + k].start - cut \in Nat
    <3>1. i + k \in 1 .. Len(chunks) /\ k < i + k
      BY <1>1
    <3>2. cut <= chunks[i + k].start
      BY <1>1, <3>1 DEF InOrder
    <3>3. QED
      BY <1>1, <1>2, <3>1, <3>2, RecordOfIndex
  <2>2. QED
    BY <2>1
<1>4. kept \in Seq(ChunkRecord) /\ Len(kept) = n
  <2>1. \A i \in 1 .. n : [chunks[i + k] EXCEPT !.start = @ - cut] \in ChunkRecord
    BY <1>3 DEF ChunkRecord
  <2>2. kept \in [1 .. n -> ChunkRecord]
    BY <2>1
  <2>3. QED
    BY <1>1, <2>2, FunctionIsSeq
<1>5. \A i \in 1 .. n : /\ kept[i].start = chunks[i + k].start - cut
                        /\ kept[i].len = chunks[i + k].len
                        /\ kept[i].seq = chunks[i + k].seq
  BY <1>3 DEF ChunkRecord
<1> HIDE DEF kept
<1>6. InOrder(kept)
  <2>1. ASSUME NEW i \in 1 .. Len(kept), NEW j \in 1 .. Len(kept), i < j
        PROVE  kept[i].start + kept[i].len <= kept[j].start
    <3>1. /\ i \in 1 .. n /\ j \in 1 .. n
          /\ i + k \in 1 .. Len(chunks) /\ j + k \in 1 .. Len(chunks) /\ i + k < j + k
      BY <1>1, <1>3, <1>4, <2>1
    <3>2. chunks[i + k].start + chunks[i + k].len <= chunks[j + k].start
      BY <1>1, <3>1 DEF InOrder
    <3>3. /\ chunks[i + k].start \in Nat /\ chunks[i + k].len \in Nat
          /\ chunks[j + k].start \in Nat
      BY <1>1, <3>1, RecordOfIndex
    <3>4. /\ kept[i].start = chunks[i + k].start - cut
          /\ kept[i].len = chunks[i + k].len
          /\ kept[j].start = chunks[j + k].start - cut
      BY <1>5, <3>1
    <3> HIDE DEF cut, kept
    <3>5. \A x, l, y, c \in Nat : x + l <= y => (x - c) + l <= y - c
      OBVIOUS
    <3>6. (chunks[i + k].start - cut) + chunks[i + k].len <= chunks[j + k].start - cut
      BY <1>2, <3>2, <3>3, <3>5
    <3>7. QED
      BY <3>4, <3>6, Zenon
  <2>2. QED
    BY <2>1 DEF InOrder
<1>7. bufStart - cut = IndexedEnd(kept) /\ bufStart - cut \in Nat
  <2>1. bufStart = chunks[Len(chunks)].start + chunks[Len(chunks)].len
    BY <1>1, RecordOfIndex DEF IndexInv, IndexedEnd
  <2>2. CASE n = 0
    BY <1>1, <1>2, <1>4, <2>1, <2>2, RecordOfIndex DEF IndexedEnd
  <2>3. CASE n > 0
    <3>1. /\ n \in 1 .. n /\ n + k = Len(chunks) /\ kept # <<>>
          /\ Len(chunks) \in 1 .. Len(chunks)
      BY <1>1, <1>4, <2>3, RecordOfIndex
    <3>2. IndexedEnd(kept) = kept[n].start + kept[n].len
      BY <1>4, <3>1 DEF IndexedEnd
    <3>3. kept[n].start = chunks[Len(chunks)].start - cut
          /\ kept[n].len = chunks[Len(chunks)].len
      BY <1>5, <3>1
    <3>4. /\ chunks[Len(chunks)].start \in Nat
          /\ chunks[Len(chunks)].len \in Nat
          /\ chunks[Len(chunks)].start - cut \in Nat
      BY <1>1, <1>3, <3>1, RecordOfIndex
    <3> HIDE DEF cut
    <3>5. (chunks[Len(chunks)].start - cut) + chunks[Len(chunks)].len = bufStart - cut
      BY <1>2, <2>1, <3>4
    <3>6. IndexedEnd(kept) = bufStart - cut
      BY <3>2, <3>3, <3>5, Zenon
    <3>7. bufStart - cut \in Nat
      BY <3>4, <3>5
    <3>8. QED
      BY <3>6, <3>7
  <2>4. QED
    BY <1>1, <2>2, <2>3
<1>8. /\ chunks' = kept /\ rings' = kept /\ ringsSynced' = n
      /\ bufStart' = bufStart - cut
  BY <1>1, <1>4 DEF DropHead, kept
<1>9. trunk' \in Seq(Frame) /\ Len(trunk') >= n /\ trunkSynced' \in Nat
  <2> DEFINE last == IF rewrite THEN CompSize ELSE Len(trunk)
  <2>1. /\ last \in Nat /\ n <= last - k /\ k + 1 \in Int
        /\ \A i \in k + 1 .. last : trunk[i] \in Frame
    <3>1. last \in Nat /\ last <= Len(trunk) /\ n <= last - k
      BY <1>1 DEF CompSize
    <3>2. \A i \in k + 1 .. last : i \in 1 .. Len(trunk)
      BY <1>1, <3>1
    <3>3. QED
      BY <1>1, <3>1, <3>2, ElementOfSeq DEF IndexInv, TypeOK
  <2>2. trunk' = SubSeq(trunk, k + 1, last)
    BY DEF DropHead
  <2>3. trunkSynced' \in Nat
    <3>1. trunkSynced' = IF rewrite THEN CompSize - k ELSE Greatest(0, trunkSynced - k)
      BY DEF DropHead
    <3>2. CompSize - k \in Nat /\ trunkSynced - k \in Int
      BY <1>1 DEF IndexInv, TypeOK, CompSize
    <3>3. QED
      BY <3>1, <3>2 DEF Greatest
  <2> HIDE DEF last
  <2>4. /\ SubSeq(trunk, k + 1, last) \in Seq(Frame)
        /\ Len(SubSeq(trunk, k + 1, last)) =
              IF k + 1 <= last THEN last - (k + 1) + 1 ELSE 0
    BY <2>1, SubSeqProperties
  <2>5. QED
    BY <1>1, <2>1, <2>2, <2>3, <2>4
<1>10. /\ head' \in Nat /\ numbered' \in Nat /\ hdrSeq' \in Nat
       /\ pc' \in {"idle", "rebase"}
  <2>1. trunk[k] \in Frame
    BY <1>1, ElementOfSeq DEF IndexInv, TypeOK
  <2>2. QED
    BY <2>1 DEF DropHead, RebaseNext, Frame, IndexInv, TypeOK, Greatest
<1>11. TypeOK'
  BY <1>1, <1>4, <1>7, <1>8, <1>9, <1>10 DEF DropHead, RebaseNext, IndexInv, TypeOK, Labels
<1>12. StagingWithinImport' /\ RingsFollowChunks' /\ IndexWithinTrunk'
  BY <1>1, <1>4, <1>8, <1>9, <1>10
  DEF DropHead, StagingWithinImport, StagingLabels, Flushing, RingsFollowChunks,
      IndexWithinTrunk, CompSize
<1>13. QED
  BY <1>6, <1>7, <1>8, <1>11, <1>12 DEF DropHead, IndexInv

LEMMA ReshapePreservesIndexInv ==
    ASSUME IndexInv, Reshape
    PROVE  IndexInv'
<1> USE DEF Goto
<1>1. ASSUME NEW k \in 1 .. Len(chunks), NEW rewrite \in BOOLEAN, DropHead(k, rewrite)
      PROVE  IndexInv'
  BY <1>1, DropHeadPreservesIndexInv
<1>2. CASE Rebase \/ RebaseFails
  <2>1. sap' \in Segment
    <3>1. /\ CompSize \in Nat /\ bufStart \in Nat /\ lo \in Nat
          /\ Greatest(lo, sap.hi) \in Nat /\ sap \in Segment
      BY LenProperties, StoredSegments DEF CompSize, IndexInv, TypeOK, Greatest
    <3>2. [sap EXCEPT !.base = CompSize, !.ubase = bufStart, !.lo = lo,
                      !.hi = Greatest(lo, sap.hi), !.syn = Greatest(lo, sap.hi)] \in Segment
      BY <3>1, SegmentTypes
    <3>3. QED
      BY <1>2, <3>1, <3>2 DEF Rebase, RebaseFails, disk
  <2>2. TypeOK'
    BY <1>2, <2>1 DEF Rebase, RebaseFails, IndexInv, TypeOK, Labels, disk, memory, history
  <2>3. StagingWithinImport'
    BY <1>2 DEF Rebase, RebaseFails, IndexInv, StagingWithinImport, StagingLabels, Flushing,
                memory
  <2>4. QED
    BY <1>2, <2>2, <2>3, IndexLeftAlone DEF Rebase, RebaseFails, disk, memory
<1>3. CASE Adopt
  <2>1. /\ pc' \in Labels /\ after' \in Returns
        /\ \/ pc' = "flush" /\ after' = "adopt"
           \/ pc' = "adopt" /\ after' = "none"
    BY <1>3, CallFlushGoes DEF Adopt, IndexInv, Returns
  <2>2. TypeOK'
    BY <1>3, <2>1 DEF Adopt, IndexInv, TypeOK, disk, memory, history
  <2>3. StagingWithinImport'
    BY <1>3, <2>1 DEF Adopt, IndexInv, StagingWithinImport, StagingLabels, Flushing, memory
  <2>4. QED
    BY <1>3, <2>1, <2>2, <2>3, IndexLeftAlone DEF Adopt, disk, memory
<1>4. CASE AdoptFrame
  <2>1. [lo |-> hi, hi |-> hi + 1] \in Frame
    BY DEF Frame, IndexInv, TypeOK
  <2>2. /\ trunk' \in Seq(Frame) /\ trunkSynced' \in Nat
        /\ (CompSize < Len(trunk))'
    BY <1>4, <2>1, WriteFrameType DEF AdoptFrame, memory, CompSize
  <2>3. TypeOK'
    BY <1>4, <2>2 DEF AdoptFrame, IndexInv, TypeOK, Labels, history, memory
  <2>4. /\ StagingWithinImport' /\ RingsFollowChunks'
        /\ InOrder(rings') /\ InOrder(chunks')
        /\ (bufStart = IndexedEnd(chunks))' /\ (lo <= hi)'
    BY <1>4 DEF AdoptFrame, IndexInv, StagingWithinImport, StagingLabels, Flushing,
                RingsFollowChunks, CompSize, memory
  <2>5. IndexWithinTrunk'
    BY <2>2, <2>3, LenProperties DEF IndexWithinTrunk, CompSize, TypeOK
  <2>6. QED
    BY <2>3, <2>4, <2>5 DEF IndexInv
<1>5. CASE AdoptRecord
  <2>1. /\ staged = NotStaged /\ rings = chunks /\ CompSize < Len(trunk) /\ CompSize \in Nat
    BY <1>5, LenProperties
    DEF AdoptRecord, IndexInv, TypeOK, StagingWithinImport, StagingLabels, Flushing,
        RingsFollowChunks, IndexWithinTrunk, CompSize
  <2>2. /\ rings' = Append(chunks, NextRecord(1)) /\ ringsSynced' \in Nat
        /\ chunks' = Append(chunks, NextRecord(1))
    BY <1>5, <2>1, WriteRecordType DEF AdoptRecord
  <2>3. /\ chunks' \in Seq(ChunkRecord) /\ Len(chunks') = CompSize + 1
        /\ InOrder(chunks') /\ bufStart' = IndexedEnd(chunks')
    BY <1>5, <2>2, NextRecordType DEF AdoptRecord
  <2>4. TypeOK'
    BY <1>5, <2>2, <2>3 DEF AdoptRecord, IndexInv, TypeOK, Labels, history
  <2>5. RingsFollowChunks' /\ StagingWithinImport' /\ IndexWithinTrunk'
    BY <1>5, <2>1, <2>2, <2>3
    DEF AdoptRecord, IndexInv, RingsFollowChunks, StagingWithinImport, StagingLabels, Flushing,
        IndexWithinTrunk, CompSize
  <2>6. QED
    BY <1>5, <2>2, <2>3, <2>4, <2>5 DEF AdoptRecord, IndexInv, TypeOK
<1>6. CASE AdoptSync
  <2>1. pc' \in {"idle", "rebase"} /\ UNCHANGED after
    BY <1>6 DEF AdoptSync, RebaseNext
  <2>2. TypeOK'
    BY <1>6, <2>1, SyncPairType DEF AdoptSync, IndexInv, TypeOK, Labels, memory
  <2>3. StagingWithinImport'
    BY <1>6, <2>1 DEF AdoptSync, IndexInv, StagingWithinImport, StagingLabels, Flushing, memory
  <2>4. QED
    BY <1>6, <2>1, <2>2, <2>3, IndexLeftAlone DEF AdoptSync, memory
<1>7. CASE Reset
  <2>1. staged = NotStaged
    BY <1>7 DEF Reset, IndexInv, StagingWithinImport, StagingLabels, Flushing
  <2>2. pc' \in {"idle", "reset"} /\ UNCHANGED after /\ head' \in Nat
    BY <1>7 DEF Reset, IndexInv, TypeOK
  <2>3. TypeOK'
    BY <1>7, <2>2, SegmentTypes, EmptySeq DEF Reset, IndexInv, TypeOK, Labels
  <2>4. /\ InOrder(rings') /\ InOrder(chunks') /\ (bufStart = IndexedEnd(chunks))'
        /\ (lo <= hi)' /\ IndexWithinTrunk'
    BY <1>7, <2>2, EmptySeq DEF Reset, InOrder, IndexedEnd, IndexWithinTrunk, CompSize,
                                IndexInv, TypeOK
  <2>5. StagingWithinImport' /\ RingsFollowChunks'
    BY <1>7, <2>1, <2>2
    DEF Reset, IndexInv, StagingWithinImport, StagingLabels, Flushing, RingsFollowChunks
  <2>6. QED
    BY <2>3, <2>4, <2>5 DEF IndexInv
<1>8. CASE ResetSegment
  <2>1. sap' \in Segment
    BY <1>8, SegmentTypes DEF ResetSegment, IndexInv, TypeOK
  <2>2. TypeOK'
    BY <1>8, <2>1 DEF ResetSegment, IndexInv, TypeOK, Labels
  <2>3. StagingWithinImport'
    BY <1>8 DEF ResetSegment, IndexInv, StagingWithinImport, StagingLabels, Flushing
  <2>4. QED
    BY <1>8, <2>2, <2>3, IndexLeftAlone DEF ResetSegment
<1>9. QED
  BY <1>1, <1>2, <1>3, <1>4, <1>5, <1>6, <1>7, <1>8 DEF Reshape

LEMMA FailPreservesIndexInv ==
    ASSUME IndexInv, Fail
    PROVE  IndexInv'
<1>1. CASE Crash
  BY <1>1, ForgetPreservesIndexInv DEF Crash, IndexInv, TypeOK, disk
<1>2. CASE LosePower
  <2>1. /\ trunkSynced' \in 0 .. Len(trunk) /\ trunk' = SubSeq(trunk, 1, trunkSynced')
        /\ ringsSynced' \in 0 .. Len(rings) /\ rings' = SubSeq(rings, 1, ringsSynced')
    <3>1. /\ trunkSynced' \in trunkSynced .. Len(trunk)
          /\ trunk' = SubSeq(trunk, 1, trunkSynced')
          /\ ringsSynced' \in ringsSynced .. Len(rings)
          /\ rings' = SubSeq(rings, 1, ringsSynced')
      BY <1>2 DEF LosePower
    <3>2. trunkSynced \in Nat /\ ringsSynced \in Nat
      BY DEF IndexInv, TypeOK
    <3>3. Len(trunk) \in Nat /\ Len(rings) \in Nat
      BY LenProperties DEF IndexInv, TypeOK
    <3>4. QED
      BY <3>1, <3>2, <3>3
  <2>2. trunk' \in Seq(Frame)
    BY <2>1, PrefixIsSeq DEF IndexInv, TypeOK
  <2>3. rings' \in Seq(ChunkRecord) /\ InOrder(rings')
    BY <2>1, PrefixInOrder DEF IndexInv, TypeOK
  <2>4. sap' \in Segment
    <3>1. \E h \in sap.syn .. sap.hi : sap' = [sap EXCEPT !.hi = h, !.syn = h]
      BY <1>2, Zenon DEF LosePower
    <3>2. sap \in Segment /\ sap.syn \in Nat /\ sap.hi \in Nat
      BY StoredSegments DEF IndexInv, TypeOK
    <3>3. \A h \in sap.syn .. sap.hi : h \in Nat
      BY <3>2
    <3>4. \A h \in sap.syn .. sap.hi : [sap EXCEPT !.hi = h, !.syn = h] \in Segment
      BY <3>2, <3>3, SegmentTypes, Zenon
    <3>5. QED
      BY <3>1, <3>4, Zenon
  <2>5. trunkSynced' \in Nat /\ ringsSynced' \in Nat
    BY <2>1
  <2>6. QED
    BY <1>2, <2>2, <2>3, <2>4, <2>5, ForgetPreservesIndexInv DEF LosePower
<1>3. QED
  BY <1>1, <1>2 DEF Fail

LEMMA IndexInvInductive == Spec => []IndexInv
<1>1. Init => IndexInv
  <2> SUFFICES ASSUME Init PROVE IndexInv
    OBVIOUS
  <2>1. TypeOK
    BY EmptySeq, SegmentTypes DEF Init, TypeOK, Labels, Returns
  <2>2. InOrder(rings) /\ InOrder(chunks) /\ bufStart = IndexedEnd(chunks) /\ lo <= hi
    BY EmptySeq DEF Init, InOrder, IndexedEnd
  <2>3. IndexWithinTrunk /\ StagingWithinImport /\ RingsFollowChunks
    BY EmptySeq DEF Init, IndexWithinTrunk, CompSize, StagingWithinImport, StagingLabels,
                    Flushing, RingsFollowChunks
  <2>4. QED
    BY <2>1, <2>2, <2>3 DEF IndexInv
<1>2. IndexInv /\ [Next]_vars => IndexInv'
  <2> SUFFICES ASSUME IndexInv, [Next]_vars PROVE IndexInv'
    OBVIOUS
  <2>1. CASE Next
    BY <2>1, OpenPreservesIndexInv, FlushPreservesIndexInv, ImportPreservesIndexInv,
       WritePreservesIndexInv, ReshapePreservesIndexInv, FailPreservesIndexInv DEF Next
  <2>2. CASE UNCHANGED vars
    BY <2>2
    DEF vars, disk, memory, history, IndexInv, TypeOK, InOrder, IndexedEnd, IndexWithinTrunk,
        CompSize, StagingWithinImport, RingsFollowChunks
  <2>3. QED
    BY <2>1, <2>2
<1>3. QED
  BY <1>1, <1>2, PTL DEF Spec

\* Whatever crashes, fails, stages, drops or resets, the store's variables keep
\* the types the code gives them: in particular no length, offset or position
\* the code computes by subtraction goes below zero.
THEOREM TypeCorrect == Spec => []TypeOK
<1>1. IndexInv => TypeOK
  BY DEF IndexInv
<1>2. QED
  BY <1>1, IndexInvInductive, PTL

------------------------------------------------------------------------------
\* Chunk numbers grow along an index.
SeqsGrow(recs) ==
    \A i, j \in 1 .. Len(recs) : i < j => recs[i].seq < recs[j].seq

\* What a power loss leaves of the index for open to go by.
DurableRecords == SubSeq(rings, 1, Least(trunkSynced, ringsSynced))

\* The next number is above every number in either index and the header, and
\* the numbers ever hardened are below what a crash leaves to resume from.
NumberInv ==
    /\ trunkSynced <= Len(trunk)
    /\ ringsSynced <= Len(rings)
    /\ SeqsGrow(rings)
    /\ SeqsGrow(chunks)
    /\ pc # "down" =>
          /\ hdrSeq <= nextSeq
          /\ SeqAfter(rings) <= nextSeq
          /\ SeqAfter(chunks) <= nextSeq
    /\ numbered <= Greatest(hdrSeq, SeqAfter(DurableRecords))

------------------------------------------------------------------------------
\* Where numbers grow, the number after a prefix is no more than after a longer
\* one, and a larger number may be appended.
LEMMA SeqAfterGrows ==
    ASSUME NEW s \in Seq(ChunkRecord), SeqsGrow(s),
           NEW n \in 0 .. Len(s), NEW m \in 0 .. n
    PROVE  /\ SeqsGrow(SubSeq(s, 1, n))
           /\ SeqAfter(SubSeq(s, 1, n)) \in Nat
           /\ SeqAfter(SubSeq(s, 1, m)) \in Nat
           /\ SeqAfter(SubSeq(s, 1, m)) <= SeqAfter(SubSeq(s, 1, n))
           /\ SeqAfter(SubSeq(s, 1, n)) <= SeqAfter(s)
<1> DEFINE last(q) == IF q = 0 THEN 0 ELSE s[q].seq + 1
<1>1. Len(s) \in Nat /\ n \in Nat /\ m \in Nat /\ m \in 0 .. Len(s)
  BY RecordOfIndex
<1>2. ASSUME NEW q \in 0 .. Len(s)
      PROVE  SeqAfter(SubSeq(s, 1, q)) = last(q) /\ last(q) \in Nat
  <2>1. SubSeq(s, 1, q) \in Seq(ChunkRecord) /\ Len(SubSeq(s, 1, q)) = q
        /\ \A i \in 1 .. q : SubSeq(s, 1, q)[i] = s[i]
        /\ (SubSeq(s, 1, q) = <<>> <=> q = 0)
    <3>1. SubSeq(s, 1, q) \in Seq(ChunkRecord) /\ Len(SubSeq(s, 1, q)) = q
          /\ \A i \in 1 .. q : SubSeq(s, 1, q)[i] = s[i]
      BY PrefixIsSeq
    <3>2. SubSeq(s, 1, q) = <<>> <=> Len(SubSeq(s, 1, q)) = 0
      BY <3>1, EmptySeq
    <3>3. QED
      BY <3>1, <3>2
  <2>2. q # 0 => q \in 1 .. q /\ q \in 1 .. Len(s)
    BY <1>1
  <2>3. q # 0 => s[q].seq \in Nat
    BY <2>2, RecordOfIndex
  <2>4. QED
    BY <2>1, <2>2, <2>3 DEF SeqAfter
<1>3. ASSUME NEW q \in 0 .. Len(s), NEW r \in 0 .. q
      PROVE  last(r) <= last(q)
  <2>1. CASE r = 0 \/ r = q
    BY <1>1, <1>2, <2>1
  <2>2. CASE r # 0 /\ r # q
    <3>1. r \in 1 .. Len(s) /\ q \in 1 .. Len(s) /\ r < q
      BY <1>1, <2>2
    <3>2. s[r].seq < s[q].seq /\ s[r].seq \in Nat /\ s[q].seq \in Nat
      BY <3>1, RecordOfIndex DEF SeqsGrow
    <3>3. QED
      BY <3>1, <3>2
  <2>3. QED
    BY <2>1, <2>2
<1>4. SeqsGrow(SubSeq(s, 1, n))
  <2> DEFINE t == SubSeq(s, 1, n)
  <2>1. Len(t) = n /\ \A i \in 1 .. n : t[i] = s[i] /\ i \in 1 .. Len(s)
    BY <1>1, PrefixIsSeq
  <2> HIDE DEF t
  <2>2. SeqsGrow(t)
    BY <2>1 DEF SeqsGrow
  <2>3. QED
    BY <2>2 DEF t
<1>5. SeqAfter(s) = last(Len(s))
  BY <1>1, RecordOfIndex DEF SeqAfter
<1> HIDE DEF last
<1>6. last(m) <= last(n) /\ last(n) <= last(Len(s))
  BY <1>1, <1>3
<1>7. QED
  BY <1>1, <1>2, <1>4, <1>5, <1>6

LEMMA AppendGrows ==
    ASSUME NEW s \in Seq(ChunkRecord), SeqsGrow(s),
           NEW r \in ChunkRecord, SeqAfter(s) <= r.seq
    PROVE  /\ SeqsGrow(Append(s, r))
           /\ SeqAfter(Append(s, r)) = r.seq + 1
<1> DEFINE t == Append(s, r)
<1>1. /\ t \in Seq(ChunkRecord) /\ Len(t) = Len(s) + 1 /\ t # <<>>
      /\ \A i \in 1 .. Len(s) : t[i] = s[i]
      /\ t[Len(s) + 1] = r
      /\ Len(s) \in Nat
  BY AppendIsSeq
<1>2. r.seq \in Nat
  BY DEF ChunkRecord
<1> HIDE DEF t
<1>3. SeqAfter(t) = r.seq + 1
  BY <1>1 DEF SeqAfter
<1>4. ASSUME NEW i \in 1 .. Len(t), NEW j \in 1 .. Len(t), i < j
      PROVE  t[i].seq < t[j].seq
  <2>1. i \in 1 .. Len(s)
    BY <1>1, <1>4
  <2>2. CASE j \in 1 .. Len(s)
    BY <1>1, <1>4, <2>1, <2>2 DEF SeqsGrow
  <2>3. CASE j = Len(s) + 1
    <3>1. Len(s) \in 1 .. Len(s) /\ s # <<>>
      BY <1>1, <2>1, RecordOfIndex
    <3>2. SeqAfter(s) = s[Len(s)].seq + 1
      BY <3>1 DEF SeqAfter
    <3>3. s[i].seq \in Nat /\ s[Len(s)].seq \in Nat
      BY <2>1, <3>1, RecordOfIndex
    <3>4. s[i].seq <= s[Len(s)].seq
      <4>1. i = Len(s) \/ i < Len(s)
        BY <2>1, <3>1
      <4>2. CASE i < Len(s)
        BY <2>1, <3>1, <3>3, <4>2 DEF SeqsGrow
      <4>3. CASE i = Len(s)
        BY <3>3, <4>3
      <4>4. QED
        BY <4>1, <4>2, <4>3
    <3>5. QED
      BY <1>1, <1>2, <2>1, <2>3, <3>2, <3>3, <3>4
  <2>4. QED
    BY <1>1, <2>2, <2>3
<1>5. QED
  BY <1>3, <1>4 DEF SeqsGrow, t

\* How long the index on disk is, compared with the one in memory and with the
\* trunk.
LEMMA RingsLength ==
    ASSUME IndexInv, pc # "down"
    PROVE  /\ Len(rings) \in Nat /\ CompSize \in Nat /\ Len(trunk) \in Nat
           /\ Len(rings) <= Len(trunk)
           /\ pc # "replay_sync" => Len(rings) <= CompSize
BY LenProperties DEF IndexInv, TypeOK, IndexWithinTrunk, RingsFollowChunks, CompSize

\* Outside a delivery the two indexes are one; inside it, the one on disk is the
\* part of the other that was published.
LEMMA UnstagedIndex ==
    ASSUME IndexInv, pc \notin {"down", "replay_sync"},
           pc \notin StagingLabels \cup {"flush", "frame", "record", "exit"}
    PROVE  staged = NotStaged /\ rings = chunks
<1>1. staged = NotStaged
  BY DEF IndexInv, StagingWithinImport
<1>2. QED
  BY <1>1 DEF IndexInv, RingsFollowChunks

LEMMA StagedIndex ==
    ASSUME IndexInv, pc \in StagingLabels
    PROVE  /\ staged \in Nat
           /\ staged <= Len(rings) /\ Len(rings) <= Len(chunks)
           /\ rings = SubSeq(chunks, 1, Len(rings))
           /\ pc = "staged" => Len(rings) = staged
           /\ Len(rings) \in Nat /\ Len(chunks) \in Nat /\ Len(trunk) \in Nat
           /\ Len(chunks) <= Len(trunk)
<1>1. staged # NotStaged /\ staged \in Nat
  BY DEF IndexInv, StagingWithinImport, TypeOK
<1>2. Len(rings) \in Nat /\ Len(chunks) \in Nat /\ Len(trunk) \in Nat
  BY LenProperties DEF IndexInv, TypeOK
<1>3. Len(chunks) <= Len(trunk)
  BY DEF IndexInv, IndexWithinTrunk, CompSize
<1>4. QED
  BY <1>1, <1>2, <1>3 DEF IndexInv, RingsFollowChunks, StagingLabels, CompSize

\* What survives a power loss is a prefix of the index.
LEMMA DurablePrefix ==
    ASSUME IndexInv, NumberInv
    PROVE  /\ Least(trunkSynced, ringsSynced) \in 0 .. Len(rings)
           /\ SeqAfter(DurableRecords) \in Nat
           /\ SeqAfter(DurableRecords) <= SeqAfter(rings)
           /\ SeqAfter(rings) \in Nat
<1>1. Least(trunkSynced, ringsSynced) \in 0 .. Len(rings)
  BY LenProperties DEF IndexInv, TypeOK, NumberInv, Least
<1>2. 0 \in 0 .. Least(trunkSynced, ringsSynced)
  BY <1>1
<1>3. QED
  BY <1>1, <1>2, SeqAfterGrows, RecordOfIndex DEF DurableRecords, NumberInv, IndexInv, TypeOK

\* A step that leaves the files and the index alone may only raise the next
\* number.
LEMMA NumbersLeftAlone ==
    ASSUME IndexInv, NumberInv, IndexInv', pc # "down",
           UNCHANGED <<trunk, trunkSynced, rings, ringsSynced, hdrSeq, chunks, numbered>>,
           nextSeq' \in {nextSeq, nextSeq + 1}
    PROVE  NumberInv'
<1>1. /\ hdrSeq \in Nat /\ nextSeq \in Nat
      /\ SeqAfter(rings) \in Nat /\ SeqAfter(chunks) \in Nat
  BY RecordOfIndex DEF IndexInv, TypeOK
<1>2. UNCHANGED DurableRecords /\ UNCHANGED SeqAfter(rings) /\ UNCHANGED SeqAfter(chunks)
  BY DEF DurableRecords, Least, SeqAfter
<1>3. UNCHANGED SeqsGrow(rings) /\ UNCHANGED SeqsGrow(chunks)
  BY DEF SeqsGrow
<1>4. UNCHANGED SeqAfter(DurableRecords)
  BY <1>2 DEF SeqAfter
<1>5. QED
  BY <1>1, <1>2, <1>3, <1>4 DEF NumberInv, Greatest

\* A frame written past the index touches nothing durable that is indexed.
LEMMA NumbersAfterFrame ==
    ASSUME IndexInv, NumberInv, pc # "down", pc # "replay_sync",
           NEW f \in Frame, WriteFrame(f),
           UNCHANGED <<rings, ringsSynced, hdrSeq, chunks, numbered, nextSeq>>
    PROVE  NumberInv'
<1>1. trunkSynced' <= Len(trunk')
  BY WriteFrameType, RingsLength DEF IndexInv, TypeOK
<1>2. Least(trunkSynced', ringsSynced) = Least(trunkSynced, ringsSynced)
  <2>1. /\ trunkSynced \in Nat /\ ringsSynced \in Nat
        /\ ringsSynced <= CompSize /\ CompSize \in Nat
    BY RingsLength DEF NumberInv, IndexInv, TypeOK
  <2>2. trunkSynced' = Least(trunkSynced, CompSize)
    BY DEF WriteFrame
  <2>3. QED
    BY <2>1, <2>2 DEF Least
<1>3. UNCHANGED DurableRecords
  BY <1>2 DEF DurableRecords
<1>4. UNCHANGED SeqAfter(DurableRecords) /\ UNCHANGED SeqAfter(rings)
      /\ UNCHANGED SeqAfter(chunks)
  BY <1>3 DEF SeqAfter
<1>5. UNCHANGED SeqsGrow(rings) /\ UNCHANGED SeqsGrow(chunks)
  BY DEF SeqsGrow
<1>6. ringsSynced' <= Len(rings') /\ (pc' # "down" => pc # "down")
  BY DEF NumberInv
<1>7. QED
  BY <1>1, <1>4, <1>5, <1>6 DEF NumberInv, Greatest

\* A record written after the index takes the next number.
LEMMA NumbersAfterRecord ==
    ASSUME IndexInv, NumberInv, pc # "down", rings = chunks,
           NEW n \in Nat, WriteRecord(NextRecord(n)),
           chunks' \in {chunks, Append(chunks, NextRecord(n))},
           nextSeq' = nextSeq + 1,
           UNCHANGED <<trunk, trunkSynced, hdrSeq, numbered>>
    PROVE  NumberInv'
<1> DEFINE rec == NextRecord(n)
<1>1. /\ rec \in ChunkRecord /\ rec.seq = nextSeq
      /\ chunks \in Seq(ChunkRecord) /\ CompSize \in Nat
      /\ nextSeq \in Nat /\ hdrSeq \in Nat
      /\ trunkSynced \in Nat /\ ringsSynced \in Nat /\ ringsSynced <= CompSize
  BY NextRecordType, LenProperties DEF IndexInv, TypeOK, CompSize, NumberInv
<1> HIDE DEF rec
<1>2. rings' = Append(chunks, rec) /\ ringsSynced' = ringsSynced
  BY <1>1, WriteRecordType DEF WriteRecord, Least, rec
<1>3. /\ SeqsGrow(Append(chunks, rec)) /\ SeqAfter(Append(chunks, rec)) = nextSeq + 1
      /\ SeqsGrow(chunks) /\ SeqAfter(chunks) <= nextSeq /\ SeqAfter(chunks) \in Nat
  BY <1>1, AppendGrows, RecordOfIndex DEF NumberInv
<1>4. /\ SeqsGrow(rings') /\ SeqAfter(rings') = nextSeq + 1
      /\ SeqsGrow(chunks') /\ SeqAfter(chunks') <= nextSeq + 1
  <2>1. chunks' \in {chunks, Append(chunks, rec)}
    BY DEF rec
  <2>2. CASE chunks' = chunks
    BY <1>1, <1>2, <1>3, <2>2
  <2>3. CASE chunks' = Append(chunks, rec)
    BY <1>1, <1>2, <1>3, <2>3
  <2>4. QED
    BY <2>1, <2>2, <2>3
<1>5. DurableRecords' = DurableRecords
  <2>1. /\ Append(chunks, rec) \in Seq(ChunkRecord)
        /\ Len(Append(chunks, rec)) = CompSize + 1
        /\ SubSeq(Append(chunks, rec), 1, CompSize) = chunks
    BY <1>1, AppendIsSeq DEF CompSize
  <2>2. Least(trunkSynced, ringsSynced) \in 0 .. CompSize
    BY <1>1 DEF Least
  <2>3. CompSize \in 0 .. Len(Append(chunks, rec))
    BY <1>1, <2>1
  <2>4. SubSeq(Append(chunks, rec), 1, Least(trunkSynced, ringsSynced))
          = SubSeq(chunks, 1, Least(trunkSynced, ringsSynced))
    BY <2>1, <2>2, <2>3, PrefixOfPrefix
  <2>5. QED
    BY <1>2, <2>4 DEF DurableRecords
<1>6. ringsSynced' <= Len(rings')
  BY <1>1, <1>2, AppendIsSeq DEF CompSize
<1>7. SeqAfter(DurableRecords') = SeqAfter(DurableRecords)
  BY <1>5
<1>8. trunkSynced' <= Len(trunk') /\ numbered' <= Greatest(hdrSeq', SeqAfter(DurableRecords'))
  BY <1>7 DEF NumberInv
<1>9. hdrSeq' <= nextSeq'
  BY <1>1 DEF NumberInv
<1>10. QED
  BY <1>1, <1>4, <1>6, <1>8, <1>9 DEF NumberInv, DurableRecords

\* Once both files are synced the whole index is durable.
LEMMA NumbersAfterSync ==
    ASSUME IndexInv, NumberInv, pc # "down", SyncPair,
           chunks' \in {chunks, rings},
           UNCHANGED <<trunk, rings, hdrSeq, nextSeq>>
    PROVE  NumberInv'
<1>1. /\ Len(rings) <= Len(trunk) /\ Len(rings) \in Nat /\ Len(trunk) \in Nat
      /\ numbered \in Nat /\ hdrSeq \in Nat
  BY RingsLength DEF IndexInv, TypeOK
<1>2. /\ trunkSynced' = Len(trunk) /\ ringsSynced' = Len(rings)
      /\ numbered' = Greatest(numbered, SeqAfter(rings))
  BY DEF SyncPair
<1>3. DurableRecords' = rings
  <2>1. Least(trunkSynced', ringsSynced') = Len(rings)
    BY <1>1, <1>2 DEF Least
  <2>2. QED
    BY <2>1, SubSeqFull DEF DurableRecords, IndexInv, TypeOK
<1>4. numbered <= Greatest(hdrSeq, SeqAfter(rings)) /\ SeqAfter(rings) \in Nat
  BY <1>1, DurablePrefix DEF NumberInv, Greatest
<1>5. numbered' <= Greatest(hdrSeq', SeqAfter(DurableRecords'))
  BY <1>1, <1>2, <1>3, <1>4 DEF Greatest
<1>6. /\ SeqsGrow(rings') /\ SeqsGrow(chunks')
      /\ SeqAfter(rings') <= nextSeq' /\ SeqAfter(chunks') <= nextSeq' /\ hdrSeq' <= nextSeq'
  BY DEF NumberInv
<1>7. QED
  BY <1>1, <1>2, <1>5, <1>6 DEF NumberInv, DurableRecords

\* A dead writer leaves on disk what it goes by when it opens the store again.
LEMMA NumbersAfterForget ==
    ASSUME IndexInv, NumberInv, Forget,
           trunkSynced' <= Len(trunk'), ringsSynced' <= Len(rings'),
           SeqsGrow(rings'),
           SeqAfter(DurableRecords) <= SeqAfter(DurableRecords'),
           SeqAfter(DurableRecords') \in Nat,
           UNCHANGED <<hdrSeq, numbered>>
    PROVE  NumberInv'
<1>1. SeqsGrow(chunks') /\ pc' = "down"
  BY EmptySeq DEF Forget, SeqsGrow
<1>2. SeqAfter(DurableRecords) \in Nat /\ hdrSeq \in Nat /\ numbered \in Nat
  BY DurablePrefix DEF IndexInv, TypeOK
<1>3. numbered' <= Greatest(hdrSeq', SeqAfter(DurableRecords'))
  BY <1>2 DEF NumberInv, Greatest
<1>4. QED
  BY <1>1, <1>3 DEF NumberInv, DurableRecords

LEMMA OpenPreservesNumberInv ==
    ASSUME IndexInv, NumberInv, IndexInv', Open
    PROVE  NumberInv'
<1> USE DEF Goto
<1>1. ASSUME NEW r \in Programs, OpenIndex(r)
      PROVE  NumberInv'
  <2> DEFINE n == Intact
             d == Least(trunkSynced, ringsSynced)
  <2>1. /\ n \in 0 .. Len(rings) /\ d \in 0 .. n /\ n \in Nat
        /\ rings \in Seq(ChunkRecord) /\ SeqsGrow(rings)
        /\ ringsSynced \in Nat /\ trunkSynced \in Nat /\ hdrSeq \in Nat
    <3>1. /\ rings \in Seq(ChunkRecord) /\ SeqsGrow(rings)
          /\ ringsSynced \in Nat /\ trunkSynced \in Nat /\ hdrSeq \in Nat
          /\ Len(rings) \in Nat /\ Len(trunk) \in Nat
          /\ trunkSynced <= Len(trunk) /\ ringsSynced <= Len(rings)
      BY LenProperties DEF IndexInv, TypeOK, NumberInv
    <3>2. QED
      BY <3>1 DEF Intact, Least
  <2>2. /\ rings' = SubSeq(rings, 1, n) /\ chunks' = SubSeq(rings, 1, n)
        /\ ringsSynced' = Least(ringsSynced, n)
        /\ nextSeq' = Greatest(hdrSeq, SeqAfter(rings))
        /\ UNCHANGED <<trunk, trunkSynced, hdrSeq, numbered>>
    BY <1>1 DEF OpenIndex, ResumedSeq, history
  <2>3. Least(trunkSynced', ringsSynced') = d
    BY <2>1, <2>2 DEF Least
  <2>4. /\ SeqsGrow(SubSeq(rings, 1, n))
        /\ SeqAfter(SubSeq(rings, 1, n)) \in Nat
        /\ SeqAfter(SubSeq(rings, 1, n)) <= SeqAfter(rings)
        /\ SeqAfter(rings) \in Nat
    BY <2>1, SeqAfterGrows, RecordOfIndex
  <2>5. /\ hdrSeq' <= nextSeq' /\ SeqAfter(rings') <= nextSeq' /\ SeqAfter(chunks') <= nextSeq'
    BY <2>1, <2>2, <2>4 DEF Greatest
  <2>6. DurableRecords' = DurableRecords
    BY <2>1, <2>2, <2>3, PrefixOfPrefix DEF DurableRecords
  <2>7. SeqAfter(DurableRecords') = SeqAfter(DurableRecords)
    BY <2>6
  <2>8. numbered' <= Greatest(hdrSeq', SeqAfter(DurableRecords'))
    BY <2>2, <2>7 DEF NumberInv
  <2>9. trunkSynced' <= Len(trunk') /\ ringsSynced' <= Len(rings')
    <3>1. Len(rings') = n
      BY <2>1, <2>2, PrefixIsSeq
    <3>2. QED
      BY <2>1, <2>2, <3>1 DEF Least, NumberInv
  <2>10. SeqsGrow(rings') /\ SeqsGrow(chunks')
    BY <2>2, <2>4
  <2>11. QED
    BY <2>5, <2>8, <2>9, <2>10 DEF NumberInv, DurableRecords
<1>2. CASE DiscardSeal \/ ReplaySeal \/ ReplayUnlink \/ OpenLive
  BY <1>2, NumbersLeftAlone
  DEF DiscardSeal, ReplaySeal, ReplayUnlink, OpenLive, disk, memory, history
<1>3. CASE ReplayFrame
  BY <1>3, NumbersAfterFrame DEF ReplayFrame, Frame, IndexInv, TypeOK, memory, history
<1>4. CASE ReplayRecord
  <2>1. rings = chunks /\ hi - lo \in Nat
    <3>1. rings = chunks
      BY <1>4, UnstagedIndex DEF ReplayRecord, StagingLabels
    <3>2. QED
      BY <3>1 DEF IndexInv, TypeOK
  <2>2. QED
    BY <1>4, <2>1, NumbersAfterRecord DEF ReplayRecord, history
<1>5. CASE ReplaySync
  BY <1>5, NumbersAfterSync DEF ReplaySync
<1>6. QED
  BY <1>1, <1>2, <1>3, <1>4, <1>5 DEF Open

LEMMA FlushPreservesNumberInv ==
    ASSUME IndexInv, NumberInv, IndexInv', Flush
    PROVE  NumberInv'
<1> USE DEF Goto
<1>1. CASE FlushBegin \/ FlushSwap \/ FlushUnlink \/ FrameFails \/ RecordFails \/ HardenFails
  BY <1>1, NumbersLeftAlone
  DEF FlushBegin, FlushSwap, FlushUnlink, FrameFails, RecordFails, HardenFails, Unseal,
      memory, history
<1>2. CASE FlushFrame
  BY <1>2, NumbersAfterFrame DEF FlushFrame, Frame, IndexInv, TypeOK, memory, history
<1>3. CASE FlushRecord
  <2>1. hi - lo \in Nat
    BY DEF IndexInv, TypeOK
  <2>2. CASE staged = NotStaged
    <3>1. rings = chunks
      BY <1>3, <2>2 DEF FlushRecord, IndexInv, RingsFollowChunks
    <3>2. QED
      BY <1>3, <2>1, <2>2, <3>1, NumbersAfterRecord DEF FlushRecord, history
  <2>3. CASE staged # NotStaged
    <3>1. UNCHANGED <<trunk, trunkSynced, rings, ringsSynced, hdrSeq, numbered>>
          /\ chunks' = Append(chunks, NextRecord(hi - lo)) /\ nextSeq' = nextSeq + 1
          /\ pc # "down"
      BY <1>3, <2>3 DEF FlushRecord, history
    <3>2. /\ SeqsGrow(chunks) /\ SeqAfter(chunks) <= nextSeq
          /\ SeqAfter(rings) <= nextSeq /\ hdrSeq <= nextSeq
          /\ nextSeq \in Nat /\ hdrSeq \in Nat
          /\ SeqAfter(rings) \in Nat /\ chunks \in Seq(ChunkRecord)
      BY <3>1, RecordOfIndex DEF NumberInv, IndexInv, TypeOK
    <3>3. SeqsGrow(chunks') /\ SeqAfter(chunks') = nextSeq + 1
      BY <2>1, <3>1, <3>2, NextRecordType, AppendGrows
    <3>4. /\ UNCHANGED SeqAfter(rings) /\ UNCHANGED SeqsGrow(rings)
          /\ UNCHANGED SeqAfter(DurableRecords)
      BY <3>1 DEF SeqAfter, SeqsGrow, DurableRecords, Least
    <3>5. QED
      BY <3>1, <3>2, <3>3, <3>4 DEF NumberInv, Greatest
  <2>4. QED
    BY <2>2, <2>3
<1>4. CASE FlushHarden
  BY <1>4, NumbersAfterSync DEF FlushHarden, memory
<1>5. QED
  BY <1>1, <1>2, <1>3, <1>4 DEF Flush

LEMMA ImportPreservesNumberInv ==
    ASSUME IndexInv, NumberInv, IndexInv', Import
    PROVE  NumberInv'
<1> USE DEF Goto
<1>1. CASE Stage \/ Commit
  BY <1>1, NumbersLeftAlone DEF Stage, Commit, disk, memory, history
<1>2. CASE CommitRecord
  <2>1. /\ rings = SubSeq(chunks, 1, Len(rings))
        /\ Len(rings) \in Nat /\ Len(chunks) \in Nat
        /\ Len(rings) + 1 \in 1 .. Len(chunks)
        /\ chunks \in Seq(ChunkRecord) /\ SeqsGrow(chunks)
        /\ trunkSynced \in Nat /\ ringsSynced \in Nat /\ hdrSeq \in Nat /\ nextSeq \in Nat
        /\ ringsSynced <= Len(rings)
        /\ SeqAfter(chunks) \in Nat /\ SeqAfter(chunks) <= nextSeq
    <3>1. pc = "publish" /\ Len(rings) < Len(chunks)
      BY <1>2 DEF CommitRecord
    <3>2. /\ rings = SubSeq(chunks, 1, Len(rings))
          /\ Len(rings) \in Nat /\ Len(chunks) \in Nat
      BY <3>1, StagedIndex DEF StagingLabels
    <3>3. Len(rings) + 1 \in 1 .. Len(chunks)
      BY <3>1, <3>2
    <3>4. /\ chunks \in Seq(ChunkRecord) /\ SeqsGrow(chunks)
          /\ trunkSynced \in Nat /\ ringsSynced \in Nat /\ hdrSeq \in Nat /\ nextSeq \in Nat
          /\ ringsSynced <= Len(rings)
          /\ SeqAfter(chunks) <= nextSeq
      BY <3>1 DEF IndexInv, TypeOK, NumberInv
    <3>5. SeqAfter(chunks) \in Nat
      BY <3>4, RecordOfIndex
    <3>6. QED
      BY <3>2, <3>3, <3>4, <3>5
  <2>2. rings' = SubSeq(chunks, 1, Len(rings) + 1)
    BY <1>2, <2>1, PrefixGrows DEF CommitRecord
  <2>3. /\ Len(rings) + 1 \in 0 .. Len(chunks)
        /\ Len(rings) \in 0 .. Len(rings) + 1
        /\ Least(trunkSynced, ringsSynced) \in 0 .. Len(rings)
        /\ Least(trunkSynced, ringsSynced) \in 0 .. Len(rings) + 1
        /\ Len(rings) \in 0 .. Len(chunks)
    BY <2>1 DEF Least
  <2>4. /\ SeqsGrow(rings') /\ SeqAfter(rings') \in Nat /\ SeqAfter(rings') <= SeqAfter(chunks)
    BY <2>1, <2>2, <2>3, SeqAfterGrows
  <2>5. DurableRecords' = DurableRecords
    <3>1. SubSeq(rings', 1, Least(trunkSynced, ringsSynced))
              = SubSeq(chunks, 1, Least(trunkSynced, ringsSynced))
      BY <2>1, <2>2, <2>3, PrefixOfPrefix
    <3>2. SubSeq(rings, 1, Least(trunkSynced, ringsSynced))
              = SubSeq(chunks, 1, Least(trunkSynced, ringsSynced))
      BY <2>1, <2>3, PrefixOfPrefix
    <3>3. QED
      BY <1>2, <3>1, <3>2 DEF CommitRecord, DurableRecords, Least
  <2>6. SeqAfter(DurableRecords') = SeqAfter(DurableRecords)
    BY <2>5
  <2>7. Len(rings') = Len(rings) + 1
    BY <2>1, <2>2, <2>3, PrefixInOrder, PrefixIsSeq
  <2>8. /\ UNCHANGED <<trunk, trunkSynced, ringsSynced, hdrSeq, chunks, nextSeq, numbered>>
        /\ pc # "down"
    BY <1>2 DEF CommitRecord, memory, history
  <2>9. /\ hdrSeq' <= nextSeq' /\ SeqAfter(rings') <= nextSeq' /\ SeqAfter(chunks') <= nextSeq'
    BY <2>1, <2>4, <2>8 DEF NumberInv
  <2>10. /\ trunkSynced' <= Len(trunk') /\ ringsSynced' <= Len(rings')
         /\ SeqsGrow(chunks')
         /\ numbered' <= Greatest(hdrSeq', SeqAfter(DurableRecords'))
    BY <2>1, <2>6, <2>7, <2>8 DEF NumberInv
  <2>11. QED
    BY <2>4, <2>9, <2>10 DEF NumberInv, DurableRecords
<1>3. CASE CommitSync
  BY <1>3, NumbersAfterSync DEF CommitSync
<1>4. CASE Abort
  <2>1. /\ Len(rings) = staged /\ rings = SubSeq(chunks, 1, staged)
        /\ staged \in 0 .. Len(trunk) /\ staged \in Nat
        /\ trunkSynced \in Nat /\ ringsSynced \in Nat /\ hdrSeq \in Nat /\ nextSeq \in Nat
        /\ ringsSynced <= staged
        /\ trunk \in Seq(Frame)
    <3>1. pc = "staged"
      BY <1>4 DEF Abort
    <3>2. /\ Len(rings) = staged /\ rings = SubSeq(chunks, 1, staged)
          /\ staged \in 0 .. Len(trunk) /\ staged \in Nat
      BY <3>1, StagedIndex DEF StagingLabels
    <3>3. QED
      BY <3>2 DEF IndexInv, TypeOK, NumberInv
  <2>2. /\ chunks' = rings /\ Len(trunk') = staged
        /\ trunkSynced' = Least(trunkSynced, staged)
        /\ UNCHANGED <<rings, ringsSynced, hdrSeq, nextSeq, numbered>>
    BY <1>4, <2>1, PrefixIsSeq DEF Abort, history
  <2>3. /\ trunkSynced' <= Len(trunk')
        /\ Least(trunkSynced', ringsSynced') = Least(trunkSynced, ringsSynced)
    BY <2>1, <2>2 DEF Least
  <2>4. DurableRecords' = DurableRecords
    BY <2>2, <2>3 DEF DurableRecords
  <2>5. SeqAfter(DurableRecords') = SeqAfter(DurableRecords)
    BY <2>4
  <2>6. /\ SeqsGrow(rings') /\ SeqsGrow(chunks') /\ ringsSynced' <= Len(rings')
        /\ hdrSeq' <= nextSeq' /\ SeqAfter(rings') <= nextSeq' /\ SeqAfter(chunks') <= nextSeq'
    BY <1>4, <2>2 DEF NumberInv, Abort
  <2>7. numbered' <= Greatest(hdrSeq', SeqAfter(DurableRecords'))
    BY <2>2, <2>5 DEF NumberInv
  <2>8. QED
    BY <2>3, <2>6, <2>7 DEF NumberInv, DurableRecords
<1>5. CASE Exit
  <2>1. UNCHANGED <<trunk, trunkSynced, rings, ringsSynced, hdrSeq, numbered>> /\ Forget
    BY <1>5 DEF Exit, disk, history
  <2>2. DurableRecords' = DurableRecords
    BY <2>1 DEF DurableRecords, Least
  <2>3. SeqAfter(DurableRecords') = SeqAfter(DurableRecords)
    BY <2>2
  <2>4. SeqsGrow(rings')
    BY <2>1 DEF NumberInv
  <2>5. QED
    BY <2>1, <2>3, <2>4, DurablePrefix, NumbersAfterForget DEF NumberInv
<1>6. QED
  BY <1>1, <1>2, <1>3, <1>4, <1>5 DEF Import

LEMMA WritePreservesNumberInv ==
    ASSUME IndexInv, NumberInv, IndexInv', Write \/ SetWal
    PROVE  NumberInv'
<1> USE DEF Goto
<1>1. CASE AppendEntry \/ FlushAged \/ Sync \/ SapFlush \/ SapSync
  BY <1>1, NumbersLeftAlone
  DEF AppendEntry, FlushAged, Sync, SapFlush, SapSync, disk, memory, history
<1>2. CASE ApplyWalOn \/ StartWal \/ ApplyWalOff
  BY <1>2, NumbersLeftAlone DEF ApplyWalOn, StartWal, ApplyWalOff, disk, memory, history
<1>3. CASE SyncFiles
  BY <1>3, NumbersAfterSync DEF SyncFiles, memory
<1>4. CASE SetWal
  <2>1. /\ UNCHANGED <<trunk, trunkSynced, rings, ringsSynced, hdrSeq, chunks, numbered>>
        /\ UNCHANGED <<pc, nextSeq>>
    BY <1>4 DEF SetWal, memory, history
  <2>2. DurableRecords' = DurableRecords
    BY <2>1 DEF DurableRecords, Least
  <2>3. SeqAfter(DurableRecords') = SeqAfter(DurableRecords)
    BY <2>2
  <2>4. /\ UNCHANGED SeqsGrow(rings) /\ UNCHANGED SeqsGrow(chunks)
        /\ UNCHANGED SeqAfter(rings) /\ UNCHANGED SeqAfter(chunks)
    BY <2>1 DEF SeqsGrow, SeqAfter
  <2>5. QED
    BY <2>1, <2>3, <2>4 DEF NumberInv, DurableRecords
<1>5. QED
  BY <1>1, <1>2, <1>3, <1>4 DEF Write

\* A head drop leaves every number to the header.
LEMMA DropHeadPreservesNumberInv ==
    ASSUME IndexInv, NumberInv, IndexInv',
           NEW k \in 1 .. Len(chunks), NEW rewrite \in BOOLEAN, DropHead(k, rewrite)
    PROVE  NumberInv'
<1> DEFINE n == Len(chunks) - k
           cut == chunks[k].start + chunks[k].len
<1>1. /\ chunks \in Seq(ChunkRecord) /\ rings = chunks
      /\ SeqsGrow(chunks) /\ SeqAfter(chunks) <= nextSeq /\ hdrSeq <= nextSeq
      /\ Len(chunks) \in Nat /\ Len(trunk) \in Nat /\ Len(chunks) <= Len(trunk)
      /\ n \in Nat /\ k \in Nat
      /\ trunkSynced \in Nat /\ trunkSynced <= Len(trunk)
      /\ nextSeq \in Nat /\ numbered \in Nat /\ hdrSeq \in Nat
      /\ SeqAfter(chunks) \in Nat
  <2>1. pc = "idle"
    BY DEF DropHead
  <2>2. rings = chunks
    BY <2>1, UnstagedIndex DEF StagingLabels
  <2>3. QED
    BY <2>1, <2>2, LenProperties, RecordOfIndex
    DEF IndexInv, TypeOK, NumberInv, IndexWithinTrunk, CompSize
<1>2. /\ rings' = chunks' /\ ringsSynced' = n /\ hdrSeq' = nextSeq /\ nextSeq' = nextSeq
      /\ numbered' = Greatest(numbered, nextSeq)
      /\ chunks' = [i \in 1 .. n |-> [chunks[i + k] EXCEPT !.start = @ - cut]]
  <2>1. /\ rings' = chunks' /\ ringsSynced' = Len(chunks')
        /\ hdrSeq' = nextSeq /\ nextSeq' = nextSeq
        /\ numbered' = Greatest(numbered, nextSeq)
        /\ chunks' = [i \in 1 .. n |-> [chunks[i + k] EXCEPT !.start = @ - cut]]
    BY DEF DropHead
  <2>2. DOMAIN chunks' = 1 .. n /\ DOMAIN chunks' = 1 .. Len(chunks') /\ Len(chunks') \in Nat
    BY <2>1, LenProperties DEF IndexInv, TypeOK
  <2>3. Len(chunks') = n
    BY <1>1, <2>2
  <2>4. QED
    BY <2>1, <2>3
<1>3. /\ Len(chunks') = n /\ chunks' \in Seq(ChunkRecord)
      /\ \A i \in 1 .. n : i + k \in 1 .. Len(chunks) /\ chunks'[i].seq = chunks[i + k].seq
  <2>1. chunks' \in Seq(ChunkRecord) /\ Len(chunks') = n
    <3>1. DOMAIN chunks' = 1 .. n
      BY <1>2
    <3>2. chunks' \in Seq(ChunkRecord)
      BY DEF IndexInv, TypeOK
    <3>3. DOMAIN chunks' = 1 .. Len(chunks') /\ Len(chunks') \in Nat
      BY <3>2, LenProperties
    <3>4. QED
      BY <1>1, <3>1, <3>2, <3>3
  <2>2. ASSUME NEW i \in 1 .. n
        PROVE  i + k \in 1 .. Len(chunks) /\ chunks'[i].seq = chunks[i + k].seq
    <3>1. i + k \in 1 .. Len(chunks)
      BY <1>1
    <3>2. chunks[i + k] \in ChunkRecord
      BY <1>1, <3>1, RecordOfIndex
    <3>3. chunks'[i] = [chunks[i + k] EXCEPT !.start = @ - cut]
      BY <1>2
    <3>4. QED
      BY <3>1, <3>2, <3>3 DEF ChunkRecord
  <2>3. QED
    BY <2>1, <2>2
<1> HIDE DEF cut
<1>4. SeqsGrow(chunks')
  <2>1. ASSUME NEW i \in 1 .. n, NEW j \in 1 .. n, i < j
        PROVE  chunks'[i].seq < chunks'[j].seq
    <3>1. i + k \in 1 .. Len(chunks) /\ j + k \in 1 .. Len(chunks) /\ i + k < j + k
      BY <1>1, <1>3, <2>1
    <3>2. chunks[i + k].seq < chunks[j + k].seq
      BY <1>1, <3>1 DEF SeqsGrow
    <3>3. chunks'[i].seq = chunks[i + k].seq /\ chunks'[j].seq = chunks[j + k].seq
      BY <1>3, <2>1
    <3>4. QED
      BY <3>2, <3>3, Zenon
  <2>2. QED
    BY <1>3, <2>1 DEF SeqsGrow
<1>5. SeqAfter(chunks') <= nextSeq'
  <2>1. CASE n = 0
    <3>1. chunks' = <<>>
      BY <1>3, <2>1, EmptySeq
    <3>2. SeqAfter(chunks') = 0
      BY <3>1 DEF SeqAfter
    <3>3. nextSeq' \in Nat
      BY DEF IndexInv, TypeOK
    <3>4. QED
      BY <3>2, <3>3
  <2>2. CASE n > 0
    <3>1. /\ n \in 1 .. n /\ n + k = Len(chunks) /\ chunks' # <<>> /\ chunks # <<>>
      BY <1>1, <1>3, <2>2, RecordOfIndex
    <3>2. chunks'[n].seq = chunks[Len(chunks)].seq
      BY <1>3, <3>1
    <3>3. SeqAfter(chunks') = SeqAfter(chunks)
      BY <1>3, <3>1, <3>2 DEF SeqAfter
    <3>4. QED
      BY <1>1, <1>2, <3>3
  <2>3. QED
    BY <1>1, <2>1, <2>2
<1>6. trunkSynced' <= Len(trunk') /\ trunkSynced' \in Nat
  <2> DEFINE last == IF rewrite THEN CompSize ELSE Len(trunk)
  <2>1. /\ last \in Nat /\ last <= Len(trunk) /\ n <= last - k /\ k + 1 \in Int
        /\ trunk \in Seq(Frame)
    BY <1>1 DEF CompSize, IndexInv, TypeOK
  <2>2. \A i \in k + 1 .. last : trunk[i] \in Frame
    <3>1. \A i \in k + 1 .. last : i \in 1 .. Len(trunk)
      BY <1>1, <2>1
    <3>2. QED
      BY <2>1, <3>1, ElementOfSeq
  <2>3. /\ trunk' = SubSeq(trunk, k + 1, last)
        /\ trunkSynced' = IF rewrite THEN CompSize - k ELSE Greatest(0, trunkSynced - k)
    BY DEF DropHead
  <2>4. last = IF rewrite THEN CompSize ELSE Len(trunk)
    OBVIOUS
  <2> HIDE DEF last
  <2>5. Len(SubSeq(trunk, k + 1, last)) = IF k + 1 <= last THEN last - (k + 1) + 1 ELSE 0
    BY <2>1, <2>2, SubSeqProperties
  <2>6. Len(trunk') = last - k
    BY <1>1, <2>1, <2>3, <2>5
  <2>7. QED
    BY <1>1, <2>1, <2>3, <2>4, <2>6 DEF Greatest, CompSize
<1>7. SeqAfter(DurableRecords') \in Nat
  <2>1. Least(trunkSynced', ringsSynced') \in 0 .. Len(chunks')
    BY <1>1, <1>2, <1>3, <1>6 DEF Least
  <2>2. SubSeq(chunks', 1, Least(trunkSynced', ringsSynced')) \in Seq(ChunkRecord)
    BY <1>3, <2>1, PrefixIsSeq
  <2>3. QED
    BY <1>2, <2>2, RecordOfIndex DEF DurableRecords
<1>8. numbered <= nextSeq
  BY <1>1, DurablePrefix DEF NumberInv, Greatest
<1>9. numbered' <= Greatest(hdrSeq', SeqAfter(DurableRecords'))
  BY <1>1, <1>2, <1>7, <1>8 DEF Greatest
<1>10. ringsSynced' <= Len(rings') /\ hdrSeq' <= nextSeq'
  BY <1>1, <1>2, <1>3
<1>11. QED
  BY <1>2, <1>4, <1>5, <1>6, <1>9, <1>10 DEF NumberInv, DurableRecords

\* No environment lets the store be truncated to zero.
NeverReset == \A e \in Environments : "reset" \notin e.operations

LEMMA ReshapePreservesNumberInv ==
    ASSUME IndexInv, NumberInv, IndexInv', Reshape, NeverReset
    PROVE  NumberInv'
<1> USE DEF Goto
<1>1. ASSUME NEW k \in 1 .. Len(chunks), NEW rewrite \in BOOLEAN, DropHead(k, rewrite)
      PROVE  NumberInv'
  BY <1>1, DropHeadPreservesNumberInv
<1>2. CASE Rebase \/ RebaseFails \/ Adopt \/ ResetSegment
  BY <1>2, NumbersLeftAlone DEF Rebase, RebaseFails, Adopt, ResetSegment, disk, memory, history
<1>3. CASE AdoptFrame
  <2>1. [lo |-> hi, hi |-> hi + 1] \in Frame
    BY DEF Frame, IndexInv, TypeOK
  <2>2. QED
    BY <1>3, <2>1, NumbersAfterFrame DEF AdoptFrame, memory, history
<1>4. CASE AdoptRecord
  <2>1. rings = chunks
    BY <1>4, UnstagedIndex DEF AdoptRecord, StagingLabels
  <2>2. QED
    BY <1>4, <2>1, NumbersAfterRecord DEF AdoptRecord, history
<1>5. CASE AdoptSync
  BY <1>5, NumbersAfterSync DEF AdoptSync, memory
<1>6. CASE Reset
  BY <1>6 DEF Reset, NeverReset, IndexInv, TypeOK
<1>7. QED
  BY <1>1, <1>2, <1>3, <1>4, <1>5, <1>6 DEF Reshape

LEMMA FailPreservesNumberInv ==
    ASSUME IndexInv, NumberInv, IndexInv', Fail
    PROVE  NumberInv'
<1>1. CASE Crash
  <2>1. UNCHANGED <<trunk, trunkSynced, rings, ringsSynced, hdrSeq, numbered>> /\ Forget
    BY <1>1 DEF Crash, disk, history
  <2>2. DurableRecords' = DurableRecords
    BY <2>1 DEF DurableRecords, Least
  <2>3. SeqAfter(DurableRecords') = SeqAfter(DurableRecords)
    BY <2>2
  <2>4. SeqsGrow(rings')
    BY <2>1 DEF NumberInv
  <2>5. QED
    BY <2>1, <2>3, <2>4, DurablePrefix, NumbersAfterForget DEF NumberInv
<1>2. CASE LosePower
  <2> DEFINE t == trunkSynced'
             r == ringsSynced'
  <2>1. /\ t \in trunkSynced .. Len(trunk) /\ trunk' = SubSeq(trunk, 1, t)
        /\ r \in ringsSynced .. Len(rings) /\ rings' = SubSeq(rings, 1, r)
        /\ Forget /\ UNCHANGED <<hdrSeq, numbered>>
    BY <1>2 DEF LosePower, history
  <2>2. /\ trunkSynced \in Nat /\ ringsSynced \in Nat
        /\ Len(trunk) \in Nat /\ Len(rings) \in Nat
        /\ rings \in Seq(ChunkRecord) /\ SeqsGrow(rings) /\ trunk \in Seq(Frame)
    BY LenProperties DEF IndexInv, TypeOK, NumberInv
  <2>3. t \in 0 .. Len(trunk) /\ r \in 0 .. Len(rings) /\ t \in Nat /\ r \in Nat
    BY <2>1, <2>2
  <2>4. /\ Len(trunk') = t /\ Len(rings') = r
    BY <2>1, <2>2, <2>3, PrefixIsSeq
  <2> DEFINE d == Least(trunkSynced, ringsSynced)
             e == Least(t, r)
  <2>5. /\ e \in 0 .. r /\ e \in 0 .. Len(rings) /\ d \in 0 .. e
    BY <2>1, <2>2, <2>3 DEF Least
  <2>6. SubSeq(rings', 1, e) = SubSeq(rings, 1, e)
    BY <2>1, <2>2, <2>3, <2>5, PrefixOfPrefix
  <2>7. /\ SeqAfter(SubSeq(rings, 1, e)) \in Nat
        /\ SeqAfter(SubSeq(rings, 1, d)) <= SeqAfter(SubSeq(rings, 1, e))
    BY <2>2, <2>5, SeqAfterGrows
  <2>8. /\ DurableRecords = SubSeq(rings, 1, d)
        /\ DurableRecords' = SubSeq(rings, 1, e)
    BY <2>6 DEF DurableRecords
  <2>9. 0 \in 0 .. r
    BY <2>3
  <2>10. SeqsGrow(rings')
    BY <2>1, <2>2, <2>3, <2>9, SeqAfterGrows
  <2>11. trunkSynced' <= Len(trunk') /\ ringsSynced' <= Len(rings')
    BY <2>3, <2>4
  <2>12. QED
    BY <2>1, <2>7, <2>8, <2>10, <2>11, NumbersAfterForget
<1>3. QED
  BY <1>1, <1>2 DEF Fail

\* Chunk numbers are for ever: whatever crashes, loses power, fails, is rolled
\* back or dropped, the number the next chunk gets was never given to a chunk
\* that was durable.  Only a reset is left out: the header it keeps is behind
\* the chunks it empties.
THEOREM NumbersAreForEver ==
    ASSUME NeverReset
    PROVE  Spec => []NumbersNotReused
<1>1. Init => NumberInv
  <2> SUFFICES ASSUME Init PROVE NumberInv
    OBVIOUS
  <2>1. DurableRecords = <<>> /\ SeqAfter(DurableRecords) = 0
    <3>1. DurableRecords = SubSeq(<<>>, 1, 0)
      BY DEF Init, DurableRecords, Least
    <3>2. QED
      BY <3>1, SubSeqEmpty DEF SeqAfter
  <2>2. QED
    BY <2>1, EmptySeq DEF Init, NumberInv, SeqsGrow, Greatest
<1>2. IndexInv /\ IndexInv' /\ NumberInv /\ [Next]_vars => NumberInv'
  <2> SUFFICES ASSUME IndexInv, IndexInv', NumberInv, [Next]_vars PROVE NumberInv'
    OBVIOUS
  <2>1. CASE Next
    BY <2>1, OpenPreservesNumberInv, FlushPreservesNumberInv, ImportPreservesNumberInv,
       WritePreservesNumberInv, ReshapePreservesNumberInv, FailPreservesNumberInv DEF Next
  <2>2. CASE UNCHANGED vars
    BY <2>2
    DEF vars, disk, memory, history, NumberInv, SeqsGrow, SeqAfter, DurableRecords, Least
  <2>3. QED
    BY <2>1, <2>2
<1>3. IndexInv /\ NumberInv => NumbersNotReused
  <2> SUFFICES ASSUME IndexInv, NumberInv, pc # "down" PROVE numbered <= nextSeq
    BY DEF NumbersNotReused
  <2>1. /\ numbered \in Nat /\ nextSeq \in Nat /\ hdrSeq \in Nat
    BY DEF IndexInv, TypeOK
  <2>2. QED
    BY <2>1, DurablePrefix DEF NumberInv, Greatest
<1>4. QED
  BY <1>1, <1>2, <1>3, IndexInvInductive, PTL DEF Spec

------------------------------------------------------------------------------
\* The frames t that the first n records of an index name follow one another from
\* the head h of the tape, and the records measure them right.
Laid(t, h, recs, n) ==
    \A i \in 1 .. n :
        /\ t[i].lo = (IF i = 1 THEN h ELSE t[i - 1].hi)
        /\ t[i].hi = t[i].lo + recs[i].len
        /\ recs[i].start = t[i].lo - h

Opening == {"open_seal", "replay_frame", "replay_record", "replay_sync",
            "replay_unlink", "open_live"}

\* Where the buffer is known to be empty.
Emptied == {"open_seal", "replay_unlink", "open_live", "harden", "swap", "unlink",
            "sync", "publish", "start_wal", "adopt", "adopt_record", "adopt_sync",
            "reset"}

\* The tape on the disk and the tape in memory.
SyncedWithin == trunkSynced <= Len(trunk) /\ ringsSynced <= Len(rings)

InMemory ==
    /\ Laid(trunk, head, chunks, CompSize)
    /\ IF pc = "reset" THEN chunks = <<>> ELSE lo = TapeEnd(CompSize)
    /\ pc \in {"record", "replay_record", "replay_sync"} =>
          trunk[CompSize + 1].lo = lo /\ trunk[CompSize + 1].hi = hi
    /\ pc = "adopt_record" =>
          trunk[CompSize + 1].lo = hi /\ trunk[CompSize + 1].hi = hi + 1
    /\ pc \in Emptied => lo = hi

LaidInv ==
    /\ SyncedWithin
    /\ Laid(trunk, head, rings, Intact)
    /\ pc # "down" => InMemory

------------------------------------------------------------------------------
\* A writer that may die, and what its store comes back with for sure.
Mortal == env.crashes # {} /\ "writer" \in env.roles
PowerFails == "power" \in env.crashes
Sure == IF PowerFails THEN Least(trunkSynced, ringsSynced) ELSE Intact

SealOpen == seal.there /\ seal.lo < seal.hi
SapOpen == sap.lo < sap.hi
Pending == SealOpen /\ seal.base >= Sure

\* What an open finds fits the index it goes by, whatever a power loss leaves of
\* it: a seal that is replayed begins where the index ends, and one that landed is
\* behind it; a live segment begins where both end.
Recoverable ==
    /\ SealOpen => seal.base <= Sure
    /\ Pending => /\ seal.lo = TapeEnd(Sure)
                  /\ Sure < Intact => (seal.hi = TapeEnd(Sure + 1))
    /\ SapOpen => /\ sap.there
                  /\ Sure = Intact
                  /\ sap.lo = TapeEnd(Sure)
                  /\ ~Pending

------------------------------------------------------------------------------
\* A tape that keeps its first frames and their records stays laid.
LEMMA LaidPrefix ==
    ASSUME NEW t, NEW u, NEW h, NEW r, NEW s, NEW n \in Nat, NEW m \in 0 .. n,
           Laid(t, h, r, n),
           \A i \in 1 .. m : u[i] = t[i] /\ s[i] = r[i]
    PROVE  Laid(u, h, s, m)
<1>1. ASSUME NEW i \in 1 .. m
      PROVE  /\ u[i].lo = (IF i = 1 THEN h ELSE u[i - 1].hi)
             /\ u[i].hi = u[i].lo + s[i].len
             /\ s[i].start = u[i].lo - h
  <2>1. i \in 1 .. n /\ u[i] = t[i] /\ s[i] = r[i]
    OBVIOUS
  <2>2. i # 1 => i - 1 \in 1 .. m
    OBVIOUS
  <2>3. i # 1 => u[i - 1] = t[i - 1]
    BY <2>2
  <2>4. QED
    BY <2>1, <2>3 DEF Laid
<1>2. QED
  BY <1>1 DEF Laid

\* One more frame, with its record, at the end.
LEMMA LaidOneMore ==
    ASSUME NEW t, NEW h, NEW r, NEW s, NEW n \in Nat,
           Laid(t, h, r, n),
           \A i \in 1 .. n : s[i] = r[i],
           t[n + 1].lo = (IF n = 0 THEN h ELSE t[n].hi),
           t[n + 1].hi = t[n + 1].lo + s[n + 1].len,
           s[n + 1].start = t[n + 1].lo - h
    PROVE  Laid(t, h, s, n + 1)
<1>1. ASSUME NEW i \in 1 .. n + 1
      PROVE  /\ t[i].lo = (IF i = 1 THEN h ELSE t[i - 1].hi)
             /\ t[i].hi = t[i].lo + s[i].len
             /\ s[i].start = t[i].lo - h
  <2>1. CASE i \in 1 .. n
    BY <2>1 DEF Laid
  <2>2. CASE i = n + 1
    <3>1. (i = 1 <=> n = 0) /\ i - 1 = n
      BY <2>2
    <3>2. QED
      BY <2>2, <3>1
  <2>3. QED
    BY <2>1, <2>2
<1>2. QED
  BY <1>1 DEF Laid

\* An index that is laid ends where its tape does.
LEMMA LaidEnd ==
    ASSUME NEW t \in Seq(Frame), NEW h \in Nat, NEW r \in Seq(ChunkRecord),
           NEW n \in 0 .. Len(r), n <= Len(t), Laid(t, h, r, n)
    PROVE  IndexedEnd(SubSeq(r, 1, n)) = (IF n = 0 THEN h ELSE t[n].hi) - h
<1>1. n \in Nat /\ Len(r) \in Nat /\ Len(t) \in Nat
  BY LenProperties
<1> DEFINE p == SubSeq(r, 1, n)
<1>2. p \in Seq(ChunkRecord) /\ Len(p) = n /\ \A i \in 1 .. n : p[i] = r[i]
  BY PrefixIsSeq
<1> HIDE DEF p
<1>3. CASE n = 0
  BY <1>2, <1>3, EmptySeq, RecordOfIndex DEF IndexedEnd
<1>4. CASE n # 0
  <2>1. n \in 1 .. n /\ n \in 1 .. Len(r) /\ n \in 1 .. Len(t)
    BY <1>1, <1>4
  <2>2. t[n] \in Frame /\ r[n] \in ChunkRecord
    BY <2>1, ElementOfSeq
  <2>3. /\ t[n].lo \in Nat /\ t[n].hi \in Nat /\ r[n].start \in Nat /\ r[n].len \in Nat
    BY <2>2 DEF Frame, ChunkRecord
  <2>4. t[n].hi = t[n].lo + r[n].len /\ r[n].start = t[n].lo - h
    BY <2>1 DEF Laid
  <2>5. IndexedEnd(p) = r[n].start + r[n].len
    BY <1>2, <1>4, <2>1, RecordOfIndex DEF IndexedEnd
  <2>6. QED
    BY <1>4, <2>3, <2>4, <2>5 DEF p
<1>5. QED
  BY <1>3, <1>4 DEF p

\* The sizes and positions of a store.
LEMMA SizesOfStore ==
    ASSUME IndexInv
    PROVE  /\ CompSize \in Nat /\ Len(trunk) \in Nat /\ Len(rings) \in Nat
           /\ trunkSynced \in Nat /\ ringsSynced \in Nat
           /\ Intact \in Nat /\ Intact <= Len(rings) /\ Intact <= Len(trunk)
           /\ CompSize <= Len(trunk)
           /\ lo \in Nat /\ hi \in Nat /\ lo <= hi
           /\ head \in Nat /\ bufStart \in Nat /\ acked \in Nat
           /\ trunk \in Seq(Frame) /\ rings \in Seq(ChunkRecord) /\ chunks \in Seq(ChunkRecord)
           /\ \A i \in 1 .. Len(trunk) : trunk[i] \in Frame /\ trunk[i].lo \in Nat /\ trunk[i].hi \in Nat
<1>1. \A i \in 1 .. Len(trunk) : trunk[i] \in Frame
  BY ElementOfSeq DEF IndexInv, TypeOK
<1>2. \A i \in 1 .. Len(trunk) : trunk[i].lo \in Nat /\ trunk[i].hi \in Nat
  BY <1>1 DEF Frame
<1>3. QED
  BY SMTT(60), <1>1, <1>2, LenProperties DEF IndexInv, TypeOK, IndexWithinTrunk, CompSize, Intact, Least

\* What a frame and a record leave where they are written.
LEMMA WriteFramePlaces ==
    ASSUME IndexInv, NEW f \in Frame, WriteFrame(f)
    PROVE  /\ \A i \in 1 .. CompSize : trunk'[i] = trunk[i]
           /\ trunk'[CompSize + 1] = f
           /\ trunkSynced' = Least(trunkSynced, CompSize)
           /\ trunkSynced' <= Len(trunk')
           /\ Len(trunk') \in Nat
<1>1. /\ CompSize \in Nat /\ Len(trunk) \in Nat /\ CompSize <= Len(trunk)
      /\ trunk \in Seq(Frame) /\ trunkSynced \in Nat
  BY SizesOfStore
<1>2. CASE CompSize < Len(trunk)
  <2>1. CompSize + 1 \in 1 .. Len(trunk)
    BY <1>1, <1>2
  <2>2. QED
    BY <1>1, <1>2, <2>1, ExceptSeq DEF WriteFrame, Least
<1>3. CASE CompSize = Len(trunk)
  BY <1>1, <1>3, AppendIsSeq DEF WriteFrame, Least
<1>4. QED
  BY <1>1, <1>2, <1>3

\* A step that leaves the tape and the buffer's beginning alone.
LEMMA MemoryLeftAlone ==
    ASSUME InMemory, UNCHANGED <<trunk, head, chunks, lo>>,
           pc # "reset",
           pc' \notin {"record", "replay_record", "replay_sync", "adopt_record", "reset"},
           pc' \in Emptied => lo = hi'
    PROVE  InMemory'
BY DEF InMemory, CompSize, TapeEnd, Laid

\* Where a call of the flush goes.
LEMMA CallFlushEmptied ==
    ASSUME IndexInv, NEW next \in Returns \ {"none"}, CallFlush(next)
    PROVE  /\ pc' \in Emptied => lo = hi
           /\ pc' \notin {"record", "replay_record", "replay_sync", "adopt_record", "reset"}
BY SizesOfStore DEF CallFlush, Emptied, Returns

\* An open reads a tape that is laid and adds at most what the seal holds, which
\* follows on it.
LEMMA OpenKeepsTape ==
    ASSUME IndexInv, LaidInv, Open,
           (pc = "open_seal" /\ seal.there /\ seal.lo < seal.hi /\ seal.base >= CompSize)
               => seal.lo = TapeEnd(CompSize),
           (pc = "open_live" /\ sap.lo < sap.hi) => sap.lo = lo
    PROVE  InMemory'
<1> USE DEF Goto
<1>0. pc # "down" => InMemory
  BY DEF LaidInv
<1>1. ASSUME NEW r \in Programs, OpenIndex(r)
      PROVE  InMemory'
  <2>1. Intact \in 0 .. Len(rings) /\ Intact \in Nat
    BY SizesOfStore
  <2>2. /\ chunks' = SubSeq(rings, 1, Intact) /\ Len(chunks') = Intact
        /\ \A i \in 1 .. Intact : chunks'[i] = rings[i]
    <3>1. chunks' = SubSeq(rings, 1, Intact)
      BY <1>1 DEF OpenIndex
    <3>2. QED
      BY <2>1, <3>1, PrefixIsSeq, SizesOfStore
  <2>3. UNCHANGED <<trunk, head>> /\ pc' = "open_seal" /\ lo' = TapeEnd(Intact) /\ hi' = lo'
    BY <1>1 DEF OpenIndex, history
  <2>4. Laid(trunk, head, rings, Intact)
    BY DEF LaidInv
  <2>5. Laid(trunk', head', chunks', Intact)
    <3>1. Intact \in 0 .. Intact
      BY <2>1
    <3>2. Laid(trunk, head, chunks', Intact)
      BY ZenonT(60), <2>1, <2>2, <2>4, <3>1, LaidPrefix
    <3>3. QED
      BY <2>3, <3>2
  <2>6. QED
    BY <2>2, <2>3, <2>5 DEF InMemory, CompSize, TapeEnd
<1>2. CASE DiscardSeal \/ ReplayUnlink
  BY <1>2, <1>0, MemoryLeftAlone DEF DiscardSeal, ReplayUnlink, memory, history, InMemory, Emptied
<1>3. CASE ReplaySeal
  <2>1. seal.lo = TapeEnd(CompSize)
    BY <1>3 DEF ReplaySeal
  <2>2. QED
    BY <1>0, <1>3, <2>1 DEF ReplaySeal, disk, history, InMemory, CompSize, TapeEnd, Emptied
<1>4. CASE ReplayFrame
  <2>1. [lo |-> lo, hi |-> hi] \in Frame
    BY SizesOfStore DEF Frame
  <2>2. /\ \A i \in 1 .. CompSize : trunk'[i] = trunk[i]
        /\ trunk'[CompSize + 1] = [lo |-> lo, hi |-> hi]
    BY <1>4, <2>1, WriteFramePlaces DEF ReplayFrame
  <2>3. /\ UNCHANGED <<head, chunks, lo, hi>> /\ pc = "replay_frame" /\ pc' = "replay_record"
    BY <1>4 DEF ReplayFrame, memory, history
  <2>4. Laid(trunk', head', chunks', CompSize)
    BY <1>0, <2>2, <2>3, LaidPrefix, SizesOfStore DEF InMemory
  <2>5. lo = TapeEnd(CompSize)'
    <3>1. lo = TapeEnd(CompSize)
      BY <1>0, <2>3 DEF InMemory
    <3>2. CompSize # 0 => trunk'[CompSize] = trunk[CompSize]
      <4>1. CompSize \in Nat
        BY SizesOfStore
      <4>2. CompSize # 0 => CompSize \in 1 .. CompSize
        BY <4>1
      <4>3. QED
        BY <2>2, <4>2
    <3>3. QED
      BY <2>3, <3>1, <3>2 DEF TapeEnd, CompSize
  <2>6. QED
    BY <2>2, <2>3, <2>4, <2>5 DEF InMemory, CompSize, Emptied
<1>5. CASE ReplayRecord
  BY <1>5, <1>0 DEF ReplayRecord, history, InMemory, CompSize, TapeEnd, Emptied
<1>6. CASE ReplaySync
  <2>1. /\ Len(rings) = CompSize + 1 /\ chunks = SubSeq(rings, 1, CompSize)
        /\ rings[CompSize + 1].start = bufStart
        /\ rings[CompSize + 1].len = hi - lo
    <3>1. pc = "replay_sync"
      BY <1>6 DEF ReplaySync
    <3>2. /\ Len(rings) = CompSize + 1 /\ chunks = SubSeq(rings, 1, CompSize)
          /\ rings[Len(rings)].start = bufStart
          /\ rings[Len(rings)].len = hi - lo
      BY <3>1 DEF IndexInv, RingsFollowChunks
    <3>3. QED
      BY <3>2
  <2>2. /\ UNCHANGED <<trunk, head>> /\ chunks' = rings /\ lo' = hi /\ hi' = hi
        /\ pc' = "replay_unlink" /\ pc = "replay_sync"
    BY <1>6 DEF ReplaySync
  <2>3. /\ trunk[CompSize + 1].lo = lo /\ trunk[CompSize + 1].hi = hi
        /\ lo = TapeEnd(CompSize) /\ Laid(trunk, head, chunks, CompSize)
    BY <1>0, <2>2 DEF InMemory
  <2>4. \A i \in 1 .. CompSize : rings[i] = chunks[i]
    <3>1. CompSize \in 0 .. Len(rings)
      BY <2>1, SizesOfStore
    <3>2. QED
      BY <2>1, <3>1, PrefixIsSeq, SizesOfStore
  <2>5. bufStart = lo - head
    <3>1. IndexedEnd(SubSeq(chunks, 1, CompSize)) = TapeEnd(CompSize) - head
      BY <2>3, LaidEnd, SizesOfStore DEF CompSize, TapeEnd
    <3>2. SubSeq(chunks, 1, CompSize) = chunks
      BY PrefixIsSeq, SizesOfStore DEF CompSize
    <3>3. QED
      BY <2>3, <3>1, <3>2 DEF IndexInv
  <2>6. Laid(trunk, head, rings, CompSize + 1)
    <3>1. /\ lo \in Nat /\ hi \in Nat /\ CompSize \in Nat
      BY SizesOfStore
    <3>2. lo + (hi - lo) = hi
      BY <3>1
    <3>3. QED
      BY <2>1, <2>3, <2>4, <2>5, <3>1, <3>2, LaidOneMore DEF TapeEnd
  <2>7. QED
    BY <2>1, <2>2, <2>3, <2>6, SizesOfStore DEF InMemory, CompSize, TapeEnd
<1>7. CASE OpenLive
  <2>1. lo' = lo
    BY <1>7 DEF OpenLive
  <2>2. UNCHANGED <<trunk, head, chunks>> /\ pc = "open_live" /\ pc' \in {"stage", "idle"}
    BY <1>7 DEF OpenLive, Opened, history
  <2>3. QED
    BY <1>0, <2>1, <2>2, MemoryLeftAlone DEF Emptied
<1>8. QED
  BY <1>1, <1>2, <1>3, <1>4, <1>5, <1>6, <1>7 DEF Open

\* What a buffer that becomes a chunk adds to the tape in memory.
LEMMA ChunkAdded ==
    ASSUME IndexInv, InMemory, NEW n \in Nat,
           UNCHANGED <<trunk, head>>,
           chunks' = Append(chunks, NextRecord(n)),
           lo = TapeEnd(CompSize),
           trunk[CompSize + 1].lo = lo, trunk[CompSize + 1].hi = lo + n
    PROVE  /\ CompSize' = CompSize + 1
           /\ Laid(trunk, head, chunks, CompSize)'
           /\ TapeEnd(CompSize)' = lo + n
<1>1. /\ CompSize \in Nat /\ CompSize \in 0 .. CompSize
      /\ chunks \in Seq(ChunkRecord) /\ NextRecord(n) \in ChunkRecord
      /\ NextRecord(n).start = bufStart /\ NextRecord(n).len = n
  BY SizesOfStore, NextRecordType
<1>2. /\ Len(chunks') = CompSize + 1
      /\ \A i \in 1 .. CompSize : chunks'[i] = chunks[i]
      /\ chunks'[CompSize + 1] = NextRecord(n)
  BY <1>1, AppendIsSeq DEF CompSize
<1>3. Laid(trunk, head, chunks, CompSize)
  BY DEF InMemory
<1>4. bufStart = lo - head
  <2>1. IndexedEnd(SubSeq(chunks, 1, CompSize)) = TapeEnd(CompSize) - head
    BY <1>3, LaidEnd, SizesOfStore DEF CompSize, TapeEnd
  <2>2. SubSeq(chunks, 1, CompSize) = chunks
    BY PrefixIsSeq, SizesOfStore DEF CompSize
  <2>3. QED
    BY <2>1, <2>2 DEF IndexInv
<1>5. Laid(trunk, head, chunks', CompSize + 1)
  BY <1>1, <1>2, <1>3, <1>4, LaidOneMore DEF TapeEnd
<1>6. QED
  BY <1>1, <1>2, <1>5 DEF CompSize, TapeEnd

\* A frame written past the index leaves the tape in memory as it was.
LEMMA FrameBeyond ==
    ASSUME IndexInv, InMemory, pc # "reset", NEW f \in Frame, WriteFrame(f),
           UNCHANGED <<head, chunks, lo>>
    PROVE  /\ Laid(trunk, head, chunks, CompSize)'
           /\ lo = TapeEnd(CompSize) /\ lo = TapeEnd(CompSize)'
           /\ trunk'[CompSize' + 1] = f
<1>1. /\ \A i \in 1 .. CompSize : trunk'[i] = trunk[i]
      /\ trunk'[CompSize + 1] = f
  BY WriteFramePlaces
<1>2. CompSize \in Nat
  BY SizesOfStore
<1>3. Laid(trunk, head, chunks, CompSize) /\ lo = TapeEnd(CompSize)
  BY DEF InMemory
<1>4. Laid(trunk', head, chunks, CompSize)
  <2>1. CompSize \in 0 .. CompSize
    BY <1>2
  <2>2. QED
    BY <1>1, <1>2, <1>3, <2>1, LaidPrefix
<1>5. CompSize # 0 => trunk'[CompSize] = trunk[CompSize]
  <2>1. CompSize # 0 => CompSize \in 1 .. CompSize
    BY <1>2
  <2>2. QED
    BY <1>1, <2>1
<1>6. QED
  BY <1>1, <1>3, <1>4, <1>5 DEF CompSize, TapeEnd

\* A flush adds the buffer's frame, and then its record, where the tape ends.
LEMMA FlushKeepsTape ==
    ASSUME IndexInv, LaidInv, Flush
    PROVE  InMemory'
<1> USE DEF Goto
<1>0. pc # "down" /\ InMemory
  BY DEF LaidInv, Flush, FlushBegin, FlushFrame, FlushRecord, FlushHarden, FlushSwap, FlushUnlink,
         FrameFails, RecordFails, HardenFails
<1>1. CASE FlushFrame
  <2>1. [lo |-> lo, hi |-> hi] \in Frame
    BY SizesOfStore DEF Frame
  <2>2. /\ WriteFrame([lo |-> lo, hi |-> hi])
        /\ UNCHANGED <<head, chunks, lo, hi>> /\ pc = "frame" /\ pc' = "record"
    BY <1>1 DEF FlushFrame, memory, history
  <2>3. /\ Laid(trunk, head, chunks, CompSize)'
        /\ lo = TapeEnd(CompSize)'
        /\ trunk'[CompSize' + 1] = [lo |-> lo, hi |-> hi]
    BY <1>0, <2>1, <2>2, FrameBeyond
  <2>4. QED
    BY <2>2, <2>3 DEF InMemory, Emptied
<1>2. CASE FlushRecord
  <2>1. /\ pc = "record" /\ UNCHANGED <<trunk, head>>
        /\ chunks' = Append(chunks, NextRecord(hi - lo)) /\ lo' = hi /\ hi' = hi
        /\ pc' \in {"harden", after}
    BY <1>2 DEF FlushRecord, history
  <2>2. /\ hi - lo \in Nat /\ lo + (hi - lo) = hi
    BY SizesOfStore
  <2>3. /\ Laid(trunk, head, chunks, CompSize)'
        /\ TapeEnd(CompSize)' = hi
    BY <1>0, <2>1, <2>2, ChunkAdded DEF InMemory
  <2>4. pc' \notin {"record", "replay_record", "replay_sync", "adopt_record", "reset"}
    BY <2>1 DEF IndexInv, TypeOK, Returns
  <2>5. QED
    BY <2>1, <2>3, <2>4 DEF InMemory
<1>3. CASE FlushUnlink
  <2>1. pc = "unlink" /\ pc' = after /\ UNCHANGED <<trunk, head, chunks, lo, hi>>
    BY <1>3 DEF FlushUnlink, memory, history
  <2>2. lo = hi
    BY <1>0, <2>1 DEF InMemory, Emptied
  <2>3. pc' \notin {"record", "replay_record", "replay_sync", "adopt_record", "reset"}
    BY <2>1 DEF IndexInv, TypeOK, Returns
  <2>4. QED
    BY <1>0, <2>1, <2>2, <2>3, MemoryLeftAlone
<1>4. CASE FlushBegin \/ FrameFails \/ RecordFails \/ HardenFails
  <2>1. /\ UNCHANGED <<trunk, head, chunks, lo, hi>> /\ pc # "reset"
        /\ pc' \in {"frame", "exit", "idle"}
    BY <1>4 DEF FlushBegin, FrameFails, RecordFails, HardenFails, Unseal, memory, history
  <2>2. QED
    BY <1>0, <2>1, MemoryLeftAlone DEF Emptied
<1>5. CASE FlushHarden \/ FlushSwap
  <2>1. /\ UNCHANGED <<trunk, head, chunks, lo, hi>> /\ pc \in {"harden", "swap"}
        /\ pc' \in {"swap", "unlink"}
    BY <1>5 DEF FlushHarden, FlushSwap, memory, history
  <2>2. lo = hi
    BY <1>0, <2>1 DEF InMemory, Emptied
  <2>3. QED
    BY <1>0, <2>1, <2>2, MemoryLeftAlone
<1>6. QED
  BY <1>1, <1>2, <1>3, <1>4, <1>5 DEF Flush

\* A delivery adds the records it held back, in order, or cuts its frames off again.
LEMMA ImportKeepsTape ==
    ASSUME IndexInv, LaidInv, Import, pc' # "down"
    PROVE  InMemory'
<1> USE DEF Goto
<1>0. pc # "down" /\ InMemory
  BY DEF LaidInv, Import, Stage, Commit, CommitRecord, CommitSync, Abort, Exit
<1>1. CASE Stage \/ CommitSync
  <2>1. UNCHANGED <<trunk, head, chunks, lo, hi>> /\ pc # "reset" /\ pc' \in {"staged", "exit"}
    BY <1>1 DEF Stage, CommitSync, disk, history
  <2>2. QED
    BY <1>0, <2>1, MemoryLeftAlone DEF Emptied
<1>2. CASE Commit
  <2>1. UNCHANGED <<trunk, head, chunks, lo, hi>> /\ pc = "staged" /\ CallFlush("publish")
    BY <1>2 DEF Commit, disk, memory, history
  <2>2. /\ pc' \in Emptied => lo = hi
        /\ pc' \notin {"record", "replay_record", "replay_sync", "adopt_record", "reset"}
    BY <2>1, CallFlushEmptied DEF Returns
  <2>3. QED
    BY <1>0, <2>1, <2>2, MemoryLeftAlone
<1>3. CASE CommitRecord
  <2>1. UNCHANGED <<trunk, head, chunks, lo, hi>> /\ pc = "publish" /\ pc' = "publish"
    BY <1>3 DEF CommitRecord, memory, history
  <2>2. lo = hi
    BY <1>0, <2>1 DEF InMemory, Emptied
  <2>3. QED
    BY <1>0, <2>1, <2>2, MemoryLeftAlone
<1>4. CASE Abort
  <2>1. /\ pc = "staged" /\ pc' = "exit" /\ head' = head
        /\ trunk' = SubSeq(trunk, 1, staged) /\ chunks' = SubSeq(chunks, 1, staged)
        /\ lo' = TapeEnd(staged)
    BY <1>4 DEF Abort, history
  <2>2. staged \in 0 .. CompSize /\ staged \in 0 .. Len(trunk) /\ staged \in Nat
    <3>1. staged # NotStaged /\ staged \in Nat
      BY <2>1 DEF IndexInv, TypeOK, StagingWithinImport, StagingLabels
    <3>2. staged <= Len(rings) /\ Len(rings) <= CompSize
      BY <2>1, <3>1 DEF IndexInv, RingsFollowChunks
    <3>3. CompSize \in Nat /\ Len(trunk) \in Nat /\ Len(rings) \in Nat /\ CompSize <= Len(trunk)
      BY SizesOfStore
    <3>4. QED
      BY <3>1, <3>2, <3>3
  <2>3. /\ Len(chunks') = staged
        /\ \A i \in 1 .. staged : chunks'[i] = chunks[i] /\ trunk'[i] = trunk[i]
    BY <2>1, <2>2, PrefixIsSeq, SizesOfStore DEF CompSize
  <2>4. Laid(trunk', head, chunks', staged)
    <3>1. Laid(trunk, head, chunks, CompSize) /\ CompSize \in Nat
      BY <1>0, SizesOfStore DEF InMemory
    <3>2. QED
      BY <2>2, <2>3, <3>1, LaidPrefix
  <2>5. lo' = (IF staged = 0 THEN head' ELSE trunk'[staged].hi)
    BY <2>1, <2>2, <2>3 DEF TapeEnd
  <2>6. QED
    BY <2>1, <2>3, <2>4, <2>5 DEF InMemory, CompSize, TapeEnd, Emptied
<1>5. CASE Exit
  BY <1>5 DEF Exit, Forget
<1>6. QED
  BY <1>1, <1>2, <1>3, <1>4, <1>5 DEF Import

\* Appends, ticks and fsyncs leave the tape alone; the buffer grows behind it.
LEMMA WriteKeepsTape ==
    ASSUME IndexInv, LaidInv, Write
    PROVE  InMemory'
<1> USE DEF Goto
<1>0. pc # "down" /\ InMemory
  BY DEF LaidInv, Write, AppendEntry, FlushAged, Sync, SyncFiles, SapFlush, SapSync,
         ApplyWalOn, StartWal, ApplyWalOff
<1>1. CASE AppendEntry
  <2>1. /\ UNCHANGED <<trunk, head, chunks, lo>> /\ pc \in {"idle", "staged"}
        /\ pc' \in {"idle", "staged", "flush"}
    BY <1>1 DEF AppendEntry, history
  <2>2. QED
    BY <1>0, <2>1, MemoryLeftAlone DEF Emptied
<1>2. CASE FlushAged \/ Sync \/ ApplyWalOn
  <2>1. /\ UNCHANGED <<trunk, head, chunks, lo, hi>> /\ pc = "idle"
        /\ \E next \in Returns \ {"none"} : CallFlush(next)
    BY <1>2 DEF FlushAged, Sync, ApplyWalOn, disk, memory, history, Returns
  <2>2. /\ pc' \in Emptied => lo = hi
        /\ pc' \notin {"record", "replay_record", "replay_sync", "adopt_record", "reset"}
    BY <2>1, CallFlushEmptied
  <2>3. QED
    BY <1>0, <2>1, <2>2, MemoryLeftAlone
<1>3. CASE SyncFiles \/ SapFlush \/ SapSync \/ StartWal \/ ApplyWalOff
  <2>1. UNCHANGED <<trunk, head, chunks, lo, hi>> /\ pc # "reset" /\ pc' = "idle"
    BY <1>3 DEF SyncFiles, SapFlush, SapSync, StartWal, ApplyWalOff, disk, memory, history
  <2>2. QED
    BY <1>0, <2>1, MemoryLeftAlone DEF Emptied
<1>4. QED
  BY <1>1, <1>2, <1>3 DEF Write

\* A head drop moves what it keeps to the front, and leaves an orphan frame behind
\* it, if it works in place, where it was.
LEMMA DropHeadDoes ==
    ASSUME IndexInv, NEW k \in 1 .. Len(chunks), NEW rewrite \in BOOLEAN,
           DropHead(k, rewrite)
    PROVE  /\ staged = NotStaged /\ rings = chunks /\ pc = "idle" /\ k \in Nat
           /\ CompSize - k \in Nat /\ CompSize' = CompSize - k
           /\ \A i \in 1 .. CompSize - k :
                 /\ i + k \in 1 .. CompSize
                 /\ chunks'[i].start = chunks[i + k].start - (chunks[k].start + chunks[k].len)
                 /\ chunks'[i].len = chunks[i + k].len
                 /\ trunk'[i] = trunk[i + k]
           /\ rings' = chunks' /\ ringsSynced' = CompSize - k
           /\ Len(trunk') = (IF rewrite THEN CompSize ELSE Len(trunk)) - k
           /\ CompSize - k <= Len(trunk')
           /\ trunkSynced' = IF rewrite THEN CompSize - k ELSE Greatest(0, trunkSynced - k)
           /\ head' = trunk[k].hi
           /\ lo' = lo /\ hi' = hi /\ pc' = IF wal THEN "rebase" ELSE "idle"
<1> DEFINE n == Len(chunks) - k
           cut == chunks[k].start + chunks[k].len
           kept == [i \in 1 .. n |-> [chunks[i + k] EXCEPT !.start = @ - cut]]
           last == IF rewrite THEN CompSize ELSE Len(trunk)
<1>1. /\ pc = "idle" /\ k \in Nat /\ n \in Nat
      /\ CompSize \in Nat /\ CompSize <= Len(trunk) /\ Len(trunk) \in Nat /\ k <= CompSize
      /\ trunk \in Seq(Frame) /\ chunks \in Seq(ChunkRecord)
  BY SMTT(60), SizesOfStore DEF DropHead, CompSize
<1>2. staged = NotStaged /\ rings = chunks
  BY <1>1 DEF IndexInv, StagingWithinImport, StagingLabels, Flushing, RingsFollowChunks
<1>3. \A i \in 1 .. n : i + k \in 1 .. Len(chunks) /\ chunks[i + k] \in ChunkRecord
  <2>1. \A i \in 1 .. n : i + k \in 1 .. Len(chunks)
    BY <1>1
  <2>2. QED
    BY <1>1, <2>1, ElementOfSeq
<1>4. DOMAIN kept = 1 .. n
  OBVIOUS
<1>5. \A i \in 1 .. n : /\ kept[i].start = chunks[i + k].start - cut
                        /\ kept[i].len = chunks[i + k].len
  BY <1>3 DEF ChunkRecord
<1>6. chunks' = kept /\ rings' = kept /\ ringsSynced' = Len(kept)
  BY DEF DropHead
<1> HIDE DEF kept
<1>7. Len(kept) = n
  <2>1. chunks' \in Seq(ChunkRecord)
    BY DropHeadPreservesIndexInv DEF IndexInv, TypeOK
  <2>2. Len(kept) \in Nat /\ DOMAIN kept = 1 .. Len(kept)
    BY <1>6, <2>1, LenProperties
  <2>3. QED
    BY <1>1, <1>4, <2>2
<1>8. trunk' = SubSeq(trunk, k + 1, last)
  BY DEF DropHead
<1>9. /\ Len(trunk') = last - k
      /\ \A i \in 1 .. last - k : trunk'[i] = trunk[i + k]
  <2>1. /\ last \in Nat /\ k <= last /\ last <= Len(trunk) /\ k + 1 \in Int /\ last \in Int
        /\ \A i \in k + 1 .. last : i \in 1 .. Len(trunk)
    BY <1>1
  <2>2. \A i \in k + 1 .. last : trunk[i] \in Frame
    BY <1>1, <2>1, ElementOfSeq
  <2> HIDE DEF last
  <2>3. /\ Len(SubSeq(trunk, k + 1, last)) =
              (IF k + 1 <= last THEN last - (k + 1) + 1 ELSE 0)
        /\ \A i \in 1 .. last - (k + 1) + 1 : SubSeq(trunk, k + 1, last)[i] = trunk[k + 1 + i - 1]
    BY <2>1, <2>2, SubSeqProperties
  <2>4. \A i \in 1 .. last - k : i \in 1 .. last - (k + 1) + 1 /\ k + 1 + i - 1 = i + k
    BY <1>1, <2>1
  <2>5. QED
    BY <1>1, <1>8, <2>1, <2>3, <2>4
<1>10. n <= last - k /\ n = CompSize - k
  BY <1>1 DEF CompSize
<1>11. \A i \in 1 .. n : trunk'[i] = trunk[i + k]
  <2>1. last - k \in Nat
    BY <1>1
  <2>2. \A i \in 1 .. n : i \in 1 .. last - k
    BY <1>1, <1>10, <2>1
  <2>3. QED
    BY <1>9, <2>2
<1>12. /\ trunkSynced' = IF rewrite THEN CompSize - k ELSE Greatest(0, trunkSynced - k)
       /\ head' = trunk[k].hi
       /\ lo' = lo /\ hi' = hi /\ pc' = IF wal THEN "rebase" ELSE "idle"
  BY DEF DropHead, RebaseNext
<1>13. CompSize' = n
  BY <1>6, <1>7 DEF CompSize
<1>14. \A i \in 1 .. n : /\ i + k \in 1 .. CompSize
                         /\ chunks'[i].start = chunks[i + k].start - cut
                         /\ chunks'[i].len = chunks[i + k].len
                         /\ trunk'[i] = trunk[i + k]
  BY <1>3, <1>5, <1>6, <1>11 DEF CompSize
<1>15. QED
  BY <1>1, <1>2, <1>6, <1>7, <1>9, <1>10, <1>12, <1>13, <1>14

\* What a head drop keeps is laid from the new head.
LEMMA DropHeadKeepsTape ==
    ASSUME IndexInv, InMemory, NEW k \in 1 .. Len(chunks), NEW rewrite \in BOOLEAN,
           DropHead(k, rewrite)
    PROVE  InMemory'
<1> DEFINE n == CompSize - k
           cut == chunks[k].start + chunks[k].len
<1>1. /\ pc = "idle" /\ k \in Nat /\ n \in Nat /\ CompSize' = n
      /\ \A i \in 1 .. n :
            /\ i + k \in 1 .. CompSize
            /\ chunks'[i].start = chunks[i + k].start - cut
            /\ chunks'[i].len = chunks[i + k].len
            /\ trunk'[i] = trunk[i + k]
      /\ head' = trunk[k].hi /\ lo' = lo /\ pc' \in {"idle", "rebase"}
  BY DropHeadDoes
<1>2. /\ Laid(trunk, head, chunks, CompSize) /\ lo = TapeEnd(CompSize)
      /\ CompSize \in Nat /\ head \in Nat /\ CompSize <= Len(trunk) /\ Len(trunk) \in Nat
  BY <1>1, SizesOfStore DEF InMemory
<1>3. \A i \in 1 .. CompSize : /\ trunk[i].lo \in Nat /\ trunk[i].hi \in Nat
                               /\ chunks[i].start \in Nat /\ chunks[i].len \in Nat
  <2>1. \A i \in 1 .. CompSize : i \in 1 .. Len(trunk)
    BY <1>2
  <2>2. QED
    BY <2>1, SizesOfStore, RecordOfIndex DEF CompSize
<1>4. k \in 1 .. CompSize /\ cut = trunk[k].hi - head /\ cut \in Nat
  <2>1. k \in 1 .. CompSize
    BY DEF CompSize
  <2>2. trunk[k].hi = trunk[k].lo + chunks[k].len /\ chunks[k].start = trunk[k].lo - head
    BY <1>2, <2>1 DEF Laid
  <2>3. QED
    BY SMTT(60), <1>2, <1>3, <2>1, <2>2
<1> HIDE DEF cut, n
<1>5. ASSUME NEW i \in 1 .. n
      PROVE  /\ trunk'[i].lo = (IF i = 1 THEN head' ELSE trunk'[i - 1].hi)
             /\ trunk'[i].hi = trunk'[i].lo + chunks'[i].len
             /\ chunks'[i].start = trunk'[i].lo - head'
  <2>1. i + k \in 1 .. CompSize /\ i \in Nat /\ i + k # 1
    BY <1>1, <1>4
  <2>2. /\ trunk[i + k].lo = trunk[i + k - 1].hi
        /\ trunk[i + k].hi = trunk[i + k].lo + chunks[i + k].len
        /\ chunks[i + k].start = trunk[i + k].lo - head
    BY <1>2, <2>1 DEF Laid
  <2>3. trunk[i + k - 1].hi = (IF i = 1 THEN head' ELSE trunk'[i - 1].hi)
    <3>1. CASE i = 1
      BY <1>1, <3>1
    <3>2. CASE i # 1
      <4>1. i - 1 \in 1 .. n /\ (i - 1) + k = i + k - 1
        BY <1>1, <2>1, <3>2
      <4>2. trunk'[i - 1] = trunk[(i - 1) + k]
        BY <1>1, <4>1
      <4>3. QED
        BY <3>2, <4>1, <4>2
    <3>3. QED
      BY <3>1, <3>2
  <2>4. chunks'[i].start = trunk[i + k].lo - head'
    <3>1. trunk[i + k].lo \in Nat /\ trunk[k].hi \in Nat /\ head \in Nat
      BY <1>2, <1>3, <1>4, <2>1
    <3>2. chunks'[i].start = (trunk[i + k].lo - head) - (trunk[k].hi - head)
      BY <1>1, <1>4, <2>2
    <3>3. QED
      BY <1>1, <3>1, <3>2
  <2>5. QED
    BY <1>1, <2>2, <2>3, <2>4
<1>6. Laid(trunk', head', chunks', n)
  BY <1>5 DEF Laid
<1>7. lo = (IF n = 0 THEN head' ELSE trunk'[n].hi)
  <2>1. CASE n = 0
    <3>1. k = CompSize /\ CompSize # 0
      BY <1>1, <1>2, <1>4, <2>1 DEF n
    <3>2. QED
      BY <1>1, <1>2, <2>1, <3>1 DEF TapeEnd
  <2>2. CASE n # 0
    <3>1. n \in 1 .. n /\ n + k = CompSize /\ CompSize # 0
      BY <1>1, <1>2, <1>4, <2>2 DEF n
    <3>2. trunk'[n] = trunk[CompSize]
      BY <1>1, <3>1
    <3>3. QED
      BY <1>2, <2>2, <3>1, <3>2 DEF TapeEnd
  <2>3. QED
    BY <2>1, <2>2
<1>8. QED
  BY <1>1, <1>6, <1>7 DEF InMemory, TapeEnd, Emptied

\* An adopted frame follows the tape, a base refresh leaves it, a reset empties it.
LEMMA ReshapeKeepsTape ==
    ASSUME IndexInv, LaidInv, Reshape
    PROVE  InMemory'
<1> USE DEF Goto
<1>0. pc # "down" /\ InMemory
  BY DEF LaidInv, Reshape, DropHead, Rebase, RebaseFails, Adopt, AdoptFrame, AdoptRecord, AdoptSync,
         Reset, ResetSegment
<1>1. ASSUME NEW k \in 1 .. Len(chunks), NEW rewrite \in BOOLEAN, DropHead(k, rewrite)
      PROVE  InMemory'
  BY <1>0, <1>1, DropHeadKeepsTape
<1>2. CASE Rebase \/ RebaseFails \/ AdoptSync
  <2>1. UNCHANGED <<trunk, head, chunks, lo, hi>> /\ pc # "reset" /\ pc' \in {"idle", "rebase"}
    BY <1>2 DEF Rebase, RebaseFails, AdoptSync, RebaseNext, disk, memory, history
  <2>2. QED
    BY <1>0, <2>1, MemoryLeftAlone DEF Emptied
<1>3. CASE Adopt
  <2>1. UNCHANGED <<trunk, head, chunks, lo, hi>> /\ pc = "idle" /\ CallFlush("adopt")
    BY <1>3 DEF Adopt, disk, memory, history
  <2>2. /\ pc' \in Emptied => lo = hi
        /\ pc' \notin {"record", "replay_record", "replay_sync", "adopt_record", "reset"}
    BY <2>1, CallFlushEmptied DEF Returns
  <2>3. QED
    BY <1>0, <2>1, <2>2, MemoryLeftAlone
<1>4. CASE AdoptFrame
  <2>1. [lo |-> hi, hi |-> hi + 1] \in Frame
    BY SizesOfStore DEF Frame
  <2>2. /\ WriteFrame([lo |-> hi, hi |-> hi + 1])
        /\ UNCHANGED <<head, chunks, lo, hi>> /\ pc = "adopt" /\ pc' = "adopt_record"
    BY <1>4 DEF AdoptFrame, memory, history
  <2>3. /\ Laid(trunk, head, chunks, CompSize)'
        /\ lo = TapeEnd(CompSize)'
        /\ trunk'[CompSize' + 1] = [lo |-> hi, hi |-> hi + 1]
    BY <1>0, <2>1, <2>2, FrameBeyond
  <2>4. lo = hi
    BY <1>0, <2>2 DEF InMemory, Emptied
  <2>5. QED
    BY <2>2, <2>3, <2>4 DEF InMemory, Emptied
<1>5. CASE AdoptRecord
  <2>1. /\ pc = "adopt_record" /\ pc' = "adopt_sync" /\ UNCHANGED <<trunk, head>>
        /\ chunks' = Append(chunks, NextRecord(1)) /\ lo' = hi + 1 /\ hi' = hi + 1
    BY <1>5 DEF AdoptRecord, history
  <2>2. /\ lo = hi /\ lo = TapeEnd(CompSize)
        /\ trunk[CompSize + 1].lo = lo /\ trunk[CompSize + 1].hi = lo + 1
    BY <1>0, <2>1 DEF InMemory, Emptied
  <2>3. /\ Laid(trunk, head, chunks, CompSize)'
        /\ TapeEnd(CompSize)' = lo + 1
    BY <1>0, <2>1, <2>2, ChunkAdded
  <2>4. QED
    BY <2>1, <2>2, <2>3 DEF InMemory
<1>6. CASE Reset
  <2>1. /\ pc = "idle" /\ chunks' = <<>> /\ lo' = hi /\ hi' = hi
        /\ pc' = (IF wal THEN "reset" ELSE "idle")
        /\ head' = IF wal THEN lo ELSE hi
    BY <1>6 DEF Reset
  <2>2. CompSize' = 0 /\ Laid(trunk, head, chunks, CompSize)'
    BY <2>1, EmptySeq DEF CompSize, Laid
  <2>3. QED
    BY <2>1, <2>2 DEF InMemory, TapeEnd, Emptied
<1>7. CASE ResetSegment
  <2>1. /\ pc = "reset" /\ pc' = "idle" /\ UNCHANGED <<chunks, lo, hi>> /\ head' = hi
    BY <1>7 DEF ResetSegment
  <2>2. chunks = <<>> /\ lo = hi
    BY <1>0, <2>1 DEF InMemory, Emptied
  <2>3. CompSize' = 0 /\ Laid(trunk, head, chunks, CompSize)'
    BY <2>1, <2>2, EmptySeq DEF CompSize, Laid
  <2>4. QED
    BY <2>1, <2>2, <2>3 DEF InMemory, TapeEnd, Emptied
<1>8. QED
  BY <1>1, <1>2, <1>3, <1>4, <1>5, <1>6, <1>7 DEF Reshape

------------------------------------------------------------------------------
\* What a record leaves of the index on disk, what a power loss does, and what an
\* open goes by when nothing is held back.
LEMMA WriteRecordPlaces ==
    ASSUME IndexInv, staged = NotStaged, pc \notin {"down", "replay_sync"},
           NEW rec \in ChunkRecord, WriteRecord(rec)
    PROVE  /\ rings = chunks /\ Len(rings) = CompSize
           /\ rings' \in Seq(ChunkRecord)
           /\ Len(rings') = CompSize + 1
           /\ \A i \in 1 .. CompSize : rings'[i] = rings[i]
           /\ rings'[CompSize + 1] = rec
           /\ ringsSynced' = Least(ringsSynced, CompSize)
<1>1. rings = chunks
  BY DEF IndexInv, RingsFollowChunks
<1>2. rings' = Append(chunks, rec)
  BY <1>1, WriteRecordType
<1>3. QED
  BY <1>1, <1>2, AppendIsSeq, SizesOfStore DEF WriteRecord, CompSize

\* What a power loss leaves: a prefix of each file, and a part of the segment.
LEMMA LosePowerDoes ==
    ASSUME IndexInv, SyncedWithin, LosePower
    PROVE  /\ trunkSynced' \in trunkSynced .. Len(trunk) /\ ringsSynced' \in ringsSynced .. Len(rings)
           /\ trunkSynced' = Len(trunk') /\ ringsSynced' = Len(rings')
           /\ \A i \in 1 .. Len(trunk') : trunk'[i] = trunk[i]
           /\ \A i \in 1 .. Len(rings') : rings'[i] = rings[i]
           /\ UNCHANGED <<seal, declared, env, head, acked>>
           /\ pc' = "down" /\ role' = "none"
           /\ PowerFails
           /\ \E h \in sap.syn .. sap.hi :
                 /\ sap'.there = sap.there /\ sap'.base = sap.base
                 /\ sap'.lo = sap.lo /\ sap'.hi = h /\ sap'.syn = h
<1>1. /\ trunkSynced' \in trunkSynced .. Len(trunk) /\ trunk' = SubSeq(trunk, 1, trunkSynced')
      /\ ringsSynced' \in ringsSynced .. Len(rings) /\ rings' = SubSeq(rings, 1, ringsSynced')
      /\ UNCHANGED <<seal, declared, env, head, acked>>
      /\ pc' = "down" /\ role' = "none" /\ PowerFails
  BY DEF LosePower, Forget, history, PowerFails
<1>2. trunkSynced' \in 0 .. Len(trunk) /\ ringsSynced' \in 0 .. Len(rings)
  BY SMTT(60), <1>1, SizesOfStore
<1>3. /\ trunkSynced' = Len(trunk') /\ \A i \in 1 .. Len(trunk') : trunk'[i] = trunk[i]
      /\ ringsSynced' = Len(rings') /\ \A i \in 1 .. Len(rings') : rings'[i] = rings[i]
  <2>1. trunk \in Seq(Frame) /\ rings \in Seq(ChunkRecord)
    BY SizesOfStore
  <2>2. trunkSynced' = Len(trunk') /\ \A i \in 1 .. trunkSynced' : trunk'[i] = trunk[i]
    BY ZenonT(60), <1>1, <1>2, <2>1, PrefixIsSeq
  <2>3. ringsSynced' = Len(rings') /\ \A i \in 1 .. ringsSynced' : rings'[i] = rings[i]
    BY ZenonT(60), <1>1, <1>2, <2>1, PrefixIsSeq
  <2>4. QED
    BY <2>2, <2>3
<1>4. \E h \in sap.syn .. sap.hi :
         /\ sap'.there = sap.there /\ sap'.base = sap.base
         /\ sap'.lo = sap.lo /\ sap'.hi = h /\ sap'.syn = h
  <2>1. \E h \in sap.syn .. sap.hi : sap' = [sap EXCEPT !.hi = h, !.syn = h]
    BY Zenon DEF LosePower
  <2>2. sap \in Segment
    BY DEF IndexInv, TypeOK
  <2>3. QED
    BY <2>1, <2>2 DEF Segment
<1>5. QED
  BY <1>1, <1>3, <1>4

\* An fsync never promises more than a file holds.
LEMMA SyncedWithinStep ==
    ASSUME IndexInv, LaidInv, Next
    PROVE  SyncedWithin'
<1> USE DEF SyncedWithin
<1>0. /\ SyncedWithin
      /\ trunkSynced \in Nat /\ ringsSynced \in Nat /\ Len(trunk) \in Nat /\ Len(rings) \in Nat
      /\ CompSize \in Nat /\ CompSize <= Len(trunk)
      /\ trunk \in Seq(Frame) /\ rings \in Seq(ChunkRecord)
  BY SizesOfStore DEF LaidInv
<1>1. ASSUME UNCHANGED <<trunk, trunkSynced, rings, ringsSynced>> PROVE SyncedWithin'
  BY <1>0, <1>1
<1>2. ASSUME SyncPair, UNCHANGED <<trunk, rings>> PROVE SyncedWithin'
  BY <1>0, <1>2 DEF SyncPair
<1>3. ASSUME NEW f \in Frame, WriteFrame(f), UNCHANGED <<rings, ringsSynced>> PROVE SyncedWithin'
  BY <1>0, <1>3, WriteFramePlaces
<1>4. ASSUME NEW rec \in ChunkRecord, WriteRecord(rec), staged = NotStaged,
             pc \notin {"down", "replay_sync"}, UNCHANGED <<trunk, trunkSynced>>
      PROVE  SyncedWithin'
  BY <1>0, <1>4, WriteRecordPlaces DEF Least
<1>5. \A n \in Nat : NextRecord(n) \in ChunkRecord
  BY NextRecordType
<1>6. [lo |-> lo, hi |-> hi] \in Frame /\ [lo |-> hi, hi |-> hi + 1] \in Frame /\ hi - lo \in Nat
  BY SizesOfStore DEF Frame
<1>7. ASSUME NEW r \in Programs, OpenIndex(r) PROVE SyncedWithin'
  <2>1. /\ rings' = SubSeq(rings, 1, Intact) /\ ringsSynced' = Least(ringsSynced, Intact)
        /\ UNCHANGED <<trunk, trunkSynced>>
    BY <1>7 DEF OpenIndex
  <2>2. Intact \in 0 .. Len(rings)
    BY SizesOfStore
  <2>3. Len(rings') = Intact
    BY <1>0, <2>1, <2>2, PrefixIsSeq
  <2>4. QED
    BY <1>0, <2>1, <2>2, <2>3 DEF Least
<1>8. CASE DiscardSeal \/ ReplaySeal \/ ReplayUnlink \/ OpenLive
  BY <1>1, <1>8 DEF DiscardSeal, ReplaySeal, ReplayUnlink, OpenLive, disk
<1>9. CASE ReplayFrame \/ FlushFrame \/ AdoptFrame
  BY <1>3, <1>6, <1>9 DEF ReplayFrame, FlushFrame, AdoptFrame
<1>10. CASE ReplaySync \/ FlushHarden \/ CommitSync \/ SyncFiles \/ AdoptSync
  BY <1>2, <1>10 DEF ReplaySync, FlushHarden, CommitSync, SyncFiles, AdoptSync
<1>11. CASE ReplayRecord \/ AdoptRecord
  <2>1. staged = NotStaged /\ pc \notin {"down", "replay_sync"}
    BY <1>11 DEF ReplayRecord, AdoptRecord, IndexInv, StagingWithinImport, StagingLabels
  <2>2. UNCHANGED <<trunk, trunkSynced>> /\ \E n \in Nat : WriteRecord(NextRecord(n))
    BY <1>6, <1>11 DEF ReplayRecord, AdoptRecord
  <2>3. QED
    BY <1>4, <1>5, <2>1, <2>2
<1>12. CASE FlushRecord
  <2>1. CASE staged = NotStaged
    <3>1. /\ UNCHANGED <<trunk, trunkSynced>> /\ pc \notin {"down", "replay_sync"}
          /\ WriteRecord(NextRecord(hi - lo))
      BY <1>12, <2>1 DEF FlushRecord
    <3>2. QED
      BY <1>4, <1>5, <1>6, <2>1, <3>1
  <2>2. CASE staged # NotStaged
    BY <1>1, <1>12, <2>2 DEF FlushRecord
  <2>3. QED
    BY <2>1, <2>2
<1>13. CASE FlushBegin \/ FlushSwap \/ FlushUnlink \/ FrameFails \/ RecordFails \/ HardenFails
  BY <1>1, <1>13 DEF FlushBegin, FlushSwap, FlushUnlink, FrameFails, RecordFails, HardenFails, disk
<1>14. CASE Stage \/ Commit \/ Exit
  BY <1>1, <1>14 DEF Stage, Commit, Exit, disk
<1>15. CASE CommitRecord
  <2>1. /\ UNCHANGED <<trunk, trunkSynced, ringsSynced>>
        /\ Len(rings) < Len(chunks) /\ rings' = Append(rings, chunks[Len(rings) + 1])
    BY <1>15 DEF CommitRecord
  <2>2. Len(rings) + 1 \in 1 .. Len(chunks)
    BY <1>0, <2>1 DEF CompSize
  <2>3. chunks[Len(rings) + 1] \in ChunkRecord
    BY <2>2, RecordOfIndex, SizesOfStore
  <2>4. Len(rings') = Len(rings) + 1
    BY <1>0, <2>1, <2>3, AppendIsSeq
  <2>5. QED
    BY <1>0, <2>1, <2>4
<1>16. CASE Abort
  <2>1. /\ UNCHANGED <<rings, ringsSynced>> /\ pc = "staged"
        /\ trunk' = SubSeq(trunk, 1, staged) /\ trunkSynced' = Least(trunkSynced, staged)
    BY <1>16 DEF Abort
  <2>2. staged \in 0 .. Len(trunk)
    <3>1. staged # NotStaged /\ staged \in Nat
      BY <2>1 DEF IndexInv, TypeOK, StagingWithinImport, StagingLabels
    <3>2. staged <= Len(rings) /\ Len(rings) <= CompSize
      BY <2>1, <3>1 DEF IndexInv, RingsFollowChunks
    <3>3. QED
      BY <1>0, <3>1, <3>2
  <2>3. Len(trunk') = staged
    BY <1>0, <2>1, <2>2, PrefixIsSeq
  <2>4. QED
    BY <1>0, <2>1, <2>2, <2>3 DEF Least
<1>17. CASE AppendEntry \/ FlushAged \/ Sync \/ SapFlush \/ SapSync
            \/ ApplyWalOn \/ StartWal \/ ApplyWalOff \/ SetWal
  BY <1>1, <1>17 DEF AppendEntry, FlushAged, Sync, SapFlush, SapSync, ApplyWalOn, StartWal,
                     ApplyWalOff, SetWal, disk
<1>18. ASSUME NEW k \in 1 .. Len(chunks), NEW rewrite \in BOOLEAN, DropHead(k, rewrite)
       PROVE  SyncedWithin'
  <2>1. /\ CompSize - k \in Nat /\ k \in Nat /\ rings' = chunks' /\ ringsSynced' = CompSize - k
        /\ CompSize' = CompSize - k
        /\ Len(trunk') = (IF rewrite THEN CompSize ELSE Len(trunk)) - k
        /\ CompSize - k <= Len(trunk')
        /\ trunkSynced' = IF rewrite THEN CompSize - k ELSE Greatest(0, trunkSynced - k)
    BY <1>18, DropHeadDoes
  <2>2. Len(rings') = CompSize - k
    BY <2>1 DEF CompSize
  <2>3. trunkSynced' <= Len(trunk')
    BY <1>0, <2>1 DEF Greatest
  <2>4. QED
    BY <2>1, <2>2, <2>3
<1>19. CASE Rebase \/ RebaseFails \/ Adopt \/ ResetSegment \/ Crash
  BY <1>1, <1>19 DEF Rebase, RebaseFails, Adopt, ResetSegment, Crash, disk
<1>20. CASE Reset
  BY <1>20, EmptySeq DEF Reset
<1>21. CASE LosePower
  BY <1>0, <1>21, LosePowerDoes
<1>22. QED
  BY <1>7, <1>8, <1>9, <1>10, <1>11, <1>12, <1>13, <1>14, <1>15, <1>16, <1>17, <1>18, <1>19,
     <1>20, <1>21 DEF Next, Open, Flush, Import, Write, Reshape, Fail

\* The index on disk measures the tape too: it is the one in memory, short of what
\* is held back, or with the record a replay has just written.
LEMMA DiskFollowsMemory ==
    ASSUME IndexInv', InMemory', pc' # "down"
    PROVE  Laid(trunk, head, rings, Intact)'
<1>1. /\ CompSize' \in Nat /\ Len(trunk') \in Nat /\ Len(rings') \in Nat
      /\ Intact' \in Nat /\ Intact' <= Len(rings') /\ Intact' <= Len(trunk')
      /\ CompSize' <= Len(trunk')
      /\ trunk' \in Seq(Frame) /\ rings' \in Seq(ChunkRecord) /\ chunks' \in Seq(ChunkRecord)
      /\ head' \in Nat /\ lo' \in Nat /\ hi' \in Nat
  <2>1. /\ trunk' \in Seq(Frame) /\ rings' \in Seq(ChunkRecord) /\ chunks' \in Seq(ChunkRecord)
        /\ head' \in Nat /\ lo' \in Nat /\ hi' \in Nat
    BY DEF IndexInv, TypeOK
  <2>2. Len(trunk') \in Nat /\ Len(rings') \in Nat /\ Len(chunks') \in Nat
    BY <2>1, LenProperties
  <2>3. CompSize' \in Nat /\ CompSize' <= Len(trunk')
    BY <2>2 DEF IndexInv, IndexWithinTrunk, CompSize
  <2>4. Intact' \in Nat /\ Intact' <= Len(rings') /\ Intact' <= Len(trunk')
    BY <2>2 DEF Intact, Least
  <2>5. QED
    BY <2>1, <2>2, <2>3, <2>4
<1>2. Laid(trunk', head', chunks', CompSize')
  BY DEF InMemory
<1>3. CASE pc' # "replay_sync"
  <2>1. /\ Len(rings') <= CompSize'
        /\ rings' = SubSeq(chunks', 1, Len(rings'))
    <3>1. CASE staged' = NotStaged
      <4>1. rings' = chunks'
        BY <1>3, <3>1 DEF IndexInv, RingsFollowChunks
      <4>2. QED
        BY <1>1, <4>1, PrefixIsSeq DEF CompSize
    <3>2. CASE staged' # NotStaged
      BY <1>3, <3>2 DEF IndexInv, RingsFollowChunks
    <3>3. QED
      BY <3>1, <3>2
  <2>2. Len(rings') \in 0 .. Len(chunks')
    BY <1>1, <2>1 DEF CompSize
  <2>3. \A i \in 1 .. Len(rings') : SubSeq(chunks', 1, Len(rings'))[i] = chunks'[i]
    BY <1>1, <2>2, PrefixIsSeq
  <2>4. Intact' \in 0 .. CompSize' /\ \A i \in 1 .. Intact' : rings'[i] = chunks'[i]
    <3>1. \A i \in 1 .. Intact' : i \in 1 .. Len(rings')
      BY <1>1
    <3>2. QED
      BY <1>1, <2>1, <2>3, <3>1
  <2>5. QED
    BY <1>1, <1>2, <2>4, LaidPrefix
<1>4. CASE pc' = "replay_sync"
  <2>1. /\ Len(rings') = CompSize' + 1 /\ chunks' = SubSeq(rings', 1, CompSize')
        /\ rings'[CompSize' + 1].start = bufStart'
        /\ rings'[CompSize' + 1].len = hi' - lo'
    <3>1. /\ Len(rings') = CompSize' + 1 /\ chunks' = SubSeq(rings', 1, CompSize')
          /\ rings'[Len(rings')].start = bufStart'
          /\ rings'[Len(rings')].len = hi' - lo'
      BY <1>4 DEF IndexInv, RingsFollowChunks
    <3>2. QED
      BY <3>1
  <2>2. /\ trunk'[CompSize' + 1].lo = lo' /\ trunk'[CompSize' + 1].hi = hi'
        /\ lo' = (IF CompSize' = 0 THEN head' ELSE trunk'[CompSize'].hi)
    BY <1>4 DEF InMemory, TapeEnd
  <2>3. \A i \in 1 .. CompSize' : rings'[i] = chunks'[i]
    <3>1. CompSize' \in 0 .. Len(rings')
      <4>1. \A n \in Nat : n \in 0 .. n + 1
        OBVIOUS
      <4>2. QED
        BY <1>1, <2>1, <4>1
    <3>2. QED
      BY <1>1, <2>1, <3>1, PrefixIsSeq
  <2>4. bufStart' = lo' - head'
    <3>1. IndexedEnd(SubSeq(chunks', 1, CompSize')) = lo' - head'
      BY <1>1, <1>2, <2>2, LaidEnd DEF CompSize
    <3>2. SubSeq(chunks', 1, CompSize') = chunks'
      BY <1>1, PrefixIsSeq DEF CompSize
    <3>3. QED
      BY <3>1, <3>2 DEF IndexInv
  <2>5. Laid(trunk', head', rings', CompSize' + 1)
    <3>1. lo' + (hi' - lo') = hi'
      <4>1. \A x, y \in Nat : x + (y - x) = y
        OBVIOUS
      <4>2. QED
        BY <1>1, <4>1
    <3>2. QED
      BY <1>1, <1>2, <2>1, <2>2, <2>3, <2>4, <3>1, LaidOneMore
  <2>6. Intact' \in 0 .. CompSize' + 1 /\ CompSize' + 1 \in Nat
    BY <1>1, <2>1
  <2>7. QED
    BY <2>5, <2>6, LaidPrefix
<1>5. QED
  BY <1>3, <1>4

\* An open store is left by the death of its process, or by the end of an import.
LEMMA LeftByDeath ==
    ASSUME IndexInv, Next, pc' = "down"
    PROVE  Fail \/ Exit \/ (SetWal /\ pc = "down")
<1>1. CASE Open
  BY <1>1 DEF Open, OpenIndex, DiscardSeal, ReplaySeal, ReplayFrame, ReplayRecord, ReplaySync,
     ReplayUnlink, OpenLive, Opened, Goto
<1>2. CASE Write \/ SetWal
  BY <1>2 DEF Write, AppendEntry, FlushAged, Sync, SyncFiles, SapFlush, SapSync, ApplyWalOn,
     StartWal, ApplyWalOff, SetWal, CallFlush, Goto
<1>3. CASE Flush
  BY <1>3 DEF Flush, FlushBegin, FlushFrame, FlushRecord, FlushHarden, FlushSwap, FlushUnlink,
     FrameFails, RecordFails, HardenFails, Unseal, Goto, IndexInv, TypeOK, Returns
<1>4. CASE Reshape
  BY <1>4 DEF Reshape, DropHead, Rebase, RebaseFails, RebaseNext, Adopt, AdoptFrame, AdoptRecord,
     AdoptSync, Reset, ResetSegment, CallFlush, Goto
<1>5. CASE Import
  BY <1>5 DEF Import, Stage, Commit, CommitRecord, CommitSync, Abort, CallFlush, Goto
<1>6. QED
  BY <1>1, <1>2, <1>3, <1>4, <1>5 DEF Next

\* The tape stays laid, if what an open replays fits it.
SealFits ==
    (pc = "open_seal" /\ SealOpen /\ seal.base >= CompSize) => seal.lo = TapeEnd(CompSize)
SapFits == (pc = "open_live" /\ SapOpen) => sap.lo = lo

LEMMA LaidStep ==
    ASSUME IndexInv, IndexInv', LaidInv, SealFits, SapFits, Next
    PROVE  LaidInv'
<1>1. SyncedWithin'
  BY SyncedWithinStep
<1>2. pc' # "down" => InMemory'
  <2>1. CASE Open
    BY <2>1, OpenKeepsTape DEF SealFits, SapFits, SealOpen, SapOpen
  <2>2. CASE SetWal
    <3>1. UNCHANGED <<trunk, head, chunks, lo, hi, pc>>
      BY <2>2 DEF SetWal, memory, history
    <3>2. QED
      BY <3>1 DEF LaidInv, InMemory, CompSize, TapeEnd
  <2>3. CASE Fail
    BY <2>3 DEF Fail, Crash, LosePower, Forget
  <2>4. QED
    BY <2>1, <2>2, <2>3, FlushKeepsTape, ImportKeepsTape, WriteKeepsTape, ReshapeKeepsTape DEF Next
<1>3. pc' = "down" => Laid(trunk, head, rings, Intact)'
  <2>1. CASE LosePower
    <3>1. /\ \A i \in 1 .. Len(trunk') : trunk'[i] = trunk[i]
          /\ \A i \in 1 .. Len(rings') : rings'[i] = rings[i]
          /\ Len(trunk') \in trunkSynced .. Len(trunk) /\ Len(rings') \in ringsSynced .. Len(rings)
          /\ head' = head
      BY <2>1, LosePowerDoes DEF LaidInv
    <3>2. Intact' \in 0 .. Intact /\ Intact \in Nat
      BY <3>1, SizesOfStore DEF Intact, Least
    <3>3. \A i \in 1 .. Intact' : trunk'[i] = trunk[i] /\ rings'[i] = rings[i]
      BY <3>1, <3>2, SizesOfStore DEF Intact, Least
    <3>4. QED
      BY <3>1, <3>2, <3>3, LaidPrefix DEF LaidInv
  <2>2. CASE pc' = "down" /\ ~LosePower
    <3>1. UNCHANGED <<trunk, head, rings>>
      <4>1. SetWal \/ Crash \/ Exit
        BY <2>2, LeftByDeath DEF Fail
      <4>2. QED
        BY <4>1 DEF SetWal, Crash, Exit, disk, history
    <3>2. QED
      BY <3>1 DEF LaidInv, Intact
  <2>3. QED
    BY <2>1, <2>2
<1>4. QED
  BY <1>1, <1>2, <1>3, DiskFollowsMemory DEF LaidInv

\* In a store whose tape is laid, memory is the tape.
LEMMA LaidIsIntact ==
    ASSUME IndexInv, LaidInv
    PROVE  TapeIntact
<1> SUFFICES ASSUME pc \notin {"down", "reset"}
             PROVE  /\ CompSize <= Len(trunk)
                    /\ \A i \in 1 .. CompSize :
                          /\ trunk[i].lo = TapeEnd(i - 1)
                          /\ trunk[i].hi = trunk[i].lo + chunks[i].len
                          /\ chunks[i].start = trunk[i].lo - head
                    /\ lo = TapeEnd(CompSize)
                    /\ bufStart = lo - head
  BY DEF TapeIntact
<1>1. Laid(trunk, head, chunks, CompSize) /\ lo = TapeEnd(CompSize)
  BY DEF LaidInv, InMemory
<1>2. \A i \in 1 .. CompSize : (i = 1) <=> (i - 1 = 0)
  BY SizesOfStore
<1>3. \A i \in 1 .. CompSize :
          /\ trunk[i].lo = TapeEnd(i - 1)
          /\ trunk[i].hi = trunk[i].lo + chunks[i].len
          /\ chunks[i].start = trunk[i].lo - head
  BY <1>1, <1>2 DEF Laid, TapeEnd
<1>4. bufStart = lo - head
  <2>1. IndexedEnd(SubSeq(chunks, 1, CompSize)) = TapeEnd(CompSize) - head
    BY <1>1, LaidEnd, SizesOfStore DEF CompSize, TapeEnd
  <2>2. SubSeq(chunks, 1, CompSize) = chunks
    BY PrefixIsSeq, SizesOfStore DEF CompSize
  <2>3. QED
    BY <1>1, <2>1, <2>2 DEF IndexInv
<1>5. QED
  BY <1>1, <1>3, <1>4, SizesOfStore

------------------------------------------------------------------------------
\* The environments the code recovers from.  In one where something dies, the store
\* is either a writer's or an import's, processes die or power fails, no fsync and no
\* refresh of the segment's bases fails; and where power fails, write-ahead is not
\* turned on over a chunk that no fsync has reached.
DiesAsExpected ==
    \A e \in Environments :
        e.crashes # {} =>
            /\ e.crashes # Deaths
            /\ e.roles # Programs
            /\ "sync" \notin e.faults /\ "rebase" \notin e.faults
            /\ "power" \in e.crashes => "create" \notin e.faults /\ "wal_on" \notin e.operations

\* Who has the store open, and where an import goes.
RolesKept ==
    /\ pc = "down" <=> role = "none"
    /\ role \in env.roles \cup {"none"}
    /\ pc = "exit" => role = "import"
    /\ role = "import" => pc \in Opening \cup {"stage", "exit"} \/ staged # NotStaged

\* A mortal writer that reopens the store: the seal it replays is the buffer.
ReopeningRight ==
    /\ Recoverable
    /\ pc \in {"down", "open_seal", "replay_frame", "replay_unlink", "open_live"} =>
          Sure = Intact
    /\ pc \in {"replay_frame", "replay_record", "replay_sync"} =>
          /\ SealOpen /\ seal.lo = lo /\ seal.hi = hi /\ seal.base = CompSize
          /\ CompSize <= Sure
    /\ pc \in {"replay_frame", "replay_record", "replay_sync", "replay_unlink"} => ~SapOpen
    /\ pc = "open_live" => ~seal.there

\* A mortal writer at work.  Between flushes the segment is the buffer ...
NoSealOutsideFlush ==
    /\ pc \notin Flushing \ {"flush"} => ~seal.there
    /\ ~wal /\ pc \in {"frame", "record"} => ~seal.there
    /\ pc \in {"harden", "swap", "rebase", "reset"} => wal

SegmentIsBuffer ==
    /\ wal /\ pc \in {"idle", "flush", "sync", "adopt"} =>
          /\ sap.there /\ sap.lo = lo /\ sap.hi <= hi /\ sap.base = CompSize
          /\ Sure = CompSize
    /\ wal /\ pc = "rebase" =>
          /\ sap.there /\ (SapOpen => sap.lo = lo) /\ sap.hi <= hi
          /\ Sure = CompSize
    /\ wal /\ pc \in {"adopt_record", "adopt_sync"} =>
          sap.there /\ ~SapOpen /\ sap.hi <= hi
    /\ wal /\ pc = "reset" => sap.there /\ sap.lo = head /\ Sure = 0 /\ Intact = 0

\* ... and during one the seal is what becomes a chunk.
SealIsFlush ==
    /\ wal /\ pc \in {"frame", "record"} =>
          /\ seal.there /\ seal.lo = lo /\ seal.hi = hi /\ seal.base = CompSize
          /\ Sure = CompSize
    /\ pc = "harden" =>
          /\ seal.there /\ seal.base + 1 = CompSize
          /\ seal.lo = TapeEnd(CompSize - 1) /\ seal.hi = TapeEnd(CompSize)
          /\ CompSize - 1 <= Sure
    /\ pc \in {"swap", "unlink"} => seal.base + 1 = CompSize /\ Sure = CompSize
    /\ pc \in {"frame", "record", "harden", "swap"} => ~SapOpen
    /\ wal /\ pc = "unlink" =>
          /\ sap.there /\ sap.lo = lo /\ sap.hi = lo /\ sap.base = CompSize

WorkingRight ==
    /\ NoSealOutsideFlush
    /\ ~wal => ~SapOpen
    /\ wal => walHi = hi
    /\ SegmentIsBuffer
    /\ SealIsFlush
    /\ PowerFails /\ declared => wal
    /\ pc = "start_wal" \/ (pc \in Flushing /\ after = "start_wal") => ~wal /\ ~PowerFails

\* An import, and a writer that lives for ever, find no segment to replay.
NothingToReplay == ~seal.there /\ ~SapOpen

SegmentInv ==
    IF Mortal
    THEN IF pc \in Opening \cup {"down"} THEN ReopeningRight ELSE WorkingRight
    ELSE role # "writer" \/ pc \in Opening => NothingToReplay
------------------------------------------------------------------------------
\* A behaviour stays in its environment.
LEMMA EnvKept ==
    ASSUME Next
    PROVE  env' = env /\ Mortal' = Mortal /\ PowerFails' = PowerFails
<1>1. CASE Open \/ Write \/ SetWal
  BY <1>1 DEF Open, OpenIndex, DiscardSeal, ReplaySeal, ReplayFrame, ReplayRecord, ReplaySync,
     ReplayUnlink, OpenLive, Write, AppendEntry, FlushAged, Sync, SyncFiles, SapFlush, SapSync,
     ApplyWalOn, StartWal, ApplyWalOff, SetWal, history, Mortal, PowerFails
<1>2. CASE Flush \/ Import \/ Fail
  BY <1>2 DEF Flush, FlushBegin, FlushFrame, FlushRecord, FlushHarden, FlushSwap, FlushUnlink,
     FrameFails, RecordFails, HardenFails, Import, Stage, Commit, CommitRecord, CommitSync, Abort,
     Exit, Fail, Crash, LosePower, history, Mortal, PowerFails
<1>3. CASE Reshape
  BY <1>3 DEF Reshape, DropHead, Rebase, RebaseFails, Adopt, AdoptFrame, AdoptRecord, AdoptSync,
     Reset, ResetSegment, history, Mortal, PowerFails
<1>4. QED
  BY <1>1, <1>2, <1>3 DEF Next

\* An environment of the theorem's, seen from a behaviour in it.
LEMMA EnvironmentIs ==
    ASSUME DiesAsExpected, TypeOK
    PROVE  /\ Mortal => "import" \notin env.roles
           /\ (env.crashes # {} /\ ~Mortal) => "writer" \notin env.roles
           /\ env.crashes # {} => "sync" \notin env.faults /\ "rebase" \notin env.faults
           /\ PowerFails => /\ env.crashes # {} /\ "process" \notin env.crashes
                            /\ "create" \notin env.faults /\ "wal_on" \notin env.operations
<1>1. env \in Environments /\ env \in Environment
  BY ConstantsAssumption DEF TypeOK
<1>2. env.crashes \in SUBSET Deaths /\ env.roles \in SUBSET Programs
  BY <1>1 DEF Environment
<1>3. env.crashes # {} =>
         /\ env.crashes # Deaths
         /\ env.roles # Programs
         /\ "sync" \notin env.faults /\ "rebase" \notin env.faults
         /\ "power" \in env.crashes => "create" \notin env.faults /\ "wal_on" \notin env.operations
  BY <1>1 DEF DiesAsExpected
<1>4. QED
  BY <1>2, <1>3 DEF Mortal, PowerFails, Deaths, Programs

\* A step of an open store stays in it, unless it ends.
LEMMA WorkStays ==
    ASSUME IndexInv, Next, pc \notin Opening \cup {"down"}, pc' # "down"
    PROVE  pc' \notin Opening \cup {"down"} /\ role' = role
<1>2. pc' = after => pc' \notin Opening
  BY DEF IndexInv, TypeOK, Returns, Opening
<1> USE DEF Opening
<1>3. CASE Open
  BY <1>3 DEF Open, OpenIndex, DiscardSeal, ReplaySeal, ReplayFrame, ReplayRecord, ReplaySync,
     ReplayUnlink, OpenLive
<1>4. CASE Write \/ SetWal
  BY <1>4 DEF Write, AppendEntry, FlushAged, Sync, SyncFiles, SapFlush, SapSync,
     ApplyWalOn, StartWal, ApplyWalOff, SetWal, CallFlush, Goto, memory
<1>5. CASE Flush
  BY <1>2, <1>5 DEF Flush, FlushBegin, FlushFrame, FlushRecord, FlushHarden, FlushSwap, FlushUnlink,
     FrameFails, RecordFails, HardenFails, Unseal, Goto, memory
<1>6. CASE Import
  BY <1>6 DEF Import, Stage, Commit, CommitRecord, CommitSync, Abort, Exit, Forget, CallFlush, Goto, memory
<1>7. CASE Fail
  BY <1>7 DEF Fail, Crash, LosePower, Forget
<1>8. CASE Reshape
  BY <1>8 DEF Reshape, DropHead, Rebase, RebaseFails, RebaseNext, Adopt, AdoptFrame, AdoptRecord,
     AdoptSync, Reset, ResetSegment, CallFlush, Goto, memory
<1>9. QED
  BY <1>3, <1>4, <1>5, <1>6, <1>7, <1>8 DEF Next

\* Only an import stages.
LEMMA ImportLabels ==
    ASSUME IndexInv, RolesKept
    PROVE  /\ role # "import" => staged = NotStaged /\ pc \notin {"stage", "staged", "publish", "exit"}
           /\ role = "import" =>
                 /\ pc \notin {"harden", "swap", "unlink", "idle", "sync", "start_wal", "rebase",
                               "adopt", "adopt_record", "adopt_sync", "reset"}
                 /\ pc \in Flushing \cup {"staged"} => staged # NotStaged
BY DEF IndexInv, StagingWithinImport, StagingLabels, RolesKept, Opening, Flushing

\* Who has the store open is one of the environment's, and an import stays staged
\* until it publishes or gives up.
LEMMA RolesStep ==
    ASSUME IndexInv, RolesKept, Next, StagingWithinImport'
    PROVE  RolesKept'
<1>1. /\ pc = "down" <=> role = "none"
      /\ role \in env.roles \cup {"none"}
      /\ env' = env
  BY EnvKept DEF RolesKept
<1>2. CASE pc' = "down"
  <2>1. role' = "none"
    <3>1. CASE Fail \/ Exit
      BY <3>1 DEF Fail, Crash, LosePower, Exit, Forget
    <3>2. CASE SetWal /\ pc = "down"
      BY <1>1, <3>2 DEF SetWal, memory
    <3>3. QED
      BY <1>2, <3>1, <3>2, LeftByDeath
  <2>2. QED
    BY <1>2, <2>1 DEF RolesKept
<1>3. CASE pc' # "down" /\ pc \in Opening \cup {"down"}
  <2> DEFINE Goes == /\ role' \in env.roles /\ role' # "none"
                     /\ \/ pc' \in Opening
                        \/ pc' = "stage" /\ role' = "import"
                        \/ pc' = "idle" /\ role' # "import"
  <2>1. Goes
    <3>1. ASSUME NEW r \in Programs, OpenIndex(r) PROVE Goes
      BY <3>1 DEF OpenIndex, Goto, Opening, Programs
    <3>2. CASE DiscardSeal \/ ReplaySeal \/ ReplayFrame \/ ReplayRecord \/ ReplaySync \/ ReplayUnlink
      BY <1>1, <3>2 DEF DiscardSeal, ReplaySeal, ReplayFrame, ReplayRecord, ReplaySync, ReplayUnlink,
         Goto, Opening, memory
    <3>3. CASE OpenLive
      BY <1>1, <3>3 DEF OpenLive, Opened
    <3>4. CASE SetWal
      BY <1>1, <1>3, <3>4 DEF SetWal, memory
    <3>5. CASE Write
      BY <1>3, <3>5 DEF Write, AppendEntry, FlushAged, Sync, SyncFiles, SapFlush, SapSync,
         ApplyWalOn, StartWal, ApplyWalOff, Opening
    <3>6. CASE Flush
      BY <1>3, <3>6 DEF Flush, FlushBegin, FlushFrame, FlushRecord, FlushHarden, FlushSwap, FlushUnlink,
         FrameFails, RecordFails, HardenFails, Opening
    <3>7. CASE Import
      BY <1>3, <3>7 DEF Import, Stage, Commit, CommitRecord, CommitSync, Abort, Exit, Opening
    <3>8. CASE Fail
      BY <1>3, <3>8 DEF Fail, Crash, LosePower, Forget
    <3>9. CASE Reshape
      BY <1>3, <3>9 DEF Reshape, DropHead, Rebase, RebaseFails, Adopt, AdoptFrame, AdoptRecord,
         AdoptSync, Reset, ResetSegment, Opening
    <3>10. QED
      BY <3>1, <3>2, <3>3, <3>4, <3>5, <3>6, <3>7, <3>8, <3>9 DEF Next, Open
  <2>2. QED
    BY <1>1, <1>3, <2>1 DEF RolesKept, Opening
<1>4. CASE pc' # "down" /\ pc \notin Opening \cup {"down"}
  <2>1. pc' \notin Opening \cup {"down"} /\ role' = role
    BY <1>4, WorkStays
  <2>2. CASE role # "import"
    <3>1. staged = NotStaged /\ pc \notin {"stage", "staged", "publish", "exit"}
      BY <2>2, ImportLabels
    <3>2. pc' # "exit"
      <4>1. CASE Open
        BY <1>4, <4>1 DEF Open, OpenIndex, DiscardSeal, ReplaySeal, ReplayFrame, ReplayRecord, ReplaySync,
           ReplayUnlink, OpenLive, Opening
      <4>2. CASE Write \/ SetWal
        BY <3>1, <4>2 DEF Write, AppendEntry, FlushAged, Sync, SyncFiles, SapFlush, SapSync,
           ApplyWalOn, StartWal, ApplyWalOff, SetWal, CallFlush, Goto
      <4>3. CASE Flush
        BY <2>2, <4>3 DEF Flush, FlushBegin, FlushFrame, FlushRecord, FlushHarden, FlushSwap, FlushUnlink,
           FrameFails, RecordFails, HardenFails, Unseal, Goto, IndexInv, TypeOK, Returns
      <4>4. CASE Import
        BY <3>1, <4>4 DEF Import, Stage, Commit, CommitRecord, CommitSync, Abort, Exit
      <4>5. CASE Fail
        BY <1>4, <4>5 DEF Fail, Crash, LosePower, Forget
      <4>6. CASE Reshape
        BY <4>6 DEF Reshape, DropHead, Rebase, RebaseFails, RebaseNext, Adopt, AdoptFrame, AdoptRecord,
           AdoptSync, Reset, ResetSegment, CallFlush, Goto
      <4>7. QED
        BY <4>1, <4>2, <4>3, <4>4, <4>5, <4>6 DEF Next
    <3>3. QED
      BY <1>1, <1>4, <2>1, <2>2, <3>2 DEF RolesKept
  <2>3. CASE role = "import"
    <3>1. pc' \in {"stage", "exit"} \/ staged' # NotStaged
      <4>1. /\ pc \in {"stage", "exit"} \/ staged # NotStaged
            /\ pc \in Flushing \cup {"staged"} => staged # NotStaged
            /\ pc \notin {"harden", "swap", "unlink", "idle", "sync", "start_wal", "rebase",
                               "adopt", "adopt_record", "adopt_sync", "reset"}
        BY <1>4, <2>3, ImportLabels DEF RolesKept
      <4>2. CASE Open
        BY <1>4, <4>2 DEF Open, OpenIndex, DiscardSeal, ReplaySeal, ReplayFrame, ReplayRecord, ReplaySync,
           ReplayUnlink, OpenLive, Opening
      <4>3. CASE Write \/ SetWal
        BY <4>1, <4>3 DEF Write, AppendEntry, FlushAged, Sync, SyncFiles, SapFlush, SapSync,
           ApplyWalOn, StartWal, ApplyWalOff, SetWal, memory
      <4>4. CASE Flush
        BY <4>1, <4>4 DEF Flush, FlushBegin, FlushFrame, FlushRecord, FlushHarden, FlushSwap, FlushUnlink,
           FrameFails, RecordFails, HardenFails, Flushing, memory
      <4>5. CASE Import
        <5>1. CASE Stage
          BY <5>1, SizesOfStore DEF Stage, CompSize, NotStaged
        <5>2. CASE Commit \/ CommitRecord
          BY <4>1, <5>2 DEF Commit, CommitRecord, memory
        <5>3. CASE CommitSync \/ Abort
          BY <5>3 DEF CommitSync, Abort, Goto
        <5>4. CASE Exit
          BY <1>4, <5>4 DEF Exit, Forget
        <5>5. QED
          BY <4>5, <5>1, <5>2, <5>3, <5>4 DEF Import
      <4>6. CASE Fail
        BY <1>4, <4>6 DEF Fail, Crash, LosePower, Forget
      <4>7. CASE Reshape
        BY <4>1, <4>7 DEF Reshape, DropHead, Rebase, RebaseFails, Adopt, AdoptFrame, AdoptRecord,
           AdoptSync, Reset, ResetSegment
      <4>8. QED
        BY <4>2, <4>3, <4>4, <4>5, <4>6, <4>7 DEF Next
    <3>2. QED
      BY <1>1, <1>4, <2>1, <2>3, <3>1 DEF RolesKept
  <2>4. QED
    BY <2>2, <2>3
<1>5. QED
  BY <1>2, <1>3, <1>4

------------------------------------------------------------------------------
\* Where nothing a replay could find is ever left behind.
LEMMA NothingToReplayStep ==
    ASSUME IndexInv, LaidInv, RolesKept, SegmentInv, DiesAsExpected, Next, ~Mortal,
           role' # "writer" \/ pc' \in Opening
    PROVE  NothingToReplay'
<1>1. /\ pc = "down" <=> role = "none"
      /\ role \in env.roles \cup {"none"}
      /\ pc = "exit" => role = "import"
      /\ (env.crashes # {}) => "writer" \notin env.roles
  BY EnvironmentIs DEF RolesKept, IndexInv
<1>2. role # "writer" \/ pc \in Opening
  <2> SUFFICES ASSUME role = "writer", pc \notin Opening PROVE FALSE
    OBVIOUS
  <2>1. pc # "down" /\ env.crashes = {}
    BY <1>1
  <2>2. pc' # "down"
    <3>1. ~Fail
      BY <2>1 DEF Fail, Crash, LosePower
    <3>2. ~Exit
      BY <1>1 DEF Exit
    <3>3. QED
      BY <2>1, <3>1, <3>2, LeftByDeath
  <2>3. QED
    BY <2>1, <2>2, WorkStays
<1>3. NothingToReplay
  BY <1>2 DEF SegmentInv
<1> USE DEF NothingToReplay, SapOpen
<1>4. NoSegment.there = FALSE /\ NoSegment.lo = 0 /\ NoSegment.hi = 0
  BY DEF NoSegment
<1>5. CASE \E r \in Programs : OpenIndex(r)
  BY <1>3, <1>5 DEF OpenIndex
<1>6. CASE DiscardSeal \/ ReplayUnlink
  BY <1>3, <1>4, <1>6 DEF DiscardSeal, ReplayUnlink
<1>7. CASE ReplaySeal \/ ReplayFrame \/ ReplayRecord \/ ReplaySync
  BY <1>3, <1>7 DEF ReplaySeal, ReplayFrame, ReplayRecord, ReplaySync, disk
<1>8. CASE OpenLive
  <2>1. lo = hi /\ lo \in Nat
    BY <1>8, SizesOfStore DEF OpenLive, LaidInv, InMemory, Emptied
  <2>2. lo' = lo /\ hi' = hi /\ seal' = seal
    BY <1>3, <1>8 DEF OpenLive
  <2>3. sap \in Segment
    BY DEF IndexInv, TypeOK
  <2>4. sap'.lo = sap'.hi
    <3>1. CASE declared /\ sap.there
      <4>1. \E y : sap' = [sap EXCEPT !.base = CompSize, !.ubase = bufStart,
                                      !.lo = lo, !.hi = hi, !.syn = y]
        BY <1>3, <1>8, <3>1 DEF OpenLive
      <4>2. QED
        BY <2>1, <2>3, <4>1 DEF Segment
    <3>2. CASE declared /\ ~sap.there
      BY <1>8, <3>2 DEF OpenLive, FreshSegment
    <3>3. CASE ~declared
      BY <1>4, <1>8, <3>3 DEF OpenLive
    <3>4. QED
      BY <3>1, <3>2, <3>3
  <2>5. sap' \in Segment
    BY <1>8, OpenPreservesIndexInv DEF Open, IndexInv, TypeOK
  <2>6. QED
    BY <1>3, <2>2, <2>4, <2>5 DEF Segment
<1>9. CASE SetWal
  BY <1>3, <1>9 DEF SetWal
<1>10. CASE Crash \/ Exit
  BY <1>3, <1>10 DEF Crash, Exit, disk
<1>11. CASE LosePower
  <2>1. \E h \in sap.syn .. sap.hi : sap'.lo = sap.lo /\ sap'.hi = h
    BY <1>11, LosePowerDoes DEF LaidInv
  <2>2. seal' = seal
    BY <1>11 DEF LosePower
  <2>3. sap.syn \in Nat /\ sap.hi \in Nat /\ sap.lo \in Nat
    BY StoredSegments DEF IndexInv
  <2>4. QED
    BY <1>3, <2>1, <2>2, <2>3
<1>12. CASE pc \notin Opening \cup {"down"} /\ pc' # "down"
  <2>1. /\ role = "import"
        /\ pc \notin {"harden", "swap", "unlink", "idle", "sync", "start_wal", "rebase",
                      "adopt", "adopt_record", "adopt_sync", "reset"}
        /\ pc \in Flushing \cup {"staged"} => staged # NotStaged
    <3>1. role = "import"
      BY <1>1, <1>2, <1>12 DEF IndexInv, TypeOK, Programs
    <3>2. QED
      BY <3>1, ImportLabels
  <2>2. CASE Write
    BY <1>3, <2>1, <2>2 DEF Write, AppendEntry, FlushAged, Sync, SyncFiles, SapFlush, SapSync,
       ApplyWalOn, StartWal, ApplyWalOff, Sealing
  <2>3. CASE Flush
    BY <1>3, <2>1, <2>3 DEF Flush, FlushBegin, FlushFrame, FlushRecord, FlushHarden, FlushSwap,
       FlushUnlink, FrameFails, RecordFails, HardenFails, Unseal, Sealing, Flushing
  <2>4. CASE Import
    BY <1>3, <2>4 DEF Import, Stage, Commit, CommitRecord, CommitSync, Abort, Exit, disk
  <2>5. CASE Reshape
    BY <2>1, <2>5 DEF Reshape, DropHead, Rebase, RebaseFails, Adopt, AdoptFrame, AdoptRecord,
       AdoptSync, Reset, ResetSegment
  <2>6. CASE Open
    BY <1>12, <2>6 DEF Open, OpenIndex, DiscardSeal, ReplaySeal, ReplayFrame, ReplayRecord,
       ReplaySync, ReplayUnlink, OpenLive, Opening
  <2>7. QED
    BY <1>9, <1>10, <1>11, <2>2, <2>3, <2>4, <2>5, <2>6 DEF Next, Fail
<1>13. CASE pc \in Opening \cup {"down"} /\ ~Open /\ ~SetWal /\ ~Fail
  BY <1>13 DEF Next, Opening, Write, AppendEntry, FlushAged, Sync, SyncFiles, SapFlush, SapSync,
     ApplyWalOn, StartWal, ApplyWalOff, Flush, FlushBegin, FlushFrame, FlushRecord, FlushHarden,
     FlushSwap, FlushUnlink, FrameFails, RecordFails, HardenFails, Import, Stage, Commit,
     CommitRecord, CommitSync, Abort, Exit, Reshape, DropHead, Rebase, RebaseFails, Adopt,
     AdoptFrame, AdoptRecord, AdoptSync, Reset, ResetSegment
<1>14. pc' = "down" => Fail \/ Exit \/ SetWal
  BY LeftByDeath
<1>15. QED
  BY <1>5, <1>6, <1>7, <1>8, <1>9, <1>10, <1>11, <1>12, <1>13, <1>14 DEF Open, Fail

------------------------------------------------------------------------------
\* What is sure to be found again, and what an open goes by when nothing is held back.
LEMMA SureIs ==
    ASSUME IndexInv, SyncedWithin
    PROVE  /\ Sure \in Nat /\ Sure <= Intact
           /\ ~PowerFails => Sure = Intact
           /\ PowerFails => Sure <= trunkSynced /\ Sure <= ringsSynced
BY SizesOfStore DEF Sure, SyncedWithin, Intact, Least

\* Outside a delivery and a replay an open would go by the index in memory, ...
LEMMA IntactIsIndex ==
    ASSUME IndexInv, staged = NotStaged, pc \notin {"down", "replay_sync"}
    PROVE  Intact = CompSize /\ rings = chunks /\ Len(rings) = CompSize
<1>1. rings = chunks
  BY DEF IndexInv, RingsFollowChunks
<1>2. QED
  BY <1>1, SizesOfStore DEF Intact, Least, CompSize

\* ... after a step as well as before it ...
LEMMA IntactIsIndexNext ==
    ASSUME IndexInv', staged' = NotStaged, pc' \notin {"down", "replay_sync"}
    PROVE  Intact' = CompSize' /\ rings' = chunks' /\ Len(rings') = CompSize'
<1>1. rings' = chunks'
  BY DEF IndexInv, RingsFollowChunks
<1>2. /\ trunk' \in Seq(Frame) /\ chunks' \in Seq(ChunkRecord)
      /\ Len(chunks') <= Len(trunk')
  BY DEF IndexInv, TypeOK, IndexWithinTrunk, CompSize
<1>3. Len(chunks') \in Nat /\ Len(trunk') \in Nat
  BY <1>2, LenProperties
<1>4. QED
  BY <1>1, <1>2, <1>3 DEF Intact, Least, CompSize

\* ... and it goes by the files alone.
LEMMA SureKept ==
    ASSUME UNCHANGED <<trunk, trunkSynced, rings, ringsSynced, env>>
    PROVE  Sure' = Sure /\ Intact' = Intact
BY DEF Sure, Intact, PowerFails

\* The store a mortal writer reopens is a writer's.
LEMMA MortalIsWriter ==
    ASSUME DiesAsExpected, IndexInv, RolesKept, Mortal
    PROVE  /\ role # "import" /\ staged = NotStaged
           /\ pc # "down" => role = "writer"
           /\ pc \notin {"stage", "staged", "publish", "exit"}
<1>1. role # "import"
  BY EnvironmentIs DEF RolesKept, IndexInv
<1>2. pc # "down" => role = "writer"
  BY <1>1 DEF RolesKept, IndexInv, TypeOK, Programs
<1>3. QED
  BY <1>1, <1>2, ImportLabels

\* Wherever a writer is, its segments are what an open needs ...
LEMMA WorkingIsRecoverable ==
    ASSUME DiesAsExpected, IndexInv, LaidInv, RolesKept, Mortal,
           pc \notin Opening \cup {"down"}, WorkingRight
    PROVE  Recoverable
<1>1. /\ staged = NotStaged /\ pc \notin {"stage", "staged", "publish", "exit", "down", "replay_sync"}
      /\ pc \in Labels
  BY MortalIsWriter DEF Opening, IndexInv, TypeOK
<1>2. Intact = CompSize /\ CompSize \in Nat /\ Sure \in Nat /\ Sure <= Intact
  BY <1>1, IntactIsIndex, SureIs, SizesOfStore DEF LaidInv
<1>3. pc # "reset" => lo = TapeEnd(CompSize)
  BY <1>1 DEF LaidInv, InMemory
<1>4. /\ seal.base \in Nat /\ seal.lo \in Nat /\ seal.hi \in Nat
      /\ sap.lo \in Nat /\ sap.hi \in Nat
  BY StoredSegments DEF IndexInv
<1>5. TapeEnd(0) = head
  BY DEF TapeEnd
<1>6. CASE pc \in {"frame", "record"}
  <2>1. ~SapOpen
    BY <1>6 DEF WorkingRight, SealIsFlush
  <2>2. seal.there => seal.lo = lo /\ seal.base = CompSize /\ Sure = CompSize
    BY <1>6 DEF WorkingRight, NoSealOutsideFlush, SealIsFlush
  <2>3. QED
    BY <1>2, <1>3, <1>6, <2>1, <2>2 DEF Recoverable, Pending, SealOpen
<1>7. CASE pc = "harden"
  <2>1. /\ seal.base + 1 = CompSize /\ CompSize - 1 <= Sure /\ ~SapOpen
        /\ seal.lo = TapeEnd(CompSize - 1) /\ seal.hi = TapeEnd(CompSize)
    BY <1>7 DEF WorkingRight, SealIsFlush
  <2>2. seal.base >= Sure => Sure = CompSize - 1 /\ Sure + 1 = CompSize
    BY <1>2, <1>4, <2>1
  <2>3. seal.base <= Sure
    BY <1>2, <1>4, <2>1
  <2>4. QED
    BY <2>1, <2>2, <2>3 DEF Recoverable, Pending
<1>8. CASE pc \in {"swap", "unlink"}
  <2>1. seal.base + 1 = CompSize /\ Sure = CompSize
    BY <1>8 DEF WorkingRight, SealIsFlush
  <2>2. ~SapOpen
    <3>1. CASE pc = "swap"
      BY <3>1 DEF WorkingRight, SealIsFlush
    <3>2. CASE pc = "unlink" /\ wal
      <4>1. sap.lo = lo /\ sap.hi = lo
        BY <3>2 DEF WorkingRight, SealIsFlush
      <4>2. QED
        BY <1>4, <4>1 DEF SapOpen
    <3>3. CASE ~wal
      BY <3>3 DEF WorkingRight
    <3>4. QED
      BY <1>8, <3>1, <3>2, <3>3
  <2>3. seal.base <= Sure /\ ~(seal.base >= Sure)
    BY <1>2, <1>4, <2>1
  <2>4. QED
    BY <2>2, <2>3 DEF Recoverable, Pending
<1>9. CASE pc \notin Flushing \ {"flush"}
  <2>1. ~seal.there
    BY <1>9 DEF WorkingRight, NoSealOutsideFlush
  <2>2. SapOpen => sap.there /\ Sure = Intact /\ sap.lo = TapeEnd(Sure)
    <3>1. CASE ~wal
      BY <3>1 DEF WorkingRight
    <3>2. CASE wal /\ pc \in {"idle", "flush", "sync", "adopt", "rebase"}
      <4>1. sap.there /\ (SapOpen => sap.lo = lo) /\ Sure = CompSize
        BY <3>2 DEF WorkingRight, SegmentIsBuffer
      <4>2. QED
        BY <1>2, <1>3, <3>2, <4>1
    <3>3. CASE wal /\ pc = "reset"
      <4>1. sap.there /\ sap.lo = head /\ Sure = 0 /\ Intact = 0
        BY <3>3 DEF WorkingRight, SegmentIsBuffer
      <4>2. QED
        BY <1>5, <4>1
    <3>4. CASE wal /\ pc \in {"adopt_record", "adopt_sync"}
      BY <3>4 DEF WorkingRight, SegmentIsBuffer
    <3>5. CASE wal /\ pc = "start_wal"
      BY <3>5 DEF WorkingRight
    <3>6. QED
      BY <1>1, <1>9, <3>1, <3>2, <3>3, <3>4, <3>5 DEF Labels, Opening, Flushing
  <2>3. QED
    BY <2>1, <2>2 DEF Recoverable, Pending, SealOpen
<1>10. QED
  BY <1>6, <1>7, <1>8, <1>9 DEF Flushing

\* ... and still are after a death, of which a power loss takes a part of each file.
LEMMA RecoverableAfterDeath ==
    ASSUME DiesAsExpected, IndexInv, LaidInv, Recoverable, Fail
    PROVE  ReopeningRight' /\ pc' = "down"
<1>1. /\ Sure \in Nat /\ Sure <= Intact /\ Intact \in Nat
      /\ ~PowerFails => Sure = Intact
      /\ PowerFails => Sure <= trunkSynced /\ Sure <= ringsSynced
  BY SureIs, SizesOfStore DEF LaidInv
<1>2. ASSUME Recoverable', Sure' = Intact', pc' = "down" PROVE ReopeningRight'
  BY <1>2 DEF ReopeningRight
<1>3. CASE Crash
  <2>1. /\ UNCHANGED <<trunk, trunkSynced, rings, ringsSynced, sap, seal, env, head>>
        /\ pc' = "down" /\ ~PowerFails
    BY <1>3, EnvironmentIs DEF Crash, disk, history, IndexInv, Forget
  <2>2. Sure' = Sure /\ Intact' = Intact
    BY <2>1, SureKept
  <2>3. Recoverable'
    BY <2>1, <2>2 DEF Recoverable, Pending, SealOpen, SapOpen, TapeEnd
  <2>4. QED
    BY <1>1, <1>2, <2>1, <2>2, <2>3
<1>4. CASE LosePower
  <2>1. /\ trunkSynced' \in trunkSynced .. Len(trunk) /\ ringsSynced' \in ringsSynced .. Len(rings)
        /\ trunkSynced' = Len(trunk') /\ ringsSynced' = Len(rings')
        /\ \A i \in 1 .. Len(trunk') : trunk'[i] = trunk[i]
        /\ UNCHANGED <<seal, env, head>> /\ pc' = "down" /\ PowerFails
        /\ \E h \in sap.syn .. sap.hi :
              sap'.there = sap.there /\ sap'.lo = sap.lo /\ sap'.hi = h
    BY <1>4, LosePowerDoes DEF LaidInv
  <2>2. /\ trunkSynced \in Nat /\ ringsSynced \in Nat /\ Len(trunk) \in Nat /\ Len(rings) \in Nat
        /\ seal.base \in Nat /\ sap.syn \in Nat /\ sap.hi \in Nat /\ sap.lo \in Nat
    BY SizesOfStore, StoredSegments DEF IndexInv
  <2>3. /\ Sure' = Intact' /\ Sure' \in Nat /\ Sure <= Sure' /\ Sure' <= Intact
        /\ Sure' <= Len(trunk')
    BY <1>1, <2>1, <2>2 DEF Sure, Intact, PowerFails, Least
  <2>4. Sure <= Len(trunk') /\ Len(trunk') \in Nat
    BY <1>1, <2>1, <2>2, <2>3
  <2>5. TapeEnd(Sure)' = IF Sure = Sure' THEN TapeEnd(Sure) ELSE TapeEnd(Sure)'
    <3>1. CASE Sure = Sure' /\ Sure # 0
      <4>1. Sure \in 1 .. Len(trunk')
        BY <1>1, <2>4, <3>1
      <4>2. trunk'[Sure] = trunk[Sure]
        BY <2>1, <4>1
      <4>3. QED
        BY <3>1, <4>2 DEF TapeEnd
    <3>2. CASE Sure = Sure' /\ Sure = 0
      BY <2>1, <3>2 DEF TapeEnd
    <3>3. QED
      BY <3>1, <3>2
  <2>6. SapOpen' => SapOpen
    BY <2>1, <2>2 DEF SapOpen
  <2>7. SealOpen' <=> SealOpen
    BY <2>1 DEF SealOpen
  <2>8. Pending' => Pending /\ Sure' = Sure
    BY <1>1, <2>1, <2>2, <2>3, <2>7 DEF Pending, Recoverable
  <2>9. SapOpen' => /\ sap'.there /\ sap'.lo = TapeEnd(Sure)' /\ ~Pending'
    <3> SUFFICES ASSUME SapOpen' PROVE sap'.there /\ sap'.lo = TapeEnd(Sure)' /\ ~Pending'
      OBVIOUS
    <3>1. sap.there /\ Sure = Intact /\ sap.lo = TapeEnd(Sure) /\ ~Pending
      BY <2>6 DEF Recoverable
    <3>2. Sure' = Sure
      BY <1>1, <2>3, <3>1
    <3>3. QED
      BY <2>1, <2>5, <2>8, <3>1, <3>2
  <2>10. Pending' => seal'.lo = TapeEnd(Sure)'
    BY <2>1, <2>5, <2>8 DEF Recoverable
  <2>11. SealOpen' => seal'.base <= Sure'
    BY <1>1, <2>1, <2>2, <2>3, <2>7 DEF Recoverable
  <2>12. Recoverable'
    BY <2>3, <2>9, <2>10, <2>11 DEF Recoverable
  <2>13. QED
    BY <1>2, <2>1, <2>3, <2>12
<1>5. QED
  BY <1>3, <1>4 DEF Fail, Crash, LosePower, Forget

------------------------------------------------------------------------------
\* The sizes of the store after a step, and what an open goes by then.
LEMMA SizesNext ==
    ASSUME IndexInv'
    PROVE  /\ Len(trunk') \in Nat /\ Len(rings') \in Nat /\ Len(chunks') \in Nat
           /\ trunkSynced' \in Nat /\ ringsSynced' \in Nat
           /\ CompSize' = Len(chunks') /\ CompSize' \in Nat
           /\ CompSize' <= Len(trunk')
           /\ lo' \in Nat /\ hi' \in Nat
<1>1. trunk' \in Seq(Frame) /\ rings' \in Seq(ChunkRecord) /\ chunks' \in Seq(ChunkRecord)
  BY DEF IndexInv, TypeOK
<1>2. Len(trunk') \in Nat /\ Len(rings') \in Nat /\ Len(chunks') \in Nat
  BY <1>1, LenProperties
<1>3. QED
  BY <1>2 DEF IndexInv, TypeOK, IndexWithinTrunk, CompSize

\* A step that touches nothing an open looks at leaves a store recoverable.
LEMMA RecoverableKept ==
    ASSUME Recoverable,
           UNCHANGED <<trunk, trunkSynced, rings, ringsSynced, sap, seal, env, head>>
    PROVE  Recoverable' /\ Sure' = Sure /\ Intact' = Intact
<1>1. Sure' = Sure /\ Intact' = Intact
  BY SureKept
<1>2. QED
  BY <1>1 DEF Recoverable, Pending, SealOpen, SapOpen, TapeEnd

\* A mortal writer's open, step by step: the index ...
LEMMA OpenIndexReopens ==
    ASSUME IndexInv, IndexInv', LaidInv, ReopeningRight, NEW r \in Programs, OpenIndex(r)
    PROVE  ReopeningRight'
<1>1. /\ Sure = Intact /\ Intact \in Nat /\ Intact <= Len(rings) /\ Intact <= Len(trunk)
      /\ PowerFails => Intact <= trunkSynced /\ Intact <= ringsSynced
      /\ trunkSynced \in Nat /\ ringsSynced \in Nat /\ Recoverable
      /\ Len(trunk) \in Nat
  BY SureIs, SizesOfStore DEF OpenIndex, ReopeningRight, LaidInv
<1>2. /\ rings' = SubSeq(rings, 1, Intact) /\ ringsSynced' = Least(ringsSynced, Intact)
      /\ UNCHANGED <<trunk, trunkSynced, sap, seal, env, head>> /\ pc' = "open_seal"
  BY DEF OpenIndex, Goto, history
<1>3. Intact \in 0 .. Len(rings)
  BY <1>1, SizesOfStore
<1>4. Len(rings') = Intact
  BY <1>2, <1>3, SizesOfStore, PrefixIsSeq
<1>5. Intact' = Intact
  BY <1>1, <1>2, <1>4 DEF Intact, Least
<1>6. ringsSynced' = IF ringsSynced <= Intact THEN ringsSynced ELSE Intact
  BY <1>2 DEF Least
<1>7. PowerFails => ringsSynced' = Intact
  BY <1>1, <1>6
<1>8. PowerFails' = PowerFails
  BY <1>2 DEF PowerFails
<1>9. PowerFails => Sure' = (IF trunkSynced <= Intact THEN trunkSynced ELSE Intact)
  BY <1>2, <1>7, <1>8 DEF Sure, Least
<1>10. PowerFails => Sure' = Intact
  BY <1>1, <1>9
<1>11. Sure' = Sure
  BY <1>1, <1>5, <1>8, <1>10 DEF Sure
<1>12. Recoverable'
  BY <1>1, <1>2, <1>5, <1>11 DEF Recoverable, Pending, SealOpen, SapOpen, TapeEnd
<1>13. QED
  BY <1>1, <1>2, <1>5, <1>11, <1>12 DEF ReopeningRight

\* ... the seal discarded, or read back into the buffer ...
LEMMA SealReopens ==
    ASSUME IndexInv, IndexInv', LaidInv, ReopeningRight, staged = NotStaged,
           DiscardSeal \/ ReplaySeal \/ ReplayUnlink
    PROVE  ReopeningRight'
<1>1. Recoverable /\ Sure = Intact
  BY DEF ReopeningRight, DiscardSeal, ReplaySeal, ReplayUnlink, Opening
<1>2. CASE DiscardSeal \/ ReplayUnlink
  <2>1. /\ UNCHANGED <<trunk, trunkSynced, rings, ringsSynced, sap, env, head>>
        /\ seal' = NoSegment /\ pc' = "open_live"
    BY <1>2 DEF DiscardSeal, ReplayUnlink, Goto, history
  <2>2. Sure' = Sure /\ Intact' = Intact
    BY <2>1, SureKept
  <2>3. ~seal'.there
    BY <2>1 DEF NoSegment
  <2>4. Recoverable'
    BY <1>1, <2>1, <2>2, <2>3 DEF Recoverable, Pending, SealOpen, SapOpen, TapeEnd
  <2>5. QED
    BY <1>1, <2>1, <2>2, <2>3, <2>4 DEF ReopeningRight
<1>3. CASE ReplaySeal
  <2>1. /\ UNCHANGED <<trunk, trunkSynced, rings, ringsSynced, sap, seal, chunks, env, head>>
        /\ seal.there /\ seal.base >= CompSize /\ seal.lo < seal.hi
        /\ lo' = seal.lo /\ hi' = seal.hi /\ pc' = "replay_frame" /\ pc = "open_seal"
    BY <1>3 DEF ReplaySeal, Goto, disk, history
  <2>2. Intact = CompSize /\ CompSize \in Nat
    BY <2>1, IntactIsIndex, SizesOfStore
  <2>3. seal.base = CompSize
    <3>1. seal.base <= CompSize
      BY <1>1, <2>1, <2>2 DEF Recoverable, SealOpen
    <3>2. seal.base \in Nat
      BY StoredSegments DEF IndexInv
    <3>3. QED
      BY <2>1, <2>2, <3>1, <3>2
  <2>4. SealOpen /\ Pending
    BY <1>1, <2>1, <2>2, <2>3 DEF Pending, SealOpen
  <2>5. ~SapOpen
    BY <1>1, <2>4 DEF Recoverable
  <2>6. Recoverable' /\ Sure' = Sure /\ Intact' = Intact
    BY <1>1, <2>1, RecoverableKept
  <2>7. CompSize' = CompSize /\ (SapOpen' <=> SapOpen) /\ (SealOpen' <=> SealOpen)
    BY <2>1 DEF CompSize, SapOpen, SealOpen
  <2>8. QED
    BY <1>1, <2>1, <2>2, <2>3, <2>4, <2>5, <2>6, <2>7 DEF ReopeningRight
<1>4. QED
  BY <1>2, <1>3

\* ... its frame, its record and their fsync ...
LEMMA ReplayReopens ==
    ASSUME IndexInv, IndexInv', LaidInv, LaidInv', ReopeningRight, staged = NotStaged,
           ReplayFrame \/ ReplayRecord \/ ReplaySync
    PROVE  ReopeningRight'
<1>1. /\ Recoverable
      /\ SealOpen /\ seal.lo = lo /\ seal.hi = hi /\ seal.base = CompSize
      /\ CompSize <= Sure /\ ~SapOpen
  BY DEF ReopeningRight, ReplayFrame, ReplayRecord, ReplaySync
<1>2. /\ CompSize \in Nat /\ Len(trunk) \in Nat /\ Len(rings) \in Nat
      /\ trunkSynced \in Nat /\ ringsSynced \in Nat
      /\ trunkSynced <= Len(trunk) /\ ringsSynced <= Len(rings)
      /\ Len(trunk') \in Nat /\ Len(rings') \in Nat
      /\ CompSize' \in Nat /\ CompSize' <= Len(trunk')
  BY SizesOfStore, SizesNext DEF LaidInv, SyncedWithin
<1>3. /\ Sure \in Nat /\ Sure <= Intact
      /\ ~PowerFails => Sure = Intact
      /\ PowerFails => Sure <= trunkSynced /\ Sure <= ringsSynced
  BY SureIs DEF LaidInv
<1>4. UNCHANGED <<sap, seal, env, head>> /\ staged' = NotStaged
  BY DEF ReplayFrame, ReplayRecord, ReplaySync, memory, history
<1>5. PowerFails' = PowerFails /\ (SapOpen' <=> SapOpen) /\ (SealOpen' <=> SealOpen)
  BY <1>4 DEF PowerFails, SapOpen, SealOpen
<1>6. CASE ReplayFrame
  <2>1. /\ Intact = CompSize /\ Len(rings) = CompSize
    BY <1>6, IntactIsIndex DEF ReplayFrame
  <2>2. /\ UNCHANGED <<rings, ringsSynced, chunks, lo, hi>> /\ pc' = "replay_record"
        /\ trunkSynced' = (IF trunkSynced <= CompSize THEN trunkSynced ELSE CompSize)
    BY <1>6 DEF ReplayFrame, Goto, WriteFrame, memory, Least
  <2>3. CompSize' = CompSize /\ Intact' = CompSize'
    BY <1>4, <2>2, IntactIsIndexNext DEF CompSize
  <2>4. PowerFails => trunkSynced' = CompSize /\ ringsSynced' = CompSize
    BY <1>1, <1>2, <1>3, <2>1, <2>2
  <2>5. PowerFails => Sure' = CompSize
    BY <1>2, <1>5, <2>4 DEF Sure, Least
  <2>6. Sure' = CompSize
    BY <1>5, <2>3, <2>5 DEF Sure
  <2>7. TapeEnd(Sure)' = lo
    <3>1. lo' = TapeEnd(CompSize)'
      BY <2>2 DEF LaidInv, InMemory
    <3>2. QED
      BY <2>2, <2>3, <2>6, <3>1 DEF TapeEnd
  <2>8. Recoverable'
    BY <1>1, <1>2, <1>4, <1>5, <2>3, <2>6, <2>7 DEF Recoverable, Pending
  <2>9. QED
    BY <1>1, <1>2, <1>4, <1>5, <2>2, <2>3, <2>6, <2>8 DEF ReopeningRight
<1>7. CASE ReplayRecord
  <2>1. Intact = CompSize /\ Len(rings) = CompSize
    BY <1>7, IntactIsIndex DEF ReplayRecord
  <2>2. /\ UNCHANGED <<trunk, trunkSynced, chunks, lo, hi>> /\ pc' = "replay_sync"
        /\ WriteRecord(NextRecord(hi - lo))
    BY <1>7 DEF ReplayRecord, Goto
  <2>3. ringsSynced' = (IF ringsSynced <= CompSize THEN ringsSynced ELSE CompSize)
    BY <2>2 DEF WriteRecord, Least
  <2>4. Len(rings') = CompSize + 1 /\ CompSize < Len(trunk)
    <3>1. Len(rings') = CompSize' + 1
      BY <2>2 DEF IndexInv, RingsFollowChunks
    <3>2. QED
      BY <1>7, <2>2, <3>1 DEF ReplayRecord, IndexInv, IndexWithinTrunk, CompSize
  <2>5. CompSize' = CompSize
    BY <2>2 DEF CompSize
  <2>6. Intact' = CompSize + 1
    BY <1>2, <2>2, <2>4 DEF Intact, Least
  <2>7. PowerFails => ringsSynced' = CompSize /\ CompSize <= trunkSynced'
    BY <1>1, <1>2, <1>3, <2>1, <2>2, <2>3
  <2>8. PowerFails => Sure' = CompSize
    BY <1>2, <1>5, <2>2, <2>7 DEF Sure, Least
  <2>9. ~PowerFails => Sure' = CompSize + 1
    BY <1>5, <2>6 DEF Sure
  <2>10. /\ lo = TapeEnd(CompSize)
         /\ trunk[CompSize + 1].hi = hi
    BY <1>7 DEF ReplayRecord, LaidInv, InMemory
  <2>11. TapeEnd(CompSize)' = lo /\ TapeEnd(CompSize + 1)' = hi
    BY <1>2, <1>4, <2>2, <2>5, <2>10 DEF TapeEnd
  <2>12. Recoverable'
    <3>1. CASE PowerFails
      <4>1. Sure' = CompSize
        BY <2>8, <3>1
      <4>2. TapeEnd(Sure)' = lo /\ TapeEnd(Sure + 1)' = hi
        BY <2>5, <2>11, <4>1 DEF TapeEnd
      <4>3. QED
        BY <1>1, <1>2, <1>4, <1>5, <4>1, <4>2 DEF Recoverable, Pending
    <3>2. CASE ~PowerFails
      <4>1. Sure' = CompSize + 1 /\ ~(CompSize >= CompSize + 1) /\ CompSize <= CompSize + 1
        BY <1>2, <2>9, <3>2
      <4>2. ~Pending' /\ seal'.base <= Sure'
        BY <1>1, <1>4, <4>1 DEF Pending
      <4>3. QED
        BY <1>1, <1>5, <4>2 DEF Recoverable
    <3>3. QED
      BY <3>1, <3>2
  <2>13. CompSize' <= Sure'
    BY <1>2, <2>5, <2>8, <2>9
  <2>14. QED
    BY <1>1, <1>4, <1>5, <2>2, <2>5, <2>12, <2>13 DEF ReopeningRight
<1>8. CASE ReplaySync
  <2>1. /\ UNCHANGED <<trunk, rings>> /\ pc' = "replay_unlink"
        /\ trunkSynced' = Len(trunk) /\ ringsSynced' = Len(rings)
    BY <1>8 DEF ReplaySync, Goto, SyncPair
  <2>2. Len(rings) = CompSize + 1 /\ CompSize < Len(trunk)
    BY <1>8 DEF ReplaySync, IndexInv, RingsFollowChunks, IndexWithinTrunk
  <2>3. Intact' = CompSize + 1 /\ Sure' = CompSize + 1
    BY <1>2, <2>1, <2>2 DEF Intact, Sure, Least
  <2>4. ~Pending' /\ seal'.base <= Sure'
    BY <1>1, <1>2, <1>4, <2>3 DEF Pending
  <2>5. Recoverable'
    BY <1>1, <1>5, <2>4 DEF Recoverable
  <2>6. QED
    BY <1>1, <1>5, <2>1, <2>3, <2>5 DEF ReopeningRight
<1>9. QED
  BY <1>6, <1>7, <1>8

\* ... and the live segment, which becomes the buffer.
LEMMA LiveReopens ==
    ASSUME IndexInv, IndexInv', LaidInv, ReopeningRight, role # "import", staged = NotStaged, OpenLive
    PROVE  pc' = "idle" /\ WorkingRight'
<1>1. /\ pc = "open_live" /\ pc' = "idle" /\ after' = after
      /\ UNCHANGED <<trunk, trunkSynced, rings, ringsSynced, seal, chunks, env, declared>>
      /\ wal' = declared
  BY DEF OpenLive, Opened, history
<1>2. Sure = Intact /\ ~seal.there /\ Intact = CompSize
  BY <1>1, IntactIsIndex DEF ReopeningRight
<1>3. Sure' = Sure /\ CompSize' = CompSize
  BY <1>1, SureKept DEF CompSize
<1>4. walHi' = hi'
  BY DEF OpenLive
<1>5. ~declared => sap' = NoSegment
  BY DEF OpenLive
<1>6. declared => sap'.there /\ sap'.lo = lo' /\ sap'.hi = hi' /\ sap'.base = CompSize
  <2>1. CASE declared /\ sap.there
    <3>1. \E y : sap' = [sap EXCEPT !.base = CompSize, !.ubase = bufStart,
                                    !.lo = lo', !.hi = hi', !.syn = y]
      BY <2>1 DEF OpenLive
    <3>2. sap \in Segment
      BY DEF IndexInv, TypeOK
    <3>3. QED
      BY <2>1, <3>1, <3>2 DEF Segment
  <2>2. CASE declared /\ ~sap.there
    <3>1. sap' = FreshSegment(CompSize, bufStart, hi') /\ ~SapOpen
      BY <2>2 DEF OpenLive, ReopeningRight, Recoverable
    <3>2. lo' = hi'
      BY <3>1, <1>1 DEF OpenLive, SapOpen, LaidInv, InMemory, Emptied
    <3>3. QED
      BY <3>1, <3>2 DEF FreshSegment
  <2>3. QED
    BY <2>1, <2>2
<1>7. hi' \in Nat
  BY SizesNext
<1>8. ~wal' => ~SapOpen'
  BY <1>1, <1>5 DEF SapOpen, NoSegment
<1>9. NoSealOutsideFlush'
  BY <1>1, <1>2 DEF NoSealOutsideFlush, Flushing
<1>10. SegmentIsBuffer' /\ SealIsFlush'
  BY <1>1, <1>2, <1>3, <1>6, <1>7 DEF SegmentIsBuffer, SealIsFlush
<1>11. QED
  BY <1>1, <1>4, <1>8, <1>9, <1>10 DEF WorkingRight, Flushing

\* A mortal writer's open, taken together: it ends at work, or dies recoverable.
LEMMA ReopeningStep ==
    ASSUME IndexInv, IndexInv', LaidInv, LaidInv', RolesKept, DiesAsExpected, Mortal,
           pc \in Opening \cup {"down"}, ReopeningRight, Next
    PROVE  IF pc' \in Opening \cup {"down"} THEN ReopeningRight' ELSE WorkingRight'
<1>1. role # "import" /\ staged = NotStaged
  BY MortalIsWriter
<1>2. CASE \E r \in Programs : OpenIndex(r)
  BY <1>2, OpenIndexReopens DEF OpenIndex, Goto, Opening
<1>3. CASE DiscardSeal \/ ReplaySeal \/ ReplayUnlink
  BY <1>1, <1>3, SealReopens DEF DiscardSeal, ReplaySeal, ReplayUnlink, Goto, Opening
<1>4. CASE ReplayFrame \/ ReplayRecord \/ ReplaySync
  BY <1>1, <1>4, ReplayReopens DEF ReplayFrame, ReplayRecord, ReplaySync, Goto, Opening
<1>5. CASE OpenLive
  BY <1>1, <1>5, LiveReopens DEF Opening
<1>6. CASE SetWal
  <2>1. /\ UNCHANGED <<trunk, trunkSynced, rings, ringsSynced, sap, seal, env, head>>
        /\ UNCHANGED <<pc, lo, hi, chunks>>
    BY <1>6 DEF SetWal, memory, history
  <2>2. Recoverable' /\ Sure' = Sure /\ Intact' = Intact
    BY <2>1, RecoverableKept DEF ReopeningRight
  <2>3. ReopeningRight'
    BY <2>1, <2>2 DEF ReopeningRight, SapOpen, SealOpen, CompSize
  <2>4. QED
    BY <2>1, <2>3
<1>7. CASE Fail
  <2>1. Recoverable
    BY DEF ReopeningRight
  <2>2. QED
    BY <1>7, <2>1, RecoverableAfterDeath
<1>8. CASE ~Open /\ ~SetWal /\ ~Fail
  BY <1>8 DEF Next, Opening, Write, AppendEntry, FlushAged, Sync, SyncFiles, SapFlush, SapSync,
     ApplyWalOn, StartWal, ApplyWalOff, Flush, FlushBegin, FlushFrame, FlushRecord, FlushHarden,
     FlushSwap, FlushUnlink, FrameFails, RecordFails, HardenFails, Import, Stage, Commit,
     CommitRecord, CommitSync, Abort, Exit, Reshape, DropHead, Rebase, RebaseFails, Adopt,
     AdoptFrame, AdoptRecord, AdoptSync, Reset, ResetSegment
<1>9. QED
  BY <1>2, <1>3, <1>4, <1>5, <1>6, <1>7, <1>8 DEF Open

------------------------------------------------------------------------------
\* A mortal writer at work: what it has in memory is what is on the disk.
AtWork ==
    /\ IndexInv /\ LaidInv /\ RolesKept /\ Mortal
    /\ pc \notin Opening \cup {"down"}
    /\ WorkingRight

\* What that says of sizes, positions and the segment's fields.
LEMMA WorkFacts ==
    ASSUME DiesAsExpected, AtWork
    PROVE  /\ staged = NotStaged /\ role # "import" /\ (Sealing <=> wal)
           /\ pc \notin {"stage", "staged", "publish", "exit", "down", "replay_sync"}
           /\ rings = chunks /\ Len(rings) = CompSize /\ Intact = CompSize
           /\ CompSize \in Nat /\ CompSize <= Len(trunk) /\ Len(trunk) \in Nat
           /\ trunkSynced \in Nat /\ ringsSynced \in Nat
           /\ trunkSynced <= Len(trunk) /\ ringsSynced <= CompSize
           /\ lo \in Nat /\ hi \in Nat /\ lo <= hi
           /\ pc \in Emptied => lo = hi
           /\ pc # "reset" => lo = TapeEnd(CompSize)
           /\ Sure \in Nat /\ Sure <= CompSize
           /\ PowerFails => Sure <= trunkSynced /\ Sure <= ringsSynced
           /\ ~PowerFails => Sure = CompSize
           /\ sap.there \in BOOLEAN /\ sap.base \in Nat
           /\ sap.lo \in Nat /\ sap.hi \in Nat /\ sap.syn \in Nat
           /\ seal.lo \in Nat /\ seal.hi \in Nat /\ seal.base \in Nat
           /\ wal \in BOOLEAN /\ declared \in BOOLEAN /\ walHi \in Nat
           /\ sap \in Segment /\ seal \in Segment
<1>1. /\ staged = NotStaged /\ role # "import"
      /\ pc \notin {"stage", "staged", "publish", "exit", "down", "replay_sync"}
  BY MortalIsWriter DEF AtWork, Opening
<1>2. rings = chunks /\ Len(rings) = CompSize /\ Intact = CompSize
  BY <1>1, IntactIsIndex DEF AtWork
<1>3. /\ CompSize \in Nat /\ CompSize <= Len(trunk) /\ Len(trunk) \in Nat
      /\ trunkSynced \in Nat /\ ringsSynced \in Nat
      /\ lo \in Nat /\ hi \in Nat /\ lo <= hi
  BY SizesOfStore DEF AtWork
<1>4. /\ Sure \in Nat /\ Sure <= CompSize
      /\ PowerFails => Sure <= trunkSynced /\ Sure <= ringsSynced
      /\ ~PowerFails => Sure = CompSize
  BY <1>2, SureIs DEF AtWork, LaidInv
<1>5. trunkSynced <= Len(trunk) /\ ringsSynced <= CompSize
  BY <1>2 DEF AtWork, LaidInv, SyncedWithin
<1>6. /\ pc \in Emptied => lo = hi
      /\ pc # "reset" => lo = TapeEnd(CompSize)
  BY <1>1 DEF AtWork, LaidInv, InMemory
<1>7. /\ sap.there \in BOOLEAN /\ sap.base \in Nat
      /\ sap.lo \in Nat /\ sap.hi \in Nat /\ sap.syn \in Nat
      /\ seal.lo \in Nat /\ seal.hi \in Nat /\ seal.base \in Nat
  BY StoredSegments DEF AtWork, IndexInv
<1>8. wal \in BOOLEAN /\ declared \in BOOLEAN /\ walHi \in Nat /\ sap \in Segment /\ seal \in Segment
  BY DEF AtWork, IndexInv, TypeOK
<1>9. Sealing <=> wal
  BY <1>1 DEF Sealing
<1>10. QED
  BY <1>1, <1>2, <1>3, <1>4, <1>5, <1>6, <1>7, <1>8, <1>9

\* What an open would go by after a step of a writer at work.
LEMMA WorkNext ==
    ASSUME DiesAsExpected, AtWork, IndexInv', Next, pc' \notin Opening \cup {"down"}
    PROVE  /\ staged' = NotStaged /\ env' = env /\ PowerFails' = PowerFails
           /\ Intact' = CompSize' /\ CompSize' \in Nat /\ hi' \in Nat /\ lo' \in Nat
           /\ trunkSynced' \in Nat /\ ringsSynced' \in Nat
           /\ PowerFails => Sure' = (IF trunkSynced' <= ringsSynced' THEN trunkSynced' ELSE ringsSynced')
           /\ ~PowerFails => Sure' = CompSize'
<1>1. staged = NotStaged /\ pc \notin {"stage", "staged", "publish", "exit"}
  BY WorkFacts
<1>2. staged' = NotStaged
  <2>1. CASE Open
    BY <1>1, <2>1 DEF Open, OpenIndex, DiscardSeal, ReplaySeal, ReplayFrame, ReplayRecord, ReplaySync,
       ReplayUnlink, OpenLive, memory
  <2>2. CASE Write \/ SetWal
    BY <1>1, <2>2 DEF Write, AppendEntry, FlushAged, Sync, SyncFiles, SapFlush, SapSync,
       ApplyWalOn, StartWal, ApplyWalOff, SetWal, memory
  <2>3. CASE Flush
    BY <1>1, <2>3 DEF Flush, FlushBegin, FlushFrame, FlushRecord, FlushHarden, FlushSwap, FlushUnlink,
       FrameFails, RecordFails, HardenFails, memory
  <2>4. CASE Import
    BY <1>1, <2>4 DEF Import, Stage, Commit, CommitRecord, CommitSync, Abort, Exit
  <2>5. CASE Fail
    BY <2>5 DEF Fail, Crash, LosePower, Forget
  <2>6. CASE Reshape
    BY <1>1, <2>6 DEF Reshape, DropHead, Rebase, RebaseFails, Adopt, AdoptFrame, AdoptRecord,
       AdoptSync, Reset, ResetSegment, memory
  <2>7. QED
    BY <2>1, <2>2, <2>3, <2>4, <2>5, <2>6 DEF Next
<1>3. env' = env /\ PowerFails' = PowerFails
  BY EnvKept
<1>4. Intact' = CompSize'
  BY <1>2, IntactIsIndexNext DEF Opening
<1>5. QED
  BY <1>2, <1>3, <1>4, SizesNext DEF Sure, Least

\* Between flushes: the segment is the buffer.
Between == {"idle", "flush", "sync", "adopt", "start_wal"}

\* What a step that ends between flushes has to show ...
LEMMA IntoBetween ==
    ASSUME pc' \in Between,
           ~seal'.there,
           ~wal' => ~SapOpen',
           wal' => /\ walHi' = hi'
                   /\ sap'.there /\ sap'.lo = lo' /\ sap'.hi <= hi' /\ sap'.base = CompSize'
                   /\ Sure' = CompSize',
           PowerFails' /\ declared' => wal',
           pc' = "start_wal" \/ (pc' = "flush" /\ after' = "start_wal") => ~wal' /\ ~PowerFails'
    PROVE  WorkingRight'
BY DEF WorkingRight, NoSealOutsideFlush, SegmentIsBuffer, SealIsFlush, Between, Flushing

\* ... and what one that starts there knows.
LEMMA BetweenIs ==
    ASSUME DiesAsExpected, AtWork, pc \in Between
    PROVE  /\ ~seal.there
           /\ ~wal => ~SapOpen
           /\ wal => /\ walHi = hi
                     /\ pc # "start_wal"
                     /\ sap.there /\ sap.lo = lo /\ sap.hi <= hi /\ sap.base = CompSize
                     /\ Sure = CompSize
           /\ PowerFails /\ declared => wal
           /\ pc = "start_wal" \/ (pc = "flush" /\ after = "start_wal") => ~wal /\ ~PowerFails
BY DEF AtWork, WorkingRight, NoSealOutsideFlush, SegmentIsBuffer, SealIsFlush, Between, Flushing

\* The segment stays the buffer across an append, a tick, an fsync, and a change of
\* the declaration applied.
LEMMA WriteWorks ==
    ASSUME DiesAsExpected, AtWork, IndexInv', Write, pc' \notin Opening \cup {"down"}
    PROVE  WorkingRight'
<1>1. Next
  BY DEF Next
<1>2. /\ staged = NotStaged /\ role # "import" /\ (Sealing <=> wal)
      /\ pc \notin {"stage", "staged", "publish", "exit"}
      /\ lo \in Nat /\ hi \in Nat /\ lo <= hi
      /\ pc \in Emptied => lo = hi
      /\ sap.hi \in Nat /\ sap.lo \in Nat /\ sap \in Segment /\ walHi \in Nat
      /\ CompSize \in Nat /\ Len(rings) = CompSize
      /\ CompSize <= Len(trunk) /\ Len(trunk) \in Nat
      /\ ~PowerFails => Sure = CompSize
  BY WorkFacts
<1>3. /\ PowerFails' = PowerFails
      /\ PowerFails => Sure' = (IF trunkSynced' <= ringsSynced' THEN trunkSynced' ELSE ringsSynced')
      /\ ~PowerFails => Sure' = CompSize'
  BY <1>1, WorkNext
<1>4. CASE FlushAged \/ Sync \/ ApplyWalOn
  <2>1. /\ pc = "idle"
        /\ UNCHANGED <<trunk, trunkSynced, rings, ringsSynced, sap, seal, lo, hi, wal, walHi, chunks,
                       declared, env>>
        /\ \/ pc' = "flush" /\ after' \in {"idle", "sync"}
           \/ pc' \in {"idle", "sync"}
           \/ (pc' = "flush" \/ pc' = "start_wal") /\ declared /\ ~wal
    BY <1>4 DEF FlushAged, Sync, ApplyWalOn, CallFlush, disk, memory, history
  <2>2. Sure' = Sure /\ CompSize' = CompSize /\ (SapOpen' <=> SapOpen)
    BY <2>1, SureKept DEF CompSize, SapOpen
  <2>3. QED
    BY <1>3, <2>1, <2>2, BetweenIs, IntoBetween DEF Between
<1>5. CASE SyncFiles
  <2>1. /\ pc = "sync" /\ pc' = "idle"
        /\ UNCHANGED <<trunk, rings, sap, seal, lo, hi, wal, walHi, chunks, declared, env>>
        /\ trunkSynced' = Len(trunk) /\ ringsSynced' = Len(rings)
    BY <1>5 DEF SyncFiles, SyncPair, memory
  <2>2. CompSize' = CompSize /\ (SapOpen' <=> SapOpen)
    BY <2>1 DEF CompSize, SapOpen
  <2>3. Sure' = CompSize'
    BY <1>2, <1>3, <2>1, <2>2
  <2>4. QED
    BY <1>3, <2>1, <2>2, <2>3, BetweenIs, IntoBetween DEF Between
<1>6. CASE SapFlush \/ SapSync
  <2>1. /\ pc = "idle" /\ pc' = "idle" /\ wal
        /\ UNCHANGED <<trunk, trunkSynced, rings, ringsSynced, seal, lo, hi, wal, walHi, chunks, declared, env>>
        /\ sap' = [sap EXCEPT !.hi = walHi] \/ sap' = [sap EXCEPT !.hi = walHi, !.syn = walHi]
    BY <1>6 DEF SapFlush, SapSync, memory, history
  <2>2. sap'.there = sap.there /\ sap'.lo = sap.lo /\ sap'.base = sap.base /\ sap'.hi = walHi
    BY <1>2, <2>1 DEF Segment
  <2>3. Sure' = Sure /\ CompSize' = CompSize
    BY <2>1, SureKept DEF CompSize
  <2>4. QED
    BY <1>2, <1>3, <2>1, <2>2, <2>3, BetweenIs, IntoBetween DEF Between
<1>7. CASE AppendEntry
  <2>1. /\ pc = "idle" /\ (pc' = "idle" \/ (pc' = "flush" /\ after' = "idle"))
        /\ UNCHANGED <<trunk, trunkSynced, rings, ringsSynced, seal, lo, wal, chunks, declared, env>>
        /\ hi' = hi + 1
        /\ wal => walHi' = hi + 1 /\ \E h \in sap.hi .. hi + 1 : sap' = [sap EXCEPT !.hi = h]
        /\ ~wal => sap' = sap
    BY <1>2, <1>7 DEF AppendEntry, history
  <2>2. wal => sap'.there = sap.there /\ sap'.lo = sap.lo /\ sap'.base = sap.base /\ sap'.hi <= hi + 1
    BY <1>2, <2>1 DEF Segment
  <2>3. Sure' = Sure /\ CompSize' = CompSize /\ (~wal => (SapOpen' <=> SapOpen))
    BY <2>1, SureKept DEF CompSize, SapOpen
  <2>4. QED
    BY <1>2, <1>3, <2>1, <2>2, <2>3, BetweenIs, IntoBetween DEF Between
<1>8. CASE StartWal
  <2>1. /\ pc = "start_wal" /\ pc' = "idle"
        /\ UNCHANGED <<trunk, trunkSynced, rings, ringsSynced, seal, lo, hi, chunks, declared, env>>
        /\ sap' = FreshSegment(CompSize, bufStart, hi) /\ wal' /\ walHi' = hi
    BY <1>8 DEF StartWal, Goto, history
  <2>2. sap'.there /\ sap'.lo = hi /\ sap'.hi = hi /\ sap'.base = CompSize
    BY <2>1 DEF FreshSegment
  <2>3. Sure' = Sure /\ CompSize' = CompSize /\ lo = hi
    BY <1>2, <2>1, SureKept DEF CompSize, Emptied
  <2>4. QED
    BY <1>2, <1>3, <2>1, <2>2, <2>3, BetweenIs, IntoBetween DEF Between
<1>9. CASE ApplyWalOff
  <2>1. /\ pc = "idle" /\ pc' = "idle" /\ ~wal' /\ sap' = NoSegment
        /\ UNCHANGED <<seal, declared>> /\ ~declared
    BY <1>9 DEF ApplyWalOff
  <2>2. ~SapOpen'
    BY <2>1 DEF SapOpen, NoSegment
  <2>3. QED
    BY <1>3, <2>1, <2>2, BetweenIs, IntoBetween DEF Between
<1>10. QED
  BY <1>4, <1>5, <1>6, <1>7, <1>8, <1>9 DEF Write

\* A flush turns the segment into the seal, the seal into a chunk, and the chunk's
\* end into a new segment; one that fails gives the seal back as the segment.
LEMMA FlushWorks ==
    ASSUME DiesAsExpected, AtWork, IndexInv', LaidInv', Flush, pc' \notin Opening \cup {"down"}
    PROVE  WorkingRight'
<1>1. Next
  BY DEF Next
<1>2. /\ staged = NotStaged /\ role # "import" /\ (Sealing <=> wal)
      /\ rings = chunks /\ Len(rings) = CompSize /\ Intact = CompSize
      /\ CompSize \in Nat /\ CompSize <= Len(trunk) /\ Len(trunk) \in Nat
      /\ trunkSynced \in Nat /\ ringsSynced \in Nat /\ ringsSynced <= CompSize
      /\ lo \in Nat /\ hi \in Nat /\ lo <= hi
      /\ pc \in Emptied => lo = hi
      /\ pc # "reset" => lo = TapeEnd(CompSize)
      /\ Sure \in Nat /\ Sure <= CompSize
      /\ PowerFails => Sure <= trunkSynced /\ Sure <= ringsSynced
      /\ ~PowerFails => Sure = CompSize
      /\ sap \in Segment /\ seal \in Segment
      /\ sap.lo \in Nat /\ sap.hi \in Nat
  BY WorkFacts
<1>3. /\ PowerFails' = PowerFails /\ Intact' = CompSize' /\ CompSize' \in Nat
      /\ PowerFails => Sure' = (IF trunkSynced' <= ringsSynced' THEN trunkSynced' ELSE ringsSynced')
      /\ ~PowerFails => Sure' = CompSize'
  BY <1>1, WorkNext
<1>4. WorkingRight /\ Mortal
  BY DEF AtWork
<1>5. /\ pc \in Flushing => after \in {"idle", "sync", "start_wal", "adopt"}
      /\ pc \in Flushing /\ after = "start_wal" => ~wal /\ ~PowerFails
      /\ pc \notin Flushing \ {"flush"} => ~seal.there
      /\ PowerFails /\ declared => wal
      /\ wal => walHi = hi
      /\ ~wal => ~SapOpen
  <2>1. pc \in Flushing => after \in {"idle", "sync", "start_wal", "adopt"}
    BY <1>2 DEF AtWork, IndexInv, TypeOK, StagingWithinImport, StagingLabels, Returns
  <2>2. QED
    BY <1>4, <2>1 DEF WorkingRight, NoSealOutsideFlush
<1>6. CASE FlushBegin
  <2>1. /\ pc = "flush" /\ pc' = "frame" /\ after' = after
        /\ UNCHANGED <<trunk, trunkSynced, rings, ringsSynced, lo, hi, wal, walHi, chunks, declared, env>>
        /\ wal => seal' = [sap EXCEPT !.hi = walHi, !.syn = walHi] /\ sap' = NoSegment
        /\ ~wal => UNCHANGED <<sap, seal>>
    BY <1>2, <1>6 DEF FlushBegin, Goto, memory, history
  <2>2. /\ ~seal.there
        /\ wal => sap.there /\ sap.lo = lo /\ sap.base = CompSize /\ Sure = CompSize
    BY <2>1, BetweenIs DEF Between
  <2>3. wal => /\ seal'.there = sap.there /\ seal'.lo = sap.lo /\ seal'.hi = walHi /\ seal'.base = sap.base
    BY <1>2, <2>1 DEF Segment
  <2>4. ~SapOpen'
    BY <1>5, <2>1 DEF SapOpen, NoSegment
  <2>5. Sure' = Sure /\ CompSize' = CompSize
    BY <2>1, SureKept DEF CompSize
  <2>6. NoSealOutsideFlush' /\ SegmentIsBuffer'
    BY <2>1, <2>2 DEF NoSealOutsideFlush, SegmentIsBuffer, Flushing
  <2>7. SealIsFlush'
    BY <1>5, <2>1, <2>2, <2>3, <2>4, <2>5 DEF SealIsFlush
  <2>8. QED
    BY <1>3, <1>5, <2>1, <2>4, <2>6, <2>7 DEF WorkingRight, Flushing
<1>7. CASE FlushFrame
  <2>1. /\ pc = "frame" /\ pc' = "record" /\ after' = after
        /\ UNCHANGED <<rings, ringsSynced, sap, seal, lo, hi, wal, walHi, chunks, declared, env>>
        /\ trunkSynced' = (IF trunkSynced <= CompSize THEN trunkSynced ELSE CompSize)
    BY <1>7 DEF FlushFrame, Goto, WriteFrame, Least, memory, history
  <2>2. /\ wal => /\ seal.there /\ seal.lo = lo /\ seal.hi = hi /\ seal.base = CompSize
                  /\ Sure = CompSize
        /\ ~SapOpen /\ (~wal => ~seal.there)
    BY <1>4, <2>1 DEF WorkingRight, SealIsFlush, NoSealOutsideFlush
  <2>3. CompSize' = CompSize /\ (SapOpen' <=> SapOpen)
    BY <2>1 DEF CompSize, SapOpen
  <2>4. wal => Sure' = CompSize'
    <3> SUFFICES ASSUME wal, PowerFails PROVE Sure' = CompSize'
      BY <1>3
    <3>1. trunkSynced' = CompSize /\ ringsSynced' = CompSize
      BY <1>2, <2>1, <2>2
    <3>2. QED
      BY <1>3, <2>3, <3>1
  <2>5. NoSealOutsideFlush' /\ SegmentIsBuffer'
    BY <2>1, <2>2 DEF NoSealOutsideFlush, SegmentIsBuffer, Flushing
  <2>6. SealIsFlush'
    BY <2>1, <2>2, <2>3, <2>4 DEF SealIsFlush
  <2>7. QED
    BY <1>3, <1>5, <2>1, <2>2, <2>3, <2>5, <2>6 DEF WorkingRight, Flushing
<1>8. CASE FlushRecord
  <2>1. /\ pc = "record"
        /\ UNCHANGED <<trunk, trunkSynced, sap, seal, hi, wal, walHi, declared, env, head>>
        /\ lo' = hi
        /\ WriteRecord(NextRecord(hi - lo)) /\ chunks' = Append(chunks, NextRecord(hi - lo))
        /\ wal => pc' = "harden" /\ after' = after
        /\ ~wal => pc' = after /\ after' = "none"
    BY <1>2, <1>8 DEF FlushRecord, Goto, history
  <2>2. /\ wal => /\ seal.there /\ seal.lo = lo /\ seal.hi = hi /\ seal.base = CompSize
                  /\ Sure = CompSize
        /\ ~SapOpen /\ (~wal => ~seal.there)
    BY <1>4, <2>1 DEF WorkingRight, SealIsFlush, NoSealOutsideFlush
  <2>3. CompSize' = CompSize + 1
    BY <2>1, NextRecordType, AppendIsSeq, SizesOfStore DEF CompSize, AtWork, IndexInv
  <2>4. CASE ~wal
    <3>1. pc' \in Between /\ (pc' = "start_wal" => ~PowerFails')
      BY <1>3, <1>5, <2>1, <2>4 DEF Between, Flushing
    <3>2. ~seal'.there /\ ~SapOpen' /\ ~wal' /\ after' = "none"
      BY <2>1, <2>2, <2>4 DEF SapOpen
    <3>3. ~(PowerFails' /\ declared')
      BY <1>3, <1>5, <2>1, <2>4
    <3>4. QED
      BY <3>1, <3>2, <3>3, IntoBetween
  <2>5. CASE wal
    <3>1. pc' = "harden" /\ after' = after
      BY <2>1, <2>5
    <3>2. ringsSynced' = (IF ringsSynced <= CompSize THEN ringsSynced ELSE CompSize)
      BY <2>1 DEF WriteRecord, Least
    <3>3. CompSize' - 1 = CompSize /\ seal.base + 1 = CompSize'
      BY <1>2, <2>2, <2>3, <2>5
    <3>4. CompSize <= Sure'
      <4>1. CASE PowerFails
        <5>1. ringsSynced' = CompSize /\ CompSize <= trunkSynced'
          BY <1>2, <2>1, <2>2, <2>5, <3>2, <4>1
        <5>2. trunkSynced' \in Nat /\ ringsSynced' \in Nat
          BY SizesNext
        <5>3. QED
          BY <1>2, <1>3, <4>1, <5>1, <5>2
      <4>2. QED
        BY <1>2, <1>3, <2>3, <4>1
    <3>5. lo = TapeEnd(CompSize) /\ lo' = TapeEnd(CompSize)'
      BY <1>2, <2>1, <3>1 DEF LaidInv, InMemory
    <3>6. TapeEnd(CompSize - 1)' = lo
      BY <2>1, <3>3, <3>5 DEF TapeEnd
    <3>7. SealIsFlush'
      BY <2>1, <2>2, <2>5, <3>1, <3>3, <3>4, <3>5, <3>6 DEF SealIsFlush, SapOpen
    <3>8. NoSealOutsideFlush' /\ SegmentIsBuffer'
      BY <2>1, <2>5, <3>1 DEF NoSealOutsideFlush, SegmentIsBuffer, Flushing
    <3>9. QED
      BY <1>3, <1>5, <2>1, <2>5, <3>1, <3>7, <3>8 DEF WorkingRight, Flushing
  <2>6. QED
    BY <2>4, <2>5
<1>9. CASE FlushHarden
  <2>1. /\ pc = "harden" /\ pc' = "swap" /\ after' = after
        /\ UNCHANGED <<trunk, rings, sap, seal, lo, hi, wal, walHi, chunks, declared, env>>
        /\ trunkSynced' = Len(trunk) /\ ringsSynced' = Len(rings)
    BY <1>9 DEF FlushHarden, Goto, SyncPair, memory
  <2>2. wal /\ ~SapOpen /\ seal.base + 1 = CompSize
    BY <1>4, <2>1 DEF WorkingRight, SealIsFlush, NoSealOutsideFlush
  <2>3. CompSize' = CompSize /\ (SapOpen' <=> SapOpen)
    BY <2>1 DEF CompSize, SapOpen
  <2>4. Sure' = CompSize'
    BY <1>2, <1>3, <2>1, <2>3
  <2>5. NoSealOutsideFlush' /\ SegmentIsBuffer' /\ SealIsFlush'
    BY <2>1, <2>2, <2>3, <2>4 DEF NoSealOutsideFlush, SegmentIsBuffer, SealIsFlush, Flushing
  <2>6. QED
    BY <1>3, <1>5, <2>1, <2>2, <2>3, <2>5 DEF WorkingRight, Flushing
<1>10. CASE FlushSwap
  <2>1. /\ pc = "swap" /\ pc' = "unlink" /\ after' = after
        /\ UNCHANGED <<trunk, trunkSynced, rings, ringsSynced, seal, lo, hi, chunks, declared, env>>
        /\ walHi' = hi
        /\ \/ sap' = FreshSegment(CompSize, bufStart, hi) /\ wal' = wal
           \/ "create" \in env.faults /\ ~wal' /\ sap' = sap
    BY <1>10 DEF FlushSwap, Goto, history
  <2>2. wal /\ ~SapOpen /\ seal.base + 1 = CompSize /\ Sure = CompSize /\ lo = hi
    BY <1>2, <1>4, <2>1 DEF WorkingRight, SealIsFlush, NoSealOutsideFlush, Emptied
  <2>3. Sure' = Sure /\ CompSize' = CompSize
    BY <2>1, SureKept DEF CompSize
  <2>4. ~wal' => ~SapOpen' /\ ~PowerFails
    <3>1. PowerFails => "create" \notin env.faults
      BY EnvironmentIs DEF AtWork, IndexInv
    <3>2. QED
      BY <2>1, <2>2, <3>1 DEF SapOpen
  <2>5. wal' => sap'.there /\ sap'.lo = hi /\ sap'.hi = hi /\ sap'.base = CompSize
    BY <2>1, <2>2 DEF FreshSegment
  <2>6. NoSealOutsideFlush' /\ SegmentIsBuffer'
    BY <2>1 DEF NoSealOutsideFlush, SegmentIsBuffer, Flushing
  <2>7. SealIsFlush'
    BY <2>1, <2>2, <2>3, <2>5 DEF SealIsFlush
  <2>8. after' # "start_wal"
    BY <1>5, <2>1, <2>2 DEF Flushing
  <2>9. QED
    BY <1>3, <1>5, <2>1, <2>2, <2>4, <2>6, <2>7, <2>8 DEF WorkingRight, Flushing
<1>11. CASE FlushUnlink
  <2>1. /\ pc = "unlink" /\ pc' = after /\ after' = "none"
        /\ UNCHANGED <<trunk, trunkSynced, rings, ringsSynced, sap, lo, hi, wal, walHi, chunks, declared, env>>
        /\ seal' = NoSegment
    BY <1>11 DEF FlushUnlink, memory, history
  <2>2. /\ Sure = CompSize /\ lo = hi
        /\ wal => sap.there /\ sap.lo = lo /\ sap.hi = lo /\ sap.base = CompSize
    BY <1>2, <1>4, <2>1 DEF WorkingRight, SealIsFlush, Emptied
  <2>3. Sure' = Sure /\ CompSize' = CompSize /\ (SapOpen' <=> SapOpen)
    BY <2>1, SureKept DEF CompSize, SapOpen
  <2>4. ~seal'.there
    BY <2>1 DEF NoSegment
  <2>5. pc' \in Between
    BY <1>5, <2>1 DEF Between, Flushing
  <2>6. QED
    BY <1>2, <1>3, <1>5, <2>1, <2>2, <2>3, <2>4, <2>5, IntoBetween DEF Flushing
<1>12. CASE FrameFails \/ RecordFails
  <2>1. /\ pc \in {"frame", "record"} /\ pc' = "idle"
        /\ UNCHANGED <<trunk, trunkSynced, rings, ringsSynced, lo, hi, wal, walHi, chunks, declared, env>>
        /\ wal => sap' = seal /\ seal' = NoSegment
        /\ ~wal => sap' = sap /\ seal' = seal
    BY <1>2, <1>12 DEF FrameFails, RecordFails, Unseal, memory, history
  <2>2. /\ wal => /\ seal.there /\ seal.lo = lo /\ seal.hi = hi /\ seal.base = CompSize
                  /\ Sure = CompSize
        /\ ~SapOpen /\ (~wal => ~seal.there)
    BY <1>4, <2>1 DEF WorkingRight, SealIsFlush, NoSealOutsideFlush
  <2>3. Sure' = Sure /\ CompSize' = CompSize /\ (~wal => (SapOpen' <=> SapOpen))
    BY <2>1, SureKept DEF CompSize, SapOpen
  <2>4. ~seal'.there
    BY <2>1, <2>2 DEF NoSegment
  <2>5. QED
    BY <1>2, <1>3, <1>5, <2>1, <2>2, <2>3, <2>4, IntoBetween DEF Between
<1>13. ~HardenFails
  <2>1. "sync" \notin env.faults
    BY EnvironmentIs DEF AtWork, IndexInv, Mortal
  <2>2. QED
    BY <2>1 DEF HardenFails
<1>14. QED
  BY <1>6, <1>7, <1>8, <1>9, <1>10, <1>11, <1>12, <1>13 DEF Flush

\* A drop, an adopted frame and a reset leave the segment the buffer once its bases
\* are refreshed, and empty or harmless until then.
LEMMA ReshapeWorks ==
    ASSUME DiesAsExpected, AtWork, IndexInv', LaidInv', Reshape, pc' \notin Opening \cup {"down"}
    PROVE  WorkingRight'
<1>1. Next
  BY DEF Next
<1>2. /\ rings = chunks /\ Len(rings) = CompSize /\ Intact = CompSize
      /\ CompSize \in Nat /\ CompSize <= Len(trunk) /\ Len(trunk) \in Nat
      /\ trunkSynced \in Nat /\ ringsSynced \in Nat /\ ringsSynced <= CompSize
      /\ lo \in Nat /\ hi \in Nat /\ lo <= hi
      /\ pc \in Emptied => lo = hi
      /\ Sure \in Nat /\ Sure <= CompSize
      /\ PowerFails => Sure <= trunkSynced /\ Sure <= ringsSynced
      /\ ~PowerFails => Sure = CompSize
      /\ sap \in Segment /\ sap.lo \in Nat /\ sap.hi \in Nat
  BY WorkFacts
<1>3. /\ PowerFails' = PowerFails /\ Intact' = CompSize' /\ CompSize' \in Nat
      /\ trunkSynced' \in Nat /\ ringsSynced' \in Nat
      /\ PowerFails => Sure' = (IF trunkSynced' <= ringsSynced' THEN trunkSynced' ELSE ringsSynced')
      /\ ~PowerFails => Sure' = CompSize'
  BY <1>1, WorkNext
<1>4. /\ pc \notin Flushing \ {"flush"} => ~seal.there
      /\ PowerFails /\ declared => wal
      /\ wal => walHi = hi
      /\ ~wal => ~SapOpen
      /\ pc \in {"rebase", "reset"} => wal
  BY DEF AtWork, WorkingRight, NoSealOutsideFlush
<1>5. ASSUME NEW k \in 1 .. Len(chunks), NEW rewrite \in BOOLEAN, DropHead(k, rewrite)
      PROVE  WorkingRight'
  <2>1. /\ pc = "idle" /\ k \in Nat /\ CompSize - k \in Nat /\ CompSize' = CompSize - k
        /\ ringsSynced' = CompSize - k
        /\ trunkSynced' = (IF rewrite THEN CompSize - k ELSE Greatest(0, trunkSynced - k))
        /\ lo' = lo /\ hi' = hi /\ pc' = IF wal THEN "rebase" ELSE "idle"
    BY <1>5, DropHeadDoes DEF AtWork
  <2>2. UNCHANGED <<sap, seal, declared, wal, walHi, after>>
    BY <1>5 DEF DropHead, RebaseNext
  <2>3. /\ ~seal.there
        /\ wal => sap.there /\ sap.lo = lo /\ sap.hi <= hi /\ Sure = CompSize
    BY <2>1, BetweenIs DEF Between
  <2>4. CASE ~wal
    BY <1>3, <1>4, <2>1, <2>2, <2>3, <2>4, IntoBetween DEF Between, SapOpen
  <2>5. CASE wal
    <3>1. pc' = "rebase"
      BY <2>1, <2>5
    <3>2. Sure' = CompSize'
      <4>1. CASE PowerFails
        <5>1. CompSize <= trunkSynced
          BY <1>2, <2>3, <2>5, <4>1
        <5>2. CompSize - k <= Greatest(0, trunkSynced - k)
          BY <1>2, <2>1, <5>1 DEF Greatest
        <5>3. CompSize - k <= trunkSynced'
          BY <2>1, <5>2
        <5>4. QED
          BY <1>3, <2>1, <4>1, <5>3
      <4>2. QED
        BY <1>3, <4>1
    <3>3. NoSealOutsideFlush' /\ SealIsFlush'
      BY <2>2, <2>3, <2>5, <3>1 DEF NoSealOutsideFlush, SealIsFlush, Flushing
    <3>4. SegmentIsBuffer'
      BY <2>1, <2>2, <2>3, <2>5, <3>1, <3>2 DEF SegmentIsBuffer
    <3>5. QED
      BY <1>4, <2>1, <2>2, <2>5, <3>1, <3>3, <3>4 DEF WorkingRight, Flushing
  <2>6. QED
    BY <2>4, <2>5
<1>6. CASE Rebase
  <2>1. /\ pc = "rebase" /\ pc' = "idle"
        /\ UNCHANGED <<trunk, trunkSynced, rings, ringsSynced, seal, declared, lo, hi, wal, walHi, chunks, env>>
    BY <1>6 DEF Rebase, Goto, memory, history
  <2>2. wal /\ sap.there /\ sap.hi <= hi /\ Sure = CompSize /\ ~seal.there
    BY <1>4, <2>1 DEF AtWork, WorkingRight, SegmentIsBuffer, Flushing
  <2>3. sap' = [sap EXCEPT !.base = CompSize, !.ubase = bufStart,
                          !.lo = lo, !.hi = Greatest(lo, sap.hi), !.syn = Greatest(lo, sap.hi)]
    BY <1>6 DEF Rebase
  <2>4. /\ sap'.there = sap.there /\ sap'.lo = lo /\ sap'.base = CompSize
        /\ sap'.hi = Greatest(lo, sap.hi)
    BY <1>2, <2>3 DEF Segment
  <2>5. sap'.hi <= hi
    BY <1>2, <2>2, <2>4 DEF Greatest
  <2>6. Sure' = Sure /\ CompSize' = CompSize
    BY <2>1, SureKept DEF CompSize
  <2>7. QED
    BY <1>4, <2>1, <2>2, <2>4, <2>5, <2>6, IntoBetween DEF Between
<1>7. ~RebaseFails
  <2>1. "rebase" \notin env.faults
    BY EnvironmentIs DEF AtWork, IndexInv, Mortal
  <2>2. QED
    BY <2>1 DEF RebaseFails
<1>8. CASE Adopt
  <2>1. /\ pc = "idle" /\ (pc' = "adopt" \/ (pc' = "flush" /\ after' = "adopt"))
        /\ UNCHANGED <<trunk, trunkSynced, rings, ringsSynced, sap, seal, declared, lo, hi, wal, walHi, chunks, env>>
    BY <1>8 DEF Adopt, CallFlush, disk, memory, history
  <2>2. Sure' = Sure /\ CompSize' = CompSize /\ (SapOpen' <=> SapOpen)
    BY <2>1, SureKept DEF CompSize, SapOpen
  <2>3. QED
    BY <1>3, <2>1, <2>2, BetweenIs, IntoBetween DEF Between
<1>9. CASE AdoptFrame
  <2>1. /\ pc = "adopt" /\ pc' = "adopt_record"
        /\ UNCHANGED <<sap, seal, declared, lo, hi, wal, walHi>>
    BY <1>9 DEF AdoptFrame, Goto, memory
  <2>2. /\ ~seal.there /\ lo = hi
        /\ wal => sap.there /\ sap.lo = lo /\ sap.hi <= hi
    BY <1>2, <2>1, BetweenIs DEF Between, Emptied
  <2>3. ~SapOpen
    BY <1>2, <1>4, <2>2 DEF SapOpen
  <2>4. /\ NoSealOutsideFlush' /\ SealIsFlush'
        /\ SegmentIsBuffer' /\ ~SapOpen'
    BY <2>1, <2>2, <2>3 DEF NoSealOutsideFlush, SealIsFlush, SegmentIsBuffer, SapOpen, Flushing
  <2>5. QED
    BY <1>3, <1>4, <2>1, <2>4 DEF WorkingRight, Flushing
<1>10. CASE AdoptRecord
  <2>1. /\ pc = "adopt_record" /\ pc' = "adopt_sync"
        /\ UNCHANGED <<sap, seal, declared, wal>> /\ hi' = hi + 1 /\ walHi' = hi + 1
    BY <1>10 DEF AdoptRecord, Goto
  <2>2. wal => sap.there /\ ~SapOpen /\ sap.hi <= hi
    BY <2>1 DEF AtWork, WorkingRight, SegmentIsBuffer
  <2>3. sap'.hi <= hi' \/ ~wal
    BY <1>2, <2>1, <2>2
  <2>4. /\ NoSealOutsideFlush' /\ SealIsFlush'
        /\ SegmentIsBuffer' /\ ~SapOpen'
    BY <1>4, <2>1, <2>2, <2>3 DEF NoSealOutsideFlush, SealIsFlush, SegmentIsBuffer, SapOpen, Flushing
  <2>5. QED
    BY <1>3, <1>4, <2>1, <2>4 DEF WorkingRight, Flushing
<1>11. CASE AdoptSync
  <2>1. /\ pc = "adopt_sync" /\ pc' = IF wal THEN "rebase" ELSE "idle"
        /\ UNCHANGED <<trunk, rings, chunks, sap, seal, declared, lo, hi, wal, walHi>>
        /\ trunkSynced' = Len(trunk) /\ ringsSynced' = Len(rings)
    BY <1>11 DEF AdoptSync, RebaseNext, SyncPair, memory
  <2>2. wal => sap.there /\ ~SapOpen /\ sap.hi <= hi
    BY <2>1 DEF AtWork, WorkingRight, SegmentIsBuffer
  <2>3. CompSize' = CompSize /\ (SapOpen' <=> SapOpen)
    BY <2>1 DEF CompSize, SapOpen
  <2>4. Sure' = CompSize'
    BY <1>2, <1>3, <2>1, <2>3
  <2>5. ~seal.there
    BY <1>4, <2>1 DEF Flushing
  <2>6. NoSealOutsideFlush' /\ SealIsFlush' /\ SegmentIsBuffer'
    BY <2>1, <2>2, <2>3, <2>4, <2>5 DEF NoSealOutsideFlush, SealIsFlush, SegmentIsBuffer, Flushing
  <2>7. QED
    BY <1>3, <1>4, <2>1, <2>2, <2>3, <2>6 DEF WorkingRight, Flushing
<1>12. CASE Reset
  <2>1. /\ pc = "idle" /\ pc' = (IF wal THEN "reset" ELSE "idle")
        /\ trunk' = <<>> /\ trunkSynced' = 0 /\ rings' = <<>> /\ ringsSynced' = 0
        /\ chunks' = <<>> /\ lo' = hi /\ hi' = hi /\ seal' = NoSegment
        /\ head' = (IF wal THEN lo ELSE hi)
        /\ UNCHANGED <<sap, declared, wal, walHi>>
    BY <1>12 DEF Reset
  <2>2. wal => sap.there /\ sap.lo = lo
    BY <2>1, BetweenIs DEF Between
  <2>3. CompSize' = 0 /\ (SapOpen' <=> SapOpen) /\ ~seal'.there
    BY <2>1 DEF CompSize, SapOpen, NoSegment
  <2>4. Sure' = 0 /\ Intact' = 0
    BY <1>3, <2>1, <2>3
  <2>5. NoSealOutsideFlush' /\ SealIsFlush' /\ SegmentIsBuffer'
    BY <1>2, <2>1, <2>2, <2>3, <2>4 DEF NoSealOutsideFlush, SealIsFlush, SegmentIsBuffer, Flushing
  <2>6. QED
    BY <1>3, <1>4, <2>1, <2>3, <2>5 DEF WorkingRight, Flushing
<1>13. CASE ResetSegment
  <2>1. /\ pc = "reset" /\ pc' = "idle"
        /\ sap' = FreshSegment(0, 0, hi) /\ walHi' = hi
        /\ UNCHANGED <<trunk, trunkSynced, rings, ringsSynced, seal, declared, chunks, lo, hi, wal, env>>
    BY <1>13 DEF ResetSegment, Goto
  <2>2. wal /\ Sure = 0 /\ Intact = 0 /\ ~seal.there /\ lo = hi
    BY <1>2, <1>4, <2>1 DEF AtWork, WorkingRight, SegmentIsBuffer, Flushing, Emptied
  <2>3. Sure' = 0 /\ CompSize' = 0
    BY <1>2, <2>1, <2>2, SureKept DEF CompSize
  <2>4. sap'.there /\ sap'.lo = hi /\ sap'.hi = hi /\ sap'.base = 0
    BY <2>1 DEF FreshSegment
  <2>5. QED
    BY <1>2, <1>4, <2>1, <2>2, <2>3, <2>4, IntoBetween DEF Between
<1>14. QED
  BY <1>5, <1>6, <1>7, <1>8, <1>9, <1>10, <1>11, <1>12, <1>13 DEF Reshape

\* A declaration edited under a writer that a power loss may end is only withdrawn.
LEMMA SetWalWorks ==
    ASSUME DiesAsExpected, AtWork, SetWal
    PROVE  WorkingRight'
<1>1. /\ UNCHANGED <<trunk, trunkSynced, rings, ringsSynced, sap, seal, pc, after, chunks, lo, hi,
                     wal, walHi, env, head>>
      /\ declared' = ~declared
      /\ (IF declared THEN "wal_off" ELSE "wal_on") \in env.operations
  BY DEF SetWal, memory, history
<1>2. PowerFails => "wal_on" \notin env.operations
  BY EnvironmentIs DEF AtWork, IndexInv
<1>3. PowerFails' = PowerFails /\ (PowerFails => ~declared')
  BY <1>1, <1>2 DEF PowerFails
<1>4. /\ Sure' = Sure /\ Intact' = Intact /\ CompSize' = CompSize
      /\ (SapOpen' <=> SapOpen)
  BY <1>1, SureKept DEF CompSize, SapOpen
<1>5. NoSealOutsideFlush' /\ SegmentIsBuffer'
  BY <1>1, <1>4 DEF AtWork, WorkingRight, NoSealOutsideFlush, SegmentIsBuffer
<1>6. SealIsFlush'
  <2>1. TapeEnd(CompSize - 1)' = TapeEnd(CompSize - 1) /\ TapeEnd(CompSize)' = TapeEnd(CompSize)
    BY <1>1, <1>4 DEF TapeEnd
  <2>2. QED
    BY <1>1, <1>4, <2>1 DEF AtWork, WorkingRight, SealIsFlush
<1>7. QED
  BY <1>1, <1>3, <1>4, <1>5, <1>6 DEF AtWork, WorkingRight

\* A step of a mortal writer at work leaves it at work, or dead and recoverable.
LEMMA WorkingStep ==
    ASSUME DiesAsExpected, AtWork, IndexInv', LaidInv', Next
    PROVE  IF pc' \in Opening \cup {"down"} THEN ReopeningRight' ELSE WorkingRight'
<1>1. /\ staged = NotStaged /\ role # "import"
      /\ pc \notin {"stage", "staged", "publish", "exit"}
  BY WorkFacts
<1>2. ~Import
  BY <1>1 DEF Import, Stage, Commit, CommitRecord, CommitSync, Abort, Exit
<1>3. CASE Fail
  <2>1. Recoverable
    BY WorkingIsRecoverable DEF AtWork
  <2>2. QED
    BY <1>3, <2>1, RecoverableAfterDeath DEF AtWork
<1>4. CASE ~Fail
  <2>1. pc' # "down"
    BY <1>2, <1>4, LeftByDeath DEF AtWork, Import
  <2>2. pc' \notin Opening \cup {"down"}
    BY <2>1, WorkStays DEF AtWork
  <2>3. ~Open
    BY DEF AtWork, Open, OpenIndex, DiscardSeal, ReplaySeal, ReplayFrame, ReplayRecord,
       ReplaySync, ReplayUnlink, OpenLive, Opening
  <2>4. QED
    BY <1>2, <1>4, <2>2, <2>3, WriteWorks, FlushWorks, ReshapeWorks, SetWalWorks DEF Next
<1>5. QED
  BY <1>3, <1>4

------------------------------------------------------------------------------
\* The invariant behind TapeIntact: the index in order, the tape laid in memory and
\* on the disk, and the segments what an open after any death needs them to be.
TapeInv == IndexInv /\ LaidInv /\ RolesKept /\ SegmentInv

\* Whatever an open replays fits the index it has just loaded.
LEMMA SegmentsFit ==
    ASSUME DiesAsExpected, TapeInv
    PROVE  SealFits /\ SapFits
<1> USE DEF TapeInv
<1>1. CASE ~Mortal
  <2>1. pc \in Opening => ~seal.there /\ ~SapOpen
    BY <1>1 DEF SegmentInv, NothingToReplay
  <2>2. QED
    BY <2>1 DEF SealFits, SapFits, SealOpen, Opening
<1>2. CASE Mortal /\ pc \in {"open_seal", "open_live"}
  <2>1. ReopeningRight
    BY <1>2 DEF SegmentInv, Opening
  <2>2. Recoverable /\ Sure = Intact
    BY <1>2, <2>1 DEF ReopeningRight
  <2>3. Intact = CompSize /\ lo = TapeEnd(CompSize)
    <3>1. staged = NotStaged
      BY <1>2, MortalIsWriter
    <3>2. QED
      BY <1>2, <3>1, IntactIsIndex DEF LaidInv, InMemory
  <2>4. QED
    BY <2>2, <2>3 DEF Recoverable, Pending, SealFits, SapFits
<1>3. QED
  BY <1>1, <1>2 DEF SealFits, SapFits

\* The invariant holds of an empty store, ...
LEMMA TapeInvInitially ==
    ASSUME Init, IndexInv
    PROVE  TapeInv
<1>1. /\ Len(trunk) = 0 /\ Len(rings) = 0 /\ trunkSynced = 0 /\ ringsSynced = 0
      /\ pc = "down" /\ role = "none" /\ sap = NoSegment /\ seal = NoSegment
  BY EmptySeq DEF Init
<1>2. Intact = 0 /\ Sure = 0
  BY <1>1 DEF Intact, Sure, Least
<1>3. LaidInv
  BY <1>1, <1>2 DEF LaidInv, SyncedWithin, Laid
<1>4. RolesKept
  BY <1>1 DEF RolesKept
<1>5. ~seal.there /\ ~SapOpen
  BY <1>1 DEF SapOpen, NoSegment
<1>6. ReopeningRight /\ NothingToReplay
  BY <1>1, <1>2, <1>5 DEF ReopeningRight, Recoverable, Pending, SealOpen, NothingToReplay
<1>7. QED
  BY <1>1, <1>3, <1>4, <1>6 DEF TapeInv, SegmentInv

\* ... every step keeps it, ...
LEMMA TapeInvStep ==
    ASSUME DiesAsExpected, TapeInv, IndexInv', Next
    PROVE  TapeInv'
<1>1. IndexInv /\ LaidInv /\ RolesKept /\ SegmentInv
  BY DEF TapeInv
<1>2. LaidInv'
  BY <1>1, SegmentsFit, LaidStep
<1>3. RolesKept'
  BY <1>1, RolesStep DEF IndexInv
<1>4. Mortal' = Mortal
  BY EnvKept
<1>5. SegmentInv'
  <2>1. CASE ~Mortal
    <3>1. role' # "writer" \/ pc' \in Opening => NothingToReplay'
      BY <1>1, <2>1, NothingToReplayStep
    <3>2. QED
      BY <1>4, <2>1, <3>1 DEF SegmentInv
  <2>2. CASE Mortal /\ pc \in Opening \cup {"down"}
    <3>1. IF pc' \in Opening \cup {"down"} THEN ReopeningRight' ELSE WorkingRight'
      BY <1>1, <1>2, <2>2, ReopeningStep DEF SegmentInv
    <3>2. QED
      BY <1>4, <2>2, <3>1 DEF SegmentInv
  <2>3. CASE Mortal /\ pc \notin Opening \cup {"down"}
    <3>1. AtWork
      BY <1>1, <2>3 DEF SegmentInv, AtWork
    <3>2. IF pc' \in Opening \cup {"down"} THEN ReopeningRight' ELSE WorkingRight'
      BY <1>2, <3>1, WorkingStep
    <3>3. QED
      BY <1>4, <2>3, <3>2 DEF SegmentInv
  <2>4. QED
    BY <2>1, <2>2, <2>3
<1>6. QED
  BY <1>2, <1>3, <1>5 DEF TapeInv

\* ... so that it holds for ever.
LEMMA TapeInvInductive ==
    ASSUME DiesAsExpected
    PROVE  Spec => []TapeInv
<1>1. Init /\ IndexInv => TapeInv
  BY TapeInvInitially
<1>2. TapeInv /\ IndexInv' /\ [Next]_vars => TapeInv'
  <2>1. ASSUME TapeInv, IndexInv', Next PROVE TapeInv'
    BY <2>1, TapeInvStep
  <2>2. ASSUME TapeInv, UNCHANGED vars PROVE TapeInv'
    <3>1. /\ UNCHANGED <<trunk, trunkSynced, rings, ringsSynced, hdrSeq, sap, seal, declared, pc, after>>
          /\ UNCHANGED <<role, chunks, bufStart, lo, hi, wal, walHi, nextSeq, staged, env, head, acked, numbered>>
      BY <2>2 DEF vars, disk, memory, history
    <3>2. /\ Sure' = Sure /\ Intact' = Intact /\ CompSize' = CompSize
          /\ Mortal' = Mortal /\ PowerFails' = PowerFails
          /\ (SapOpen' <=> SapOpen) /\ (SealOpen' <=> SealOpen)
      BY <3>1, SureKept DEF CompSize, Mortal, PowerFails, SapOpen, SealOpen
    <3>3. IndexInv'
      BY <2>2, <3>1 DEF TapeInv, IndexInv, TypeOK, IndexWithinTrunk, StagingWithinImport,
         RingsFollowChunks, CompSize
    <3>4. LaidInv' /\ RolesKept'
      BY <2>2, <3>1, <3>2 DEF TapeInv, LaidInv, SyncedWithin, InMemory, RolesKept, TapeEnd
    <3>5. Recoverable <=> Recoverable'
      BY <3>1, <3>2 DEF Recoverable, Pending, TapeEnd
    <3>6. ReopeningRight <=> ReopeningRight'
      BY <3>1, <3>2, <3>5 DEF ReopeningRight
    <3>7. TapeEnd(CompSize - 1)' = TapeEnd(CompSize - 1) /\ TapeEnd(CompSize)' = TapeEnd(CompSize)
      BY <3>1, <3>2 DEF TapeEnd
    <3>8. /\ NoSealOutsideFlush <=> NoSealOutsideFlush'
          /\ SegmentIsBuffer <=> SegmentIsBuffer'
          /\ SealIsFlush <=> SealIsFlush'
      BY <3>1, <3>2, <3>7 DEF NoSealOutsideFlush, SegmentIsBuffer, SealIsFlush
    <3>9. WorkingRight <=> WorkingRight'
      BY <3>1, <3>2, <3>8 DEF WorkingRight
    <3>10. SegmentInv'
      BY <2>2, <3>1, <3>2, <3>6, <3>9 DEF TapeInv, SegmentInv, NothingToReplay
    <3>11. QED
      BY <3>3, <3>4, <3>10 DEF TapeInv
  <2>3. QED
    BY <2>1, <2>2
<1>3. QED
  BY <1>1, <1>2, IndexInvInductive, PTL DEF Spec

\* What a reader of the store's memory gets is the tape from its head, each entry
\* once and in order, whatever was flushed, dropped, adopted, reset or replayed, and
\* whatever died in between, in every environment the code recovers from.
THEOREM TapeStaysIntact ==
    ASSUME DiesAsExpected
    PROVE  Spec => []TapeIntact
<1>1. TapeInv => TapeIntact
  BY LaidIsIntact DEF TapeInv
<1>2. QED
  BY <1>1, TapeInvInductive, PTL


------------------------------------------------------------------------------
\* Where something dies, a writer that has write-ahead on keeps it on: turned off, the
\* segment goes with what it alone backs (the run of AckedSurvives would say so).
KeepsItsSegment ==
    \A e \in Environments :
        e.crashes # {} /\ "writer" \in e.roles => "wal_off" \notin e.operations

\* What the reported entries rest on: the chunks that are sure, the seal that is
\* still to be replayed, or what survives of the segment.
Reported ==
    \/ acked <= TapeEnd(Sure)
    \/ Pending /\ acked <= seal.hi
    \/ SapOpen /\ acked <= sap.hi /\ (PowerFails => acked <= sap.syn)

\* A segment is only ever there because the manifest declares it, so that no open
\* deletes it.
SegmentIsDeclared ==
    /\ wal \/ SapOpen => declared
    /\ pc = "start_wal" \/ after = "start_wal" => declared

\* A seal is fsynced before the flush it stands for, and unlinked after it.
SealIsSynced ==
    /\ wal /\ pc \in {"frame", "record"} => seal.syn = hi
    /\ pc = "replay_unlink" => ~Pending

AckedInv ==
    /\ pc \notin Opening \cup {"down"} => acked <= hi
    /\ IF Mortal THEN Reported /\ SegmentIsDeclared /\ SealIsSynced
       ELSE role # "writer" \/ pc \in Opening => acked <= TapeEnd(Sure)

------------------------------------------------------------------------------
\* Tape positions grow along a laid tape.
LEMMA LaidGrows ==
    ASSUME NEW t, NEW h \in Nat, NEW recs \in Seq(ChunkRecord), NEW n \in 0 .. Len(recs),
           Laid(t, h, recs, n), InOrder(recs),
           \A i \in 1 .. n : t[i].lo \in Nat /\ t[i].hi \in Nat,
           NEW a \in 0 .. n, NEW b \in 0 .. n, a <= b
    PROVE  (IF a = 0 THEN h ELSE t[a].hi) <= (IF b = 0 THEN h ELSE t[b].hi)
<1>1. Len(recs) \in Nat /\ \A i \in 1 .. Len(recs) : recs[i].start \in Nat /\ recs[i].len \in Nat
  BY RecordOfIndex
<1>2. \A i \in 1 .. n : i \in 1 .. Len(recs)
  BY <1>1
<1>3. \A i \in 1 .. n : /\ t[i].lo = recs[i].start + h
                        /\ t[i].hi = recs[i].start + h + recs[i].len
  <2>1. TAKE i \in 1 .. n
  <2>2. /\ t[i].hi = t[i].lo + recs[i].len
        /\ recs[i].start = t[i].lo - h
    BY <2>1 DEF Laid
  <2>3. t[i].lo \in Nat /\ recs[i].start \in Nat /\ recs[i].len \in Nat
    BY <1>1, <1>2, <2>1
  <2>4. PICK x \in Nat : x = t[i].lo
    BY <2>3
  <2>5. PICK y \in Nat : y = recs[i].start
    BY <2>3
  <2>6. PICK z \in Nat : z = recs[i].len
    BY <2>3
  <2>7. y = x - h /\ t[i].hi = x + z
    BY <2>2, <2>4, <2>5, <2>6
  <2>8. x = y + h /\ x + z = y + h + z
    BY <2>7
  <2>9. QED
    BY <2>4, <2>5, <2>6, <2>7, <2>8
<1>4. CASE a = 0 /\ b # 0
  <2>1. b \in 1 .. n
    BY <1>1, <1>4
  <2>2. t[b].hi = recs[b].start + h + recs[b].len /\ recs[b].start \in Nat /\ recs[b].len \in Nat
    BY <1>1, <1>2, <1>3, <2>1
  <2>3. \A x, y \in Nat : h <= x + h + y
    OBVIOUS
  <2>4. h <= recs[b].start + h + recs[b].len
    BY <2>2, <2>3
  <2>5. QED
    BY <1>4, <2>2, <2>4
<1>5. CASE a # 0 /\ a # b
  <2>1. a \in 1 .. n /\ b \in 1 .. n /\ a < b /\ b # 0
    BY <1>1, <1>5
  <2>2. recs[a].start + recs[a].len <= recs[b].start
    BY <1>2, <2>1 DEF InOrder
  <2>3. /\ t[a].hi = recs[a].start + h + recs[a].len
        /\ t[b].hi = recs[b].start + h + recs[b].len
        /\ recs[a].start \in Nat /\ recs[a].len \in Nat
        /\ recs[b].start \in Nat /\ recs[b].len \in Nat
    BY <1>1, <1>2, <1>3, <2>1
  <2>4. t[a].hi <= t[b].hi
    <3>1. \A x, y, z, w, k \in Nat : x + y <= z => x + k + y <= z + k + w
      OBVIOUS
    <3>2. recs[a].start + h + recs[a].len <= recs[b].start + h + recs[b].len
      BY <2>2, <2>3, <3>1
    <3>3. QED
      BY <2>3, <3>2
  <2>5. QED
    BY <1>5, <2>1, <2>4
<1>6. CASE a = b
  <2>1. a # 0 => a \in 1 .. n
    BY <1>1
  <2>2. QED
    BY <1>6, <2>1
<1>7. CASE a = 0 /\ b = 0
  BY <1>7
<1>8. QED
  BY <1>1, <1>4, <1>5, <1>6, <1>7

LEMMA TapeEndGrows ==
    ASSUME IndexInv, LaidInv, NEW a \in 0 .. Intact, NEW b \in 0 .. Intact, a <= b
    PROVE  TapeEnd(a) <= TapeEnd(b)
<1>1. /\ rings \in Seq(ChunkRecord) /\ Len(rings) \in Nat /\ Intact \in Nat
      /\ Intact <= Len(rings) /\ Intact <= Len(trunk) /\ Len(trunk) \in Nat /\ head \in Nat
  BY SizesOfStore
<1>2. \A i \in 1 .. Intact : trunk[i].lo \in Nat /\ trunk[i].hi \in Nat
  <2>1. \A i \in 1 .. Len(trunk) : trunk[i].lo \in Nat /\ trunk[i].hi \in Nat
    BY SizesOfStore
  <2>2. \A i \in 1 .. Intact : i \in 1 .. Len(trunk)
    BY <1>1
  <2>3. QED
    BY <2>1, <2>2
<1>3. Laid(trunk, head, rings, Intact) /\ InOrder(rings) /\ Intact \in 0 .. Len(rings)
  <2>1. Laid(trunk, head, rings, Intact) /\ InOrder(rings)
    BY DEF LaidInv, IndexInv
  <2>2. QED
    BY <1>1, <2>1
<1>4. QED
  BY <1>1, <1>2, <1>3, LaidGrows DEF TapeEnd

\* The same after a step.
LEMMA SureNext ==
    ASSUME IndexInv', LaidInv'
    PROVE  /\ Sure' \in Nat /\ Sure' <= Intact' /\ Intact' \in Nat
           /\ Intact' <= Len(trunk') /\ Intact' <= Len(rings')
           /\ \A i \in 1 .. Len(trunk') : trunk'[i].lo \in Nat /\ trunk'[i].hi \in Nat
           /\ head' \in Nat
           /\ Laid(trunk', head', rings', Intact')
<1>1. /\ Len(trunk') \in Nat /\ Len(rings') \in Nat
      /\ trunkSynced' \in Nat /\ ringsSynced' \in Nat
  BY SizesNext
<1>2. trunkSynced' <= Len(trunk') /\ ringsSynced' <= Len(rings')
  BY DEF LaidInv, SyncedWithin
<1>3. Intact' \in Nat /\ Intact' <= Len(trunk') /\ Intact' <= Len(rings')
  BY <1>1 DEF Intact, Least
<1>4. Sure' \in Nat /\ Sure' <= Intact'
  BY <1>1, <1>2, <1>3 DEF Sure, Intact, Least
<1>5. trunk' \in Seq(Frame) /\ head' \in Nat
  BY DEF IndexInv, TypeOK
<1>6. \A i \in 1 .. Len(trunk') : trunk'[i] \in Frame
  BY <1>5, ElementOfSeq
<1>7. \A i \in 1 .. Len(trunk') : trunk'[i].lo \in Nat /\ trunk'[i].hi \in Nat
  BY <1>6 DEF Frame
<1>8. Laid(trunk', head', rings', Intact')
  BY DEF LaidInv
<1>9. QED
  BY <1>3, <1>4, <1>5, <1>7, <1>8

LEMMA TapeEndGrowsNext ==
    ASSUME IndexInv', LaidInv', NEW a \in Nat, a <= Sure'
    PROVE  (IF a = 0 THEN head' ELSE trunk'[a].hi) <= TapeEnd(Sure)'
<1>1. /\ Sure' \in Nat /\ Sure' <= Intact' /\ Intact' \in Nat
      /\ Intact' <= Len(trunk') /\ Intact' <= Len(rings')
      /\ \A i \in 1 .. Len(trunk') : trunk'[i].lo \in Nat /\ trunk'[i].hi \in Nat
      /\ head' \in Nat /\ Laid(trunk', head', rings', Intact')
      /\ Len(trunk') \in Nat /\ Len(rings') \in Nat
  BY SureNext, SizesNext
<1>2. \A i \in 1 .. Intact' : trunk'[i].lo \in Nat /\ trunk'[i].hi \in Nat
  BY <1>1
<1>3. rings' \in Seq(ChunkRecord) /\ InOrder(rings')
  BY DEF IndexInv, TypeOK
<1>4. Intact' \in 0 .. Len(rings') /\ a \in 0 .. Intact' /\ Sure' \in 0 .. Intact'
  BY <1>1
<1>5. TapeEnd(Sure)' = IF Sure' = 0 THEN head' ELSE trunk'[Sure'].hi
  BY DEF TapeEnd
<1>6. QED
  BY <1>1, <1>2, <1>3, <1>4, <1>5, LaidGrows

\* What is sure only grows: a step that leaves the sure frames where they are, and
\* has as many or more of them, keeps what rests on them.
LEMMA SureGrows ==
    ASSUME IndexInv, LaidInv, IndexInv', LaidInv', head' = head, Sure <= Sure',
           \A i \in 1 .. Sure : trunk'[i] = trunk[i]
    PROVE  TapeEnd(Sure) <= TapeEnd(Sure)'
<1>1. Sure \in Nat
  BY SureIs DEF LaidInv
<1>2. (IF Sure = 0 THEN head' ELSE trunk'[Sure].hi) <= TapeEnd(Sure)'
  BY <1>1, TapeEndGrowsNext
<1>3. Sure # 0 => trunk'[Sure] = trunk[Sure]
  BY <1>1
<1>4. QED
  BY <1>2, <1>3 DEF TapeEnd

\* The steps that touch the files: a frame written past the index, ...
LEMMA FrameKeepsSure ==
    ASSUME IndexInv, LaidInv, pc \notin {"down", "replay_sync"}, NEW f \in Frame, WriteFrame(f),
           UNCHANGED <<rings, ringsSynced, env, head>>
    PROVE  /\ Sure' = Sure /\ TapeEnd(Sure)' = TapeEnd(Sure)
           /\ Intact' = Intact /\ TapeEnd(Intact)' = TapeEnd(Intact)
           /\ \A i \in 1 .. CompSize : trunk'[i] = trunk[i]
<1>1. /\ CompSize \in Nat /\ Len(trunk) \in Nat /\ Len(rings) \in Nat /\ CompSize <= Len(trunk)
      /\ trunkSynced \in Nat /\ ringsSynced \in Nat /\ ringsSynced <= Len(rings)
      /\ Sure \in Nat
  BY SizesOfStore, SureIs DEF LaidInv, SyncedWithin
<1>2. Len(rings) <= CompSize
  BY <1>1 DEF IndexInv, RingsFollowChunks, CompSize
<1>3. /\ \A i \in 1 .. CompSize : trunk'[i] = trunk[i]
      /\ trunkSynced' = (IF trunkSynced <= CompSize THEN trunkSynced ELSE CompSize)
  BY WriteFramePlaces DEF Least
<1>4. Len(trunk') \in Nat /\ CompSize + 1 <= Len(trunk')
  <2>1. trunk \in Seq(Frame)
    BY SizesOfStore
  <2>2. CASE CompSize < Len(trunk)
    <3>1. CompSize + 1 \in 1 .. Len(trunk)
      BY <1>1, <2>2
    <3>2. Len([trunk EXCEPT ![CompSize + 1] = f]) = Len(trunk)
      BY <2>1, <3>1, ExceptSeq
    <3>3. QED
      BY <1>1, <2>2, <3>2 DEF WriteFrame
  <2>3. CASE ~(CompSize < Len(trunk))
    BY <1>1, <2>1, <2>3, AppendIsSeq DEF WriteFrame
  <2>4. QED
    BY <2>2, <2>3
<1>5. Intact = Len(rings) /\ Intact' = Len(rings)
  BY <1>1, <1>2, <1>4 DEF Intact, Least
<1>6. PowerFails' = PowerFails
  BY DEF PowerFails
<1>7. PowerFails => Sure' = Sure
  BY <1>1, <1>2, <1>3, <1>6 DEF Sure, Least
<1>8. Sure' = Sure
  BY <1>5, <1>6, <1>7 DEF Sure
<1>9. Sure <= CompSize
  BY <1>1, <1>2, <1>5, SureIs DEF LaidInv
<1>10. TapeEnd(Sure)' = TapeEnd(Sure)
  <2>1. Sure # 0 => Sure \in 1 .. CompSize
    BY <1>1, <1>9
  <2>2. QED
    BY <1>3, <1>8, <2>1 DEF TapeEnd
<1>11. TapeEnd(Intact)' = TapeEnd(Intact)
  <2>1. Intact # 0 => Intact \in 1 .. CompSize
    BY <1>1, <1>2, <1>5
  <2>2. QED
    BY <1>3, <1>5, <2>1 DEF TapeEnd
<1>12. QED
  BY <1>3, <1>5, <1>8, <1>10, <1>11

\* ... its record, ...
LEMMA RecordGrowsSure ==
    ASSUME IndexInv, LaidInv, IndexInv', staged = NotStaged, pc \notin {"down", "replay_sync"},
           CompSize < Len(trunk), NEW rec \in ChunkRecord, WriteRecord(rec),
           UNCHANGED <<trunk, trunkSynced, env>>
    PROVE  /\ Sure <= Sure' /\ Sure <= CompSize
           /\ PowerFails => Sure' = Sure
           /\ ~PowerFails => Sure' = CompSize + 1
<1>1. /\ CompSize \in Nat /\ Len(trunk) \in Nat /\ Len(rings) = CompSize /\ Intact = CompSize
      /\ trunkSynced \in Nat /\ ringsSynced \in Nat /\ ringsSynced <= CompSize
      /\ Sure \in Nat /\ Sure <= CompSize
  BY SizesOfStore, SureIs, IntactIsIndex DEF LaidInv, SyncedWithin
<1>2. Len(rings') = CompSize + 1 /\ ringsSynced' = ringsSynced
  BY <1>1, WriteRecordPlaces DEF Least
<1>3. Intact' = CompSize + 1
  BY <1>1, <1>2 DEF Intact, Least
<1>4. PowerFails' = PowerFails
  BY DEF PowerFails
<1>5. PowerFails => Sure' = Sure
  BY <1>1, <1>2, <1>4 DEF Sure
<1>6. ~PowerFails => Sure' = CompSize + 1
  BY <1>3, <1>4 DEF Sure
<1>7. QED
  BY <1>1, <1>5, <1>6

\* ... an fsync of both, ...
LEMMA SyncGrowsSure ==
    ASSUME IndexInv, LaidInv, SyncPair, UNCHANGED <<trunk, rings, env>>
    PROVE  Sure' = Intact /\ Sure <= Sure' /\ Intact' = Intact
<1>1. Sure <= Intact
  BY SureIs DEF LaidInv
<1>2. Sure' = Intact
  BY SizesOfStore DEF SyncPair, Sure, Intact, PowerFails, Least
<1>3. QED
  BY <1>1, <1>2 DEF Intact

\* ... an open that cuts the records without a frame.
LEMMA OpenIndexKeepsSure ==
    ASSUME IndexInv, LaidInv, NEW r \in Programs, OpenIndex(r)
    PROVE  Sure' = Sure /\ Intact' = Intact /\ TapeEnd(Sure)' = TapeEnd(Sure)
<1>1. /\ Intact \in Nat /\ Intact <= Len(rings) /\ Intact <= Len(trunk)
      /\ trunkSynced \in Nat /\ ringsSynced \in Nat /\ Len(trunk) \in Nat
      /\ Sure \in Nat /\ Sure <= Intact
  BY SizesOfStore, SureIs DEF LaidInv
<1>2. /\ rings' = SubSeq(rings, 1, Intact)
      /\ ringsSynced' = (IF ringsSynced <= Intact THEN ringsSynced ELSE Intact)
      /\ UNCHANGED <<trunk, trunkSynced, env, head>>
  BY DEF OpenIndex, history, Least
<1>3. Intact \in 0 .. Len(rings)
  BY <1>1, SizesOfStore
<1>4. Len(rings') = Intact
  BY <1>2, <1>3, SizesOfStore, PrefixIsSeq
<1>5. Intact' = Intact
  BY <1>1, <1>2, <1>4 DEF Intact, Least
<1>6. PowerFails' = PowerFails
  BY <1>2 DEF PowerFails
<1>7. PowerFails => Sure' = Sure
  BY <1>1, <1>2, <1>6 DEF Sure, Least
<1>8. Sure' = Sure
  BY <1>5, <1>6, <1>7 DEF Sure
<1>9. QED
  BY <1>2, <1>5, <1>8 DEF TapeEnd

------------------------------------------------------------------------------
\* What rests on the chunks that are sure goes on resting on them, whatever happens,
\* and what is reported next rests on them too, but for an fsync of the segment.
FilesKept == UNCHANGED <<trunk, trunkSynced, rings, ringsSynced, env, head, acked>>

LEMMA FilesKeptKeepSure ==
    ASSUME FilesKept
    PROVE  Sure' = Sure /\ TapeEnd(Sure)' = TapeEnd(Sure) /\ acked' = acked
BY SureKept DEF FilesKept, TapeEnd

\* Which steps leave the files alone.
LEMMA FilesKeptBy ==
    ASSUME \/ DiscardSeal \/ ReplaySeal \/ ReplayUnlink \/ OpenLive
           \/ AppendEntry \/ FlushAged \/ Sync \/ SapFlush \/ ApplyWalOn \/ StartWal \/ ApplyWalOff
           \/ FlushBegin \/ FlushSwap \/ FlushUnlink \/ FrameFails \/ RecordFails \/ HardenFails
           \/ Stage \/ Commit \/ Exit \/ Rebase \/ RebaseFails \/ Adopt \/ SetWal \/ Crash
    PROVE  FilesKept
<1> USE DEF FilesKept, disk, memory, history
<1>1. CASE DiscardSeal \/ ReplaySeal \/ ReplayUnlink \/ OpenLive \/ SetWal \/ Crash
  BY <1>1 DEF DiscardSeal, ReplaySeal, ReplayUnlink, OpenLive, SetWal, Crash
<1>2. CASE AppendEntry \/ FlushAged \/ Sync \/ SapFlush \/ ApplyWalOn \/ StartWal \/ ApplyWalOff
  BY <1>2 DEF AppendEntry, FlushAged, Sync, SapFlush, ApplyWalOn, StartWal, ApplyWalOff
<1>3. CASE FlushBegin \/ FlushSwap \/ FlushUnlink \/ FrameFails \/ RecordFails \/ HardenFails
  BY <1>3 DEF FlushBegin, FlushSwap, FlushUnlink, FrameFails, RecordFails, HardenFails
<1>4. CASE Stage \/ Commit \/ Exit \/ Rebase \/ RebaseFails \/ Adopt
  BY <1>4 DEF Stage, Commit, Exit, Rebase, RebaseFails, Adopt
<1>5. QED
  BY <1>1, <1>2, <1>3, <1>4

\* A store whose buffer is empty and whose chunks are durable to the end.
LEMMA AllIsSure ==
    ASSUME IndexInv, LaidInv, staged = NotStaged, pc \in {"sync", "adopt_sync"}, SyncPair,
           UNCHANGED <<trunk, rings, env, head>>
    PROVE  TapeEnd(Sure)' = hi
<1>1. Intact = CompSize /\ lo = TapeEnd(CompSize) /\ lo = hi
  BY IntactIsIndex DEF LaidInv, InMemory, Emptied
<1>2. Sure' = CompSize
  BY <1>1, SyncGrowsSure
<1>3. QED
  BY <1>1, <1>2 DEF TapeEnd

LEMMA DropKeepsSure ==
    ASSUME IndexInv, LaidInv, IndexInv', LaidInv',
           NEW k \in 1 .. Len(chunks), NEW rewrite \in BOOLEAN, DropHead(k, rewrite)
    PROVE  TapeEnd(Sure) <= TapeEnd(Sure)'
<1>1. /\ staged = NotStaged /\ pc = "idle" /\ k \in Nat
      /\ CompSize - k \in Nat /\ CompSize' = CompSize - k
      /\ \A i \in 1 .. CompSize - k : trunk'[i] = trunk[i + k]
      /\ rings' = chunks' /\ ringsSynced' = CompSize - k
      /\ CompSize - k <= Len(trunk')
      /\ trunkSynced' = IF rewrite THEN CompSize - k ELSE Greatest(0, trunkSynced - k)
      /\ head' = trunk[k].hi
  BY DropHeadDoes
<1>2. /\ Intact = CompSize /\ CompSize \in Nat /\ trunkSynced \in Nat /\ ringsSynced \in Nat
      /\ Sure \in Nat /\ Sure <= CompSize
      /\ PowerFails => Sure <= trunkSynced
      /\ Len(trunk') \in Nat
  BY <1>1, IntactIsIndex, SizesOfStore, SureIs, SizesNext DEF LaidInv
<1>3. UNCHANGED env
  BY DEF DropHead
<1>4. Len(rings') = CompSize - k
  BY <1>1 DEF CompSize
<1>5. Intact' = CompSize - k
  BY <1>1, <1>2, <1>4 DEF Intact, Least
<1>6. PowerFails => Sure' = (IF trunkSynced' <= CompSize - k THEN trunkSynced' ELSE CompSize - k)
  BY <1>1, <1>3 DEF Sure, PowerFails, Least
<1>7. ~PowerFails => Sure' = CompSize - k
  BY <1>3, <1>5 DEF Sure, PowerFails
<1>8. Sure' \in Nat /\ Sure' <= CompSize - k
  BY <1>5, SureNext
<1>9. Sure <= Sure' + k
  <2>1. CASE PowerFails
    <3>1. trunkSynced <= Greatest(0, trunkSynced - k) + k
      BY <1>1, <1>2 DEF Greatest
    <3>2. Greatest(0, trunkSynced - k) \in Nat
      BY <1>1, <1>2 DEF Greatest
    <3>3. trunkSynced' \in Nat /\ (trunkSynced' = CompSize - k \/ trunkSynced <= trunkSynced' + k)
      BY <1>1, <3>1, <3>2
    <3>4. QED
      BY <1>1, <1>2, <1>6, <2>1, <3>3
  <2>2. CASE ~PowerFails
    BY <1>1, <1>2, <1>7, <2>2
  <2>3. QED
    BY <2>1, <2>2
<1>10. TapeEnd(Sure)' = TapeEnd(Sure' + k)
  <2>1. CASE Sure' = 0
    <3>1. Sure' + k = k /\ k # 0
      BY <1>1, <2>1
    <3>2. QED
      BY <1>1, <2>1, <3>1 DEF TapeEnd
  <2>2. CASE Sure' # 0
    <3>1. Sure' \in 1 .. CompSize - k /\ Sure' + k # 0
      <4>1. \A x, y, z \in Nat : x # 0 /\ x <= y => x \in 1 .. y /\ x + z # 0
        OBVIOUS
      <4>2. QED
        BY <1>1, <1>8, <2>2, <4>1
    <3>2. trunk'[Sure'] = trunk[Sure' + k]
      BY <1>1, <3>1
    <3>3. QED
      BY <2>2, <3>1, <3>2 DEF TapeEnd
  <2>3. QED
    BY <2>1, <2>2
<1>11. Sure \in 0 .. Intact /\ Sure' + k \in 0 .. Intact
  <2>1. \A x, y, z \in Nat : x <= y - z => x + z \in 0 .. y
    OBVIOUS
  <2>2. Sure' + k \in 0 .. CompSize
    BY <1>1, <1>2, <1>8, <2>1
  <2>3. QED
    BY <1>2, <2>2
<1>12. TapeEnd(Sure) <= TapeEnd(Sure' + k)
  BY <1>9, <1>11, TapeEndGrows
<1>13. QED
  BY <1>10, <1>12

LEMMA SureStep ==
    ASSUME TapeInv, TapeInv', Next, ~SapSync,
           pc \notin Opening \cup {"down"} => acked <= hi,
           acked <= TapeEnd(Sure)
    PROVE  acked' <= TapeEnd(Sure)'
<1>1. /\ IndexInv /\ LaidInv /\ IndexInv' /\ LaidInv'
      /\ Sure \in Nat /\ Sure <= Intact /\ TapeEnd(Sure) \in Nat /\ acked \in Nat
      /\ TapeEnd(Sure)' \in Nat
  <2>1. IndexInv /\ LaidInv /\ IndexInv' /\ LaidInv'
    BY DEF TapeInv
  <2>2. /\ Sure \in Nat /\ Sure <= Intact /\ Intact \in Nat /\ Intact <= Len(trunk)
        /\ head \in Nat /\ acked \in Nat /\ Len(trunk) \in Nat
        /\ \A i \in 1 .. Len(trunk) : trunk[i].hi \in Nat
    BY <2>1, SureIs, SizesOfStore DEF LaidInv
  <2>3. TapeEnd(Sure) \in Nat
    <3>1. Sure # 0 => Sure \in 1 .. Len(trunk)
      BY <2>2
    <3>2. QED
      BY <2>2, <3>1 DEF TapeEnd
  <2>4. TapeEnd(Sure)' \in Nat
    <3>1. /\ Sure' \in Nat /\ Sure' <= Intact' /\ Intact' \in Nat
          /\ Intact' <= Len(trunk') /\ head' \in Nat /\ Len(trunk') \in Nat
          /\ \A i \in 1 .. Len(trunk') : trunk'[i].hi \in Nat
      BY <2>1, SureNext, SizesNext
    <3>2. Sure' # 0 => Sure' \in 1 .. Len(trunk')
      BY <3>1
    <3>3. QED
      BY <3>1, <3>2 DEF TapeEnd
  <2>5. QED
    BY <2>1, <2>2, <2>3, <2>4
<1>2. ASSUME FilesKept PROVE acked' <= TapeEnd(Sure)'
  BY <1>2, FilesKeptKeepSure
<1>3. ASSUME UNCHANGED <<head, acked>>, Sure <= Sure', \A i \in 1 .. Sure : trunk'[i] = trunk[i]
      PROVE  acked' <= TapeEnd(Sure)'
  <2>1. TapeEnd(Sure) <= TapeEnd(Sure)'
    BY <1>1, <1>3, SureGrows
  <2>2. QED
    BY <1>1, <1>3, <2>1
<1>4. CASE Open
  <2>1. ASSUME NEW r \in Programs, OpenIndex(r) PROVE acked' <= TapeEnd(Sure)'
    <3>1. TapeEnd(Sure)' = TapeEnd(Sure) /\ acked' = acked
      BY <1>1, <2>1, OpenIndexKeepsSure DEF OpenIndex, history
    <3>2. QED
      BY <3>1
  <2>2. CASE ReplayFrame
    <3>1. [lo |-> lo, hi |-> hi] \in Frame
      BY <1>1, SizesOfStore DEF Frame
    <3>2. /\ pc = "replay_frame" /\ WriteFrame([lo |-> lo, hi |-> hi])
          /\ UNCHANGED <<rings, ringsSynced, env, head, acked>>
      BY <2>2 DEF ReplayFrame, history
    <3>3. TapeEnd(Sure)' = TapeEnd(Sure)
      BY <1>1, <3>1, <3>2, FrameKeepsSure
    <3>4. QED
      BY <3>2, <3>3
  <2>3. CASE ReplayRecord
    <3>1. /\ pc = "replay_record" /\ WriteRecord(NextRecord(hi - lo))
          /\ UNCHANGED <<trunk, trunkSynced, env, head, acked>>
      BY <2>3 DEF ReplayRecord, history
    <3>2. staged = NotStaged /\ CompSize < Len(trunk)
      BY <1>1, <3>1 DEF IndexInv, StagingWithinImport, StagingLabels, IndexWithinTrunk
    <3>3. NextRecord(hi - lo) \in ChunkRecord
      BY <1>1, NextRecordType, SizesOfStore DEF IndexInv
    <3>4. Sure <= Sure'
      BY <1>1, <3>1, <3>2, <3>3, RecordGrowsSure
    <3>5. QED
      BY <1>3, <3>1, <3>4
  <2>4. CASE ReplaySync
    <3>1. SyncPair /\ UNCHANGED <<trunk, rings, env, head, acked>>
      BY <2>4 DEF ReplaySync
    <3>2. QED
      BY <1>1, <1>3, <3>1, SyncGrowsSure
  <2>5. QED
    BY <1>2, <1>4, <2>1, <2>2, <2>3, <2>4, FilesKeptBy DEF Open
<1>5. CASE Write
  <2>1. CASE SyncFiles
    <3>1. /\ pc = "sync" /\ SyncPair /\ UNCHANGED <<trunk, rings, env, head>> /\ acked' = hi
      BY <2>1 DEF SyncFiles
    <3>2. staged = NotStaged /\ hi \in Nat
      BY <1>1, <3>1, SizesOfStore DEF IndexInv, StagingWithinImport, StagingLabels
    <3>3. QED
      BY <1>1, <3>1, <3>2, AllIsSure
  <2>2. QED
    BY <1>2, <1>5, <2>1, FilesKeptBy DEF Write
<1>6. CASE Flush
  <2>1. CASE FlushFrame
    <3>1. [lo |-> lo, hi |-> hi] \in Frame
      BY <1>1, SizesOfStore DEF Frame
    <3>2. /\ pc = "frame" /\ WriteFrame([lo |-> lo, hi |-> hi])
          /\ UNCHANGED <<rings, ringsSynced, env, head, acked>>
      BY <2>1 DEF FlushFrame, history
    <3>3. TapeEnd(Sure)' = TapeEnd(Sure)
      BY <1>1, <3>1, <3>2, FrameKeepsSure
    <3>4. QED
      BY <3>2, <3>3
  <2>2. CASE FlushRecord
    <3>1. pc = "record" /\ UNCHANGED <<trunk, trunkSynced, env, head, acked>>
      BY <2>2 DEF FlushRecord, history
    <3>2. CASE staged = NotStaged
      <4>1. WriteRecord(NextRecord(hi - lo)) /\ CompSize < Len(trunk)
        BY <1>1, <2>2, <3>1, <3>2 DEF FlushRecord, IndexInv, IndexWithinTrunk
      <4>2. NextRecord(hi - lo) \in ChunkRecord
        BY <1>1, NextRecordType, SizesOfStore DEF IndexInv
      <4>3. Sure <= Sure'
        BY <1>1, <3>1, <3>2, <4>1, <4>2, RecordGrowsSure
      <4>4. QED
        BY <1>3, <3>1, <4>3
    <3>3. CASE staged # NotStaged
      BY <1>2, <2>2, <3>1, <3>3 DEF FlushRecord, FilesKept
    <3>4. QED
      BY <3>2, <3>3
  <2>3. CASE FlushHarden
    <3>1. SyncPair /\ UNCHANGED <<trunk, rings, env, head, acked>>
      BY <2>3 DEF FlushHarden
    <3>2. QED
      BY <1>1, <1>3, <3>1, SyncGrowsSure
  <2>4. QED
    BY <1>2, <1>6, <2>1, <2>2, <2>3, FilesKeptBy DEF Flush
<1>7. CASE Import
  <2>1. CASE CommitRecord
    <3>1. /\ rings' = Append(rings, chunks[Len(rings) + 1]) /\ Len(rings) < Len(chunks)
          /\ UNCHANGED <<trunk, trunkSynced, ringsSynced, env, head, acked>>
      BY <2>1 DEF CommitRecord, history
    <3>2. Len(rings') = Len(rings) + 1 /\ Len(rings) \in Nat /\ Len(trunk) \in Nat
      <4>1. rings \in Seq(ChunkRecord) /\ chunks \in Seq(ChunkRecord) /\ Len(rings) \in Nat
            /\ Len(chunks) \in Nat /\ Len(trunk) \in Nat
        BY <1>1, SizesOfStore DEF CompSize
      <4>2. Len(rings) + 1 \in 1 .. Len(chunks)
        BY <3>1, <4>1
      <4>3. chunks[Len(rings) + 1] \in ChunkRecord
        BY <4>1, <4>2, ElementOfSeq
      <4>4. QED
        BY <3>1, <4>1, <4>3, AppendIsSeq
    <3>3. Intact <= Intact' /\ PowerFails' = PowerFails
      BY <3>1, <3>2 DEF Intact, Least, PowerFails
    <3>4. Sure <= Sure'
      BY <1>1, <3>1, <3>3 DEF Sure
    <3>5. QED
      BY <1>3, <3>1, <3>4
  <2>2. CASE CommitSync
    <3>1. /\ pc = "publish" /\ Len(rings) = CompSize /\ SyncPair /\ acked' = hi
          /\ UNCHANGED <<trunk, rings, env, head>>
      BY <2>2 DEF CommitSync, CompSize
    <3>2. lo = TapeEnd(CompSize) /\ lo = hi /\ hi \in Nat
      BY <1>1, <3>1, SizesOfStore DEF LaidInv, InMemory, Emptied
    <3>3. Intact = CompSize
      BY <1>1, <3>1, SizesOfStore DEF Intact, Least
    <3>4. Sure' = CompSize
      BY <1>1, <3>1, <3>3, SyncGrowsSure
    <3>5. TapeEnd(Sure)' = hi
      BY <3>1, <3>2, <3>4 DEF TapeEnd
    <3>6. QED
      BY <3>1, <3>2, <3>5
  <2>3. CASE Abort
    <3>1. /\ pc = "staged" /\ trunk' = SubSeq(trunk, 1, staged)
          /\ trunkSynced' = (IF trunkSynced <= staged THEN trunkSynced ELSE staged)
          /\ UNCHANGED <<rings, ringsSynced, env, head, acked>>
      BY <2>3 DEF Abort, history, Least
    <3>2. staged = Len(rings) /\ Len(rings) <= CompSize
      BY <1>1, <3>1 DEF IndexInv, StagingWithinImport, StagingLabels, RingsFollowChunks
    <3>3. /\ Len(rings) \in Nat /\ Len(trunk) \in Nat /\ CompSize \in Nat /\ CompSize <= Len(trunk)
          /\ trunkSynced \in Nat /\ ringsSynced \in Nat /\ ringsSynced <= Len(rings)
          /\ trunk \in Seq(Frame)
      BY <1>1, SizesOfStore DEF LaidInv, SyncedWithin
    <3>4. staged \in 0 .. Len(trunk)
      BY <3>2, <3>3
    <3>5. Len(trunk') = staged /\ \A i \in 1 .. staged : trunk'[i] = trunk[i]
      BY <3>1, <3>3, <3>4, PrefixIsSeq
    <3>6. Intact = Len(rings) /\ Intact' = Len(rings) /\ PowerFails' = PowerFails
      BY <3>1, <3>2, <3>3, <3>5 DEF Intact, Least, PowerFails
    <3>7. PowerFails => Sure' = Sure
      BY <3>1, <3>2, <3>3, <3>6 DEF Sure, Least
    <3>8. Sure' = Sure
      BY <3>6, <3>7 DEF Sure
    <3>9. \A i \in 1 .. Sure : trunk'[i] = trunk[i]
      BY <1>1, <3>2, <3>3, <3>5, <3>6
    <3>10. Sure <= Sure' /\ UNCHANGED <<head, acked>>
      BY <1>1, <3>1, <3>8
    <3>11. QED
      BY <1>3, <3>9, <3>10
  <2>4. QED
    BY <1>2, <1>7, <2>1, <2>2, <2>3, FilesKeptBy DEF Import
<1>8. CASE Reshape
  <2>1. ASSUME NEW k \in 1 .. Len(chunks), NEW rewrite \in BOOLEAN, DropHead(k, rewrite)
        PROVE  acked' <= TapeEnd(Sure)'
    <3>1. acked' = acked
      BY <2>1 DEF DropHead
    <3>2. TapeEnd(Sure) <= TapeEnd(Sure)'
      BY <1>1, <2>1, DropKeepsSure
    <3>3. QED
      BY <1>1, <3>1, <3>2
  <2>2. CASE AdoptFrame
    <3>1. [lo |-> hi, hi |-> hi + 1] \in Frame
      BY <1>1, SizesOfStore DEF Frame
    <3>2. /\ pc = "adopt" /\ WriteFrame([lo |-> hi, hi |-> hi + 1])
          /\ UNCHANGED <<rings, ringsSynced, env, head, acked>>
      BY <2>2 DEF AdoptFrame, history
    <3>3. TapeEnd(Sure)' = TapeEnd(Sure)
      BY <1>1, <3>1, <3>2, FrameKeepsSure
    <3>4. QED
      BY <3>2, <3>3
  <2>3. CASE AdoptRecord
    <3>1. /\ pc = "adopt_record" /\ WriteRecord(NextRecord(1))
          /\ UNCHANGED <<trunk, trunkSynced, env, head, acked>>
      BY <2>3 DEF AdoptRecord, history
    <3>2. staged = NotStaged /\ CompSize < Len(trunk)
      BY <1>1, <3>1 DEF IndexInv, StagingWithinImport, StagingLabels, IndexWithinTrunk
    <3>3. NextRecord(1) \in ChunkRecord
      BY <1>1, SizesOfStore DEF IndexInv, TypeOK, NextRecord, ChunkRecord
    <3>4. Sure <= Sure'
      BY <1>1, <3>1, <3>2, <3>3, RecordGrowsSure
    <3>5. QED
      BY <1>3, <3>1, <3>4
  <2>4. CASE AdoptSync
    <3>1. /\ pc = "adopt_sync" /\ SyncPair /\ UNCHANGED <<trunk, rings, env, head>> /\ acked' = hi
      BY <2>4 DEF AdoptSync
    <3>2. staged = NotStaged /\ hi \in Nat
      BY <1>1, <3>1, SizesOfStore DEF IndexInv, StagingWithinImport, StagingLabels
    <3>3. QED
      BY <1>1, <3>1, <3>2, AllIsSure
  <2>5. CASE Reset
    <3>1. /\ pc = "idle" /\ rings' = <<>> /\ trunkSynced' = 0 /\ ringsSynced' = 0
          /\ head' = (IF wal THEN lo ELSE hi) /\ acked' = acked
      BY <2>5 DEF Reset
    <3>2. staged = NotStaged /\ lo \in Nat /\ hi \in Nat /\ lo <= hi
      BY <1>1, <3>1, SizesOfStore DEF IndexInv, StagingWithinImport, StagingLabels
    <3>3. TapeEnd(Sure) <= lo
      <4>1. Intact = CompSize /\ lo = TapeEnd(CompSize) /\ CompSize \in Nat
        BY <1>1, <3>1, <3>2, IntactIsIndex, SizesOfStore DEF LaidInv, InMemory
      <4>2. Sure \in 0 .. Intact /\ CompSize \in 0 .. Intact
        BY <1>1, <4>1
      <4>3. QED
        BY <1>1, <4>1, <4>2, TapeEndGrows
    <3>4. Sure' = 0
      <4>1. Len(rings') = 0 /\ Len(trunk') \in Nat
        BY <1>1, <3>1, EmptySeq, SizesNext
      <4>2. QED
        BY <3>1, <4>1 DEF Sure, Intact, Least
    <3>5. TapeEnd(Sure)' = head'
      BY <3>4 DEF TapeEnd
    <3>6. QED
      BY <1>1, <3>1, <3>2, <3>3, <3>5
  <2>6. CASE ResetSegment
    <3>1. /\ pc = "reset" /\ head' = hi /\ acked' = acked
          /\ UNCHANGED <<trunk, trunkSynced, rings, ringsSynced, env>>
      BY <2>6 DEF ResetSegment
    <3>2. chunks = <<>> /\ staged = NotStaged
      BY <1>1, <3>1 DEF LaidInv, InMemory, IndexInv, StagingWithinImport, StagingLabels
    <3>3. Sure = 0
      <4>1. Intact = CompSize /\ CompSize = 0
        BY <1>1, <3>1, <3>2, IntactIsIndex, EmptySeq DEF CompSize
      <4>2. QED
        BY <1>1, <4>1
    <3>4. TapeEnd(Sure)' = hi
      BY <3>1, <3>3, SureKept DEF TapeEnd
    <3>5. QED
      BY <3>1, <3>4 DEF Opening
  <2>7. QED
    BY <1>2, <1>8, <2>1, <2>2, <2>3, <2>4, <2>5, <2>6, FilesKeptBy DEF Reshape
<1>9. CASE LosePower
  <2>1. /\ trunkSynced' \in trunkSynced .. Len(trunk) /\ ringsSynced' \in ringsSynced .. Len(rings)
        /\ trunkSynced' = Len(trunk') /\ ringsSynced' = Len(rings')
        /\ \A i \in 1 .. Len(trunk') : trunk'[i] = trunk[i]
        /\ UNCHANGED <<env, head, acked>> /\ PowerFails
    BY <1>1, <1>9, LosePowerDoes DEF LaidInv
  <2>2. /\ trunkSynced \in Nat /\ ringsSynced \in Nat /\ Len(trunk) \in Nat /\ Len(rings) \in Nat
    BY <1>1, SizesOfStore
  <2>3. PowerFails' = PowerFails
    BY <2>1 DEF PowerFails
  <2>4. Sure <= Sure' /\ Sure <= Len(trunk') /\ Len(trunk') \in Nat
    BY <2>1, <2>2, <2>3 DEF Sure, Least
  <2>5. \A i \in 1 .. Sure : trunk'[i] = trunk[i]
    BY SMTT(60), <1>1, <2>1, <2>4
  <2>6. QED
    BY <1>3, <2>1, <2>4, <2>5
<1>10. CASE SetWal \/ Crash
  BY <1>2, <1>10, FilesKeptBy
<1>11. QED
  BY <1>4, <1>5, <1>6, <1>7, <1>8, <1>9, <1>10 DEF Next, Fail


------------------------------------------------------------------------------
\* A store that a mortal writer reopens or works on is recoverable at any moment.
LEMMA MortalIsRecoverable ==
    ASSUME DiesAsExpected, TapeInv, Mortal
    PROVE  Recoverable
<1>1. CASE pc \in Opening \cup {"down"}
  BY <1>1 DEF TapeInv, SegmentInv, ReopeningRight
<1>2. CASE pc \notin Opening \cup {"down"}
  BY <1>2, WorkingIsRecoverable DEF TapeInv, SegmentInv
<1>3. QED
  BY <1>1, <1>2

\* Where a seal may still have to be replayed.
LEMMA PendingWhere ==
    ASSUME DiesAsExpected, TapeInv, Mortal, SealIsSynced, Pending
    PROVE  /\ Recoverable /\ SealOpen /\ seal.base >= Sure /\ seal.base <= Sure
           /\ staged = NotStaged /\ seal \in Segment
           /\ pc \in {"down", "open_seal", "replay_frame", "replay_record", "replay_sync",
                      "frame", "record", "harden"}
           /\ pc = "open_seal" => Sure = CompSize
           /\ pc \in {"replay_frame", "replay_record", "replay_sync"} =>
                 seal.hi = hi /\ seal.base = CompSize
           /\ pc \in {"frame", "record"} =>
                 wal /\ seal.lo = lo /\ seal.hi = hi /\ seal.base = CompSize /\ Sure = CompSize
           /\ pc = "harden" => seal.hi = TapeEnd(CompSize)
<1>1. Recoverable /\ SealOpen /\ seal.base >= Sure /\ seal.base <= Sure
  BY MortalIsRecoverable DEF Recoverable, Pending
<1>2. staged = NotStaged /\ seal \in Segment
  BY MortalIsWriter DEF TapeInv, IndexInv, TypeOK
<1>3. CASE pc \in Opening \cup {"down"}
  <2>1. ReopeningRight
    BY <1>3 DEF TapeInv, SegmentInv
  <2>2. pc # "open_live" /\ pc # "replay_unlink"
    BY <1>1, <2>1 DEF ReopeningRight, SealOpen, SealIsSynced
  <2>3. pc = "open_seal" => Sure = CompSize
    BY <1>2, <2>1, IntactIsIndex DEF ReopeningRight, TapeInv
  <2>4. pc \in {"replay_frame", "replay_record", "replay_sync"} => seal.hi = hi /\ seal.base = CompSize
    BY <2>1 DEF ReopeningRight
  <2>5. QED
    BY <1>1, <1>2, <1>3, <2>2, <2>3, <2>4 DEF Opening
<1>4. CASE pc \notin Opening \cup {"down"}
  <2>1. WorkingRight
    BY <1>4 DEF TapeInv, SegmentInv
  <2>2. seal.there /\ seal.base \in Nat /\ CompSize \in Nat
    BY <1>1, StoredSegments, SizesOfStore DEF SealOpen, TapeInv, IndexInv
  <2>3. pc \in {"frame", "record", "harden", "swap", "unlink"}
    BY <2>1, <2>2 DEF WorkingRight, NoSealOutsideFlush, Flushing
  <2>4. pc \notin {"swap", "unlink"}
    <3>1. pc \in {"swap", "unlink"} => seal.base + 1 = CompSize /\ Sure = CompSize
      BY <2>1 DEF WorkingRight, SealIsFlush
    <3>2. QED
      BY <1>1, <2>2, <3>1
  <2>5. pc \in {"frame", "record"} =>
           wal /\ seal.lo = lo /\ seal.hi = hi /\ seal.base = CompSize /\ Sure = CompSize
    BY <2>1, <2>2 DEF WorkingRight, NoSealOutsideFlush, SealIsFlush
  <2>6. pc = "harden" => seal.hi = TapeEnd(CompSize)
    BY <2>1 DEF WorkingRight, SealIsFlush
  <2>7. QED
    BY <1>1, <1>2, <2>3, <2>4, <2>5, <2>6
<1>5. QED
  BY <1>3, <1>4

\* What rests on a seal goes on resting on it, on the chunk it becomes, or on the
\* segment it is again when the flush fails.
LEMMA PendingStep ==
    ASSUME DiesAsExpected, TapeInv, TapeInv', Mortal, SealIsSynced, Pending, acked <= seal.hi, Next
    PROVE  Reported'
<1>1. /\ IndexInv /\ LaidInv /\ IndexInv' /\ LaidInv'
      /\ SyncedWithin
  BY DEF TapeInv, LaidInv
<1>2. /\ Recoverable /\ SealOpen /\ seal.base >= Sure /\ seal.base <= Sure
      /\ staged = NotStaged /\ seal \in Segment
      /\ pc \in {"down", "open_seal", "replay_frame", "replay_record", "replay_sync",
                 "frame", "record", "harden"}
      /\ pc = "open_seal" => Sure = CompSize
      /\ pc \in {"replay_frame", "replay_record", "replay_sync"} =>
            seal.hi = hi /\ seal.base = CompSize
      /\ pc \in {"frame", "record"} =>
            wal /\ seal.lo = lo /\ seal.hi = hi /\ seal.base = CompSize /\ Sure = CompSize
      /\ pc = "harden" => seal.hi = TapeEnd(CompSize)
  BY PendingWhere
<1>3. /\ CompSize \in Nat /\ Sure \in Nat /\ Sure <= Intact /\ Intact \in Nat
      /\ hi \in Nat /\ lo \in Nat /\ lo <= hi /\ acked \in Nat /\ seal.base \in Nat
  BY <1>1, SizesOfStore, SureIs, StoredSegments DEF IndexInv
<1>4. ASSUME Sure' = Sure, UNCHANGED <<seal, acked>> PROVE Reported'
  BY <1>2, <1>4 DEF Reported, Pending, SealOpen
<1>5. ASSUME FilesKept, UNCHANGED seal PROVE Reported'
  BY <1>4, <1>5, FilesKeptKeepSure DEF FilesKept
<1>6. ASSUME TapeEnd(Sure)' = seal.hi, UNCHANGED acked PROVE Reported'
  BY <1>6 DEF Reported
<1>7. ASSUME Unseal, UNCHANGED <<acked, env>>, pc \in {"frame", "record"} PROVE Reported'
  <2>1. sap' = seal
    BY <1>2, <1>7 DEF Unseal, Sealing
  <2>2. SapOpen' /\ sap'.hi = hi /\ sap'.syn = hi /\ acked' <= hi
    BY <1>2, <1>7, <2>1 DEF SapOpen, SealOpen, SealIsSynced
  <2>3. QED
    BY <2>2 DEF Reported
<1>8. CASE Open
  <2>1. ASSUME NEW r \in Programs, OpenIndex(r) PROVE Reported'
    <3>1. Sure' = Sure /\ UNCHANGED <<seal, acked>>
      BY <1>1, <2>1, OpenIndexKeepsSure DEF OpenIndex, history
    <3>2. QED
      BY <1>4, <3>1
  <2>2. ~DiscardSeal
    <3>1. ~(seal.base < CompSize \/ seal.lo = seal.hi) \/ pc # "open_seal"
      BY <1>2, <1>3 DEF SealOpen, Segment
    <3>2. QED
      BY <1>2, <3>1 DEF DiscardSeal, SealOpen
  <2>3. CASE ReplaySeal
    <3>1. FilesKept
      BY <2>3, FilesKeptBy
    <3>2. UNCHANGED seal
      BY <2>3 DEF ReplaySeal, disk
    <3>3. QED
      BY <1>5, <3>1, <3>2
  <2>4. CASE ReplayFrame
    <3>1. [lo |-> lo, hi |-> hi] \in Frame
      BY <1>3 DEF Frame
    <3>2. /\ pc = "replay_frame" /\ WriteFrame([lo |-> lo, hi |-> hi])
          /\ UNCHANGED <<rings, ringsSynced, env, head, acked, seal>>
      BY <2>4 DEF ReplayFrame, history
    <3>3. Sure' = Sure
      BY <1>1, <3>1, <3>2, FrameKeepsSure
    <3>4. QED
      BY <1>4, <3>2, <3>3
  <2>5. CASE ReplayRecord
    <3>1. /\ pc = "replay_record" /\ WriteRecord(NextRecord(hi - lo))
          /\ UNCHANGED <<trunk, trunkSynced, env, head, acked, seal>>
      BY <2>5 DEF ReplayRecord, history
    <3>2. CompSize < Len(trunk) /\ trunk[CompSize + 1].hi = hi
      BY <1>1, <3>1 DEF IndexInv, IndexWithinTrunk, LaidInv, InMemory
    <3>3. NextRecord(hi - lo) \in ChunkRecord
      BY <1>1, NextRecordType, SizesOfStore DEF IndexInv
    <3>4. /\ PowerFails => Sure' = Sure
          /\ ~PowerFails => Sure' = CompSize + 1
      BY <1>1, <1>2, <3>1, <3>2, <3>3, RecordGrowsSure
    <3>5. ~PowerFails => TapeEnd(Sure)' = seal.hi
      BY <1>2, <1>3, <3>1, <3>2, <3>4 DEF TapeEnd
    <3>6. QED
      BY <1>4, <1>6, <3>1, <3>4, <3>5
  <2>6. CASE ReplaySync
    <3>1. pc = "replay_sync" /\ SyncPair /\ UNCHANGED <<trunk, rings, env, head, acked>>
      BY <2>6 DEF ReplaySync
    <3>2. Len(rings) = CompSize + 1 /\ CompSize + 1 <= Len(trunk) /\ trunk[CompSize + 1].hi = hi
      BY <1>1, <1>3, <3>1, SizesOfStore
         DEF IndexInv, RingsFollowChunks, IndexWithinTrunk, LaidInv, InMemory
    <3>3. Intact = CompSize + 1
      BY <1>1, <3>2, SizesOfStore DEF Intact, Least
    <3>4. Sure' = CompSize + 1
      BY <1>1, <3>1, <3>3, SyncGrowsSure
    <3>5. TapeEnd(Sure)' = seal.hi
      BY <1>2, <1>3, <3>1, <3>2, <3>4 DEF TapeEnd
    <3>6. QED
      BY <1>6, <3>1, <3>5
  <2>7. ~ReplayUnlink /\ ~OpenLive
    BY <1>2 DEF ReplayUnlink, OpenLive
  <2>8. QED
    BY <1>8, <2>1, <2>2, <2>3, <2>4, <2>5, <2>6, <2>7 DEF Open
<1>9. CASE Flush
  <2>1. CASE FlushFrame
    <3>1. [lo |-> lo, hi |-> hi] \in Frame
      BY <1>3 DEF Frame
    <3>2. /\ pc = "frame" /\ WriteFrame([lo |-> lo, hi |-> hi])
          /\ UNCHANGED <<rings, ringsSynced, env, head, acked, seal>>
      BY <2>1 DEF FlushFrame, history
    <3>3. Sure' = Sure
      BY <1>1, <3>1, <3>2, FrameKeepsSure
    <3>4. QED
      BY <1>4, <3>2, <3>3
  <2>2. CASE FlushRecord
    <3>1. /\ pc = "record" /\ WriteRecord(NextRecord(hi - lo))
          /\ UNCHANGED <<trunk, trunkSynced, env, head, acked, seal>>
      BY <1>2, <2>2 DEF FlushRecord, history
    <3>2. CompSize < Len(trunk) /\ trunk[CompSize + 1].hi = hi
      BY <1>1, <3>1 DEF IndexInv, IndexWithinTrunk, LaidInv, InMemory
    <3>3. NextRecord(hi - lo) \in ChunkRecord
      BY <1>1, NextRecordType, SizesOfStore DEF IndexInv
    <3>4. /\ PowerFails => Sure' = Sure
          /\ ~PowerFails => Sure' = CompSize + 1
      BY <1>1, <1>2, <3>1, <3>2, <3>3, RecordGrowsSure
    <3>5. ~PowerFails => TapeEnd(Sure)' = seal.hi
      BY <1>2, <1>3, <3>1, <3>2, <3>4 DEF TapeEnd
    <3>6. QED
      BY <1>4, <1>6, <3>1, <3>4, <3>5
  <2>3. CASE FlushHarden
    <3>1. pc = "harden" /\ SyncPair /\ UNCHANGED <<trunk, rings, env, head, acked>>
      BY <2>3 DEF FlushHarden
    <3>2. Intact = CompSize
      BY <1>1, <1>2, <3>1, IntactIsIndex
    <3>3. Sure' = CompSize
      BY <1>1, <3>1, <3>2, SyncGrowsSure
    <3>4. TapeEnd(Sure)' = seal.hi
      BY <1>2, <3>1, <3>3 DEF TapeEnd
    <3>5. QED
      BY <1>6, <3>1, <3>4
  <2>4. CASE FrameFails \/ RecordFails
    BY <1>7, <2>4 DEF FrameFails, RecordFails, history
  <2>5. ~HardenFails
    BY <1>1, EnvironmentIs DEF HardenFails, IndexInv, Mortal
  <2>6. ~FlushBegin /\ ~FlushSwap /\ ~FlushUnlink
    BY <1>2 DEF FlushBegin, FlushSwap, FlushUnlink
  <2>7. QED
    BY <1>9, <2>1, <2>2, <2>3, <2>4, <2>5, <2>6 DEF Flush
<1>10. CASE Crash \/ SetWal
  <2>1. FilesKept /\ UNCHANGED seal
    BY <1>10, FilesKeptBy DEF Crash, SetWal, disk
  <2>2. QED
    BY <1>5, <2>1
<1>11. CASE LosePower
  <2>1. /\ trunkSynced' \in trunkSynced .. Len(trunk) /\ ringsSynced' \in ringsSynced .. Len(rings)
        /\ trunkSynced' = Len(trunk') /\ ringsSynced' = Len(rings')
        /\ \A i \in 1 .. Len(trunk') : trunk'[i] = trunk[i]
        /\ UNCHANGED <<seal, env, head, acked>> /\ PowerFails
    BY <1>1, <1>11, LosePowerDoes
  <2>2. /\ trunkSynced \in Nat /\ ringsSynced \in Nat /\ Len(trunk) \in Nat /\ Len(rings) \in Nat
    BY <1>1, SizesOfStore
  <2>3. PowerFails' = PowerFails
    BY <2>1 DEF PowerFails
  <2>4. Sure <= Sure' /\ Sure' <= Len(trunk') /\ Len(trunk') \in Nat /\ Sure' \in Nat
        /\ Sure' <= Len(trunk) /\ Sure' <= Len(rings)
    BY <2>1, <2>2, <2>3 DEF Sure, Least
  <2>5. CASE Sure' = Sure
    BY <1>4, <2>1, <2>5
  <2>6. CASE Sure' # Sure
    <3>1. Sure + 1 \in Nat /\ Sure + 1 <= Sure' /\ Sure + 1 # 0 /\ Sure + 1 \in 1 .. Len(trunk')
      BY <1>3, <2>4, <2>6
    <3>2. Sure < Intact
      BY <1>3, <2>2, <2>4, <2>6 DEF Intact, Least
    <3>3. seal.hi = TapeEnd(Sure + 1)
      BY <1>2, <3>2 DEF Recoverable
    <3>4. seal.hi = trunk'[Sure + 1].hi
      BY <2>1, <3>1, <3>3 DEF TapeEnd
    <3>5. (IF Sure + 1 = 0 THEN head' ELSE trunk'[Sure + 1].hi) <= TapeEnd(Sure)'
      BY <1>1, <3>1, TapeEndGrowsNext
    <3>6. seal.hi \in Nat /\ TapeEnd(Sure)' \in Nat
      <4>1. head' \in Nat /\ \A i \in 1 .. Len(trunk') : trunk'[i].hi \in Nat
        BY <1>1, SureNext
      <4>2. Sure' # 0 => Sure' \in 1 .. Len(trunk')
        BY <2>4
      <4>3. QED
        BY <1>2, <4>1, <4>2 DEF TapeEnd, Segment
    <3>7. acked' <= TapeEnd(Sure)'
      BY <1>3, <2>1, <3>1, <3>4, <3>5, <3>6
    <3>8. QED
      BY <3>7 DEF Reported
  <2>7. QED
    BY <2>5, <2>6
<1>12. ~Import /\ ~Write /\ ~Reshape
  BY <1>2 DEF Import, Stage, Commit, CommitRecord, CommitSync, Abort, Exit, Write, AppendEntry,
     FlushAged, Sync, SyncFiles, SapFlush, SapSync, ApplyWalOn, StartWal, ApplyWalOff, Reshape,
     DropHead, Rebase, RebaseFails, Adopt, AdoptFrame, AdoptRecord, AdoptSync, Reset, ResetSegment
<1>13. QED
  BY <1>8, <1>9, <1>10, <1>11, <1>12 DEF Next, Fail


\* What rests on the segment goes on resting on it, on the seal it becomes, or on the
\* chunks that are sure.
LEMMA SegmentWhere ==
    ASSUME DiesAsExpected, TapeInv, Mortal, SapOpen
    PROVE  /\ Recoverable /\ sap.there /\ Sure = Intact /\ sap.lo = TapeEnd(Sure) /\ ~Pending
           /\ staged = NotStaged /\ sap \in Segment
           /\ pc \in {"down", "open_seal", "open_live", "idle", "flush", "sync", "adopt",
                      "rebase", "reset"}
           /\ pc \in {"idle", "flush", "sync", "adopt", "rebase", "reset"} => wal
           /\ pc \in {"idle", "flush", "sync", "adopt"} =>
                 /\ sap.lo = lo /\ sap.hi <= hi /\ walHi = hi
                 /\ sap.base = CompSize /\ Sure = CompSize
           /\ pc = "rebase" => sap.lo = lo /\ sap.hi <= hi /\ walHi = hi
           /\ pc = "reset" => Sure = 0
<1>1. Recoverable /\ sap.there /\ Sure = Intact /\ sap.lo = TapeEnd(Sure) /\ ~Pending
  BY MortalIsRecoverable DEF Recoverable
<1>2. staged = NotStaged /\ sap \in Segment /\ pc \notin {"stage", "staged", "publish", "exit"}
  BY MortalIsWriter DEF TapeInv, IndexInv, TypeOK
<1>3. sap.lo \in Nat /\ sap.hi \in Nat /\ sap.lo < sap.hi /\ lo \in Nat
  BY <1>2, SizesOfStore DEF Segment, SapOpen, TapeInv
<1>4. CASE pc \in Opening \cup {"down"}
  <2>1. ReopeningRight
    BY <1>4 DEF TapeInv, SegmentInv
  <2>2. pc \in {"down", "open_seal", "open_live"}
    BY <1>4, <2>1 DEF ReopeningRight, Opening
  <2>3. QED
    BY <1>1, <1>2, <2>2
<1>5. CASE pc \notin Opening \cup {"down"}
  <2>1. WorkingRight /\ pc \in Labels
    BY <1>5 DEF TapeInv, SegmentInv, IndexInv, TypeOK
  <2>2. wal /\ walHi = hi
    BY <2>1 DEF WorkingRight
  <2>3. pc \notin {"frame", "record", "harden", "swap", "unlink"}
    <3>1. pc = "unlink" => sap.lo = lo /\ sap.hi = lo
      BY <2>1, <2>2 DEF WorkingRight, SealIsFlush
    <3>2. pc # "unlink"
      BY <1>3, <3>1
    <3>3. QED
      BY <2>1, <3>2 DEF WorkingRight, SealIsFlush
  <2>4. pc \notin {"adopt_record", "adopt_sync", "start_wal"}
    BY <2>1, <2>2 DEF WorkingRight, SegmentIsBuffer
  <2>5. pc \in {"idle", "flush", "sync", "adopt", "rebase", "reset"}
    BY <1>2, <1>5, <2>1, <2>3, <2>4 DEF Labels, Opening
  <2>6. /\ pc \in {"idle", "flush", "sync", "adopt"} =>
              /\ sap.lo = lo /\ sap.hi <= hi /\ sap.base = CompSize /\ Sure = CompSize
        /\ pc = "rebase" => sap.lo = lo /\ sap.hi <= hi
        /\ pc = "reset" => Sure = 0
    BY <2>1, <2>2 DEF WorkingRight, SegmentIsBuffer
  <2>7. QED
    BY <1>1, <1>2, <2>2, <2>5, <2>6
<1>6. QED
  BY <1>4, <1>5

LEMMA SegmentStep ==
    ASSUME DiesAsExpected, TapeInv, TapeInv', Mortal, SegmentIsDeclared,
           pc \notin Opening \cup {"down"} => acked <= hi,
           SapOpen, acked <= sap.hi, PowerFails => acked <= sap.syn,
           Next, ~SapSync
    PROVE  Reported'
<1>1. IndexInv /\ LaidInv /\ IndexInv' /\ LaidInv'
  BY DEF TapeInv
<1>2. /\ Recoverable /\ sap.there /\ Sure = Intact /\ sap.lo = TapeEnd(Sure) /\ ~Pending
      /\ staged = NotStaged /\ sap \in Segment
      /\ pc \in {"down", "open_seal", "open_live", "idle", "flush", "sync", "adopt",
                 "rebase", "reset"}
      /\ pc \in {"idle", "flush", "sync", "adopt", "rebase", "reset"} => wal
      /\ pc \in {"idle", "flush", "sync", "adopt"} =>
            /\ sap.lo = lo /\ sap.hi <= hi /\ walHi = hi
            /\ sap.base = CompSize /\ Sure = CompSize
      /\ pc = "rebase" => sap.lo = lo /\ sap.hi <= hi /\ walHi = hi
      /\ pc = "reset" => Sure = 0
  BY SegmentWhere
<1>3. /\ sap.lo \in Nat /\ sap.hi \in Nat /\ sap.syn \in Nat /\ sap.lo < sap.hi
      /\ CompSize \in Nat /\ Sure \in Nat /\ hi \in Nat /\ lo \in Nat /\ lo <= hi /\ acked \in Nat
      /\ declared
  BY <1>1, <1>2, SizesOfStore DEF Segment, SapOpen, SegmentIsDeclared
<1>4. PowerFails' = PowerFails
  BY EnvKept
<1>5. ASSUME UNCHANGED <<sap, acked>> PROVE Reported'
  BY <1>4, <1>5 DEF Reported, SapOpen
<1>6. ASSUME NEW h \in Nat, NEW s \in Nat, UNCHANGED acked, sap'.lo = sap.lo, sap'.hi = h, sap'.syn = s,
             sap.hi <= h, sap.syn <= s \/ acked <= s
      PROVE  Reported'
  <2>1. SapOpen' /\ acked' <= sap'.hi /\ (PowerFails' => acked' <= sap'.syn)
    BY <1>3, <1>4, <1>6 DEF SapOpen
  <2>2. QED
    BY <2>1 DEF Reported
<1>7. CASE Open
  <2>1. CASE OpenLive
    <3>1. /\ sap' = [sap EXCEPT !.base = CompSize, !.ubase = bufStart,
                                !.lo = sap.lo, !.hi = sap.hi,
                                !.syn = IF sap.base # CompSize \/ sap.ubase # bufStart
                                        THEN sap.hi ELSE Greatest(sap.lo, sap.syn)]
          /\ UNCHANGED acked
      BY <1>2, <1>3, <2>1 DEF OpenLive, history
    <3> DEFINE s == IF sap.base # CompSize \/ sap.ubase # bufStart
                    THEN sap.hi ELSE Greatest(sap.lo, sap.syn)
    <3>2. sap'.lo = sap.lo /\ sap'.hi = sap.hi /\ sap'.syn = s
      BY <1>2, <3>1 DEF Segment
    <3>3. s \in Nat /\ (sap.syn <= s \/ acked <= s)
      BY <1>3 DEF Greatest
    <3> HIDE DEF s
    <3>4. QED
      BY <1>3, <1>6, <3>1, <3>2, <3>3
  <2>2. CASE DiscardSeal \/ ReplaySeal \/ \E r \in Programs : OpenIndex(r)
    BY <1>5, <2>2 DEF DiscardSeal, ReplaySeal, OpenIndex, disk, history
  <2>3. ~ReplayFrame /\ ~ReplayRecord /\ ~ReplaySync /\ ~ReplayUnlink
    BY <1>2 DEF ReplayFrame, ReplayRecord, ReplaySync, ReplayUnlink
  <2>4. QED
    BY <1>7, <2>1, <2>2, <2>3 DEF Open
<1>8. CASE Write
  <2>1. CASE AppendEntry
    <3>1. Sealing /\ UNCHANGED acked
      BY <1>2, <2>1 DEF AppendEntry, Sealing, history
    <3>2. PICK h \in sap.hi .. hi + 1 : sap' = [sap EXCEPT !.hi = h]
      BY <2>1, <3>1 DEF AppendEntry
    <3>3. h \in Nat /\ sap.hi <= h /\ sap'.lo = sap.lo /\ sap'.hi = h /\ sap'.syn = sap.syn
      BY <1>2, <1>3, <3>2 DEF Segment
    <3>4. QED
      BY <1>3, <1>6, <3>1, <3>3
  <2>2. CASE SapFlush
    <3>1. pc = "idle" /\ sap' = [sap EXCEPT !.hi = walHi] /\ UNCHANGED acked
      BY <2>2 DEF SapFlush, history
    <3>2. walHi \in Nat /\ sap.hi <= walHi /\ sap'.lo = sap.lo /\ sap'.hi = walHi /\ sap'.syn = sap.syn
      BY <1>2, <1>3, <3>1 DEF Segment
    <3>3. QED
      BY <1>3, <1>6, <3>1, <3>2
  <2>3. CASE SyncFiles
    <3>1. /\ pc = "sync" /\ SyncPair /\ UNCHANGED <<trunk, rings, env, head>> /\ acked' = hi
      BY <2>3 DEF SyncFiles
    <3>2. TapeEnd(Sure)' = hi
      BY <1>1, <1>2, <3>1, AllIsSure
    <3>3. QED
      BY <1>3, <3>1, <3>2 DEF Reported
  <2>4. CASE FlushAged \/ Sync \/ ApplyWalOn
    BY <1>5, <2>4 DEF FlushAged, Sync, ApplyWalOn, disk, history
  <2>5. ~StartWal /\ ~ApplyWalOff
    BY <1>2, <1>3 DEF StartWal, ApplyWalOff
  <2>6. QED
    BY <1>8, <2>1, <2>2, <2>3, <2>4, <2>5 DEF Write
<1>9. CASE FlushBegin
  <2>1. /\ pc = "flush" /\ Sealing /\ seal' = [sap EXCEPT !.hi = walHi, !.syn = walHi]
        /\ FilesKept
    BY <1>2, <1>9, FilesKeptBy DEF FlushBegin, Sealing
  <2>2. seal'.there /\ seal'.lo = lo /\ seal'.hi = hi /\ seal'.base = CompSize
    BY <1>2, <2>1 DEF Segment
  <2>3. Sure' = CompSize /\ acked' = acked
    BY <1>2, <2>1, FilesKeptKeepSure
  <2>4. Pending'
    BY <1>2, <1>3, <2>1, <2>2, <2>3 DEF Pending, SealOpen
  <2>5. acked' <= seal'.hi
    BY <2>1, <2>2, <2>3 DEF Opening
  <2>6. QED
    BY <2>4, <2>5 DEF Reported
<1>10. CASE Reshape
  <2>1. CASE Rebase
    <3>1. pc = "rebase" /\ UNCHANGED acked
      BY <2>1 DEF Rebase, history
    <3>2. sap' = [sap EXCEPT !.base = CompSize, !.ubase = bufStart,
                             !.lo = lo, !.hi = Greatest(lo, sap.hi), !.syn = Greatest(lo, sap.hi)]
      BY <2>1 DEF Rebase
    <3>3. Greatest(lo, sap.hi) = sap.hi
      BY <1>2, <1>3, <3>1 DEF Greatest
    <3>4. sap'.lo = sap.lo /\ sap'.hi = sap.hi /\ sap'.syn = sap.hi
      BY <1>2, <3>1, <3>2, <3>3 DEF Segment
    <3>5. QED
      BY <1>3, <1>6, <3>1, <3>4
  <2>2. CASE ResetSegment
    <3>1. /\ pc = "reset" /\ head' = hi /\ UNCHANGED <<trunk, trunkSynced, rings, ringsSynced, env, acked>>
      BY <2>2 DEF ResetSegment
    <3>2. Sure' = 0
      BY <1>2, <3>1, SureKept
    <3>3. acked' <= TapeEnd(Sure)'
      BY <3>1, <3>2 DEF TapeEnd, Opening
    <3>4. QED
      BY <3>3 DEF Reported
  <2>3. CASE RebaseFails \/ Adopt \/ AdoptFrame \/ Reset
             \/ \E k \in 1 .. Len(chunks), rewrite \in BOOLEAN : DropHead(k, rewrite)
    BY <1>5, <2>3 DEF RebaseFails, Adopt, AdoptFrame, Reset, DropHead, disk, history
  <2>4. ~AdoptRecord /\ ~AdoptSync
    BY <1>2 DEF AdoptRecord, AdoptSync
  <2>5. QED
    BY <1>10, <2>1, <2>2, <2>3, <2>4 DEF Reshape
<1>11. CASE Crash \/ SetWal
  BY <1>5, <1>11 DEF Crash, SetWal, disk, history
<1>12. CASE LosePower
  <2>1. PICK h \in sap.syn .. sap.hi : sap' = [sap EXCEPT !.hi = h, !.syn = h]
    BY <1>12 DEF LosePower
  <2>2. /\ h \in Nat /\ acked <= h /\ sap'.lo = sap.lo /\ sap'.hi = h /\ sap'.syn = h
        /\ UNCHANGED acked
    <3>1. PowerFails /\ UNCHANGED acked
      BY <1>12 DEF LosePower, PowerFails, history
    <3>2. QED
      BY <1>2, <1>3, <2>1, <3>1 DEF Segment
  <2>3. CASE sap.lo < h
    BY <2>2, <2>3 DEF Reported, SapOpen
  <2>4. CASE ~(sap.lo < h)
    <3>1. acked <= sap.lo
      BY <1>3, <2>2, <2>4
    <3>2. acked <= TapeEnd(Sure)
      BY <1>2, <3>1
    <3>3. acked' <= TapeEnd(Sure)'
      BY <3>2, SureStep
    <3>4. QED
      BY <3>3 DEF Reported
  <2>5. QED
    BY <2>3, <2>4
<1>13. ~Import /\ (Flush => FlushBegin)
  BY <1>2 DEF Import, Stage, Commit, CommitRecord, CommitSync, Abort, Exit, Flush,
     FlushFrame, FlushRecord, FlushHarden, FlushSwap, FlushUnlink, FrameFails, RecordFails, HardenFails
<1>14. QED
  BY <1>7, <1>8, <1>9, <1>10, <1>11, <1>12, <1>13 DEF Next, Fail


\* The segment's durability point: all of the buffer rests on the segment then.
LEMMA SapSyncReports ==
    ASSUME DiesAsExpected, TapeInv, TapeInv', Mortal, SapSync
    PROVE  Reported'
<1>1. /\ pc = "idle" /\ wal /\ sap' = [sap EXCEPT !.hi = walHi, !.syn = walHi] /\ acked' = hi
      /\ UNCHANGED <<trunk, trunkSynced, rings, ringsSynced, env, head>>
  BY DEF SapSync
<1>2. AtWork
  BY <1>1 DEF AtWork, TapeInv, SegmentInv, Opening
<1>3. /\ walHi = hi /\ sap.there /\ sap.lo = lo /\ Sure = CompSize
  BY <1>1, <1>2 DEF AtWork, WorkingRight, SegmentIsBuffer
<1>4. lo = TapeEnd(CompSize) /\ lo \in Nat /\ hi \in Nat /\ lo <= hi /\ sap \in Segment
  BY <1>1, <1>2, WorkFacts
<1>5. sap'.lo = lo /\ sap'.hi = hi /\ sap'.syn = hi
  BY <1>1, <1>3, <1>4 DEF Segment
<1>6. CASE lo < hi
  BY <1>1, <1>4, <1>5, <1>6 DEF Reported, SapOpen
<1>7. CASE lo = hi
  <2>1. TapeEnd(Sure)' = hi
    BY <1>1, <1>3, <1>4, <1>7, SureKept DEF TapeEnd
  <2>2. QED
    BY <1>1, <1>4, <2>1 DEF Reported
<1>8. QED
  BY <1>4, <1>6, <1>7

------------------------------------------------------------------------------
\* What was reported is in memory once the store is open.
LEMMA SureIsInMemory ==
    ASSUME IndexInv, LaidInv, pc \notin {"down", "replay_sync", "reset"}, staged = NotStaged
    PROVE  TapeEnd(Sure) \in Nat /\ TapeEnd(Sure) <= lo /\ lo <= hi
<1>1. /\ Intact = CompSize /\ Sure \in Nat /\ Sure <= Intact /\ CompSize \in Nat
      /\ lo = TapeEnd(CompSize) /\ lo \in Nat /\ lo <= hi
  BY IntactIsIndex, SureIs, SizesOfStore DEF LaidInv, InMemory
<1>2. Sure \in 0 .. Intact /\ CompSize \in 0 .. Intact
  BY <1>1
<1>3. TapeEnd(Sure) \in Nat
  <2>1. Sure \in 0 .. Len(trunk)
    BY <1>1, SizesOfStore
  <2>2. QED
    BY <2>1, TapeEndIsNat DEF IndexInv
<1>4. QED
  BY <1>1, <1>2, <1>3, TapeEndGrows

LEMMA OpenedHoldsAcked ==
    ASSUME DiesAsExpected, TapeInv, AckedInv, OpenLive
    PROVE  acked <= hi' /\ UNCHANGED acked
<1>1. /\ pc = "open_live" /\ UNCHANGED acked
      /\ hi' = IF sap.lo < sap.hi THEN sap.hi ELSE hi
  BY DEF OpenLive, history
<1>2. staged = NotStaged /\ IndexInv /\ LaidInv
  BY <1>1 DEF TapeInv, IndexInv, StagingWithinImport, StagingLabels
<1>3. /\ TapeEnd(Sure) \in Nat /\ TapeEnd(Sure) <= lo /\ lo <= hi /\ lo \in Nat /\ hi \in Nat
      /\ acked \in Nat /\ sap.lo \in Nat /\ sap.hi \in Nat
  BY <1>1, <1>2, SureIsInMemory, SizesOfStore, StoredSegments DEF IndexInv
<1>4. CASE Mortal
  <2>1. Reported
    BY <1>4 DEF AckedInv
  <2>2. ~Pending /\ (SapOpen => sap.lo = TapeEnd(Sure))
    BY <1>1, <1>4 DEF TapeInv, SegmentInv, ReopeningRight, Recoverable, Opening, Pending, SealOpen
  <2>3. QED
    BY <1>1, <1>3, <2>1, <2>2 DEF Reported, SapOpen
<1>5. CASE ~Mortal
  <2>1. acked <= TapeEnd(Sure) /\ ~SapOpen
    BY <1>1, <1>5 DEF AckedInv, TapeInv, SegmentInv, NothingToReplay, Opening
  <2>2. QED
    BY <1>1, <1>3, <2>1 DEF SapOpen
<1>6. QED
  BY <1>1, <1>4, <1>5

\* A delivery that is rolled back goes no further back than what is sure.
LEMMA AbortHoldsAcked ==
    ASSUME DiesAsExpected, TapeInv, AckedInv, Abort
    PROVE  acked <= hi' /\ UNCHANGED acked
<1>1. pc = "staged" /\ hi' = TapeEnd(staged) /\ UNCHANGED acked
  BY DEF Abort, history
<1>2. staged # NotStaged /\ role = "import" /\ staged = Len(rings) /\ Len(rings) <= CompSize
  BY <1>1 DEF TapeInv, IndexInv, StagingWithinImport, StagingLabels, RingsFollowChunks
<1>3. ~Mortal
  BY <1>2, MortalIsWriter DEF TapeInv
<1>4. acked <= TapeEnd(Sure)
  BY <1>2, <1>3 DEF AckedInv
<1>5. IndexInv /\ LaidInv
  BY DEF TapeInv
<1>6. /\ Intact = Len(rings) /\ Sure \in Nat /\ Sure <= Intact /\ Intact \in Nat
      /\ Intact <= Len(trunk) /\ Len(trunk) \in Nat
  BY <1>2, <1>5, SizesOfStore, SureIs DEF LaidInv, Intact, Least
<1>7. Sure \in 0 .. Intact /\ staged \in 0 .. Intact /\ Sure <= staged
  BY <1>2, <1>6
<1>8. TapeEnd(Sure) <= TapeEnd(staged)
  BY <1>5, <1>7, TapeEndGrows
<1>9. TapeEnd(Sure) \in Nat /\ TapeEnd(staged) \in Nat /\ acked \in Nat
  <2>1. Sure \in 0 .. Len(trunk) /\ staged \in 0 .. Len(trunk)
    BY <1>6, <1>7
  <2>2. QED
    BY <1>5, <2>1, TapeEndIsNat, SizesOfStore DEF IndexInv
<1>10. QED
  BY <1>1, <1>4, <1>8, <1>9

LEMMA AtMostHi ==
    ASSUME DiesAsExpected, TapeInv, TapeInv', AckedInv, Next, pc' \notin Opening \cup {"down"}
    PROVE  acked' <= hi'
<1>1. hi \in Nat /\ lo \in Nat /\ lo <= hi /\ acked \in Nat /\ hi' \in Nat
  BY SizesOfStore, SizesNext DEF TapeInv
<1>2. CASE OpenLive
  BY <1>2, OpenedHoldsAcked
<1>3. CASE Abort
  BY <1>3, AbortHoldsAcked
<1>4. CASE pc \notin Opening \cup {"down"} /\ ~Abort
  <2>1. acked <= hi
    BY <1>4 DEF AckedInv
  <2>2. ~Open /\ ~Fail /\ ~Exit
    BY <1>4 DEF Open, OpenIndex, DiscardSeal, ReplaySeal, ReplayFrame, ReplayRecord,
       ReplaySync, ReplayUnlink, OpenLive, Opening, Fail, Crash, LosePower, Exit, Forget
  <2>3. acked' = hi' \/ (acked' = acked /\ hi' = hi) \/ (acked' = acked /\ hi' = hi + 1)
    <3>1. CASE Write \/ SetWal
      BY <3>1 DEF Write, AppendEntry, FlushAged, Sync, SyncFiles, SapFlush, SapSync,
         ApplyWalOn, StartWal, ApplyWalOff, SetWal, memory, history
    <3>2. CASE Flush
      BY <3>2 DEF Flush, FlushBegin, FlushFrame, FlushRecord, FlushHarden, FlushSwap, FlushUnlink,
         FrameFails, RecordFails, HardenFails, memory, history
    <3>3. CASE Import /\ ~Exit /\ ~Abort
      BY <3>3 DEF Import, Stage, Commit, CommitRecord, CommitSync, memory, history
    <3>4. CASE Reshape
      BY <3>4 DEF Reshape, DropHead, Rebase, RebaseFails, Adopt, AdoptFrame, AdoptRecord, AdoptSync,
         Reset, ResetSegment, memory, history
    <3>5. QED
      BY <1>4, <2>2, <3>1, <3>2, <3>3, <3>4 DEF Next
  <2>4. QED
    BY <1>1, <2>1, <2>3
<1>5. CASE pc \in Opening \cup {"down"} /\ ~OpenLive
  <2>1. CASE Open
    BY <1>5, <2>1 DEF Open, OpenIndex, DiscardSeal, ReplaySeal, ReplayFrame, ReplayRecord,
       ReplaySync, ReplayUnlink, OpenLive, Opening, Goto
  <2>2. CASE SetWal \/ Fail
    BY <1>5, <2>2 DEF SetWal, Fail, Crash, LosePower, Forget
  <2>3. CASE Write \/ Flush
    BY <1>5, <2>3 DEF Write, AppendEntry, FlushAged, Sync, SyncFiles, SapFlush, SapSync,
       ApplyWalOn, StartWal, ApplyWalOff, Flush, FlushBegin, FlushFrame, FlushRecord, FlushHarden,
       FlushSwap, FlushUnlink, FrameFails, RecordFails, HardenFails, Opening
  <2>4. CASE Import \/ Reshape
    BY <1>5, <2>4 DEF Import, Stage, Commit, CommitRecord, CommitSync, Abort, Exit, Reshape,
       DropHead, Rebase, RebaseFails, Adopt, AdoptFrame, AdoptRecord, AdoptSync, Reset,
       ResetSegment, Opening
  <2>5. QED
    BY <2>1, <2>2, <2>3, <2>4 DEF Next
<1>6. QED
  BY <1>2, <1>3, <1>4, <1>5


------------------------------------------------------------------------------
\* The segment stays declared ...
LEMMA DeclaredStep ==
    ASSUME DiesAsExpected, KeepsItsSegment, TapeInv, TapeInv', Mortal, SegmentIsDeclared, Next
    PROVE  SegmentIsDeclared'
<1>1. /\ IndexInv /\ wal \in BOOLEAN /\ declared \in BOOLEAN /\ sap \in Segment /\ seal \in Segment
      /\ staged = NotStaged /\ after \in Returns
      /\ SapOpen => wal \/ pc \in Opening \cup {"down"}
  <2>1. IndexInv /\ staged = NotStaged
    BY MortalIsWriter DEF TapeInv
  <2>2. SapOpen => wal \/ pc \in Opening \cup {"down"}
    BY DEF TapeInv, SegmentInv, WorkingRight
  <2>3. QED
    BY <2>1, <2>2 DEF IndexInv, TypeOK
<1>2. "wal_off" \notin env.operations
  BY <1>1 DEF KeepsItsSegment, Mortal, IndexInv, TypeOK
<1>3. Sealing <=> wal
  BY <1>1 DEF Sealing
<1>4. ASSUME declared, declared' = declared PROVE SegmentIsDeclared'
  BY <1>4 DEF SegmentIsDeclared
<1>5. ASSUME ~declared, declared' = declared, ~wal', ~SapOpen', pc' # "start_wal", after' # "start_wal"
      PROVE  SegmentIsDeclared'
  BY <1>5 DEF SegmentIsDeclared
<1>6. ~declared => ~wal /\ ~SapOpen /\ pc # "start_wal" /\ after # "start_wal"
  BY DEF SegmentIsDeclared
<1>7. ASSUME UNCHANGED <<wal, sap, declared>>, pc' # "start_wal", after' \in {after, pc, "none", "idle", "sync", "adopt", "publish"}
      PROVE  SegmentIsDeclared'
  BY <1>6, <1>7 DEF SegmentIsDeclared, SapOpen
<1>8. CASE SetWal
  <2>1. declared' /\ ~declared
    BY <1>1, <1>2, <1>8 DEF SetWal
  <2>2. QED
    BY <2>1 DEF SegmentIsDeclared
<1>9. CASE OpenLive
  <2>1. /\ declared' = declared /\ wal' = declared /\ (~declared => sap' = NoSegment)
        /\ pc' # "start_wal" /\ after' = after
    BY <1>9 DEF OpenLive, Opened
  <2>2. QED
    BY <1>4, <1>5, <1>6, <2>1 DEF SapOpen, NoSegment
<1>10. CASE Open /\ ~OpenLive
  BY <1>6, <1>7, <1>10 DEF Open, OpenIndex, DiscardSeal, ReplaySeal, ReplayFrame, ReplayRecord,
     ReplaySync, ReplayUnlink, Goto, disk, memory
<1>11. CASE Fail
  <2>1. /\ declared' = declared /\ wal' = FALSE /\ pc' = "down" /\ after' = "none"
    BY <1>11 DEF Fail, Crash, LosePower, Forget, disk
  <2>2. SapOpen' => SapOpen
    <3>1. CASE Crash
      BY <3>1 DEF Crash, disk, SapOpen
    <3>2. CASE LosePower
      <4>1. PICK h \in sap.syn .. sap.hi : sap' = [sap EXCEPT !.hi = h, !.syn = h]
        BY <3>2 DEF LosePower
      <4>2. h <= sap.hi /\ h \in Int /\ sap'.lo = sap.lo /\ sap'.hi = h
        BY <1>1, <4>1 DEF Segment
      <4>3. QED
        BY <1>1, <4>2 DEF SapOpen, Segment
    <3>3. QED
      BY <1>11, <3>1, <3>2 DEF Fail
  <2>3. QED
    BY <1>4, <1>5, <1>6, <2>1, <2>2
<1>12. CASE Write
  <2>1. CASE AppendEntry
    <3>1. declared' = declared /\ wal' = wal /\ (~wal => sap' = sap)
      BY <1>1, <1>3, <2>1 DEF AppendEntry
    <3>2. pc' # "start_wal"
      BY <2>1 DEF AppendEntry
    <3>3. after' \in {after, pc}
      BY <2>1 DEF AppendEntry
    <3>4. QED
      BY <1>4, <1>5, <1>6, <3>1, <3>2, <3>3 DEF SapOpen
  <2>2. CASE FlushAged \/ Sync \/ SyncFiles
    BY <1>7, <2>2 DEF FlushAged, Sync, SyncFiles, CallFlush, disk, memory
  <2>3. CASE SapFlush \/ SapSync \/ StartWal \/ ApplyWalOn
    <3>1. declared
      BY <1>6, <2>3 DEF SapFlush, SapSync, StartWal, ApplyWalOn
    <3>2. declared' = declared
      BY <2>3 DEF SapFlush, SapSync, StartWal, ApplyWalOn, disk
    <3>3. QED
      BY <1>4, <3>1, <3>2
  <2>4. ~ApplyWalOff
    BY <1>6 DEF ApplyWalOff
  <2>5. QED
    BY <1>12, <2>1, <2>2, <2>3, <2>4 DEF Write
<1>13. CASE Flush
  <2>1. declared' = declared
    BY <1>13 DEF Flush, FlushBegin, FlushFrame, FlushRecord, FlushHarden, FlushSwap, FlushUnlink,
       FrameFails, RecordFails, HardenFails, disk
  <2>2. CASE ~declared
    <3>1. ~wal /\ ~SapOpen /\ pc # "start_wal" /\ after # "start_wal" /\ ~Sealing
      BY <1>3, <1>6, <2>2
    <3>2. pc' # "start_wal" /\ after' # "start_wal"
      BY <1>13, <3>1 DEF Flush, FlushBegin, FlushFrame, FlushRecord, FlushHarden, FlushSwap,
         FlushUnlink, FrameFails, RecordFails, HardenFails, Unseal, Goto
    <3>3. pc # "swap"
      <4>1. pc = "swap" => wal
        BY DEF TapeInv, SegmentInv, WorkingRight, NoSealOutsideFlush, Opening
      <4>2. QED
        BY <3>1, <4>1
    <3>4. wal' = wal /\ sap' = sap
      BY <1>13, <3>1, <3>3 DEF Flush, FlushBegin, FlushFrame, FlushRecord, FlushHarden, FlushSwap,
         FlushUnlink, FrameFails, RecordFails, HardenFails, Unseal, memory
    <3>5. QED
      BY <1>5, <2>1, <2>2, <3>1, <3>2, <3>4 DEF SapOpen
  <2>3. QED
    BY <1>4, <2>1, <2>2
<1>14. CASE Reshape
  <2>1. declared' = declared
    BY <1>14 DEF Reshape, DropHead, Rebase, RebaseFails, Adopt, AdoptFrame, AdoptRecord, AdoptSync,
       Reset, ResetSegment, disk
  <2>2. CASE ~declared
    <3>1. ~wal /\ ~SapOpen /\ pc # "start_wal" /\ after # "start_wal"
      BY <1>6, <2>2
    <3>2. pc' # "start_wal" /\ after' # "start_wal"
      BY <1>14, <3>1 DEF Reshape, DropHead, Rebase, RebaseFails, RebaseNext, Adopt, AdoptFrame,
         AdoptRecord, AdoptSync, Reset, ResetSegment, CallFlush, Goto
    <3>3. pc \notin {"rebase", "reset"}
      <4>1. pc \in {"rebase", "reset"} => wal
        BY DEF TapeInv, SegmentInv, WorkingRight, NoSealOutsideFlush, Opening, Flushing
      <4>2. QED
        BY <3>1, <4>1
    <3>4. wal' = wal /\ sap' = sap
      BY <1>14, <3>3 DEF Reshape, DropHead, Rebase, RebaseFails, Adopt, AdoptFrame,
         AdoptRecord, AdoptSync, Reset, ResetSegment, disk, memory
    <3>5. QED
      BY <1>5, <2>1, <2>2, <3>1, <3>2, <3>4 DEF SapOpen
  <2>3. QED
    BY <1>4, <2>1, <2>2
<1>15. ~Import
  <2>1. pc \notin {"stage", "staged", "publish", "exit"}
    BY MortalIsWriter DEF TapeInv
  <2>2. QED
    BY <2>1 DEF Import, Stage, Commit, CommitRecord, CommitSync, Abort, Exit
<1>16. QED
  BY <1>8, <1>9, <1>10, <1>11, <1>12, <1>13, <1>14, <1>15 DEF Next

\* ... and a seal fsynced.
LEMMA SealSyncedStep ==
    ASSUME DiesAsExpected, TapeInv, TapeInv', Mortal, SealIsSynced, Next
    PROVE  SealIsSynced'
<1>1. ASSUME wal', pc' \in {"frame", "record"} PROVE seal'.syn = hi'
  <2>1. CASE FlushBegin
    <3>1. pc = "flush" /\ wal /\ staged = NotStaged /\ hi' = hi
      BY <1>1, <2>1, MortalIsWriter DEF FlushBegin, memory, TapeInv
    <3>2. walHi = hi
      BY <3>1 DEF TapeInv, SegmentInv, WorkingRight, Opening
    <3>3. seal' = [sap EXCEPT !.hi = walHi, !.syn = walHi] /\ sap \in Segment
      BY <2>1, <3>1 DEF FlushBegin, Sealing, TapeInv, IndexInv, TypeOK
    <3>4. QED
      BY <3>1, <3>2, <3>3 DEF Segment
  <2>2. CASE FlushFrame \/ SetWal
    BY <1>1, <2>2 DEF FlushFrame, SetWal, SealIsSynced, memory
  <2>3. ~Open /\ ~Fail /\ ~Exit
    BY <1>1 DEF Open, OpenIndex, DiscardSeal, ReplaySeal, ReplayFrame, ReplayRecord,
       ReplaySync, ReplayUnlink, OpenLive, Opened, Goto, Fail, Crash, LosePower, Exit, Forget
  <2>4. CASE Write
    BY <1>1, <2>4 DEF Write, AppendEntry, FlushAged, Sync, SyncFiles, SapFlush, SapSync,
       ApplyWalOn, StartWal, ApplyWalOff, CallFlush, Goto
  <2>5. CASE Flush /\ ~FlushBegin /\ ~FlushFrame
    BY <1>1, <2>5 DEF Flush, FlushRecord, FlushHarden, FlushSwap, FlushUnlink, FrameFails,
       RecordFails, HardenFails, Unseal, Goto, TapeInv, IndexInv, TypeOK, Returns
  <2>6. CASE Import \/ Reshape
    BY <1>1, <2>3, <2>6 DEF Import, Stage, Commit, CommitRecord, CommitSync, Abort, Reshape,
       DropHead, Rebase, RebaseFails, RebaseNext, Adopt, AdoptFrame, AdoptRecord, AdoptSync, Reset,
       ResetSegment, CallFlush, Goto
  <2>7. QED
    BY <2>1, <2>2, <2>3, <2>4, <2>5, <2>6 DEF Next
<1>2. ASSUME pc' = "replay_unlink" PROVE ~Pending'
  <2>1. CASE ReplaySync
    <3>1. pc = "replay_sync" /\ SyncPair /\ UNCHANGED <<trunk, rings, env, seal>>
      BY <2>1 DEF ReplaySync
    <3>2. IndexInv /\ LaidInv /\ Len(rings) = CompSize + 1 /\ CompSize + 1 <= Len(trunk)
          /\ CompSize \in Nat /\ Len(trunk) \in Nat
      <4>1. IndexInv /\ LaidInv
        BY DEF TapeInv
      <4>2. QED
        BY SMTT(60), <3>1, <4>1, SizesOfStore DEF IndexInv, RingsFollowChunks, IndexWithinTrunk
    <3>3. Sure' = CompSize + 1
      <4>1. Intact = CompSize + 1
        BY <3>2 DEF Intact, Least
      <4>2. QED
        BY <3>1, <3>2, <4>1, SyncGrowsSure
    <3>4. seal.base = CompSize
      BY <3>1 DEF TapeInv, SegmentInv, ReopeningRight, Opening
    <3>5. QED
      BY <3>1, <3>2, <3>3, <3>4 DEF Pending
  <2>2. CASE SetWal
    <3>1. pc = "replay_unlink" /\ Sure' = Sure /\ UNCHANGED seal
      BY <1>2, <2>2, SureKept DEF SetWal, history
    <3>2. QED
      BY <3>1 DEF SealIsSynced, Pending, SealOpen
  <2>3. CASE Open /\ ~ReplaySync
    BY <1>2, <2>3 DEF Open, OpenIndex, DiscardSeal, ReplaySeal, ReplayFrame, ReplayRecord,
       ReplayUnlink, OpenLive, Opened, Goto
  <2>4. CASE Write \/ Flush
    BY <1>2, <2>4 DEF Write, AppendEntry, FlushAged, Sync, SyncFiles, SapFlush, SapSync,
       ApplyWalOn, StartWal, ApplyWalOff, CallFlush, Goto, Flush, FlushBegin, FlushFrame, FlushRecord,
       FlushHarden, FlushSwap, FlushUnlink, FrameFails, RecordFails, HardenFails, Unseal,
       TapeInv, IndexInv, TypeOK, Returns
  <2>5. CASE Import \/ Reshape \/ Fail
    BY <1>2, <2>5 DEF Import, Stage, Commit, CommitRecord, CommitSync, Abort, Exit, Reshape,
       DropHead, Rebase, RebaseFails, RebaseNext, Adopt, AdoptFrame, AdoptRecord, AdoptSync, Reset,
       ResetSegment, CallFlush, Goto, Fail, Crash, LosePower, Forget
  <2>6. QED
    BY <2>1, <2>2, <2>3, <2>4, <2>5 DEF Next
<1>3. QED
  BY <1>1, <1>2 DEF SealIsSynced

------------------------------------------------------------------------------
\* Every step keeps what was reported, ...
LEMMA AckedInvStep ==
    ASSUME DiesAsExpected, KeepsItsSegment, TapeInv, TapeInv', AckedInv, Next
    PROVE  AckedInv'
<1>1. pc' \notin Opening \cup {"down"} => acked' <= hi'
  BY AtMostHi
<1>2. pc \notin Opening \cup {"down"} => acked <= hi
  BY DEF AckedInv
<1>3. Mortal' = Mortal
  BY EnvKept
<1>4. CASE Mortal
  <2>1. Reported /\ SegmentIsDeclared /\ SealIsSynced
    BY <1>4 DEF AckedInv
  <2>2. Reported'
    <3>1. CASE SapSync
      BY <1>4, <3>1, SapSyncReports
    <3>2. CASE ~SapSync /\ acked <= TapeEnd(Sure)
      <4>1. acked' <= TapeEnd(Sure)'
        BY <1>2, <3>2, SureStep
      <4>2. QED
        BY <4>1 DEF Reported
    <3>3. CASE Pending /\ acked <= seal.hi
      BY <1>4, <2>1, <3>3, PendingStep
    <3>4. CASE ~SapSync /\ SapOpen /\ acked <= sap.hi /\ (PowerFails => acked <= sap.syn)
      BY <1>2, <1>4, <2>1, <3>4, SegmentStep
    <3>5. QED
      BY <2>1, <3>1, <3>2, <3>3, <3>4 DEF Reported
  <2>3. SegmentIsDeclared'
    BY <1>4, <2>1, DeclaredStep
  <2>4. SealIsSynced'
    BY <1>4, <2>1, SealSyncedStep
  <2>5. QED
    BY <1>1, <1>3, <1>4, <2>2, <2>3, <2>4 DEF AckedInv
<1>5. CASE ~Mortal
  <2> SUFFICES ASSUME role' # "writer" \/ pc' \in Opening PROVE acked' <= TapeEnd(Sure)'
    BY <1>1, <1>3, <1>5 DEF AckedInv
  <2>1. /\ IndexInv /\ RolesKept
        /\ pc = "down" <=> role = "none"
        /\ role \in env.roles \cup {"none"}
        /\ pc = "exit" => role = "import"
        /\ env.crashes # {} => "writer" \notin env.roles
    BY <1>5, EnvironmentIs DEF TapeInv, RolesKept, IndexInv
  <2>2. role # "writer" \/ pc \in Opening
    <3> SUFFICES ASSUME role = "writer", pc \notin Opening PROVE FALSE
      OBVIOUS
    <3>1. pc # "down" /\ env.crashes = {}
      BY <2>1
    <3>2. pc' # "down"
      <4>1. ~Fail /\ ~Exit
        BY <2>1, <3>1 DEF Fail, Crash, LosePower, Exit
      <4>2. SetWal => pc' = pc
        BY DEF SetWal
      <4>3. QED
        BY <2>1, <3>1, <4>1, <4>2, LeftByDeath
    <3>3. pc' \notin Opening /\ role' = role
      BY <2>1, <3>1, <3>2, WorkStays
    <3>4. QED
      BY <3>3
  <2>3. acked <= TapeEnd(Sure)
    BY <1>5, <2>2 DEF AckedInv
  <2>4. ~SapSync
    <3>1. pc = "idle" => role \notin {"none", "import"}
      BY <2>1, ImportLabels
    <3>2. pc = "idle" => role = "writer"
      BY <2>1, <3>1 DEF IndexInv, TypeOK, Programs
    <3>3. QED
      BY <2>2, <3>2 DEF SapSync, Opening
  <2>5. QED
    BY <1>2, <2>3, <2>4, SureStep
<1>6. QED
  BY <1>4, <1>5

\* ... from an empty store on.
LEMMA AckedInvInitially ==
    ASSUME Init
    PROVE  AckedInv
<1>1. /\ acked = 0 /\ head = 0 /\ pc = "down" /\ after = "none" /\ ~wal /\ role = "none"
      /\ Len(trunk) = 0 /\ Len(rings) = 0 /\ trunkSynced = 0 /\ ringsSynced = 0
      /\ sap = NoSegment
  BY EmptySeq DEF Init
<1>2. Sure = 0 /\ ~SapOpen
  BY <1>1 DEF Sure, Intact, Least, SapOpen, NoSegment
<1>3. acked <= TapeEnd(Sure)
  BY <1>1, <1>2 DEF TapeEnd
<1>4. QED
  BY <1>1, <1>2, <1>3 DEF AckedInv, Reported, SegmentIsDeclared, SealIsSynced

LEMMA AckedInvInductive ==
    ASSUME DiesAsExpected, KeepsItsSegment
    PROVE  Spec => []AckedInv
<1>1. Init => AckedInv
  BY AckedInvInitially
<1>2. TapeInv /\ TapeInv' /\ AckedInv /\ [Next]_vars => AckedInv'
  <2>1. ASSUME TapeInv, TapeInv', AckedInv, Next PROVE AckedInv'
    BY <2>1, AckedInvStep
  <2>2. ASSUME AckedInv, UNCHANGED vars PROVE AckedInv'
    <3>1. /\ UNCHANGED <<trunk, trunkSynced, rings, ringsSynced, sap, seal, declared, pc, after>>
          /\ UNCHANGED <<role, hi, wal, env, head, acked>>
      BY <2>2 DEF vars, disk, memory, history
    <3>2. Sure' = Sure /\ Mortal' = Mortal /\ PowerFails' = PowerFails
          /\ (SapOpen' <=> SapOpen) /\ (Pending' <=> Pending) /\ TapeEnd(Sure)' = TapeEnd(Sure)
      BY <3>1, SureKept DEF Mortal, PowerFails, SapOpen, Pending, SealOpen, TapeEnd
    <3>3. QED
      BY <2>2, <3>1, <3>2 DEF AckedInv, Reported, SegmentIsDeclared, SealIsSynced
  <2>3. QED
    BY <2>1, <2>2
<1>3. QED
  BY <1>1, <1>2, TapeInvInductive, PTL DEF Spec

\* Whatever was reported durable is in the store when it is open again, after any
\* number of deaths and failed writes, in every environment the code recovers from.
THEOREM ReportedSurvives ==
    ASSUME DiesAsExpected, KeepsItsSegment
    PROVE  Spec => []AckedSurvives
<1>1. AckedInv => AckedSurvives
  BY DEF AckedInv, AckedSurvives, Opening
<1>2. QED
  BY <1>1, AckedInvInductive, PTL


------------------------------------------------------------------------------
\* The tape of module Tape.  Runs of entries that follow one another are one run ...
LEMMA RunsJoin ==
    ASSUME NEW a \in Nat, NEW b \in Nat, NEW c \in Nat, a <= b, b <= c
    PROVE  Run(a, b) \cup Run(b, c) = Run(a, c)
<1>1. ASSUME NEW p PROVE p \in Run(a, b) \cup Run(b, c) <=> p \in Run(a, c)
  <2>1. p \in Run(a, b) <=> p \in Int /\ a <= p /\ p < b
    BY DEF Run
  <2>2. p \in Run(b, c) <=> p \in Int /\ b <= p /\ p < c
    BY DEF Run
  <2>3. p \in Run(a, c) <=> p \in Int /\ a <= p /\ p < c
    BY DEF Run
  <2>4. QED
    BY <2>1, <2>2, <2>3
<1>2. QED
  BY <1>1

LEMMA RunIsIn ==
    ASSUME NEW a \in Nat, NEW b \in Nat, NEW p
    PROVE  p \in Run(a, b) <=> p \in Int /\ a <= p /\ p < b
BY DEF Run

\* ... and so are the frames of a tape that is laid.
LEMMA FramesAreRun ==
    ASSUME IndexInv, NEW recs \in Seq(ChunkRecord), NEW n \in 0 .. Len(recs), n <= Len(trunk),
           Laid(trunk, head, recs, n), InOrder(recs)
    PROVE  FramesHeld(n) = Run(head, TapeEnd(n)) /\ TapeEnd(n) \in Nat /\ head <= TapeEnd(n)
<1>1. /\ n \in Nat /\ Len(recs) \in Nat /\ Len(trunk) \in Nat /\ head \in Nat
      /\ \A i \in 1 .. n : trunk[i].lo \in Nat /\ trunk[i].hi \in Nat
  BY SizesOfStore, LenProperties
<1>2. TapeEnd(n) \in Nat
  <2>1. n # 0 => n \in 1 .. n
    BY <1>1
  <2>2. QED
    BY <1>1, <2>1 DEF TapeEnd
<1>3. ASSUME NEW i \in 1 .. n
      PROVE  head <= trunk[i].lo /\ trunk[i].hi <= TapeEnd(n)
  <2>1. i - 1 \in 0 .. n /\ i \in 0 .. n /\ n \in 0 .. n /\ 0 \in 0 .. n /\ 0 <= i - 1 /\ i <= n
    BY <1>1
  <2>2. trunk[i].hi <= TapeEnd(n)
    BY SMTT(60), <1>1, <2>1, LaidGrows DEF TapeEnd
  <2>3. head <= (IF i - 1 = 0 THEN head ELSE trunk[i - 1].hi)
    BY <1>1, <2>1, LaidGrows
  <2>4. trunk[i].lo = (IF i - 1 = 0 THEN head ELSE trunk[i - 1].hi)
    BY DEF Laid
  <2>5. QED
    BY <2>2, <2>3, <2>4
<1>4. ASSUME NEW p \in FramesHeld(n) PROVE p \in Run(head, TapeEnd(n))
  <2>1. PICK i \in 1 .. n : p \in Run(trunk[i].lo, trunk[i].hi)
    BY DEF FramesHeld
  <2>2. p \in Int /\ trunk[i].lo <= p /\ p < trunk[i].hi
    BY <1>1, <2>1, RunIsIn
  <2>3. p \in Int /\ head <= p /\ p < TapeEnd(n)
    BY <1>1, <1>2, <1>3, <2>2
  <2>4. QED
    BY <1>1, <1>2, <2>3, RunIsIn
<1>5. ASSUME NEW p \in Run(head, TapeEnd(n)) PROVE p \in FramesHeld(n)
  <2>1. p \in Int /\ head <= p /\ p < TapeEnd(n)
    BY <1>1, <1>2, RunIsIn
  <2> DEFINE Past == {i \in 1 .. n : p < trunk[i].hi}
  <2>2. Past \subseteq Nat /\ Past # {}
    <3>1. n # 0
      BY <1>1, <2>1 DEF TapeEnd
    <3>2. n \in 1 .. n /\ p < trunk[n].hi
      BY <1>1, <2>1, <3>1 DEF TapeEnd
    <3>3. n \in Past
      BY <3>2
    <3>4. QED
      BY <3>3
  <2>3. PICK i \in Past : \A j \in Past : i <= j
    BY <2>2, LeastNumber
  <2>4. i \in 1 .. n /\ p < trunk[i].hi
    BY <2>3
  <2>5. trunk[i].lo <= p
    <3>1. CASE i = 1
      BY <2>1, <2>4, <3>1 DEF Laid
    <3>2. CASE i # 1
      <4>1. i - 1 \in 1 .. n /\ ~(i <= i - 1)
        BY <2>4, <3>2
      <4>2. ~(p < trunk[i - 1].hi)
        BY <2>3, <4>1
      <4>3. trunk[i - 1].hi <= p
        BY <1>1, <2>1, <4>1, <4>2
      <4>4. QED
        BY <2>4, <3>2, <4>3 DEF Laid
    <3>3. QED
      BY <3>1, <3>2
  <2>6. p \in Run(trunk[i].lo, trunk[i].hi)
    BY <1>1, <2>1, <2>4, <2>5, RunIsIn
  <2>7. QED
    BY <2>4, <2>6 DEF FramesHeld
<1>6. head <= TapeEnd(n)
  <2>1. n \in 0 .. n /\ 0 \in 0 .. n /\ 0 <= n
    BY <1>1
  <2>2. QED
    BY <1>1, <2>1, LaidGrows DEF TapeEnd
<1>7. QED
  BY <1>2, <1>4, <1>5, <1>6

------------------------------------------------------------------------------
\* What the steps of a reset, an adoption and a replay leave for the next one.
WindowsInv ==
    /\ pc = "reset" => head <= hi /\ (Mortal => sap.hi <= hi)
    /\ pc \in {"adopt", "adopt_record"} \/ (pc \in Flushing /\ after = "adopt") => hi < MaxTape
    /\ ~Mortal => pc \notin {"replay_frame", "replay_record", "replay_sync", "replay_unlink"}

\* The tape a store holds, in memory and on the disk, is one run that ends where the
\* next entry goes, behind what was reported and before what a death can bring back.
RunInv ==
    /\ Content = Run(head, End)
    /\ End \in Nat /\ head \in Nat /\ acked \in Nat
    /\ head <= End /\ acked <= End
    /\ TapeEnd(Intact) \in Nat /\ TapeEnd(Intact) <= End
    /\ Mortal /\ SapOpen => sap.hi <= End
    /\ Mortal /\ Pending => seal.hi <= End


LEMMA WindowsStep ==
    ASSUME DiesAsExpected, TapeInv, TapeInv', RunInv, WindowsInv, Next
    PROVE  WindowsInv'
<1>1. /\ IndexInv /\ LaidInv /\ Mortal' = Mortal
      /\ CompSize \in Nat /\ lo \in Nat /\ hi \in Nat /\ lo <= hi /\ head \in Nat
  BY EnvKept, SizesOfStore DEF TapeInv
<1>2. ASSUME pc' = "reset" PROVE head' <= hi' /\ (Mortal => sap'.hi <= hi')
  <2>1. CASE Reset
    <3>1. /\ pc = "idle" /\ wal /\ head' = lo /\ hi' = hi /\ sap' = sap
      BY <1>2, <2>1 DEF Reset
    <3>2. ASSUME Mortal PROVE sap.hi <= hi
      BY <3>1, <3>2 DEF TapeInv, SegmentInv, WorkingRight, SegmentIsBuffer, Opening
    <3>3. QED
      BY <1>1, <3>1, <3>2
  <2>2. CASE SetWal
    BY <1>2, <2>2 DEF SetWal, memory, history, WindowsInv
  <2>3. CASE Open \/ Write
    BY <1>2, <2>3 DEF Open, OpenIndex, DiscardSeal, ReplaySeal, ReplayFrame, ReplayRecord,
       ReplaySync, ReplayUnlink, OpenLive, Opened, Goto, Write, AppendEntry, FlushAged, Sync,
       SyncFiles, SapFlush, SapSync, ApplyWalOn, StartWal, ApplyWalOff, CallFlush
  <2>4. CASE Flush
    BY <1>1, <1>2, <2>4 DEF Flush, FlushBegin, FlushFrame, FlushRecord,
       FlushHarden, FlushSwap, FlushUnlink, FrameFails, RecordFails, HardenFails, Unseal, Goto,
       IndexInv, TypeOK, Returns
  <2>5. CASE Import \/ (Reshape /\ ~Reset) \/ Fail
    BY <1>2, <2>5 DEF Import, Stage, Commit, CommitRecord, CommitSync, Abort, Exit, Reshape,
       DropHead, Rebase, RebaseFails, RebaseNext, Adopt, AdoptFrame, AdoptRecord, AdoptSync,
       ResetSegment, CallFlush, Goto, Fail, Crash, LosePower, Forget
  <2>6. QED
    BY <2>1, <2>2, <2>3, <2>4, <2>5 DEF Next
<1>3. ASSUME pc' \in {"adopt", "adopt_record"} \/ (pc' \in Flushing /\ after' = "adopt")
      PROVE  hi' < MaxTape
  <2> DEFINE Adopting == pc \in {"adopt", "adopt_record"} \/ (pc \in Flushing /\ after = "adopt")
  <2>1. ASSUME Adopting, hi' = hi PROVE hi' < MaxTape
    BY <2>1 DEF WindowsInv
  <2>2. CASE Adopt
    BY <2>2 DEF Adopt, memory
  <2>3. CASE AdoptFrame \/ SetWal
    BY <1>3, <2>1, <2>3 DEF AdoptFrame, SetWal, Goto, memory
  <2>4. CASE Flush
    <3>1. hi' = hi /\ pc \in Flushing
      BY <2>4 DEF Flush, FlushBegin, FlushFrame, FlushRecord, FlushHarden, FlushSwap, FlushUnlink,
         FrameFails, RecordFails, HardenFails, Flushing, memory
    <3>2. after = "adopt"
      BY <1>1, <1>3, <2>4 DEF Flush, FlushBegin, FlushFrame, FlushRecord, FlushHarden, FlushSwap,
         FlushUnlink, FrameFails, RecordFails, HardenFails, Unseal, Goto, Flushing,
         IndexInv, TypeOK, Returns
    <3>3. QED
      BY <2>1, <3>1, <3>2
  <2>5. CASE Write
    BY <1>3, <2>5 DEF Write, AppendEntry, FlushAged, Sync, SyncFiles, SapFlush, SapSync,
       ApplyWalOn, StartWal, ApplyWalOff, CallFlush, Goto, Flushing
  <2>6. CASE Open
    BY <1>3, <2>6 DEF Open, OpenIndex, DiscardSeal, ReplaySeal, ReplayFrame, ReplayRecord,
       ReplaySync, ReplayUnlink, OpenLive, Opened, Goto, Flushing
  <2>7. CASE Import \/ (Reshape /\ ~Adopt /\ ~AdoptFrame) \/ Fail
    BY <1>3, <2>7 DEF Import, Stage, Commit, CommitRecord, CommitSync, Abort, Exit, Reshape,
       DropHead, Rebase, RebaseFails, RebaseNext, AdoptRecord, AdoptSync, Reset,
       ResetSegment, CallFlush, Goto, Fail, Crash, LosePower, Forget, Flushing
  <2>8. QED
    BY <2>2, <2>3, <2>4, <2>5, <2>6, <2>7 DEF Next
<1>4. ASSUME ~Mortal, pc' \in {"replay_frame", "replay_record", "replay_sync", "replay_unlink"}
      PROVE  FALSE
  <2>1. pc \notin {"replay_frame", "replay_record", "replay_sync", "replay_unlink"}
    BY <1>4 DEF WindowsInv
  <2>2. ~ReplaySeal
    <3>1. pc = "open_seal" => ~seal.there
      BY <1>4 DEF TapeInv, SegmentInv, NothingToReplay, Opening
    <3>2. QED
      BY <3>1 DEF ReplaySeal
  <2>3. CASE Open \/ Write \/ SetWal
    BY <1>4, <2>1, <2>2, <2>3 DEF Open, OpenIndex, DiscardSeal, ReplayFrame, ReplayRecord,
       ReplaySync, ReplayUnlink, OpenLive, Opened, Goto, Write, AppendEntry, FlushAged, Sync,
       SyncFiles, SapFlush, SapSync, ApplyWalOn, StartWal, ApplyWalOff, CallFlush, SetWal
  <2>4. CASE Flush
    BY <1>1, <1>4, <2>4 DEF Flush, FlushBegin, FlushFrame, FlushRecord,
       FlushHarden, FlushSwap, FlushUnlink, FrameFails, RecordFails, HardenFails, Unseal, Goto,
       IndexInv, TypeOK, Returns
  <2>5. CASE Import \/ Reshape \/ Fail
    BY <1>4, <2>1, <2>5 DEF Import, Stage, Commit, CommitRecord, CommitSync, Abort, Exit, Reshape,
       DropHead, Rebase, RebaseFails, RebaseNext, Adopt, AdoptFrame, AdoptRecord, AdoptSync, Reset,
       ResetSegment, CallFlush, Goto, Fail, Crash, LosePower, Forget
  <2>6. QED
    BY <2>3, <2>4, <2>5 DEF Next
<1>5. QED
  BY <1>1, <1>2, <1>3, <1>4 DEF WindowsInv

------------------------------------------------------------------------------
\* The tape of an open store: its chunks, and its buffer behind them.
LEMMA RunAtWork ==
    ASSUME DiesAsExpected, TapeInv, AckedInv, WindowsInv, pc \notin Opening \cup {"down"}
    PROVE  RunInv /\ End = hi
<1>1. /\ IndexInv /\ LaidInv /\ InMemory /\ ~Reopening
      /\ CompSize \in Nat /\ CompSize <= Len(trunk) /\ Len(trunk) \in Nat /\ Len(rings) \in Nat
      /\ lo \in Nat /\ hi \in Nat /\ lo <= hi /\ head \in Nat /\ acked \in Nat
      /\ Intact \in Nat /\ Intact <= Len(rings) /\ Intact <= Len(trunk)
      /\ chunks \in Seq(ChunkRecord) /\ InOrder(chunks)
  BY SizesOfStore DEF TapeInv, LaidInv, IndexInv, Reopening, Opening
<1>2. Intact <= CompSize
  <2>1. Len(rings) <= CompSize
    BY <1>1 DEF IndexInv, RingsFollowChunks, CompSize, Opening
  <2>2. QED
    BY <1>1, <2>1
<1>3. TapeEnd(Intact) \in Nat
  BY <1>1, TapeEndIsNat DEF IndexInv
<1>4. End = hi /\ Content = FramesHeld(CompSize) \cup Buffered
  BY <1>1 DEF End, Content
<1>5. acked <= hi
  BY DEF AckedInv
<1>6. Content = Run(head, hi) /\ head <= hi /\ TapeEnd(Intact) <= hi
  <2>1. CASE pc # "reset"
    <3>1. CompSize \in 0 .. Len(chunks) /\ Laid(trunk, head, chunks, CompSize) /\ lo = TapeEnd(CompSize)
      BY <1>1, <2>1 DEF InMemory, CompSize
    <3>2. FramesHeld(CompSize) = Run(head, lo) /\ head <= lo
      BY <1>1, <3>1, FramesAreRun
    <3>3. Run(head, lo) \cup Run(lo, hi) = Run(head, hi)
      BY <1>1, <3>2, RunsJoin
    <3>4. TapeEnd(Intact) <= lo
      <4>1. Intact \in 0 .. CompSize /\ CompSize \in 0 .. CompSize
        BY <1>1, <1>2
      <4>2. \A i \in 1 .. CompSize : trunk[i].lo \in Nat /\ trunk[i].hi \in Nat
        BY <1>1, SizesOfStore
      <4>3. QED
        BY <1>1, <1>2, <3>1, <4>1, <4>2, LaidGrows DEF TapeEnd
    <3>5. QED
      BY <1>1, <1>3, <1>4, <2>1, <3>2, <3>3, <3>4 DEF Buffered
  <2>2. CASE pc = "reset"
    <3>1. CompSize = 0 /\ head <= hi
      BY <1>1, <2>2, EmptySeq DEF InMemory, CompSize, WindowsInv
    <3>2. Intact = 0 /\ FramesHeld(0) = {}
      BY <1>1, <1>2, <3>1 DEF FramesHeld
    <3>3. QED
      BY <1>1, <1>4, <2>2, <3>1, <3>2 DEF Buffered, TapeEnd
  <2>3. QED
    BY <2>1, <2>2
<1>7. ASSUME Mortal, SapOpen PROVE sap.hi <= hi
  <2>1. /\ pc \in {"idle", "flush", "sync", "adopt", "rebase", "reset"}
        /\ pc # "reset" => sap.hi <= hi
    BY <1>7, SegmentWhere DEF Opening
  <2>2. QED
    BY <1>7, <2>1 DEF WindowsInv
<1>8. ASSUME Mortal, Pending PROVE seal.hi <= hi
  <2>1. SealIsSynced
    BY <1>8 DEF AckedInv
  <2>2. pc \in {"frame", "record", "harden"}
    BY <1>8, <2>1, PendingWhere DEF Opening
  <2>3. pc \in {"frame", "record"} => seal.hi = hi
    BY <1>8, <2>1, PendingWhere
  <2>4. pc = "harden" => seal.hi = lo
    <3>1. pc = "harden" => seal.hi = TapeEnd(CompSize)
      BY <1>8, <2>1, PendingWhere
    <3>2. QED
      BY <1>1, <3>1 DEF InMemory
  <2>5. QED
    BY <1>1, <2>2, <2>3, <2>4
<1>9. QED
  BY <1>1, <1>3, <1>4, <1>5, <1>6, <1>7, <1>8 DEF RunInv

\* The tape of a store that is down or reopens: its chunks on the disk, and behind
\* them the seal that will be replayed or the segment that will be the buffer.
HeldSeal == Held(seal, seal.base >= Intact)
HeldSap == Held(sap, TRUE)

LEMMA HeldFits ==
    ASSUME DiesAsExpected, TapeInv, AckedInv, WindowsInv, pc \in Opening \cup {"down"}
    PROVE  /\ HeldSeal => seal.lo = TapeEnd(Intact) /\ seal.lo < seal.hi /\ ~HeldSap
           /\ HeldSap => sap.lo = TapeEnd(Intact) /\ sap.lo < sap.hi
           /\ Mortal /\ SapOpen => HeldSap
           /\ Mortal /\ Pending => HeldSeal \/ (seal.hi = TapeEnd(Intact) /\ ~HeldSeal /\ ~HeldSap)
<1>1. IndexInv /\ LaidInv /\ RolesKept
  BY DEF TapeInv
<1>2. CASE ~Mortal
  <2>1. ~seal.there /\ ~SapOpen
    BY <1>1, <1>2 DEF TapeInv, SegmentInv, NothingToReplay, RolesKept
  <2>2. QED
    BY <1>2, <2>1 DEF HeldSeal, HeldSap, Held, SapOpen
<1>3. CASE Mortal
  <2>1. ReopeningRight /\ Recoverable /\ SealIsSynced
    BY <1>3 DEF TapeInv, SegmentInv, ReopeningRight, AckedInv
  <2>2. HeldSap <=> SapOpen
    BY <2>1 DEF Recoverable, HeldSap, Held, SapOpen
  <2>3. CASE Sure = Intact
    <3>1. HeldSeal <=> Pending
      BY <2>3 DEF HeldSeal, Held, Pending, SealOpen
    <3>2. QED
      BY <2>1, <2>2, <2>3, <3>1 DEF Recoverable, Pending, SealOpen, SapOpen
  <2>4. CASE Sure # Intact
    <3>1. /\ pc \in {"replay_record", "replay_sync"} /\ seal.base = CompSize /\ seal.hi = hi /\ ~SapOpen
          /\ CompSize <= Sure
      BY <2>1, <2>4 DEF ReopeningRight, Opening
    <3>2. pc = "replay_sync"
      <4>1. pc = "replay_record" => Intact = CompSize
        BY <1>1, <1>3, MortalIsWriter, IntactIsIndex
      <4>2. Sure \in Nat /\ Sure <= Intact /\ CompSize \in Nat
        BY <1>1, SureIs, SizesOfStore DEF LaidInv
      <4>3. QED
        BY <2>4, <3>1, <4>1, <4>2
    <3>3. Len(rings) = CompSize + 1 /\ CompSize + 1 <= Len(trunk) /\ trunk[CompSize + 1].hi = hi
          /\ CompSize \in Nat /\ Len(trunk) \in Nat
      BY SMTT(60), <1>1, <3>2, SizesOfStore
         DEF IndexInv, RingsFollowChunks, IndexWithinTrunk, LaidInv, InMemory
    <3>4. Intact = CompSize + 1
      BY <3>3 DEF Intact, Least
    <3>5. ~HeldSeal
      BY <3>1, <3>3, <3>4 DEF HeldSeal, Held
    <3>6. seal.hi = TapeEnd(Intact)
      BY <3>1, <3>3, <3>4 DEF TapeEnd
    <3>7. QED
      BY <2>2, <3>1, <3>5, <3>6
  <2>5. QED
    BY <2>3, <2>4
<1>4. QED
  BY <1>2, <1>3

LEMMA RunReopening ==
    ASSUME DiesAsExpected, TapeInv, AckedInv, WindowsInv, pc \in Opening \cup {"down"}
    PROVE  RunInv
<1>1. /\ IndexInv /\ LaidInv /\ Reopening /\ RolesKept
      /\ head \in Nat /\ acked \in Nat /\ Intact \in Nat /\ Intact <= Len(rings) /\ Intact <= Len(trunk)
      /\ rings \in Seq(ChunkRecord) /\ InOrder(rings) /\ Len(rings) \in Nat /\ Len(trunk) \in Nat
      /\ seal.lo \in Nat /\ seal.hi \in Nat /\ sap.lo \in Nat /\ sap.hi \in Nat
  BY SizesOfStore, StoredSegments DEF TapeInv, LaidInv, IndexInv, Reopening, Opening
<1>2. FramesHeld(Intact) = Run(head, TapeEnd(Intact)) /\ TapeEnd(Intact) \in Nat /\ head <= TapeEnd(Intact)
  <2>1. Intact \in 0 .. Len(rings) /\ Laid(trunk, head, rings, Intact)
    BY <1>1 DEF LaidInv
  <2>2. QED
    BY <1>1, <2>1, FramesAreRun
<1>3. /\ HeldSeal => seal.lo = TapeEnd(Intact) /\ seal.lo < seal.hi /\ ~HeldSap
      /\ HeldSap => sap.lo = TapeEnd(Intact) /\ sap.lo < sap.hi
      /\ Mortal /\ SapOpen => HeldSap
      /\ Mortal /\ Pending => HeldSeal \/ (seal.hi = TapeEnd(Intact) /\ ~HeldSeal /\ ~HeldSap)
  BY HeldFits
<1>4. /\ Content = FramesHeld(Intact) \cup (IF HeldSeal THEN Run(seal.lo, seal.hi) ELSE {})
                      \cup (IF HeldSap THEN Run(sap.lo, sap.hi) ELSE {})
      /\ End = IF HeldSap THEN sap.hi ELSE IF HeldSeal THEN seal.hi ELSE TapeEnd(Intact)
  BY <1>1 DEF Content, End, RecoveredContent, RecoveredEnd, HeldSeal, HeldSap
<1>5. Content = Run(head, End) /\ End \in Nat /\ TapeEnd(Intact) <= End
  <2>1. CASE HeldSap
    <3>1. Run(head, TapeEnd(Intact)) \cup Run(TapeEnd(Intact), sap.hi) = Run(head, sap.hi)
      BY <1>1, <1>2, <1>3, <2>1, RunsJoin
    <3>2. QED
      BY <1>1, <1>2, <1>3, <1>4, <2>1, <3>1
  <2>2. CASE HeldSeal
    <3>1. Run(head, TapeEnd(Intact)) \cup Run(TapeEnd(Intact), seal.hi) = Run(head, seal.hi)
      BY <1>1, <1>2, <1>3, <2>2, RunsJoin
    <3>2. QED
      BY <1>1, <1>2, <1>3, <1>4, <2>2, <3>1
  <2>3. CASE ~HeldSap /\ ~HeldSeal
    BY <1>2, <1>4, <2>3
  <2>4. QED
    BY <2>1, <2>2, <2>3
<1>6. /\ Mortal /\ SapOpen => sap.hi <= End
      /\ Mortal /\ Pending => seal.hi <= End
  BY <1>1, <1>2, <1>3, <1>4
<1>7. acked <= End
  <2>1. TapeEnd(Sure) \in Nat /\ TapeEnd(Sure) <= TapeEnd(Intact)
    <3>1. Sure \in 0 .. Intact /\ Intact \in 0 .. Intact /\ Sure <= Intact /\ Sure \in 0 .. Len(trunk)
      BY <1>1, SureIs DEF LaidInv
    <3>2. QED
      BY <1>1, <3>1, TapeEndGrows, TapeEndIsNat DEF IndexInv
  <2>2. CASE Mortal
    <3>1. Reported
      BY <2>2 DEF AckedInv
    <3>2. QED
      BY <1>1, <1>2, <1>5, <1>6, <2>1, <2>2, <3>1 DEF Reported
  <2>3. CASE ~Mortal
    <3>1. acked <= TapeEnd(Sure)
      BY <1>1, <2>3 DEF AckedInv, RolesKept
    <3>2. QED
      BY <1>1, <1>2, <1>5, <2>1, <3>1
  <2>4. QED
    BY <2>2, <2>3
<1>8. QED
  BY <1>1, <1>2, <1>5, <1>6, <1>7 DEF RunInv


------------------------------------------------------------------------------
\* The steps of module Tape, by what they do to the ends of the tape.
LEMMA TapeMoves ==
    ASSUME RunInv, RunInv',
           \/ head' = head /\ End' = End + 1 /\ End < MaxTape /\ acked' = acked
           \/ head' = head /\ End' = End /\ acked' = End
           \/ head <= head' /\ End' = End /\ acked' = acked
           \/ head' = head /\ End' <= End /\ acked' = acked
    PROVE  [T!Next]_(T!vars)
<1>1. /\ Content = Run(head, End) /\ Content' = Run(head', End')
      /\ End \in Nat /\ End' \in Nat /\ head \in Nat /\ head' \in Nat /\ acked \in Nat
      /\ head <= End /\ head' <= End' /\ acked' <= End'
  <2>1. Run(head, End)' = Run(head', End')
    BY DEF Run
  <2>2. QED
    BY <2>1 DEF RunInv
<1>2. \A p : /\ p \in Content <=> p \in Int /\ head <= p /\ p < End
             /\ p \in Content' <=> p \in Int /\ head' <= p /\ p < End'
  BY <1>1, RunIsIn
<1>3. CASE head' = head /\ End' = End + 1 /\ End < MaxTape /\ acked' = acked
  <2>1. Content' = Content \cup {End}
    <3>1. ASSUME NEW p PROVE p \in Content' <=> p \in Content \cup {End}
      BY <1>1, <1>2, <1>3
    <3>2. QED
      BY <3>1
  <2>2. T!Append
    BY <1>3, <2>1 DEF T!Append
  <2>3. QED
    BY <2>2 DEF T!Next
<1>4. CASE head' = head /\ End' = End /\ acked' = End
  <2>1. Content' = Content
    BY <1>1, <1>4
  <2>2. T!Harden
    BY <1>4, <2>1 DEF T!Harden
  <2>3. QED
    BY <2>2 DEF T!Next
<1>5. CASE head <= head' /\ End' = End /\ acked' = acked
  <2>1. Content' = {p \in Content : p >= head'}
    <3>1. ASSUME NEW p PROVE p \in Content' <=> p \in {q \in Content : q >= head'}
      BY <1>1, <1>2, <1>5
    <3>2. QED
      BY <3>1
  <2>2. T!DropBelow(head')
    BY <1>5, <2>1 DEF T!DropBelow
  <2>3. head' \in 0 .. End
    BY <1>1, <1>5
  <2>4. QED
    BY <2>2, <2>3 DEF T!Next
<1>6. CASE head' = head /\ End' <= End /\ acked' = acked
  <2>1. Content' = {p \in Content : p < End'}
    <3>1. ASSUME NEW p PROVE p \in Content' <=> p \in {q \in Content : q < End'}
      BY <1>1, <1>2, <1>6
    <3>2. QED
      BY <3>1
  <2>2. T!CutBack(End')
    BY <1>6, <2>1 DEF T!CutBack
  <2>3. End' \in acked .. End
    BY <1>1, <1>6
  <2>4. QED
    BY <2>2, <2>3 DEF T!Next
<1>7. QED
  BY <1>3, <1>4, <1>5, <1>6

\* What a death or the end of an import leaves on the disk is a beginning of the tape.
LEMMA DeathCuts ==
    ASSUME DiesAsExpected, TapeInv, TapeInv', RunInv, RunInv', Fail \/ Exit
    PROVE  head' = head /\ End' <= End /\ acked' = acked
<1>1. /\ IndexInv /\ LaidInv /\ IndexInv' /\ LaidInv' /\ pc' = "down" /\ role' = "none"
      /\ End \in Nat /\ End' \in Nat /\ TapeEnd(Intact) \in Nat /\ TapeEnd(Intact) <= End
      /\ Intact \in Nat /\ Intact <= Len(trunk) /\ Intact <= Len(rings)
      /\ Len(trunk) \in Nat /\ Len(rings) \in Nat /\ Sure \in Nat
  BY SizesOfStore, SureIs DEF TapeInv, RunInv, Fail, Crash, LosePower, Exit, Forget, LaidInv
<1>2. End' = RecoveredEnd'
  BY <1>1 DEF End, Reopening
<1>3. Mortal' = Mortal
  BY EnvKept DEF Next, Import
<1>4. head' = head /\ acked' = acked /\ UNCHANGED seal
  BY DEF Fail, Crash, LosePower, Exit, history, disk
<1>5. TapeEnd(Intact)' <= TapeEnd(Intact) /\ TapeEnd(Intact)' \in Nat /\ Sure <= Sure'
      /\ (SapOpen' => SapOpen /\ sap'.hi <= sap.hi)
  <2>1. CASE Crash \/ Exit
    <3>1. UNCHANGED <<trunk, trunkSynced, rings, ringsSynced, sap, env, head>>
      BY <2>1 DEF Crash, Exit, disk, history
    <3>2. Intact' = Intact /\ TapeEnd(Intact)' = TapeEnd(Intact) /\ Sure' = Sure
      BY <3>1, SureKept DEF TapeEnd
    <3>3. sap.hi \in Nat
      BY <1>1, StoredSegments DEF IndexInv
    <3>4. QED
      BY <1>1, <3>1, <3>2, <3>3 DEF SapOpen
  <2>2. CASE LosePower
    <3>1. /\ trunkSynced' \in trunkSynced .. Len(trunk) /\ ringsSynced' \in ringsSynced .. Len(rings)
          /\ trunkSynced' = Len(trunk') /\ ringsSynced' = Len(rings')
          /\ \A i \in 1 .. Len(trunk') : trunk'[i] = trunk[i]
          /\ UNCHANGED env /\ PowerFails
          /\ \E h \in sap.syn .. sap.hi : sap'.lo = sap.lo /\ sap'.hi = h
      BY <1>1, <2>2, LosePowerDoes DEF LaidInv
    <3>2. /\ trunkSynced \in Nat /\ ringsSynced \in Nat
          /\ sap.syn \in Nat /\ sap.hi \in Nat /\ sap.lo \in Nat
      BY <1>1, SizesOfStore, StoredSegments DEF IndexInv
    <3>3. /\ Intact' \in Nat /\ Intact' <= Intact /\ Intact' <= Len(trunk') /\ Len(trunk') \in Nat
      BY <1>1, <3>1, <3>2 DEF Intact, Least
    <3>4. PowerFails' = PowerFails
      BY <3>1 DEF PowerFails
    <3>5. Sure <= Sure'
      BY <3>1, <3>2, <3>4 DEF Sure, Least
    <3>6. TapeEnd(Intact)' = TapeEnd(Intact')
      <4>1. CASE Intact' = 0
        BY <1>4, <4>1 DEF TapeEnd
      <4>2. CASE Intact' # 0
        <5>1. Intact' \in 1 .. Len(trunk')
          BY <3>3, <4>2
        <5>2. trunk'[Intact'] = trunk[Intact']
          BY <3>1, <5>1
        <5>3. QED
          BY <4>2, <5>2 DEF TapeEnd
      <4>3. QED
        BY <4>1, <4>2
    <3>7. TapeEnd(Intact') <= TapeEnd(Intact) /\ TapeEnd(Intact') \in Nat
      <4>1. Intact' \in 0 .. Intact /\ Intact \in 0 .. Intact /\ Intact' \in 0 .. Len(trunk)
        BY <1>1, <3>3
      <4>2. QED
        BY <1>1, <3>3, <4>1, TapeEndGrows, TapeEndIsNat DEF IndexInv
    <3>8. SapOpen' => SapOpen /\ sap'.hi <= sap.hi
      BY <3>1, <3>2 DEF SapOpen
    <3>9. QED
      BY <3>5, <3>6, <3>7, <3>8
  <2>3. QED
    BY <2>1, <2>2 DEF Fail
<1>6. CASE ~Mortal
  <2>1. ~seal'.there /\ ~SapOpen'
    BY <1>1, <1>3, <1>6 DEF TapeInv, SegmentInv, NothingToReplay
  <2>2. End' = TapeEnd(Intact)'
    BY <1>2, <2>1 DEF RecoveredEnd, Held, SapOpen
  <2>3. QED
    BY <1>1, <1>4, <1>5, <2>2
<1>7. CASE Mortal
  <2>1. Sure' = Intact'
    BY <1>1, <1>3, <1>7 DEF TapeInv, SegmentInv, ReopeningRight
  <2>2. Held(sap, TRUE)' => sap'.hi <= End
    <3>1. Held(sap, TRUE)' => SapOpen'
      BY DEF Held, SapOpen
    <3>2. SapOpen => sap.hi <= End
      BY <1>7 DEF RunInv
    <3>3. sap.hi \in Nat /\ sap'.hi \in Nat
      BY <1>1, StoredSegments DEF IndexInv, TypeOK, Segment
    <3>4. QED
      BY <1>1, <1>5, <3>1, <3>2, <3>3
  <2>3. Held(seal, seal.base >= Intact)' => seal'.hi <= End
    <3>1. Held(seal, seal.base >= Intact)' => SealOpen /\ seal.base >= Sure'
      BY <1>4, <2>1 DEF Held, SealOpen
    <3>2. seal.base \in Nat /\ Sure' \in Nat
      BY <1>1, StoredSegments, SureNext DEF IndexInv
    <3>3. Held(seal, seal.base >= Intact)' => Pending
      BY <1>1, <1>5, <3>1, <3>2 DEF Pending
    <3>4. QED
      BY <1>4, <1>7, <3>3 DEF RunInv
  <2>4. RecoveredEnd' = IF Held(sap, TRUE)' THEN sap'.hi
                        ELSE IF Held(seal, seal.base >= Intact)' THEN seal'.hi
                        ELSE TapeEnd(Intact)'
    BY DEF RecoveredEnd
  <2>5. TapeEnd(Intact)' <= End
    BY <1>1, <1>5
  <2>6. CASE Held(sap, TRUE)'
    BY <1>2, <1>4, <2>2, <2>4, <2>6
  <2>7. CASE ~Held(sap, TRUE)' /\ Held(seal, seal.base >= Intact)'
    BY <1>2, <1>4, <2>3, <2>4, <2>7
  <2>8. CASE ~Held(sap, TRUE)' /\ ~Held(seal, seal.base >= Intact)'
    BY <1>2, <1>4, <2>4, <2>5, <2>8
  <2>9. QED
    BY <2>6, <2>7, <2>8
<1>8. QED
  BY <1>6, <1>7

\* The chunks an open store has in memory lie between the head and the buffer.
LEMMA ChunkEndsInOrder ==
    ASSUME IndexInv, LaidInv, pc \notin {"down", "reset"}, NEW a \in 0 .. CompSize
    PROVE  /\ TapeEnd(a) \in Nat /\ lo \in Nat /\ head \in Nat
           /\ head <= TapeEnd(a) /\ TapeEnd(a) <= lo
<1>1. /\ CompSize \in Nat /\ head \in Nat /\ lo \in Nat /\ CompSize <= Len(trunk)
      /\ Len(trunk) \in Nat
      /\ chunks \in Seq(ChunkRecord) /\ InOrder(chunks)
      /\ Laid(trunk, head, chunks, CompSize) /\ lo = TapeEnd(CompSize)
  BY SizesOfStore DEF IndexInv, LaidInv, InMemory
<1>2. \A i \in 1 .. CompSize : trunk[i].lo \in Nat /\ trunk[i].hi \in Nat
  BY <1>1, SizesOfStore
<1>3. CompSize \in 0 .. Len(chunks) /\ CompSize \in 0 .. CompSize /\ 0 \in 0 .. CompSize
      /\ a \in Nat /\ 0 <= a /\ a <= CompSize
  BY <1>1 DEF CompSize
<1>4. TapeEnd(a) \in Nat
  BY <1>1, <1>2, <1>3 DEF TapeEnd
<1>5. TapeEnd(a) <= TapeEnd(CompSize)
  BY <1>1, <1>2, <1>3, LaidGrows DEF TapeEnd
<1>6. head <= TapeEnd(a)
  BY <1>1, <1>2, <1>3, LaidGrows DEF TapeEnd
<1>7. QED
  BY <1>1, <1>4, <1>5, <1>6

\* What a step of an open store does to the ends of its tape.
LEMMA WorkMoves ==
    ASSUME DiesAsExpected, TapeInv, TapeInv', RunInv, WindowsInv, Next,
           pc \notin Opening \cup {"down"}, pc' \notin Opening \cup {"down"}
    PROVE  \/ head' = head /\ hi' = hi + 1 /\ hi < MaxTape /\ acked' = acked
           \/ head' = head /\ hi' = hi /\ acked' = hi
           \/ head <= head' /\ hi' = hi /\ acked' = acked
           \/ head' = head /\ hi' <= hi /\ acked' = acked
<1>1. /\ IndexInv /\ LaidInv /\ lo \in Nat /\ hi \in Nat /\ head \in Nat /\ lo <= hi
      /\ CompSize \in Nat
  BY SizesOfStore DEF TapeInv
<1>2. hi <= hi /\ head <= head
  BY <1>1
<1>3. CASE Write \/ SetWal
  BY <1>2, <1>3 DEF Write, AppendEntry, FlushAged, Sync, SyncFiles, SapFlush, SapSync,
     ApplyWalOn, StartWal, ApplyWalOff, SetWal, memory, history
<1>4. CASE Flush
  BY <1>2, <1>4 DEF Flush, FlushBegin, FlushFrame, FlushRecord, FlushHarden, FlushSwap, FlushUnlink,
     FrameFails, RecordFails, HardenFails, memory, history
<1>5. CASE Abort
  <2>1. /\ pc = "staged" /\ hi' = TapeEnd(staged) /\ UNCHANGED <<head, acked>>
    BY <1>5 DEF Abort, history
  <2>2. staged # NotStaged /\ staged <= Len(rings) /\ Len(rings) <= CompSize
    BY <1>1, <2>1 DEF IndexInv, StagingWithinImport, StagingLabels, RingsFollowChunks
  <2>3. staged \in 0 .. CompSize
    BY <1>1, <2>2, SizesOfStore DEF IndexInv, TypeOK
  <2>4. TapeEnd(staged) <= lo /\ TapeEnd(staged) \in Nat
    BY <1>1, <2>1, <2>3, ChunkEndsInOrder
  <2>5. QED
    BY <1>1, <2>1, <2>4
<1>6. CASE Import /\ ~Abort
  <2>1. ~Exit
    BY DEF Exit, Forget, Opening
  <2>2. QED
    BY <1>2, <1>6, <2>1 DEF Import, Stage, Commit, CommitRecord, CommitSync, memory, history
<1>7. ASSUME NEW k \in 1 .. Len(chunks), NEW rewrite \in BOOLEAN, DropHead(k, rewrite)
      PROVE  head <= head' /\ hi' = hi /\ acked' = acked
  <2>1. head' = trunk[k].hi /\ hi' = hi /\ acked' = acked /\ pc = "idle"
    BY <1>7 DEF DropHead
  <2>2. k \in 0 .. CompSize /\ k # 0
    BY DEF CompSize
  <2>3. head <= TapeEnd(k)
    BY <1>1, <2>1, <2>2, ChunkEndsInOrder
  <2>4. QED
    BY <2>1, <2>2, <2>3 DEF TapeEnd
<1>8. CASE Reset
  <2>1. /\ pc = "idle" /\ head' = (IF wal THEN lo ELSE hi) /\ hi' = hi /\ acked' = acked
    BY <1>8 DEF Reset
  <2>2. head <= lo
    <3>1. 0 \in 0 .. CompSize
      BY <1>1
    <3>2. head <= TapeEnd(0) /\ TapeEnd(0) <= lo /\ TapeEnd(0) \in Nat
      BY <1>1, <2>1, <3>1, ChunkEndsInOrder
    <3>3. QED
      BY <1>1, <3>2 DEF TapeEnd
  <2>3. QED
    BY <1>1, <2>1, <2>2
<1>9. CASE ResetSegment
  <2>1. pc = "reset" /\ head' = hi /\ hi' = hi /\ acked' = acked
    BY <1>9 DEF ResetSegment
  <2>2. QED
    BY <2>1 DEF WindowsInv
<1>10. CASE AdoptRecord
  <2>1. pc = "adopt_record" /\ hi' = hi + 1 /\ head' = head /\ acked' = acked
    BY <1>10 DEF AdoptRecord, history
  <2>2. QED
    BY <2>1 DEF WindowsInv
<1>11. CASE Rebase \/ RebaseFails \/ Adopt \/ AdoptFrame \/ AdoptSync
  BY <1>2, <1>11 DEF Rebase, RebaseFails, Adopt, AdoptFrame, AdoptSync, memory, history
<1>12. CASE Open \/ Fail
  BY <1>12 DEF Open, OpenIndex, DiscardSeal, ReplaySeal, ReplayFrame, ReplayRecord, ReplaySync,
     ReplayUnlink, OpenLive, Goto, Opening, Fail, Crash, LosePower, Forget
<1>13. QED
  BY <1>3, <1>4, <1>5, <1>6, <1>7, <1>8, <1>9, <1>10, <1>11, <1>12 DEF Next, Reshape

\* What is recovered stays what it was while the frames the index names, the seal
\* that will be replayed and the segment do.
LEMMA RecoveredKept ==
    ASSUME TapeEnd(Intact)' = TapeEnd(Intact), UNCHANGED sap,
           \/ UNCHANGED seal /\ Intact' = Intact
           \/ ~HeldSeal /\ ~HeldSeal'
    PROVE  RecoveredEnd' = RecoveredEnd
<1>1. HeldSap' <=> HeldSap
  BY DEF HeldSap, Held
<1>2. HeldSeal' <=> HeldSeal
  BY DEF HeldSeal, Held
<1>3. HeldSeal => seal' = seal
  OBVIOUS
<1>4. RecoveredEnd = IF HeldSap THEN sap.hi ELSE IF HeldSeal THEN seal.hi ELSE TapeEnd(Intact)
  BY DEF RecoveredEnd, HeldSap, HeldSeal
<1>5. RecoveredEnd' = IF HeldSap' THEN sap'.hi ELSE IF HeldSeal' THEN seal'.hi ELSE TapeEnd(Intact)'
  BY DEF RecoveredEnd, HeldSap, HeldSeal
<1>6. QED
  BY <1>1, <1>2, <1>3, <1>4, <1>5

\* A store that reopens holds the tape it will have once it is open.
LEMMA OpenMoves ==
    ASSUME DiesAsExpected, TapeInv, TapeInv', AckedInv, WindowsInv, Open
    PROVE  head' = head /\ acked' = acked /\ End' = End
<1>1. /\ IndexInv /\ LaidInv /\ IndexInv' /\ LaidInv' /\ RolesKept
      /\ hi \in Nat /\ lo \in Nat /\ CompSize \in Nat /\ Len(trunk) \in Nat /\ Intact \in Nat
  BY SizesOfStore DEF TapeInv
<1>2. head' = head /\ acked' = acked
  BY DEF Open, OpenIndex, DiscardSeal, ReplaySeal, ReplayFrame, ReplayRecord, ReplaySync,
     ReplayUnlink, OpenLive, history
<1>3. Reopening /\ End = RecoveredEnd
  BY DEF Open, OpenIndex, DiscardSeal, ReplaySeal, ReplayFrame, ReplayRecord, ReplaySync,
     ReplayUnlink, OpenLive, Reopening, End
<1>4. ASSUME ~OpenLive PROVE End' = RecoveredEnd'
  <2>1. Reopening'
    BY <1>4 DEF Open, OpenIndex, DiscardSeal, ReplaySeal, ReplayFrame, ReplayRecord, ReplaySync,
       ReplayUnlink, Reopening, Goto
  <2>2. QED
    BY <2>1 DEF End
<1>5. ASSUME UNCHANGED <<trunk, rings, head>> PROVE Intact' = Intact /\ TapeEnd(Intact)' = TapeEnd(Intact)
  BY <1>5 DEF Intact, TapeEnd
<1>6. ASSUME pc \in Opening PROVE staged = NotStaged
  BY <1>1, <1>6 DEF IndexInv, StagingWithinImport, StagingLabels, Opening
<1>7. ~Mortal => ~seal.there /\ ~SapOpen
  BY <1>1, <1>3 DEF TapeInv, SegmentInv, NothingToReplay, RolesKept, Reopening, Opening
<1>8. Mortal => ReopeningRight /\ SealIsSynced
  BY <1>3 DEF TapeInv, SegmentInv, AckedInv, Reopening, Opening
<1>9. ASSUME NEW r \in Programs, OpenIndex(r) PROVE End' = End
  <2>1. Intact' = Intact
    BY <1>1, <1>9, OpenIndexKeepsSure
  <2>2. UNCHANGED <<trunk, seal, sap, head>> /\ ~OpenLive
    BY <1>9 DEF OpenIndex, OpenLive, history
  <2>3. TapeEnd(Intact)' = TapeEnd(Intact)
    BY <2>1, <2>2 DEF TapeEnd
  <2>4. QED
    BY <1>3, <1>4, <2>1, <2>2, <2>3, RecoveredKept
<1>10. CASE DiscardSeal
  <2>1. /\ pc = "open_seal" /\ seal' = NoSegment /\ UNCHANGED <<trunk, rings, sap, head>> /\ ~OpenLive
        /\ seal.there => seal.base < CompSize \/ seal.lo = seal.hi
    BY <1>10 DEF DiscardSeal, OpenLive, history
  <2>2. Intact = CompSize
    BY <1>1, <1>6, <2>1, IntactIsIndex DEF Opening
  <2>3. ~HeldSeal
    <3>1. seal.base \in Nat /\ seal.lo \in Nat /\ seal.hi \in Nat
      BY <1>1, StoredSegments DEF IndexInv
    <3>2. QED
      BY <1>1, <2>1, <2>2, <3>1 DEF HeldSeal, Held
  <2>4. ~HeldSeal'
    BY <2>1 DEF HeldSeal, Held, NoSegment
  <2>5. QED
    BY <1>2, <1>3, <1>4, <1>5, <2>1, <2>3, <2>4, RecoveredKept
<1>11. CASE ReplaySeal \/ ReplaySync
  <2>1. UNCHANGED <<trunk, rings, sap, seal, head>> /\ ~OpenLive
    BY <1>11 DEF ReplaySeal, ReplaySync, OpenLive, history, disk
  <2>2. QED
    BY <1>2, <1>3, <1>4, <1>5, <2>1, RecoveredKept
<1>12. CASE ReplayFrame
  <2>1. [lo |-> lo, hi |-> hi] \in Frame
    BY <1>1 DEF Frame
  <2>2. /\ pc = "replay_frame" /\ WriteFrame([lo |-> lo, hi |-> hi])
        /\ UNCHANGED <<rings, ringsSynced, sap, seal, env, head>> /\ ~OpenLive
    BY <1>12 DEF ReplayFrame, OpenLive, history
  <2>3. Intact' = Intact /\ TapeEnd(Intact)' = TapeEnd(Intact)
    BY <1>1, <2>1, <2>2, FrameKeepsSure
  <2>4. QED
    BY <1>2, <1>3, <1>4, <2>2, <2>3, RecoveredKept
<1>13. CASE ReplayRecord
  <2>1. /\ pc = "replay_record" /\ WriteRecord(NextRecord(hi - lo)) /\ pc' = "replay_sync"
        /\ UNCHANGED <<trunk, trunkSynced, sap, seal, env, head, chunks, hi>> /\ ~OpenLive
    BY <1>13 DEF ReplayRecord, OpenLive, history, Goto
  <2>2. Mortal
    BY <2>1 DEF WindowsInv
  <2>3. SealOpen /\ seal.hi = hi /\ seal.base = CompSize /\ ~SapOpen
    BY <1>8, <2>1, <2>2 DEF ReopeningRight
  <2>4. /\ Intact = CompSize /\ Len(rings') = CompSize + 1 /\ CompSize + 1 <= Len(trunk)
        /\ trunk[CompSize + 1].hi = hi
    <3>1. staged = NotStaged /\ Len(rings') = CompSize' + 1
      BY <1>1, <1>6, <2>1 DEF Opening, IndexInv, RingsFollowChunks
    <3>2. Intact = CompSize /\ CompSize' = CompSize
      BY <1>1, <2>1, <3>1, IntactIsIndex DEF CompSize
    <3>3. CompSize < Len(trunk) /\ trunk[CompSize + 1].hi = hi
      BY <1>1, <2>1 DEF IndexInv, IndexWithinTrunk, LaidInv, InMemory
    <3>4. QED
      BY <1>1, <3>1, <3>2, <3>3
  <2>5. Intact' = CompSize + 1
    BY <1>1, <2>1, <2>4 DEF Intact, Least
  <2>6. TapeEnd(Intact)' = hi
    <3>1. Intact' # 0
      BY <1>1, <2>5
    <3>2. QED
      BY <2>1, <2>4, <2>5, <3>1 DEF TapeEnd
  <2>7. HeldSeal /\ ~HeldSeal'
    BY <1>1, <2>1, <2>3, <2>4, <2>5 DEF HeldSeal, Held, SealOpen
  <2>8. ~HeldSap /\ ~HeldSap'
    BY <2>1, <2>3 DEF HeldSap, Held, SapOpen
  <2>9. RecoveredEnd = hi
    BY <2>3, <2>7, <2>8 DEF RecoveredEnd, HeldSeal, HeldSap
  <2>10. RecoveredEnd' = hi
    BY <2>6, <2>7, <2>8 DEF RecoveredEnd, HeldSeal, HeldSap
  <2>11. QED
    BY <1>2, <1>3, <1>4, <2>1, <2>9, <2>10
<1>14. CASE ReplayUnlink
  <2>1. pc = "replay_unlink" /\ seal' = NoSegment /\ UNCHANGED <<trunk, rings, sap, head>> /\ ~OpenLive
    BY <1>14 DEF ReplayUnlink, OpenLive, history
  <2>2. Mortal
    BY <2>1 DEF WindowsInv
  <2>3. Sure = Intact /\ ~Pending
    BY <1>8, <2>1, <2>2 DEF ReopeningRight, SealIsSynced
  <2>4. ~HeldSeal
    BY <2>3 DEF HeldSeal, Held, Pending, SealOpen
  <2>5. ~HeldSeal'
    BY <2>1 DEF HeldSeal, Held, NoSegment
  <2>6. QED
    BY <1>2, <1>3, <1>4, <1>5, <2>1, <2>4, <2>5, RecoveredKept
<1>15. CASE OpenLive
  <2>1. /\ pc = "open_live" /\ pc' \in {"stage", "idle"}
        /\ hi' = IF SapOpen THEN sap.hi ELSE hi
    BY <1>15 DEF OpenLive, Opened, SapOpen
  <2>2. End' = hi'
    BY <2>1 DEF End, Reopening
  <2>3. ~HeldSeal
    BY <1>7, <1>8, <2>1 DEF ReopeningRight, HeldSeal, Held
  <2>4. HeldSap <=> SapOpen
    BY <1>7, <1>8 DEF ReopeningRight, Recoverable, HeldSap, Held, SapOpen
  <2>5. hi = TapeEnd(Intact)
    <3>1. Intact = CompSize
      BY <1>1, <1>6, <2>1, IntactIsIndex DEF Opening
    <3>2. QED
      BY <1>1, <2>1, <3>1 DEF LaidInv, InMemory, Emptied
  <2>6. RecoveredEnd = IF SapOpen THEN sap.hi ELSE hi
    BY <2>3, <2>4, <2>5 DEF RecoveredEnd, HeldSap, HeldSeal
  <2>7. QED
    BY <1>2, <1>3, <2>1, <2>2, <2>6
<1>16. End' = End
  BY <1>9, <1>10, <1>11, <1>12, <1>13, <1>14, <1>15 DEF Open
<1>17. QED
  BY <1>2, <1>16

\* Every step of the store is a step of the tape, or leaves it alone.
LEMMA StepIsOfTheTape ==
    ASSUME DiesAsExpected, TapeInv, TapeInv', AckedInv, AckedInv', WindowsInv, RunInv, RunInv', Next
    PROVE  [T!Next]_(T!vars)
<1>1. IndexInv /\ End \in Nat
  BY DEF TapeInv, RunInv
<1>2. CASE Fail \/ Exit
  <2>1. head' = head /\ End' <= End /\ acked' = acked
    BY <1>2, DeathCuts
  <2>2. QED
    BY <2>1, TapeMoves
<1>3. CASE Open
  <2>1. head' = head /\ acked' = acked /\ End' = End
    BY <1>3, OpenMoves
  <2>2. End' <= End
    BY <1>1, <2>1
  <2>3. QED
    BY <2>1, <2>2, TapeMoves
<1>4. CASE SetWal /\ pc \in Opening \cup {"down"}
  <2>1. UNCHANGED <<trunk, rings, sap, seal, head, acked, pc>>
    BY <1>4 DEF SetWal, history
  <2>2. Intact' = Intact /\ TapeEnd(Intact)' = TapeEnd(Intact)
    BY <2>1 DEF Intact, TapeEnd
  <2>3. RecoveredEnd' = RecoveredEnd
    BY <2>1, <2>2, RecoveredKept
  <2>4. End' = End
    BY <1>4, <2>1, <2>3 DEF End, Reopening, Opening
  <2>5. End' <= End
    BY <1>1, <2>4
  <2>6. QED
    BY <2>1, <2>5, TapeMoves
<1>5. CASE ~Fail /\ ~Exit /\ ~Open /\ pc \notin Opening \cup {"down"}
  <2>1. pc' \notin Opening \cup {"down"}
    <3>1. pc' # "down"
      BY <1>1, <1>5, LeftByDeath
    <3>2. QED
      BY <1>1, <1>5, <3>1, WorkStays
  <2>2. \/ head' = head /\ hi' = hi + 1 /\ hi < MaxTape /\ acked' = acked
        \/ head' = head /\ hi' = hi /\ acked' = hi
        \/ head <= head' /\ hi' = hi /\ acked' = acked
        \/ head' = head /\ hi' <= hi /\ acked' = acked
    BY <1>5, <2>1, WorkMoves
  <2>3. End = hi /\ End' = hi'
    BY <1>5, <2>1 DEF End, Reopening, Opening
  <2>4. \/ head' = head /\ End' = End + 1 /\ End < MaxTape /\ acked' = acked
        \/ head' = head /\ End' = End /\ acked' = End
        \/ head <= head' /\ End' = End /\ acked' = acked
        \/ head' = head /\ End' <= End /\ acked' = acked
    BY <2>2, <2>3
  <2>5. QED
    BY <2>4, TapeMoves
<1>6. ~Fail /\ ~Exit /\ ~Open /\ pc \in Opening \cup {"down"} => SetWal
  <2>1. CASE Write \/ Reshape
    BY <2>1 DEF Write, AppendEntry, FlushAged, Sync, SyncFiles, SapFlush, SapSync,
       ApplyWalOn, StartWal, ApplyWalOff, Reshape, DropHead, Rebase, RebaseFails, Adopt, AdoptFrame,
       AdoptRecord, AdoptSync, Reset, ResetSegment, Opening
  <2>2. CASE Flush \/ (Import /\ ~Exit)
    BY <2>2 DEF Flush, FlushBegin, FlushFrame, FlushRecord, FlushHarden, FlushSwap, FlushUnlink,
       FrameFails, RecordFails, HardenFails, Import, Stage, Commit, CommitRecord, CommitSync, Abort,
       Opening
  <2>3. QED
    BY <2>1, <2>2 DEF Next
<1>7. QED
  BY <1>2, <1>3, <1>4, <1>5, <1>6

\* Wherever the store is, its tape is one run.
LEMMA TapeRuns ==
    ASSUME DiesAsExpected, TapeInv, AckedInv, WindowsInv
    PROVE  RunInv
<1>1. CASE pc \notin Opening \cup {"down"}
  BY <1>1, RunAtWork
<1>2. CASE pc \in Opening \cup {"down"}
  BY <1>2, RunReopening
<1>3. QED
  BY <1>1, <1>2

LEMMA RunInductive ==
    ASSUME DiesAsExpected, KeepsItsSegment
    PROVE  Spec => [](WindowsInv /\ RunInv)
<1>1. Init => WindowsInv
  BY DEF Init, WindowsInv, Flushing
<1>2. TapeInv /\ TapeInv' /\ AckedInv /\ WindowsInv /\ [Next]_vars => WindowsInv'
  <2>1. ASSUME TapeInv, TapeInv', AckedInv, WindowsInv, Next PROVE WindowsInv'
    BY <2>1, TapeRuns, WindowsStep
  <2>2. ASSUME WindowsInv, UNCHANGED vars PROVE WindowsInv'
    BY <2>2 DEF WindowsInv, vars, disk, memory, history, Mortal
  <2>3. QED
    BY <2>1, <2>2
<1>3. TapeInv /\ AckedInv /\ WindowsInv => RunInv
  BY TapeRuns
<1>4. QED
  BY <1>1, <1>2, <1>3, TapeInvInductive, AckedInvInductive, PTL DEF Spec

\* A new store is an empty tape.
LEMMA NewStoreIsEmpty ==
    ASSUME Init
    PROVE  T!Init
<1>1. /\ trunk = <<>> /\ rings = <<>> /\ head = 0 /\ acked = 0 /\ pc = "down"
      /\ sap = NoSegment /\ seal = NoSegment
  BY DEF Init
<1>2. Len(trunk) = 0 /\ Len(rings) = 0
  BY <1>1, EmptySeq
<1>3. Intact = 0 /\ TapeEnd(Intact) = 0
  BY <1>1, <1>2 DEF Intact, Least, TapeEnd
<1>4. ~Held(sap, TRUE) /\ ~Held(seal, seal.base >= Intact)
  BY <1>1 DEF Held, NoSegment
<1>5. Reopening
  BY <1>1 DEF Reopening
<1>6. End = 0
  BY <1>3, <1>4, <1>5 DEF End, RecoveredEnd
<1>7. Content = {}
  <2>1. FramesHeld(Intact) = {}
    BY <1>3 DEF FramesHeld
  <2>2. QED
    BY <1>4, <1>5, <2>1 DEF Content, RecoveredContent
<1>8. QED
  BY <1>1, <1>6, <1>7 DEF T!Init

\* The store keeps the contract of module Tape: through flushes, replays, head drops,
\* resets, adoptions, deliveries and deaths, it is an append-only tape that loses
\* entries at its head to retention, and at its tail what was not reported durable.
THEOREM StoreIsTheTape ==
    ASSUME DiesAsExpected, KeepsItsSegment
    PROVE  Spec => ImplementsTape
<1>1. Init => T!Init
  BY NewStoreIsEmpty
<1>2. ASSUME TapeInv, TapeInv', AckedInv, AckedInv', WindowsInv, RunInv, RunInv', [Next]_vars
      PROVE  [T!Next]_(T!vars)
  <2>1. CASE Next
    BY <1>2, <2>1, StepIsOfTheTape
  <2>2. CASE UNCHANGED vars
    <3>1. UNCHANGED <<trunk, rings, sap, seal, pc, chunks, lo, hi, head, acked>>
      BY <2>2 DEF vars, disk, memory, history
    <3>2. Intact' = Intact /\ CompSize' = CompSize
      BY <3>1 DEF Intact, CompSize
    <3>3. FramesHeld(Intact)' = FramesHeld(Intact) /\ FramesHeld(CompSize)' = FramesHeld(CompSize)
      BY <3>1, <3>2 DEF FramesHeld
    <3>4. RecoveredContent' = RecoveredContent /\ RecoveredEnd' = RecoveredEnd
          /\ Buffered' = Buffered /\ Reopening' = Reopening
      BY <3>1, <3>2, <3>3 DEF RecoveredContent, RecoveredEnd, Held, TapeEnd, Buffered, Reopening
    <3>5. Content' = Content /\ End' = End
      BY <3>1, <3>3, <3>4 DEF Content, End
    <3>6. QED
      BY <3>1, <3>5 DEF T!vars
  <2>3. QED
    BY <1>2, <2>1, <2>2
<1>3. QED
  BY <1>1, <1>2, TapeInvInductive, AckedInvInductive, RunInductive, PTL
     DEF Spec, ImplementsTape, T!Spec

\* What a reader is given of an open store, and what a death would leave of it, is
\* one run of entries at any moment, with nothing reported durable beyond its end.
THEOREM TapeIsAlwaysOneRun ==
    ASSUME DiesAsExpected, KeepsItsSegment
    PROVE  Spec => []TapeIsOneRun
<1>1. RunInv => TapeIsOneRun
  BY DEF RunInv, TapeIsOneRun, T!OneRun, Run
<1>2. QED
  BY <1>1, RunInductive, PTL
=============================================================================
