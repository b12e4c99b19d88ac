--------------------------- MODULE HeadDrop_proofs ---------------------------
(***************************************************************************)
(* What TLAPS proves of head drops (module HeadDrop): whatever is cut off  *)
(* the front of a store, and wherever its writer dies in a collapse, the   *)
(* records that are left locate their own frames; and a reader that finds  *)
(* the counter where it was has read its own chunk and its own filters.    *)
(***************************************************************************)
EXTENDS HeadDrop, SequenceFacts

------------------------------------------------------------------------------
Record == [seq : Int, start : Nat, len : Nat]
Cell == Int \X Int

\* The frame a record names lies where the record says.
Located(file, rec) ==
    /\ CompEnd(rec) <= Len(file)
    /\ \A j \in 1 .. rec.len : file[rec.start + j] = <<rec.seq, j>>

AllLocated(file, recs) == \A i \in 1 .. Len(recs) : Located(file, recs[i])

\* Frames do not overlap, and lie in the order of their records.
Ordered(recs) ==
    \A i, j \in 1 .. Len(recs) : i < j => CompEnd(recs[i]) <= recs[j].start

Extent(recs) == IF recs = <<>> THEN 0 ELSE CompEnd(recs[Len(recs)])

\* What is left of an index when k records go and the rest move down.
Remains(recs, k, by) == [i \in 1 .. Len(recs) - k |-> [recs[i + k] EXCEPT !.start = @ - by]]

------------------------------------------------------------------------------
\* A reader gets the frame of a record that locates it.
LEMMA LocatedIsRead ==
    ASSUME NEW file \in Seq(Cell), NEW rec \in Record, Located(file, rec)
    PROVE  ReadAt(file, rec) = FrameCells(rec.seq, rec.len)
<1>1. rec.start \in Nat /\ rec.len \in Nat /\ CompEnd(rec) \in Nat /\ Len(file) \in Nat
  BY DEF Record, CompEnd
<1>2. CompEnd(rec) - rec.start = rec.len /\ CompEnd(rec) <= Len(file)
  BY <1>1 DEF Located, CompEnd
<1>3. SubSeq(file, rec.start + 1, CompEnd(rec)) = [j \in 1 .. rec.len |-> file[rec.start + j]]
  <2>1. SubSeq(file, rec.start + 1, CompEnd(rec))
            = [j \in 1 .. (1 + CompEnd(rec) - (rec.start + 1)) |-> file[j + (rec.start + 1) - 1]]
    BY <1>1, <1>2
  <2>2. 1 + CompEnd(rec) - (rec.start + 1) = rec.len
    BY <1>1, <1>2
  <2>3. \A j \in 1 .. rec.len : j + (rec.start + 1) - 1 = rec.start + j
    BY <1>1
  <2>4. QED
    BY <2>1, <2>2, <2>3
<1>4. QED
  BY <1>1, <1>2, <1>3 DEF ReadAt, FrameCells, Located

\* A shift or a copy of the file's end carries the frames that lie there.
LEMMA ShiftLocates ==
    ASSUME NEW file \in Seq(Cell), NEW rec \in Record, Located(file, rec),
           NEW by \in Nat, by <= rec.start,
           NEW n \in Nat, CompEnd(rec) <= n, n <= Len(file)
    PROVE  Located(SubSeq(file, by + 1, n), [rec EXCEPT !.start = @ - by])
<1> DEFINE moved == [rec EXCEPT !.start = @ - by]
<1>1. /\ rec.start \in Nat /\ rec.len \in Nat /\ Len(file) \in Nat
      /\ moved.start = rec.start - by /\ moved.len = rec.len /\ moved.seq = rec.seq
      /\ moved.start \in Nat
  BY DEF Record
<1>2. rec.start + rec.len <= n
  BY DEF CompEnd
<1>3. /\ Len(SubSeq(file, by + 1, n)) = n - by
      /\ \A i \in 1 .. n - by : SubSeq(file, by + 1, n)[i] = file[i + by]
  BY <1>1, <1>2, SubSeqProperties
<1>4. CompEnd(moved) <= n - by
  BY <1>1, <1>2 DEF CompEnd
<1>5. ASSUME NEW j \in 1 .. moved.len
      PROVE  SubSeq(file, by + 1, n)[moved.start + j] = <<moved.seq, j>>
  <2>1. moved.start + j \in 1 .. n - by /\ moved.start + j + by = rec.start + j
    BY <1>1, <1>2
  <2>2. file[rec.start + j] = <<rec.seq, j>>
    BY <1>1 DEF Located
  <2>3. QED
    BY <1>1, <1>3, <2>1, <2>2
<1>6. QED
  BY <1>3, <1>4, <1>5 DEF Located

\* A file keeps its frames when what changes lies before them, or behind.
LEMMA StaysLocated ==
    ASSUME NEW file \in Seq(Cell), NEW new \in Seq(Cell), NEW rec \in Record, Located(file, rec),
           NEW at \in Nat, NEW to \in Nat, Len(file) <= Len(new),
           \A i \in 1 .. Len(file) : i <= at \/ i > to => new[i] = file[i],
           CompEnd(rec) <= at \/ to <= rec.start
    PROVE  Located(new, rec)
<1>1. rec.start \in Nat /\ rec.len \in Nat /\ Len(file) \in Nat /\ Len(new) \in Nat
  BY DEF Record
<1>2. rec.start + rec.len <= Len(file) /\ (rec.start + rec.len <= at \/ to <= rec.start)
  BY DEF Located, CompEnd
<1>3. ASSUME NEW j \in 1 .. rec.len
      PROVE  new[rec.start + j] = <<rec.seq, j>>
  <2>1. /\ rec.start + j \in 1 .. Len(file)
        /\ rec.start + j <= at \/ rec.start + j > to
    BY <1>1, <1>2
  <2>2. QED
    BY <2>1 DEF Located
<1>4. QED
  BY <1>1, <1>2, <1>3 DEF Located, CompEnd

LEMMA Overwritten ==
    ASSUME NEW file \in Seq(Cell), NEW at \in Nat, NEW new \in Seq(Cell)
    PROVE  /\ Overwrite(file, at, new) \in Seq(Cell)
           /\ Len(file) <= Len(Overwrite(file, at, new))
           /\ at + Len(new) <= Len(Overwrite(file, at, new))
           /\ Len(file) <= at + Len(new) => Len(Overwrite(file, at, new)) = at + Len(new)
           /\ at + Len(new) <= Len(file) => Len(Overwrite(file, at, new)) = Len(file)
           /\ \A i \in 1 .. Len(file) : i <= at \/ i > at + Len(new) =>
                  Overwrite(file, at, new)[i] = file[i]
           /\ \A j \in 1 .. Len(new) : Overwrite(file, at, new)[at + j] = new[j]
<1> DEFINE m == Max({Len(file), at + Len(new)})
<1> DEFINE F(i) == IF i > at /\ i <= at + Len(new) THEN new[i - at]
                   ELSE IF i <= Len(file) THEN file[i] ELSE Hole
<1>1. Len(file) \in Nat /\ Len(new) \in Nat /\ at + Len(new) \in Nat
  OBVIOUS
<1>2. /\ m \in Nat /\ Len(file) <= m /\ at + Len(new) <= m
      /\ Len(file) <= at + Len(new) => m = at + Len(new)
      /\ at + Len(new) <= Len(file) => m = Len(file)
  <2>1. \A a, b \in Nat : /\ a <= b => Max({a, b}) = b
                          /\ b <= a => Max({a, b}) = a
    BY DEF Max
  <2>2. QED
    BY <1>1, <2>1
<1> HIDE DEF m
<1>3. \A i \in 1 .. m : F(i) \in Cell
  <2>1. Hole \in Cell
    BY DEF Hole, Cell
  <2>2. \A i \in 1 .. m : i > at /\ i <= at + Len(new) => i - at \in 1 .. Len(new)
    BY <1>1, <1>2
  <2>3. \A k \in 1 .. Len(new) : new[k] \in Cell
    BY ElementOfSeq
  <2>4. \A k \in 1 .. Len(file) : file[k] \in Cell
    BY ElementOfSeq
  <2>5. QED
    BY <1>1, <1>2, <2>1, <2>2, <2>3, <2>4
<1>4. Overwrite(file, at, new) = [i \in 1 .. m |-> F(i)]
  BY DEF Overwrite, m
<1> HIDE DEF F
<1>5. /\ Overwrite(file, at, new) \in Seq(Cell)
      /\ Len(Overwrite(file, at, new)) = m
      /\ \A i \in 1 .. m : Overwrite(file, at, new)[i] = F(i)
  BY <1>2, <1>3, <1>4, FunctionIsSeq
<1>6. \A i \in 1 .. Len(file) : i <= at \/ i > at + Len(new) => F(i) = file[i]
  BY <1>1 DEF F
<1>7. \A j \in 1 .. Len(new) : at + j \in 1 .. m /\ F(at + j) = new[j]
  <2>1. \A j \in 1 .. Len(new) : at + j \in 1 .. m /\ at + j > at /\ at + j <= at + Len(new)
                                 /\ (at + j) - at = j
    BY <1>1, <1>2
  <2>2. QED
    BY <2>1 DEF F
<1>8. \A i \in 1 .. Len(file) : i \in 1 .. m
  BY <1>1, <1>2
<1>9. QED
  BY <1>2, <1>5, <1>6, <1>7, <1>8

\* One file of many changes.
LEMMA FileChanged ==
    ASSUME NEW files \in Seq(Seq(Cell)), NEW n \in 1 .. Len(files), NEW new \in Seq(Cell)
    PROVE  /\ [files EXCEPT ![n] = new] \in Seq(Seq(Cell))
           /\ Len([files EXCEPT ![n] = new]) = Len(files)
           /\ [files EXCEPT ![n] = new][n] = new
           /\ \A m \in 1 .. Len(files) : m # n => [files EXCEPT ![n] = new][m] = files[m]
<1>1. [files EXCEPT ![n] = new] \in Seq(Seq(Cell)) /\ Len([files EXCEPT ![n] = new]) = Len(files)
  BY ExceptSeq
<1>2. DOMAIN files = 1 .. Len(files)
  BY LenProperties
<1>3. QED
  BY <1>1, <1>2

\* Stamping a sliver that holds a header leaves what lies behind the sliver.
LEMMA Stamped ==
    ASSUME NEW file \in Seq(Cell), NEW sliver \in Nat,
           sliver = 0 \/ (HeaderMin <= sliver /\ sliver <= Len(file))
    PROVE  /\ Stamp(file, sliver) \in Seq(Cell)
           /\ Len(Stamp(file, sliver)) = Len(file)
           /\ \A i \in 1 .. Len(file) : i > sliver => Stamp(file, sliver)[i] = file[i]
<1>1. HeaderMin \in Nat /\ Len(file) \in Nat
  BY ConstantsAssumption
<1>2. StampCells(sliver) \in Seq(Cell) /\ Len(StampCells(sliver)) = HeaderMin
  <2>1. \A i \in 1 .. HeaderMin : <<-1, sliver>> \in Cell
    BY DEF Cell
  <2>2. QED
    BY <1>1, <2>1, FunctionIsSeq DEF StampCells
<1>3. CASE sliver = 0
  BY <1>3 DEF Stamp
<1>4. CASE sliver # 0
  <2>1. 0 + Len(StampCells(sliver)) <= Len(file)
    BY <1>1, <1>2, <1>4
  <2>2. /\ Overwrite(file, 0, StampCells(sliver)) \in Seq(Cell)
        /\ Len(Overwrite(file, 0, StampCells(sliver))) = Len(file)
        /\ \A i \in 1 .. Len(file) : i > 0 + Len(StampCells(sliver)) =>
               Overwrite(file, 0, StampCells(sliver))[i] = file[i]
    BY <1>2, <2>1, Overwritten
  <2>3. \A i \in 1 .. Len(file) : i > sliver => i > 0 + Len(StampCells(sliver))
    BY <1>1, <1>2, <1>4
  <2>4. QED
    BY <1>4, <2>2, <2>3 DEF Stamp
<1>5. QED
  BY <1>3, <1>4

\* collapse_alignment cuts no more than what goes, and leaves nothing or room for a
\* header.
LEMMA AlignmentFits ==
    ASSUME NEW c \in Nat, Alignment(c) > 0
    PROVE  /\ Alignment(c) \in Nat /\ Alignment(c) <= c /\ c - Alignment(c) \in Nat
           /\ c - Alignment(c) = 0 \/ HeaderMin <= c - Alignment(c)
<1> DEFINE q == c \div BSize
           down == q * BSize
<1>1. BSize \in Nat \ {0} /\ HeaderMin \in Nat /\ HeaderMin <= BSize
  BY ConstantsAssumption
<1>2. q \in Nat /\ q * BSize <= c
  <2>1. \A b \in Nat \ {0} : (c \div b) \in Nat /\ (c \div b) * b <= c
    OBVIOUS
  <2>2. QED
    BY <1>1, <2>1
<1> HIDE DEF q
<1>3. down \in Nat /\ down <= c
  BY <1>1, <1>2
<1>4. Alignment(c) = IF c - down = 0 \/ c - down >= HeaderMin THEN down ELSE down - BSize
  BY DEF Alignment, q
<1> HIDE DEF down
<1>5. QED
  BY <1>1, <1>3, <1>4

\* What is left of an index.
LEMMA RemainsFit ==
    ASSUME NEW recs \in Seq(Record), Ordered(recs), NEW k \in 1 .. Len(recs),
           NEW by \in Nat, by <= CompEnd(recs[k])
    PROVE  /\ Remains(recs, k, by) \in Seq(Record)
           /\ Len(Remains(recs, k, by)) = Len(recs) - k
           /\ \A i \in 1 .. Len(recs) - k :
                 /\ i + k \in 1 .. Len(recs)
                 /\ Remains(recs, k, by)[i] = [recs[i + k] EXCEPT !.start = @ - by]
                 /\ Remains(recs, k, by)[i].seq = recs[i + k].seq
                 /\ Remains(recs, k, by)[i].len = recs[i + k].len
                 /\ Remains(recs, k, by)[i].start = recs[i + k].start - by
                 /\ CompEnd(Remains(recs, k, by)[i]) = CompEnd(recs[i + k]) - by
                 /\ CompEnd(recs[k]) <= recs[i + k].start
           /\ Ordered(Remains(recs, k, by))
           /\ k < Len(recs) => Extent(Remains(recs, k, by)) = Extent(recs) - by
<1>1. /\ Len(recs) \in Nat /\ k \in Nat /\ Len(recs) - k \in Nat
      /\ \A i \in 1 .. Len(recs) : /\ recs[i] \in Record /\ recs[i].start \in Nat
                                   /\ recs[i].len \in Nat /\ recs[i].seq \in Int
                                   /\ CompEnd(recs[i]) \in Nat
  <2>1. \A i \in 1 .. Len(recs) : recs[i] \in Record
    BY ElementOfSeq
  <2>2. ASSUME NEW rec \in Record
        PROVE  /\ rec.start \in Nat /\ rec.len \in Nat /\ rec.seq \in Int
               /\ CompEnd(rec) \in Nat
    <3>1. rec.start \in Nat /\ rec.len \in Nat /\ rec.seq \in Int
      BY DEF Record
    <3>2. QED
      BY <3>1 DEF CompEnd
  <2>3. Len(recs) \in Nat /\ k \in Nat /\ Len(recs) - k \in Nat
    BY LenProperties
  <2>4. QED
    BY <2>1, <2>2, <2>3
<1>2. \A i \in 1 .. Len(recs) - k : i + k \in 1 .. Len(recs) /\ k < i + k
  BY <1>1
<1>3. \A i \in 1 .. Len(recs) - k : CompEnd(recs[k]) <= recs[i + k].start
  BY <1>1, <1>2 DEF Ordered
<1>4. \A i \in 1 .. Len(recs) - k : [recs[i + k] EXCEPT !.start = @ - by] \in Record
  <2> TAKE i \in 1 .. Len(recs) - k
  <2>1. recs[i + k] \in Record /\ recs[i + k].start - by \in Nat
    BY <1>1, <1>2, <1>3
  <2>2. QED
    BY <2>1 DEF Record
<1>5. /\ Remains(recs, k, by) \in Seq(Record)
      /\ Len(Remains(recs, k, by)) = Len(recs) - k
      /\ \A i \in 1 .. Len(recs) - k :
             Remains(recs, k, by)[i] = [recs[i + k] EXCEPT !.start = @ - by]
  BY <1>1, <1>4, FunctionIsSeq DEF Remains
<1>6. \A i \in 1 .. Len(recs) - k :
          /\ Remains(recs, k, by)[i].seq = recs[i + k].seq
          /\ Remains(recs, k, by)[i].len = recs[i + k].len
          /\ Remains(recs, k, by)[i].start = recs[i + k].start - by
          /\ CompEnd(Remains(recs, k, by)[i]) = CompEnd(recs[i + k]) - by
  <2> TAKE i \in 1 .. Len(recs) - k
  <2>1. recs[i + k] \in Record /\ recs[i + k].start \in Nat /\ recs[i + k].len \in Nat
    BY <1>1, <1>2
  <2>2. Remains(recs, k, by)[i] = [recs[i + k] EXCEPT !.start = @ - by]
    BY <1>5
  <2>3. /\ Remains(recs, k, by)[i].seq = recs[i + k].seq
        /\ Remains(recs, k, by)[i].len = recs[i + k].len
        /\ Remains(recs, k, by)[i].start = recs[i + k].start - by
    BY <2>1, <2>2 DEF Record
  <2>4. QED
    BY <2>1, <2>3 DEF CompEnd
<1>7. Ordered(Remains(recs, k, by))
  <2> SUFFICES ASSUME NEW i \in 1 .. Len(recs) - k, NEW j \in 1 .. Len(recs) - k, i < j
               PROVE  CompEnd(Remains(recs, k, by)[i]) <= Remains(recs, k, by)[j].start
    BY <1>5 DEF Ordered
  <2>1. i + k \in 1 .. Len(recs) /\ j + k \in 1 .. Len(recs) /\ i + k < j + k
    BY <1>1, <1>2
  <2>2. CompEnd(recs[i + k]) <= recs[j + k].start
    BY <2>1 DEF Ordered
  <2>3. QED
    BY <1>1, <1>6, <2>1, <2>2
<1>8. ASSUME k < Len(recs) PROVE Extent(Remains(recs, k, by)) = Extent(recs) - by
  <2>1. Len(recs) - k \in 1 .. Len(recs) - k /\ (Len(recs) - k) + k = Len(recs)
    BY <1>1, <1>8
  <2>2. recs # <<>> /\ Remains(recs, k, by) # <<>>
    <3>1. Len(recs) # 0 /\ Len(Remains(recs, k, by)) # 0
      BY <1>1, <1>5, <2>1
    <3>2. QED
      BY <3>1, EmptySeq
  <2>3. QED
    BY <1>5, <1>6, <2>1, <2>2 DEF Extent
<1>9. QED
  BY <1>2, <1>3, <1>5, <1>6, <1>7, <1>8

------------------------------------------------------------------------------
\* The environments the code recovers from: no writer dies between the renames of a
\* rewrite; where one may die in a collapse, the trunk ends where the index does, as
\* none dies in an append and no drop takes every chunk; and a process that reconciles
\* beside a running writer does not read.
DropsRecover ==
    \A e \in Environments :
        /\ "remove" \notin e.crashes
        /\ "collapse" \in e.crashes => "append" \notin e.crashes /\ ~e.mayEmpty
        /\ "reconcile" \in e.readers /\ "alone" \notin e.readers => "read" \notin e.readers

Meddling == "reconcile" \in env.readers /\ "alone" \notin env.readers
Exact == "collapse" \in env.crashes

Opening == {"down", "reconcile", "load"}
Cutting == {"c_mark", "c_odd", "c_cut"}
Shifted == {"c_stamp", "c_rename", "c_grain", "c_even", "c_unmark"}
Rewriting == {"r_stage", "r_odd", "r_trunk"}
Renamed == {"r_rings", "r_grain", "r_even"}
Resting == {"idle", "record"} \cup Cutting \cup Rewriting
InWindow == {"c_cut", "c_stamp", "c_rename", "c_grain", "c_even",
             "r_trunk", "r_rings", "r_grain", "r_even"}
Marked == {"c_odd", "c_cut"} \cup Shifted

\* The variables' types.
Shaped(r) == /\ r = [next |-> r.next, dropped |-> r.dropped, recs |-> r.recs]
             /\ r.recs \in Seq(Record)
Typed ==
    /\ inodes \in Seq(Seq(Cell))
    /\ trunk \in 1 .. Len(inodes) /\ fd \in 1 .. Len(inodes)
    /\ Shaped(rings) /\ Shaped(staged)
    /\ rings.next \in Nat /\ (staged # NoRings => staged.next \in Nat)
    /\ trim.pre \in Int /\ trim.aligned \in Nat /\ trim.sliver \in Nat
    /\ seqlock \in Nat /\ seq0 \in Nat /\ grain \in Seq(Int)
    /\ pc \in Opening \cup Resting \cup Shifted \cup Renamed
    /\ chunks \in Seq(Record) /\ compSize \in Nat /\ nextSeq \in Nat /\ cut \in Nat

\* What a reconciliation has read of the store is what the store is, since only one
\* process reconciles at a time.
LooksTrue ==
    /\ pc = "reconcile" =>
          /\ seen.trim = trim /\ seen.size = Len(Trunk)
          /\ rpc # "reconcile"
    /\ rpc = "reconcile" => pc = "down" /\ rseen.trim = trim /\ rseen.size = Len(Trunk)
    /\ rpc \in {"look", "reconcile"} => "reconcile" \in env.readers

\* Filters that are those of an index, as far as they go.
FitsGrain(recs) ==
    grain # NoGrain => /\ Len(grain) <= Len(recs)
                       /\ \A i \in 1 .. Len(grain) : grain[i] = recs[i].seq

\* A trunk that holds what an index names, and where it must be told from a cut one,
\* nothing more.
Holds(file, recs) ==
    /\ AllLocated(file, recs) /\ Ordered(recs)
    /\ Exact => Len(file) = Extent(recs)

------------------------------------------------------------------------------
\* A store without a writer.  A marker's size tells a collapse that landed, whose
\* staged index is right or already in place, from one that did not.
Uncut == trim = NoTrim \/ Len(Trunk) = trim.pre

Recoverable ==
    /\ trim = NoTrim => ~IsOdd(seqlock)
    /\ Uncut => Holds(Trunk, rings.recs) /\ FitsGrain(rings.recs)
    /\ ~Uncut =>
          LET recs == IF staged = NoRings THEN rings.recs ELSE staged.recs IN
          /\ Len(Trunk) = trim.pre - trim.aligned
          /\ trim.sliver = 0 \/ HeaderMin <= trim.sliver
          /\ trim.sliver <= Len(Trunk)
          /\ IsOdd(seqlock) \/ (staged = NoRings /\ FitsGrain(rings.recs))
          /\ Holds(Trunk, recs)
          /\ \A i \in 1 .. Len(recs) : trim.sliver <= recs[i].start

AtRest == (pc = "load" => trim = NoTrim) /\ Recoverable

------------------------------------------------------------------------------
\* A store with a writer at work, piece by piece: its index in memory and the drop it
\* has under way, ...
MemoryRight ==
    /\ attached = TRUE
    /\ pc \notin Renamed => fd = trunk
    /\ Ordered(chunks)
    /\ \A i \in 1 .. Len(chunks) : CompEnd(chunks[i]) <= compSize
    /\ Exact => compSize = Extent(chunks)
    /\ pc \in Cutting \cup Shifted \cup Rewriting \cup Renamed =>
          cut \in 1 .. Len(chunks) /\ (Exact => cut < Len(chunks))
    /\ pc \in Cutting \cup Shifted => Aligned > 0

\* ... the trunk, before the cut and after it, ...
UncutRight ==
    pc \in Resting =>
        /\ AllLocated(inodes[fd], chunks)
        /\ compSize <= Len(inodes[fd])
        /\ Exact => Len(inodes[fd]) = IF pc = "record" THEN compSize + cut ELSE compSize
        /\ pc = "record" =>
              Located(inodes[fd], [seq |-> nextSeq, start |-> compSize, len |-> cut])
LeftRight(file, by) ==
    /\ AllLocated(file, Remains(chunks, cut, by))
    /\ compSize - by <= Len(file)
    /\ Exact => Len(file) = compSize - by
TrunkRight ==
    /\ UncutRight
    /\ pc \in Shifted => LeftRight(Trunk, Aligned)
    /\ pc \in Renamed => LeftRight(Trunk, CompCut)

\* ... the index on disk and the one staged beside it, ...
IndexRight ==
    /\ pc \in {"c_grain", "c_even", "c_unmark"} => rings.recs = Remains(chunks, cut, Aligned)
    /\ pc \in {"r_grain", "r_even"} => rings.recs = Remains(chunks, cut, CompCut)
    /\ pc \notin {"c_grain", "c_even", "c_unmark", "r_grain", "r_even"} => rings.recs = chunks
StagedRight ==
    /\ pc \in {"c_mark", "c_odd", "c_cut", "c_stamp", "c_rename"} =>
          staged # NoRings /\ staged.recs = Remains(chunks, cut, Aligned)
    /\ pc \in {"r_odd", "r_trunk", "r_rings"} =>
          staged # NoRings /\ staged.recs = Remains(chunks, cut, CompCut)
    /\ pc \in {"c_grain", "c_even", "c_unmark"} => staged = NoRings

\* ... the marker, the counter and the filters.
SideRight ==
    /\ pc \in Marked => trim = [pre |-> compSize, aligned |-> Aligned, sliver |-> Sliver]
    /\ pc \notin Marked => trim = NoTrim
    /\ pc \in InWindow => IsOdd(seqlock) /\ seqlock = seq0 + 1
    /\ pc \notin InWindow => ~IsOdd(seqlock)
    /\ IF pc \in {"c_grain", "r_grain"} THEN FitsGrain(chunks) ELSE FitsGrain(rings.recs)

AtWork == MemoryRight /\ TrunkRight /\ IndexRight /\ StagedRight /\ SideRight

StoreRight == IF pc \in Opening THEN AtRest ELSE AtWork

StoreInv == Typed /\ LooksTrue /\ StoreRight

------------------------------------------------------------------------------
\* Where a drop cuts.
LEMMA WhereItCuts ==
    ASSUME Typed, MemoryRight, pc \in Cutting \cup Shifted \cup Rewriting \cup Renamed
    PROVE  /\ cut \in 1 .. Len(chunks) /\ chunks[cut] \in Record
           /\ CompCut \in Nat /\ CompCut <= compSize
           /\ \A by : Rebased(cut, by) = Remains(chunks, cut, by)
           /\ pc \in Cutting \cup Shifted =>
                 /\ Aligned \in Nat /\ 0 < Aligned /\ Aligned <= CompCut
                 /\ Sliver \in Nat /\ Aligned + Sliver = CompCut
                 /\ Sliver = 0 \/ HeaderMin <= Sliver
<1>1. cut \in 1 .. Len(chunks) /\ chunks[cut] \in Record
  BY ElementOfSeq DEF Typed, MemoryRight
<1>2. CompCut \in Nat /\ CompCut <= compSize
  BY <1>1 DEF MemoryRight, CompCut, CompEnd, Record
<1>3. \A by : Rebased(cut, by) = Remains(chunks, cut, by)
  BY DEF Rebased, Remains
<1>4. ASSUME pc \in Cutting \cup Shifted
      PROVE  /\ Aligned \in Nat /\ 0 < Aligned /\ Aligned <= CompCut
             /\ Sliver \in Nat /\ Aligned + Sliver = CompCut
             /\ Sliver = 0 \/ HeaderMin <= Sliver
  <2>1. Aligned > 0
    BY <1>4 DEF MemoryRight
  <2>2. /\ Aligned \in Nat /\ Aligned <= CompCut /\ CompCut - Aligned \in Nat
        /\ CompCut - Aligned = 0 \/ HeaderMin <= CompCut - Aligned
    BY <1>2, <2>1, AlignmentFits DEF Aligned
  <2>3. QED
    BY <1>2, <2>1, <2>2 DEF Sliver
<1>5. QED
  BY <1>1, <1>2, <1>3, <1>4

LEMMA SizesOfTrunk ==
    ASSUME Typed
    PROVE  /\ Len(inodes) \in Nat /\ inodes[fd] \in Seq(Cell) /\ Trunk \in Seq(Cell)
           /\ Len(inodes[fd]) \in Nat /\ Len(Trunk) \in Nat /\ Len(chunks) \in Nat
           /\ \A i \in 1 .. Len(chunks) :
                 /\ chunks[i] \in Record /\ chunks[i].start \in Nat /\ chunks[i].len \in Nat
                 /\ CompEnd(chunks[i]) \in Nat
<1>1. /\ inodes[fd] \in Seq(Cell) /\ Trunk \in Seq(Cell)
      /\ \A i \in 1 .. Len(chunks) : chunks[i] \in Record
  BY ElementOfSeq DEF Typed, Trunk
<1>2. \A rec \in Record : rec.start \in Nat /\ rec.len \in Nat /\ CompEnd(rec) \in Nat
  BY DEF Record, CompEnd
<1>3. Len(inodes) \in Nat /\ Len(inodes[fd]) \in Nat /\ Len(Trunk) \in Nat /\ Len(chunks) \in Nat
  BY <1>1, LenProperties DEF Typed
<1>4. QED
  BY <1>1, <1>2, <1>3

\* A step that leaves trunk and index as they are in its phase.
Steady ==
    /\ UNCHANGED <<inodes, trunk, fd, attached, chunks, compSize, nextSeq, cut, env>>
    /\ \/ pc \in Cutting /\ pc' \in Cutting \cup {"r_stage"}
       \/ pc \in {"r_stage", "r_odd"} /\ pc' \in {"r_odd", "r_trunk"}
       \/ pc \in Shifted /\ pc' \in Shifted
       \/ pc \in Renamed /\ pc' \in Renamed
       \/ pc = "idle" /\ pc' = "idle"

LEMMA SteadyShapes ==
    ASSUME UNCHANGED <<chunks, cut, compSize, env>>
    PROVE  /\ CompCut' = CompCut /\ Aligned' = Aligned /\ Sliver' = Sliver /\ Exact' = Exact
           /\ Extent(chunks)' = Extent(chunks) /\ Ordered(chunks)' = Ordered(chunks)
           /\ \A by : Remains(chunks, cut, by)' = Remains(chunks, cut, by)
BY DEF CompCut, Aligned, Sliver, Exact, Remains, Extent, Ordered

LEMMA SteadyMemory ==
    ASSUME Steady, MemoryRight
    PROVE  MemoryRight'
<1>1. /\ attached' = attached /\ fd' = fd /\ trunk' = trunk /\ chunks' = chunks
      /\ compSize' = compSize /\ cut' = cut
  BY DEF Steady
<1>2. Aligned' = Aligned /\ Exact' = Exact /\ Extent(chunks)' = Extent(chunks)
  BY SteadyShapes DEF Steady
<1>3. /\ pc' \in Renamed => pc \in Renamed
      /\ pc' \in Cutting \cup Shifted => pc \in Cutting \cup Shifted
      /\ pc' \in Cutting \cup Shifted \cup Rewriting \cup Renamed
             => pc \in Cutting \cup Shifted \cup Rewriting \cup Renamed
      /\ pc' \notin Renamed => pc \notin Renamed
  BY DEF Steady, Cutting, Shifted, Rewriting, Renamed
<1>4. QED
  BY <1>1, <1>2, <1>3 DEF MemoryRight, Ordered, CompEnd

LEMMA SteadyTrunk ==
    ASSUME Steady, TrunkRight
    PROVE  TrunkRight'
<1>1. /\ inodes' = inodes /\ fd' = fd /\ trunk' = trunk /\ chunks' = chunks
      /\ compSize' = compSize /\ cut' = cut /\ nextSeq' = nextSeq
  BY DEF Steady
<1>2. Aligned' = Aligned /\ CompCut' = CompCut /\ Exact' = Exact /\ Trunk' = Trunk
  BY SteadyShapes DEF Steady, Trunk
<1>3. /\ pc' # "record" /\ pc # "record"
      /\ pc' \in Resting => pc \in Resting
      /\ pc' \in Shifted => pc \in Shifted
      /\ pc' \in Renamed => pc \in Renamed
  BY DEF Steady, Cutting, Shifted, Rewriting, Renamed, Resting
<1>4. UncutRight'
  BY <1>1, <1>2, <1>3 DEF TrunkRight, UncutRight, AllLocated, Located, CompEnd
<1>5. pc' \in Shifted => LeftRight(Trunk, Aligned)'
  <2>1. Remains(chunks, cut, Aligned)' = Remains(chunks, cut, Aligned)
    BY <1>1, <1>2 DEF Remains
  <2>2. QED
    BY <1>1, <1>2, <1>3, <2>1 DEF TrunkRight, LeftRight, AllLocated, Located, CompEnd
<1>6. pc' \in Renamed => LeftRight(Trunk, CompCut)'
  <2>1. Remains(chunks, cut, CompCut)' = Remains(chunks, cut, CompCut)
    BY <1>1, <1>2 DEF Remains
  <2>2. QED
    BY <1>1, <1>2, <1>3, <2>1 DEF TrunkRight, LeftRight, AllLocated, Located, CompEnd
<1>7. QED
  BY <1>4, <1>5, <1>6 DEF TrunkRight

------------------------------------------------------------------------------
\* The steps of a drop that move neither the trunk's bytes nor the index in memory.
LEMMA CounterArithmetic ==
    ASSUME NEW n \in Nat
    PROVE  /\ IsOdd(n) => ~IsOdd(n + 1) /\ n >= 1 /\ ~IsOdd(n - 1) /\ n - 1 \in Nat
           /\ ~IsOdd(n) => IsOdd(n + 1)
           /\ IsOdd(n) = IsOdd(n + 2)
BY DEF IsOdd

SteadyStep ==
    \/ CollapseMark \/ CollapseOdd \/ CollapseRefused \/ CollapseRename \/ CollapseGrain
    \/ CollapseEven \/ RemoveOdd \/ RemoveRings \/ RemoveGrain \/ ExtendGrain

LEMMA StepsAreSteady ==
    ASSUME SteadyStep
    PROVE  Steady /\ rpc' = rpc
BY DEF SteadyStep, Steady, CollapseMark, CollapseOdd, CollapseRefused, CollapseRename, CollapseGrain,
       CollapseEven, RemoveOdd, RemoveRings, RemoveGrain, ExtendGrain, writer, history, reader,
       Cutting, Shifted, Rewriting, Renamed

LEMMA SteadyIndex ==
    ASSUME Typed, AtWork, SteadyStep
    PROVE  IndexRight' /\ StagedRight'
<1>1. chunks' = chunks /\ cut' = cut /\ Aligned' = Aligned /\ CompCut' = CompCut
  BY StepsAreSteady, SteadyShapes DEF Steady
<1>2. /\ Remains(chunks, cut, Aligned)' = Remains(chunks, cut, Aligned)
      /\ Remains(chunks, cut, CompCut)' = Remains(chunks, cut, CompCut)
  BY <1>1 DEF Remains
<1>3. IndexRight /\ StagedRight
  BY DEF AtWork
<1>4. CASE CollapseRename \/ RemoveRings
  BY <1>1, <1>2, <1>3, <1>4 DEF CollapseRename, RemoveRings, IndexRight, StagedRight
<1>5. CASE ~(CollapseRename \/ RemoveRings)
  <2>1. rings' = rings
    BY <1>5 DEF SteadyStep, CollapseMark, CollapseOdd, CollapseRefused, CollapseGrain, CollapseEven,
       RemoveOdd, RemoveGrain, ExtendGrain
  <2>2. IndexRight'
    BY <1>1, <1>2, <1>3, <1>5, <2>1
       DEF SteadyStep, CollapseMark, CollapseOdd, CollapseRefused, CollapseGrain, CollapseEven,
       RemoveOdd, RemoveGrain, ExtendGrain, IndexRight
  <2>3. StagedRight'
    BY <1>1, <1>2, <1>3, <1>5
       DEF SteadyStep, CollapseMark, CollapseOdd, CollapseRefused, CollapseGrain, CollapseEven,
       RemoveOdd, RemoveGrain, ExtendGrain, StagedRight
  <2>4. QED
    BY <2>2, <2>3
<1>6. QED
  BY <1>4, <1>5


LEMMA SteadySides ==
    ASSUME Typed, AtWork, SteadyStep
    PROVE  SideRight'
<1>1. /\ chunks' = chunks /\ cut' = cut /\ compSize' = compSize
      /\ Aligned' = Aligned /\ CompCut' = CompCut /\ Sliver' = Sliver
  BY StepsAreSteady, SteadyShapes DEF Steady
<1>2. /\ seqlock \in Nat /\ seq0 \in Nat /\ SideRight
      /\ IsOdd(seqlock) => ~IsOdd(seqlock + 1) /\ ~IsOdd(seqlock - 1)
      /\ ~IsOdd(seqlock) => IsOdd(seqlock + 1)
  BY CounterArithmetic DEF Typed, AtWork
<1>3. /\ pc' \in Marked => trim' = [pre |-> compSize, aligned |-> Aligned, sliver |-> Sliver]
      /\ pc' \notin Marked => trim' = NoTrim
  BY <1>1, <1>2 DEF SideRight, Marked, Shifted, SteadyStep, CollapseMark, CollapseOdd, CollapseRefused,
     CollapseRename, CollapseGrain, CollapseEven, RemoveOdd, RemoveRings, RemoveGrain, ExtendGrain
<1>4. /\ pc' \in InWindow => IsOdd(seqlock') /\ seqlock' = seq0' + 1
      /\ pc' \notin InWindow => ~IsOdd(seqlock')
  <2>1. CASE CollapseOdd \/ RemoveOdd
    BY <1>2, <2>1 DEF CollapseOdd, RemoveOdd, SideRight, InWindow
  <2>2. CASE CollapseRefused
    <3>1. seqlock = seq0 + 1 /\ IsOdd(seqlock) /\ seqlock' = seq0 /\ pc' = "r_stage"
      BY <1>2, <2>2 DEF CollapseRefused, SideRight, InWindow
    <3>2. seqlock' = seqlock - 1
      BY <1>2, <3>1
    <3>3. QED
      BY <1>2, <3>1, <3>2 DEF InWindow
  <2>3. CASE CollapseEven
    <3>1. seqlock = seq0 + 1 /\ IsOdd(seqlock) /\ seqlock' = seq0 + 2 /\ pc' = "c_unmark"
      BY <1>2, <2>3 DEF CollapseEven, SideRight, InWindow
    <3>2. seqlock' = seqlock + 1
      BY <1>2, <3>1
    <3>3. QED
      BY <1>2, <3>1, <3>2 DEF InWindow
  <2>4. CASE CollapseMark \/ CollapseRename \/ CollapseGrain \/ RemoveRings \/ RemoveGrain \/ ExtendGrain
    BY <1>2, <2>4 DEF CollapseMark, CollapseRename, CollapseGrain, RemoveRings, RemoveGrain, ExtendGrain,
       writer, SideRight, InWindow
  <2>5. QED
    BY <2>1, <2>2, <2>3, <2>4 DEF SteadyStep
<1>5. IF pc' \in {"c_grain", "r_grain"} THEN FitsGrain(chunks)' ELSE FitsGrain(rings.recs)'
  <2>1. IndexRight /\ IF pc \in {"c_grain", "r_grain"} THEN FitsGrain(chunks) ELSE FitsGrain(rings.recs)
    BY <1>2 DEF SideRight, AtWork
  <2>2. CASE CollapseRename \/ RemoveRings
    <3>1. rings.recs = chunks /\ pc' \in {"c_grain", "r_grain"} /\ grain' = grain /\ FitsGrain(chunks)
      BY <2>1, <2>2 DEF CollapseRename, RemoveRings, IndexRight
    <3>2. QED
      BY <1>1, <3>1 DEF FitsGrain
  <2>3. CASE CollapseGrain \/ RemoveGrain
    <3>1. /\ pc' \notin {"c_grain", "r_grain"} /\ grain' = RebasedGrain(cut) /\ rings' = rings
          /\ \/ pc \in Shifted /\ rings.recs = Remains(chunks, cut, Aligned)
             \/ pc \in Renamed /\ rings.recs = Remains(chunks, cut, CompCut)
          /\ FitsGrain(chunks)
      BY <2>1, <2>3 DEF CollapseGrain, RemoveGrain, IndexRight, Shifted, Renamed
    <3>2. /\ cut \in 1 .. Len(chunks) /\ chunks \in Seq(Record) /\ Ordered(chunks)
          /\ CompCut \in Nat /\ (pc \in Shifted => Aligned \in Nat /\ Aligned <= CompCut)
          /\ Len(chunks) \in Nat /\ Len(grain) \in Nat /\ grain \in Seq(Int)
      BY <3>1, WhereItCuts, LenProperties DEF AtWork, MemoryRight, Typed
    <3>3. /\ Len(rings.recs) = Len(chunks) - cut
          /\ \A i \in 1 .. Len(chunks) - cut : rings.recs[i].seq = chunks[i + cut].seq
      <4>1. ASSUME NEW by \in Nat, by <= CompEnd(chunks[cut])
            PROVE  /\ Len(Remains(chunks, cut, by)) = Len(chunks) - cut
                   /\ \A i \in 1 .. Len(chunks) - cut :
                          Remains(chunks, cut, by)[i].seq = chunks[i + cut].seq
        <5>1. Remains(chunks, cut, by) \in Seq(Record) /\ Len(Remains(chunks, cut, by)) = Len(chunks) - cut
          BY <3>2, <4>1, RemainsFit
        <5>2. \A i \in 1 .. Len(chunks) - cut :
                 /\ i + cut \in 1 .. Len(chunks)
                 /\ Remains(chunks, cut, by)[i] = [chunks[i + cut] EXCEPT !.start = @ - by]
          BY <3>2 DEF Remains
        <5>3. \A i \in 1 .. Len(chunks) : chunks[i] \in Record
          BY <3>2, ElementOfSeq
        <5>4. QED
          BY <5>1, <5>2, <5>3 DEF Record
      <4>2. QED
        BY <3>1, <3>2, <4>1 DEF CompCut
    <3>4. CASE grain = NoGrain \/ Len(grain) < cut
      BY <3>1, <3>4 DEF FitsGrain, RebasedGrain
    <3>5. CASE ~(grain = NoGrain \/ Len(grain) < cut)
      <4>1. grain' = SubSeq(grain, cut + 1, Len(grain))
        BY <3>1, <3>5 DEF RebasedGrain
      <4>2. cut + 1 \in Nat \ {0} /\ Len(grain) - (cut + 1) + 1 = Len(grain) - cut
        BY <3>2
      <4>3. /\ Len(grain') = Len(grain) - cut
            /\ \A i \in 1 .. Len(grain) - cut : grain'[i] = grain[cut + 1 + i - 1]
        <5>1. Len(grain') = IF cut + 1 <= Len(grain) THEN Len(grain) - (cut + 1) + 1 ELSE 0
          BY <3>2, <4>1, <4>2, SuffixIsSeq
        <5>2. \A i \in 1 .. Len(grain) - (cut + 1) + 1 : grain'[i] = grain[cut + 1 + i - 1]
          BY <3>2, <4>1, <4>2, SuffixIsSeq
        <5>3. cut + 1 <= Len(grain) \/ Len(grain) - cut = 0
          BY <3>2, <3>5
        <5>4. Len(grain') = Len(grain) - cut
          BY <3>2, <4>2, <5>1, <5>3
        <5>5. QED
          BY <4>2, <5>2, <5>4
      <4>4. Len(grain) <= Len(chunks) /\ \A i \in 1 .. Len(grain) : grain[i] = chunks[i].seq
        BY <3>1, <3>5 DEF FitsGrain
      <4>5. ASSUME NEW i \in 1 .. Len(grain') PROVE grain'[i] = rings.recs[i].seq
        <5>1. i \in 1 .. Len(chunks) - cut /\ i + cut \in 1 .. Len(grain) /\ cut + 1 + i - 1 = i + cut
          BY <3>2, <4>3, <4>4
        <5>2. QED
          BY <3>3, <4>3, <4>4, <5>1
      <4>6. Len(grain') <= Len(rings.recs)
        BY <3>2, <3>3, <4>3, <4>4
      <4>7. QED
        BY <3>1, <4>5, <4>6 DEF FitsGrain
    <3>6. QED
      BY <3>4, <3>5
  <2>4. CASE ExtendGrain
    <3> DEFINE all == [i \in 1 .. Len(rings.recs) |-> rings.recs[i].seq]
    <3>1. /\ pc = "idle" /\ pc' = "idle" /\ rings' = rings /\ FitsGrain(rings.recs)
          /\ grain' = IF grain = NoGrain \/ Len(grain) > Len(all) THEN all
                      ELSE grain \o SubSeq(all, Len(grain) + 1, Len(all))
      BY <2>1, <2>4 DEF ExtendGrain
    <3>2. Len(rings.recs) \in Nat /\ \A i \in 1 .. Len(rings.recs) : rings.recs[i].seq \in Int
      <4>1. rings.recs \in Seq(Record) /\ Len(rings.recs) \in Nat
        BY LenProperties DEF Typed, Shaped
      <4>2. \A i \in 1 .. Len(rings.recs) : rings.recs[i] \in Record
        BY <4>1, ElementOfSeq
      <4>3. QED
        BY <4>1, <4>2 DEF Record
    <3>3. all \in Seq(Int) /\ Len(all) = Len(rings.recs)
          /\ \A i \in 1 .. Len(rings.recs) : all[i] = rings.recs[i].seq
      BY <3>2, FunctionIsSeq
    <3> HIDE DEF all
    <3>4. CASE grain = NoGrain \/ Len(grain) > Len(all)
      BY <3>1, <3>3, <3>4 DEF FitsGrain
    <3>5. CASE ~(grain = NoGrain \/ Len(grain) > Len(all))
      <4>1. /\ grain \in Seq(Int) /\ Len(grain) \in Nat /\ Len(grain) <= Len(all)
            /\ \A i \in 1 .. Len(grain) : grain[i] = all[i]
        BY <3>1, <3>2, <3>3, <3>5, LenProperties DEF FitsGrain, Typed
      <4>2. Len(grain) + 1 \in Nat \ {0}
        BY <4>1
      <4> DEFINE more == SubSeq(all, Len(grain) + 1, Len(all))
      <4>3. /\ more \in Seq(Int)
            /\ Len(more) = IF Len(grain) + 1 <= Len(all) THEN Len(all) - (Len(grain) + 1) + 1 ELSE 0
            /\ \A i \in 1 .. Len(all) - (Len(grain) + 1) + 1 : more[i] = all[Len(grain) + 1 + i - 1]
        BY <3>3, <4>2, SuffixIsSeq
      <4>4. Len(more) = Len(all) - Len(grain)
        BY <3>2, <3>3, <4>1, <4>3
      <4>5. grain' = grain \o more
        BY <3>1, <3>5
      <4> HIDE DEF more
      <4>6. /\ Len(grain') = Len(grain) + Len(more)
            /\ \A i \in 1 .. Len(grain) + Len(more) :
                  grain'[i] = IF i <= Len(grain) THEN grain[i] ELSE more[i - Len(grain)]
        BY <4>1, <4>3, <4>5, ConcatProperties
      <4>7. ASSUME NEW i \in 1 .. Len(all) PROVE grain'[i] = all[i]
        <5>1. CASE i <= Len(grain)
          BY <3>2, <3>3, <4>1, <4>4, <4>6, <5>1
        <5>2. CASE ~(i <= Len(grain))
          <6>1. /\ i - Len(grain) \in 1 .. Len(all) - (Len(grain) + 1) + 1
                /\ Len(grain) + 1 + (i - Len(grain)) - 1 = i
                /\ i \in 1 .. Len(grain) + Len(more)
            BY <3>2, <3>3, <4>1, <4>4, <5>2
          <6>2. QED
            BY <4>3, <4>6, <5>2, <6>1
        <5>3. QED
          BY <5>1, <5>2
      <4>8. Len(grain') = Len(all)
        BY <3>2, <3>3, <4>1, <4>4, <4>6
      <4>9. QED
        BY <3>1, <3>3, <4>7, <4>8 DEF FitsGrain
    <3>6. QED
      BY <3>4, <3>5
  <2>5. CASE CollapseMark \/ CollapseOdd \/ CollapseRefused \/ CollapseEven \/ RemoveOdd
    BY <2>1, <2>5 DEF CollapseMark, CollapseOdd, CollapseRefused, CollapseEven, RemoveOdd, FitsGrain
  <2>6. QED
    BY <2>2, <2>3, <2>4, <2>5 DEF SteadyStep
<1>6. QED
  BY <1>1, <1>3, <1>4, <1>5 DEF SideRight


LEMMA SteadyTypes ==
    ASSUME Typed, AtWork, SteadyStep
    PROVE  Typed'
<1>1. /\ UNCHANGED <<inodes, trunk, fd, chunks, compSize, nextSeq, cut>>
      /\ pc' \in Opening \cup Resting \cup Shifted \cup Renamed
  BY StepsAreSteady DEF Steady, Typed, Resting, Cutting, Rewriting
<1>2. Shaped(NoRings) /\ NoRings.next \in Int
  BY EmptySeq DEF Shaped, NoRings
<1>3. Shaped(rings') /\ Shaped(staged') /\ rings'.next \in Nat /\ (staged' # NoRings => staged'.next \in Nat)
  BY <1>2 DEF Typed, SteadyStep, CollapseMark, CollapseOdd, CollapseRefused, CollapseRename, CollapseGrain,
     CollapseEven, RemoveOdd, RemoveRings, RemoveGrain, ExtendGrain
<1>4. trim'.pre \in Int /\ trim'.aligned \in Nat /\ trim'.sliver \in Nat
  <2>1. CASE CollapseMark
    BY <2>1, WhereItCuts DEF AtWork, CollapseMark, Typed, Cutting
  <2>2. CASE ~CollapseMark
    <3>1. trim' = trim \/ trim' = NoTrim
      BY <2>2 DEF SteadyStep, CollapseOdd, CollapseRefused, CollapseRename, CollapseGrain,
         CollapseEven, RemoveOdd, RemoveRings, RemoveGrain, ExtendGrain
    <3>2. NoTrim.pre \in Int /\ NoTrim.aligned \in Nat /\ NoTrim.sliver \in Nat
      BY DEF NoTrim
    <3>3. QED
      BY <3>1, <3>2 DEF Typed
  <2>3. QED
    BY <2>1, <2>2
<1>5. seqlock' \in Nat /\ seq0' \in Nat
  <2>1. seqlock' \in {seqlock, seqlock + 1, seq0, seq0 + 2} /\ seq0' \in {seq0, seqlock, 0}
    BY DEF SteadyStep, CollapseMark, CollapseOdd, CollapseRefused, CollapseRename, CollapseGrain,
       CollapseEven, RemoveOdd, RemoveRings, RemoveGrain, ExtendGrain, writer
  <2>2. QED
    BY <2>1 DEF Typed
<1>6. grain' \in Seq(Int)
  <2>1. CASE CollapseGrain \/ RemoveGrain
    <3>1. cut \in Nat /\ cut + 1 \in Nat \ {0} /\ grain \in Seq(Int) /\ NoGrain \in Seq(Int)
      BY DEF Typed, NoGrain
    <3>2. SubSeq(grain, cut + 1, Len(grain)) \in Seq(Int)
      BY <3>1, SuffixIsSeq
    <3>3. grain' \in {NoGrain, SubSeq(grain, cut + 1, Len(grain))}
      BY <2>1 DEF CollapseGrain, RemoveGrain, RebasedGrain
    <3>4. QED
      BY <3>1, <3>2, <3>3
  <2>2. CASE ExtendGrain
    <3> DEFINE all == [i \in 1 .. Len(rings.recs) |-> rings.recs[i].seq]
    <3>1. rings.recs \in Seq(Record) /\ Len(rings.recs) \in Nat
      BY LenProperties DEF Typed, Shaped
    <3>2. \A i \in 1 .. Len(rings.recs) : rings.recs[i].seq \in Int
      <4>1. \A i \in 1 .. Len(rings.recs) : rings.recs[i] \in Record
        BY <3>1, ElementOfSeq
      <4>2. QED
        BY <4>1 DEF Record
    <3>3. all \in Seq(Int) /\ Len(all) \in Nat /\ grain \in Seq(Int) /\ Len(grain) + 1 \in Nat \ {0}
      <4>1. all \in Seq(Int) /\ Len(all) = Len(rings.recs)
        BY <3>1, <3>2, FunctionIsSeq
      <4>2. grain \in Seq(Int) /\ Len(grain) \in Nat
        BY LenProperties DEF Typed
      <4>3. QED
        BY <3>1, <4>1, <4>2
    <3>4. grain' \in {all, grain \o SubSeq(all, Len(grain) + 1, Len(all))}
      BY <2>2 DEF ExtendGrain
    <3> HIDE DEF all
    <3>5. SubSeq(all, Len(grain) + 1, Len(all)) \in Seq(Int)
      BY <3>3, SuffixIsSeq
    <3>6. grain \o SubSeq(all, Len(grain) + 1, Len(all)) \in Seq(Int)
      BY <3>3, <3>5, ConcatProperties
    <3>7. QED
      BY <3>3, <3>4, <3>6
  <2>3. CASE ~(CollapseGrain \/ RemoveGrain \/ ExtendGrain)
    BY <2>3 DEF Typed, SteadyStep, CollapseMark, CollapseOdd, CollapseRefused, CollapseRename,
       CollapseEven, RemoveOdd, RemoveRings
  <2>4. QED
    BY <2>1, <2>2, <2>3
<1>7. QED
  BY <1>1, <1>3, <1>4, <1>5, <1>6 DEF Typed

LEMMA SteadyRight ==
    ASSUME Typed, AtWork, SteadyStep
    PROVE  Typed' /\ AtWork'
BY StepsAreSteady, SteadyTypes, SteadyMemory, SteadyTrunk, SteadyIndex, SteadySides DEF AtWork

------------------------------------------------------------------------------
\* A drop begins.
LEMMA StageRight ==
    ASSUME DropsRecover, env \in Environments, Typed, AtWork, NEW k \in Droppable \cup {cut},
           (k \in Droppable /\ CollapseStage(k)) \/ RemoveStage(k)
    PROVE  Typed' /\ AtWork'
<1> DEFINE by == CompEnd(chunks[k])
           al == IF CollapseStage(k) THEN Alignment(by) ELSE by
<1>1. /\ UNCHANGED <<inodes, trunk, rings, trim, seqlock, grain, fd, attached, chunks, compSize,
                     nextSeq, seq0, env>>
      /\ cut' = k
      /\ pc \in {"idle", "r_stage"} /\ pc # "record"
      /\ \/ pc = "idle" /\ pc' = "c_mark" /\ CollapseStage(k) /\ Alignment(by) > 0
         \/ pc' = "r_odd" /\ ~CollapseStage(k)
  BY DEF CollapseStage, RemoveStage, history
<1>2. /\ k \in 1 .. Len(chunks) /\ (Exact => k < Len(chunks))
      /\ chunks \in Seq(Record) /\ Ordered(chunks) /\ Len(chunks) \in Nat
  <2>1. CASE pc = "r_stage"
    <3>1. k = cut
      BY <1>1, <2>1 DEF CollapseStage, RemoveStage
    <3>2. QED
      BY <2>1, <3>1, LenProperties DEF AtWork, MemoryRight, Rewriting, Typed
  <2>2. CASE pc = "idle"
    <3>1. k \in Droppable
      BY <2>2 DEF CollapseStage, RemoveStage
    <3>2. Exact => ~env.mayEmpty
      BY DEF DropsRecover, Exact
    <3>3. QED
      BY <3>1, <3>2, LenProperties DEF Droppable, AtWork, MemoryRight, Typed
  <2>3. QED
    BY <1>1, <2>1, <2>2
<1>3. by \in Nat /\ chunks[k] \in Record
  <2>1. chunks[k] \in Record
    BY <1>2, ElementOfSeq
  <2>2. QED
    BY <2>1 DEF Record, CompEnd
<1>4. al \in Nat /\ al <= by
  BY <1>1, <1>3, AlignmentFits
<1>5. /\ Remains(chunks, k, al) \in Seq(Record)
      /\ Rebased(k, al) = Remains(chunks, k, al)
  BY <1>2, <1>4, RemainsFit DEF Rebased, Remains
<1>6. staged' = RebasedRings(k, al)
  BY DEF CollapseStage, RemoveStage
<1>7. /\ staged'.recs = Remains(chunks, k, al) /\ staged'.next = nextSeq /\ Shaped(staged')
      /\ nextSeq \in Nat
  BY <1>5, <1>6 DEF RebasedRings, Shaped, Typed
<1>8. staged' # NoRings
  BY <1>7 DEF NoRings
<1>9. CompCut' = by
  BY <1>1 DEF CompCut
<1>10. pc' = "c_mark" => Aligned' = al /\ Aligned' > 0
  BY <1>1, <1>9 DEF Aligned
<1>11. pc' = "r_odd" => CompCut' = al
  BY <1>1, <1>9
<1> HIDE DEF by, al
<1>12. Typed'
  BY <1>1, <1>2, <1>7, <1>8 DEF Typed, Resting, Cutting, Rewriting
<1>13. Exact' = Exact /\ Extent(chunks)' = Extent(chunks) /\ Ordered(chunks)'
  BY <1>1, <1>2 DEF Exact, Extent, Ordered, CompEnd
<1>14. MemoryRight'
  <2>1. MemoryRight /\ pc \notin Renamed /\ pc' \notin Renamed
    BY <1>1 DEF AtWork, Renamed
  <2>2. \A i \in 1 .. Len(chunks') : CompEnd(chunks'[i]) <= compSize'
    BY <1>1, <2>1 DEF MemoryRight
  <2>3. QED
    BY <1>1, <1>2, <1>10, <1>13, <2>1, <2>2 DEF MemoryRight, Cutting, Shifted
<1>15. TrunkRight'
  <2>1. UncutRight /\ pc \in Resting /\ pc' \in Resting /\ pc' # "record"
        /\ pc' \notin Shifted /\ pc' \notin Renamed
    BY <1>1 DEF AtWork, TrunkRight, Resting, Cutting, Rewriting, Shifted, Renamed
  <2>2. UncutRight'
    BY <1>1, <1>13, <2>1 DEF UncutRight, AllLocated, Located, CompEnd
  <2>3. QED
    BY <2>1, <2>2 DEF TrunkRight
<1>17. IndexRight' /\ StagedRight'
  <2>1. rings' = rings /\ rings.recs = chunks /\ chunks' = chunks
    BY <1>1 DEF AtWork, IndexRight
  <2>2. pc' = "c_mark" => staged'.recs = Remains(chunks', cut', Aligned')
    BY <1>1, <1>7, <1>10
  <2>3. pc' = "r_odd" => staged'.recs = Remains(chunks', cut', CompCut')
    BY <1>1, <1>7, <1>11
  <2>4. QED
    BY <1>1, <1>8, <2>1, <2>2, <2>3 DEF IndexRight, StagedRight
<1>18. SideRight'
  BY <1>1 DEF AtWork, SideRight, Marked, InWindow, Shifted, FitsGrain
<1>19. QED
  BY <1>12, <1>14, <1>15, <1>17, <1>18 DEF AtWork


------------------------------------------------------------------------------
\* The cut.
LEMMA WhatRemains ==
    ASSUME Typed, MemoryRight, pc \in Cutting \cup Shifted \cup Rewriting \cup Renamed,
           NEW by \in Nat, by <= CompCut
    PROVE  /\ Remains(chunks, cut, by) \in Seq(Record)
           /\ Len(Remains(chunks, cut, by)) = Len(chunks) - cut
           /\ Len(chunks) - cut \in Nat
           /\ Ordered(Remains(chunks, cut, by))
           /\ \A i \in 1 .. Len(chunks) - cut :
                 /\ i + cut \in 1 .. Len(chunks) /\ chunks[i + cut] \in Record
                 /\ Remains(chunks, cut, by)[i] = [chunks[i + cut] EXCEPT !.start = @ - by]
                 /\ Remains(chunks, cut, by)[i] \in Record
                 /\ by <= chunks[i + cut].start
                 /\ CompCut - by <= Remains(chunks, cut, by)[i].start
                 /\ CompEnd(chunks[i + cut]) <= compSize
                 /\ CompEnd(Remains(chunks, cut, by)[i]) <= compSize - by
           /\ Exact => compSize - by = Extent(Remains(chunks, cut, by))
<1> DEFINE left == Remains(chunks, cut, by)
<1>1. /\ cut \in 1 .. Len(chunks) /\ CompCut \in Nat /\ chunks \in Seq(Record) /\ Ordered(chunks)
      /\ compSize \in Nat /\ Len(chunks) \in Nat /\ CompCut = CompEnd(chunks[cut])
      /\ \A i \in 1 .. Len(chunks) :
            /\ chunks[i] \in Record /\ chunks[i].start \in Nat /\ CompEnd(chunks[i]) \in Nat
            /\ CompEnd(chunks[i]) <= compSize
  BY WhereItCuts, SizesOfTrunk DEF Typed, MemoryRight, CompCut
<1>2. by <= CompEnd(chunks[cut])
  BY <1>1
<1>3. /\ left \in Seq(Record) /\ Len(left) = Len(chunks) - cut /\ Ordered(left)
      /\ cut < Len(chunks) => Extent(left) = Extent(chunks) - by
  BY <1>1, <1>2, RemainsFit
<1>4. \A i \in 1 .. Len(chunks) - cut :
          /\ i + cut \in 1 .. Len(chunks)
          /\ left[i] = [chunks[i + cut] EXCEPT !.start = @ - by]
          /\ left[i].start = chunks[i + cut].start - by
          /\ CompEnd(left[i]) = CompEnd(chunks[i + cut]) - by
          /\ CompEnd(chunks[cut]) <= chunks[i + cut].start
  <2>1. \A i \in 1 .. Len(chunks) - cut :
           i + cut \in 1 .. Len(chunks) /\ cut < i + cut /\ cut \in 1 .. Len(chunks)
    BY <1>1
  <2>2. \A i \in 1 .. Len(chunks) - cut : left[i] = [chunks[i + cut] EXCEPT !.start = @ - by]
    BY DEF Remains
  <2>3. \A rec \in Record : LET r == [rec EXCEPT !.start = @ - by] IN
           r.start = rec.start - by /\ CompEnd(r) = CompEnd(rec) - by
    BY DEF Record, CompEnd
  <2>4. \A i \in 1 .. Len(chunks) - cut : CompEnd(chunks[cut]) <= chunks[i + cut].start
    BY <1>1, <2>1 DEF Ordered
  <2>5. QED
    BY <1>1, <2>1, <2>2, <2>3, <2>4
<1> HIDE DEF left
<1>5. \A i \in 1 .. Len(left) : left[i] \in Record
  BY <1>3, ElementOfSeq
<1>6. Len(chunks) - cut \in Nat
  BY <1>1
<1>7. ASSUME NEW i \in 1 .. Len(chunks) - cut
      PROVE  /\ i + cut \in 1 .. Len(chunks) /\ chunks[i + cut] \in Record
             /\ left[i] = [chunks[i + cut] EXCEPT !.start = @ - by]
             /\ left[i] \in Record
             /\ by <= chunks[i + cut].start
             /\ CompCut - by <= left[i].start
             /\ CompEnd(chunks[i + cut]) <= compSize
             /\ CompEnd(left[i]) <= compSize - by
  <2>1. /\ i + cut \in 1 .. Len(chunks)
        /\ left[i] = [chunks[i + cut] EXCEPT !.start = @ - by]
        /\ left[i].start = chunks[i + cut].start - by
        /\ CompEnd(left[i]) = CompEnd(chunks[i + cut]) - by
        /\ CompCut <= chunks[i + cut].start
    BY <1>1, <1>4
  <2>2. /\ chunks[i + cut] \in Record /\ chunks[i + cut].start \in Nat
        /\ CompEnd(chunks[i + cut]) \in Nat /\ CompEnd(chunks[i + cut]) <= compSize
    BY <1>1, <2>1
  <2>3. by <= chunks[i + cut].start /\ CompCut - by <= left[i].start
    BY <1>1, <2>1, <2>2
  <2>4. CompEnd(left[i]) <= compSize - by
    BY <1>1, <2>1, <2>2
  <2>5. left[i] \in Record
    BY <1>3, <1>5
  <2>6. QED
    BY <2>1, <2>2, <2>3, <2>4, <2>5
<1>8. Exact => compSize - by = Extent(left)
  BY <1>1, <1>3 DEF MemoryRight
<1>9. QED
  BY <1>3, <1>6, <1>7, <1>8 DEF left

LEMMA CollapseCutRight ==
    ASSUME Typed, AtWork, CollapseCut
    PROVE  Typed' /\ AtWork'
<1>1. /\ pc = "c_cut" /\ pc' = "c_stamp" /\ fd = trunk
      /\ UNCHANGED <<trunk, rings, staged, trim, seqlock, grain, fd, attached, chunks, compSize,
                     nextSeq, cut, seq0, env>>
      /\ inodes' = [inodes EXCEPT ![fd] = SubSeq(inodes[fd], Aligned + 1, Len(inodes[fd]))]
  BY DEF CollapseCut, writer, history, AtWork, MemoryRight, Renamed
<1>2. /\ Typed /\ MemoryRight /\ pc \in Cutting
      /\ Aligned \in Nat /\ 0 < Aligned /\ Aligned <= CompCut /\ CompCut \in Nat
      /\ CompCut <= compSize /\ cut \in 1 .. Len(chunks)
      /\ compSize \in Nat /\ inodes[fd] \in Seq(Cell) /\ Len(inodes[fd]) \in Nat
  BY <1>1, WhereItCuts, SizesOfTrunk DEF AtWork, Cutting, Typed
<1>3. /\ compSize <= Len(inodes[fd]) /\ AllLocated(inodes[fd], chunks)
      /\ Exact => Len(inodes[fd]) = compSize
  BY <1>1 DEF AtWork, TrunkRight, UncutRight, Resting, Cutting
<1> DEFINE file == inodes[fd]
           short == SubSeq(file, Aligned + 1, Len(file))
<1>4. short \in Seq(Cell) /\ Len(short) = Len(file) - Aligned
  <2>1. Aligned + 1 \in Nat \ {0} /\ Aligned <= Len(file)
    BY <1>2, <1>3
  <2>2. short \in Seq(Cell)
        /\ Len(short) = IF Aligned + 1 <= Len(file) THEN Len(file) - (Aligned + 1) + 1 ELSE 0
    BY <1>2, <2>1, SuffixIsSeq
  <2>3. QED
    BY <1>2, <2>1, <2>2
<1>5. inodes' \in Seq(Seq(Cell)) /\ Len(inodes') = Len(inodes) /\ Trunk' = short
  <2>1. inodes \in Seq(Seq(Cell)) /\ fd \in 1 .. Len(inodes)
    BY DEF Typed
  <2>2. inodes' = [inodes EXCEPT ![fd] = short] /\ trunk' = fd
    BY <1>1
  <2> HIDE DEF short
  <2>3. QED
    BY <1>4, <2>1, <2>2, FileChanged DEF Trunk
<1>6. CompCut' = CompCut /\ Aligned' = Aligned /\ Sliver' = Sliver /\ Exact' = Exact
      /\ Remains(chunks, cut, Aligned)' = Remains(chunks, cut, Aligned)
      /\ Extent(chunks)' = Extent(chunks) /\ Ordered(chunks)' = Ordered(chunks)
  <2>1. CompCut' = CompCut /\ Aligned' = Aligned /\ Sliver' = Sliver /\ Exact' = Exact
    BY <1>1 DEF CompCut, Aligned, Sliver, Exact
  <2>2. QED
    BY <1>1, <2>1 DEF Remains, Extent, Ordered
<1>7. Typed'
  BY <1>1, <1>5 DEF Typed, Shifted, Shaped
<1>8. MemoryRight'
  BY <1>1, <1>2, <1>6 DEF MemoryRight, Cutting, Shifted, Renamed
<1> HIDE DEF short
<1>9. LeftRight(short, Aligned)
  <2>1. ASSUME NEW i \in 1 .. Len(chunks) - cut
        PROVE  Located(short, Remains(chunks, cut, Aligned)[i])
    <3>1. /\ i + cut \in 1 .. Len(chunks) /\ chunks[i + cut] \in Record
          /\ Remains(chunks, cut, Aligned)[i] = [chunks[i + cut] EXCEPT !.start = @ - Aligned]
          /\ Aligned <= chunks[i + cut].start
          /\ CompEnd(chunks[i + cut]) <= compSize
      BY <1>2, WhatRemains
    <3>2. Located(file, chunks[i + cut]) /\ CompEnd(chunks[i + cut]) <= Len(file)
      BY <1>3, <3>1 DEF AllLocated, Located
    <3>3. Located(short, [chunks[i + cut] EXCEPT !.start = @ - Aligned])
      <4>1. Len(file) <= Len(file) /\ Len(file) \in Nat /\ file \in Seq(Cell)
        BY <1>2
      <4>2. QED
        BY <1>2, <3>1, <3>2, <4>1, ShiftLocates, Zenon DEF short
    <3>4. QED
      BY <3>1, <3>3
  <2>2. Len(Remains(chunks, cut, Aligned)) = Len(chunks) - cut
    BY <1>2, WhatRemains
  <2>3. compSize - Aligned <= Len(short) /\ (Exact => Len(short) = compSize - Aligned)
    BY <1>2, <1>3, <1>4
  <2>4. QED
    BY <2>1, <2>2, <2>3 DEF LeftRight, AllLocated
<1>10. TrunkRight'
  <2>1. LeftRight(Trunk, Aligned)'
    BY <1>1, <1>5, <1>6, <1>9 DEF LeftRight, AllLocated, Located, CompEnd
  <2>2. QED
    BY <1>1, <2>1 DEF TrunkRight, UncutRight, Resting, Cutting, Rewriting, Renamed
<1>11. IndexRight' /\ StagedRight'
  BY <1>1, <1>6 DEF AtWork, IndexRight, StagedRight
<1>12. SideRight'
  BY <1>1, <1>6 DEF AtWork, SideRight, Marked, Shifted, InWindow, FitsGrain
<1>13. QED
  BY <1>7, <1>8, <1>10, <1>11, <1>12 DEF AtWork

LEMMA CollapseStampRight ==
    ASSUME Typed, AtWork, CollapseStamp
    PROVE  Typed' /\ AtWork'
<1>1. /\ pc = "c_stamp" /\ pc' = "c_rename" /\ fd = trunk
      /\ UNCHANGED <<trunk, rings, staged, trim, seqlock, grain, fd, attached, chunks, compSize,
                     nextSeq, cut, seq0, env>>
      /\ inodes' = [inodes EXCEPT ![fd] = Stamp(inodes[fd], Sliver)]
  BY DEF CollapseStamp, writer, history, AtWork, MemoryRight, Renamed
<1>2. /\ Typed /\ MemoryRight /\ pc \in Shifted
      /\ Aligned \in Nat /\ Aligned <= CompCut /\ CompCut \in Nat
      /\ CompCut <= compSize /\ compSize \in Nat
      /\ Sliver \in Nat /\ Aligned + Sliver = CompCut /\ (Sliver = 0 \/ HeaderMin <= Sliver)
      /\ Trunk \in Seq(Cell) /\ Len(Trunk) \in Nat
  BY <1>1, WhereItCuts, SizesOfTrunk DEF AtWork, Shifted, Typed
<1>3. LeftRight(Trunk, Aligned)
  BY <1>2 DEF AtWork, TrunkRight
<1> DEFINE new == Stamp(Trunk, Sliver)
<1>4. Sliver <= Len(Trunk)
  BY <1>2, <1>3 DEF LeftRight
<1>5. /\ new \in Seq(Cell) /\ Len(new) = Len(Trunk)
      /\ \A i \in 1 .. Len(Trunk) : i > Sliver => new[i] = Trunk[i]
  BY <1>2, <1>4, Stamped
<1>6. inodes' \in Seq(Seq(Cell)) /\ Len(inodes') = Len(inodes) /\ Trunk' = new
  <2>1. inodes \in Seq(Seq(Cell)) /\ fd \in 1 .. Len(inodes)
    BY DEF Typed
  <2>2. inodes' = [inodes EXCEPT ![fd] = new]
    BY <1>1 DEF Trunk
  <2> HIDE DEF new
  <2>3. QED
    BY <1>1, <1>5, <2>1, <2>2, FileChanged DEF Trunk
<1>7. CompCut' = CompCut /\ Aligned' = Aligned /\ Sliver' = Sliver /\ Exact' = Exact
      /\ Remains(chunks, cut, Aligned)' = Remains(chunks, cut, Aligned)
      /\ Extent(chunks)' = Extent(chunks) /\ Ordered(chunks)' = Ordered(chunks)
  <2>1. CompCut' = CompCut /\ Aligned' = Aligned /\ Sliver' = Sliver /\ Exact' = Exact
    BY <1>1 DEF CompCut, Aligned, Sliver, Exact
  <2>2. QED
    BY <1>1, <2>1 DEF Remains, Extent, Ordered
<1>8. Typed'
  BY <1>1, <1>6 DEF Typed, Shifted, Shaped
<1>9. MemoryRight'
  BY <1>1, <1>2, <1>7 DEF MemoryRight, Cutting, Shifted, Renamed
<1> HIDE DEF new
<1>10. LeftRight(new, Aligned)
  <2>1. ASSUME NEW i \in 1 .. Len(chunks) - cut
        PROVE  Located(new, Remains(chunks, cut, Aligned)[i])
    <3> DEFINE rec == Remains(chunks, cut, Aligned)[i]
    <3>1. rec \in Record /\ CompCut - Aligned <= rec.start
          /\ Len(Remains(chunks, cut, Aligned)) = Len(chunks) - cut
      BY <1>2, WhatRemains
    <3>2. Located(Trunk, rec)
      BY <1>3, <3>1 DEF LeftRight, AllLocated
    <3> HIDE DEF rec
    <3>3. Sliver <= rec.start
      BY <1>2, <3>1
    <3>4. \A j \in 1 .. Len(Trunk) : j <= 0 \/ j > Sliver => new[j] = Trunk[j]
      BY <1>5
    <3>5. Located(new, rec)
      <4>1. 0 \in Nat /\ Len(Trunk) <= Len(new)
        BY <1>2, <1>5
      <4>2. QED
        BY <1>2, <1>5, <3>1, <3>2, <3>3, <3>4, <4>1, StaysLocated, Zenon
    <3>6. QED
      BY <3>5 DEF rec
  <2>2. Len(Remains(chunks, cut, Aligned)) = Len(chunks) - cut
    BY <1>2, WhatRemains
  <2>3. QED
    BY <1>3, <1>5, <2>1, <2>2 DEF LeftRight, AllLocated
<1>11. TrunkRight'
  <2>1. LeftRight(Trunk, Aligned)'
    BY <1>1, <1>6, <1>7, <1>10 DEF LeftRight, AllLocated, Located, CompEnd
  <2>2. QED
    BY <1>1, <2>1 DEF TrunkRight, UncutRight, Resting, Cutting, Rewriting, Renamed
<1>12. IndexRight' /\ StagedRight'
  BY <1>1, <1>7 DEF AtWork, IndexRight, StagedRight
<1>13. SideRight'
  BY <1>1, <1>7 DEF AtWork, SideRight, Marked, Shifted, InWindow, FitsGrain
<1>14. QED
  BY <1>8, <1>9, <1>11, <1>12, <1>13 DEF AtWork


LEMMA RemoveTrunkRight ==
    ASSUME Typed, AtWork, RemoveTrunk
    PROVE  Typed' /\ AtWork'
<1> DEFINE file == inodes[fd]
           rest == SubSeq(file, CompCut + 1, compSize)
<1>1. /\ pc = "r_trunk" /\ pc' = "r_rings"
      /\ UNCHANGED <<rings, staged, trim, seqlock, grain, fd, attached, chunks, compSize,
                     nextSeq, cut, seq0, env>>
      /\ inodes' = Append(inodes, rest) /\ trunk' = Len(inodes) + 1
  BY DEF RemoveTrunk, writer, history
<1>2. /\ Typed /\ MemoryRight /\ pc \in Rewriting
      /\ CompCut \in Nat /\ CompCut <= CompCut /\ CompCut <= compSize /\ compSize \in Nat
      /\ file \in Seq(Cell) /\ Len(file) \in Nat
  <2>1. MemoryRight /\ pc \in Rewriting
    BY <1>1 DEF AtWork, Rewriting
  <2>2. CompCut \in Nat /\ CompCut <= compSize
    BY <2>1, WhereItCuts
  <2>3. file \in Seq(Cell) /\ Len(file) \in Nat
    BY SizesOfTrunk
  <2>4. CompCut <= CompCut /\ compSize \in Nat
    BY <2>2 DEF Typed
  <2>5. QED
    BY <2>1, <2>2, <2>3, <2>4
<1>3. compSize <= Len(file) /\ AllLocated(file, chunks)
  BY <1>1 DEF AtWork, TrunkRight, UncutRight, Resting, Rewriting
<1>4. rest \in Seq(Cell) /\ Len(rest) = compSize - CompCut
  <2>1. /\ CompCut + 1 \in Int /\ compSize \in Int
        /\ \A i \in CompCut + 1 .. compSize : file[i] \in Cell
    BY <1>2, <1>3, ElementOfSeq
  <2>2. /\ rest \in Seq(Cell)
        /\ Len(rest) = IF CompCut + 1 <= compSize THEN compSize - (CompCut + 1) + 1 ELSE 0
    BY <2>1, SubSeqProperties
  <2>3. QED
    BY <1>2, <2>2
<1> HIDE DEF rest
<1>5. /\ inodes' \in Seq(Seq(Cell)) /\ Len(inodes') = Len(inodes) + 1 /\ Trunk' = rest
      /\ trunk' \in 1 .. Len(inodes') /\ fd' \in 1 .. Len(inodes')
  <2>1. inodes \in Seq(Seq(Cell)) /\ fd \in 1 .. Len(inodes) /\ Len(inodes) \in Nat
    BY SizesOfTrunk DEF Typed
  <2>2. Append(inodes, rest) \in Seq(Seq(Cell)) /\ Len(Append(inodes, rest)) = Len(inodes) + 1
        /\ Append(inodes, rest)[Len(inodes) + 1] = rest
    BY <1>4, <2>1, AppendProperties
  <2>3. QED
    BY <1>1, <2>1, <2>2 DEF Trunk
<1>6. CompCut' = CompCut /\ Exact' = Exact
      /\ Remains(chunks, cut, CompCut)' = Remains(chunks, cut, CompCut)
      /\ Extent(chunks)' = Extent(chunks) /\ Ordered(chunks)' = Ordered(chunks)
  <2>1. CompCut' = CompCut /\ Exact' = Exact
    BY <1>1 DEF CompCut, Exact
  <2>2. QED
    BY <1>1, <2>1 DEF Remains, Extent, Ordered
<1>7. Typed'
  BY <1>1, <1>5 DEF Typed, Renamed, Shaped
<1>8. MemoryRight'
  BY <1>1, <1>2, <1>6 DEF MemoryRight, Cutting, Shifted, Renamed, Rewriting
<1>9. LeftRight(rest, CompCut)
  <2>1. ASSUME NEW i \in 1 .. Len(chunks) - cut
        PROVE  Located(rest, Remains(chunks, cut, CompCut)[i])
    <3>1. /\ i + cut \in 1 .. Len(chunks) /\ chunks[i + cut] \in Record
          /\ Remains(chunks, cut, CompCut)[i] = [chunks[i + cut] EXCEPT !.start = @ - CompCut]
          /\ CompCut <= chunks[i + cut].start
          /\ CompEnd(chunks[i + cut]) <= compSize
      BY <1>2, WhatRemains
    <3>2. Located(file, chunks[i + cut])
      BY <1>3, <3>1 DEF AllLocated
    <3>3. Located(rest, [chunks[i + cut] EXCEPT !.start = @ - CompCut])
      BY <1>2, <1>3, <3>1, <3>2, ShiftLocates, Zenon DEF rest
    <3>4. QED
      BY <3>1, <3>3
  <2>2. Len(Remains(chunks, cut, CompCut)) = Len(chunks) - cut
    BY <1>2, WhatRemains
  <2>3. compSize - CompCut <= Len(rest) /\ (Exact => Len(rest) = compSize - CompCut)
    BY <1>2, <1>4
  <2>4. QED
    BY <2>1, <2>2, <2>3 DEF LeftRight, AllLocated
<1>10. TrunkRight'
  <2>1. LeftRight(Trunk, CompCut)'
    BY <1>1, <1>5, <1>6, <1>9 DEF LeftRight, AllLocated, Located, CompEnd
  <2>2. QED
    BY <1>1, <2>1 DEF TrunkRight, UncutRight, Resting, Cutting, Rewriting, Shifted
<1>11. IndexRight' /\ StagedRight'
  BY <1>1, <1>6 DEF AtWork, IndexRight, StagedRight
<1>12. SideRight'
  BY <1>1, <1>6 DEF AtWork, SideRight, Marked, Shifted, InWindow, FitsGrain
<1>13. QED
  BY <1>7, <1>8, <1>10, <1>11, <1>12 DEF AtWork

------------------------------------------------------------------------------
\* The drop is over.
LEMMA TakeCutRight ==
    ASSUME Typed, AtWork, CollapseUnmark \/ RemoveEven
    PROVE  Typed' /\ AtWork'
<1> DEFINE by == IF pc = "c_unmark" THEN Aligned ELSE CompCut
           left == Remains(chunks, cut, by)
<1>1. /\ pc \in {"c_unmark", "r_even"} /\ pc' = "idle" /\ attached' = TRUE
      /\ chunks' = Rebased(cut, by) /\ compSize' = compSize - by
      /\ cut' = 0 /\ seq0' = 0
      /\ UNCHANGED <<inodes, trunk, rings, staged, grain, nextSeq, env>>
      /\ fd' = trunk /\ trim' = NoTrim
      /\ seqlock' = IF pc = "c_unmark" THEN seqlock ELSE seq0 + 2
  BY DEF CollapseUnmark, RemoveEven, TakeCut, history, AtWork, MemoryRight, Renamed, SideRight, Marked,
     Shifted
<1>2. /\ pc \in Shifted \cup Renamed /\ pc \in Cutting \cup Shifted \cup Rewriting \cup Renamed
      /\ Typed /\ MemoryRight
  BY <1>1 DEF AtWork, Shifted, Renamed
<1>3. by \in Nat /\ by <= CompCut /\ CompCut \in Nat /\ CompCut <= compSize /\ compSize \in Nat
  BY <1>1, <1>2, WhereItCuts DEF Shifted, Typed
<1>4. LeftRight(Trunk, by) /\ rings.recs = left
  BY <1>1 DEF AtWork, TrunkRight, IndexRight, Shifted, Renamed
<1>5. chunks' = left
  BY <1>1, <1>2, WhereItCuts
<1>6. /\ left \in Seq(Record) /\ Len(left) = Len(chunks) - cut /\ Ordered(left)
      /\ \A i \in 1 .. Len(chunks) - cut : CompEnd(left[i]) <= compSize - by
      /\ Exact => compSize - by = Extent(left)
  BY <1>2, <1>3, WhatRemains
<1> HIDE DEF left, by
<1>7. Exact' = Exact /\ Trunk' = Trunk /\ compSize' \in Nat
  BY <1>1, <1>3 DEF Exact, Trunk
<1>8. /\ seqlock' \in Nat /\ ~IsOdd(seqlock')
  <2>1. CASE pc = "c_unmark"
    BY <1>1, <2>1 DEF AtWork, SideRight, InWindow, Typed
  <2>2. CASE pc = "r_even"
    <3>1. seqlock = seq0 + 1 /\ IsOdd(seqlock) /\ seqlock' = seq0 + 2 /\ seqlock \in Nat /\ seq0 \in Nat
      BY <1>1, <2>2 DEF AtWork, SideRight, InWindow, Typed
    <3>2. seqlock' = seqlock + 1
      BY <3>1
    <3>3. QED
      BY <3>1, <3>2, CounterArithmetic
  <2>3. QED
    BY <1>1, <2>1, <2>2
<1>9. Typed'
  <2>1. NoTrim.pre \in Int /\ NoTrim.aligned \in Nat /\ NoTrim.sliver \in Nat
    BY DEF NoTrim
  <2>2. Shaped(rings') /\ Shaped(staged')
    BY <1>1, <1>2 DEF Typed, Shaped
  <2>3. trunk' \in 1 .. Len(inodes') /\ inodes' \in Seq(Seq(Cell)) /\ pc' \in Resting
    BY <1>1, <1>2 DEF Typed, Resting
  <2>4. QED
    BY <1>1, <1>2, <1>5, <1>6, <1>7, <1>8, <2>1, <2>2, <2>3 DEF Typed
<1>10. MemoryRight'
  <2>1. Ordered(chunks') /\ Extent(chunks)' = Extent(left)
    BY <1>5, <1>6 DEF Extent, CompEnd
  <2>2. \A i \in 1 .. Len(chunks') : CompEnd(chunks'[i]) <= compSize'
    BY <1>1, <1>5, <1>6
  <2>3. Exact' => compSize' = Extent(chunks)'
    BY <1>1, <1>6, <1>7, <2>1
  <2>4. Ordered(chunks)'
    BY <2>1 DEF Ordered, CompEnd
  <2>5. (\A i \in 1 .. Len(chunks) : CompEnd(chunks[i]) <= compSize)'
    BY <2>2 DEF CompEnd
  <2>6. QED
    BY <1>1, <2>3, <2>4, <2>5 DEF MemoryRight, Cutting, Shifted, Rewriting, Renamed
<1>11. TrunkRight'
  <2>1. AllLocated(Trunk, left) /\ compSize - by <= Len(Trunk) /\ (Exact => Len(Trunk) = compSize - by)
    BY <1>4 DEF LeftRight, left
  <2>2. inodes'[fd'] = Trunk
    BY <1>1 DEF Trunk
  <2>3. AllLocated(inodes[fd], chunks)'
    BY <1>5, <2>1, <2>2 DEF AllLocated, Located, CompEnd
  <2>4. UncutRight'
    BY <1>1, <1>7, <2>1, <2>2, <2>3 DEF UncutRight
  <2>5. QED
    BY <1>1, <2>4 DEF TrunkRight, Shifted, Renamed
<1>12. IndexRight' /\ StagedRight'
  BY <1>1, <1>4, <1>5 DEF IndexRight, StagedRight
<1>13. SideRight'
  <2>1. FitsGrain(rings.recs)
    BY <1>1 DEF AtWork, SideRight
  <2>2. FitsGrain(rings.recs)'
    BY <1>1, <2>1 DEF FitsGrain
  <2>3. QED
    BY <1>1, <1>8, <2>2 DEF SideRight, Marked, Shifted, InWindow
<1>14. QED
  BY <1>9, <1>10, <1>11, <1>12, <1>13 DEF AtWork

------------------------------------------------------------------------------
\* Appends.
LEMMA AppendFrameRight ==
    ASSUME env \in Environments, Typed, AtWork, NEW len \in env.lens, AppendFrame(len)
    PROVE  Typed' /\ AtWork'
<1> DEFINE file == inodes[fd]
           frame == FrameCells(nextSeq, len)
           new == Overwrite(file, compSize, frame)
<1>1. /\ pc = "idle" /\ pc' = "record" /\ fd = trunk
      /\ inodes' = [inodes EXCEPT ![fd] = new]
      /\ cut' = len
      /\ UNCHANGED <<trunk, rings, staged, trim, seqlock, grain, fd, attached, chunks, compSize,
                     nextSeq, seq0, env>>
  BY DEF AppendFrame, history, AtWork, MemoryRight, Renamed
<1>2. len \in Nat
  BY ConstantsAssumption DEF Environment
<1>3. /\ compSize \in Nat /\ nextSeq \in Nat /\ file \in Seq(Cell) /\ Len(file) \in Nat
      /\ Len(chunks) \in Nat
      /\ \A i \in 1 .. Len(chunks) : chunks[i] \in Record
  BY SizesOfTrunk DEF Typed
<1>4. /\ compSize <= Len(file) /\ AllLocated(file, chunks)
      /\ Exact => Len(file) = compSize
      /\ \A i \in 1 .. Len(chunks) : CompEnd(chunks[i]) <= compSize
  BY <1>1 DEF AtWork, TrunkRight, UncutRight, Resting, MemoryRight
<1>5. /\ frame \in Seq(Cell) /\ Len(frame) = len
      /\ \A j \in 1 .. len : frame[j] = <<nextSeq, j>>
  <2>1. \A j \in 1 .. len : <<nextSeq, j>> \in Cell
    BY <1>3 DEF Cell
  <2>2. QED
    BY <1>2, <2>1, FunctionIsSeq DEF FrameCells
<1> HIDE DEF frame
<1>6. /\ new \in Seq(Cell) /\ Len(file) <= Len(new) /\ compSize + len <= Len(new)
      /\ Len(file) = compSize => Len(new) = compSize + len
      /\ \A i \in 1 .. Len(file) : i <= compSize \/ i > compSize + len => new[i] = file[i]
      /\ \A j \in 1 .. len : new[compSize + j] = <<nextSeq, j>>
  <2>1. /\ new \in Seq(Cell)
        /\ Len(file) <= Len(new)
        /\ compSize + Len(frame) <= Len(new)
        /\ Len(file) <= compSize + Len(frame) => Len(new) = compSize + Len(frame)
        /\ \A i \in 1 .. Len(file) : i <= compSize \/ i > compSize + Len(frame) => new[i] = file[i]
        /\ \A j \in 1 .. Len(frame) : new[compSize + j] = frame[j]
    BY <1>3, <1>5, Overwritten
  <2>2. Len(file) = compSize => Len(file) <= compSize + Len(frame)
    BY <1>2, <1>3, <1>5
  <2> HIDE DEF new
  <2>3. QED
    BY <1>5, <2>1, <2>2
<1> HIDE DEF new
<1>7. inodes' \in Seq(Seq(Cell)) /\ Len(inodes') = Len(inodes) /\ inodes'[fd'] = new
  <2>1. inodes \in Seq(Seq(Cell)) /\ fd \in 1 .. Len(inodes)
    BY DEF Typed
  <2>2. QED
    BY <1>1, <1>6, <2>1, FileChanged
<1>8. Typed'
  BY <1>1, <1>2, <1>7 DEF Typed, Resting, Shaped
<1>9. Exact' = Exact /\ Extent(chunks)' = Extent(chunks) /\ Ordered(chunks)' = Ordered(chunks)
  BY <1>1 DEF Exact, Extent, Ordered, CompEnd
<1>10. MemoryRight'
  <2>1. MemoryRight
    BY DEF AtWork
  <2>2. QED
    BY <1>1, <1>9, <2>1 DEF MemoryRight, Cutting, Shifted, Rewriting, Renamed
<1>11. AllLocated(new, chunks)
  <2> SUFFICES ASSUME NEW i \in 1 .. Len(chunks) PROVE Located(new, chunks[i])
    BY DEF AllLocated
  <2>1. chunks[i] \in Record /\ Located(file, chunks[i]) /\ CompEnd(chunks[i]) <= compSize
    BY <1>3, <1>4 DEF AllLocated
  <2>2. compSize + len \in Nat
    BY <1>2, <1>3
  <2>3. CompEnd(chunks[i]) <= compSize \/ compSize + len <= chunks[i].start
    BY <2>1
  <2>4. QED
    BY <1>3, <1>6, <2>1, <2>2, <2>3, StaysLocated, Zenon
<1>12. Located(new, [seq |-> nextSeq, start |-> compSize, len |-> len])
  BY <1>2, <1>3, <1>6 DEF Located, CompEnd
<1>13. TrunkRight'
  <2>1. UncutRight'
    <3>1. AllLocated(inodes[fd], chunks)'
      BY <1>1, <1>7, <1>11 DEF AllLocated, Located, CompEnd
    <3>2. Located(inodes[fd], [seq |-> nextSeq, start |-> compSize, len |-> cut])'
      BY <1>1, <1>7, <1>12 DEF Located, CompEnd
    <3>3. compSize' <= Len(inodes'[fd']) /\ (Exact' => Len(inodes'[fd']) = compSize' + cut')
      BY <1>1, <1>2, <1>3, <1>4, <1>6, <1>7, <1>9
    <3>4. QED
      BY <1>1, <3>1, <3>2, <3>3 DEF UncutRight
  <2>2. QED
    BY <1>1, <2>1 DEF TrunkRight, Shifted, Renamed
<1>14. IndexRight' /\ StagedRight'
  BY <1>1 DEF AtWork, IndexRight, StagedRight
<1>15. SideRight'
  BY <1>1 DEF AtWork, SideRight, Marked, Shifted, InWindow, FitsGrain
<1>16. QED
  BY <1>8, <1>10, <1>13, <1>14, <1>15 DEF AtWork

LEMMA AppendRecordRight ==
    ASSUME Typed, AtWork, AppendRecord
    PROVE  Typed' /\ AtWork'
<1> DEFINE rec == [seq |-> nextSeq, start |-> compSize, len |-> cut]
           recs == Append(chunks, rec)
           n == Len(chunks)
<1>1. /\ pc = "record" /\ pc' = "idle" /\ fd = trunk /\ attached = TRUE
      /\ chunks' = recs /\ compSize' = compSize + cut /\ nextSeq' = nextSeq + 1 /\ cut' = 0
      /\ UNCHANGED <<inodes, trunk, staged, trim, seqlock, grain, fd, attached, seq0, env>>
      /\ rings' = [rings EXCEPT !.recs = Append(SubSeq(rings.recs, 1, n), rec)]
      /\ rings.recs = chunks
  BY DEF AppendRecord, AtWork, MemoryRight, IndexRight, Renamed
<1>2. /\ compSize \in Nat /\ nextSeq \in Nat /\ cut \in Nat /\ n \in Nat /\ chunks \in Seq(Record)
      /\ rec \in Record /\ rec.start = compSize /\ CompEnd(rec) = compSize + cut
      /\ inodes[fd] \in Seq(Cell) /\ Len(inodes[fd]) \in Nat
      /\ \A i \in 1 .. n : chunks[i] \in Record /\ CompEnd(chunks[i]) \in Nat
  <2>1. compSize \in Nat /\ nextSeq \in Nat /\ cut \in Nat /\ chunks \in Seq(Record)
    BY DEF Typed
  <2>2. rec \in Record /\ rec.start = compSize /\ CompEnd(rec) = compSize + cut
    BY <2>1 DEF Record, CompEnd
  <2>3. QED
    BY <2>1, <2>2, SizesOfTrunk
<1>3. /\ AllLocated(inodes[fd], chunks) /\ Located(inodes[fd], rec)
      /\ Exact => Len(inodes[fd]) = compSize + cut
      /\ \A i \in 1 .. n : CompEnd(chunks[i]) <= compSize
      /\ Ordered(chunks)
  BY <1>1 DEF AtWork, TrunkRight, UncutRight, Resting, MemoryRight
<1> HIDE DEF rec
<1>4. /\ recs \in Seq(Record) /\ Len(recs) = n + 1 /\ recs # <<>>
      /\ \A i \in 1 .. n : recs[i] = chunks[i]
      /\ recs[n + 1] = rec
  BY <1>2, AppendIsSeq
<1>5. \A i \in 1 .. Len(recs) : i \in 1 .. n \/ i = n + 1
  BY <1>2, <1>4
<1>6. rings'.recs = recs /\ Shaped(rings') /\ rings'.next \in Nat
  <2>1. 0 \in 0 .. n /\ n \in 0 .. n
    BY <1>2
  <2>2. SubSeq(rings.recs, 1, n) = chunks
    BY <1>1, <1>2, <2>1, PrefixIsSeq
  <2>3. rings' = [rings EXCEPT !.recs = recs]
    BY <1>1, <2>2
  <2> HIDE DEF recs
  <2>4. rings' = [next |-> rings.next, dropped |-> rings.dropped, recs |-> recs]
    BY <2>3 DEF Typed, Shaped
  <2>5. QED
    BY <1>4, <2>4 DEF Typed, Shaped
<1> HIDE DEF recs
<1>7. Typed'
  <2>1. pc' \in Resting /\ compSize' \in Nat /\ nextSeq' \in Nat /\ cut' \in Nat
    BY <1>1, <1>2 DEF Resting
  <2>2. chunks' \in Seq(Record) /\ Shaped(staged')
    BY <1>1, <1>4 DEF Typed, Shaped
  <2>3. QED
    BY <1>1, <1>6, <2>1, <2>2 DEF Typed
<1>8. Exact' = Exact
  BY <1>1 DEF Exact
<1>9. MemoryRight'
  <2>1. ASSUME NEW i \in 1 .. Len(recs), NEW j \in 1 .. Len(recs), i < j
        PROVE  CompEnd(recs[i]) <= recs[j].start
    <3>1. i \in 1 .. n
      BY <1>2, <1>4, <2>1
    <3>2. CASE j \in 1 .. n
      BY <1>3, <1>4, <2>1, <3>1, <3>2 DEF Ordered
    <3>3. CASE j = n + 1
      BY <1>2, <1>3, <1>4, <3>1, <3>3
    <3>4. QED
      BY <1>5, <3>2, <3>3
  <2>2. Ordered(recs)
    BY <2>1 DEF Ordered
  <2>3. \A i \in 1 .. Len(recs) : CompEnd(recs[i]) <= compSize + cut
    <3> TAKE i \in 1 .. Len(recs)
    <3>1. CASE i \in 1 .. n
      BY <1>2, <1>3, <1>4, <3>1
    <3>2. CASE i = n + 1
      BY <1>2, <1>4, <3>2
    <3>3. QED
      BY <1>5, <3>1, <3>2
  <2>4. Extent(recs) = compSize + cut
    BY <1>2, <1>4 DEF Extent
  <2>5. Ordered(chunks)' /\ Extent(chunks)' = Extent(recs)
    BY <1>1, <2>2 DEF Ordered, CompEnd, Extent
  <2>6. (\A i \in 1 .. Len(chunks) : CompEnd(chunks[i]) <= compSize)'
    BY <1>1, <2>3 DEF CompEnd
  <2>7. QED
    BY <1>1, <2>4, <2>5, <2>6 DEF MemoryRight, Cutting, Shifted, Rewriting, Renamed
<1>10. TrunkRight'
  <2>1. AllLocated(inodes[fd], recs)
    <3> SUFFICES ASSUME NEW i \in 1 .. Len(recs) PROVE Located(inodes[fd], recs[i])
      BY DEF AllLocated
    <3>1. CASE i \in 1 .. n
      BY <1>3, <1>4, <3>1 DEF AllLocated
    <3>2. CASE i = n + 1
      BY <1>3, <1>4, <3>2
    <3>3. QED
      BY <1>5, <3>1, <3>2
  <2>2. AllLocated(inodes[fd], chunks)'
    BY <1>1, <2>1 DEF AllLocated, Located, CompEnd
  <2>3. compSize' <= Len(inodes'[fd']) /\ (Exact' => Len(inodes'[fd']) = compSize')
    BY <1>1, <1>2, <1>3, <1>8 DEF Located
  <2>4. UncutRight'
    BY <1>1, <2>2, <2>3 DEF UncutRight
  <2>5. QED
    BY <1>1, <2>4 DEF TrunkRight, Shifted, Renamed
<1>11. IndexRight' /\ StagedRight'
  BY <1>1, <1>6 DEF IndexRight, StagedRight
<1>12. SideRight'
  <2>1. FitsGrain(recs)
    <3> SUFFICES ASSUME grain # NoGrain
                 PROVE  Len(grain) <= n + 1 /\ \A i \in 1 .. Len(grain) : grain[i] = recs[i].seq
      BY <1>4 DEF FitsGrain
    <3>1. FitsGrain(chunks)
      BY <1>1 DEF AtWork, SideRight
    <3>2. Len(grain) <= n /\ \A i \in 1 .. Len(grain) : grain[i] = chunks[i].seq
      BY <3>1 DEF FitsGrain
    <3>3. Len(grain) \in Nat
      BY LenProperties DEF Typed
    <3>4. \A i \in 1 .. Len(grain) : i \in 1 .. n
      BY <1>2, <3>2, <3>3
    <3>5. QED
      BY <1>2, <1>4, <3>2, <3>3, <3>4
  <2>2. FitsGrain(rings.recs)'
    BY <1>1, <1>6, <2>1 DEF FitsGrain
  <2>3. QED
    BY <1>1, <2>2 DEF AtWork, SideRight, Marked, Shifted, InWindow
<1>13. QED
  BY <1>7, <1>9, <1>10, <1>11, <1>12 DEF AtWork

------------------------------------------------------------------------------
\* A writer's death.
LEMMA MidDropRecoverable ==
    ASSUME Typed, AtWork, Exact, pc \in Cutting \cup Shifted
    PROVE  Recoverable
<1>1. /\ MemoryRight /\ TrunkRight /\ IndexRight /\ StagedRight /\ SideRight
      /\ pc \in Cutting \cup Shifted \cup Rewriting \cup Renamed
      /\ pc \notin Renamed /\ pc # "record" /\ pc \notin Rewriting
  BY DEF AtWork, Cutting, Shifted, Renamed, Rewriting
<1>2. /\ cut \in 1 .. Len(chunks) /\ CompCut \in Nat /\ CompCut <= compSize
      /\ Aligned \in Nat /\ 0 < Aligned /\ Aligned <= CompCut
      /\ Sliver \in Nat /\ Aligned + Sliver = CompCut
      /\ Sliver = 0 \/ HeaderMin <= Sliver
  BY <1>1, WhereItCuts
<1>3. compSize \in Nat /\ Len(Trunk) \in Nat /\ fd = trunk /\ compSize = Extent(chunks) /\ Ordered(chunks)
  BY <1>1, SizesOfTrunk DEF Typed, MemoryRight
<1>4. trim = NoTrim => ~IsOdd(seqlock)
  <2>1. pc \in Marked => trim.pre = compSize
    BY <1>1 DEF SideRight
  <2>2. pc \in Marked => trim # NoTrim
    BY <1>3, <2>1 DEF NoTrim
  <2>3. pc \notin Marked => pc \notin InWindow
    BY DEF Marked, InWindow, Cutting, Shifted
  <2>4. QED
    BY <1>1, <2>2, <2>3 DEF SideRight
<1>5. CASE pc \in Cutting
  <2>1. rings.recs = chunks /\ FitsGrain(chunks)
    BY <1>1, <1>5 DEF IndexRight, SideRight, Cutting
  <2>2. AllLocated(Trunk, chunks) /\ Len(Trunk) = compSize
    BY <1>1, <1>3, <1>5 DEF TrunkRight, UncutRight, Resting, Trunk
  <2>3. Uncut
    BY <1>1, <1>5, <2>2 DEF SideRight, Uncut
  <2>4. QED
    BY <1>3, <1>4, <2>1, <2>2, <2>3 DEF Recoverable, Holds
<1>6. CASE pc \in Shifted
  <2> DEFINE left == Remains(chunks, cut, Aligned)
             recs == IF staged = NoRings THEN rings.recs ELSE staged.recs
  <2>1. trim = [pre |-> compSize, aligned |-> Aligned, sliver |-> Sliver]
    BY <1>1, <1>6 DEF SideRight, Marked
  <2>2. AllLocated(Trunk, left) /\ Len(Trunk) = compSize - Aligned
    BY <1>1, <1>6 DEF TrunkRight, LeftRight
  <2>3. trim.pre = compSize /\ trim.aligned = Aligned /\ trim.sliver = Sliver /\ trim # NoTrim
    BY <1>3, <2>1 DEF NoTrim
  <2>4. ~Uncut
    BY <1>2, <1>3, <2>2, <2>3 DEF Uncut
  <2>5. recs = left
    BY <1>1, <1>6 DEF IndexRight, StagedRight, Shifted
  <2>6. IsOdd(seqlock) \/ (staged = NoRings /\ FitsGrain(rings.recs))
    <3>1. CASE pc = "c_unmark"
      BY <1>1, <3>1 DEF StagedRight, SideRight
    <3>2. CASE pc # "c_unmark"
      BY <1>1, <1>6, <3>2 DEF SideRight, InWindow, Shifted
    <3>3. QED
      BY <3>1, <3>2
  <2>7. /\ Ordered(left) /\ compSize - Aligned = Extent(left) /\ Len(left) = Len(chunks) - cut
        /\ \A i \in 1 .. Len(chunks) - cut : CompCut - Aligned <= left[i].start
    BY <1>1, <1>2, WhatRemains
  <2> HIDE DEF left
  <2>8. Sliver = CompCut - Aligned /\ Sliver <= compSize - Aligned
    BY <1>2, <1>3
  <2>9. \A i \in 1 .. Len(left) : Sliver <= left[i].start
    BY <2>7, <2>8
  <2>10. Holds(Trunk, left)
    BY <2>2, <2>7 DEF Holds
  <2> HIDE DEF recs
  <2>11. ~Uncut =>
          /\ Len(Trunk) = trim.pre - trim.aligned
          /\ trim.sliver = 0 \/ HeaderMin <= trim.sliver
          /\ trim.sliver <= Len(Trunk)
          /\ IsOdd(seqlock) \/ (staged = NoRings /\ FitsGrain(rings.recs))
          /\ Holds(Trunk, recs)
          /\ \A i \in 1 .. Len(recs) : trim.sliver <= recs[i].start
    BY <1>2, <2>2, <2>3, <2>5, <2>6, <2>8, <2>9, <2>10
  <2>12. QED
    BY <1>4, <2>4, <2>11 DEF Recoverable, recs
<1>7. QED
  BY <1>5, <1>6

LEMMA AtWorkRecoverable ==
    ASSUME Typed, AtWork,
           pc = "idle" \/ (pc = "record" /\ ~Exact) \/ (pc \in Cutting \cup Shifted /\ Exact)
    PROVE  Recoverable
<1>1. CASE pc \in {"idle", "record"}
  <2>1. MemoryRight /\ TrunkRight /\ IndexRight /\ SideRight
    BY DEF AtWork
  <2>2. rings.recs = chunks /\ Ordered(chunks) /\ fd = trunk /\ (Exact => compSize = Extent(chunks))
    BY <1>1, <2>1 DEF IndexRight, MemoryRight, Renamed
  <2>3. AllLocated(Trunk, chunks) /\ (Exact => Len(Trunk) = compSize)
    BY <1>1, <2>1, <2>2 DEF TrunkRight, UncutRight, Resting, Trunk, Cutting, Shifted
  <2>4. trim = NoTrim /\ ~IsOdd(seqlock) /\ FitsGrain(rings.recs)
    BY <1>1, <2>1 DEF SideRight, Marked, Shifted, InWindow
  <2>5. QED
    BY <2>2, <2>3, <2>4 DEF Recoverable, Uncut, Holds
<1>2. QED
  BY <1>1, MidDropRecoverable

LEMMA RestKept ==
    ASSUME UNCHANGED <<inodes, trunk, rings, staged, trim, seqlock, grain, env>>
    PROVE  Recoverable' = Recoverable
<1>1. Trunk' = Trunk /\ Exact' = Exact /\ Uncut' = Uncut
  BY DEF Trunk, Exact, Uncut
<1>2. /\ FitsGrain(rings.recs)' = FitsGrain(rings.recs)
      /\ Holds(Trunk, rings.recs)' = Holds(Trunk, rings.recs)
      /\ Holds(Trunk, staged.recs)' = Holds(Trunk, staged.recs)
  BY <1>1 DEF FitsGrain, Holds, AllLocated, Located, Ordered, Extent, CompEnd
<1>3. QED
  BY <1>1, <1>2 DEF Recoverable

LEMMA DiesRight ==
    ASSUME DropsRecover, env \in Environments, Typed, StoreRight, Crash \/ CollapseFatal
    PROVE  Typed' /\ StoreRight'
<1>1. /\ UNCHANGED <<inodes, trunk, rings, staged, trim, seqlock, grain, env>>
      /\ Die
  BY DEF Crash, CollapseFatal, disk, history
<1>2. /\ pc' = "down" /\ fd' = 1 /\ chunks' = <<>> /\ compSize' = 0 /\ nextSeq' = 0
      /\ cut' = 0 /\ seq0' = 0
  BY <1>1 DEF Die
<1>3. Typed'
  <2>1. 1 \in 1 .. Len(inodes) /\ <<>> \in Seq(Record)
    BY SizesOfTrunk, EmptySeq DEF Typed
  <2>2. QED
    BY <1>1, <1>2, <2>1 DEF Typed, Opening, Shaped
<1>4. Recoverable
  <2>1. CASE pc \in Opening
    BY <2>1 DEF StoreRight, AtRest
  <2>2. CASE pc \notin Opening
    <3>1. AtWork
      BY <2>2 DEF StoreRight
    <3>2. pc = "idle" \/ (pc = "record" /\ ~Exact) \/ (pc \in Cutting \cup Shifted /\ Exact)
      <4>1. CASE Crash
        <5>1. "remove" \notin env.crashes /\ ("collapse" \in env.crashes => "append" \notin env.crashes)
          BY DEF DropsRecover
        <5>2. Collapsing = Cutting \cup Shifted
          BY DEF Collapsing, Cutting, Shifted
        <5>3. \/ pc \in {"idle", "reconcile", "load"}
              \/ pc = "record" /\ "append" \in env.crashes
              \/ pc \in Collapsing /\ "collapse" \in env.crashes
          BY <4>1, <5>1 DEF Crash
        <5>4. QED
          BY <2>2, <5>1, <5>2, <5>3 DEF Opening, Exact
      <4>2. CASE CollapseFatal
        <5>1. staged # NoRings
          BY <3>1, <4>2 DEF AtWork, StagedRight, CollapseFatal
        <5>2. QED
          BY <4>2, <5>1 DEF CollapseFatal, Exact, Shifted
      <4>3. QED
        BY <4>1, <4>2
    <3>3. QED
      BY <3>1, <3>2, AtWorkRecoverable
  <2>3. QED
    BY <2>1, <2>2
<1>5. Recoverable'
  BY <1>1, <1>4, RestKept
<1>6. QED
  BY <1>2, <1>3, <1>5 DEF StoreRight, AtRest, Opening

------------------------------------------------------------------------------
\* A process that opens the store finishes or undoes the drop it finds.
LEMMA EvenedIsEven ==
    ASSUME seqlock \in Nat
    PROVE  Evened \in Nat /\ ~IsOdd(Evened)
BY CounterArithmetic DEF Evened

LEMMA Reconciled ==
    ASSUME Typed, Recoverable, NEW s, s.trim = trim, s.size = Len(Trunk),
           Reconcile(s), trunk' = trunk, env' = env
    PROVE  /\ Recoverable' /\ trim' = NoTrim
           /\ inodes' \in Seq(Seq(Cell)) /\ Len(inodes') = Len(inodes)
           /\ Shaped(rings') /\ Shaped(staged') /\ rings'.next \in Nat
           /\ (staged' # NoRings => staged'.next \in Nat)
           /\ seqlock' \in Nat /\ grain' \in Seq(Int)
<1>1. /\ seqlock \in Nat /\ Evened \in Nat /\ ~IsOdd(Evened) /\ Exact' = Exact
      /\ Trunk \in Seq(Cell) /\ Len(Trunk) \in Nat
      /\ inodes \in Seq(Seq(Cell)) /\ trunk \in 1 .. Len(inodes)
  BY EvenedIsEven, SizesOfTrunk DEF Typed, Exact
<1>2. Shaped(NoRings) /\ NoGrain \in Seq(Int)
  <2>1. <<>> \in Seq(Record)
    BY EmptySeq
  <2>2. QED
    BY <2>1 DEF Shaped, NoRings, NoGrain
<1>3. CASE trim = NoTrim
  <2>1. UNCHANGED <<inodes, rings, staged, trim, seqlock, grain>>
    BY <1>3 DEF Reconcile
  <2>2. Recoverable'
    BY <2>1, RestKept
  <2>3. QED
    BY <1>3, <2>1, <2>2 DEF Typed, Shaped
<1>4. CASE trim # NoTrim /\ Len(Trunk) = trim.pre
  <2>1. /\ staged' = NoRings /\ trim' = NoTrim /\ seqlock' = Evened
        /\ UNCHANGED <<inodes, rings, grain>>
    BY <1>4 DEF Reconcile
  <2>2. Holds(Trunk, rings.recs) /\ FitsGrain(rings.recs)
    BY <1>4 DEF Recoverable, Uncut
  <2>3. Holds(Trunk, rings.recs)' /\ FitsGrain(rings.recs)'
    BY <1>1, <2>1, <2>2 DEF Holds, FitsGrain, Trunk, AllLocated, Located, Ordered, Extent, CompEnd
  <2>4. Recoverable'
    BY <1>1, <2>1, <2>3 DEF Recoverable, Uncut
  <2>5. QED
    BY <1>1, <1>2, <2>1, <2>4 DEF Typed, Shaped
<1>5. CASE trim # NoTrim /\ Len(Trunk) # trim.pre
  <2> DEFINE recs == IF staged = NoRings THEN rings.recs ELSE staged.recs
             new == Stamp(Trunk, trim.sliver)
  <2>1. /\ Len(Trunk) = trim.pre - trim.aligned
        /\ trim.sliver \in Nat
        /\ trim.sliver = 0 \/ (HeaderMin <= trim.sliver /\ trim.sliver <= Len(Trunk))
        /\ Holds(Trunk, recs)
        /\ \A i \in 1 .. Len(recs) : trim.sliver <= recs[i].start
    BY <1>5 DEF Recoverable, Uncut, Typed
  <2>2. /\ inodes' = [inodes EXCEPT ![trunk] = Stamp(inodes[trunk], trim.sliver)]
        /\ rings' = (IF staged = NoRings THEN rings ELSE staged)
        /\ staged' = NoRings /\ trim' = NoTrim /\ grain' = NoGrain /\ seqlock' = Evened
    BY <1>5, <2>1 DEF Reconcile
  <2>3. /\ new \in Seq(Cell) /\ Len(new) = Len(Trunk)
        /\ \A i \in 1 .. Len(Trunk) : i > trim.sliver => new[i] = Trunk[i]
    BY <1>1, <2>1, Stamped
  <2>4. inodes' = [inodes EXCEPT ![trunk] = new]
    BY <2>2 DEF Trunk
  <2> HIDE DEF new
  <2>5. inodes' \in Seq(Seq(Cell)) /\ Len(inodes') = Len(inodes) /\ Trunk' = new
    BY <1>1, <2>3, <2>4, FileChanged DEF Trunk
  <2>6. Shaped(rings') /\ rings'.next \in Nat /\ rings'.recs = recs /\ recs \in Seq(Record)
    BY <2>2 DEF Typed, Shaped
  <2> HIDE DEF recs
  <2>7. AllLocated(new, recs)
    <3> SUFFICES ASSUME NEW i \in 1 .. Len(recs) PROVE Located(new, recs[i])
      BY DEF AllLocated
    <3>1. recs[i] \in Record
      BY <2>6, ElementOfSeq
    <3>2. Located(Trunk, recs[i]) /\ trim.sliver <= recs[i].start
      BY <2>1 DEF Holds, AllLocated
    <3>3. \A j \in 1 .. Len(Trunk) : j <= 0 \/ j > trim.sliver => new[j] = Trunk[j]
      BY <2>3
    <3>4. 0 \in Nat /\ Len(Trunk) <= Len(new)
      BY <1>1, <2>3
    <3>5. QED
      BY <1>1, <2>1, <2>3, <3>1, <3>2, <3>3, <3>4, StaysLocated, Zenon
  <2>8. Holds(new, recs)
    BY <2>1, <2>3, <2>7 DEF Holds
  <2>9. Holds(Trunk, rings.recs)'
    BY <1>1, <2>5, <2>6, <2>8 DEF Holds, AllLocated, Located, Ordered, Extent, CompEnd
  <2>10. FitsGrain(rings.recs)'
    BY <2>2 DEF FitsGrain
  <2>11. Recoverable'
    BY <1>1, <2>2, <2>9, <2>10 DEF Recoverable, Uncut
  <2>12. QED
    BY <1>1, <1>2, <2>2, <2>5, <2>6, <2>11
<1>6. QED
  BY <1>3, <1>4, <1>5

LEMMA OpenLookRight ==
    ASSUME Typed, StoreRight, OpenLook
    PROVE  Typed' /\ StoreRight'
<1>1. /\ UNCHANGED <<inodes, trunk, rings, staged, trim, seqlock, grain, env>>
      /\ UNCHANGED <<fd, chunks, compSize, nextSeq, cut, seq0>>
      /\ pc = "down" /\ pc' = "reconcile"
  BY DEF OpenLook, disk, history
<1>2. Recoverable'
  BY <1>1, RestKept DEF StoreRight, AtRest, Opening
<1>3. QED
  BY <1>1, <1>2 DEF Typed, StoreRight, AtRest, Opening, Shaped

LEMMA OpenReconcileRight ==
    ASSUME Typed, LooksTrue, StoreRight, OpenReconcile
    PROVE  Typed' /\ StoreRight'
<1>1. /\ Reconcile(seen) /\ pc = "reconcile" /\ pc' = "load" /\ trunk' = trunk /\ env' = env
      /\ UNCHANGED <<fd, chunks, compSize, nextSeq, cut, seq0>>
  BY DEF OpenReconcile, history
<1>2. Recoverable /\ seen.trim = trim /\ seen.size = Len(Trunk)
  BY <1>1 DEF LooksTrue, StoreRight, AtRest, Opening
<1>3. /\ Recoverable' /\ trim' = NoTrim
      /\ inodes' \in Seq(Seq(Cell)) /\ Len(inodes') = Len(inodes)
      /\ Shaped(rings') /\ Shaped(staged') /\ rings'.next \in Nat
      /\ (staged' # NoRings => staged'.next \in Nat)
      /\ seqlock' \in Nat /\ grain' \in Seq(Int)
  BY <1>1, <1>2, Reconciled
<1>4. NoTrim.pre \in Int /\ NoTrim.aligned \in Nat /\ NoTrim.sliver \in Nat
  BY DEF NoTrim
<1>5. QED
  BY <1>1, <1>3, <1>4 DEF Typed, StoreRight, AtRest, Opening

LEMMA ReadReconcileRight ==
    ASSUME Typed, LooksTrue, StoreRight, ReadReconcile
    PROVE  Typed' /\ StoreRight'
<1>1. /\ Reconcile(rseen) /\ pc' = pc /\ trunk' = trunk /\ env' = env
      /\ UNCHANGED <<fd, chunks, compSize, nextSeq, cut, seq0>>
      /\ pc = "down" /\ rseen.trim = trim /\ rseen.size = Len(Trunk)
  BY DEF ReadReconcile, history, LooksTrue
<1>2. Recoverable
  BY <1>1 DEF StoreRight, AtRest, Opening
<1>3. /\ Recoverable' /\ trim' = NoTrim
      /\ inodes' \in Seq(Seq(Cell)) /\ Len(inodes') = Len(inodes)
      /\ Shaped(rings') /\ Shaped(staged') /\ rings'.next \in Nat
      /\ (staged' # NoRings => staged'.next \in Nat)
      /\ seqlock' \in Nat /\ grain' \in Seq(Int)
  BY <1>1, <1>2, Reconciled
<1>4. NoTrim.pre \in Int /\ NoTrim.aligned \in Nat /\ NoTrim.sliver \in Nat
  BY DEF NoTrim
<1>5. QED
  BY <1>1, <1>3, <1>4 DEF Typed, StoreRight, AtRest, Opening

\* The open drops the records its trunk does not hold: none.
LEMMA OpenLoads ==
    ASSUME Typed, StoreRight, OpenLoad
    PROVE  chunks' = rings.recs /\ rings' = rings
<1> DEFINE n == Len(rings.recs)
           held == {i \in 0 .. n : i = 0 \/ CompEnd(rings.recs[i]) <= Len(Trunk)}
<1>1. /\ pc = "load"
      /\ chunks' = SubSeq(rings.recs, 1, Max(held))
      /\ rings' = [rings EXCEPT !.recs = SubSeq(rings.recs, 1, Max(held))]
  BY DEF OpenLoad
<1>2. AllLocated(Trunk, rings.recs)
  BY <1>1 DEF StoreRight, AtRest, Opening, Recoverable, Uncut, Holds
<1>3. rings.recs \in Seq(Record) /\ n \in Nat /\ Len(Trunk) \in Nat
  BY SizesOfTrunk, SeqElements DEF Typed, Shaped
<1>4. Max(held) = n
  <2>1. held = 0 .. n
    BY <1>2, <1>3 DEF AllLocated, Located
  <2>2. \A m \in Nat : Max(0 .. m) = m
    BY DEF Max
  <2>3. QED
    BY <1>3, <2>1, <2>2
<1> HIDE DEF held
<1>5. SubSeq(rings.recs, 1, n) = rings.recs
  <2>1. n \in 0 .. n /\ 0 \in 0 .. n
    BY <1>3
  <2>2. QED
    BY <1>3, <2>1, PrefixIsSeq
<1>6. [rings EXCEPT !.recs = rings.recs] = rings
  BY DEF Typed, Shaped
<1>7. QED
  BY <1>1, <1>4, <1>5, <1>6

LEMMA OpenLoadRight ==
    ASSUME Typed, StoreRight, OpenLoad
    PROVE  Typed' /\ StoreRight'
<1> DEFINE n == Len(rings.recs)
<1>5. chunks' = rings.recs /\ rings' = rings
  BY OpenLoads
<1>1. /\ pc = "load" /\ pc' = "idle" /\ fd' = trunk /\ attached' = TRUE
      /\ UNCHANGED <<inodes, trunk, staged, trim, seqlock, grain, cut, seq0, env>>
      /\ compSize' = (IF chunks' = <<>> THEN 0 ELSE CompEnd(Last(chunks')))
      /\ nextSeq' = IF rings.recs = <<>> THEN rings.next
                    ELSE Max({rings.next, Last(rings.recs).seq + 1})
  BY DEF OpenLoad, history
<1>2. /\ trim = NoTrim /\ ~IsOdd(seqlock)
      /\ AllLocated(Trunk, rings.recs) /\ Ordered(rings.recs)
      /\ Exact => Len(Trunk) = Extent(rings.recs)
      /\ FitsGrain(rings.recs)
  BY <1>1 DEF StoreRight, AtRest, Opening, Recoverable, Uncut, Holds
<1>3. /\ rings.recs \in Seq(Record) /\ n \in Nat /\ rings.next \in Nat /\ Len(Trunk) \in Nat
      /\ Trunk \in Seq(Cell)
      /\ \A i \in 1 .. n : rings.recs[i] \in Record
  BY SizesOfTrunk, SeqElements DEF Typed, Shaped
<1>6. compSize' = Extent(rings.recs) /\ compSize' \in Nat
      /\ compSize' <= Len(Trunk)
      /\ \A i \in 1 .. n : CompEnd(rings.recs[i]) <= compSize'
  <2>1. \A i \in 1 .. n : /\ CompEnd(rings.recs[i]) \in Nat /\ CompEnd(rings.recs[i]) <= Len(Trunk)
                          /\ rings.recs[i].start \in Nat /\ rings.recs[i].len \in Nat
    <3>1. \A rec \in Record : rec.start \in Nat /\ rec.len \in Nat /\ CompEnd(rec) \in Nat
      BY DEF Record, CompEnd
    <3>2. \A i \in 1 .. n : CompEnd(rings.recs[i]) <= Len(Trunk)
      BY <1>2 DEF AllLocated, Located
    <3>3. QED
      BY <1>3, <3>1, <3>2
  <2>2. compSize' = Extent(rings.recs)
    BY <1>1, <1>5 DEF Extent, Last
  <2>3. CASE rings.recs = <<>>
    <3>1. n = 0
      BY <2>3
    <3>2. QED
      BY <1>3, <2>2, <2>3, <3>1 DEF Extent
  <2>4. CASE rings.recs # <<>>
    <3>1. n \in 1 .. n
      BY <1>3, <2>4, SeqElements
    <3>2. compSize' = CompEnd(rings.recs[n])
      BY <2>2, <2>4 DEF Extent
    <3>3. \A i \in 1 .. n : i < n \/ i = n
      BY <1>3
    <3>4. \A i \in 1 .. n : i < n => CompEnd(rings.recs[i]) <= rings.recs[n].start
      BY <1>2, <3>1 DEF Ordered
    <3>5. rings.recs[n].start <= CompEnd(rings.recs[n])
      BY <2>1, <3>1 DEF CompEnd
    <3>6. \A i \in 1 .. n : CompEnd(rings.recs[i]) <= compSize'
      <4> TAKE i \in 1 .. n
      <4>1. CASE i < n
        BY <2>1, <3>1, <3>2, <3>4, <3>5, <4>1
      <4>2. CASE i = n
        BY <2>1, <3>1, <3>2, <4>2
      <4>3. QED
        BY <3>3, <4>1, <4>2
    <3>7. QED
      BY <2>1, <2>2, <3>1, <3>2, <3>6
  <2>5. QED
    BY <2>3, <2>4
<1>7. nextSeq' \in Nat
  <2>1. \A a \in Nat, b \in Int : Max({a, b}) \in Nat
    <3> TAKE a \in Nat, b \in Int
    <3>1. CASE a >= b
      BY <3>1 DEF Max
    <3>2. CASE a < b
      <4>1. Max({a, b}) = b
        BY <3>2 DEF Max
      <4>2. QED
        BY <3>2, <4>1
    <3>3. QED
      BY <3>1, <3>2
  <2>2. rings.recs # <<>> => Last(rings.recs).seq + 1 \in Int
    <3> SUFFICES ASSUME rings.recs # <<>> PROVE Last(rings.recs).seq + 1 \in Int
      OBVIOUS
    <3>1. n \in 1 .. n
      BY <1>3, SeqElements
    <3>2. Last(rings.recs) \in Record
      BY <1>3, <3>1 DEF Last
    <3>3. QED
      BY <3>2 DEF Record
  <2>3. QED
    BY <1>1, <1>3, <2>1, <2>2
<1>8. Typed'
  <2>1. pc' \in Resting
    BY <1>1 DEF Resting
  <2>2. QED
    BY <1>1, <1>3, <1>5, <1>6, <1>7, <2>1 DEF Typed, Shaped
<1>9. Exact' = Exact /\ Trunk' = Trunk /\ inodes'[fd'] = Trunk
  BY <1>1 DEF Exact, Trunk
<1>10. MemoryRight'
  <2>1. Ordered(chunks)' /\ Extent(chunks)' = Extent(rings.recs)
    BY <1>2, <1>5 DEF Ordered, CompEnd, Extent
  <2>2. (\A i \in 1 .. Len(chunks) : CompEnd(chunks[i]) <= compSize)'
    BY <1>5, <1>6 DEF CompEnd
  <2>3. QED
    BY <1>1, <1>6, <2>1, <2>2 DEF MemoryRight, Cutting, Shifted, Rewriting, Renamed
<1>11. TrunkRight'
  <2>1. AllLocated(inodes[fd], chunks)'
    BY <1>2, <1>5, <1>9 DEF AllLocated, Located, CompEnd
  <2>2. compSize' <= Len(inodes'[fd']) /\ (Exact' => Len(inodes'[fd']) = compSize')
    BY <1>2, <1>6, <1>9
  <2>3. UncutRight'
    BY <1>1, <2>1, <2>2 DEF UncutRight
  <2>4. QED
    BY <1>1, <2>3 DEF TrunkRight, Shifted, Renamed
<1>12. IndexRight' /\ StagedRight'
  BY <1>1, <1>5 DEF IndexRight, StagedRight
<1>13. SideRight'
  <2>1. FitsGrain(rings.recs)'
    BY <1>1, <1>2, <1>5 DEF FitsGrain
  <2>2. QED
    BY <1>1, <1>2, <2>1 DEF SideRight, Marked, Shifted, InWindow
<1>14. QED
  BY <1>1, <1>8, <1>10, <1>11, <1>12, <1>13 DEF AtWork, StoreRight, Opening

------------------------------------------------------------------------------
\* Every step.
DropStep == SteadyStep \/ CollapseCut \/ CollapseStamp \/ CollapseUnmark
            \/ RemoveTrunk \/ RemoveEven
            \/ (\E k \in Droppable : CollapseStage(k))
            \/ (\E k \in Droppable \cup {cut} : RemoveStage(k))

ReaderOnly == ReadStart \/ ReadLook \/ ReadSample \/ ReadIndex \/ ReadOpen \/ ReadGrain
              \/ ReadJudge \/ ReadPick \/ ReadBefore \/ ReadFrame \/ ReadAfter \/ ReadRaced
              \/ ReadRelocate \/ ReadEnd

WriterOnly == OpenLook \/ OpenReconcile \/ OpenLoad \/ (\E len \in env.lens : AppendFrame(len))
              \/ AppendRecord \/ ExtendGrain \/ Collapse \/ RemoveFront \/ Crash

\* A reader's steps but its reconciliation leave the store and its writer alone, ...
LEMMA ReaderOnlyReads ==
    ASSUME ReaderOnly
    PROVE  UNCHANGED <<disk, pc, writer, env>>
BY DEF ReaderOnly, ReadStart, ReadLook, ReadSample, ReadIndex, ReadOpen, ReadGrain, ReadJudge,
       ReadPick, ReadBefore, ReadFrame, ReadAfter, ReadRaced, ReadRelocate, ReadEnd, history

\* ... and the writer's leave the reader.
LEMMA WriterOnlyWrites ==
    ASSUME WriterOnly
    PROVE  UNCHANGED <<reader, env>>
<1>1. ASSUME NEW k, CollapseStage(k) \/ RemoveStage(k) PROVE UNCHANGED <<reader, env>>
  BY <1>1 DEF CollapseStage, RemoveStage, history
<1>2. ASSUME NEW len, AppendFrame(len) PROVE UNCHANGED <<reader, env>>
  BY <1>2 DEF AppendFrame, history
<1>3. CollapseMark \/ CollapseOdd \/ CollapseCut \/ CollapseRefused \/ CollapseStamp \/ CollapseRename
      \/ CollapseFatal \/ CollapseGrain \/ CollapseEven \/ CollapseUnmark
      => UNCHANGED <<reader, env>>
  BY DEF CollapseMark, CollapseOdd, CollapseCut, CollapseRefused, CollapseStamp, CollapseRename,
     CollapseFatal, CollapseGrain, CollapseEven, CollapseUnmark, history
<1>4. RemoveOdd \/ RemoveTrunk \/ RemoveRings \/ RemoveRingsFails \/ RemoveGrain \/ RemoveEven
      => UNCHANGED <<reader, env>>
  BY DEF RemoveOdd, RemoveTrunk, RemoveRings, RemoveRingsFails, RemoveGrain, RemoveEven, history
<1>5. OpenLook \/ OpenReconcile \/ OpenLoad \/ AppendRecord \/ ExtendGrain \/ Crash
      => UNCHANGED <<reader, env>>
  BY DEF OpenLook, OpenReconcile, OpenLoad, AppendRecord, ExtendGrain, Crash, history
<1>6. QED
  BY <1>1, <1>2, <1>3, <1>4, <1>5 DEF WriterOnly, Collapse, RemoveFront

LEMMA StepsByActor ==
    ASSUME Next
    PROVE  WriterOnly \/ ReadReconcile \/ ReaderOnly
BY DEF Next, Writer, Reader, OpenStore, WriterOnly, ReaderOnly

\* What the writer does at work, with its index staged where it staged it.
LEMMA WorkRight ==
    ASSUME DropsRecover, env \in Environments, Typed, AtWork,
           DropStep \/ AppendRecord \/ (\E len \in env.lens : AppendFrame(len))
    PROVE  Typed' /\ AtWork'
<1>1. CASE DropStep
  <2>1. CASE SteadyStep
    BY <2>1, SteadyRight
  <2>2. CASE CollapseCut
    BY <2>2, CollapseCutRight
  <2>3. CASE CollapseStamp
    BY <2>3, CollapseStampRight
  <2>4. CASE CollapseUnmark \/ RemoveEven
    BY <2>4, TakeCutRight
  <2>5. CASE RemoveTrunk
    BY <2>5, RemoveTrunkRight
  <2>6. ASSUME NEW k \in Droppable, CollapseStage(k) PROVE Typed' /\ AtWork'
    <3>1. k \in Droppable \cup {cut}
      OBVIOUS
    <3>2. QED
      BY <2>6, <3>1, StageRight
  <2>7. ASSUME NEW k \in Droppable \cup {cut}, RemoveStage(k) PROVE Typed' /\ AtWork'
    BY <2>7, StageRight
  <2>8. QED
    BY <1>1, <2>1, <2>2, <2>3, <2>4, <2>5, <2>6, <2>7 DEF DropStep
<1>2. CASE AppendRecord
  BY <1>2, AppendRecordRight
<1>3. ASSUME NEW len \in env.lens, AppendFrame(len) PROVE Typed' /\ AtWork'
  BY <1>3, AppendFrameRight
<1>4. QED
  BY <1>1, <1>2, <1>3

LEMMA WriterSteps ==
    ASSUME WriterOnly
    PROVE  \/ DropStep \/ AppendRecord \/ (\E len \in env.lens : AppendFrame(len))
           \/ RemoveRingsFails \/ OpenLook \/ OpenReconcile \/ OpenLoad \/ Crash \/ CollapseFatal
BY DEF WriterOnly, DropStep, SteadyStep, Collapse, RemoveFront

\* The phases a writer at work goes through.
LEMMA WorkPhases ==
    ASSUME DropStep \/ AppendRecord \/ (\E len \in env.lens : AppendFrame(len)) \/ RemoveRingsFails
    PROVE  pc \notin Opening /\ pc' \notin Opening
<1>1. ASSUME NEW k, CollapseStage(k) \/ RemoveStage(k) PROVE pc \notin Opening /\ pc' \notin Opening
  BY <1>1 DEF CollapseStage, RemoveStage, Opening
<1>2. ASSUME NEW len, AppendFrame(len) PROVE pc \notin Opening /\ pc' \notin Opening
  BY <1>2 DEF AppendFrame, Opening
<1>3. CASE SteadyStep
  BY <1>3, StepsAreSteady DEF Steady, Opening, Cutting, Shifted, Renamed
<1>4. CASE CollapseCut \/ CollapseStamp \/ CollapseUnmark \/ RemoveTrunk \/ RemoveEven
           \/ AppendRecord \/ RemoveRingsFails
  BY <1>4 DEF CollapseCut, CollapseStamp, CollapseUnmark, RemoveTrunk, RemoveEven, TakeCut,
     AppendRecord, RemoveRingsFails, Opening
<1>5. QED
  BY <1>1, <1>2, <1>3, <1>4 DEF DropStep

\* What a process that reconciles has seen stays true, as it is the only one to act.
LEMMA LooksStayTrue ==
    ASSUME DropsRecover, env \in Environments, ~Meddling, LooksTrue,
           WriterOnly \/ ReadReconcile \/ ReaderOnly
    PROVE  LooksTrue'
<1>1. rpc \in {"look", "reconcile"} => "alone" \in env.readers
  BY DEF LooksTrue, Meddling
<1>2. CASE WriterOnly
  <2>1. /\ rpc' = rpc /\ rseen' = rseen /\ env' = env
    BY <1>2, WriterOnlyWrites DEF reader
  <2>2. rpc # "reconcile" \/ pc = "down"
    BY DEF LooksTrue
  <2>3. CASE OpenLook
    BY <1>1, <2>1, <2>3 DEF OpenLook, LooksTrue, disk, Trunk
  <2>4. CASE ~OpenLook
    <3>1. pc # "down" /\ pc' # "reconcile"
      <4>1. CASE DropStep \/ AppendRecord \/ (\E len \in env.lens : AppendFrame(len)) \/ RemoveRingsFails
        BY <4>1, WorkPhases DEF Opening
      <4>2. CASE OpenReconcile \/ OpenLoad \/ Crash \/ CollapseFatal
        BY <4>2 DEF OpenReconcile, OpenLoad, Crash, CollapseFatal, Die
      <4>3. QED
        BY <1>2, <2>4, <4>1, <4>2, WriterSteps
    <3>2. QED
      BY <2>1, <3>1 DEF LooksTrue
  <2>5. QED
    BY <2>3, <2>4
<1>3. CASE ReadReconcile
  <2>1. pc = "down" /\ pc' = pc /\ rpc' \notin {"look", "reconcile"}
    BY <1>3 DEF LooksTrue, ReadReconcile
  <2>2. QED
    BY <2>1 DEF LooksTrue
<1>4. CASE ReaderOnly
  <2>1. /\ trim' = trim /\ Trunk' = Trunk /\ pc' = pc /\ seen' = seen /\ env' = env
    BY <1>4, ReaderOnlyReads DEF disk, writer, Trunk
  <2>2. CASE ReadLook
    BY <1>1, <2>1, <2>2 DEF ReadLook, LooksTrue
  <2>3. CASE ~ReadLook
    <3>1. rpc' # "reconcile" /\ (rpc' = "look" => "reconcile" \in env.readers)
      BY <1>4, <2>3 DEF ReaderOnly, ReadStart, ReadSample, ReadIndex, ReadOpen, ReadGrain, ReadJudge,
         ReadPick, ReadBefore, ReadFrame, ReadAfter, ReadRaced, ReadRelocate, ReadEnd, OpenSource
    <3>2. QED
      BY <2>1, <3>1 DEF LooksTrue
  <2>4. QED
    BY <2>2, <2>3
<1>5. QED
  BY <1>2, <1>3, <1>4

LEMMA StoreUntouched ==
    ASSUME UNCHANGED <<inodes, trunk, rings, staged, trim, seqlock, grain, env, pc, fd, attached, chunks,
                       compSize, nextSeq, cut, seq0>>
    PROVE  StoreRight' = StoreRight
<1>1. AtRest' = AtRest
  BY RestKept DEF AtRest
<1>2. AtWork' = AtWork
  <2>1. CompCut' = CompCut /\ Aligned' = Aligned /\ Sliver' = Sliver /\ Exact' = Exact /\ Trunk' = Trunk
    BY SteadyShapes DEF Trunk
  <2>2. MemoryRight' = MemoryRight
    BY <2>1 DEF MemoryRight, Ordered, Extent, CompEnd
  <2>3. TrunkRight' = TrunkRight
    BY <2>1 DEF TrunkRight, UncutRight, LeftRight, AllLocated, Located, CompEnd, Remains
  <2>4. IndexRight' = IndexRight /\ StagedRight' = StagedRight
    BY <2>1 DEF IndexRight, StagedRight, Remains
  <2>5. SideRight' = SideRight
    BY <2>1 DEF SideRight, FitsGrain
  <2>6. QED
    BY <2>2, <2>3, <2>4, <2>5 DEF AtWork
<1>3. QED
  BY <1>1, <1>2 DEF StoreRight

LEMMA StoreStays ==
    ASSUME DropsRecover, env \in Environments, ~Meddling, StoreInv,
           WriterOnly \/ ReadReconcile \/ ReaderOnly
    PROVE  StoreInv'
<1>1. Typed /\ LooksTrue /\ StoreRight
  BY DEF StoreInv
<1>2. LooksTrue'
  BY <1>1, LooksStayTrue
<1>3. CASE WriterOnly
  <2> SUFFICES Typed' /\ StoreRight'
    BY <1>2 DEF StoreInv
  <2>1. CASE DropStep \/ AppendRecord \/ (\E len \in env.lens : AppendFrame(len))
    BY <1>1, <2>1, WorkRight, WorkPhases DEF StoreRight
  <2>2. CASE RemoveRingsFails
    BY <1>1, <2>2 DEF RemoveRingsFails, StoreRight, AtWork, StagedRight, Opening
  <2>3. CASE OpenLook
    BY <1>1, <2>3, OpenLookRight
  <2>4. CASE OpenReconcile
    BY <1>1, <2>4, OpenReconcileRight
  <2>5. CASE OpenLoad
    BY <1>1, <2>5, OpenLoadRight
  <2>6. CASE Crash \/ CollapseFatal
    BY <1>1, <2>6, DiesRight
  <2>7. QED
    BY <1>3, <2>1, <2>2, <2>3, <2>4, <2>5, <2>6, WriterSteps
<1>4. CASE ReadReconcile
  BY <1>1, <1>2, <1>4, ReadReconcileRight DEF StoreInv
<1>5. CASE ReaderOnly
  <2>1. UNCHANGED <<inodes, trunk, rings, staged, trim, seqlock, grain, env, pc, fd, attached, chunks,
                    compSize, nextSeq, cut, seq0>>
    BY <1>5, ReaderOnlyReads DEF disk, writer
  <2>2. Typed'
    BY <1>1, <2>1 DEF Typed, Shaped
  <2>3. StoreRight' = StoreRight
    BY <2>1, StoreUntouched
  <2>4. QED
    BY <1>1, <1>2, <2>2, <2>3 DEF StoreInv
<1>6. QED
  BY <1>3, <1>4, <1>5

------------------------------------------------------------------------------
\* A reader's index is current while the counter is even and where it was before the
\* index was read, or a collapse that has not cut yet has made it odd: only from there
\* does the counter ever come back.
Current ==
    /\ ~IsOdd(handle.seq)
    /\ handle.seq = seqlock \/ (pc = "c_cut" /\ handle.seq + 1 = seqlock)

Begins(s, t) == Len(s) <= Len(t) /\ \A i \in 1 .. Len(s) : s[i] = t[i]

TrustsItsOwn ==
    trusted # NoGrain =>
        \A i \in 1 .. Len(trusted) : i <= Len(handle.recs) => trusted[i] = handle.recs[i].seq

OwnBytes == bytes = FrameCells(want.seq, want.len)

ReaderTyped ==
    /\ handle = [recs |-> handle.recs, ino |-> handle.ino, seq |-> handle.seq]
    /\ handle.recs \in Seq(Record) /\ handle.ino \in 0 .. Len(inodes) /\ handle.seq \in Nat
    /\ trusted \in Seq(Int)
    /\ rpc \in {"grain", "judge", "pick", "relocate", "before", "read", "after", "done"} =>
          handle.ino # 0
    /\ rpc \in {"before", "read", "after", "done"} =>
          \E i \in 1 .. Len(handle.recs) : want = handle.recs[i]

\* A current index is the store's, as far as it goes; and what was read or trusted under
\* it is what it names.
ReaderRight ==
    /\ ~IsOdd(handle.seq) => handle.seq <= seqlock
    /\ Current =>
          /\ handle.ino # 0 => handle.ino = trunk
          /\ Begins(handle.recs, rings.recs)
          /\ rpc = "judge" => TrustsItsOwn
          /\ rpc = "after" => OwnBytes
    /\ rpc = "pick" => TrustsItsOwn
    /\ rpc = "done" /\ handle.seq = before => OwnBytes

HeadInv ==
    /\ env \in Environments
    /\ Meddling => rpc \in {"idle", "look", "reconcile", "over"}
    /\ ~Meddling => StoreInv /\ ReaderTyped /\ ReaderRight

------------------------------------------------------------------------------
\* While the counter is even, or about to be put back, the index locates every frame
\* and the filters are its own.
LEMMA EvenLocates ==
    ASSUME Typed, StoreRight, ~IsOdd(seqlock) \/ pc = "c_cut"
    PROVE  AllLocated(Trunk, rings.recs) /\ FitsGrain(rings.recs)
<1>1. CASE pc \in Opening
  BY <1>1 DEF StoreRight, AtRest, Opening, Recoverable, Uncut, Holds
<1>2. CASE pc \notin Opening
  <2>1. MemoryRight /\ TrunkRight /\ IndexRight /\ SideRight
    BY <1>2 DEF StoreRight, AtWork
  <2>2. pc \in Resting \cup {"c_unmark"} /\ pc \notin {"c_grain", "r_grain"}
    BY <1>2, <2>1 DEF SideRight, InWindow, Typed, Resting, Cutting, Shifted, Rewriting, Renamed
  <2>3. FitsGrain(rings.recs)
    BY <2>1, <2>2 DEF SideRight
  <2>4. CASE pc \in Resting
    <3>1. fd = trunk /\ rings.recs = chunks
      BY <2>1, <2>4 DEF MemoryRight, IndexRight, Resting, Cutting, Rewriting, Renamed
    <3>2. QED
      BY <2>1, <2>3, <2>4, <3>1 DEF TrunkRight, UncutRight, Trunk
  <2>5. CASE pc = "c_unmark"
    BY <2>1, <2>3, <2>5 DEF TrunkRight, LeftRight, IndexRight, Shifted
  <2>6. QED
    BY <2>2, <2>4, <2>5
<1>3. QED
  BY <1>1, <1>2

------------------------------------------------------------------------------
\* What a step does to the counter, as a reader sees it.
Quiet == /\ seqlock' = seqlock /\ trunk' = trunk /\ Begins(rings.recs, rings'.recs)
         /\ pc' = "c_cut" => pc = "c_cut"
InsideWindow == IsOdd(seqlock) /\ seqlock' = seqlock /\ pc' # "c_cut"
Raises == /\ seqlock' = seqlock + 1
          /\ pc' = "c_cut" => trunk' = trunk /\ rings' = rings
Restores == /\ pc = "c_cut" /\ pc' # "c_cut" /\ seqlock = seqlock' + 1
            /\ IsOdd(seqlock) /\ trunk' = trunk /\ rings' = rings

LEMMA BeginsItself ==
    ASSUME Typed
    PROVE  Begins(rings.recs, rings.recs)
BY SeqElements DEF Typed, Shaped, Begins

\* A reconciliation changes the index only under an odd counter.
LEMMA ReconcileCounts ==
    ASSUME Typed, Recoverable, NEW s, s.trim = trim, s.size = Len(Trunk),
           Reconcile(s), trunk' = trunk, pc' # "c_cut"
    PROVE  Quiet \/ Raises
<1>1. seqlock' = seqlock \/ (IsOdd(seqlock) /\ seqlock' = seqlock + 1)
  BY DEF Reconcile, Evened
<1>2. IsOdd(seqlock) => seqlock' = seqlock + 1 \/ UNCHANGED <<rings, seqlock>>
  BY DEF Reconcile, Evened
<1>3. ~IsOdd(seqlock) => rings' = rings
  <2>1. CASE staged = NoRings
    BY <2>1 DEF Reconcile
  <2>2. CASE staged # NoRings /\ ~IsOdd(seqlock)
    <3>1. Uncut
      BY <2>2 DEF Recoverable
    <3>2. QED
      BY <3>1 DEF Reconcile, Uncut
  <2>3. QED
    BY <2>1, <2>2
<1>4. Begins(rings.recs, rings.recs)
  BY BeginsItself
<1>5. QED
  BY <1>1, <1>2, <1>3, <1>4 DEF Quiet, Raises

LEMMA StepsCount ==
    ASSUME env \in Environments, StoreInv, WriterOnly \/ ReadReconcile
    PROVE  Quiet \/ InsideWindow \/ Raises \/ Restores
<1>1. /\ Typed /\ LooksTrue /\ StoreRight
      /\ seqlock \in Nat /\ seq0 \in Nat
      /\ Begins(rings.recs, rings.recs)
  BY BeginsItself DEF StoreInv, Typed
<1>2. pc \notin Opening => SideRight /\ IndexRight /\ StagedRight /\ MemoryRight
  BY <1>1 DEF StoreRight, AtWork
<1> DEFINE Goal == Quiet \/ InsideWindow \/ Raises \/ Restores
<1>3. ASSUME NEW len \in env.lens, AppendFrame(len) PROVE Goal
  BY <1>1, <1>3 DEF AppendFrame, Quiet
<1>4. CASE AppendRecord
  <2>1. rings.recs = chunks /\ attached = TRUE /\ pc = "record" /\ pc' = "idle"
    BY <1>2, <1>4 DEF AppendRecord, IndexRight, MemoryRight, Opening
  <2>2. AtWork
    BY <1>1, <2>1 DEF StoreRight, Opening
  <2>3. IndexRight'
    BY <1>1, <1>4, <2>2, AppendRecordRight DEF AtWork
  <2>4. rings'.recs = chunks'
    BY <2>1, <2>3 DEF IndexRight
  <2> DEFINE rec == [seq |-> nextSeq, start |-> compSize, len |-> cut]
  <2>5. chunks \in Seq(Record) /\ rec \in Record /\ chunks' = Append(chunks, rec)
    BY <1>1, <1>4 DEF Typed, Record, AppendRecord
  <2> HIDE DEF rec
  <2>6. Begins(chunks, Append(chunks, rec))
    BY <2>5, AppendIsSeq DEF Begins
  <2>7. QED
    BY <1>1, <1>4, <2>1, <2>4, <2>5, <2>6 DEF AppendRecord, Quiet
<1>5. CASE CollapseRename \/ RemoveRings \/ RemoveTrunk
  <2>1. /\ pc \in {"c_rename", "r_rings", "r_trunk"} /\ pc' \in {"c_grain", "r_grain", "r_rings"}
        /\ seqlock' = seqlock
    BY <1>5 DEF CollapseRename, RemoveRings, RemoveTrunk
  <2>2. IsOdd(seqlock)
    BY <1>2, <2>1 DEF SideRight, InWindow, Opening
  <2>3. QED
    BY <2>1, <2>2 DEF InsideWindow
<1>6. CASE CollapseRefused
  <2>1. /\ pc = "c_cut" /\ pc' = "r_stage" /\ seqlock' = seq0
        /\ trunk' = trunk /\ rings' = rings
    BY <1>6 DEF CollapseRefused
  <2>2. IsOdd(seqlock) /\ seqlock = seq0 + 1
    BY <1>2, <2>1 DEF SideRight, InWindow, Opening
  <2>3. QED
    BY <1>1, <2>1, <2>2 DEF Restores
<1>7. CASE CollapseEven \/ RemoveEven \/ CollapseOdd \/ RemoveOdd
  <2>1. /\ trunk' = trunk /\ rings' = rings
        /\ \/ pc \in {"c_odd", "r_odd"} /\ seqlock' = seqlock + 1
           \/ pc \in {"c_even", "r_even"} /\ seqlock' = seq0 + 2
    BY <1>7 DEF CollapseEven, RemoveEven, CollapseOdd, RemoveOdd
  <2>2. pc \in {"c_even", "r_even"} => seqlock = seq0 + 1
    BY <1>2 DEF SideRight, InWindow, Opening
  <2>3. seqlock' = seqlock + 1
    BY <1>1, <2>1, <2>2
  <2>4. QED
    BY <2>1, <2>3 DEF Raises
<1>8. ASSUME NEW k, CollapseStage(k) \/ RemoveStage(k) PROVE Goal
  BY <1>1, <1>8 DEF CollapseStage, RemoveStage, Quiet
<1>9. CASE CollapseCut \/ CollapseStamp \/ CollapseMark \/ CollapseGrain \/ RemoveGrain \/ ExtendGrain
           \/ CollapseUnmark \/ RemoveRingsFails
  BY <1>1, <1>9 DEF CollapseCut, CollapseStamp, CollapseMark, CollapseGrain, RemoveGrain, ExtendGrain,
     CollapseUnmark, TakeCut, RemoveRingsFails, disk, Quiet
<1>10. CASE OpenLook \/ Crash \/ CollapseFatal
  BY <1>1, <1>10 DEF OpenLook, Crash, CollapseFatal, Die, disk, Quiet
<1>11. CASE OpenReconcile \/ ReadReconcile
  <2> DEFINE s == IF OpenReconcile THEN seen ELSE rseen
  <2>1. /\ Reconcile(s) /\ trunk' = trunk /\ pc' # "c_cut"
        /\ s.trim = trim /\ s.size = Len(Trunk) /\ pc \in Opening
    BY <1>1, <1>11 DEF OpenReconcile, ReadReconcile, LooksTrue, Opening
  <2>2. Recoverable
    BY <1>1, <2>1 DEF StoreRight, AtRest
  <2> HIDE DEF s
  <2>3. QED
    BY <1>1, <2>1, <2>2, ReconcileCounts
<1>12. CASE OpenLoad
  <2>1. rings' = rings /\ trunk' = trunk /\ seqlock' = seqlock /\ pc' = "idle"
    BY <1>1, <1>12, OpenLoads DEF OpenLoad
  <2>2. QED
    BY <1>1, <2>1 DEF Quiet
<1>13. QED
  BY <1>3, <1>4, <1>5, <1>6, <1>7, <1>8, <1>9, <1>10, <1>11, <1>12, WriterSteps
     DEF DropStep, SteadyStep

\* No inode ever goes away.
LEMMA InodesOnlyGrow ==
    ASSUME Typed, Typed', WriterOnly \/ ReadReconcile
    PROVE  /\ Len(inodes) \in Nat /\ Len(inodes') \in Nat /\ Len(inodes) <= Len(inodes')
<1>1. inodes \in Seq(Seq(Cell)) /\ inodes' \in Seq(Seq(Cell))
  BY DEF Typed
<1>2. /\ Len(inodes) \in Nat /\ DOMAIN inodes = 1 .. Len(inodes)
      /\ Len(inodes') \in Nat /\ DOMAIN inodes' = 1 .. Len(inodes')
  BY <1>1, LenProperties
<1>3. SUFFICES DOMAIN inodes' = DOMAIN inodes \/ \E f : inodes' = Append(inodes, f)
  <2>1. \A a, b \in Nat : 1 .. a = 1 .. b \/ b = a + 1 => a <= b
    OBVIOUS
  <2>2. DOMAIN inodes' = DOMAIN inodes => 1 .. Len(inodes) = 1 .. Len(inodes')
    BY <1>2
  <2>3. (\E f : inodes' = Append(inodes, f)) => Len(inodes') = Len(inodes) + 1
    BY <1>1
  <2>4. QED
    BY <1>2, <1>3, <2>1, <2>2, <2>3, Zenon
<1>4. ASSUME NEW len \in env.lens, AppendFrame(len) PROVE DOMAIN inodes' = DOMAIN inodes
  BY <1>4 DEF AppendFrame
<1>5. ASSUME NEW k, CollapseStage(k) \/ RemoveStage(k) PROVE DOMAIN inodes' = DOMAIN inodes
  BY <1>5 DEF CollapseStage, RemoveStage
<1>6. CASE SteadyStep \/ RemoveRingsFails \/ AppendRecord
  BY <1>6, StepsAreSteady DEF Steady, RemoveRingsFails, AppendRecord, disk
<1>7. CASE CollapseCut \/ CollapseStamp \/ CollapseUnmark \/ RemoveTrunk \/ RemoveEven
  BY <1>7 DEF CollapseCut, CollapseStamp, CollapseUnmark, RemoveTrunk, RemoveEven
<1>8. CASE OpenLook \/ Crash \/ CollapseFatal \/ OpenLoad
  BY <1>8 DEF OpenLook, Crash, CollapseFatal, OpenLoad, disk
<1>9. CASE OpenReconcile \/ ReadReconcile
  BY <1>9 DEF OpenReconcile, ReadReconcile, Reconcile
<1>10. QED
  BY <1>4, <1>5, <1>6, <1>7, <1>8, <1>9, WriterSteps DEF DropStep

\* So an index that is not current never becomes so again, and one that is stays the
\* beginning of the store's.
LEMMA CurrentKept ==
    ASSUME seqlock \in Nat, seqlock' \in Nat, handle.seq \in Nat, handle' = handle,
           ~IsOdd(handle.seq) => handle.seq <= seqlock,
           Begins(rings.recs, rings.recs),
           Quiet \/ InsideWindow \/ Raises \/ Restores
    PROVE  /\ ~IsOdd(handle.seq) => handle.seq <= seqlock'
           /\ Current' => Current /\ trunk' = trunk /\ Begins(rings.recs, rings'.recs)
<1>1. CASE Quiet
  BY <1>1 DEF Quiet, Current
<1>2. CASE InsideWindow
  BY <1>2 DEF InsideWindow, Current
<1>3. CASE Raises
  <2>1. ~IsOdd(handle.seq) => handle.seq <= seqlock' /\ handle.seq # seqlock'
    BY <1>3 DEF Raises
  <2>2. ASSUME Current' PROVE Current /\ pc' = "c_cut"
    <3>1. ~IsOdd(handle.seq) /\ pc' = "c_cut" /\ handle.seq + 1 = seqlock + 1
      BY <1>3, <2>1, <2>2 DEF Raises, Current
    <3>2. handle.seq = seqlock
      BY <3>1
    <3>3. QED
      BY <3>1, <3>2 DEF Current
  <2>3. QED
    BY <1>3, <2>1, <2>2 DEF Raises
<1>4. CASE Restores
  <2>1. pc = "c_cut" /\ pc' # "c_cut" /\ seqlock = seqlock' + 1 /\ IsOdd(seqlock)
    BY <1>4 DEF Restores
  <2>2. ~IsOdd(handle.seq) => handle.seq # seqlock
    BY <2>1
  <2>3. ~IsOdd(handle.seq) => handle.seq <= seqlock'
    BY <2>1, <2>2
  <2>4. Current' => Current
    BY <2>1 DEF Current
  <2>5. QED
    BY <1>4, <2>3, <2>4 DEF Restores
<1>5. QED
  BY <1>1, <1>2, <1>3, <1>4

LEMMA BeginsOn ==
    ASSUME NEW s \in Seq(Record), NEW t \in Seq(Record), NEW u \in Seq(Record),
           Begins(s, t), Begins(t, u)
    PROVE  Begins(s, u)
<1>1. Len(s) \in Nat /\ Len(t) \in Nat /\ Len(u) \in Nat
  BY LenProperties
<1>2. QED
  BY <1>1 DEF Begins

\* What the writer, or a reconciliation, does to a reader.
LEMMA ReaderUndisturbed ==
    ASSUME env \in Environments, StoreInv, StoreInv', ReaderTyped, ReaderRight,
           WriterOnly \/ ReadReconcile
    PROVE  ReaderTyped' /\ ReaderRight'
<1>1. /\ UNCHANGED <<handle, want, before, bytes, trusted>>
      /\ rpc' = rpc \/ rpc' \in {"sample", "over"}
  BY WriterOnlyWrites DEF ReadReconcile, reader
<1>2. /\ Typed /\ Typed' /\ seqlock \in Nat /\ seqlock' \in Nat
      /\ Len(inodes) \in Nat /\ Len(inodes') \in Nat /\ Len(inodes) <= Len(inodes')
      /\ Begins(rings.recs, rings.recs)
      /\ rings.recs \in Seq(Record) /\ rings'.recs \in Seq(Record)
  BY InodesOnlyGrow, BeginsItself DEF StoreInv, Typed, Shaped
<1>3. Quiet \/ InsideWindow \/ Raises \/ Restores
  BY StepsCount
<1>4. handle.seq \in Nat /\ handle.recs \in Seq(Record) /\ (~IsOdd(handle.seq) => handle.seq <= seqlock)
  BY DEF ReaderTyped, ReaderRight
<1>5. /\ ~IsOdd(handle.seq) => handle.seq <= seqlock'
      /\ Current' => Current /\ trunk' = trunk /\ Begins(rings.recs, rings'.recs)
  BY <1>1, <1>2, <1>3, <1>4, CurrentKept
<1>6. ReaderTyped'
  BY <1>1, <1>2 DEF ReaderTyped
<1>7. ReaderRight'
  <2>1. TrustsItsOwn' = TrustsItsOwn /\ OwnBytes' = OwnBytes
    BY <1>1 DEF TrustsItsOwn, OwnBytes
  <2>2. Current' => Begins(handle.recs, rings'.recs)
    BY <1>2, <1>4, <1>5, BeginsOn DEF ReaderRight
  <2>3. Current' => (handle.ino # 0 => handle.ino = trunk')
    BY <1>5 DEF ReaderRight
  <2>4. QED
    BY <1>1, <1>5, <2>1, <2>2, <2>3 DEF ReaderRight
<1>8. QED
  BY <1>6, <1>7

------------------------------------------------------------------------------
\* The reader's own steps.
LEMMA FrameOfCurrent ==
    ASSUME Typed, StoreRight, Current, NEW recs \in Seq(Record), Begins(recs, rings.recs),
           NEW i \in 1 .. Len(recs)
    PROVE  ReadAt(Trunk, recs[i]) = FrameCells(recs[i].seq, recs[i].len)
<1>1. ~IsOdd(seqlock) \/ pc = "c_cut"
  BY DEF Current
<1>2. AllLocated(Trunk, rings.recs) /\ Trunk \in Seq(Cell)
  BY <1>1, EvenLocates, SizesOfTrunk
<1>3. Len(recs) \in Nat /\ Len(rings.recs) \in Nat /\ recs[i] \in Record
  BY SeqElements DEF Typed, Shaped
<1>4. i \in 1 .. Len(rings.recs) /\ recs[i] = rings.recs[i]
  BY <1>3 DEF Begins
<1>5. Located(Trunk, recs[i])
  BY <1>2, <1>4 DEF AllLocated
<1>6. QED
  BY <1>2, <1>3, <1>5, LocatedIsRead

LEMMA ReaderMoves ==
    ASSUME StoreInv, ReaderTyped, ReaderRight, ReaderOnly
    PROVE  ReaderTyped' /\ ReaderRight'
<1>1. /\ UNCHANGED <<inodes, trunk, rings, seqlock, grain, pc, env>>
      /\ Typed /\ StoreRight /\ Len(inodes) \in Nat /\ trunk \in 1 .. Len(inodes) /\ seqlock \in Nat
      /\ rings.recs \in Seq(Record) /\ grain \in Seq(Int) /\ Begins(rings.recs, rings.recs)
  BY ReaderOnlyReads, SizesOfTrunk, BeginsItself DEF disk, StoreInv, Typed, Shaped
<1>2. handle' = handle => Current' = Current
  BY <1>1 DEF Current
<1>3. NoGrain \in Seq(Int) /\ <<>> \in Seq(Record)
  BY EmptySeq DEF NoGrain
<1> DEFINE Goal == ReaderTyped' /\ ReaderRight'
<1>4. CASE ReadStart \/ ReadLook \/ ReadBefore \/ ReadRaced
  <2>1. /\ UNCHANGED <<handle, want, trusted>>
        /\ rpc' \in {"look", "reconcile", "sample", "read", "busy"}
        /\ rpc' = "read" => rpc = "before"
    BY <1>4 DEF ReadStart, ReadLook, ReadBefore, ReadRaced, OpenSource
  <2>2. ReaderTyped'
    BY <1>1, <2>1 DEF ReaderTyped
  <2>3. ReaderRight'
    BY <1>1, <1>2, <2>1 DEF ReaderRight
  <2>4. QED
    BY <2>2, <2>3
<1>5. CASE ReadSample
  <2>1. /\ handle' = [recs |-> <<>>, ino |-> 0, seq |-> seqlock] /\ trusted' = trusted
        /\ rpc' = "index"
    BY <1>5 DEF ReadSample, NoHandle
  <2>2. ReaderTyped'
    BY <1>1, <1>3, <2>1 DEF ReaderTyped
  <2>3. Begins(<<>>, rings.recs)
    <3>1. Len(<<>>) = 0 /\ Len(rings.recs) \in Nat
      BY <1>1, LenProperties
    <3>2. QED
      BY <3>1 DEF Begins
  <2>4. ReaderRight'
    BY <1>1, <2>1, <2>3 DEF ReaderRight
  <2>5. QED
    BY <2>2, <2>4
<1>6. CASE ReadIndex
  <2>1. /\ handle' = [recs |-> rings.recs, ino |-> handle.ino, seq |-> handle.seq] /\ trusted' = trusted
        /\ rpc' = "open"
    BY <1>6 DEF ReadIndex, ReaderTyped
  <2>2. ReaderTyped'
    BY <1>1, <2>1 DEF ReaderTyped
  <2>3. Current' = Current
    BY <1>1, <2>1 DEF Current
  <2>4. ReaderRight'
    BY <1>1, <2>1, <2>3 DEF ReaderRight
  <2>5. QED
    BY <2>2, <2>4
<1>7. CASE ReadOpen
  <2>1. /\ handle' = [recs |-> handle.recs, ino |-> trunk, seq |-> handle.seq] /\ trusted' = trusted
        /\ rpc' \in {"grain", "relocate"}
    BY <1>7 DEF ReadOpen, ReaderTyped
  <2>2. ReaderTyped'
    BY <1>1, <2>1 DEF ReaderTyped
  <2>3. Current' = Current
    BY <1>1, <2>1 DEF Current
  <2>4. ReaderRight'
    BY <1>1, <2>1, <2>3 DEF ReaderRight
  <2>5. QED
    BY <2>2, <2>4
<1>8. CASE ReadGrain
  <2>1. handle' = handle /\ trusted' = grain /\ rpc' = "judge" /\ rpc = "grain"
    BY <1>8 DEF ReadGrain
  <2>2. ReaderTyped'
    BY <1>1, <2>1 DEF ReaderTyped
  <2>3. ASSUME Current PROVE TrustsItsOwn'
    <3>1. ~IsOdd(seqlock) \/ pc = "c_cut"
      BY <2>3 DEF Current
    <3>2. FitsGrain(rings.recs) /\ Begins(handle.recs, rings.recs)
      BY <1>1, <2>3, <3>1, EvenLocates DEF ReaderRight
    <3>3. Len(handle.recs) \in Nat /\ Len(rings.recs) \in Nat /\ Len(grain) \in Nat
      BY <1>1, LenProperties DEF ReaderTyped
    <3>4. QED
      BY <2>1, <3>2, <3>3 DEF TrustsItsOwn, FitsGrain, Begins
  <2>4. ReaderRight'
    BY <1>1, <1>2, <2>1, <2>3 DEF ReaderRight
  <2>5. QED
    BY <2>2, <2>4
<1>9. CASE ReadJudge
  <2>1. /\ handle' = handle /\ rpc' = "pick" /\ rpc = "judge"
        /\ trusted' = IF handle.seq = seqlock /\ ~IsOdd(seqlock) THEN trusted ELSE NoGrain
    BY <1>9 DEF ReadJudge
  <2>2. ReaderTyped'
    BY <1>1, <1>3, <2>1 DEF ReaderTyped
  <2>3. TrustsItsOwn'
    <3>1. CASE handle.seq = seqlock /\ ~IsOdd(seqlock)
      <4>1. Current
        BY <3>1 DEF Current
      <4>2. QED
        BY <2>1, <3>1, <4>1 DEF ReaderRight, TrustsItsOwn
    <3>2. CASE ~(handle.seq = seqlock /\ ~IsOdd(seqlock))
      BY <2>1, <3>2 DEF TrustsItsOwn
    <3>3. QED
      BY <3>1, <3>2
  <2>4. ReaderRight'
    BY <1>1, <1>2, <2>1, <2>3 DEF ReaderRight
  <2>5. QED
    BY <2>2, <2>4
<1>10. CASE ReadPick \/ ReadRelocate
  <2>1. /\ handle' = handle /\ trusted' \in {trusted, NoGrain} /\ rpc \in {"pick", "relocate"}
        /\ \/ rpc' = "gone" /\ want' = want
           \/ rpc' = "before" /\ \E i \in 1 .. Len(handle.recs) : want' = handle.recs[i]
    BY <1>10 DEF ReadPick, ReadRelocate
  <2>2. ReaderTyped'
    BY <1>1, <1>3, <2>1 DEF ReaderTyped
  <2>3. ReaderRight'
    BY <1>1, <1>2, <2>1 DEF ReaderRight
  <2>4. QED
    BY <2>2, <2>3
<1>11. CASE ReadFrame
  <2>1. /\ UNCHANGED <<handle, want, trusted>> /\ rpc' = "after" /\ rpc = "read"
        /\ bytes' = ReadAt(inodes[handle.ino], want)
    BY <1>11 DEF ReadFrame
  <2>2. ReaderTyped'
    BY <1>1, <2>1 DEF ReaderTyped
  <2>3. ASSUME Current PROVE OwnBytes'
    <3>1. PICK i \in 1 .. Len(handle.recs) : want = handle.recs[i]
      BY <2>1 DEF ReaderTyped
    <3>2. handle.ino = trunk /\ Begins(handle.recs, rings.recs) /\ handle.recs \in Seq(Record)
      BY <2>1, <2>3 DEF ReaderTyped, ReaderRight
    <3>3. ReadAt(Trunk, handle.recs[i]) = FrameCells(handle.recs[i].seq, handle.recs[i].len)
      BY <1>1, <2>3, <3>2, FrameOfCurrent
    <3>4. QED
      BY <2>1, <3>1, <3>2, <3>3 DEF OwnBytes, Trunk
  <2>4. ReaderRight'
    BY <1>1, <1>2, <2>1, <2>3 DEF ReaderRight
  <2>5. QED
    BY <2>2, <2>4
<1>12. CASE ReadAfter
  <2>1. /\ UNCHANGED <<handle, want, trusted, bytes, before>> /\ rpc' = "done" /\ rpc = "after"
        /\ ~IsOdd(seqlock) /\ before = seqlock
    BY <1>12 DEF ReadAfter, Raced
  <2>2. ReaderTyped'
    BY <1>1, <2>1 DEF ReaderTyped
  <2>3. ASSUME handle.seq = before PROVE OwnBytes'
    <3>1. Current
      BY <2>1, <2>3 DEF Current
    <3>2. QED
      BY <2>1, <3>1 DEF ReaderRight, OwnBytes
  <2>4. ReaderRight'
    BY <1>1, <1>2, <2>1, <2>3 DEF ReaderRight
  <2>5. QED
    BY <2>2, <2>4
<1>13. CASE ReadEnd
  <2>1. /\ handle' = [recs |-> <<>>, ino |-> 0, seq |-> 0] /\ trusted' = NoGrain /\ rpc' = "idle"
    BY <1>13 DEF ReadEnd, NoHandle
  <2>2. ReaderTyped'
    BY <1>1, <1>3, <2>1 DEF ReaderTyped
  <2>3. Begins(<<>>, rings.recs)
    <3>1. Len(<<>>) = 0 /\ Len(rings.recs) \in Nat
      BY <1>1, LenProperties
    <3>2. QED
      BY <3>1 DEF Begins
  <2>4. ReaderRight'
    BY <1>1, <2>1, <2>3 DEF ReaderRight
  <2>5. QED
    BY <2>2, <2>4
<1>14. QED
  BY <1>4, <1>5, <1>6, <1>7, <1>8, <1>9, <1>10, <1>11, <1>12, <1>13 DEF ReaderOnly

------------------------------------------------------------------------------
LEMMA HeadInvHoldsAtFirst ==
    ASSUME Init
    PROVE  HeadInv
<1>1. <<>> \in Seq(Record) /\ <<>> \in Seq(Cell) /\ Len(<<>>) = 0
  BY EmptySeq
<1>2. /\ inodes \in Seq(Seq(Cell)) /\ Len(inodes) = 1 /\ inodes[1] = <<>> /\ Trunk = <<>>
  <2>1. inodes = <<<<>>>> /\ trunk = 1
    BY DEF Init
  <2>2. QED
    BY <1>1, <2>1 DEF Trunk
<1>3. Typed
  <2>1. /\ Shaped(rings) /\ Shaped(staged) /\ staged = NoRings /\ rings.next = 0
    BY <1>1 DEF Init, Shaped, NoRings
  <2>2. /\ trim.pre \in Int /\ trim.aligned \in Nat /\ trim.sliver \in Nat /\ grain \in Seq(Int)
    BY DEF Init, NoTrim, NoGrain
  <2>3. /\ trunk \in 1 .. Len(inodes) /\ fd \in 1 .. Len(inodes)
    BY <1>2 DEF Init
  <2>4. chunks \in Seq(Record) /\ pc \in Opening
    BY <1>1 DEF Init, Opening
  <2>5. /\ seqlock \in Nat /\ seq0 \in Nat /\ compSize \in Nat /\ nextSeq \in Nat /\ cut \in Nat
    BY DEF Init
  <2>6. QED
    BY <1>2, <2>1, <2>2, <2>3, <2>4, <2>5 DEF Typed
<1>4. LooksTrue
  BY DEF Init, LooksTrue
<1>5. StoreRight
  <2>1. ~IsOdd(0)
    BY DEF IsOdd
  <2>2. Holds(Trunk, rings.recs) /\ FitsGrain(rings.recs)
    <3>1. rings.recs = <<>> /\ grain = NoGrain
      BY DEF Init
    <3>2. QED
      BY <1>1, <1>2, <3>1 DEF Holds, AllLocated, Ordered, Extent, FitsGrain
  <2>3. QED
    BY <2>1, <2>2 DEF Init, StoreRight, AtRest, Recoverable, Uncut, Opening
<1>6. ReaderTyped
  BY <1>1, <1>2 DEF Init, ReaderTyped, NoHandle, NoGrain
<1>7. ReaderRight
  <2>1. handle.recs = <<>> /\ rings.recs = <<>> /\ handle.ino = 0 /\ handle.seq = 0 /\ seqlock = 0
        /\ rpc = "idle"
    BY DEF Init, NoHandle
  <2>2. QED
    BY <1>1, <2>1 DEF ReaderRight, Begins
<1>8. QED
  BY <1>3, <1>4, <1>5, <1>6, <1>7 DEF HeadInv, StoreInv, Init

\* A process that reconciles beside a running writer goes no further than that.
LEMMA MeddlersOnlyMeddle ==
    ASSUME DropsRecover, env \in Environments, Meddling, rpc \in {"idle", "look", "reconcile", "over"},
           WriterOnly \/ ReadReconcile \/ ReaderOnly
    PROVE  rpc' \in {"idle", "look", "reconcile", "over"}
<1>1. "read" \notin env.readers /\ "reconcile" \in env.readers
  BY DEF DropsRecover, Meddling
<1>2. CASE WriterOnly
  BY <1>2, WriterOnlyWrites DEF reader
<1>3. CASE ReadReconcile
  BY <1>1, <1>3 DEF ReadReconcile
<1>4. CASE ReaderOnly
  BY <1>1, <1>4 DEF ReaderOnly, ReadStart, ReadLook, ReadSample, ReadIndex, ReadOpen, ReadGrain,
     ReadJudge, ReadPick, ReadBefore, ReadFrame, ReadAfter, ReadRaced, ReadRelocate, ReadEnd, OpenSource
<1>5. QED
  BY <1>2, <1>3, <1>4

LEMMA StoreInvStutters ==
    ASSUME StoreInv, UNCHANGED vars
    PROVE  StoreInv'
<1>1. UNCHANGED <<inodes, trunk, rings, staged, trim, seqlock, grain, pc, fd, attached, chunks,
                  compSize, nextSeq, cut, seq0, seen, rpc, rseen, env>>
  BY DEF vars, disk, writer, reader, history
<1>2. Typed' = Typed
  BY <1>1 DEF Typed, Shaped
<1>3. LooksTrue' = LooksTrue
  BY <1>1 DEF LooksTrue, Trunk
<1>4. StoreRight' = StoreRight
  BY <1>1, StoreUntouched
<1>5. QED
  BY <1>2, <1>3, <1>4 DEF StoreInv

LEMMA HeadInvIsInductive ==
    ASSUME DropsRecover, HeadInv, [Next]_vars
    PROVE  HeadInv'
<1>1. CASE Next
  <2>1. WriterOnly \/ ReadReconcile \/ ReaderOnly
    BY <1>1, StepsByActor
  <2>2. env' = env /\ env \in Environments
    BY <2>1, WriterOnlyWrites, ReaderOnlyReads DEF ReadReconcile, history, HeadInv
  <2>3. Meddling' = Meddling
    BY <2>2 DEF Meddling
  <2>4. CASE Meddling
    BY <2>1, <2>2, <2>3, <2>4, MeddlersOnlyMeddle DEF HeadInv
  <2>5. CASE ~Meddling
    <3>1. StoreInv /\ ReaderTyped /\ ReaderRight
      BY <2>5 DEF HeadInv
    <3>2. StoreInv'
      BY <2>1, <2>2, <2>5, <3>1, StoreStays
    <3>3. ReaderTyped' /\ ReaderRight'
      BY <2>1, <2>2, <3>1, <3>2, ReaderUndisturbed, ReaderMoves
    <3>4. QED
      BY <2>2, <2>3, <2>5, <3>2, <3>3 DEF HeadInv
  <2>6. QED
    BY <2>4, <2>5
<1>2. CASE UNCHANGED vars
  <2>1. UNCHANGED <<inodes, trunk, rings, seqlock, pc, rpc, handle, want, before, bytes, trusted, env>>
    BY <1>2 DEF vars, disk, reader, history
  <2>2. StoreInv => StoreInv'
    BY <1>2, StoreInvStutters
  <2>3. ReaderTyped' = ReaderTyped
    BY <2>1 DEF ReaderTyped
  <2>4. ReaderRight' = ReaderRight
    BY <2>1 DEF ReaderRight, Current, Begins, TrustsItsOwn, OwnBytes
  <2>5. Meddling' = Meddling
    BY <2>1 DEF Meddling
  <2>6. QED
    BY <2>1, <2>2, <2>3, <2>4, <2>5 DEF HeadInv
<1>3. QED
  BY <1>1, <1>2

LEMMA HeadInvAlways ==
    ASSUME DropsRecover
    PROVE  Spec => []HeadInv
<1>1. Init => HeadInv
  BY HeadInvHoldsAtFirst
<1>2. HeadInv /\ [Next]_vars => HeadInv'
  BY HeadInvIsInductive
<1>3. QED
  BY <1>1, <1>2, PTL DEF Spec

------------------------------------------------------------------------------
\* Whenever the writer has the store open, the index on disk is the one in memory and
\* every record locates its own frame, over any number of drops by either way and
\* deaths in a collapse, for every block size, header and choice of lengths.
THEOREM SurvivorsStay ==
    ASSUME DropsRecover
    PROVE  Spec => []SurvivorsReadable
<1>1. HeadInv => SurvivorsReadable
  <2> SUFFICES ASSUME HeadInv, Unmeddled, pc = "idle"
               PROVE  /\ fd = trunk /\ rings.recs = chunks
                      /\ \A i \in 1 .. Len(chunks) :
                            ReadAt(Trunk, chunks[i]) = FrameCells(chunks[i].seq, chunks[i].len)
    BY DEF SurvivorsReadable
  <2>1. Typed /\ AtWork
    BY DEF HeadInv, Meddling, Unmeddled, StoreInv, StoreRight, Opening
  <2>2. /\ fd = trunk /\ rings.recs = chunks /\ AllLocated(Trunk, chunks)
    BY <2>1 DEF AtWork, MemoryRight, IndexRight, TrunkRight, UncutRight, Resting, Renamed, Trunk
  <2>3. ASSUME NEW i \in 1 .. Len(chunks)
        PROVE  ReadAt(Trunk, chunks[i]) = FrameCells(chunks[i].seq, chunks[i].len)
    <3>1. Trunk \in Seq(Cell) /\ chunks[i] \in Record
      BY <2>1, SizesOfTrunk
    <3>2. Located(Trunk, chunks[i])
      BY <2>2 DEF AllLocated
    <3>3. QED
      BY <3>1, <3>2, LocatedIsRead
  <2>4. QED
    BY <2>2, <2>3
<1>2. QED
  BY <1>1, HeadInvAlways, PTL

\* A filter that a reader trusts was built from the chunk it answers for, whatever the
\* writer dropped between the reader's four looks at the counter, index, trunk and
\* filters.
THEOREM TrustedFiltersMatch ==
    ASSUME DropsRecover
    PROVE  Spec => []FiltersMatch
<1>1. HeadInv => FiltersMatch
  <2> SUFFICES ASSUME HeadInv, rpc = "pick", trusted # NoGrain,
                      NEW i \in 1 .. Min({Len(trusted), Len(handle.recs)})
               PROVE  trusted[i] = handle.recs[i].seq
    BY DEF FiltersMatch
  <2>1. ReaderTyped /\ TrustsItsOwn
    BY DEF HeadInv, ReaderRight
  <2>2. Len(trusted) \in Nat /\ Len(handle.recs) \in Nat
    BY <2>1, LenProperties DEF ReaderTyped
  <2>3. \A a, b \in Nat : Min({a, b}) \in Nat /\ Min({a, b}) <= a /\ Min({a, b}) <= b
    <3> TAKE a, b \in Nat
    <3>1. CASE a <= b
      <4>1. Min({a, b}) = a
        BY <3>1 DEF Min
      <4>2. QED
        BY <3>1, <4>1
    <3>2. CASE b < a
      <4>1. Min({a, b}) = b
        BY <3>2 DEF Min
      <4>2. QED
        BY <3>2, <4>1
    <3>3. QED
      BY <3>1, <3>2
  <2>4. i \in 1 .. Len(trusted) /\ i <= Len(handle.recs)
    BY <2>2, <2>3
  <2>5. QED
    BY <2>1, <2>4 DEF TrustsItsOwn
<1>2. QED
  BY <1>1, HeadInvAlways, PTL

\* A read that began under the count its index was opened under, and ended under it, has
\* the bytes of the chunk it wanted, whichever way the writer cut the head meanwhile.
THEOREM StableReadsOwnBytes ==
    ASSUME DropsRecover
    PROVE  Spec => []StableReads
<1>1. HeadInv => StableReads
  BY DEF HeadInv, ReaderRight, StableReads, OwnBytes
<1>2. QED
  BY <1>1, HeadInvAlways, PTL
==============================================================================
