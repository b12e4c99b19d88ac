------------------------------ MODULE HeadDrop ------------------------------
(***************************************************************************)
(* Dropping the head of a store while readers in other processes read it   *)
(* (src/src/store.rs: collapse_head, remove_head, reconcile_trim;          *)
(* src/src/query.rs: open_source, read_chunk_raw, select_chunks;           *)
(* src/src/grain.rs: rebase_head).                                         *)
(*                                                                         *)
(* The writer cuts whole chunks off the front of .trunk and renumbers      *)
(* .rings and .grain to match.  collapse_head shifts the bytes of the      *)
(* trunk's inode in place, by whole file-system blocks; remove_head        *)
(* rewrites the pair and renames it over the old one.  A .trim marker      *)
(* tells a later open how far a collapse got, and a counter in .seq, odd   *)
(* while a drop is in flight, tells readers to look again.                 *)
(*                                                                         *)
(* The trunk is a sequence of cells, the unit in which frame lengths, the  *)
(* block size and the skippable-frame header are measured; a cell names    *)
(* the chunk whose byte it holds, so that a read at a wrong offset shows.  *)
(* A chunk's write window and its two lengths, by which a reader finds it  *)
(* again, are taken to be its own, and stand as its number.                *)
(*                                                                         *)
(* A definition preceded by one of the same name and more (Raced by        *)
(* RacedIfMoved, say) has there a faulty variant, the change a plausible   *)
(* bug would make: put in its place, it must break the properties that     *)
(* PROJECT.json names for it.                                              *)
(*                                                                         *)
(* A step is one system call or a run of them on private files; between    *)
(* any two the writer may die and the reader may move.                     *)
(***************************************************************************)
EXTENDS Integers, SequencesExt, FiniteSetsExt

CONSTANTS
    BSize,         \* fstatvfs_bsize of the trunk
    HeaderMin,     \* cells of a skippable-frame header (8 bytes; a block has room for it)
    MaxTries,      \* reads a reader retries before it gives up (64)
    Environments   \* what a behaviour may meet: subset of Environment

\* An environment: whether the file system supports COLLAPSE_RANGE, whether a
\* drop may take every chunk (age and interest may), where, idle apart, the
\* writer may die, and what a reader does: read, reconcile first if it may write
\* to the directory, or no more than that; "alone" says that it reconciles while
\* no writer runs.
\* lens: the compressed lengths a flush may produce.  maxChunks, maxLock: bounds, the
\* chunks ever written and the .seq counter, past which no drop begins.
Environment == [lens : SUBSET (Nat \ {0}), maxChunks : Nat, maxLock : Nat,
                collapsible : BOOLEAN, mayEmpty : BOOLEAN,
                crashes : SUBSET {"append", "collapse", "remove"},
                readers : SUBSET {"read", "reconcile", "alone"}]

ASSUME ConstantsAssumption ==
    /\ BSize \in Nat \ {0}
    /\ HeaderMin \in Nat \ {0} /\ HeaderMin <= BSize
    /\ MaxTries \in Nat
    /\ Environments \subseteq Environment

VARIABLES
    \* on disk
    inodes,     \* contents of every trunk inode made so far
    trunk,      \* the inode .trunk names
    rings,      \* .rings: header drop total, and records
    staged,     \* .rings.tmp, or NoRings
    trim,       \* the .trim marker, or NoTrim
    seqlock,    \* the .seq counter
    grain,      \* .grain: the chunk each filter was built from, or NoGrain
    \* the writer
    pc,
    fd,                 \* the trunk inode it has open
    attached,           \* the .rings it has open is the one .rings names
    chunks, compSize,   \* records and their extent in memory
    nextSeq,
    cut,        \* chunks the drop in flight removes
    seq0,       \* the counter as the drop found it
    seen,       \* what reconcile_trim read of the marker and the trunk's size
    \* a reader
    rpc,
    handle,     \* what open_source returned: records, inode, counter
    want,       \* the record being read
    before,     \* the counter sampled before the read
    bytes,      \* what the read returned
    rseen,      \* as seen, for the reader's reconcile_trim
    tries,
    trusted,    \* the filters select_chunks goes by
    \* outside the programs
    env,        \* the environment of this behaviour, the same throughout
    written     \* cells of every frame ever indexed

disk == <<inodes, trunk, rings, staged, trim, seqlock, grain>>
writer == <<fd, attached, chunks, compSize, nextSeq, cut, seq0, seen>>
reader == <<rpc, handle, want, before, bytes, rseen, tries, trusted>>
history == <<env, written>>
vars == <<disk, pc, writer, reader, history>>

------------------------------------------------------------------------------
NoRings == [next |-> -1, dropped |-> 0, recs |-> <<>>]
NoTrim == [pre |-> -1, aligned |-> 0, sliver |-> 0]
NoGrain == <<-1>>
NoHandle == [recs |-> <<>>, ino |-> 0, seq |-> 0]
NoRecord == [seq |-> -1, start |-> 0, len |-> 0]
NotSeen == [trim |-> NoTrim, size |-> 0]

CompEnd(rec) == rec.start + rec.len
IsOdd(n) == n % 2 = 1

\* The cells of chunk n's frame, and of a stamped skippable frame's header.
FrameCells(n, len) == [i \in 1 .. len |-> <<n, i>>]
StampCells(sliver) == [i \in 1 .. HeaderMin |-> <<-1, sliver>>]

Hole == <<-2, 0>>

Trunk == inodes[trunk]
\* write_all_at: what follows the written range stays, and a gap past the end
\* of the file is a hole.
Overwrite(file, at, new) ==
    [i \in 1 .. Max({Len(file), at + Len(new)}) |->
        IF i > at /\ i <= at + Len(new) THEN new[i - at]
        ELSE IF i <= Len(file) THEN file[i] ELSE Hole]
\* read_exact_at; a read past the end of the file gets nothing.
ReadAt(file, rec) ==
    IF CompEnd(rec) <= Len(file) THEN SubSeq(file, rec.start + 1, CompEnd(rec)) ELSE <<>>

\* collapse_alignment: cut whole blocks, and one block fewer when what is left
\* of the dropped frames is too short for a skippable-frame header.
Alignment(compCut) ==
    LET down == (compCut \div BSize) * BSize
        sliver == compCut - down
    IN  IF sliver = 0 \/ sliver >= HeaderMin THEN down ELSE down - BSize

Stamp(file, sliver) == IF sliver = 0 THEN file ELSE Overwrite(file, 0, StampCells(sliver))

\* The rebased records, and the drop total of dropped_after: lengths of what
\* goes, never offsets.
Rebased(k, by) == [i \in 1 .. Len(chunks) - k |->
                      [chunks[i + k] EXCEPT !.start = @ - by]]
DroppedAfter(k) == rings.dropped + MapThenSumSet(LAMBDA i : chunks[i].len, 1 .. k)
RebasedRings(k, by) == [next |-> nextSeq, dropped |-> DroppedAfter(k),
                        recs |-> Rebased(k, by)]

\* grain::rebase_head: drop the first k filters, or a grain shorter than that.
RebasedGrain(k) ==
    IF grain = NoGrain \/ Len(grain) < k THEN NoGrain
    ELSE SubSeq(grain, k + 1, Len(grain))

\* A dead writer has no memory.
Die ==
    /\ pc' = "down"
    /\ fd' = 1 /\ attached' = FALSE /\ chunks' = <<>> /\ compSize' = 0 /\ nextSeq' = 0
    /\ cut' = 0 /\ seq0' = 0 /\ seen' = NotSeen

------------------------------------------------------------------------------
Init ==
    /\ inodes = <<<<>>>> /\ trunk = 1
    /\ rings = [next |-> 0, dropped |-> 0, recs |-> <<>>]
    /\ staged = NoRings /\ trim = NoTrim
    /\ seqlock = 0
    /\ grain = NoGrain
    /\ pc = "down"
    /\ fd = 1 /\ attached = FALSE
    /\ chunks = <<>> /\ compSize = 0 /\ nextSeq = 0
    /\ cut = 0 /\ seq0 = 0 /\ seen = NotSeen
    /\ rpc = "idle" /\ handle = NoHandle /\ want = NoRecord
    /\ before = 0 /\ bytes = <<>> /\ rseen = NotSeen /\ tries = 0 /\ trusted = NoGrain
    /\ env \in Environments
    /\ written = 0

------------------------------------------------------------------------------
\* reset_seq_if_odd.
Evened == IF IsOdd(seqlock) THEN seqlock + 1 ELSE seqlock

\* reconcile_trim, decided on what was read of the marker and the trunk's size:
\* roll the collapse back, roll it forward, or leave the marker for a human.
Reconcile(s) ==
    \/ /\ s.trim # NoTrim /\ s.size = s.trim.pre
       /\ staged' = NoRings /\ trim' = NoTrim
       /\ seqlock' = Evened
       /\ UNCHANGED <<inodes, rings, grain>>
    \/ /\ s.trim # NoTrim /\ s.size # s.trim.pre
       /\ s.size = s.trim.pre - s.trim.aligned
       /\ inodes' = [inodes EXCEPT ![trunk] = Stamp(@, s.trim.sliver)]
       /\ rings' = IF staged = NoRings THEN rings ELSE staged
       /\ staged' = NoRings /\ trim' = NoTrim
       /\ grain' = NoGrain
       /\ seqlock' = Evened
    \/ /\ \/ s.trim = NoTrim
          \/ s.size \notin {s.trim.pre, s.trim.pre - s.trim.aligned}
       /\ UNCHANGED <<inodes, rings, staged, trim, seqlock, grain>>

\* FileStore::open under the store's lock.
OpenLook ==
    /\ pc = "down" /\ pc' = "reconcile"
    /\ "alone" \in env.readers => rpc # "reconcile"
    /\ seen' = [trim |-> trim, size |-> Len(Trunk)]
    /\ UNCHANGED <<disk, fd, attached, chunks, compSize, nextSeq, cut, seq0, reader, history>>

OpenReconcile ==
    /\ pc = "reconcile" /\ pc' = "load"
    /\ Reconcile(seen)
    /\ seen' = NotSeen
    /\ UNCHANGED <<trunk, fd, attached, chunks, compSize, nextSeq, cut, seq0, reader, history>>

\* Records whose frame the trunk does not hold are dropped.
OpenLoad ==
    LET held == {n \in 0 .. Len(rings.recs) :
                    n = 0 \/ CompEnd(rings.recs[n]) <= Len(Trunk)}
        recs == SubSeq(rings.recs, 1, Max(held))
    IN
    /\ pc = "load" /\ pc' = "idle"
    /\ fd' = trunk /\ attached' = TRUE
    /\ chunks' = recs
    /\ rings' = [rings EXCEPT !.recs = recs]
    /\ compSize' = IF recs = <<>> THEN 0 ELSE CompEnd(Last(recs))
    /\ nextSeq' = IF rings.recs = <<>> THEN rings.next
                  ELSE Max({rings.next, Last(rings.recs).seq + 1})
    /\ UNCHANGED <<inodes, trunk, staged, trim, seqlock, grain, cut, seq0, seen,
                   reader, history>>

\* flush_chunk: the frame, then its record.
AppendFrame(len) ==
    /\ pc = "idle" /\ pc' = "record"
    /\ nextSeq < env.maxChunks
    /\ inodes' = [inodes EXCEPT ![fd] = Overwrite(@, compSize, FrameCells(nextSeq, len))]
    /\ cut' = len
    /\ UNCHANGED <<trunk, rings, staged, trim, seqlock, grain,
                   fd, attached, chunks, compSize, nextSeq, seq0, seen, reader, history>>

AppendRecord ==
    LET rec == [seq |-> nextSeq, start |-> compSize, len |-> cut] IN
    /\ pc = "record" /\ pc' = "idle"
    /\ rings' = IF attached
                THEN [rings EXCEPT !.recs = Append(SubSeq(@, 1, Len(chunks)), rec)]
                ELSE rings
    /\ chunks' = Append(chunks, rec)
    /\ compSize' = compSize + cut
    /\ nextSeq' = nextSeq + 1
    /\ cut' = 0
    /\ written' = written + rec.len
    /\ UNCHANGED <<inodes, trunk, staged, trim, seqlock, grain, fd, attached, seq0, seen, reader, env>>

\* extend_grain: filters for the chunks the grain does not cover, or all anew.
ExtendGrain ==
    LET all == [i \in 1 .. Len(rings.recs) |-> rings.recs[i].seq] IN
    /\ pc = "idle" /\ all # <<>>
    /\ grain' = IF grain = NoGrain \/ Len(grain) > Len(all) THEN all
                ELSE grain \o SubSeq(all, Len(grain) + 1, Len(all))
    /\ grain' # grain
    /\ UNCHANGED <<inodes, trunk, rings, staged, trim, seqlock, pc, writer, reader, history>>

------------------------------------------------------------------------------
CompCut == CompEnd(chunks[cut])
Aligned == Alignment(CompCut)
Sliver == CompCut - Aligned

\* The drop is over: memory takes the new coordinates.
TakeCut(by) ==
    /\ pc' = "idle" /\ attached' = TRUE
    /\ chunks' = Rebased(cut, by)
    /\ compSize' = compSize - by
    /\ cut' = 0 /\ seq0' = 0

\* How many chunks enforce_retention or rotate_head may ask to drop.
Droppable == {k \in 1 .. Len(chunks) :
                 (k < Len(chunks) \/ env.mayEmpty) /\ seqlock < env.maxLock}

\* collapse_head: the rebased index is staged, the marker written, ...
CollapseStage(k) ==
    /\ pc = "idle" /\ pc' = "c_mark"
    /\ Alignment(CompEnd(chunks[k])) > 0
    /\ cut' = k
    /\ staged' = RebasedRings(k, Alignment(CompEnd(chunks[k])))
    /\ UNCHANGED <<inodes, trunk, rings, trim, seqlock, grain,
                   fd, attached, chunks, compSize, nextSeq, seq0, seen, reader, history>>

CollapseMarkAfterCut ==
    /\ pc = "c_mark" /\ pc' = "c_odd"
    /\ trim' = [pre |-> compSize - Aligned, aligned |-> Aligned, sliver |-> Sliver]
    /\ UNCHANGED <<inodes, trunk, rings, staged, seqlock, grain, writer, reader, history>>
CollapseMark ==
    /\ pc = "c_mark" /\ pc' = "c_odd"
    /\ trim' = [pre |-> compSize, aligned |-> Aligned, sliver |-> Sliver]
    /\ UNCHANGED <<inodes, trunk, rings, staged, seqlock, grain, writer, reader, history>>

\* ... the counter made odd, ...
CollapseOdd ==
    /\ pc = "c_odd" /\ pc' = "c_cut"
    /\ seq0' = seqlock
    /\ seqlock' = seqlock + 1
    /\ UNCHANGED <<inodes, trunk, rings, staged, trim, grain,
                   fd, attached, chunks, compSize, nextSeq, cut, seen, reader, history>>

\* ... the blocks cut out of the inode (the kernel refuses to cut it all), ...
CanCollapse == env.collapsible /\ Aligned < Len(inodes[fd])

CollapseCut ==
    /\ pc = "c_cut" /\ pc' = "c_stamp"
    /\ CanCollapse
    /\ inodes' = [inodes EXCEPT ![fd] = SubSeq(@, Aligned + 1, Len(@))]
    /\ UNCHANGED <<trunk, rings, staged, trim, seqlock, grain, writer, reader, history>>

\* ... or, collapse not applying, everything undone and remove_head tried ...
CollapseRefused ==
    /\ pc = "c_cut" /\ ~CanCollapse
    /\ staged' = NoRings /\ trim' = NoTrim
    /\ seqlock' = seq0
    /\ seq0' = 0
    /\ pc' = "r_stage"
    /\ UNCHANGED <<inodes, trunk, rings, grain,
                   fd, attached, chunks, compSize, nextSeq, cut, seen, reader, history>>

\* ... what is left of the dropped frames stamped a skippable frame, ...
CollapseStamp ==
    /\ pc = "c_stamp" /\ pc' = "c_rename"
    /\ inodes' = [inodes EXCEPT ![fd] = Stamp(@, Sliver)]
    /\ UNCHANGED <<trunk, rings, staged, trim, seqlock, grain, writer, reader, history>>

\* ... the staged index renamed over the old one, ...
CollapseRename ==
    /\ pc = "c_rename" /\ pc' = "c_grain"
    /\ staged # NoRings
    /\ rings' = staged /\ staged' = NoRings
    /\ UNCHANGED <<inodes, trunk, trim, seqlock, grain, writer, reader, history>>

\* ... the filters renumbered, the counter evened, the marker removed.
CollapseGrain ==
    /\ pc = "c_grain" /\ pc' = "c_even"
    /\ grain' = RebasedGrain(cut)
    /\ UNCHANGED <<inodes, trunk, rings, staged, trim, seqlock, writer, reader, history>>

CollapseEven ==
    /\ pc = "c_even" /\ pc' = "c_unmark"
    /\ seqlock' = seq0 + 2
    /\ UNCHANGED <<inodes, trunk, rings, staged, trim, grain, writer, reader, history>>

CollapseUnmark ==
    /\ pc = "c_unmark"
    /\ trim' = NoTrim
    /\ TakeCut(Aligned)
    /\ UNCHANGED <<inodes, trunk, rings, staged, seqlock, grain,
                   fd, nextSeq, seen, reader, history>>

\* A failed rename of the staged index (someone removed it, or the file system
\* refuses) is fatal: the process exits rather than append at stale offsets.
CollapseFatal ==
    /\ pc = "c_rename"
    /\ staged = NoRings \/ "collapse" \in env.crashes
    /\ Die
    /\ UNCHANGED <<disk, reader, history>>

------------------------------------------------------------------------------
\* remove_head: both files rewritten aside, ...
RemoveStage(k) ==
    /\ \/ pc = "idle" /\ k \in Droppable
       \/ pc = "r_stage" /\ k = cut
    /\ pc' = "r_odd"
    /\ cut' = k
    /\ staged' = RebasedRings(k, CompEnd(chunks[k]))
    /\ UNCHANGED <<inodes, trunk, rings, trim, seqlock, grain,
                   fd, attached, chunks, compSize, nextSeq, seq0, seen, reader, history>>

\* ... the counter made odd, ...
RemoveOdd ==
    /\ pc = "r_odd" /\ pc' = "r_trunk"
    /\ seq0' = seqlock
    /\ seqlock' = seqlock + 1
    /\ UNCHANGED <<inodes, trunk, rings, staged, trim, grain,
                   fd, attached, chunks, compSize, nextSeq, cut, seen, reader, history>>

\* ... then renamed over the old pair, one after the other, ...
RemoveTrunk ==
    /\ pc = "r_trunk" /\ pc' = "r_rings"
    /\ inodes' = Append(inodes, SubSeq(inodes[fd], CompCut + 1, compSize))
    /\ trunk' = Len(inodes) + 1
    /\ UNCHANGED <<rings, staged, trim, seqlock, grain, writer, reader, history>>

RemoveRings ==
    /\ pc = "r_rings" /\ pc' = "r_grain"
    /\ staged # NoRings
    /\ rings' = staged /\ staged' = NoRings
    /\ UNCHANGED <<inodes, trunk, trim, seqlock, grain, writer, reader, history>>

\* (An error here goes up with the old handle and the old coordinates kept.)
RemoveRingsFails ==
    /\ pc = "r_rings" /\ pc' = "idle"
    /\ staged = NoRings
    /\ cut' = 0 /\ seq0' = 0
    /\ UNCHANGED <<disk, fd, attached, chunks, compSize, nextSeq, seen, reader, history>>

\* ... the filters renumbered, ...
RemoveGrain ==
    /\ pc = "r_grain" /\ pc' = "r_even"
    /\ grain' = RebasedGrain(cut)
    /\ UNCHANGED <<inodes, trunk, rings, staged, trim, seqlock, writer, reader, history>>

\* ... the counter evened, and the new inodes opened.
RemoveEven ==
    /\ pc = "r_even"
    /\ seqlock' = seq0 + 2
    /\ fd' = trunk
    /\ TakeCut(CompCut)
    /\ UNCHANGED <<inodes, trunk, rings, staged, trim, grain,
                   nextSeq, seen, reader, history>>

Collapsing == {"c_mark", "c_odd", "c_cut", "c_stamp", "c_rename", "c_grain",
               "c_even", "c_unmark"}
Removing == {"r_stage", "r_odd", "r_trunk", "r_rings", "r_grain", "r_even"}

\* The writer dies, between drops, in an append or in a drop.
Crash ==
    /\ pc # "down"
    /\ \/ pc \in {"idle", "reconcile", "load"}
       \/ pc = "record" /\ "append" \in env.crashes
       \/ pc \in Collapsing /\ "collapse" \in env.crashes
       \/ pc \in Removing /\ "remove" \in env.crashes
    /\ Die
    /\ UNCHANGED <<disk, reader, history>>

------------------------------------------------------------------------------
\* A reader: open_source reconciles if it may, samples the counter, reads the
\* index and opens the trunk, in that order.
OpenSource == rpc' = (IF "reconcile" \in env.readers THEN "look" ELSE "sample")

ReadStart ==
    /\ rpc = "idle" /\ env.readers # {}
    /\ OpenSource
    /\ UNCHANGED <<disk, pc, writer, handle, want, before, bytes, rseen, tries,
                   trusted, history>>

ReadLook ==
    /\ rpc = "look" /\ rpc' = "reconcile"
    /\ "alone" \in env.readers => pc = "down"
    /\ rseen' = [trim |-> trim, size |-> Len(Trunk)]
    /\ UNCHANGED <<disk, pc, writer, handle, want, before, bytes, tries, trusted, history>>

ReadReconcile ==
    /\ rpc = "reconcile"
    /\ rpc' = (IF "read" \in env.readers THEN "sample" ELSE "over")
    /\ Reconcile(rseen)
    /\ attached' = (attached /\ rings' = rings)
    /\ rseen' = NotSeen
    /\ UNCHANGED <<trunk, pc, fd, chunks, compSize, nextSeq, cut, seq0, seen,
                   handle, want, before, bytes, tries, trusted, history>>

ReadSample ==
    /\ rpc = "sample" /\ rpc' = "index"
    /\ handle' = [NoHandle EXCEPT !.seq = seqlock]
    /\ UNCHANGED <<disk, pc, writer, want, before, bytes, rseen, tries, trusted, history>>

ReadIndex ==
    /\ rpc = "index" /\ rpc' = "open"
    /\ handle' = [handle EXCEPT !.recs = rings.recs]
    /\ UNCHANGED <<disk, pc, writer, want, before, bytes, rseen, tries, trusted, history>>

ReadOpen ==
    /\ rpc = "open"
    /\ rpc' = (IF want = NoRecord THEN "grain" ELSE "relocate")
    /\ handle' = [handle EXCEPT !.ino = trunk]
    /\ UNCHANGED <<disk, pc, writer, want, before, bytes, rseen, tries, trusted, history>>

\* select_chunks: load the filters, and keep them only if the counter is even
\* and where it was before the index was read.
ReadGrain ==
    /\ rpc = "grain" /\ rpc' = "judge"
    /\ trusted' = grain
    /\ UNCHANGED <<disk, pc, writer, handle, want, before, bytes, rseen, tries, history>>

ReadJudgeTrusting ==
    /\ rpc = "judge" /\ rpc' = "pick"
    /\ UNCHANGED <<disk, pc, writer, handle, want, before, bytes, rseen, tries,
                   trusted, history>>
ReadJudge ==
    /\ rpc = "judge" /\ rpc' = "pick"
    /\ trusted' = IF handle.seq = seqlock /\ ~IsOdd(seqlock) THEN trusted ELSE NoGrain
    /\ UNCHANGED <<disk, pc, writer, handle, want, before, bytes, rseen, tries, history>>

\* read_chunk_raw: the counter is sampled on both sides of the read ...
ReadPick ==
    /\ rpc = "pick" /\ rpc' = "before"
    /\ \E i \in 1 .. Len(handle.recs) : want' = handle.recs[i]
    /\ trusted' = NoGrain
    /\ UNCHANGED <<disk, pc, writer, handle, before, bytes, rseen, tries, history>>

ReadBefore ==
    /\ rpc = "before" /\ rpc' = "read"
    /\ before' = seqlock
    /\ UNCHANGED <<disk, pc, writer, handle, want, bytes, rseen, tries, trusted, history>>

ReadFrame ==
    /\ rpc = "read" /\ rpc' = "after"
    /\ bytes' = ReadAt(inodes[handle.ino], want)
    /\ UNCHANGED <<disk, pc, writer, handle, want, before, rseen, tries, trusted, history>>

RacedIfMoved == before # seqlock
Raced == IsOdd(before) \/ IsOdd(seqlock) \/ before # seqlock

ReadAfter ==
    /\ rpc = "after"
    /\ ~Raced /\ rpc' = "done"
    /\ UNCHANGED <<disk, pc, writer, handle, want, before, bytes, rseen, tries,
                   trusted, history>>

\* ... and a raced read starts over from a fresh index, until it gives up ...
ReadRaced ==
    /\ rpc = "after" /\ Raced
    /\ tries' = tries + 1
    /\ IF tries' > MaxTries THEN rpc' = "busy" ELSE OpenSource
    /\ bytes' = <<>>
    /\ UNCHANGED <<disk, pc, writer, handle, want, before, rseen, trusted, history>>

\* ... looking for the same chunk, which a drop may only have moved down.
ReadRelocate ==
    LET same == {i \in 1 .. Len(handle.recs) :
                    /\ handle.recs[i].seq = want.seq
                    /\ handle.recs[i].start <= want.start}
    IN
    /\ rpc = "relocate"
    /\ \/ /\ same = {} /\ rpc' = "gone" /\ UNCHANGED want
       \/ /\ rpc' = "before"
          /\ \E i \in same : want' = handle.recs[i]
    /\ UNCHANGED <<disk, pc, writer, handle, before, bytes, rseen, tries, trusted, history>>

ReadEnd ==
    /\ rpc \in {"done", "gone", "busy"} \/ (rpc = "pick" /\ handle.recs = <<>>)
    /\ rpc' = "idle"
    /\ handle' = NoHandle /\ want' = NoRecord /\ before' = 0 /\ bytes' = <<>>
    /\ tries' = 0 /\ trusted' = NoGrain
    /\ UNCHANGED <<disk, pc, writer, rseen, history>>

------------------------------------------------------------------------------
Collapse == \/ \E k \in Droppable : CollapseStage(k)
            \/ CollapseMark \/ CollapseOdd \/ CollapseCut \/ CollapseRefused
            \/ CollapseStamp \/ CollapseRename \/ CollapseFatal \/ CollapseGrain
            \/ CollapseEven \/ CollapseUnmark

RemoveFront == \/ \E k \in Droppable \cup {cut} : RemoveStage(k)
               \/ RemoveOdd \/ RemoveTrunk \/ RemoveRings \/ RemoveRingsFails
               \/ RemoveGrain \/ RemoveEven

OpenStore == OpenLook \/ OpenReconcile \/ OpenLoad

Writer == \/ OpenStore
          \/ \E len \in env.lens : AppendFrame(len)
          \/ AppendRecord \/ ExtendGrain
          \/ Collapse \/ RemoveFront

Reader == \/ ReadStart \/ ReadLook \/ ReadReconcile
          \/ ReadSample \/ ReadIndex \/ ReadOpen \/ ReadGrain \/ ReadJudge
          \/ ReadPick \/ ReadBefore \/ ReadFrame
          \/ ReadAfter \/ ReadRaced \/ ReadRelocate \/ ReadEnd

Next == Writer \/ Reader \/ Crash

Spec == Init /\ [][Next]_vars

------------------------------------------------------------------------------
\* The variables have the types the code gives them.
Cells == Seq(Int \X Int)
Records == Seq([seq : Int, start : Nat, len : Nat])
TypeOK ==
    /\ inodes \in Seq(Cells) /\ trunk \in 1 .. Len(inodes) /\ fd \in 1 .. Len(inodes)
    /\ \A r \in {rings, staged} :
         r.next \in Nat \cup {-1} /\ r.dropped \in Nat /\ r.recs \in Records
    /\ trim.pre \in Nat \cup {-1} /\ trim.aligned \in Nat /\ trim.sliver \in Nat
    /\ seqlock \in Nat /\ seq0 \in Nat /\ before \in Nat
    /\ attached \in BOOLEAN /\ chunks \in Records /\ compSize \in Nat /\ nextSeq \in Nat
    /\ cut \in Nat /\ tries \in Nat /\ written \in Nat
    /\ env \in Environments

\* Only the processes that hold the writer's lock reconcile, as each should.
Unmeddled == "reconcile" \notin env.readers

\* Whenever the writer has the store open, the index on disk is the index in
\* memory and every record of it still locates its own frame: no crash, shift
\* or rename leaves an offset that reads another chunk's bytes.
SurvivorsReadable ==
    (Unmeddled /\ pc = "idle") =>
        /\ fd = trunk /\ rings.recs = chunks
        /\ \A i \in 1 .. Len(chunks) :
              ReadAt(Trunk, chunks[i]) = FrameCells(chunks[i].seq, chunks[i].len)

\* A head drop loses its k chunks and nothing else: chunk numbers stay one run
\* up to the newest, and what was dropped and what is held add up to what was
\* ever written, however often a cut left a sliver behind.
DropsOnlyTheHead ==
    (Unmeddled /\ pc = "idle") =>
        /\ \A i \in 1 .. Len(chunks) : chunks[i].seq = nextSeq - Len(chunks) + i - 1
        /\ written = rings.dropped
                       + MapThenSumSet(LAMBDA i : chunks[i].len, 1 .. Len(chunks))

\* The counter is even whenever no drop is in flight in a live writer.
CounterRests == pc = "idle" => ~IsOdd(seqlock)

\* src/query.rs, of read_chunk: a chunk a collapse moved is found again, and a
\* chunk dropped is reported gone, "never stale or garbage bytes".
ReadsOwnBytes ==
    (rpc = "done" /\ bytes # <<>>) => bytes = FrameCells(want.seq, want.len)

\* The counter protects every read whose index was opened under the count the
\* read began with: retried or not, it gets the bytes of the chunk it wants.
StableReads ==
    (rpc = "done" /\ handle.seq = before) => bytes = FrameCells(want.seq, want.len)

\* src/store.rs, of the odd window: rings and filters are never observed apart,
\* so a filter a reader trusts was built from the chunk it answers for.
FiltersMatch ==
    (rpc = "pick" /\ trusted # NoGrain) =>
        \A i \in 1 .. Min({Len(trusted), Len(handle.recs)}) :
            trusted[i] = handle.recs[i].seq

\* The writer takes its next step, and a dead one is started again.
FairSpec == Spec /\ WF_vars(Writer)

\* Once the writers stop dying the counter comes to rest even again and again,
\* so that a reader's retries end: nothing leaves it odd, or off by one, for
\* good.
CounterSettles ==
    Unmeddled => (<>[][~Crash]_vars => []<>~IsOdd(seqlock))
==============================================================================
