------------------------------ MODULE LiveTail ------------------------------
(***************************************************************************)
(* Reading the live edge of a store beside its writer (src/src/live.rs;    *)
(* src/src/query.rs: query_follow, query_entries, emit_live_edge;          *)
(* src/src/sap.rs as the reader sees it).                                  *)
(*                                                                         *)
(* Entries have length one and are named by their place on the store's     *)
(* endless tape.  The writer keeps the index (.rings) and, with            *)
(* write-ahead, the segment (.sap) whose entries become the next chunk.    *)
(* Offsets in both are logical: they count from the current head, and a    *)
(* head drop lowers them.                                                  *)
(*                                                                         *)
(* Two kinds of reader.  `query --follow` keeps one LiveTail and polls; it *)
(* starts from now ("follow") or further back ("tail").  A resuming read   *)
(* ("resume", what feed and followers do) keeps a position between reads   *)
(* and a LiveTail within one.  Each step of a reader is one look at the    *)
(* file system.                                                            *)
(*                                                                         *)
(* A definition preceded by one of the same name and more has there a      *)
(* faulty variant, the change a plausible bug would make.                  *)
(***************************************************************************)
EXTENDS Integers, Sequences, FiniteSetsExt

CONSTANTS
    MaxTape,       \* bound: entries ever appended
    MaxInode,      \* bound: segments ever created
    MaxEntries,    \* entries one resuming read delivers (max)
    TailEnvironments

\* reader: which reader there is.  wal: write-ahead is declared from the start.
\* happens: what else may happen: write-ahead switched ("toggle"), a head drop
\* ("drop"), one that takes every chunk ("empty") or what the follower is anchored
\* to ("overtake"), a crash of the writer, a flush that fails once the segment is
\* sealed ("unseal"), a fresh segment that cannot be created ("degrade"), inode
\* numbers and chunks' keys that recur ("inode", "key"); and what may happen in the
\* middle of a reader's pass: a head drop ("dropInPass"), a flush as a follow from
\* now starts ("flushAtStart"), entries becoming visible in a segment that is
\* younger than the pass ("burst").
TailEnvironment ==
    [reader : {"follow", "tail", "resume"}, wal : BOOLEAN,
     happens : SUBSET {"toggle", "drop", "empty", "overtake", "crash", "unseal",
                       "degrade", "inode", "key", "dropInPass", "flushAtStart", "burst"}]

ASSUME LiveTailAssumption ==
    /\ MaxTape \in Nat /\ MaxInode \in Nat /\ MaxEntries \in Nat \ {0}
    /\ TailEnvironments \subseteq TailEnvironment

VARIABLES
    \* the store
    written,    \* entries appended
    gone,       \* bytes retention dropped: the header of .rings
    chunks,     \* its records
    sap,        \* the segment .sap names, or NoSap
    wal,        \* the writer keeps a segment, and should: <<keeps, declared>>
    wpc, sealed,    \* where the writer is; the segment it has sealed
    inodes,     \* segments created
    \* the reader
    rpc,
    tail,       \* its LiveTail
    snap,       \* what open_source read
    dropped,    \* what dropped_bytes_of read
    pending,    \* chunks it still has to emit in this pass
    started, anchor,            \* query_follow: backfill done, last chunk seen
    pos, upto, count,           \* query_entries: cursor, emitted_end, EntryLimit
    \* history
    tailEnv,
    shown,      \* entries emitted: [at: place, addr: place as reported]
    startAt,    \* where the reader began
    excused     \* up to where it said that it was overtaken

storeVars == <<written, gone, chunks, sap, wal, wpc, sealed, inodes>>
followVars == <<started, anchor>>
resumeVars == <<pos, upto, count>>
passVars == <<rpc, tail, snap, dropped, pending>>
readerVars == <<passVars, followVars, resumeVars, shown, startAt, excused>>
tailVars == <<storeVars, readerVars, tailEnv>>

------------------------------------------------------------------------------
NoSap == [ino |-> 0, from |-> 0, base |-> 0, n |-> 0, header |-> FALSE]
NoSeg == [ino |-> 0, off |-> 0, served |-> 0, base |-> 0]
NoTail == [seg |-> NoSeg, skip |-> 0]
NoSnap == [gone |-> 0, recs |-> <<>>, ino |-> 0]
NoAnchor == [key |-> <<>>, hint |-> 0]
Nowhere == -1

May(what) == what \in tailEnv.happens
EndOf(c) == c.from + c.len
IndexedEnd == IF chunks = <<>> THEN gone ELSE EndOf(chunks[Len(chunks)])
\* key: what names a chunk once a head drop has renumbered its offsets.  Windows
\* and lengths of two chunks may be the same.
KeyOf(from, len) == IF May("key") THEN <<len>> ELSE <<len, from>>
NextChunk == [from |-> IndexedEnd, len |-> written - IndexedEnd,
              key |-> KeyOf(IndexedEnd, written - IndexedEnd)]

TailInit ==
    /\ tailEnv \in TailEnvironments
    /\ written = 0 /\ gone = 0 /\ chunks = <<>>
    /\ wal = <<tailEnv.wal, tailEnv.wal>>
    /\ sap = IF tailEnv.wal THEN [NoSap EXCEPT !.ino = 1, !.header = TRUE] ELSE NoSap
    /\ inodes = IF tailEnv.wal THEN 1 ELSE 0
    /\ wpc = "idle" /\ sealed = NoSap
    /\ rpc = (IF tailEnv.reader = "resume" THEN "idle" ELSE "start")
    /\ tail = NoTail /\ snap = NoSnap /\ dropped = 0 /\ pending = <<>>
    /\ started = FALSE /\ anchor = NoAnchor
    /\ pos = Nowhere /\ upto = Nowhere /\ count = 0
    /\ shown = <<>> /\ startAt = 0 /\ excused = 0

------------------------------------------------------------------------------
\* The writer.
AppendEntry ==
    /\ wpc = "idle" /\ written < MaxTape
    /\ written' = written + 1
    /\ UNCHANGED <<gone, chunks, sap, wal, wpc, sealed, inodes>>

\* Sap::flush, once per batch: what was appended can be read.
ShowEntries ==
    /\ wpc = "idle" /\ sap.ino # 0 /\ sap.from + sap.n < written
    /\ rpc \in {"start", "attached", "idle"} \/ May("burst") \/ inodes = snap.ino
    /\ sap' = [sap EXCEPT !.n = written - sap.from]
    /\ UNCHANGED <<written, gone, chunks, wal, wpc, sealed, inodes>>

\* flush_chunk with a segment: synced, it is renamed away; the chunk lands; a fresh
\* one is created, and then gets its header; the sealed one is unlinked.
AtStart == rpc = "attached" /\ tail.seg # NoSeg

FlushSeal ==
    /\ wpc = "idle" /\ wal[1] /\ written > IndexedEnd
    /\ AtStart /\ tailEnv.reader = "follow" => May("flushAtStart")
    /\ sealed' = [sap EXCEPT !.n = written - sap.from]
    /\ sap' = NoSap /\ wpc' = "sealed"
    /\ UNCHANGED <<written, gone, chunks, wal, inodes>>

FlushLand ==
    /\ wpc = "sealed"
    /\ chunks' = Append(chunks, NextChunk) /\ wpc' = "landed"
    /\ UNCHANGED <<written, gone, sap, wal, sealed, inodes>>

\* unseal_before_landed: a write or an fsync failed.
FlushFails ==
    /\ wpc = "sealed" /\ May("unseal")
    /\ sap' = sealed /\ sealed' = NoSap /\ wpc' = "idle"
    /\ UNCHANGED <<written, gone, chunks, wal, inodes>>

\* A recurring inode number is that of the segment before the sealed one.
FreshInode == IF May("inode") THEN 1 + (inodes % 2) ELSE inodes + 1

CreateSegment ==
    /\ wpc = "landed" /\ inodes < MaxInode
    /\ sap' = [NoSap EXCEPT !.ino = FreshInode, !.from = IndexedEnd]
    /\ inodes' = inodes + 1
    /\ sealed' = NoSap /\ wpc' = "blank"
    /\ UNCHANGED <<written, gone, chunks, wal>>

CreateFails ==
    /\ wpc = "landed" /\ May("degrade")
    /\ wal' = <<FALSE, wal[2]>>
    /\ sealed' = NoSap /\ wpc' = "idle"
    /\ UNCHANGED <<written, gone, chunks, sap, inodes>>

WriteHeader ==
    /\ wpc = "blank"
    /\ sap' = [sap EXCEPT !.header = TRUE, !.base = IndexedEnd - gone]
    /\ wal' = <<TRUE, TRUE>> /\ wpc' = "idle"
    /\ UNCHANGED <<written, gone, chunks, sealed, inodes>>

PlainFlush ==
    /\ wpc = "idle" /\ ~wal[1] /\ written > IndexedEnd
    /\ AtStart /\ tailEnv.reader = "follow" => May("flushAtStart")
    /\ chunks' = Append(chunks, NextChunk)
    /\ UNCHANGED <<written, gone, sap, wal, wpc, sealed, inodes>>

\* sync_wal_declaration.  A segment that could not be created is tried again by
\* the maintenance of a later second.
StartWal ==
    /\ wpc = "idle" /\ ~wal[1] /\ (wal[2] \/ May("toggle")) /\ inodes < MaxInode
    /\ chunks' = IF written > IndexedEnd THEN Append(chunks, NextChunk) ELSE chunks
    /\ wal' = <<FALSE, TRUE>> /\ wpc' = "landed"
    /\ UNCHANGED <<written, gone, sap, sealed, inodes>>

StopWal ==
    /\ wpc = "idle" /\ wal[1] /\ May("toggle")
    /\ wal' = <<FALSE, FALSE>> /\ sap' = NoSap
    /\ UNCHANGED <<written, gone, chunks, wpc, sealed, inodes>>

\* remove_head or collapse_head: the new index is renamed into place, its header
\* counting what it dropped; then the segment's bases follow.
MayDrop(cut) ==
    /\ cut < Len(chunks) \/ May("empty")
    /\ May("dropInPass") \/ rpc \in {"start", "idle"} \/ (rpc = "chunks" /\ ~wal[1])
    /\ \/ May("overtake") \/ tailEnv.reader = "resume" \/ rpc = "start"
       \/ \E i \in cut + 1 .. Len(chunks) : chunks[i].key = anchor.key

DropHead ==
    /\ wpc = "idle" /\ May("drop")
    /\ \E cut \in 1 .. Len(chunks) :
         /\ MayDrop(cut)
         /\ gone' = EndOf(chunks[cut])
         /\ chunks' = SubSeq(chunks, cut + 1, Len(chunks))
    /\ wpc' = IF wal[1] THEN "trimmed" ELSE "idle"
    /\ UNCHANGED <<written, sap, wal, sealed, inodes>>

RefreshBase ==
    /\ wpc = "trimmed" /\ wpc' = "idle"
    /\ sap' = [sap EXCEPT !.base = IndexedEnd - gone]
    /\ UNCHANGED <<written, gone, chunks, wal, sealed, inodes>>

\* A crash of the process loses what it had buffered; FileStore::open lands a
\* sealed segment and resumes the live one, its bases put right.
WriterCrash ==
    /\ wpc \notin {"down", "downSealed"} /\ May("crash")
    /\ written' = IF wpc = "sealed" THEN written
                  ELSE IndexedEnd + (IF sap.header THEN sap.n ELSE 0)
    /\ wpc' = IF wpc = "sealed" THEN "downSealed" ELSE "down"
    /\ UNCHANGED <<gone, chunks, sap, wal, sealed, inodes>>

Reopen ==
    /\ \/ wpc = "downSealed" /\ chunks' = Append(chunks, NextChunk)
       \/ wpc = "down" /\ chunks' = chunks
    /\ sealed' = NoSap
    /\ IF wal[2] /\ sap.header
       THEN /\ sap' = [sap EXCEPT !.base = IndexedEnd - gone]
            /\ wpc' = "idle" /\ wal' = <<TRUE, TRUE>>
       ELSE sap' = NoSap /\ wpc' = (IF wal[2] THEN "landed" ELSE "idle")
            /\ wal' = <<FALSE, wal[2]>>
    /\ UNCHANGED <<written, gone, inodes>>

FlushSteps == FlushSeal \/ FlushLand \/ CreateSegment \/ WriteHeader \/ PlainFlush

WriterStep ==
    /\ \/ AppendEntry \/ ShowEntries \/ FlushSteps \/ FlushFails \/ CreateFails
       \/ StartWal \/ StopWal \/ DropHead \/ RefreshBase \/ WriterCrash \/ Reopen
    /\ UNCHANGED <<readerVars, tailEnv>>

------------------------------------------------------------------------------
\* LiveTail: bind to the segment .sap names now, handing what was served of another
\* one to the chunks to come.
Rolled(t) == [seg |-> NoSeg, skip |-> t.skip + t.seg.served]

ReconciledLazily(t) ==
    IF sap.ino = 0 THEN [NoTail EXCEPT !.skip = t.skip]
    ELSE IF t.seg.ino = sap.ino THEN t
    ELSE [seg |-> IF sap.header THEN [NoSeg EXCEPT !.ino = sap.ino, !.base = sap.base]
                                ELSE NoSeg,
          skip |-> t.skip]

Reconciled(t) ==
    IF sap.ino = 0 THEN Rolled(t)
    ELSE IF t.seg.ino = sap.ino THEN t
    ELSE [seg |-> IF sap.header THEN [NoSeg EXCEPT !.ino = sap.ino, !.base = sap.base]
                                ELSE NoSeg,
          skip |-> Rolled(t).skip]

\* poll: the entries since the last one, where they are, and where the segment says
\* they are.
Polled(t) ==
    LET r == Reconciled(t)
        new == IF sap.n > r.seg.off THEN sap.n - r.seg.off ELSE 0
    IN  IF r.seg = NoSeg THEN [tail |-> r, at |-> 0, from |-> 0, n |-> 0]
        ELSE [tail |-> [r EXCEPT !.seg = [r.seg EXCEPT
                          !.base = sap.base, !.off = sap.n, !.served = @ + new]],
              at |-> sap.base + r.seg.served, from |-> sap.from + r.seg.off, n |-> new]

\* read_chunk: the record as it was opened, or after a drop the first with its key.
Found(c) ==
    LET same == {i \in 1 .. Len(chunks) : chunks[i].key = c.key}
    IN  IF gone = snap.gone THEN {c}
        ELSE IF same = {} THEN {} ELSE {chunks[Min(same)]}

Entries(from, n, addr) == [i \in 1 .. n |-> [at |-> from + i - 1, addr |-> addr + i - 1]]
LogicalEnd == IF snap.recs = <<>> THEN 0 ELSE EndOf(snap.recs[Len(snap.recs)]) - snap.gone
Logical(c) == c.from - snap.gone
From(recs, i) == SubSeq(recs, i, Len(recs))

------------------------------------------------------------------------------
\* What both readers do first: the records, then, from the file again, how much has
\* left the store.
OpenSource ==
    /\ rpc \in {"attached", "idle"} /\ rpc' = "opened"
    /\ wpc = "trimmed" => May("dropInPass")
    /\ snap' = [gone |-> gone, recs |-> chunks, ino |-> inodes]
    /\ UNCHANGED <<tail, dropped, pending, followVars, resumeVars, shown, startAt, excused>>

ReadDropped ==
    /\ rpc = "opened" /\ rpc' = "addressed" /\ dropped' = gone
    /\ UNCHANGED <<tail, snap, pending, followVars, resumeVars, shown, startAt, excused>>

------------------------------------------------------------------------------
\* query_follow.
AttachTail ==
    /\ rpc = "start" /\ rpc' = "attached"
    /\ IF tailEnv.reader = "follow"
       THEN /\ tail' = Polled(NoTail).tail
            /\ startAt' = IF tail'.seg = NoSeg THEN IndexedEnd ELSE sap.from + sap.n
       ELSE tail' = Reconciled(NoTail) /\ UNCHANGED startAt
    /\ UNCHANGED <<snap, dropped, pending, followVars, resumeVars, shown, excused>>

AnchorAt(recs) ==
    IF recs = <<>> THEN anchor ELSE [key |-> recs[Len(recs)].key, hint |-> Len(recs)]

\* The backfill: nothing for a follow from now, else from a chunk the tail or window
\* names.  Its anchor is set after the live edge has been read.
Backfill ==
    /\ rpc = "addressed" /\ tailEnv.reader \in {"follow", "tail"} /\ ~started
    /\ \E start \in 1 .. Len(snap.recs) + 1 :
         /\ tailEnv.reader = "follow" => start = Len(snap.recs) + 1
         /\ pending' = From(snap.recs, start)
         /\ startAt' = IF pending' = <<>> THEN Max({startAt, snap.gone + LogicalEnd})
                                          ELSE pending'[1].from
    /\ anchor' = AnchorAt(snap.recs) /\ rpc' = "chunks"
    /\ UNCHANGED <<tail, snap, dropped, started, resumeVars, shown, excused>>

\* resume_at: the chunks after the anchor, sought from where it was and down.
AfterAnchor ==
    LET recs == snap.recs
        low == {i \in 1 .. Min({anchor.hint, Len(recs)}) : recs[i].key = anchor.key}
    IN  IF anchor = NoAnchor THEN 1 ELSE IF low = {} THEN Nowhere ELSE Max(low) + 1

\* It indexes the first record of an empty index.
FollowPanics ==
    /\ rpc = "addressed" /\ started /\ anchor # NoAnchor /\ snap.recs = <<>>
    /\ rpc' = "dead"
    /\ UNCHANGED <<tail, snap, dropped, pending, followVars, resumeVars, shown, startAt, excused>>

FollowPass ==
    /\ rpc = "addressed" /\ started /\ ~(anchor # NoAnchor /\ snap.recs = <<>>)
    /\ tail' = Reconciled(tail)
    /\ pending' = IF AfterAnchor = Nowhere THEN <<>> ELSE From(snap.recs, AfterAnchor)
    /\ excused' = IF AfterAnchor = Nowhere THEN snap.gone + LogicalEnd ELSE excused
    /\ anchor' = AnchorAt(snap.recs)
    /\ rpc' = "chunks"
    /\ UNCHANGED <<snap, dropped, started, resumeVars, shown, startAt>>

\* A chunk without what of it has gone out live (skip_for_chunk); one that retention
\* took in between has the skip forgotten.  The backfill skips nothing.
FollowChunk ==
    /\ rpc = "chunks" /\ tailEnv.reader # "resume" /\ pending # <<>>
    /\ pending' = Tail(pending)
    /\ LET c == Head(pending)
           skip == IF started THEN Min({tail.skip, c.len}) ELSE 0
       IN  \/ /\ Found(c) = {}
              /\ tail' = IF started THEN [tail EXCEPT !.skip = 0] ELSE tail
              /\ UNCHANGED shown
           \/ \E d \in Found(c) :
              /\ tail' = [tail EXCEPT !.skip = @ - skip]
              /\ shown' = shown \o Entries(d.from + skip, d.len - skip,
                                           dropped + Logical(c) + skip)
    /\ UNCHANGED <<rpc, snap, dropped, followVars, resumeVars, startAt, excused>>

\* The live edge last.
FollowEdge ==
    /\ rpc = "chunks" /\ tailEnv.reader # "resume" /\ pending = <<>>
    /\ LET p == Polled(tail)
       IN  /\ tail' = p.tail
           /\ shown' = shown \o Entries(p.from, p.n, dropped + p.at)
    /\ started' = TRUE /\ rpc' = "idle" /\ snap' = NoSnap /\ dropped' = 0
    /\ UNCHANGED <<pending, anchor, resumeVars, startAt, excused>>

------------------------------------------------------------------------------
\* read_forward: the chunks from the position on, then the live edge where it
\* follows them.
SelectChunks ==
    /\ rpc = "addressed" /\ tailEnv.reader = "resume" /\ rpc' = "reading"
    /\ tail' = IF pos = Nowhere THEN NoTail ELSE Reconciled(NoTail)
    /\ pending' = SelectSeq(snap.recs, LAMBDA c : dropped + Logical(c) + c.len > pos)
    /\ startAt' = IF pos = Nowhere THEN snap.gone ELSE startAt
    /\ UNCHANGED <<snap, dropped, followVars, resumeVars, shown, excused>>

\* EntrySink: what lies past the position, until the count is full.
Deliver(es) ==
    LET fresh == SelectSeq(es, LAMBDA e : e.addr >= pos)
        out == SubSeq(fresh, 1, Min({Len(fresh), MaxEntries - count}))
    IN  /\ shown' = shown \o out
        /\ count' = count + Len(out)
        /\ upto' = IF out = <<>> THEN upto ELSE out[Len(out)].addr + 1

ReadChunk ==
    /\ rpc = "reading" /\ pending # <<>> /\ count < MaxEntries
    /\ pending' = Tail(pending)
    /\ \/ Found(Head(pending)) = {} /\ UNCHANGED <<shown, count, upto>>
       \/ \E d \in Found(Head(pending)) :
             Deliver(Entries(d.from, d.len, dropped + Logical(Head(pending))))
    /\ UNCHANGED <<rpc, tail, snap, dropped, followVars, pos, startAt, excused>>

LiveFollowsStart(at) ==
    at = dropped + (IF snap.recs = <<>> THEN 0 ELSE Logical(snap.recs[Len(snap.recs)]))

LiveFollows(at) == at = dropped + LogicalEnd

EmitEdge ==
    /\ rpc = "reading" /\ pending = <<>> /\ count < MaxEntries /\ pos # Nowhere
    /\ LET p == Polled(tail)
       IN  IF p.n > 0 /\ LiveFollows(p.at) THEN Deliver(Entries(p.from, p.n, p.at))
           ELSE UNCHANGED <<shown, count, upto>>
    /\ rpc' = "read"
    /\ UNCHANGED <<tail, snap, dropped, pending, followVars, pos, startAt, excused>>

\* The position record: past the last entry delivered, or where it resumed.
ReportPosition ==
    /\ rpc = "read" \/ (rpc = "reading" /\ (count = MaxEntries \/ (pending = <<>> /\ pos = Nowhere)))
    /\ rpc' = "idle" /\ pos' = (IF upto = Nowhere THEN pos ELSE upto)
    /\ tail' = NoTail /\ snap' = NoSnap /\ dropped' = 0 /\ pending' = <<>>
    /\ upto' = Nowhere /\ count' = 0
    /\ UNCHANGED <<followVars, shown, startAt, excused>>

------------------------------------------------------------------------------
ReaderSteps ==
    \/ OpenSource \/ ReadDropped \/ AttachTail \/ Backfill \/ FollowPass \/ FollowChunk
    \/ FollowEdge \/ FollowPanics \/ SelectChunks \/ ReadChunk \/ EmitEdge \/ ReportPosition

ReaderStep == ReaderSteps /\ UNCHANGED <<storeVars, tailEnv>>

TailNext == WriterStep \/ ReaderStep

TailSpec == TailInit /\ [][TailNext]_tailVars

\* The reader polls for as long as it runs, the writer shows what it appended, and
\* finishes what it began.
FinishWriter == CreateSegment \/ WriteHeader \/ FlushLand \/ RefreshBase \/ Reopen \/ ShowEntries

TailFairness ==
    /\ WF_tailVars(ReaderStep)
    /\ WF_tailVars(FinishWriter /\ UNCHANGED <<readerVars, tailEnv>>)
    /\ WF_tailVars(PlainFlush /\ UNCHANGED <<readerVars, tailEnv>>)

FairTail == TailSpec /\ TailFairness

------------------------------------------------------------------------------
TailTypeOK ==
    /\ written \in 0 .. MaxTape /\ gone \in 0 .. written
    /\ \A i \in 1 .. Len(chunks) : /\ chunks[i].len > 0
                                   /\ EndOf(chunks[i]) = IF i = Len(chunks) THEN IndexedEnd
                                                         ELSE chunks[i + 1].from
    /\ IndexedEnd <= written
    /\ sap.header => sap.from + sap.n <= written
    /\ tail.seg.served \in Nat /\ tail.skip \in Nat /\ pos \in Int

Places == {shown[i].at : i \in 1 .. Len(shown)}

\* What is shown is in the order of the tape, and shown once: whatever of a chunk
\* went out live, from a segment that was then sealed, is left out of it, and
\* nothing else is (skip_for_chunk, forget_skip, live_follows_the_chunks).
ShownOnceInOrder == \A i \in 1 .. Len(shown) - 1 : shown[i].at < shown[i + 1].at

\* A follower goes on whatever retention does (resume_at).
FollowerLives == rpc # "dead"

\* Nothing is passed over, except what had left the store and what the follower
\* said it was overtaken over.
NothingPassedOver ==
    \A i \in 1 .. Len(shown) : \A p \in startAt .. shown[i].at :
        p \in Places \/ p < gone \/ p < excused

\* "No double-emit and no gap" (live.rs).
ShownExactly == ShownOnceInOrder /\ NothingPassedOver

\* Every entry is shown with its own place on the tape: dropped bytes and logical
\* offsets are of one generation of the store.
AddressesTrue == ~May("dropInPass") => \A i \in 1 .. Len(shown) : shown[i].addr = shown[i].at

\* A read that has no position yet does not look at the live edge.
Attentive == tailEnv.reader = "resume" => pos # Nowhere

\* A reader that goes on polling shows, or has a reason not to show, every entry
\* that can be read: the live edge does not wait for the next flush.
EntriesArrive ==
    \A p \in 0 .. MaxTape - 1 :
        p < IndexedEnd \/ (Attentive /\ sap.header /\ p < sap.from + sap.n)
            ~> p \in Places \/ p < gone \/ p < excused \/ p < startAt
==============================================================================
