----------------------------- MODULE FileStore -----------------------------
(***************************************************************************)
(* The write path of one timberfs store (src/src/store.rs, src/src/sap.rs):*)
(* the in-memory buffer, the chunks it is flushed into (.trunk frames and  *)
(* .rings records), the write-ahead segment (.sap, sealed as .sap.seal     *)
(* while a flush is in flight), and the reconciliation a writer runs when  *)
(* it opens the store after a crash.                                       *)
(*                                                                         *)
(* One process at a time holds the store's file lock, and inside it one    *)
(* thread at a time holds the store's mutex, so a FileStore method runs    *)
(* alone.  What can fall between two of its system calls is a crash: `pc'  *)
(* is the system call the running method is about to make.                 *)
(*                                                                         *)
(* An appended entry is named by its position on the tape: the number of   *)
(* entries accepted before it.  A run of consecutive entries is a pair     *)
(* lo, hi (lo included, hi excluded).  An entry lost in a crash gives its  *)
(* position back, as the source that appends it again would.  Every entry  *)
(* is one unit of uncompressed length and every frame one unit of          *)
(* compressed length; contents and write times are left out.               *)
(*                                                                         *)
(* A definition preceded by one of the same name and more (WriteFrame by    *)
(* WriteFrameAtEof, say) has there a faulty variant, the change a plausible *)
(* bug would make: put in its place, it must break the properties that    *)
(* PROJECT.json names for it.                                              *)
(*                                                                         *)
(* Assumed of the file system: rename, unlink, create and truncate take    *)
(* effect in order and survive a power loss; a power loss cuts unsynced    *)
(* appends back to some prefix; an I/O call either succeeds or has no      *)
(* effect.                                                                 *)
(***************************************************************************)
EXTENDS Integers, Sequences

CONSTANTS
    ChunkSize,   \* cfg.chunk_size: buffered entries that force a flush
    MaxTape,     \* bound: positions on the tape
    MaxSeq,      \* bound: chunk numbers handed out
    Environments \* what a behaviour may meet: subset of Environment

\* An environment: what may die, which I/O calls may fail, who opens the store,
\* and which of the rarer operations are in play.
Deaths == {"process", "power"}
FaultKinds == {"trunk", "rings", "sync", "create", "rebase"}
Programs == {"writer", "import"}
OperationKinds == {"drop", "adopt", "reset", "wal_on", "wal_off"}

Environment == [crashes : SUBSET Deaths, faults : SUBSET FaultKinds,
                roles : SUBSET Programs, operations : SUBSET OperationKinds]

ASSUME ConstantsAssumption ==
    /\ ChunkSize \in Nat \ {0}
    /\ MaxTape \in Nat
    /\ MaxSeq \in Nat
    /\ Environments \subseteq Environment

VARIABLES
    \* on disk
    trunk,        \* .trunk: sequence of frames, orphans past the index included
    trunkSynced,  \* leading frames that survive a power loss
    rings,        \* .rings: sequence of chunk records
    ringsSynced,  \* leading records that survive a power loss
    hdrSeq,       \* next_seq in the .rings header
    sap, seal,    \* .sap and .sap.seal
    declared,     \* "wal": true in the manifest
    \* in the writer's memory
    pc,           \* the system call it is about to make
    after,        \* what flush_chunk's caller does once it returns
    role,         \* which program holds the store
    chunks,       \* records in memory: the index it appends to
    bufStart,     \* buffer_start: uncompressed position of the buffer
    lo, hi,       \* the buffer holds entries lo .. hi-1
    wal,          \* has_wal(): a live segment backs the buffer
    walHi,        \* the segment with its BufWriter holds entries below walHi
    nextSeq,      \* number the next chunk gets
    staged,       \* chunks at the stage() baseline, or NotStaged
    \* outside the program
    env,          \* the environment of this behaviour, the same throughout
    head,         \* first position retention or truncation has not dropped
    acked,        \* positions below were reported durable
    numbered      \* chunk numbers below were given to chunks made durable

disk == <<trunk, trunkSynced, rings, ringsSynced, hdrSeq, sap, seal, declared>>
memory == <<role, chunks, bufStart, lo, hi, wal, walHi, nextSeq, staged>>
history == <<env, head, acked, numbered>>
vars == <<disk, pc, after, memory, history>>

------------------------------------------------------------------------------
Frame == [lo : Nat, hi : Nat]
ChunkRecord == [start : Nat, len : Nat, seq : Nat]
Segment == [there : BOOLEAN, base : Nat, ubase : Nat,
            lo : Nat, hi : Nat, syn : Nat]

NoSegment == [there |-> FALSE, base |-> 0, ubase |-> 0,
              lo |-> 0, hi |-> 0, syn |-> 0]
NotStaged == -1

Least(a, b) == IF a <= b THEN a ELSE b
Greatest(a, b) == IF a >= b THEN a ELSE b

CompSize == Len(chunks)
IndexedEndAtStart(recs) == IF recs = <<>> THEN 0 ELSE recs[Len(recs)].start
IndexedEnd(recs) ==
    IF recs = <<>> THEN 0
    ELSE recs[Len(recs)].start + recs[Len(recs)].len
SeqAfter(recs) == IF recs = <<>> THEN 0 ELSE recs[Len(recs)].seq + 1

\* What open goes by: the records whose frames the trunk holds, and the number
\* the next chunk gets, whichever of header and index is further.
Intact == Least(Len(rings), Len(trunk))

ResumedSeqByHeader == hdrSeq
ResumedSeq == Greatest(hdrSeq, SeqAfter(rings))

\* Tape position at the end of the first n frames.
TapeEnd(n) == IF n = 0 THEN head ELSE trunk[n].hi

\* Sap::create: an empty segment at the store's current coordinates.
FreshSegment(base, ubase, at) ==
    [there |-> TRUE, base |-> base, ubase |-> ubase,
     lo |-> at, hi |-> at, syn |-> at]

Sealing == wal /\ staged = NotStaged

\* write_all_at the position past the last indexed frame: an orphan frame an
\* earlier failure left there is overwritten.
WriteFrameAtEof(f) ==
    /\ trunk' = Append(trunk, f)
    /\ trunkSynced' = Least(trunkSynced, CompSize)
WriteFrame(f) ==
    /\ trunk' = IF CompSize < Len(trunk) THEN [trunk EXCEPT ![CompSize + 1] = f]
                ELSE Append(trunk, f)
    /\ trunkSynced' = Least(trunkSynced, CompSize)

WriteRecord(rec) ==
    /\ rings' = Append(SubSeq(rings, 1, CompSize), rec)
    /\ ringsSynced' = Least(ringsSynced, CompSize)

NextRecord(len) == [start |-> bufStart, len |-> len, seq |-> nextSeq]

\* trunk.sync_all() and rings.sync_all()
SyncPair ==
    /\ trunkSynced' = Len(trunk)
    /\ ringsSynced' = Len(rings)
    /\ numbered' = Greatest(numbered, SeqAfter(rings))

Goto(label) == pc' = label /\ UNCHANGED after

\* A dead process has no memory.
Forget ==
    /\ pc' = "down" /\ after' = "none"
    /\ role' = "none"
    /\ chunks' = <<>> /\ bufStart' = 0
    /\ lo' = 0 /\ hi' = 0
    /\ wal' = FALSE /\ walHi' = 0
    /\ nextSeq' = 0
    /\ staged' = NotStaged

------------------------------------------------------------------------------
Init ==
    /\ trunk = <<>> /\ trunkSynced = 0
    /\ rings = <<>> /\ ringsSynced = 0
    /\ hdrSeq = 0
    /\ sap = NoSegment /\ seal = NoSegment
    /\ declared \in BOOLEAN
    /\ pc = "down" /\ after = "none"
    /\ role = "none"
    /\ chunks = <<>> /\ bufStart = 0
    /\ lo = 0 /\ hi = 0
    /\ wal = FALSE /\ walHi = 0
    /\ nextSeq = 0
    /\ staged = NotStaged
    /\ env \in Environments
    /\ head = 0 /\ acked = 0 /\ numbered = 0

------------------------------------------------------------------------------
\* FileStore::open, first part: load the index, drop the records of frames
\* the trunk does not hold, and number on from the larger of header and index.
OpenIndex(r) ==
    LET n == Intact IN
    /\ pc = "down" /\ Goto("open_seal")
    /\ r \in env.roles
    /\ role' = r
    /\ chunks' = SubSeq(rings, 1, n)
    /\ rings' = chunks'
    /\ ringsSynced' = Least(ringsSynced, n)
    /\ nextSeq' = ResumedSeq
    /\ bufStart' = IndexedEnd(chunks')
    /\ lo' = TapeEnd(n) /\ hi' = TapeEnd(n)
    /\ UNCHANGED <<trunk, trunkSynced, hdrSeq, sap, seal, declared,
                   wal, walHi, staged, history>>

\* No seal, or the flush it stood for landed, or it is empty: unlink it.
DiscardSeal ==
    /\ pc = "open_seal"
    /\ seal.there => seal.base < CompSize \/ seal.lo = seal.hi
    /\ seal' = NoSegment
    /\ Goto("open_live")
    /\ UNCHANGED <<trunk, trunkSynced, rings, ringsSynced, hdrSeq, sap, declared,
                   memory, history>>

\* The flush never landed: its entries become the buffer again ...
ReplaySeal ==
    /\ pc = "open_seal"
    /\ seal.there /\ seal.base >= CompSize /\ seal.lo < seal.hi
    /\ lo' = seal.lo /\ hi' = seal.hi
    /\ Goto("replay_frame")
    /\ UNCHANGED <<disk, role, chunks, bufStart, wal, walHi, nextSeq, staged, history>>

\* ... and are flushed here: frame, record, both files synced, seal unlinked.
ReplayFrame ==
    /\ pc = "replay_frame" /\ Goto("replay_record")
    /\ WriteFrame([lo |-> lo, hi |-> hi])
    /\ UNCHANGED <<rings, ringsSynced, hdrSeq, sap, seal, declared, memory, history>>

ReplayRecord ==
    /\ pc = "replay_record" /\ Goto("replay_sync")
    /\ nextSeq < MaxSeq
    /\ WriteRecord(NextRecord(hi - lo))
    /\ nextSeq' = nextSeq + 1
    /\ UNCHANGED <<trunk, trunkSynced, hdrSeq, sap, seal, declared,
                   role, chunks, bufStart, lo, hi, wal, walHi, staged, history>>

ReplaySync ==
    /\ pc = "replay_sync" /\ Goto("replay_unlink")
    /\ SyncPair
    /\ chunks' = rings
    /\ bufStart' = bufStart + (hi - lo)
    /\ lo' = hi
    /\ UNCHANGED <<trunk, rings, hdrSeq, sap, seal, declared,
                   role, hi, wal, walHi, nextSeq, staged, env, head, acked>>

ReplayUnlink ==
    /\ pc = "replay_unlink" /\ Goto("open_live")
    /\ seal' = NoSegment
    /\ UNCHANGED <<trunk, trunkSynced, rings, ringsSynced, hdrSeq, sap, declared,
                   memory, history>>

\* Where a program goes once the store is open: an atomic import stages.
Opened ==
    IF role = "import" THEN pc' = "stage" /\ UNCHANGED after
    ELSE pc' = "idle" /\ UNCHANGED after

\* FileStore::open, last part: fold the live segment into the buffer, then
\* resume it (its bases re-stamped from the store), create it, or delete it.
OpenLive ==
    LET first == IF sap.lo < sap.hi THEN sap.lo ELSE lo
        last  == IF sap.lo < sap.hi THEN sap.hi ELSE hi
        resumed == [sap EXCEPT !.base = CompSize, !.ubase = bufStart,
                               !.lo = first, !.hi = last,
                               !.syn = IF sap.base # CompSize \/ sap.ubase # bufStart
                                       THEN last ELSE Greatest(first, sap.syn)]
    IN
    /\ pc = "open_live" /\ Opened
    /\ lo' = first /\ hi' = last
    /\ wal' = declared
    /\ walHi' = last
    /\ sap' = CASE declared /\ sap.there -> resumed
                [] declared /\ ~sap.there -> FreshSegment(CompSize, bufStart, last)
                [] OTHER -> NoSegment
    /\ UNCHANGED <<trunk, trunkSynced, rings, ringsSynced, hdrSeq, seal, declared,
                   role, chunks, bufStart, nextSeq, staged, history>>

------------------------------------------------------------------------------
\* One entry enters the buffer and, unless staged, the segment's BufWriter,
\* which hands any amount of what it holds to the kernel.
AppendEntry ==
    /\ pc \in {"idle", "staged"}
    /\ hi < MaxTape
    /\ hi' = hi + 1
    /\ IF Sealing
       THEN /\ walHi' = hi + 1
            /\ \E h \in sap.hi .. hi + 1 : sap' = [sap EXCEPT !.hi = h]
       ELSE UNCHANGED <<walHi, sap>>
    /\ IF hi + 1 - lo >= ChunkSize
       THEN pc' = "flush" /\ after' = pc
       ELSE UNCHANGED <<pc, after>>
    /\ UNCHANGED <<trunk, trunkSynced, rings, ringsSynced, hdrSeq, seal, declared,
                   role, chunks, bufStart, lo, wal, nextSeq, staged, history>>

\* flush_chunk is called with `next' to do afterwards; on an empty buffer it
\* returns at once.
CallFlush(next) ==
    IF lo < hi THEN pc' = "flush" /\ after' = next
    ELSE pc' = next /\ after' = "none"

\* The maintenance tick's flush_aged found the buffer old enough.
FlushAged ==
    /\ pc = "idle" /\ lo < hi
    /\ CallFlush("idle")
    /\ UNCHANGED <<disk, memory, history>>

\* sync(): flush, then fsync both files (an fsync, the writer's exit).
Sync ==
    /\ pc = "idle"
    /\ CallFlush("sync")
    /\ UNCHANGED <<disk, memory, history>>

SyncFiles ==
    /\ pc = "sync" /\ pc' = "idle" /\ after' = "none"
    /\ SyncPair
    /\ acked' = hi
    /\ UNCHANGED <<trunk, rings, hdrSeq, sap, seal, declared, memory, env, head>>

\* sap_flush(): the BufWriter's records become visible, not durable.
SapFlush ==
    /\ pc = "idle" /\ wal
    /\ sap.hi # walHi
    /\ sap' = [sap EXCEPT !.hi = walHi]
    /\ UNCHANGED <<trunk, trunkSynced, rings, ringsSynced, hdrSeq, seal, declared,
                   pc, after, memory, history>>

\* sap_sync(): the write-ahead segment's durability point.
SapSync ==
    /\ pc = "idle" /\ wal
    /\ sap' = [sap EXCEPT !.hi = walHi, !.syn = walHi]
    /\ acked' = hi
    /\ UNCHANGED <<trunk, trunkSynced, rings, ringsSynced, hdrSeq, seal, declared,
                   pc, after, memory, env, head, numbered>>

------------------------------------------------------------------------------
\* flush_chunk.  The buffer is compressed; a write-ahead segment is fsynced
\* and sealed first.
FlushBegin ==
    /\ pc = "flush" /\ Goto("frame")
    /\ nextSeq < MaxSeq
    /\ IF Sealing
       THEN /\ seal' = [sap EXCEPT !.hi = walHi, !.syn = walHi]
            /\ sap' = NoSegment
       ELSE UNCHANGED <<seal, sap>>
    /\ UNCHANGED <<trunk, trunkSynced, rings, ringsSynced, hdrSeq, declared,
                   memory, history>>

FlushFrame ==
    /\ pc = "frame" /\ Goto("record")
    /\ WriteFrame([lo |-> lo, hi |-> hi])
    /\ UNCHANGED <<rings, ringsSynced, hdrSeq, sap, seal, declared, memory, history>>

\* The chunk's number is taken, its record written unless held by staging,
\* and the buffer becomes a chunk.
FlushRecord ==
    /\ pc = "record"
    /\ IF staged = NotStaged THEN WriteRecord(NextRecord(hi - lo))
       ELSE UNCHANGED <<rings, ringsSynced>>
    /\ nextSeq' = nextSeq + 1
    /\ chunks' = Append(chunks, NextRecord(hi - lo))
    /\ bufStart' = bufStart + (hi - lo)
    /\ lo' = hi
    /\ IF Sealing THEN Goto("harden") ELSE pc' = after /\ after' = "none"
    /\ UNCHANGED <<trunk, trunkSynced, hdrSeq, sap, seal, declared,
                   role, hi, wal, walHi, staged, history>>

\* Sealing only: frame and record are durable before the seal goes ...
FlushHarden ==
    /\ pc = "harden" /\ Goto("swap")
    /\ SyncPair
    /\ UNCHANGED <<trunk, rings, hdrSeq, sap, seal, declared, memory, env, head, acked>>

\* ... the next segment is started, or write-ahead is off until reopen ...
FlushSwap ==
    /\ pc = "swap" /\ Goto("unlink")
    /\ \/ /\ sap' = FreshSegment(CompSize, bufStart, hi)
          /\ UNCHANGED wal
       \/ /\ "create" \in env.faults
          /\ wal' = FALSE
          /\ UNCHANGED sap
    /\ walHi' = hi
    /\ UNCHANGED <<trunk, trunkSynced, rings, ringsSynced, hdrSeq, seal, declared,
                   role, chunks, bufStart, lo, hi, nextSeq, staged, history>>

\* ... and the seal is unlinked.
FlushUnlink ==
    /\ pc = "unlink"
    /\ pc' = after /\ after' = "none"
    /\ seal' = NoSegment
    /\ UNCHANGED <<trunk, trunkSynced, rings, ringsSynced, hdrSeq, sap, declared,
                   memory, history>>

\* unseal_before_landed, and the error goes up: the caller's remaining work
\* is not done, and an import gives up.
UnsealLost ==
    /\ IF Sealing THEN seal' = NoSegment /\ UNCHANGED sap
       ELSE UNCHANGED <<sap, seal>>
    /\ pc' = (IF role = "import" THEN "exit" ELSE "idle") /\ after' = "none"
Unseal ==
    /\ IF Sealing THEN sap' = seal /\ seal' = NoSegment
       ELSE UNCHANGED <<sap, seal>>
    /\ pc' = (IF role = "import" THEN "exit" ELSE "idle") /\ after' = "none"

FrameFails ==
    /\ pc = "frame" /\ "trunk" \in env.faults
    /\ Unseal
    /\ UNCHANGED <<trunk, trunkSynced, rings, ringsSynced, hdrSeq, declared,
                   memory, history>>

RecordFails ==
    /\ pc = "record" /\ "rings" \in env.faults
    /\ staged = NotStaged
    /\ nextSeq' = nextSeq + 1
    /\ Unseal
    /\ UNCHANGED <<trunk, trunkSynced, rings, ringsSynced, hdrSeq, declared,
                   role, chunks, bufStart, lo, hi, wal, walHi, staged, history>>

HardenFails ==
    /\ pc = "harden" /\ "sync" \in env.faults
    /\ Unseal
    /\ UNCHANGED <<trunk, trunkSynced, rings, ringsSynced, hdrSeq, declared,
                   memory, history>>

------------------------------------------------------------------------------
\* Atomic delivery (import --records): stage() fixes the baseline ...
Stage ==
    /\ pc = "stage" /\ pc' = "staged" /\ UNCHANGED after
    /\ staged' = Len(chunks)
    /\ UNCHANGED <<disk, role, chunks, bufStart, lo, hi, wal, walHi, nextSeq, history>>

\* ... commit_stage flushes what is left, writes the held records one by one,
\* and syncs both files ...
Commit ==
    /\ pc = "staged"
    /\ CallFlush("publish")
    /\ UNCHANGED <<disk, memory, history>>

CommitRecord ==
    /\ pc = "publish" /\ UNCHANGED <<pc, after>>
    /\ Len(rings) < Len(chunks)
    /\ rings' = Append(rings, chunks[Len(rings) + 1])
    /\ UNCHANGED <<trunk, trunkSynced, ringsSynced, hdrSeq, sap, seal, declared,
                   memory, history>>

CommitSync ==
    /\ pc = "publish" /\ Goto("exit")
    /\ Len(rings) = Len(chunks)
    /\ SyncPair
    /\ acked' = hi
    /\ staged' = NotStaged
    /\ UNCHANGED <<trunk, rings, hdrSeq, sap, seal, declared,
                   role, chunks, bufStart, lo, hi, wal, walHi, nextSeq, env, head>>

\* ... and abort_stage cuts the trunk back and forgets the held records.
Abort ==
    /\ pc = "staged" /\ Goto("exit")
    /\ trunk' = SubSeq(trunk, 1, staged)
    /\ trunkSynced' = Least(trunkSynced, staged)
    /\ chunks' = SubSeq(chunks, 1, staged)
    /\ bufStart' = IndexedEnd(chunks')
    /\ lo' = TapeEnd(staged) /\ hi' = TapeEnd(staged)
    /\ staged' = NotStaged
    /\ UNCHANGED <<rings, ringsSynced, hdrSeq, sap, seal, declared,
                   role, wal, walHi, nextSeq, history>>

\* The import process ends.
Exit ==
    /\ pc = "exit"
    /\ Forget
    /\ UNCHANGED <<disk, history>>

------------------------------------------------------------------------------
\* `timberfs set wal=...' edits the manifest under a running writer ...
SetWal ==
    /\ (IF declared THEN "wal_off" ELSE "wal_on") \in env.operations
    /\ declared' = ~declared
    /\ UNCHANGED <<trunk, trunkSynced, rings, ringsSynced, hdrSeq, sap, seal,
                   pc, after, memory, history>>

\* ... and its maintenance tick applies it (sync_wal_declaration): on flushes
\* first, so that the segment starts with a chunk; off deletes the segment.
ApplyWalOn ==
    /\ pc = "idle" /\ declared /\ ~wal
    /\ CallFlush("start_wal")
    /\ UNCHANGED <<disk, memory, history>>

StartWal ==
    /\ pc = "start_wal" /\ Goto("idle")
    /\ sap' = FreshSegment(CompSize, bufStart, hi)
    /\ wal' = TRUE
    /\ walHi' = hi
    /\ UNCHANGED <<trunk, trunkSynced, rings, ringsSynced, hdrSeq, seal, declared,
                   role, chunks, bufStart, lo, hi, nextSeq, staged, history>>

ApplyWalOff ==
    /\ pc = "idle" /\ ~declared /\ wal
    /\ wal' = FALSE
    /\ sap' = NoSegment
    /\ UNCHANGED <<trunk, trunkSynced, rings, ringsSynced, hdrSeq, seal, declared,
                   pc, after, role, chunks, bufStart, lo, hi, walHi, nextSeq, staged,
                   history>>

------------------------------------------------------------------------------
\* refresh_base, where there is a segment to refresh.
RebaseNextNever == pc' = "idle" /\ UNCHANGED after
RebaseNext == pc' = (IF wal THEN "rebase" ELSE "idle") /\ UNCHANGED after

Rebase ==
    /\ pc = "rebase" /\ Goto("idle")
    /\ LET h == Greatest(lo, sap.hi) IN
       sap' = [sap EXCEPT !.base = CompSize, !.ubase = bufStart,
                          !.lo = lo, !.hi = h, !.syn = h]
    /\ UNCHANGED <<trunk, trunkSynced, rings, ringsSynced, hdrSeq, seal, declared,
                   memory, history>>

\* The refresh fails, a warning is printed, and the stale bases stay.
RebaseFails ==
    /\ pc = "rebase" /\ "rebase" \in env.faults /\ Goto("idle")
    /\ UNCHANGED <<disk, memory, history>>

\* A head drop cuts the first k chunks, by rewriting the pair (remove_head) or
\* in place (collapse_head).  Its own crash windows are module HeadDrop's; here
\* the cut is one step, and the segment's bases are refreshed after it.
DropHead(k, rewrite) ==
    LET cut == chunks[k].start + chunks[k].len
        kept == [i \in 1 .. Len(chunks) - k |->
                    [chunks[i + k] EXCEPT !.start = @ - cut]]
    IN
    /\ pc = "idle" /\ "drop" \in env.operations
    /\ RebaseNext
    /\ trunk' = SubSeq(trunk, k + 1, IF rewrite THEN CompSize ELSE Len(trunk))
    /\ trunkSynced' = IF rewrite THEN CompSize - k ELSE Greatest(0, trunkSynced - k)
    /\ rings' = kept /\ ringsSynced' = Len(kept)
    /\ chunks' = kept
    /\ hdrSeq' = nextSeq
    /\ bufStart' = bufStart - cut
    /\ head' = trunk[k].hi
    /\ numbered' = Greatest(numbered, nextSeq)
    /\ UNCHANGED <<sap, seal, declared, role, lo, hi, wal, walHi, nextSeq, staged, env, acked>>

\* append_wire_frame: after a flush, a frame that came compressed off a wire
\* is written past the buffer, synced, and the segment's bases refreshed.
Adopt ==
    /\ pc = "idle" /\ "adopt" \in env.operations
    /\ hi < MaxTape
    /\ CallFlush("adopt")
    /\ UNCHANGED <<disk, memory, history>>

AdoptFrame ==
    /\ pc = "adopt" /\ Goto("adopt_record")
    /\ nextSeq < MaxSeq
    /\ WriteFrame([lo |-> hi, hi |-> hi + 1])
    /\ UNCHANGED <<rings, ringsSynced, hdrSeq, sap, seal, declared, memory, history>>

AdoptRecord ==
    /\ pc = "adopt_record" /\ Goto("adopt_sync")
    /\ WriteRecord(NextRecord(1))
    /\ chunks' = Append(chunks, NextRecord(1))
    /\ bufStart' = bufStart + 1
    /\ nextSeq' = nextSeq + 1
    /\ lo' = hi + 1 /\ hi' = hi + 1
    /\ walHi' = hi + 1
    /\ UNCHANGED <<trunk, trunkSynced, hdrSeq, sap, seal, declared,
                   role, wal, staged, history>>

AdoptSync ==
    /\ pc = "adopt_sync" /\ RebaseNext
    /\ SyncPair
    /\ acked' = hi
    /\ UNCHANGED <<trunk, rings, hdrSeq, sap, seal, declared, memory, env, head>>

\* reset(), a truncation to zero through the mount: both files are emptied,
\* the header keeping its next_seq, and then the segment.
Reset ==
    /\ pc = "idle" /\ "reset" \in env.operations
    /\ pc' = (IF wal THEN "reset" ELSE "idle") /\ UNCHANGED after
    /\ trunk' = <<>> /\ trunkSynced' = 0
    /\ rings' = <<>> /\ ringsSynced' = 0
    /\ chunks' = <<>> /\ bufStart' = 0
    /\ lo' = hi
    /\ seal' = NoSegment
    /\ head' = IF wal THEN lo ELSE hi
    /\ UNCHANGED <<hdrSeq, sap, declared, role, hi, wal, walHi, nextSeq, staged,
                   env, acked, numbered>>

ResetSegment ==
    /\ pc = "reset" /\ Goto("idle")
    /\ sap' = FreshSegment(0, 0, hi)
    /\ walHi' = hi
    /\ head' = hi
    /\ UNCHANGED <<trunk, trunkSynced, rings, ringsSynced, hdrSeq, seal, declared,
                   role, chunks, bufStart, lo, hi, wal, nextSeq, staged,
                   env, acked, numbered>>

------------------------------------------------------------------------------
\* The process dies: what it had not handed to the kernel is gone.
Crash ==
    /\ "process" \in env.crashes
    /\ pc # "down"
    /\ Forget
    /\ UNCHANGED <<disk, history>>

\* The machine dies: unsynced appends are cut back, each file on its own.
LosePower ==
    /\ "power" \in env.crashes
    /\ Forget
    /\ trunkSynced' \in trunkSynced .. Len(trunk)
    /\ trunk' = SubSeq(trunk, 1, trunkSynced')
    /\ ringsSynced' \in ringsSynced .. Len(rings)
    /\ rings' = SubSeq(rings, 1, ringsSynced')
    /\ \E h \in sap.syn .. sap.hi : sap' = [sap EXCEPT !.hi = h, !.syn = h]
    /\ UNCHANGED <<hdrSeq, seal, declared, history>>

------------------------------------------------------------------------------
Open == \/ \E r \in Programs : OpenIndex(r)
        \/ DiscardSeal \/ ReplaySeal
        \/ ReplayFrame \/ ReplayRecord \/ ReplaySync \/ ReplayUnlink
        \/ OpenLive

Flush == \/ FlushBegin \/ FlushFrame \/ FlushRecord
         \/ FlushHarden \/ FlushSwap \/ FlushUnlink
         \/ FrameFails \/ RecordFails \/ HardenFails

Import == \/ Stage \/ Commit \/ CommitRecord \/ CommitSync
          \/ Abort \/ Exit

Write == \/ AppendEntry
         \/ FlushAged \/ Sync \/ SyncFiles \/ SapFlush \/ SapSync
         \/ ApplyWalOn \/ StartWal \/ ApplyWalOff

Reshape == \/ \E k \in 1 .. Len(chunks), rewrite \in BOOLEAN : DropHead(k, rewrite)
           \/ Rebase \/ RebaseFails
           \/ Adopt \/ AdoptFrame \/ AdoptRecord \/ AdoptSync
           \/ Reset \/ ResetSegment

Fail == Crash \/ LosePower

Next == Open \/ Flush \/ Import \/ Write \/ Reshape \/ SetWal \/ Fail

Spec == Init /\ [][Next]_vars

\* A method that was called runs to its end, and the maintenance thread, which
\* ticks for ever, gets the store's mutex again and again.
FairSpec ==
    /\ Spec
    /\ WF_vars(Open) /\ WF_vars(Flush)
    /\ WF_vars(SyncFiles) /\ WF_vars(Rebase) /\ WF_vars(StartWal)
    /\ SF_vars(FlushAged) /\ SF_vars(ApplyWalOn) /\ SF_vars(ApplyWalOff)

------------------------------------------------------------------------------
\* The variables have the types the code gives them.
Labels == {"down", "open_seal", "replay_frame", "replay_record", "replay_sync",
           "replay_unlink", "open_live", "idle", "sync",
           "flush", "frame", "record", "harden", "swap", "unlink",
           "stage", "staged", "publish", "exit",
           "start_wal", "rebase", "adopt", "adopt_record", "adopt_sync", "reset"}

Returns == {"none", "idle", "staged", "sync", "publish", "start_wal", "adopt"}

TypeOK ==
    /\ trunk \in Seq(Frame) /\ trunkSynced \in Nat
    /\ rings \in Seq(ChunkRecord) /\ ringsSynced \in Nat
    /\ hdrSeq \in Nat
    /\ sap \in Segment /\ seal \in Segment
    /\ declared \in BOOLEAN
    /\ pc \in Labels /\ after \in Returns
    /\ role \in Programs \cup {"none"}
    /\ chunks \in Seq(ChunkRecord) /\ bufStart \in Nat
    /\ lo \in Nat /\ hi \in Nat
    /\ wal \in BOOLEAN /\ walHi \in Nat
    /\ nextSeq \in Nat
    /\ staged \in Nat \cup {NotStaged}
    /\ env \in Environments
    /\ head \in Nat /\ acked \in Nat /\ numbered \in Nat

\* What a reader of the store's memory gets is the tape from its head, each
\* entry once and in order: the frames the index names follow one another, the
\* index measures them right, and the buffer begins where they end.  A replay
\* of a seal that landed, or of a segment already flushed, would break it.
TapeIntact ==
    pc \notin {"down", "reset"} =>
        /\ CompSize <= Len(trunk)
        /\ \A i \in 1 .. CompSize :
              /\ trunk[i].lo = TapeEnd(i - 1)
              /\ trunk[i].hi = trunk[i].lo + chunks[i].len
              /\ chunks[i].start = trunk[i].lo - head
        /\ lo = TapeEnd(CompSize)
        /\ bufStart = lo - head

\* docs/design.md: "the sap and the in-memory buffer hold the same bytes, by
\* construction", at the coordinates of the chunk they will become.
SapMirrorsBuffer ==
    (pc \in {"idle", "flush"} /\ Sealing) =>
        /\ sap.there
        /\ sap.lo = lo /\ sap.hi <= walHi /\ walHi = hi
        /\ sap.base = CompSize /\ sap.ubase = bufStart

\* The comparison of a seal's base with the trunk's compressed size, which is
\* all recovery has, tells a flush that landed from one that did not.
SealTellsTruth ==
    (pc = "open_seal" /\ seal.there /\ seal.lo < seal.hi) =>
        (seal.base < CompSize <=> seal.hi <= lo)

\* Whatever was reported durable is in the store when it is open again.
AckedSurvives ==
    pc \in {"idle", "stage"} => acked <= hi

\* Chunk numbers are dense (docs/concepts.md): consecutive chunks have
\* consecutive numbers, and the next one continues them.
NumbersDense ==
    (pc = "idle" /\ chunks # <<>>) =>
        \A i \in 1 .. CompSize :
            chunks[i].seq + 1 = (IF i = CompSize THEN nextSeq ELSE chunks[i + 1].seq)

\* A number that named a durable chunk never names another, through crashes
\* and through drops that empty the store.
NumbersNotReused == pc # "down" => numbered <= nextSeq

\* A chunk durable in both files keeps its entries and its number until a head
\* drop passes it: no orphan overwrite, replay, abort or crash touches it.
DurableChunks ==
    {[lo |-> trunk[i].lo, hi |-> trunk[i].hi, seq |-> rings[i].seq] :
        i \in 1 .. Least(trunkSynced, ringsSynced)}

ChunksAreKept ==
    [][\A c \in DurableChunks : c.lo >= head' => c \in DurableChunks']_vars

\* docs/timberfs.1: "Delivery is ATOMIC": an import publishes all of its chunks
\* or none, whatever interrupts it.
DeliveryIsAtomic ==
    [][(pc = "publish" /\ pc' = "down") => Len(rings) \in {staged, Len(chunks)}]_vars

\* When failures stop, a dead writer's store comes up, whatever the crash left.
Reopens == <>[][~Fail]_vars => (pc = "down" ~> pc = "idle")

\* When failures stop, whatever is buffered becomes a chunk, and the seal of
\* the flush does not outlive it.
BufferLands == <>[][~Fail]_vars => (lo < hi ~> lo = hi /\ ~seal.there)

\* `timberfs set wal=...' takes effect under a running writer, without a
\* restart, once it is left alone.
WalFollowsManifest == <>[][~(Fail \/ SetWal)]_vars => <>[](wal = declared)
==============================================================================
