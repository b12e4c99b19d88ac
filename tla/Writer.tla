------------------------------- MODULE Writer -------------------------------
(***************************************************************************)
(* A process that writes what it reads: `timberfs append' (src/src/        *)
(* append.rs: cmd_append, spawn_maintenance) and the two sinks of a record *)
(* stream (src/src/sink.rs: cmd_records_sink; src/src/records.rs), with    *)
(* the extension of the token index (src/src/grain.rs: extend_grain).      *)
(*                                                                         *)
(* Two threads: the main one reads and appends, and closes the store at    *)
(* the end of its input; the maintenance thread flushes, drops and indexes *)
(* once a second, and ends the process when it is told to stop (a sink) or *)
(* its binary is replaced.  The store's mutex is not held to index.        *)
(***************************************************************************)
EXTENDS Integers, Sequences, SequencesExt, FiniteSetsExt

CONSTANTS
    ChunkFills,     \* entries that fill a chunk
    MaxDrops,       \* bounds: retention's drops, and kills
    MaxFalls,
    Writings

\* command: append, streaming (append --records), atomic (import --records).  feed: what
\* the producer writes; an append's is entries only.  happens: its pipe fails ("broken");
\* the process is told to stop, upgraded or killed ("signal", "upgrade", "kill") and run
\* again; the index is declared ("indexed"), retention drops ("drops"); the main thread
\* takes an entry while the other leaves ("meanwhile"), closes the store while the other
\* indexes ("beside").
Writing ==
    [command : {"append", "streaming", "atomic"}, feed : Seq({"entry", "end"}),
     happens : SUBSET {"broken", "signal", "upgrade", "kill", "indexed", "drops", "meanwhile", "beside"}]
Threads == {"main", "maint"}

ASSUME WriterAssumption ==
    /\ ChunkFills \in Nat \ {0} /\ {MaxDrops, MaxFalls} \subseteq Nat
    /\ \A w \in Writings : w \in Writing

VARIABLES
    writing,
    offered,    \* records of the feed that are written
    closed,     \* no, eof, error
    reads,      \* records the main thread has read
    complete,   \* a stream's end was among them
    filled,     \* all chunks there ever were: sequences of entries, 0 for what was there before
    baseline,   \* chunks when staging began, -1 without
    expired,   \* chunks retention took
    pending,    \* the buffer
    filters,    \* .grain: [ino, pages], the chunk each is of, 0 for a hole; ino 0 for none
    commit,     \* .grain-commit: [ino, count]
    inodeCount,
    mpc,        \* main: reads, appends, joins, finishes, retains, indexes, out
    result,     \* what it will exit with
    stop,       \* it tells the other to end
    signalled, upgraded,
    wpc,        \* maintenance: sleeps, flushes, retains, counts, extends, leaves, indexes, gone
    indexed,    \* chunks it has indexed, and is about to have
    ext,        \* per thread, its extend_grain: [at, ino, known, end, todo]
    manifest,   \* none, declared, derived, told
    falls, spilt,   \* kills, and history: entries that were buffered then
    exit        \* none, ok, failed, stopped, upgraded, killed

writerVars ==
    <<writing, offered, closed, reads, complete, filled, baseline, expired, pending, filters,
      commit, inodeCount, mpc, result, stop, signalled, upgraded, wpc, indexed, ext, manifest, falls,
      spilt, exit>>
feedVars == <<writing, offered, closed>>
mainVars == <<reads, complete, mpc, result, stop>>
chunkVars == <<filled, baseline, expired, pending>>
grainVars == <<filters, commit, inodeCount>>
maintVars == <<wpc, indexed>>
toldVars == <<signalled, upgraded>>
endVars == <<falls, spilt, exit>>

------------------------------------------------------------------------------
Perhaps(what) == what \in writing.happens
Is(command) == writing.command = command
Alive == mpc # "out"

\* The store: the chunks that have a record, by number.
Recorded == IF baseline >= 0 THEN baseline ELSE Len(filled)
Remaining == [i \in 1 .. Recorded - expired |-> expired + i]
WithPending == IF pending = <<>> THEN filled ELSE Append(filled, pending)
FlushPending == filled' = WithPending /\ pending' = <<>> /\ UNCHANGED <<baseline, expired>>

------------------------------------------------------------------------------
\* The token index.  A commit holds for the file it was made of, and may lag it.
NoFilters == [ino |-> 0, pages |-> <<>>]
NoCommit == [ino |-> 0, count |-> 0]
CommitHolds == commit.ino # 0 /\ commit.ino = filters.ino /\ commit.count <= Len(filters.pages)
TailOf == IF CommitHolds THEN commit.count ELSE Len(filters.pages)
Idle == [at |-> "none", ino |-> 0, known |-> FALSE, end |-> 0, todo |-> <<>>]
Opens == IF Perhaps("indexed") THEN [Idle EXCEPT !.at = "opens"] ELSE [Idle EXCEPT !.at = "done"]

\* extend_grain, in the thread t: the file and what it covers, and the chunks it does not;
OpenFilters(t) ==
    /\ ext[t].at = "opens"
    /\ ext' = [ext EXCEPT ![t] =
         IF filters.ino = 0 \/ TailOf > Len(Remaining)
         THEN [Idle EXCEPT !.at = "builds", !.todo = Remaining]
         ELSE [at |-> "cuts", ino |-> filters.ino, known |-> CommitHolds, end |-> TailOf,
               todo |-> SubSeq(Remaining, TailOf + 1, Len(Remaining))]]
    /\ UNCHANGED grainVars

\* what is past that goes;
CutFilters(t) ==
    /\ ext[t].at = "cuts"
    /\ filters' = IF filters.ino = ext[t].ino
                  THEN [filters EXCEPT !.pages = SubSeq(@, 1, Min({Len(@), ext[t].end}))] ELSE filters
    /\ ext' = [ext EXCEPT ![t].at = IF ext[t].todo # <<>> THEN "writes"
                                    ELSE IF ext[t].known THEN "done" ELSE "commits"]
    /\ UNCHANGED <<commit, inodeCount>>

\* one page after the other, each at its offset; to a file that was replaced, for nothing;
PutAt(pages, i, id) ==
    [j \in 1 .. Max({i, Len(pages)}) |-> IF j = i THEN id ELSE IF j <= Len(pages) THEN pages[j] ELSE 0]
WritePage(t) ==
    /\ ext[t].at = "writes"
    /\ filters' = IF filters.ino = ext[t].ino
                  THEN [filters EXCEPT !.pages = PutAt(@, ext[t].end + 1, Head(ext[t].todo))] ELSE filters
    /\ ext' = [ext EXCEPT ![t].end = @ + 1, ![t].todo = Tail(@),
                          ![t].at = IF Len(ext[t].todo) = 1 THEN "commits" ELSE "writes"]
    /\ UNCHANGED <<commit, inodeCount>>

\* and where it ends.
CommitFilters(t) ==
    /\ ext[t].at = "commits"
    /\ commit' = [ino |-> ext[t].ino, count |-> ext[t].end]
    /\ ext' = [ext EXCEPT ![t].at = "done"]
    /\ UNCHANGED <<filters, inodeCount>>

\* build_grain: the whole index, put in place by a rename.
BuildFilters(t) ==
    /\ ext[t].at = "builds"
    /\ inodeCount' = inodeCount + 1
    /\ filters' = [ino |-> inodeCount', pages |-> ext[t].todo]
    /\ commit' = [ino |-> inodeCount', count |-> Len(ext[t].todo)]
    /\ ext' = [ext EXCEPT ![t].at = "done"]

Extend(t) ==
    /\ Alive
    /\ OpenFilters(t) \/ CutFilters(t) \/ WritePage(t) \/ CommitFilters(t) \/ BuildFilters(t)
    /\ UNCHANGED <<feedVars, mainVars, chunkVars, maintVars, toldVars, manifest, endVars>>
Extended(t) == ext[t].at = "done"
Extending(t) == ext[t].at \notin {"none", "opens", "done"}
Alone(t) == (\E u \in Threads \ {t} : Extending(u)) => Perhaps("beside")

\* enforce_retention: a head of the chunks goes, and with it its filters; what is left of
\* them, always less than a block here, is written anew.
RetainHead(k) ==
    /\ expired' = expired + k /\ UNCHANGED <<filled, baseline, pending>>
    /\ IF k = 0 \/ filters.ino = 0 THEN UNCHANGED grainVars
       ELSE IF Len(filters.pages) < k
       THEN filters' = NoFilters /\ commit' = NoCommit /\ UNCHANGED inodeCount
       ELSE LET committed == CommitHolds /\ commit.count >= k
                end == IF committed THEN commit.count ELSE Len(filters.pages)
            IN  /\ inodeCount' = inodeCount + 1
                /\ filters' = [ino |-> inodeCount', pages |-> SubSeq(filters.pages, k + 1, end)]
                /\ commit' = IF committed THEN [ino |-> inodeCount', count |-> end - k] ELSE NoCommit
Droppable ==
    {0} \cup (IF Perhaps("drops") /\ expired < MaxDrops /\ Remaining # <<>> THEN {1} ELSE {})

------------------------------------------------------------------------------
\* A store with a chunk, indexed as far as it is declared to be.
WriterInit ==
    /\ writing \in Writings /\ offered = 0 /\ closed = "no"
    /\ reads = 0 /\ complete = FALSE /\ mpc = "reads" /\ result = "none" /\ stop = FALSE
    /\ filled = <<<<0>>>> /\ expired = 0 /\ pending = <<>>
    /\ baseline = IF Is("atomic") THEN 1 ELSE -1
    /\ filters = IF Perhaps("indexed") THEN [ino |-> 1, pages |-> <<1>>] ELSE NoFilters
    /\ commit = NoCommit /\ inodeCount = 1
    /\ signalled = FALSE /\ upgraded = FALSE
    /\ wpc = IF Is("atomic") THEN "gone" ELSE "sleeps"
    /\ indexed = IF Is("append") THEN <<1, 1>> ELSE <<0, 0>>
    /\ ext = [t \in Threads |-> Idle]
    /\ manifest \in IF Perhaps("indexed") THEN {"declared"} ELSE {"none", "declared"}
    /\ falls = 0 /\ spilt = {} /\ exit = "none"

\* The producer, and who tells the process to go.
ProducerWrites ==
    /\ closed = "no" /\ offered < Len(writing.feed) /\ offered' = offered + 1
    /\ UNCHANGED <<writing, closed, mainVars, chunkVars, grainVars, toldVars, maintVars, ext,
                   manifest, endVars>>
Close ==
    /\ closed = "no"
    /\ closed' \in {"eof"} \cup (IF Perhaps("broken") THEN {"error"} ELSE {})
    /\ UNCHANGED <<writing, offered, mainVars, chunkVars, grainVars, toldVars, maintVars, ext,
                   manifest, endVars>>
AskedToGo ==
    /\ Alive /\ ~Is("atomic")
    /\ \/ Perhaps("signal") /\ ~signalled /\ signalled' = TRUE /\ UNCHANGED upgraded
       \/ Perhaps("upgrade") /\ ~upgraded /\ upgraded' = TRUE /\ UNCHANGED signalled
    /\ UNCHANGED <<feedVars, mainVars, chunkVars, grainVars, maintVars, ext, manifest, endVars>>

------------------------------------------------------------------------------
\* The main thread: a record; an entry goes to the store, under its mutex.
Leaving == wpc = "indexes"
ReadRecord ==
    /\ mpc = "reads" /\ reads < offered /\ reads' = reads + 1
    /\ Leaving => Perhaps("meanwhile")
    /\ complete' = (complete \/ writing.feed[reads'] = "end")
    /\ mpc' = IF writing.feed[reads'] = "entry" THEN "appends" ELSE "reads"
    /\ UNCHANGED <<feedVars, result, stop, chunkVars, grainVars, maintVars, toldVars, ext,
                   manifest, endVars>>

AppendEntry ==
    /\ mpc = "appends" /\ mpc' = "reads"
    /\ LET full == Len(pending) + 1 = ChunkFills
       IN  /\ pending' = IF full THEN <<>> ELSE Append(pending, reads)
           /\ filled' = IF full THEN Append(filled, Append(pending, reads)) ELSE filled
    /\ UNCHANGED <<feedVars, reads, complete, result, stop, baseline, expired, grainVars,
                   maintVars, toldVars, ext, manifest, endVars>>

\* The end of its input: without a stream's end, a failure.  A sink has the other end first.
EndOfInput == closed = "eof"
WellEnded == closed = "eof" /\ (Is("append") \/ complete)
AfterReading == IF Is("append") THEN "finishes" ELSE "joins"
ReadEnd ==
    /\ mpc = "reads" /\ reads = offered /\ closed # "no"
    /\ result' = IF WellEnded THEN "ok" ELSE "failed"
    /\ mpc' = AfterReading /\ stop' = ~Is("append")
    /\ UNCHANGED <<feedVars, reads, complete, chunkVars, grainVars, maintVars, toldVars, ext,
                   manifest, endVars>>

\* An append heeds a signal between two reads.
HeedSignal ==
    /\ mpc = "reads" /\ Is("append") /\ signalled
    /\ result' = "ok" /\ mpc' = "finishes"
    /\ UNCHANGED <<feedVars, reads, complete, stop, chunkVars, grainVars, maintVars, toldVars,
                   ext, manifest, endVars>>

Join ==
    /\ mpc = "joins" /\ wpc = "gone" /\ mpc' = "finishes"
    /\ UNCHANGED <<feedVars, reads, complete, result, stop, chunkVars, grainVars, maintVars,
                   toldVars, ext, manifest, endVars>>

\* The last flush, or the commit of what was staged, or its end.
FinishStore ==
    /\ mpc = "finishes" /\ ~(Is("atomic") /\ result = "failed")
    /\ filled' = WithPending /\ pending' = <<>> /\ baseline' = -1 /\ UNCHANGED expired
    /\ manifest' = IF ~Is("append") /\ result = "ok" THEN "told" ELSE manifest
    /\ mpc' = IF result = "ok" THEN "retains" ELSE "indexes"
    /\ ext' = [ext EXCEPT !["main"] = Opens]
    /\ UNCHANGED <<feedVars, reads, complete, result, stop, grainVars, maintVars, toldVars, endVars>>

AbortStage ==
    /\ mpc = "finishes" /\ Is("atomic") /\ result = "failed"
    /\ filled' = SubSeq(filled, 1, baseline) /\ pending' = <<>> /\ baseline' = -1
    /\ mpc' = "out" /\ exit' = "failed"
    /\ UNCHANGED <<feedVars, reads, complete, result, stop, expired, grainVars, maintVars,
                   toldVars, ext, manifest, falls, spilt>>

RetainAtEnd ==
    /\ mpc = "retains" /\ Alone("main")
    /\ \E k \in Droppable : RetainHead(k)
    /\ mpc' = "indexes"
    /\ UNCHANGED <<feedVars, reads, complete, result, stop, maintVars, toldVars, ext, manifest, endVars>>

IndexAtEnd == mpc = "indexes" /\ Alone("main") /\ Extend("main")

Leave ==
    /\ mpc = "indexes" /\ Extended("main")
    /\ mpc' = "out" /\ exit' = result
    /\ UNCHANGED <<feedVars, reads, complete, result, stop, chunkVars, grainVars, maintVars,
                   toldVars, ext, manifest, falls, spilt>>

MainStep ==
    \/ ReadRecord \/ AppendEntry \/ ReadEnd \/ HeedSignal \/ Join \/ FinishStore \/ AbortStage
    \/ RetainAtEnd \/ IndexAtEnd \/ Leave

------------------------------------------------------------------------------
\* The maintenance thread.
Graceful == upgraded \/ (signalled /\ ~Is("append"))
Goes(to) == wpc' = to /\ UNCHANGED indexed
Wake ==
    /\ Alive /\ wpc = "sleeps"
    /\ \/ Graceful /\ Goes("leaves")
       \/ stop /\ Goes("gone")
       \/ ~Graceful /\ ~stop /\ Goes("flushes")
    /\ UNCHANGED <<feedVars, mainVars, chunkVars, grainVars, toldVars, ext, manifest, endVars>>

FlushTick ==
    /\ Alive /\ wpc = "flushes" /\ Goes("retains")
    /\ FlushPending \/ UNCHANGED chunkVars
    /\ UNCHANGED <<feedVars, mainVars, grainVars, toldVars, ext, manifest, endVars>>

RetainTick ==
    /\ Alive /\ wpc = "retains" /\ Alone("maint") /\ Goes("counts")
    /\ \E k \in Droppable : RetainHead(k)
    /\ UNCHANGED <<feedVars, mainVars, toldVars, ext, manifest, endVars>>

\* It indexes when the number of chunks has changed.
CountTick ==
    /\ Alive /\ wpc = "counts"
    /\ LET n == Len(Remaining)
           extends == n # indexed[1] /\ Perhaps("indexed")
       IN  /\ wpc' = IF extends THEN "extends" ELSE "sleeps"
           /\ indexed' = IF extends THEN <<indexed[1], n>> ELSE indexed
           /\ ext' = IF extends THEN [ext EXCEPT !["maint"] = Opens] ELSE ext
    /\ UNCHANGED <<feedVars, mainVars, chunkVars, grainVars, toldVars, manifest, endVars>>

IndexTick == wpc = "extends" /\ Alone("maint") /\ Extend("maint")
IndexedTick ==
    /\ Alive /\ wpc = "extends" /\ Extended("maint")
    /\ wpc' = "sleeps" /\ indexed' = <<indexed[2], indexed[2]>>
    /\ ext' = [ext EXCEPT !["maint"] = Idle]
    /\ UNCHANGED <<feedVars, mainVars, chunkVars, grainVars, toldVars, manifest, endVars>>

\* It ends the process: what is buffered is flushed, then indexed, and the main thread
\* is left where it is.
LastFlush ==
    /\ Alive /\ wpc = "leaves" /\ Goes("indexes")
    /\ mpc = "appends" => Perhaps("meanwhile")
    /\ FlushPending /\ ext' = [ext EXCEPT !["maint"] = Opens]
    /\ UNCHANGED <<feedVars, mainVars, grainVars, toldVars, manifest, endVars>>

IndexLast == wpc = "indexes" /\ Alone("maint") /\ Extend("maint")
ExitProcess ==
    /\ Alive /\ wpc = "indexes" /\ Extended("maint")
    /\ mpc' = "out"
    /\ exit' = IF signalled /\ ~Is("append") THEN "stopped" ELSE "upgraded"
    /\ manifest' = IF manifest = "none" /\ ~Is("append") THEN "derived" ELSE manifest
    /\ UNCHANGED <<feedVars, reads, complete, result, stop, chunkVars, grainVars, maintVars,
                   toldVars, ext, falls, spilt>>

MaintStep ==
    \/ Wake \/ FlushTick \/ RetainTick \/ CountTick \/ IndexTick \/ IndexedTick \/ LastFlush
    \/ IndexLast \/ ExitProcess

------------------------------------------------------------------------------
\* A kill leaves what is recorded; a writer that is run again drops what is due and goes on
\* with the same pipe.
Kill ==
    /\ Alive /\ Perhaps("kill") /\ falls < MaxFalls /\ falls' = falls + 1
    /\ spilt' = spilt \cup ToSet(pending) \cup (IF mpc = "appends" THEN {reads} ELSE {})
    /\ filled' = SubSeq(filled, 1, Recorded) /\ pending' = <<>> /\ baseline' = -1
    /\ mpc' = "out" /\ exit' = "killed"
    /\ UNCHANGED <<feedVars, reads, complete, result, stop, expired, grainVars, maintVars,
                   toldVars, ext, manifest>>

RunAgain ==
    /\ exit = "killed" /\ Is("append") /\ exit' = "none" /\ mpc' = "reads"
    /\ result' = "none" /\ stop' = FALSE /\ signalled' = FALSE /\ upgraded' = FALSE
    /\ \E k \in Droppable : RetainHead(k)
    /\ wpc' = "sleeps" /\ indexed' = <<Len(Remaining'), Len(Remaining')>>
    /\ ext' = [t \in Threads |-> Idle]
    /\ UNCHANGED <<feedVars, reads, complete, manifest, falls, spilt>>

WriterNext == ProducerWrites \/ Close \/ AskedToGo \/ MainStep \/ MaintStep \/ Kill \/ RunAgain

WriterSpec == WriterInit /\ [][WriterNext]_writerVars

------------------------------------------------------------------------------
\* timberfs(1): "end of input, SIGTERM or SIGINT flush and sync everything before exit".
\* A process that has ended by itself has in its store, once and in order, every entry it
\* has read, but for those that a kill before took from its buffer.
Entries == [i \in 1 .. reads |-> i]
HasRead == SelectSeq(Entries, LAMBDA i : writing.feed[i] = "entry" /\ i \notin spilt)
EndedItself == exit \in {"ok", "failed", "stopped", "upgraded"}
TakenIsKept ==
    EndedItself /\ ~Is("atomic") => FlattenSeq(filled) = <<0>> \o HasRead

\* timberfs(1): "nothing is visible until the stream's stream-end arrives, and a truncated
\* stream leaves the store byte-for-byte unchanged"; timberfs-records(5): a stream without
\* its end is not presented as complete.
StreamEnded == reads > 0 /\ writing.feed[reads] = "end"
Visible == FlattenSeq(SubSeq(filled, 2, Recorded))
AllOrNothing ==
    /\ Is("atomic") => Visible = <<>> \/ (StreamEnded /\ Visible = HasRead)
    /\ Is("atomic") /\ exit = "ok" => Visible = HasRead
    /\ exit = "ok" /\ ~Is("append") => StreamEnded

\* grain.rs, false negatives are "the single answer a search index must never give": when
\* nobody is extending it, each page of the index is of the chunk at its place; and a
\* process that has ended by itself leaves no chunk without one.
Settled(t) == ~Extending(t) \/ ~Alive
FiltersAreTrue ==
    (\A t \in Threads : Settled(t)) =>
        \A i \in 1 .. Len(filters.pages) : filters.pages[i] = expired + i
FiltersCover ==
    EndedItself /\ Perhaps("indexed") /\ ~(Is("atomic") /\ exit = "failed")
        => Len(filters.pages) = Len(Remaining)

WriterLeavesWell == TakenIsKept /\ AllOrNothing /\ FiltersAreTrue /\ FiltersCover
=============================================================================
