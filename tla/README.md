# Verification of timberfs

TLA+ models of timberfs, model-checked with TLC, with theorems checked by
TLAPS. Source files are named by their base name (`store.rs` is
`src/src/store.rs`). `PROJECT.json` lists the components, the runs, the source
lines each definition stands for, the hazards with the properties that cover
them, the faulty variants, the findings and the theorems in machine-readable
form.

1. The system — 2. Modules — 3. Runs — 4. Where the code and its documents
disagree — 5. Theorems — 6. Not modelled — 7. Plan

## 1. The system

timberfs keeps a log as a *tape*: entries are appended at one end, retention
drops whole compressed chunks at the other, and nothing in between changes. A
store is a handful of files beside one another:

| file | what it holds |
|---|---|
| `.trunk` | zstd frames, one per chunk, one after the other |
| `.rings` | a header (next chunk number, totals of what was dropped) and one record per chunk: where its frame is, where its bytes sit on the tape, its write window, its number |
| `.sap`, `.sap.seal` | write-ahead segment of the buffer, and the sealed one of a flush in flight |
| `.grain`, `.grain-commit` | one token filter per chunk, by position; how many of them count |
| `.trim`, `.rings.tmp`, `.seq` | a collapse in progress: marker, staged index, and the counter readers look at |
| `.bark` | the manifest: declared settings, identity |
| `.lock`, `.timberfs.lock` | who may write the log, the directory |
| a follower's directory | its declaration, its positions, its lock |

### Components, their state, and what makes them correct

| component | source | state | operations | what must hold | module |
|---|---|---|---|---|---|
| Store, write path | `store.rs`, `sap.rs`, `format.rs` | buffer, chunk list, next number, live segment; the files above | open (with recovery), append, flush, age flush, sync, sap sync, stage/commit/abort, adopt a frame, reset, toggle write-ahead | each entry is held once and in order, whatever a crash or a failed call leaves; what was reported durable stays; numbers are never reused | `FileStore` |
| Store, head drop | `store.rs` | trunk inode, index, marker, counter | collapse (shift in place), rewrite (two renames), reconcile at open | survivors stay readable; the next open tells a landed cut from one that was not | `HeadDrop` |
| Standalone readers | `query.rs` | a loaded index, an open inode, a sampled counter, filters | open, select, read a chunk with retries | never another chunk's bytes; no chunk skipped because of a filter of another one | `HeadDrop` |
| Live tail | `live.rs`, `query.rs` | a segment's identity, how much of it was shown | open, poll, cut, roll; follow, resume | each entry once, the live edge included | `LiveTail` |
| Followers, feed | `feed.rs`, `ship.rs`, `cursor.rs`, `consumer.rs` | positions per store, what is in flight, taken, held | poll, send, take reports, drain, persist | at least once, in order; no position passes what was not handled; a holding consumer is not deadlocked | `Feed` |
| OTLP exporter | `timber_otlp.rs`, `otlp.rs` | pending entries per store, one request | batch, post, retry, report | reported means taken or refused for good; the right labels | `Exporter` |
| Query limits, paging, entry grouping | `limits.rs`, `query.rs`, `entry.rs` | a cursor, an open entry per store | page, group, stop at a bound | pages concatenate to the whole, and a walk ends | `Paging` |
| Selection by content | `grep.rs`, `grain.rs`, `timber_filter.rs`, `querydoc.rs` | predicates, chosen chunks, a pipe between two processes | prove terms, select, judge, stop | nothing that matches is left out in silence | `Selection` |
| File tail | `follow.rs`, `import.rs` | an open file, an offset, lines waiting for a time | start, resynchronise by content, drain, rotate, stop | the store is the log, each line once, over restarts | `FileTail` |
| Import | `import.rs`, `store.rs` | jobs, the overlap's lines, the stamper | order, resume, skip, merge, deduplicate | an import that is run again adds nothing | `Import` |
| Append writer, record sinks | `append.rs`, `sink.rs`, `records.rs` | two threads, flags, the index's commit | append, tick, close, leave for an upgrade | an ended writer has stored and indexed all it read | `Writer` |
| Native replication | `frames.rs`, `serve.rs`, `receive.rs` | a session, positions, wires | offer, send, apply, acknowledge, resume | a replica is the same tape with the same numbers | `Relay` |
| Locks, retention by hand, rotation | `store.rs`, `append.rs`, `rotate.rs` | directory and per-file locks, images of files | acquire, wait, hand over, trim, delete, rotate | one writer per store; nothing vanishes | `Directory` |
| FUSE mount | `fs.rs` | inode tables over the stores, the flusher's memory | write at EOF, truncate, rename, unlink, rotate by xattr | a handle keeps its log; filters belong to their chunks | `Mount` |
| Tally | `tally.rs` | open buckets, a watermark, a reported position | fold, seal, drain, re-derive after a death | a bucket says what its entries say | `Tally` |
| Network intakes | `intake.rs`, `forward.rs`, `otlp_intake.rs` | open stores, pending acks | receive, store, acknowledge, tick, stop | acknowledged implies durable; everyone is answered | `Intake` |
| Incus consoles | `incus_intake.rs`, `incus.rs` | taps, a ring, a websocket | list, subscribe, attach, empty the ring, follow | output is stored, in order, each piece once; who runs is tapped | `Console` |
| Follower registry, retention | `follower.rs`, `store.rs` | declarations, positions, budgets | create, update, delete, run; the tick | interest holds what is unread; a budget's loss is told | `Registry` |

How they meet: every writer (appender, mount, intake, import, replica) reaches
the disk through one `FileStore` per log, under the log's file lock and, inside
the process, under one mutex that a maintenance thread shares. Readers take no
lock at all: they look at the counter and retry. Followers read as readers do
and give back positions, which retention reads as a floor.

What is hard in it: a crash or a failed call between any two system calls of a
flush, a head drop or an open; a power loss that keeps a different part of each
file; a reader between any two steps of a head drop; two processes handing a
lock over while files are renamed under them; an index extended without the
mutex that guards the chunks; positions that must not run ahead of a consumer
that may die; sources that are rotated or read again and carry no position; and
settings that change under a running writer. These are the `hazards` of
`PROJECT.json`, each at its line.

## 2. Modules

One module is one component (or two halves of one), and `MC…` modules name the
environments it is checked under.

| module | what it is | composed with |
|---|---|---|
| `Tape` | the abstract contract of a store: append, harden, drop at the head, cut back at the tail | implemented by `FileStore` |
| `FileStore` | the write path of one store, one action per run of code between two points where the process may die | `FileStoreTape` maps it to `Tape` |
| `FileStore_proofs` | `FileStore`'s index and numbers; the tape in memory and on the disk, and what an open replays; what was reported survives; the refinement of `Tape` | extends `FileStoreTape` |
| `SequenceFacts` | lemmas about sequences the proofs share | extended by every proof module |
| `HeadDrop` | head drops of one writer, its recovery, and one reader in another process | |
| `HeadDrop_proofs` | inductive invariant and theorems of `HeadDrop` | extends it |
| `LiveTail` | a follow or a resuming read beside a writer with a segment | |
| `Feed` | the feed loop, a consumer, their pipe, the positions file, retention by it | |
| `Exporter` | `timber-otlp` and a receiver | extends `Feed`: it is one of its consumers |
| `Feed_proofs` | inductive invariant and theorems of `Feed` and `Exporter` | extends `Exporter` |
| `Paging` | a walk of pages over two stores | |
| `Selection` | a search over the token index with a second process that judges | |
| `FileTail` | a tail of a file that is written and rotated beside it | |
| `Import` | imports of overlapping sources, run again | |
| `Writer` | `append` and the record sinks, with their maintenance thread and index | |
| `Relay` | a sender, a connection, a receiver | |
| `Relay_proofs` | inductive invariants and theorems of `Relay` | extends it |
| `Directory` | processes that share one backing directory | |
| `Mount` | a mounted directory from the inside | extends `Directory`, which gives it its names |
| `Mount_proofs` | inductive invariants and theorems of `Directory` and of `Mount` | extends `Mount` |
| `Tally` | a tally run and the follower that feeds it | |
| `Intake` | the receiver core under Fluentd Forward and OTLP | |
| `Console` | the Incus taps as a third protocol | extends `Intake`: same core, same stores |
| `Intake_proofs` | inductive invariants and theorems of `Intake` under its three protocols, and of `Console` | extends `Console` |
| `Registry` | followers, their operator, the retention tick | |
| `Registry_proofs` | inductive invariants and theorems of `Registry` | extends it |

A store is at the grain its client needs: call by call in `FileStore` and
`HeadDrop`, whose results (`TapeIntact`, `AckedSurvives`, `SurvivorsReadable`)
let the other modules take a flush or a head drop as one step, each with the
ways it may fail.

**Environments.** In every module the behaviour's *environment* says which
operations, failures and helpers are in play: `Init` picks it out of a constant
set and nothing changes it. A run so checks several environments at once, and
says of each what it leaves out. An action a later reader may miss in one
environment is enabled in another; the environments of section 4, which the
passing runs leave out, are single triggers.

**Modules checked together.** `MCPaging`, `MCFileTail` and `MCDirectory` hold
components that have no state in common (a search is a walk or a selection; an
intake of files is a tail, an import or a writer; a directory is shared or
mounted). A behaviour is of one of them while the others rest in a fixed state;
this only saves runs.

**Faulty variants.** Next to some definitions stands a variant named after it
(`WriteFrame` and `WriteFrameAtEof`) with the change a plausible mistake would
make. `PROJECT.json` pairs each property of each passing run with a variant
under which the property fails, so that no property holds whatever the code
does.

### FileStore

State: the files (`trunk`, `rings`, `hdrSeq`, `sap`, `seal`, and for the first
two how much of them an fsync has made durable), the memory of whoever has the
store open (`chunks`, `bufStart`, the buffer as the run `lo .. hi-1`, `wal`,
`walHi`, `nextSeq`, `staged`), and `pc`, the system call the running method is
about to make. `after` is what the caller of `flush_chunk` does next: several
methods share that code. Three history variables say where the tape now begins
(`head`), what was reported durable (`acked`) and which numbers have named
durable chunks (`numbered`).

Entries are numbered by their position on the tape and have no contents; an
entry that is lost gives its position back. Each entry is one unit of
uncompressed length and each frame one unit of compressed length, so that
`base` and `comp_size` compare as frame counts, which is all the recovery asks
of them (frames of unequal length matter to a head drop, and are in `HeadDrop`).

| code | actions |
|---|---|
| `FileStore::open` | `OpenIndex`, `DiscardSeal`, `ReplaySeal`, `ReplayFrame`, `ReplayRecord`, `ReplaySync`, `ReplayUnlink`, `OpenLive` |
| `append_windowed` | `AppendEntry` |
| `flush_chunk`, `flush_aged` | `FlushAged`, `FlushBegin`, `FlushFrame`, `FlushRecord`, `FlushHarden`, `FlushSwap`, `FlushUnlink`; failures `FrameFails`, `RecordFails`, `HardenFails` |
| `sync`, `sap_flush`, `sap_sync` | `Sync`, `SyncFiles`, `SapFlush`, `SapSync` |
| `stage`, `commit_stage`, `abort_stage`, and the sink's end | `Stage`, `Commit`, `CommitRecord`, `CommitSync`, `Abort`, `Exit` |
| `timberfs set wal=…`, `sync_wal_declaration` | `SetWal`, `ApplyWalOn`, `StartWal`, `ApplyWalOff` |
| `remove_head`, `collapse_head` (effect on the write path) | `DropHead`, `Rebase`, `RebaseFails` |
| `append_wire_frame` | `Adopt`, `AdoptFrame`, `AdoptRecord`, `AdoptSync` |
| `reset` | `Reset`, `ResetSegment` |
| process death, power loss | `Crash`, `LosePower` |

Assumed of the file system: renames, unlinks, creations and truncations take
effect in order and survive a power loss; a power loss cuts the unsynced tail of
each appended file to some prefix, each file on its own; a call that fails has
no effect.

`Tape` allows four things: append an entry, make what is there durable, drop
from the head, cut back the tail but never below what is durable.
`FileStoreTape` maps a store to it: while a writer has the store open, the tape
is what its chunks and its buffer hold; while it is down or opening, it is what
the recovery will make of the files. `ImplementsTape` says every step of the
store is a step of the tape or none. A crash is then *exactly* one cut of the
tail, and an open changes nothing.

### HeadDrop

The trunk is a sequence of cells, the unit in which block size, frame lengths
and the skippable-frame header are measured; a cell names the chunk and the
byte of it that it holds, so a read at a wrong offset is visible. `inodes` keeps
every trunk inode, since a reader may hold one that was renamed away.
`Collapse…` actions follow `collapse_head` call by call (staged index, marker,
odd counter, shift, stamp, rename, filters, even counter, marker removal),
`Remove…` follow `remove_head`, `Open…` follow the writer's open with
`reconcile_trim`. The reader (`Read…`) follows `open_source`, `select_chunks`'
filter check and `read_chunk_raw`.

### LiveTail

The store's index and its segment are two places an entry may be seen in, and
the flush moves it from one to the other by several steps (`FlushSeal`,
`FlushLand`, `CreateSegment`, `WriteHeader`). Offsets are logical: a head drop
lowers them (`DropHead`, `RefreshBase`), and every step of a reader is one look
at the file system: `OpenSource` (the index), `ReadDropped` (the header, later),
`AttachTail` (the segment), `FollowChunk`/`FollowEdge` or
`SelectChunks`/`ReadChunk`/`EmitEdge`/`ReportPosition`. `shown` records each
entry with the address it was shown at.

### Feed and Exporter

`Poll` reads a batch over the stores that are not parked, `WriteEntry` puts its
entries into a pipe of bounded room, `ConsumeEntry` and `Say` are the consumer,
`DrainNow`, `WaitReport` and `WaitTimeout` take its reports and move `book`;
`saved` is the positions file, which `Retain` and `DieAndRestart` read.
`CloseStream` and `DrainToEnd` are the end of a one-shot, `SilenceLasts` the
passing of the time after which a silent consumer is given up. A consumer is
"plain" (handles one by one) or "holding" (takes entries and keeps its position
some way behind them until the stream ends), or it is the exporter: `ReadRecord` is its reader thread, `TakeSource`
and `TakeEntry` gather, `TryPost`, `Went`, `Answered`, `Failed`, `Settled` and
`BackOff` are one request, `Progress` reports.

### Paging and Selection

`Paging` reads two stores cell by cell: `AskPage` starts a page from the
caller's cursor, `OpenStore` and `ReadChunk` follow the forward read, with the
`EntrySink` of each store as a record folded over the cells, `DeadlinePasses` is
the time budget, `AnswerPage` the positions and the status a page ends with.
`Selection` holds the token arithmetic (which words of a predicate the index can
prove, including cut-off first and last words and case folding), the two
processes (`Produce`, `Judge`), and how the second learns that the first ended
(`EndOfStream`) or died (`EndOfFile`).

### FileTail, Import, Writer

`FileTail`: a file is a run of line numbers under an inode; `Rotate`,
`Recreate`, `Truncate`, `Reopen` happen beside the tail, which goes through
`Start`, `CatchUp`, `OpenLive`, `Poll`, `DrainLine`, `DrainEnd`, `FinishEnd` and
recognises by the content of the store's last lines what it has already
(`ResumeOffset`, `Resync`).
`Import`: sources are runs of one log's lines, alike or not, stamped or not;
`BeginImport` orders them, `PlacePlain`, `SkipSegment`, `MergeSegment` decide,
`FeedLine` deduplicates against the overlap, and an import may die anywhere.
`Writer`: the main thread (`ReadRecord`, `AppendEntry`, `HeedSignal`, `Join`,
`FinishStore`, `RetainAtEnd`, `Extend`) and the maintenance thread (`Wake`,
`FlushTick`, `RetainTick`, `CountTick`, `Extend`, `IndexedTick`, `LastFlush`,
`ExitProcess`) of one process, for the three commands; `extend_grain` is
`OpenFilters`, `CutFilters`, `BuildFilters`, `WritePage`, `CommitFilters`, a call
each, by either thread. Two more things can end it: `Kill` and the pipe
(`ProducerWrites`, `Close`).

### Relay

A chunk is its number and an epoch, so that a number given twice is visible.
The sender's steps are `Connect`, `Open`, `Answer`, `Serve`, `ReadPages`,
`Read`, `Write`, `Drain`, `Save`, `Linger`; the receiver's are per connection:
`Take` and `OpenStream`, `ApplyChunk`, `AdoptPage`, `Acknowledge`,
`CloseStream`, `EndConnection`. Channels of bounded room hold what is under way,
and a connection's ends learn of its end separately (`Notice`).

### Directory and Mount

`Directory`: files are inodes with names; a process holds the lock files it
opened, which may no longer be the ones of that name. Appenders, a trim, a
rotation and a mount each go through `Enter`, `Grab` (or `GiveUp`), `Opened`, and
their work: `Write`, `Extend`, `CutHead`, `Retain`, `CopyHead` and `CutRotated`,
`Delete`, `MovedTrunk`, `SidesMoved`, `MovedRest`. `image` is what a process
believes of a log.
`Mount`: the kernel's requests one at a time (`Ask` and the handlers
`Lookup`, `Open`, `Create`, `WriteAt`, `FlushFile`, `Truncate`, `Unlink`,
`Rename`, `Rotate`), split where a handler leaves the store's mutex, and the
flusher's second: `ReadPolicy`, `Enforce`, `FlushAged`, `Counts`, `OpenGrain`,
`ReadChunks`, `Install`, `Doze`, `FlushAll`, `Remount`.

### Tally

`FeedEntry` folds one entry into the rollers of all metrics (sealing by
watermark and grace, late entries to the current bucket, a cap on series),
`WriteLines` puts lines on the tally's tape, `Idle` and `EndOfFeed` drain open
buckets, `Report` moves the position no further than the oldest byte an open
bucket counted, and `Die` starts over from it.

### Intake and Console

Connection threads (`Take`, `Ensure`, `AppendAll`, `SyncOne`, `Answer` of OTLP;
`Feed`, `Push`, `DrainOwn`, `Drain`, `SendAck`, `PutBack` of Forward), senders
with retries (`SendMessage`, `Hear`, `GiveUp`), the maintenance tick (`Policy`,
`TickEnds`) and stops, deaths and restarts over stores whose durable part is
known. `Console` adds Incus (a ring, a websocket that one may hold, instances
that halt and boot), the supervisor (`List`, `Subscribe`, `Notice`) and a tap per
instance (`ReadInstance`, `Post`, `Attach`, `Own`, `DrainRing`, `RecordBacklog`,
`Stream`, `Consume`, `Relinquish`).

### Registry

A follower is a directory with a declaration, positions, perhaps an old cursor,
and a lock file with an inode. `Create`/`Declare`, `Update`, `Delete`/`Probe`/
`RemoveFiles`/`RemoveDir` are the operator's commands step by step, `Load`,
`Lock`, `WriteInfo`, `Open`, `Ship`, `Save` a process's, `Refresh`, `Consult`,
`Enforce` the tick's: policy, registry and drop are read and made at three
moments. The three axes of `enforce_retention` are there with their arithmetic:
the age with its tenth, the budget with its low-water mark, and the interest.

## 3. Runs that pass

Checked with `tlc -workers 2 -config R.cfg M`; each ends within five minutes.
In `FileStore_recovery`, `HeadDrop_drops`, `LiveTail_readers` and `Tally_buckets`
TLC also looks for deadlocks: a store, a drop, a reader or a run that can take no
step would be reported. The others really may stop (a one-shot ends, a walk is
done, a file is no longer written, an appender has gone) and say so in their cfg;
that nobody in them waits for ever is what their liveness properties state.

| run (module) | environments | properties |
|---|---|---|
| `FileStore_recovery` (`MCFileStore`) | `Crashing`: processes die anywhere, frames, records and segment creations fail, with drops, adopted frames and write-ahead switched on; `LosingPower`: power losses, with drops and adopted frames, write-ahead on or off for good; `Untiring`: every operation under failing fsyncs, creations and base refreshes; `Importing`: atomic imports that crash, fail and roll back | `TypeOK`, `TapeIntact`, `AckedSurvives`, `NumbersNotReused`, `ImplementsTape` |
| `HeadDrop_drops` (`MCHeadDrop`) | `Dropping`: drops of every size, the whole store included, crashes between an append's two writes; `DyingInCollapse`: crashes anywhere in a collapse; `ReadBesideCollapse`, `ReadBesideRewrite`: a reader beside a writer that collapses and dies, beside one that can only rewrite; `ReconcileTheDead`: one that finishes the drop of a dead writer before it reads beside the next; `ReconcileBesideWriter`: one that reconciles beside a live writer and reads nothing | `SurvivorsReadable`, `FiltersMatch`, `StableReads` |
| `LiveTail_readers` (`MCLiveTail`) | a follow from now or from further back, beside a writer that drops, dies, is switched off and on, has no segment and overtakes it; a resuming read beside one that dies, is switched, or drops everything | `ShownExactly`, `EntriesArrive` |
| `Feed_consumer` (`MCFeed`) | follows and one-shots over two stores; a plain consumer, one that falls silent, one that holds, a pair that dies while retention goes by its positions; the exporter with labels that change, refusals, deaf and closing receivers, and with deaths, lost answers and "come back later" | `FeedInOrder`, `PositionsHonest`, `OneShotDrains`, `EverythingReaches`, `AttributedRight`, `ReportedIsShipped` |
| `Paging_pages` (`MCPaging`) | walks over all tapes of four cells cut into chunks in all ways beside a second store, under every bound, with late deadlines and stores that grow; searches over six programs of predicates, four ways and all pairs of chunks | `PagesConcatenate`, `AnswersWhole`, `WalkEnds` |
| `FileTail_restarts` (`MCFileTail`) | tails that die and are restarted over rotated files, that run over files without stamps, cut files and drops; imports that die, of growing files, days and shipped segments; the three writers, signalled, upgraded, killed, with broken input, drops and an index | `TapeIsTheLog`, `ReimportIsIdempotent`, `WriterLeavesWell`, `LinesArrive` |
| `Relay_links` (`MCRelay`) | `Failing_`: both processes fail, both ends drop; `Indexed`: filters shipped with their chunks; `Plain`: chunks whose filter is not there yet; `Gapped`: a source that drops what is not acknowledged | `ReplicaIsTheTape`, `FiltersMatch`, `CatchesUp` |
| `Directory_locks` (`MCDirectory`) | `Handoff`, `Deleting`: one appender after another beside a trim that deletes; `Rotating`, `Appended`: a rotation to a log that is there or not; `Mounted`, `Renaming`: a mount beside them; and inside a mount `Shuffled`, `Cut`, `Kept`, `Moved`: names that come and go under handles, rotations, declared policies and indexes, an upgrade | `NothingVanishes`, `ImagesTrue`, `SidesBelong`, `HandlesKeepTheirLog`, `FiltersTrue` |
| `Tally_buckets` (`MCTally`) | a log in order whose run dies or ends with it; entries late and series too many; two metrics, a histogram, entries without a time and unreadable ones | `BucketsTrue`, `NumbersShow` |
| `Intake_acks` (`MCIntake`) | `Insisting`, `Shared`, `Provisioned`, `Colliding`, `Split`, `Requested`, `Posted`: one or two senders of either protocol; `Looked`, `Declined`, `KeptRing`, `Restarted`: taps of consoles | `AckedIsDurable`, `EveryoneIsAnswered`, `OutputKept`, `RunningIsTapped` |
| `Registry_floors` (`MCRegistry`) | `Restarted`, `Edited`, `Named`, `Overtaken`, `Illegibly`, `Edges`, `Trimmed`: followers killed, edited, made and deleted, overtaken by budgets, unreadable, with impossible positions, and a trim by hand | `NothingHeldIsDropped`, `LossIsTold`, `ConsumedGoes` |

What the properties say:

- `TapeIntact`: frames, index and buffer of an open store are one run of
  entries from the head, each once. `AckedSurvives`: what `sync`, `sap_sync` or a
  commit reported durable is there at the next open. `NumbersNotReused`: a number
  that named a durable chunk names no other. `ImplementsTape`: section 2.
- `SurvivorsReadable`: after any number of drops and crashes every record locates
  its own frame. `StableReads`: a read whose index was loaded under the count the
  read began with returns the bytes of the chunk it wanted. `FiltersMatch`
  (`HeadDrop`): a filter a reader trusts was built from the chunk it answers for.
- `ShownExactly`: no entry twice, none out of order, each at its address, none
  passed over, whichever of segment and chunk it was seen in. `EntriesArrive`: a
  reader that goes on shows every entry, without waiting for the flush.
- `FeedInOrder`: a consumer gets each store's entries in order, again only after a
  restart and from the position kept. `PositionsHonest`: the positions file passes
  no entry the destination lacks, and retention by it takes none it will be asked
  for. `OneShotDrains`: one that was not cut short ends with everything sent and
  handled. `EverythingReaches`: what is written is handled in the end.
  `AttributedRight`, `ReportedIsShipped`: the same for what an OTLP receiver took,
  under which labels, across retries.
- `PagesConcatenate`, `WalkEnds`: the pages of a walk are the one answer cut in
  pieces, and it ends. `AnswersWhole`: a search shows all that its predicates mean,
  by their plain reading over whole texts, or says that it could not.
- `TapeIsTheLog`, `LinesArrive`: what a tailed store ever held is the file's lines,
  each once and in order, across rotations and deaths, and they get there.
  `ReimportIsIdempotent`: imports of overlapping sources, in whatever order and
  interrupted, make a store of what the sources are. `WriterLeavesWell`: an ended
  writer has stored what it read, in order and once, indexed it if told to, its
  exit code says how the input ended, and no filter stands for another chunk.
- `ReplicaIsTheTape`: one number, one chunk, at both ends. `FiltersMatch`
  (`Relay`): filters arrive at their chunks. `CatchesUp`: replication does not
  stand still, whatever connections it has lost.
- `NothingVanishes`, `ImagesTrue`, `SidesBelong`: what was written stays in the
  directory until a policy lets it go; a writer's memory of a log is that log; a
  log's manifest and filters are of its own store. `HandlesKeepTheirLog`,
  `FiltersTrue`: the same from inside a mount.
- `BucketsTrue`: a bucket resolves to the count of the entries in it, once each,
  across deaths. `NumbersShow`: and it shows, without waiting for the next entry.
- `AckedIsDurable`: no death loses what was acknowledged. `EveryoneIsAnswered`:
  every message is acknowledged or refused. `OutputKept`: each piece of console
  output is stored, in order and once, whichever of ring and websocket brought it.
  `RunningIsTapped`: an instance that runs on is tapped.
- `NothingHeldIsDropped`: interest takes no chunk that a retaining follower had not
  been given. `LossIsTold`: a budget that does says so for every chunk.
  `ConsumedGoes`: what all have read does go.

### Bounds

The constants of each cfg bound lengths and counts of troubles; guards name
them (`MaxTape`, `MaxDeaths`, …). They are chosen so that the interesting cases
occur, and the faulty variants show that they do.

- `FileStore`: `ChunkSize = 2` is the least at which a chunk can be short or full
  and the buffer can straddle a flush; `MaxTape = 4` positions allow two full chunks or
  more flushes with partial ones; `MaxSeq = 6` exceeds the count of chunks, so that
  lost and retaken numbers show. There is no bound on crashes, failures, opens.
- `HeadDrop`: a block is 2 cells, a header 2 cells, frames 1 or 3 cells: frames
  smaller and larger than a block, cuts on a block's edge (1 + 3), slivers that hold
  a header and slivers that must be widened. 3 or 4 chunks let two drops follow each
  other with chunks between; `maxLock` bounds the counter and with it the drops (two
  to three). `MaxTries = 1` stands for the reader's 64 retries: enough to reach both
  the retry and the give-up.
- `LiveTail`: four entries, three segments: one rolled while the next is open.
  `MaxEntries = 2` lets a resuming read stop in the middle of chunk and segment.
- `Feed`: two entries for each of two stores, a pipe with room for one record, one death.
  The bound on what may be held (`MaxHeld = 9`) is not reached; see `HoldsTooMany`.
- `Paging`: four cells a store, growth by two. `Selection`: words of two or three
  symbols over three letters, the least at which a first, middle and last word of a
  predicate differ in what the index proves of them.
- `FileTail`: four lines in three files, two deaths; `ChunkSize` and the checks of two
  lines. `Import`: five lines, four imports, two of them killed, chunks of two.
  `Writer`: two or three entries, one kill, two drops.
- `Relay`: three chunks, four connections, two failures, channels with room for one
  message, one chunk a turn: everything that can fill is full at some time.
- `Directory`: three entries over two logs, two failures; nine inodes are never all
  given by the logs, so the bound cuts nothing but endless recreation.
- `Tally`: buckets of width two with grace one over times up to four, two deaths.
- `Intake`: one or two messages from each of two senders and one or two troubles,
  chunks of three entries, one partial entry at a time; a ring of two pieces.
- `Registry`: two stores, two followers, two processes, three chunks; ages and sizes
  with a slack of two so that the tenth and the low-water mark bite.

### Fairness

Of processes that run, their own steps are fair, because nothing in them waits
for another process but where the model says so; nothing is assumed of users,
writers of logs, failures, or commands.

- `LiveTail` (`FairTail`): a reader goes on polling, a flush that has begun ends, an
  aged buffer is flushed by the maintenance tick.
- `Feed`, `Exporter` (`FairExport`): the loop, the consumer or the exporter's two
  threads go on; buffers are flushed in the end; silence lasts if nobody speaks,
  because a clock runs.
- `Paging`: the caller goes on asking, the read goes on.
- `FileTail`: the tail's loop goes on, and a program that writes half a line, has
  rotated, or has its file taken away ends the line, recreates or reopens it.
  `Import` and `Writer` are checked for safety alone.
- `Relay` (`FairRelay`): both loops go on, an end of a connection is noticed (`Notice`:
  TCP, not for the silent host of `Silent`), and the second wait of `Linger`, whose
  condition traffic interrupts, is strong.
- `Tally`: the run and its follower go on; an idle stream is noticed although entries
  keep it from being idle for long at a time (`Reads`, `Idles` are strong).
- `Intake`, `Console`: threads, senders and the tick go on once they stay enabled; a
  receiver that is down is started again; a person leaves a console; a store another
  program has taken is let go, one that is to be declared is.
- `Registry` (`FairSpec`): the tick goes on; an unreadable manifest is mended.

Conditions of the form `<>[]enabled => []<><<step>>` are weak and strong fairness
written out with the guard, where TLC's `ENABLED` of a large disjunction would be
slow.

`FileStore`'s and `HeadDrop`'s `FairSpec` and `Mount`'s `FairMount` state what
`Reopens`, `BufferLands`, `WalFollowsManifest`, `CounterSettles` and
`IndexFollows` need (environments `Settling`, `WriterAlone`, `Mounts`); they are in no
listed run.

## 4. Where the code and its documents disagree

One disagreement is a run: `Mount_cut` checks `FiltersTrue`, the last property
of `Directory_locks`, with a rotation that may come while the flusher extends
filters. The trace: the flusher reads a log's chunks (`fs.rs:987`, without the
store's mutex, which the comment at `fs.rs:964-968` argues is safe because the
write path "only appends"); a `setxattr` rotates that log and cuts index and
filters; the flusher installs filters one position off; a chunk more, and the
count that would have made the next second rebuild them is what it was. A
search then skips chunks that match.

The others are environments of the MC modules. Each is the least in which
TLC finds the named property violated; the passing runs leave out these
triggers and no more. To see one, copy the cfg of the module's run, let its
environment constant be the witness (`Environments <- WalOff`), and leave the
named property alone in it. The constants: `Environments` (FileStore,
HeadDrop, FileTail, Relay, Directory, Intake, Console, Registry), `TailEnvironments`,
`FeedEnvironments`, `TallyEnvironments`, `Requests` (Paging), `Searches`,
`Importings`, `Writings`, `Volumes` (Mount, with `Environments <- NobodyElse`).
Add `CHECK_DEADLOCK FALSE`: an environment that small may come to its end.
For liveness take the fair specification of section 3.

| environment | property | source | what happens, and what says otherwise |
|---|---|---|---|
| **FileStore** `WalOff` | `AckedSurvives` | `store.rs:1027` | turning write-ahead off unlinks the segment while acknowledged entries are only in the buffer (1017–1018, `docs/design.md:141`) |
| `CrashThenPower` | `AckedSurvives` | `store.rs:622` | recovery unlinks the seal of a flush that landed only in the page cache, then the power fails (901–906) |
| `WalOnThenPower` | `TapeIntact` | `store.rs:1025` | turning it on flushes without an fsync and bases a segment on that frame; a power loss takes the frame and keeps the segment (1014–1016) |
| `FsyncFails` | `SapMirrorsBuffer` | `store.rs:907` | a failing fsync comes after the buffer was cleared; the seal is put back under an empty buffer (865–868: "exactly the state it was in before this call") |
| `ImportOverSegment` | `TapeIntact` | `store.rs:822` | an atomic import replays a dead writer's segment, publishes it and does not retire it: the next open replays it again (`docs/design.md:154-157`) |
| `RecordFailsOnce` | `NumbersDense` | `store.rs:887` | a record that fails to be written has taken its number (`docs/concepts.md:33`) |
| `ResetThenCrash` | `NumbersNotReused` | `store.rs:1055` | truncation to zero leaves the header's old next number; after a crash, numbers are handed out again (465–471) |
| `Delivery` | `DeliveryIsAtomic` | `store.rs:813` | an import that dies while publishing leaves some chunks visible (`docs/timberfs.1:453`, `sink.rs:154-155`) |
| `StaleBase` | `TapeIntact` | `store.rs:1536` | a failed base refresh after a drop, then a crash in a flush: the chunk is stored twice (1533–1535 expect a spurious warning at most) |
| **HeadDrop** `StaleIndex` | `ReadsOwnBytes` | `query.rs:297` | a drop between a reader's open and its first read is not noticed (267–268) |
| `DyingInRemove` | `SurvivorsReadable`, `CounterRests` | `store.rs:1332`, `1326` | a crash between the two renames leaves the new trunk under the old index with no marker, and the counter odd past the next open (225–229) |
| `OrphanFrame` | `SurvivorsReadable` | `store.rs:1425` | the marker's size is the index's end, not the trunk's length, when an orphan frame follows (1420–1424) |
| `Emptied` | `CounterRests` | `store.rs:1498` | the same mismatch after a collapse of every chunk that leaves a sliver |
| **LiveTail** `ResumeAfterDrop` | `EntriesArrive` | `query.rs:1010` | `emit_live_edge` compares a position that counts dropped bytes with an offset that does not |
| `DropInPass` | `ShownExactly` | `query.rs:1170` | index and `dropped_bytes` are two readings (1351) |
| `InodesRecur`, `Bursts` | `ShownExactly` | `live.rs:17` | a segment is recognised by its inode; one running count of what to skip serves two rolled segments |
| `Overtaken` | `ShownExactly` | `query.rs:2004` | a follow overtaken by retention keeps what it meant to skip of a chunk that is gone (`live.rs:149-155`) |
| `EmptiedUnderFollower` | `FollowerLives` | `query.rs:1612` | `resume_at` indexes an empty list when retention has emptied the store |
| `FlushAtStart` | `ShownExactly` | `query.rs:1931` | a flush between the backfill and the attach to the segment |
| `UnsealedFlush` | `ShownExactly` | `store.rs:907` | a flush taken back after its chunk was seen shows entries again |
| `KeysRecur` | `ShownExactly` | `query.rs:1612` | two chunks alike in window and lengths are one to a follower that resumes |
| **Feed** `PickedUpTwice` | `PositionsHonest` | `ship.rs:390` | a store picked up at its end has that position in memory alone (435; saves at `feed.rs:383`, 460, 498) until a consumer reports; the consumer dies first, and what came in since is skipped (`docs/deployment.md:1542-1546`: an interrupted send "is re-delivered rather than skipped") |
| `SlowConsumer` | `CutShortBySilence` | `feed.rs:514` | reports taken by a drain do not end the silence (495 and 536 do) |
| `HoldsTooMany` (`MaxHeld = 1`, `MaxLog = 3`) | `OneShotDrains` | `feed.rs:447` | a store parked for what is held, not for what is in flight, is not counted among the skipped |
| `HungConsumer` | none stated: the run does not end | `feed.rs:246` | a one-shot drains to the end before it waits its grace, so a hanging consumer hangs it |
| **Paging** `Fruitless`, `OutOfTime`, `Residue`, `LongEntry` | `WalkEnds` | `query.rs:1471` | a page bounded in chunks or time that completes no entry reports the place it began at (`limits.rs:86-87`, `query.rs:1449-1451`) |
| `LateOpening` | `PagesConcatenate` | `query.rs:1104` | a store not reached before the deadline keeps no position |
| `Straddling` | `PagesConcatenate` | `entry.rs:279` | the index selects the chunk with the match and not the one its entry begins in: a frame without the line that threw (the comment there) |
| `HalfLine` | `PagesConcatenate` | `query.rs:1010` | a page shows a line its writer has not ended, and the next page goes on in its middle |
| `Vanishing` | `SourcesInTurn` | `query.rs:1336` | a store whose chunk has gone is left for the next, and its open entry comes out after that one's (1286, 1303–1309: "each drained before the next") |
| `JustEnough` | `LimitedIsExact` | `query.rs:1391` | a bound of chunks met with the last chunk is called limited (1391–1397: "two exact signals") |
| **Selection** `Tokenless` | `AnswersWhole` | `query.rs:409` | among alternatives, one with no term the index can prove is left out and the others select (402–408, `grep.rs:249-252`) |
| `MaxZero` | `AnswersWhole` | `timber_filter.rs:431` | `--max 0` shows one entry ("at most N … a hard cap") |
| **FileTail** `Fragment`, `Stale`, `HeadOfOneStamp`, `InStart`, `Twice`, `Late`, `Hasty`, `Waiting`, `Unordered` | `TapeIsTheLog`, `LinesArrive` | `follow.rs:13`, `502` | a rotation in the middle of a line; a restart over lines without or all of one stamp; two rotations between two looks; a rotation while starting; a program that goes on writing the old file; a truncation that is outgrown at once ("a restart can neither lose nor duplicate") |
| **Import** `Emptied`, `MidSegment`, `FlushFails`, `CutInside`, `Twins`, `Frames`, `OutOfOrder`, `Interrupted`, `InOneStamp`, `HalfDropped` | `ReimportIsIdempotent` | `import.rs:922`, `store.rs:1195`, `1208`, `1788` | a store that retention emptied; a segment of which a part was taken; a failed last flush; sources cut inside an entry, between lines alike, out of order or within one stamp (`docs/timberfs.1:455-560`) |
| **Writer** `Meanwhile` | `WriterLeavesWell` | `sink.rs:205` | an entry stored after the last flush's mutex is released and before the process exits is lost (187–192) |
| `UpgradedMeanwhile` | `WriterLeavesWell` | `append.rs:276` | the same on an upgrade |
| `Beside`, `DroppedBeside` | `WriterLeavesWell` | `append.rs:532` | the main thread drops and indexes at its end while the other thread, which it does not wait for, may be indexing (306–311) |
| `SecondStream` | `WriterLeavesWell` | `records.rs:215` | a second stream on the pipe that is cut short passes for complete (`records(5)` 345–352) |
| **Relay** `Unindexed` | `FiltersMatch` | `receive.rs:392` | a chunk shipped before its filter leaves no hole in the replica's index (`grain.rs:503-505`) |
| `Raced` (`MaxChunks = 4`, `MaxConns = 1`), `Halved` | `FiltersMatch` | `serve.rs:150` | index and filters are two readings; chunk and filter two writes |
| `Unsynced` | `ReplicaIsTheTape` | `serve.rs:150` | a chunk shipped before it is on the source's disk: a power loss gives its number to other entries |
| `Silent` | `CatchesUp` | `receive.rs` | a host gone without a word keeps the replica's lock |
| `Overrun` | `Resumes` | `serve.rs:69` | the source drops what is not acknowledged: the gap is refused for good (97–104) |
| `Emptied` (`MaxConns = 2`, `MaxFailures = 1`) | `CatchesUp` | `serve.rs:97` | a replica that retention emptied asks for the first chunk again |
| **Directory** `Deleted` | `NothingVanishes` | `rotate.rs:346` | a trim lets its locks go and then deletes what an appender has just opened (477–482) |
| `Beside` | `ImagesTrue`, `NothingVanishes` | `store.rs:493` | a mount opens the directory's logs before it takes the directory's lock |
| `Halfway` | `NothingVanishes` | `store.rs:1615` | a mount dies between the renames of trunk and index |
| `Undeclared` | `SidesBelong` | `store.rs:1615` | a log without a manifest renamed over one that has one takes it over |
| `Midway` | `InOneLog` | `store.rs:1761` | a rotation that dies between copy and cut leaves chunks in both |
| **Mount** `Unlisted` | `HandlesKeepTheirLog` | `fs.rs:650` | a rotation whose empty target cannot be made lists it all the same |
| `Overwritten` | `FiltersTrue` | `store.rs:1638` | a log without filters renamed over one that has them takes them over |
| `RenamedBeside`, `Inherited` | `DropsAsDeclared` | `fs.rs:889` | a policy read before a rename is applied after it; an unparsable manifest inherits the last good policy of its name |
| `Late` | `WritesKept` | `fs.rs:877` | a write between the last flush and the re-exec is lost ("flush and exit for a clean re-exec") |
| `CountRecurs` | `IndexFollows` | `fs.rs:981` | a chunk goes and one comes in one second: the count is the same (976–979) |
| **Tally** `RareBeside` | `BucketsTrue` | `tally.rs:2562` | the position waits for a rare metric's open bucket, in the middle of another metric's sealed one |
| `OutOfOrder` | `CountsAddUp` | `tally.rs:2562` | the same with entries slightly out of order |
| `Stopped` | `BucketsTrue` | `tally.rs:2746` | a feed that stops drains open buckets and starts them anew |
| `Unheld` | `BucketsTrue` | `tally.rs:2562` | a metric that cites no bytes does not hold the position |
| **Intake** `Collision` | `AckedIsDurable` | `forward.rs:679` | an entry refused because its name belongs to another tag is acknowledged (675–678) |
| `FailedAppend`, `MidChunk`, `SplitAcross` | `AckedIsDurable` | `store.rs:779`, `forward.rs:660` | a chunk of which one entry failed, was refused, or is half of a split entry is acknowledged whole |
| `Rearming` | `AckedIsDurable` | `store.rs:1024` | a segment started over an unsynced flush counts as durable |
| **Console** `NextLife`, `UndrainedRing`, `LostHalf`, `RefusedHalf`, `TakenStore`, `DyingWord` | `OutputKept` | `incus_intake.rs:743`, `648`, `826` | the ring of the next life is emptied for this one's; a ring that could not be emptied, or whose last line is unfinished, or whose store is held; a last word that reads like a refusal (369–370, 705–706, 826–832) |
| `Unseen`, `Raced`, `DeafOnce` | `RunningIsTapped` | `incus_intake.rs:892`, `958`, `960` | an instance that starts between list and subscription, or while its last tap leaves, or that Incus fails to tell of once |
| `Stopped` | `ConsolesReleased` | `intake.rs:341` | the maintenance thread ends the process before the taps let go (`incus_intake.rs:908-914`) |
| **Registry** `HastySet` | `OneProcess`, `NothingHeldIsDropped` | `follower.rs:2129` | a delete probes the lock, lets it go, and removes a directory that a process has locked meanwhile (2090–2096) |
| `HalfMatchedSet` | `NothingHeldIsDropped` | `append.rs:161` | a manifest that cannot be read matches no label |
| `BlindSet`, `HalfMadeSet` | `LossIsTold` | `follower.rs:1086`, `463` | an unreadable or half-made declaration hides the others from the account (1234–1240) |
| `AllExpiredSet`, `SealedBetweenSet` | `ToldIsTrue` | `follower.rs:1244`, `append.rs:221` | a loss is told of chunks that were read; the registry is read after `next_seq` |

Met while reading, without an environment:

- `Positions::advance` overwrites an offset while the chunk floor it goes with is a
  maximum (`cursor.rs`).
- A source record with the labels a store had but a new path keeps the old path
  (`timber_otlp.rs`). The comment of `Outcome::Rejected`, "a 4xx that is not 429", is
  narrower than `classify`, which takes 1xx, 3xx and 500 as well (`otlp.rs` 838–841,
  1065). A receiver that stays down hangs a one-shot export.
- An `all` predicate without tokens fails the whole query (`query.rs:409`).
- `append` looks at its stop flag and then blocks in a read: a signal in between, or
  one another thread took, waits for the producer. End of input together with a
  signal or an upgrade exits with the maintenance thread's code and writes no lineage.
- `bark.rs:136-141` says of `retain_unconsumed` that it "only ever holds MORE than age
  and size would"; `enforce_retention` takes the largest of the three cuts, so it only
  ever drops more (`store.rs:1802-1808`).
- `follower.rs` 1097–1100 and 1108 contradict each other; `probe_lock` takes the lock
  for an instant; a create or delete that was interrupted leaves a husk that closes
  the index to all stores; the index's stamp (mtime, length) can miss an edit.
- After a failed partial sync OTLP answers 503 for what it has partly stored: the
  retry duplicates it (`otlp_intake.rs:378`).
- In a mount a name removed and made again within a second keeps the flusher's count,
  and a rename that fails leaves the target's mirror entry (`fs.rs`).

## 5. Theorems

Each holds for every value of the constants that its module's assumption allows
(`ConstantsAssumption`; `RelayAssumption`, `DirectoryAssumption`; `RegistryAssumption`, and
`MarksAssumption`: what stands for nothing is nothing else;
`IntakeAssumption`; `FeedAssumption`, which has that an identity is a string that is not empty and
that no two stores share one, and `ExporterAssumption`): every chunk size, tape, count of connections or names, and every *set* of
environments, that is crashes, power losses, failing calls and operations in any
mixture, without bound on how often. A theorem about some environments only says so
in a hypothesis on the constants, a named definition above it; what it excludes is
what section 4 shows the code not to survive, and the environments of the runs meet
it. The proofs share one form: an inductive invariant, one lemma per group of actions
that it is kept, and the property read off it. What TLC checks on small instances and
TLAPS in general:

| theorem | property | hypotheses |
|---|---|---|
| `TypeCorrect` | `FileStore!TypeOK` | none |
| `NumbersAreForEver` | `NumbersNotReused` | `NeverReset` (`ResetThenCrash`) |
| `TapeStaysIntact` | `TapeIntact` | `DiesAsExpected` |
| `ReportedSurvives` | `AckedSurvives` | `DiesAsExpected`, `KeepsItsSegment` (`WalOff`) |
| `StoreIsTheTape` | `ImplementsTape` | the same |
| `TapeIsAlwaysOneRun` | `TapeIsOneRun` | the same |
| `RelayTypeCorrect` | types of `Relay` | none |
| `ReplicaIsTheSource` | `ReplicaIsTheTape` | `ShipsTheDurable` (`Unsynced`) |
| `FiltersFollowTheirChunks` | `Relay!FiltersMatch` | `FiltersTravelWhole` (`Unindexed`, `Raced`, `Halved`) |
| `DirTypeCorrect` | types of `Directory` | none |
| `OneWriter` | one process inside a log | `NoneBeside` (`Beside`, `Deleted`) |
| `WritersKnowTheirLogs` | `ImagesTrue` | `NoneBeside` |
| `NothingIsLost` | `NothingVanishes` | `NoneBeside`, `NeverHalfway` (`Halfway`) |
| `SidesFollow` | `SidesBelong` | the same, `RenamesBare` (`Undeclared`) |
| `HandlesKeepTheirLogs` | `HandlesKeepTheirLog` | `TargetsMade` (`Unlisted`) |
| `FiltersAreOfTheirChunks` | `FiltersTrue` | `FiltersUndisturbed` (`Mount_cut`, `Overwritten`) |
| `SurvivorsStay` | `SurvivorsReadable` | `DropsRecover` (`DyingInRemove`, `OrphanFrame`, `Emptied`) |
| `TrustedFiltersMatch` | `HeadDrop!FiltersMatch` | `DropsRecover` |
| `StableReadsOwnBytes` | `StableReads` | `DropsRecover` |
| `RegistryNothingHeldIsDropped` | `NothingHeldIsDropped` | `Steady` (`HastySet`, `HalfMatchedSet`) |
| `RegistryOneProcess` | `OneProcess` | `Steady` |
| `RegistryLossIsTold` | `LossIsTold` | `Steady`, `Legible` (`BlindSet`, `HalfMadeSet`) |
| `AckedAreDurable` | `AckedIsDurable` | `AcksUndisturbed` (`Collision`, `FailedAppend`, `MidChunk`, `SplitAcross`, `Rearming`) |
| `OutputIsKept` | `OutputKept` | `AcksUndisturbed`, `OutputUndisturbed` (`NextLife`, `UndrainedRing`, `LostHalf`, `RefusedHalf`, `TakenStore`, `DyingWord`) |
| `EntriesComeInOrder` | `FeedInOrder` | none |
| `FeedStaysTyped`, `RetentionStaysBehind` | types of `Feed`; what retention took lies behind the recorded position | none |
| `LabelsAreOfTheirTime` | `AttributedRight` | none |
| `PositionsAreHonest` | `PositionsHonest` | `PickedUpAlike` (`PickedUpTwice`) |
| `WhatIsReportedIsShipped` | `ReportedIsShipped` | the same |

### The store

**Index** (`FileStore_proofs`). `TypeCorrect` is not a formality: lengths and positions
are differences (`hi - lo`, `bufStart - …` after a drop, indices into `trunk` and
`rings`), so that they are natural numbers at all rests on the files and the
memory agreeing. The inductive invariant `IndexInv` says: the records of both
indexes follow one another; the buffer starts where the index in memory ends;
the trunk holds every frame the index names, and one more exactly while a flush
is between its frame and its record; the index on disk is the one in memory,
except for the record a replay has just written and those an import holds back;
and a flush returns only to callers that exist in the present role. One lemma
per group of actions (`OpenPreservesIndexInv`, `FlushPreservesIndexInv`,
`ImportPreservesIndexInv`, …) shows that it is preserved.

**Numbers.** The invariant of `NumbersAreForEver` alone is not inductive: at a crash the
next number is forgotten, and what the open will find depends on the disk. `NumberInv`
adds that the numbers of both indexes grow, that the records durable in both files are a
prefix of the index that no crash can take, and that every number given to a durable
chunk is below the larger of the header's next number and the one after the last durable
record. The first holds across appends because `next_seq` exceeds every record;
the last across head drops because the new header is written with `next_seq`
before the records go.

**Tape** (`FileStore_proofs`). `TapeIntact` speaks of memory; what memory is after an
open is up to the disk and to the segments. `TapeInv` therefore has, beyond `IndexInv`:
`LaidInv`, that the frames the records on disk name follow one another from the head of
the tape and those in memory do, with the buffer behind them (and the frame of the flush
in flight, of a replay, of an adoption, at its place); and `SegmentInv`, that at any
moment a death would leave a seal and a segment an open can use. A seal is *pending* when
its base says its frame did not land; a pending seal begins where the sure chunks end and
the live segment where that ends, one that is not pending has landed whole. "Sure" is what
an open is certain to find: all that is intact where only processes die, what both files
have durable where power fails. `SegmentsFit` reads off that whatever an open replays fits
the index it has just loaded. The hypothesis `DiesAsExpected` is the list of mixtures this
recovery is not up to, each with a witness in section 4: process deaths *and* power losses
(`CrashThenPower`), a store that a writer and an import take in turn
(`ImportOverSegment`), deaths over an fsync or a rebase that failed (`FsyncFails`,
`StaleBase`), and under power losses a failed creation of a segment or write-ahead turned
on over chunks no fsync has reached (`WalOnThenPower`).

**Reported** (`FileStore_proofs`). `AckedInv` names what every reported entry rests
on: the sure chunks, the pending seal, or the segment (where power fails, its synced
part), and that a segment in use is declared, since an open deletes one that is not
(`KeepsItsSegment`; `WalOff` is the witness). A flush passes the promise on from one to the
next: segment, seal, frame and record, and only then is the seal unlinked.

**Refinement.** `StoreIsTheTape` shows `Init` to be the empty tape and every step one of
`Tape`'s or a stutter. `RunInv` says the content under the mapping is the run from `head`
to `End`, in every state, so that a step is told by how it moves `head`, `End` and
`acked`: an append or an adoption moves `End` by one; a returning sync, flush or delivery sets
`acked` to it; a head drop moves `head`; a rollback cuts `End`; opens and flushes move
nothing (`OpenMoves`, `WorkMoves`): reopening in any number of steps, dying in the
middle of it too, yields what `RecoveredContent` said it would. A death is the only step that
changes which side of the mapping applies, and is one `CutBack` not below `acked`
(`DeathCuts`, from `SegmentInv` and `AckedInv`). `WindowsInv` is what the two-step
operations (reset, adopt) leave for their second step.

### Head drops

`HeadInv` (`HeadDrop_proofs`) has a part for each state of the store. With a writer at work
(`AtWork`) it says, phase by phase, where the trunk's cells are: uncut and locating the
records in memory, shifted by `Aligned` but not stamped, or a new inode cut at
`CompCut`; which index is on disk and which is staged; and what marker, counter and
filters say meanwhile. Without one (`AtRest`) all that is left is the marker, and
`Recoverable` says it is enough: a trunk of the size the marker has for "before" locates the index
on disk; one of any other size is short by what the marker says, locates the staged index or the one
renamed already, and no record lies in the sliver an open stamps over. `DiesRight` carries
the one over to the other at every point a writer may die, and `Reconciled` back. That the
two sizes are told apart needs the trunk to end where the index does (`Exact`), which is what
`DropsRecover` secures: where a writer may die in a collapse none dies in an append
(`OrphanFrame` is the witness) and no drop takes every chunk (`Emptied`); and none dies
between the renames of a rewrite (`DyingInRemove`). That what a reconciliation has read is
still so when it acts (`LooksTrue`) needs that a reader reconciles only while no writer runs;
`DropsRecover` admits one beside a running writer if it goes on to read nothing, and the
three properties say nothing of that one.

A reader's part rests on `Current`: the counter is even and where the reader sampled it *or* an
odd one, put there by a collapse that has not cut yet. The second case is needed since a
refused collapse puts the counter *back* (`CollapseRefused`), so that an unchanged counter does not
mean that nothing happened; `StepsCount` shows that this is the only way back, and
`CurrentKept` that an index no longer current never becomes so again. A current index is
the beginning of the store's, whose frames and filters are in place (`EvenLocates`).

The assumption on the constants gained `HeaderMin <= BSize` from these proofs: one block
fewer leaves room for a header only if a block has it (8 bytes, and `f_bsize` of the file system, in the code).

### Replication

`ReplicaIsTheSource`: a receiver compares only the number of a chunk with its own
length, so that this is the right chunk rests on every chunk under way, on either wire and in
the sender's turn, being what the source has *now* under that number
(`FramesAreGenuine`), which in turn needs that a source never forgets a chunk it
has sealed (`SourceOnlyGrows`, from `ShipsTheDurable`). Broken connections, refused
chunks, sessions that outlive their connection and drops at both ends need no further case.
`FiltersFollowTheirChunks` follows a filter from the source's index through
turn and wire into the replica's (`SenderPages`, `ReceiverPages`): its place is its number less
what either side has dropped, on both sides, in the half step between filter and chunk too.

### A shared directory

`Apart` is who may hold what at which stage: whoever has come to its locks holds the
directory's lock files as they now are, and one that found its lock file renamed away
tries again. `OneWriter` follows, and with it that an image loaded from the files stays
true (`Knows`) because only its owner changes them. `Accounted` says where every entry
ever written is: retired, in one of the logs, or in both while a rotation is between copy
and cut. `Sides` and `Bare` do the same for manifests and filters. `RenamesBare` also
leaves out a rotating process beside a renaming mount, a mixture the runs do not have.

### Followers and retention

Four places say how far a follower has read: its process's memory, its positions file,
its old cursor, and the index a tick has read. `RegistryInv` (`Registry_proofs`) says that each
of them is *honest*: of the chunks there are, the consumer has been given all below it
(`Reached`), or it lies beyond all the store will ever have, which `HoldsAll` takes for a follower that
has read nothing. `NextIsHonest` is why a process keeps to it, `CarriedOverHonest` why
the migration of a cursor does, and `HonestStays` why nobody spoils it from outside: heads
only go forward and what was given stays given. An index out of date is so in the safe
direction. The one step that takes something back is a declaration made again (`DeclareSafe`): the
consumer starts from nothing, and that is sound because the directory then names no
place, no process runs in it, and a tick under way owes it nothing. `FloorIsRight` reads off that the
least place in the index is below whatever somebody has not read, `InterestSpares` that the
cut therefore spares it.

That a place has one writer at a time, although the lock is an inode and the place
a path, is the other half: a process past the lock has the inode of the directory as it is now and
its pid in it (`ProcessRight`), so that a probe cannot find its follower stopped
(`StoppedIsStopped`). This breaks where a delete has probed and a process comes
before the removal; `Steady` leaves that out, manifests that are unreadable while a follower is
selected by identity, and positions at the start of chunks nobody was given (the history
begins there; it says nothing of where a follower comes to stand later).

`LossIsTold` needs `LossInv`: where there is a budget, a drop whose interest names
no holder owes nobody anything (`SomebodyIsNamed`), because the registry could be read when it was
read. Without a budget it follows from the first theorem: all that is lost is then wrong. Both
invariants hold in every environment of `Registry_floors`, where TLC checks them as
invariants, and so do `Steady` and `Legible`.

### Mounts

`HandlesKeepTheirLog` speaks of the tables between requests, so the invariant has to say what
they are in the middle of one (`TablesInv`, `Mount_proofs`). `Listed` is what the names with an
inode will be once the request is through with the tables: without the name that is unlinked, with the
one that is renamed to, with the target of a rotation; and it is `Listed`, not the names
listed, that are the logs of the store. `Stands` says the same of an inode: the log of a handle is
the one under the name its inode is *about to* stand for, so that the store may move a log first
and the tables after it. `TablesInverse` has what makes reuse harmless, that the inodes in use are
below the next one and a handle's inode was given once: an inode that is forgotten stands for
nothing again. `TargetsMade` leaves out the one step that breaks it.

`FiltersTrue` rests on `FiltersInv`: the filters *cover* the first chunks of their log, in the
order they are in; but in the middle of a cut, where the chunks are gone and the
filters not yet, from the cut on (`CoversAfter`). For the flusher it says that what it has read
(the filters it opened, the chunks it saw) still is the beginning of what is there: chunks are
only added behind them while it works, whatever is written. That is where
`FiltersUndisturbed` comes in: no request that moves, cuts or makes a log again comes between
its reads, nor does the flusher begin in the middle of one, since the mutex would not stop it
(`Mount_cut`); and no log without filters is renamed over one that has them. TLC checked both
invariants in the volumes of `Directory_locks`, which meet the hypotheses, before they were proved.

### Intakes

`AckedIsDurable` is about the end of a chain: an entry is fed, appended, made durable, and
only then is its chunk acknowledged, perhaps by another thread, or by a tick, together with
what others owe. The invariant (`Inv`, `Intake_proofs`) says of every message where in the chain
its entries are. Of a store, `Sure` is what no death takes, and `Soon` what the next flush or
sync makes sure; what is sure or coming only ever grows, but for what retention drops, which the
history keeps, and a death, which takes what is coming of all stores together with every thread
and every debt. `Promised` reads: what was acknowledged, or taken from the
debts to be, is safe; what a store owes is coming there, and all of it is safe once the store
is made durable (`DrainFacts`), whoever does that. A failure puts the debts back, still coming.

What a thread has in hand when it comes to push the debt is the other half (`Threads`). Of a
Forward chunk every entry before the present one is coming, or held as part of a split entry whose
last part is still ahead in the same chunk (`Fated`; `FedOne` is the step of the
reassembler, with its two ways out, too many splits and too long ones). That no append was refused on
the way rests on the store: `GoodStore` says it was opened, or will be, by the one
value it is for. A *late* store, not there or not free at first, may be refused to one
entry and be open when the chunk is pushed; for those the invariant runs the other way (`LateHeld`):
if it is open, then its message has been stored. Of an OTLP request all entries are
coming from when they are appended, and those of the batches already synced are safe (`RequestKept`).
Under the console's protocol nobody is acknowledged, and nothing is ever under way that could
be (`Quiet`).

`AcksUndisturbed` is what the code needs for it, and each part has its witness in section 4: no
two values of one store's name under Forward (`Collision`); no failing append (`FailedAppend`;
an OTLP request is rejected then, but the proof does not follow a segment that has
less than the buffer); splits that end in the chunk they begin in (`SplitAcross`); no segment declared
again over chunks that a missing one left unsynced (`Rearming`); and a late
store is for one message of one entry, since anything else may be stored between a refusal
and the push (`MidChunk`). `MCIntake` asserts that the environments of `Intake_acks` meet it.

An OTLP request folds over its batches and over its entries, and a connection's end filters the debts
with a fold (`Without`). The prover does not unfold `FoldLeft`; `FoldExists` and `FoldChain` show, by
induction over the number of places (`SetInduction`), that there is a function with the fold's values on
sets of places, and that along the prefixes of the sequence it takes them step by step. `EnsuredAll`, `AppendedAll`, `WithoutFacts` and
`FlattenRange` then carry an invariant along that chain.

### Consoles

**Output** (`OutputIsKept`, in `Intake_proofs`). The order of a tap's steps matters as much as
each of them, and so the invariant (`TapInv`) goes by where a tap is. What an instance
has said is, but for what a ring lost untapped (`wrapped`), in the ring, in what was read of
it, on the websocket, in the tap's hands, or in the store; and what a websocket was ever given is
in one of the last three, whatever becomes of the ring (`OutKept`). The second is what makes it
harmless that a ring wraps, goes with its instance, or is emptied while a tap follows the
websocket; `Emptied` says that it is emptied only of what the websocket had: a tap
gets to `consumes` only behind an open one, opened before the ring was last read. With
`AfterDraining`, the two steps the other way around, this fails. `Staged` says what a tap has in
hand at each step, and so that there is nothing in it at the ones that throw it away; `Told`, that a
refusal comes alone and at once, so that what is held when a tap gives up over one is the
refusal itself. Where a tap may give up halfway (`Breaks`: a read or an append that fails) the
argument goes by the ring and not by the websocket: under `OutputUndisturbed` the ring there has room
for all that is said and loses none of it to a boot, so that whatever was said is in the ring, or was
drained from it and is in the tap's backlog or in the store's buffer, where a flush that fails
leaves it. That a piece in the store stays there needs the store's half of the core: a
segment that mirrors the buffer, ticks, flushes and declarations (`StoresGo`), from the same
lemmas as `AckedAreDurable`.

`OutputUndisturbed` leaves out the process's end, which loses what the taps hold; retention, which
drops what is stored; and what section 4 has witnesses for: another program's store
(`TakenStore`), a last line that reads like a refusal (`DyingWord`), half a line where a refusal or a
failed read may meet it (`RefusedHalf`, `LostHalf`), a ring that is emptied after a failed first
reading (`UndrainedRing`) or in the instance's next life (`NextLife`). `MCIntake` asserts it of the
environments of `Intake_acks`.

### The feed and its exporter

An entry on its way to a destination is in the loop's batch, in the pipe, with the exporter's
reader, gathered, or handled, and the loop, the consumer and the file each have a position of
their own about it. Everything in `FeedInv` (`Feed_proofs`) is said for one store at a time (`StoreInv`)
in terms of six places in its log. `Row` says that what a sequence holds of that store is exactly
the entries between two of them, in order, so that batch, pipe, reader and what is gathered are
rows which meet: one ends where the next begins. `EntriesComeInOrder` is then the row in the
pipe. Every step moves the end of a row (`RowAppend`, `RowTail`), begins one
(`RowOfPoll`: what a batch takes of each store, which is a prefix of what there is, `RowPrefix`), or empties them all. Rows of other stores in
the same sequence do not matter, so that a batch over all stores in turn is, for each, its own row.

*Positions.* What is tracked lies past the position, and either something is in flight or the position
is where the last entry written ends (`Tracking`); a report on its way is between
the position and what was handled, and later ones say more (`Reporting`); a position and the
chunk it says retention may go up to grow together (`Positions`, `FloorOK`). From this
`RetentionStaysBehind` needs no hypothesis. `PositionsAreHonest` does: a follower that dies picks up a store
it has no recorded position for at its *present* end if it was told to follow from now, and
if entries came in meanwhile they are passed over. `PickedUpAlike` says that where there are deaths,
either every store is followed from its beginning or nothing is appended; `PickedUpTwice`
(section 4) is what happens otherwise. `Steady` is what it gives: recorded or not, no
position passes both what was handled and where the store was first picked up. `MCFeed` asserts
`PickedUpAlike` of the environments of `Feed_consumer`.

*Exporter.* `Shipping` ties the two halves: the row gathered ends where the row with the reader begins, what is
reported never passes what is gathered, and a store is due a report only
when the request with its whole row came back. `Shipped` then counts what the receiver has: all
entries from the first pick-up to each of the positions, so that a retry, which ships a row again,
and a refusal for good, after which it counts as shipped, keep it alike. For `LabelsAreOfTheirTime`,
`Labelling` follows the labels announced along reader, pipe and batch: they change only at a record
that announces them, and every entry carries those announced last before it (`Labelled`), which is what the
exporter has at the moment it takes the entry.

### Checked only

Liveness (fairness and `ENABLED` are beyond the prover), and these invariants, whose
modules have no proofs or whose proof would be long for what it shows: `ShownExactly` (`LiveTail`),
`OneShotDrains` (`Feed`), `PagesConcatenate` (`Paging`), `AnswersWhole` (`Selection`), `TapeIsTheLog` (`FileTail`), `ReimportIsIdempotent`
(`Import`), `WriterLeavesWell` (`Writer`), `BucketsTrue` (`Tally`). Several of them
compare with what a recursive definition or a fold over a whole sequence computes, which the prover
cannot take by itself: it does not instantiate the library's induction theorems, which have an operator as a
parameter. Where an induction is needed nevertheless, `SequenceFacts!LeastNumber` (a set of
numbers that is not empty has a least one) and `SetInduction` (a set that
has zero, and with each natural number the next, has them all) replace them.

The inductive invariants can be checked, too: `MCFileStore`, `MCHeadDrop`, `MCRegistry` and
`MCIntake` extend the proofs, so that `IndexInv`, `NumberInv`, `TapeInv`, `AckedInv`,
`WindowsInv` and `RunInv` can be added to the invariants of `FileStore_recovery`, `HeadInv` to
those of `HeadDrop_drops`, `RegistryInv` and `LossInv` to those of `Registry_floors`, `Inv` and `OutInv` to
those of `Intake_acks`, and hold there.

Some properties are stated in the modules and are in no run: those that only the
witnesses of section 4 are about (`SapMirrorsBuffer`, `NumbersDense`,
`DeliveryIsAtomic`, `ReadsOwnBytes`, `CounterRests`, `FollowerLives`,
`CutShortBySilence`, `SourcesInTurn`, `LimitedIsExact`, `Resumes`, `InOneLog`,
`WritesKept`, `DropsAsDeclared`, `IndexFollows`, `CountsAddUp`,
`ConsolesReleased`, `ToldIsTrue`, `OneProcess` (a theorem)), and weaker or narrower forms of
those the runs check (`SealTellsTruth`, `ChunksAreKept`, `TapeIsOneRun` (a theorem),
`DropsOnlyTheHead`, `TrunkDecodes`, `AddressesTrue`, `NoStoreStarves`,
`NoStandoff`, `OneSource`), which hold in the runs' environments and help to
read a counterexample.

## 6. Not modelled, and why

- Bytes: compression, checksums, record and header layouts, JSON, protobuf and
  HTTP framing. A record or frame is written whole or not at all; torn records are
  cut by the CRC check and appear as a shorter file. Formatting of what commands
  print, notes and the command line.
- `FileStore`: failures inside adopt, commit and the rename to a seal; the two
  `set_len` of `reset` as separate steps. A chunk's window and lengths are taken to
  identify it where a reader looks for it again, but in `KeysRecur`.
- Reads: backward reads (`--tail N` of a search), time windows, answers by whole
  chunks and bundles. Times appear where a decision depends on them: stamps in
  `FileTail` and `Import`, ages in `Registry`, event time in `Tally`.
- `Selection`: a regular expression is one whose literal part is known or not; tokens of
  3 to 64 bytes are words of two or three symbols.
- `FileTail`: of several candidates for the rotated file the right one is taken
  (`rotated_candidates` orders them by name and time).
- `Import`: what an import declares in the manifest. `Writer`: the contents of an index
  page, the text of a lineage, the validation of flags; a killed sink is not run again,
  as its pipe is gone.
- `Feed`: a selection that changes while the follower runs. `Exporter`: the flush of a
  batch on a relabel when its store has more to come in the same batch is not reached
  under the feed's rotation.
- `Relay`: several streams on one connection, one-shot requests (index mode,
  ranges), and the refusal of frames whose times run backwards.
- `Tally`: the language of extractors and the provisioning files; an entry is a shape
  that metrics take, read, or cannot read. The offline fold.
- `Intake`, `Console`: socket activation, rate limits, backoff times, labels.
- `Registry`: what `list` and `status` print.
- Not at all: export and bundles (a sequential copy of chosen chunks into a new store,
  beside which nothing runs), and forests, listing, store JSON and the command
  line (name resolution and presentation, no state that outlives a call).

## 7. Plan

Done since the first version, in the order planned: live tail, locks with rotation,
index extension, feed, acknowledgements, file tail, replication, mount, paging
and tally; beyond it import, selection, exporter, writers, console and registry.

Next:

1. `HeadDrop` again: a rename the file system refuses in `remove_head` leaves the
   counter odd, and a later drop by the same writer then shows readers an even counter
   inside its window; an environment for it, and what `StableReads` says.
2. `Paging`: backward reads and time windows, with the same abstract answer.
3. `Relay`: one-shot requests beside a live stream.
4. Theorems: `FileStore`'s `ChunksAreKept` from `IndexInv` and `NumberInv`, `LiveTail`'s
   `ShownExactly`; and `AckedAreDurable` with failing appends under OTLP, where the segment may
   have less than the buffer.
