------------------------------- MODULE Mount -------------------------------
(***************************************************************************)
(* A mounted directory from the inside (fs.rs): the requests of the        *)
(* kernel, which one thread answers one after the other; the tables of     *)
(* inodes it answers them by; and the flusher, the thread that once a      *)
(* second applies each log's declared policy, writes aged buffers, and     *)
(* extends the filters.  Both take the mutex of the store, each for one    *)
(* operation; the tables, and the filters while they are extended, are     *)
(* outside it.                                                             *)
(*                                                                         *)
(* A log is the chunks it has and a buffer; a chunk is the entries in it.  *)
(* Locks, other processes and a crash between two renames are Directory's. *)
(***************************************************************************)
EXTENDS Directory

CONSTANTS Volumes

Handles == {"appender", "writer"}
Kinds == {"create", "unlink", "rename", "rotate", "truncate", "set"}

\* logs: those there are at first; retains, indexes: those that declare a policy, an index;
\* requests: what is asked besides writes and reads; troubles: a flush fails, a target
\* cannot be made; a manifest does not parse; the binary is upgraded; a log is moved,
\* or a name reused, while filters are extended, a policy is applied, or over one with
\* filters of its own.  budget, writes: how many requests, and writes, there are.
Volume ==
    [logs : SUBSET Names, retains : SUBSET Names, indexes : SUBSET Names,
     requests : SUBSET Kinds, handles : SUBSET Handles,
     troubles : SUBSET {"flush", "target", "garbled", "upgrade", "beside extending",
                        "beside retention", "over filters", "late"},
     budget : Nat, writes : 0 .. MaxEntries]

ASSUME MountAssumption == Volumes \subseteq Volume

VARIABLES
    volume,
    files,      \* per name: [id, recs, buf], or Absent
    sides,      \* per name: [bark, grain]; bark [stamp, retains, index, legible]
    inoName, nameIno, mirror, nextIno,  \* mirror: shared_inos, which the flusher has
    handle,     \* per handle: [ino, of, at, open]; of: the log the name stood for
    request,    \* one that is past its call of the store
    flusher,    \* [at, todo, policy, counts, out, seen]
    stamps, lastGood, indexed,          \* what the flusher remembers, by name
    written, gone, \* how many entries were written, and which a request or a policy let go
    made, asked

flusherVars == <<flusher, stamps, lastGood, indexed>>
tableVars == <<inoName, nameIno, mirror, nextIno>>
mountVars == <<volume, files, sides, tableVars, handle, request, flusherVars, written, gone,
               made, asked>>

------------------------------------------------------------------------------
NoVolume == [logs |-> {}, retains |-> {}, indexes |-> {}, requests |-> {}, handles |-> {},
             troubles |-> {}, budget |-> 0, writes |-> 0]
Absent == [id |-> 0, recs |-> <<>>, buf |-> <<>>]
NoBark == [stamp |-> 0, retains |-> FALSE, index |-> FALSE, legible |-> TRUE]
NoGrain == [ino |-> 0, filters |-> <<>>]
NotHeld == [ino |-> 0, of |-> 0, at |-> 0, open |-> FALSE]
Asleep == [at |-> "sleeps", todo |-> {}, name |-> "log", policy |-> FALSE,
           counts |-> [n \in Names |-> -1], out |-> NoGrain, seen |-> <<>>]
Served == [kind |-> "none", name |-> "log", to |-> "log", cut |-> 0, new |-> FALSE]
Trouble(t) == t \in volume.troubles

There(n) == files[n].id # 0
LogSize(f) == Len(FlattenSeq(f.recs)) + Len(f.buf)
EntriesOf(f) == Range(FlattenSeq(f.recs) \o f.buf)
Flushed(f) == IF f.buf = <<>> THEN f ELSE [f EXCEPT !.recs = Append(@, f.buf), !.buf = <<>>]

\* TimberFs::new, of the logs a mount finds.
Numbered(names) == CHOOSE f \in [names -> 2 .. 1 + Cardinality(names)] :
                       \A m, n \in names : m # n => f[m] # f[n]
NamesOf(f) == [i \in Range(f) |-> CHOOSE n \in DOMAIN f : f[n] = i]
Session(names) ==
    /\ nameIno = Numbered(names) /\ mirror = Numbered(names) /\ inoName = NamesOf(Numbered(names))
    /\ nextIno = 2 + Cardinality(names)

MountInit ==
    /\ volume \in Volumes
    /\ files = [n \in Names |-> IF n \in volume.logs
                                THEN [Absent EXCEPT !.id = IF n = "log" THEN 1 ELSE 2] ELSE Absent]
    /\ sides = [n \in Names |->
                   [bark |-> IF n \in volume.retains \cup volume.indexes
                             THEN [stamp |-> IF n = "log" THEN 1 ELSE 2,
                                   retains |-> n \in volume.retains,
                                   index |-> n \in volume.indexes, legible |-> TRUE]
                             ELSE NoBark,
                    grain |-> NoGrain]]
    /\ Session(volume.logs)
    /\ handle = [h \in Handles |-> NotHeld] /\ request = Served /\ flusher = Asleep
    /\ stamps = [n \in Names |-> -1] /\ lastGood = [n \in Names |-> FALSE]
    /\ indexed = [n \in Names |-> -1]
    /\ written = 0 /\ gone = {} /\ made = 2 /\ asked = 0

------------------------------------------------------------------------------
\* The session answers the next request when it is through with one; the store's mutex is
\* free but in the middle of a cut.
Ready == request = Served
MutexFree == request.kind # "cuts"
Ask(kind) ==
    /\ Ready /\ kind \in volume.requests /\ asked < volume.budget /\ asked' = asked + 1
    /\ (kind # "set" /\ flusher.at \in {"reads", "installs"}) => Trouble("beside extending")
    /\ (kind # "set" /\ flusher.at = "enforces") => Trouble("beside retention")

\* The kernel keeps the offset of a handle that does not append.
AtEnd(h, f) == IF h = "appender" THEN 0 ELSE LogSize(f)

\* lookup, and open by the inode it gave: the name may be another log's by then.
Lookup(h, n) ==
    /\ Ready /\ h \in volume.handles /\ handle[h] = NotHeld
    /\ n \in DOMAIN nameIno /\ There(n)
    /\ handle' = [handle EXCEPT ![h] = [ino |-> nameIno[n], of |-> files[n].id,
                                        at |-> AtEnd(h, files[n]), open |-> FALSE]]
    /\ UNCHANGED <<volume, files, sides, tableVars, request, flusherVars, written, gone, made, asked>>

Open(h) ==
    /\ Ready /\ handle[h] # NotHeld /\ ~handle[h].open
    /\ handle' = [handle EXCEPT ![h] = IF @.ino \in DOMAIN inoName THEN [@ EXCEPT !.open = TRUE]
                                       ELSE NotHeld]
    /\ UNCHANGED <<volume, files, sides, tableVars, request, flusherVars, written, gone, made, asked>>

\* HashMap::insert and remove.
With(f, x, y) == [z \in DOMAIN f \cup {x} |-> IF z = x THEN y ELSE f[z]]
Without(f, xs) == [x \in DOMAIN f \ xs |-> f[x]]

\* assign_ino: a name that has an inode keeps it.
Assigned(n) ==
    IF n \in DOMAIN nameIno THEN UNCHANGED tableVars
    ELSE /\ nameIno' = With(nameIno, n, nextIno) /\ inoName' = With(inoName, nextIno, n)
         /\ mirror' = With(mirror, n, nextIno) /\ nextIno' = nextIno + 1

\* A log the store has already is not made again.
Create(h, n) ==
    /\ Ask("create") /\ h \in volume.handles /\ handle[h] = NotHeld
    /\ n \notin DOMAIN nameIno \/ ~There(n)
    /\ IF There(n) THEN UNCHANGED <<files, made>>
       ELSE files' = [files EXCEPT ![n] = [Absent EXCEPT !.id = made + 1]] /\ made' = made + 1
    /\ Assigned(n)
    /\ handle' = [handle EXCEPT ![h] = [ino |-> nameIno'[n], of |-> files'[n].id, at |-> 0, open |-> TRUE]]
    /\ UNCHANGED <<volume, sides, request, flusherVars, written, gone>>

\* The log a handle's inode stands for, if any.
Answers(h) == handle[h].open /\ handle[h].ino \in DOMAIN inoName /\ There(inoName[handle[h].ino])
LogOf(h) == inoName[handle[h].ino]

\* A handle that appends writes at the end wherever the kernel thinks that is; any other has
\* to be there.  Two entries fill a buffer.
Accepts(h) == h = "appender" \/ handle[h].at = LogSize(files[LogOf(h)])
WriteAt(h) ==
    /\ Ready /\ Answers(h) /\ Accepts(h) /\ written < volume.writes /\ written' = written + 1
    /\ LET n == LogOf(h)
           f == [files[n] EXCEPT !.buf = Append(@, written')]
       IN  /\ files' = [files EXCEPT ![n] = IF Len(f.buf) = 2 THEN Flushed(f) ELSE f]
           /\ handle' = [handle EXCEPT ![h].at = AtEnd(h, f)]
    /\ UNCHANGED <<volume, sides, tableVars, request, flusherVars, gone, made, asked>>

\* flush, fsync, and release, which comes last.
FlushFile(h) ==
    /\ Ready /\ handle[h].open
    /\ files' = IF Answers(h) THEN [files EXCEPT ![LogOf(h)] = Flushed(@)] ELSE files
    /\ handle' \in {handle, [handle EXCEPT ![h] = NotHeld]}
    /\ <<files', handle'>> # <<files, handle>>
    /\ UNCHANGED <<volume, sides, tableVars, request, flusherVars, written, gone, made, asked>>

\* setattr: only to nothing, which starts the log over.
RestartedBelow(n) ==
    files' = [files EXCEPT ![n] = [@ EXCEPT !.recs = <<>>, !.buf = <<>>]] /\ UNCHANGED sides
Restarted(n) ==
    /\ files' = [files EXCEPT ![n] = [@ EXCEPT !.recs = <<>>, !.buf = <<>>]]
    /\ sides' = [sides EXCEPT ![n].grain = NoGrain]
Truncate(n) ==
    /\ Ask("truncate") /\ n \in DOMAIN nameIno /\ There(n) /\ LogSize(files[n]) > 0
    /\ Restarted(n) /\ gone' = gone \cup EntriesOf(files[n])
    /\ UNCHANGED <<volume, tableVars, handle, request, flusherVars, written, made>>

\* unlink, in the store and then in the tables.
Unlink(n) ==
    /\ Ask("unlink") /\ There(n)
    /\ files' = [files EXCEPT ![n] = Absent] /\ gone' = gone \cup EntriesOf(files[n])
    /\ sides' = [sides EXCEPT ![n] = [bark |-> NoBark, grain |-> NoGrain]]
    /\ request' = [Served EXCEPT !.kind = "unlink", !.name = n]
    /\ UNCHANGED <<volume, tableVars, handle, flusherVars, written, made>>

ForgetOnlyName(n) ==
    nameIno' = Without(nameIno, {n}) /\ mirror' = Without(mirror, {n}) /\ UNCHANGED inoName
ForgetName(n) ==
    /\ inoName' = Without(inoName, IF n \in DOMAIN nameIno THEN {nameIno[n]} ELSE {})
    /\ nameIno' = Without(nameIno, {n}) /\ mirror' = Without(mirror, {n})
Unlinked ==
    /\ request.kind = "unlink" /\ ForgetName(request.name) /\ request' = Served
    /\ UNCHANGED <<volume, files, sides, nextIno, handle, flusherVars, written, gone, made, asked>>

\* rename: the buffer is flushed, the target dropped, and the sidecars there are moved.
MovedSides(o, n) ==
    [m \in Names |->
        IF m = n THEN [bark |-> IF sides[o].bark = NoBark THEN sides[n].bark ELSE sides[o].bark,
                       grain |-> IF sides[o].grain = NoGrain THEN sides[n].grain ELSE sides[o].grain]
        ELSE IF m = o THEN [bark |-> NoBark, grain |-> NoGrain] ELSE sides[m]]
Rename(o, n) ==
    /\ Ask("rename") /\ o # n /\ There(o)
    /\ sides[o].grain = NoGrain => sides[n].grain = NoGrain \/ Trouble("over filters")
    /\ files' = [files EXCEPT ![n] = Flushed(files[o]), ![o] = Absent]
    /\ sides' = MovedSides(o, n) /\ gone' = gone \cup EntriesOf(files[n])
    /\ request' = [Served EXCEPT !.kind = "rename", !.name = o, !.to = n]
    /\ UNCHANGED <<volume, tableVars, handle, flusherVars, written, made>>

\* The target's inode goes, and the log's goes on under the new name.
Renamed ==
    LET o == request.name  n == request.to
        over == IF n \in DOMAIN nameIno THEN {nameIno[n]} ELSE {}
    IN  /\ request.kind = "rename" /\ request' = Served
        /\ IF o \in DOMAIN nameIno
           THEN /\ nameIno' = [m \in (DOMAIN nameIno \cup {n}) \ {o} |->
                                  IF m = n THEN nameIno[o] ELSE nameIno[m]]
                /\ inoName' = [i \in DOMAIN inoName \ over |->
                                  IF i = nameIno[o] THEN n ELSE inoName[i]]
                /\ mirror' = [m \in (DOMAIN mirror \cup {n}) \ {o} |->
                                  IF m = n THEN nameIno[o] ELSE mirror[m]]
           ELSE /\ nameIno' = Without(nameIno, {n}) /\ inoName' = Without(inoName, over)
                /\ mirror' = Without(mirror, {o})
        /\ UNCHANGED <<volume, files, sides, nextIno, handle, flusherVars, written, gone, made, asked>>

------------------------------------------------------------------------------
\* setxattr user.timberfs.rotate: rotate_head under the mutex.  A buffer that began before
\* the cutoff is flushed; the chunks before it go to the target, if one is named; then the
\* source's pair, and its filters after it, are cut.
NewestIn(f) == LET s == FlattenSeq(f.recs) IN IF s = <<>> THEN 0 ELSE s[Len(s)]
FitsAfter(f, chunks) == NewestIn(Flushed(f)) <= chunks[1][1]
Dropped(f, k) == [f EXCEPT !.recs = SubSeq(@, k + 1, Len(@))]
FiltersCut(g, k, ino) ==
    IF g = NoGrain \/ Len(g.filters) < k THEN NoGrain
    ELSE [ino |-> ino, filters |-> SubSeq(g.filters, k + 1, Len(g.filters))]

\* Nothing before the cutoff: refused if that is what is asked, and else an empty target is
\* made, which may fail and is only said to.
RotateNothing(n, to) ==
    /\ Ask("rotate") /\ n \in DOMAIN nameIno /\ There(n) /\ to # n
    /\ \/ UNCHANGED <<files, request, made>>
       \/ /\ request' = [Served EXCEPT !.kind = "rotated", !.name = n, !.to = to, !.new = ~There(to)]
          /\ \E makes \in {TRUE, ~Trouble("target")} :
                /\ made' = made + 1
                /\ files' = IF There(to) \/ ~makes THEN files
                            ELSE [files EXCEPT ![to] = [Absent EXCEPT !.id = made']]
    /\ UNCHANGED <<volume, sides, tableVars, handle, flusherVars, written, gone>>

Rotate(n, to) ==
    /\ Ask("rotate") /\ n \in DOMAIN nameIno /\ There(n) /\ to # n
    /\ \E flush \in BOOLEAN, k \in 1 .. MaxEntries, deletes \in BOOLEAN :
        LET source == IF flush THEN Flushed(files[n]) ELSE files[n]
            moved == SubSeq(source.recs, 1, k)
            target == IF There(to) THEN Flushed(files[to]) ELSE [Absent EXCEPT !.id = made + 1]
        IN  /\ k <= Len(source.recs)
            /\ deletes => There(to)
            /\ IF deletes
               THEN /\ files' = [files EXCEPT ![n] = Dropped(source, k)]
                    /\ gone' = gone \cup Range(FlattenSeq(moved)) /\ UNCHANGED made
                    /\ request' = [Served EXCEPT !.kind = "cuts", !.name = n, !.to = n, !.cut = k]
               ELSE /\ UNCHANGED gone /\ made' = made + 1
                    /\ IF FitsAfter(target, moved)
                       THEN /\ files' = [files EXCEPT ![n] = Dropped(source, k),
                                                      ![to] = [target EXCEPT !.recs = @ \o moved]]
                            /\ request' = [Served EXCEPT !.kind = "cuts", !.name = n, !.to = to,
                                                         !.cut = k, !.new = ~There(to)]
                       ELSE files' = [files EXCEPT ![n] = source, ![to] = target] /\ UNCHANGED request
    /\ UNCHANGED <<volume, sides, tableVars, handle, flusherVars, written>>

CutFilters ==
    /\ request.kind = "cuts" /\ made' = made + 1
    /\ sides' = [sides EXCEPT ![request.name].grain = FiltersCut(@, request.cut, made')]
    /\ request' = IF request.to = request.name THEN Served ELSE [request EXCEPT !.kind = "rotated"]
    /\ UNCHANGED <<volume, files, tableVars, handle, flusherVars, written, gone, asked>>

\* The target has an inode from now on, and a derived manifest if it is new.
Rotated ==
    /\ request.kind = "rotated" /\ request' = Served /\ Assigned(request.to)
    /\ IF request.new
       THEN /\ made' = made + 1
            /\ sides' = [sides EXCEPT ![request.to].bark = [NoBark EXCEPT !.stamp = made']]
       ELSE UNCHANGED <<sides, made>>
    /\ UNCHANGED <<volume, files, handle, flusherVars, written, gone, asked>>

\* `timberfs set`, by another process, on a log that is mounted.
SetPolicy(n) ==
    /\ Ask("set") /\ There(n) /\ made' = made + 1
    /\ \E retains, index, legible \in BOOLEAN :
        /\ legible \/ Trouble("garbled")
        /\ sides' = [sides EXCEPT ![n].bark = [stamp |-> made', retains |-> retains,
                                               index |-> index, legible |-> legible]]
    /\ UNCHANGED <<volume, files, tableVars, handle, request, flusherVars, written, gone>>

------------------------------------------------------------------------------
\* The flusher's second.  An upgraded binary ends it all once everything is flushed.
At(step) == flusher.at = step
Present == {n \in Names : There(n)}
FirstOf(names) == IF "log" \in names THEN "log" ELSE "old"  \* a BTreeMap is in order
Tick ==
    /\ At("sleeps") /\ MutexFree
    /\ flusher' = [Asleep EXCEPT !.at = "polls", !.todo = Present]
    /\ UNCHANGED <<volume, files, sides, tableVars, handle, request, stamps, lastGood, indexed,
                   written, gone, made, asked>>

\* A manifest is read again when it has changed, and a policy kept while it does not parse.
Policy(n) ==
    IF stamps[n] = sides[n].bark.stamp \/ ~sides[n].bark.legible THEN lastGood[n]
    ELSE sides[n].bark.retains
ReadPolicy ==
    LET n == FirstOf(flusher.todo) IN
    /\ At("polls") /\ flusher.todo # {}
    /\ stamps' = [stamps EXCEPT ![n] = sides[n].bark.stamp]
    /\ lastGood' = [lastGood EXCEPT ![n] = Policy(n)]
    /\ flusher' = [flusher EXCEPT !.todo = @ \ {n}, !.name = n, !.at = IF Policy(n) THEN "enforces" ELSE @]
    /\ UNCHANGED <<volume, files, sides, tableVars, handle, request, indexed, written, gone, made,
                   asked>>

\* enforce_retention of whatever has the name by now.
Enforce ==
    LET n == flusher.name  f == files[n]
    IN  /\ At("enforces") /\ MutexFree /\ flusher' = [flusher EXCEPT !.at = "polls"]
        /\ IF f.recs = <<>> THEN UNCHANGED <<files, sides, gone, made>>
           ELSE \E k \in 0 .. Len(f.recs) :
                    /\ files' = [files EXCEPT ![n] = Dropped(f, k)]
                    /\ gone' = gone \cup Range(FlattenSeq(SubSeq(f.recs, 1, k)))
                    /\ IF k = 0 THEN UNCHANGED <<sides, made>>
                       ELSE /\ sides' = [sides EXCEPT ![n].grain = FiltersCut(@, k, made + 1)]
                            /\ made' = made + 1
        /\ UNCHANGED <<volume, tableVars, handle, request, stamps, lastGood, indexed, written, asked>>

\* flush_aged, of the buffers old enough by now.
FlushAged ==
    /\ At("polls") /\ flusher.todo = {} /\ MutexFree
    /\ \E aged \in SUBSET {n \in Names : files[n].buf # <<>>} :
           files' = [n \in Names |-> IF n \in aged THEN Flushed(files[n]) ELSE files[n]]
    /\ flusher' = [flusher EXCEPT !.at = "counts"]
    /\ UNCHANGED <<volume, sides, tableVars, handle, request, stamps, lastGood, indexed, written,
                   gone, made, asked>>

\* Which logs have another number of chunks than when they were last extended; a log that is
\* not there any more is forgotten.
ChunkCount(n) == IF There(n) THEN Len(files[n].recs) ELSE -1
Counts ==
    /\ At("counts") /\ MutexFree
    /\ indexed' = [n \in Names |-> IF There(n) THEN indexed[n] ELSE -1]
    /\ flusher' = [flusher EXCEPT !.at = "indexes", !.counts = [n \in Names |-> ChunkCount(n)],
                                  !.todo = {n \in Present : indexed[n] # ChunkCount(n)}]
    /\ UNCHANGED <<volume, files, sides, tableVars, handle, request, stamps, lastGood, written,
                   gone, made, asked>>

\* extend_grain opens the filters there are, and sees what they cover;
OpenGrain ==
    LET n == FirstOf(flusher.todo) IN
    /\ At("indexes") /\ flusher.todo # {}
    /\ request # Served => Trouble("beside extending")
    /\ flusher' = [flusher EXCEPT !.todo = @ \ {n}, !.name = n, !.out = sides[n].grain,
                                  !.at = IF sides[n].bark.index THEN "reads" ELSE @]
    /\ UNCHANGED <<volume, files, sides, tableVars, handle, request, stamps, lastGood, indexed,
                   written, gone, made, asked>>

\* then the index and the trunk, of the log that has the name by now: it starts anew when
\* they have fewer chunks than the filters cover;
ReadChunks ==
    LET n == flusher.name
        all == files[n].recs
        covers == Len(flusher.out.filters)
    IN  /\ At("reads")
        /\ flusher' = IF ~There(n) THEN [flusher EXCEPT !.at = "indexes"]
                      ELSE [flusher EXCEPT !.at = "installs", !.seen = all,
                                           !.out = IF covers > Len(all) THEN NoGrain ELSE @]
        /\ UNCHANGED <<volume, files, sides, tableVars, handle, request, stamps, lastGood, indexed,
                       written, gone, made, asked>>

\* and it writes, to the file it has opened, or a new one that takes its place.
Installed ==
    LET n == flusher.name  out == flusher.out
        more == SubSeq(flusher.seen, Len(out.filters) + 1, Len(flusher.seen))
    IN  IF out = NoGrain THEN [ino |-> made + 1, filters |-> flusher.seen]
        ELSE IF sides[n].grain.ino = out.ino THEN [out EXCEPT !.filters = @ \o more]
        ELSE sides[n].grain
Install ==
    /\ At("installs")
    /\ \/ /\ sides' = [sides EXCEPT ![flusher.name].grain = Installed]
          /\ made' = IF flusher.out = NoGrain THEN made + 1 ELSE made
          /\ indexed' = [indexed EXCEPT ![flusher.name] = flusher.counts[flusher.name]]
       \/ files[flusher.name].recs # flusher.seen /\ UNCHANGED <<sides, made, indexed>>
    /\ flusher' = [flusher EXCEPT !.at = "indexes", !.out = NoGrain, !.seen = <<>>]
    /\ UNCHANGED <<volume, files, tableVars, handle, request, stamps, lastGood, written, gone, asked>>

Doze ==
    /\ At("indexes") /\ flusher.todo = {} /\ flusher' = Asleep
    /\ UNCHANGED <<volume, files, sides, tableVars, handle, request, stamps, lastGood, indexed,
                   written, gone, made, asked>>

\* An upgraded binary: everything is flushed, the process exits, and the one on the new
\* binary mounts the directory again.
FlushAll ==
    /\ At("sleeps") /\ Trouble("upgrade") /\ asked < volume.budget /\ MutexFree
    /\ files' = [n \in Names |-> Flushed(files[n])]
    /\ flusher' = [flusher EXCEPT !.at = "exits"] /\ asked' = asked + 1
    /\ UNCHANGED <<volume, sides, tableVars, handle, request, stamps, lastGood, indexed, written,
                   gone, made>>

Remount ==
    /\ flusher.at = "exits" /\ MutexFree
    /\ (\E n \in Names : files[n].buf # <<>>) => Trouble("late")
    /\ files' = [n \in Names |-> [files[n] EXCEPT !.buf = <<>>]]
    /\ nameIno' = Numbered(Present) /\ mirror' = nameIno' /\ inoName' = NamesOf(nameIno')
    /\ nextIno' = 2 + Cardinality(Present)
    /\ handle' = [h \in Handles |-> NotHeld] /\ request' = Served /\ flusher' = Asleep
    /\ stamps' = [n \in Names |-> -1] /\ lastGood' = [n \in Names |-> FALSE]
    /\ indexed' = [n \in Names |-> -1]
    /\ UNCHANGED <<volume, sides, written, gone, made, asked>>

------------------------------------------------------------------------------
Flusher ==
    \/ Tick \/ Enforce \/ FlushAged \/ Counts \/ ReadChunks \/ Install \/ Doze \/ FlushAll \/ Remount
    \/ ReadPolicy \/ OpenGrain
Answer ==
    \/ Unlinked \/ Renamed \/ CutFilters \/ Rotated
    \/ \E h \in Handles :
           Open(h) \/ WriteAt(h) \/ FlushFile(h) \/ (\E n \in Names : Lookup(h, n) \/ Create(h, n))
    \/ \E n \in Names : Truncate(n) \/ Unlink(n) \/ SetPolicy(n)
    \/ \E o, n \in Names : Rename(o, n) \/ RotateNothing(o, n) \/ Rotate(o, n)
MountNext == volume # NoVolume /\ (Flusher \/ Answer)

\* Either some processes share a directory, or one has mounted it.
BothInit == DirInit /\ MountInit /\ (volume = NoVolume <=> env.runs # {})
BothNext ==
    \/ DirNext /\ UNCHANGED mountVars
    \/ MountNext /\ UNCHANGED dirVars
BothSpec == BothInit /\ [][BothNext]_<<dirVars, mountVars>>

------------------------------------------------------------------------------
\* The tables and the store agree between requests, and whatever was renamed, removed,
\* made again or moved since, a handle answers for the log its name stood for when it was
\* looked up, or for none.
TablesAgree ==
    /\ \A n \in DOMAIN nameIno : nameIno[n] \in DOMAIN inoName /\ inoName[nameIno[n]] = n
    /\ \A i \in DOMAIN inoName : inoName[i] \in DOMAIN nameIno /\ nameIno[inoName[i]] = i
    /\ mirror = nameIno /\ DOMAIN nameIno = Present
HandlesKeepTheirLog ==
    request = Served =>
        /\ TablesAgree
        /\ \A h \in Handles : Answers(h) => files[LogOf(h)].id = handle[h].of

\* grain.rs, "the single answer a search index must never give": the filter at a position is
\* of the chunk at that position.
FiltersTrue ==
    \A n \in Names :
        LET g == sides[n].grain
        IN  (There(n) /\ MutexFree) =>
                \A i \in DOMAIN g.filters : i <= Len(files[n].recs) => g.filters[i] = files[n].recs[i]

\* What a write was acknowledged for is in a log until a policy or a request lets it go.
WritesKept == 1 .. written \subseteq gone \cup UNION {EntriesOf(files[n]) : n \in Names}

\* A policy takes chunks of the log that declares it.
DropsAsDeclared ==
    [][Enforce /\ gone' # gone => sides[flusher.name].bark.retains]_mountVars

\* An index that stays declared follows its log.
FairMount == BothSpec /\ WF_mountVars(Flusher /\ UNCHANGED dirVars)
IndexFollows ==
    \A n \in Names :
        <>[](volume # NoVolume /\ There(n) /\ sides[n].bark.index /\ request = Served)
            => []<>(Len(sides[n].grain.filters) >= Len(files[n].recs))
=============================================================================
