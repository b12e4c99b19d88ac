------------------------------ MODULE Paging ------------------------------
(***************************************************************************)
(* A search read page by page (src/src/query.rs: cmd_query, query_entries; *)
(* src/src/entry.rs: EntrySink; src/src/limits.rs: Limits::impose).        *)
(*                                                                         *)
(* One read goes through its stores in turn and stops at a bound: entries, *)
(* chunks or time.  It answers where each store got to; the caller hands   *)
(* the answer back as the next request's cursor.  An entry is a line that  *)
(* starts with a timestamp and the lines up to the next such; chunks end   *)
(* anywhere, in the middle of a line too.                                  *)
(*                                                                         *)
(* A tape is a sequence of cells; offsets count cells.  A cell is a whole  *)
(* line ("S" stamped, "H" stamped and holding the search term, "c" plain,  *)
(* "h" plain with the term) or the first part of one that a later cell     *)
(* ends ("s" stamped, "p" plain).  What is past the last chunk is in the   *)
(* write-ahead segment.                                                    *)
(***************************************************************************)
EXTENDS Integers, Sequences, SequencesExt, FiniteSetsExt

CONSTANTS
    Files,      \* the stores read, as strings, in the order they were named
    Cap,        \* ENTRY_CAP and LINE_CAP, in cells
    MaxGrow,    \* bound: cells appended while a walk runs
    Requests

\* tapes, cuts: per store, what it holds and where its chunks end.  kind: every
\* entry ("all"), or those that hold the term ("match").  max, chunks: the caller's
\* bounds, None for none; maxEntries, maxChunks: the machine's.  happens: the deadline
\* passes once something was delivered ("late"), before that ("early") or while stores
\* are opened ("lateOpening"), retention takes a chunk from under the read ("vanish"),
\* a store grows between walks ("grow"), and there is no token index ("unindexed").
None == -1
Request ==
    [tapes : [{Files[i] : i \in 1 .. Len(Files)} -> Seq({"S", "H", "c", "h", "s", "p"})],
     cuts : [{Files[i] : i \in 1 .. Len(Files)} -> Seq(Nat)],
     kind : {"all", "match"}, max : Nat \cup {None}, chunks : Nat \cup {None},
     maxEntries : Nat \cup {None}, maxChunks : Nat \cup {None},
     happens : SUBSET {"late", "early", "lateOpening", "vanish", "grow", "unindexed"}]

ASSUME PagingAssumption ==
    Cap \in Nat \ {0} /\ MaxGrow \in Nat /\ Requests \subseteq Request

VARIABLES
    ask,        \* the request
    tape, cuts, \* what the stores hold
    cursor,     \* per store, where the caller resumes it
    qpc,        \* asks, opens, reads, or has it all
    opened,     \* stores opened in this page
    at,         \* per store, the chunk it is at
    sinks,      \* per store, its EntrySink
    finished,   \* stores whose sink is closed
    out,        \* entries of this page: [id, begin, len]
    chunksOut,
    stoppedBy,
    limited,    \* the last answer's status
    given,      \* history: entries of the walk's pages
    seen        \* history: per store, how far the last page could see

pageVars == <<opened, at, sinks, finished, out, chunksOut, stoppedBy>>
pagingVars == <<ask, tape, cuts, cursor, qpc, pageVars, limited, given, seen>>

------------------------------------------------------------------------------
Ids == {Files[i] : i \in 1 .. Len(Files)}
Might(what) == what \in ask.happens
Stamped(cell) == cell \in {"S", "H", "s"}
Ends(cell) == cell \in {"S", "H", "c", "h"}
Hit(cell) == cell \in {"H", "h"}
Holds(cells) == \E i \in 1 .. Len(cells) : Hit(cells[i])
Least(a, b) == IF a < b THEN a ELSE b

\* Chunks: <<first cell, cell after the last>>, from zero.
Indexed(s) == IF cuts[s] = <<>> THEN 0 ELSE cuts[s][Len(cuts[s])]
Chunk(s, i) == <<IF i = 1 THEN 0 ELSE cuts[s][i - 1], cuts[s][i]>>
Cells(s, from, to) == SubSeq(tape[s], from + 1, to)

\* select_chunks: what the index lets through.
Selected(s) ==
    LET all == [i \in 1 .. Len(cuts[s]) |-> Chunk(s, i)]
    IN  IF ask.kind = "all" \/ Might("unindexed") THEN all
        ELSE SelectSeq(all, LAMBDA c : Holds(Cells(s, c[1], c[2])))

------------------------------------------------------------------------------
\* Limits::impose: bounds are lowered to the machine's, and one is supplied, in the
\* answer's unit, where the request names none.
Lowered(asked, ceiling) ==
    IF asked # None /\ ceiling # None THEN Least(asked, ceiling) ELSE asked

Imposed(q) ==
    LET unbounded == q.max = None /\ q.chunks = None
    IN  [entries |-> IF unbounded THEN q.maxEntries ELSE Lowered(q.max, q.maxEntries),
         chunks |-> Lowered(q.chunks, q.maxChunks)]

------------------------------------------------------------------------------
\* EntrySink, with the count it shares and the page it writes to.
NewSink == [line |-> <<>>, began |-> 0, midLine |-> FALSE,
            entry |-> <<>>, entryBegin |-> 0, emittedEnd |-> None, suppressed |-> 0]

\* k: a sink, the entries of the page so far, and the store they are of.
Kept(k) == ask.kind # "match" \/ Holds(k.sink.entry)
Emptied(k) == [k EXCEPT !.sink.entry = <<>>]

CloseEntry(k) ==
    LET max == Imposed(ask).entries
    IN  IF k.sink.entry = <<>> THEN k
        ELSE IF ~Kept(k) THEN Emptied(k)
        ELSE IF max # None /\ Len(k.out) >= max
             THEN [Emptied(k) EXCEPT !.sink.suppressed = @ + 1]
        ELSE [Emptied(k) EXCEPT !.out = Append(@, [id |-> k.id, begin |-> k.sink.entryBegin,
                                                   len |-> Len(k.sink.entry)])]

CloseAt(k, end) ==
    LET c == CloseEntry(k)
    IN  IF Len(c.out) > Len(k.out) THEN [c EXCEPT !.sink.emittedEnd = end] ELSE c

Begun(k, began, cells) ==
    [k EXCEPT !.sink.entryBegin = IF k.sink.entry = <<>> THEN began ELSE @,
              !.sink.entry = @ \o cells]

\* take_line.
TakeLine(k, cells, began, continues) ==
    IF ~continues /\ Stamped(cells[1]) THEN Begun(CloseAt(k, began), began, cells)
    ELSE IF Len(k.sink.entry) + Len(cells) > Cap THEN Begun(CloseEntry(k), began, cells)
    ELSE Begun(k, began, cells)

\* The line that has been accumulated is taken, and the next one begins at its end.
LineDone(k, end) ==
    TakeLine([k EXCEPT !.sink.line = <<>>, !.sink.began = end, !.sink.midLine = FALSE],
             k.sink.line, k.sink.began, k.sink.midLine)

\* Data with no newline in it goes on as fragments.
LineFragment(k) ==
    TakeLine([k EXCEPT !.sink.line = SubSeq(@, Cap + 1, Len(@)), !.sink.began = @ + Cap,
                       !.sink.midLine = TRUE],
             SubSeq(k.sink.line, 1, Cap), k.sink.began, k.sink.midLine)

\* push_chunk.
PushCell(k, i, cell, base) ==
    LET l == [k EXCEPT !.sink.line = Append(@, cell)]
    IN  IF Ends(cell) THEN LineDone(l, base + i) ELSE l

PushChunk(k, cells, base) ==
    LET begun == IF k.sink.line = <<>> THEN [k EXCEPT !.sink.began = base] ELSE k
        lines == FoldLeft(LAMBDA acc, i : PushCell(acc, i, cells[i], base), begun,
                          [i \in 1 .. Len(cells) |-> i])
    IN  FoldLeft(LAMBDA acc, i : LineFragment(acc), lines,
                 [i \in 1 .. Len(lines.sink.line) \div Cap |-> i])

\* discard_pending: the bound cut the entry off; the next page delivers it whole.
DiscardNothing(k) == k

DiscardPending(k) == [k EXCEPT !.sink.line = <<>>, !.sink.midLine = FALSE, !.sink.entry = <<>>]

Finish(k) ==
    LET end == k.sink.began + Len(k.sink.line)
    IN  CloseAt(IF k.sink.line = <<>> THEN k ELSE LineDone(k, end), end)

------------------------------------------------------------------------------
PagingInit ==
    /\ ask \in Requests /\ tape = ask.tapes /\ cuts = ask.cuts
    /\ cursor = [s \in Ids |-> None] /\ qpc = "asks"
    /\ opened = {} /\ at = [s \in Ids |-> 1] /\ sinks = [s \in Ids |-> NewSink]
    /\ finished = {} /\ out = <<>> /\ chunksOut = 0 /\ stoppedBy = ""
    /\ limited = FALSE /\ given = <<>> /\ seen = [s \in Ids |-> 0]

Sink(s) == [sink |-> sinks[s], out |-> out, id |-> s]
Left(s) == at[s] <= Len(Selected(s))

AskPage ==
    /\ qpc = "asks" /\ qpc' = "opens"
    /\ opened' = {} /\ sinks' = [s \in Ids |-> NewSink]
    /\ finished' = {} /\ out' = <<>> /\ chunksOut' = 0 /\ stoppedBy' = ""
    /\ UNCHANGED <<ask, tape, cuts, cursor, at, limited, given, seen>>

\* The stores are opened one by one, each at the first chunk its position is before
\* the end of.
NextFile == Min({i \in 1 .. Len(Files) : Files[i] \notin opened})

OpenStore ==
    /\ qpc = "opens" /\ opened # Ids
    /\ LET s == Files[NextFile]
           open == {i \in 1 .. Len(Selected(s)) : Selected(s)[i][2] > cursor[s]}
       IN  /\ opened' = opened \cup {s}
           /\ at' = [at EXCEPT ![s] = IF open = {} THEN Len(Selected(s)) + 1 ELSE Min(open)]
    /\ UNCHANGED <<ask, tape, cuts, cursor, qpc, sinks, finished, out, chunksOut, stoppedBy,
                   limited, given, seen>>

OpenedAll ==
    /\ qpc = "opens"
    /\ \/ opened = Ids /\ UNCHANGED stoppedBy
       \/ opened # Ids /\ Might("lateOpening") /\ stoppedBy' = "deadline"
    /\ qpc' = "reads"
    /\ UNCHANGED <<ask, tape, cuts, cursor, opened, at, sinks, finished, out, chunksOut,
                   limited, given, seen>>

\* emit_live_edge: what is in no chunk yet, for a read that resumes.
LiveEdge(k, s) ==
    IF cursor[s] # None /\ Indexed(s) < Len(tape[s])
    THEN LET from == IF cursor[s] > Indexed(s) THEN cursor[s] ELSE Indexed(s)
         IN  PushChunk(k, Cells(s, from, Len(tape[s])), from)
    ELSE k

\* One chunk of the first store that has one left, from where the position is in it.
Reading == {i \in 1 .. Len(Files) : Files[i] \in opened /\ Left(Files[i])}

StopAt(k) ==
    IF Imposed(ask).entries # None /\ Len(k.out) >= Imposed(ask).entries THEN "max.entries"
    ELSE IF Imposed(ask).chunks # None /\ chunksOut + 1 >= Imposed(ask).chunks THEN "max.chunks"
    ELSE ""

FinishStore(k, s) == Finish(LiveEdge(k, s))

ReadChunk ==
    /\ qpc = "reads" /\ stoppedBy = "" /\ Reading # {}
    /\ LET s == Files[Min(Reading)]
           c == Selected(s)[at[s]]
           from == IF cursor[s] > c[1] THEN cursor[s] ELSE c[1]
           k == PushChunk(Sink(s), Cells(s, from, c[2]), from)
           last == at[s] = Len(Selected(s)) /\ StopAt(k) = ""
           done == IF last THEN FinishStore(k, s) ELSE k
       IN  /\ at' = [at EXCEPT ![s] = @ + 1]
           /\ sinks' = [sinks EXCEPT ![s] = done.sink] /\ out' = done.out
           /\ stoppedBy' = StopAt(k)
           /\ chunksOut' = IF StopAt(k) = "max.entries" THEN chunksOut ELSE chunksOut + 1
           /\ finished' = IF last THEN finished \cup {s} ELSE finished
    /\ UNCHANGED <<ask, tape, cuts, cursor, qpc, opened, limited, given, seen>>

\* read_chunk finds that retention has taken it.
ChunkVanished ==
    /\ qpc = "reads" /\ stoppedBy = "" /\ Reading # {} /\ Might("vanish")
    /\ at' = [at EXCEPT ![Files[Min(Reading)]] = @ + 1]
    /\ UNCHANGED <<ask, tape, cuts, cursor, qpc, opened, sinks, finished, out, chunksOut,
                   stoppedBy, limited, given, seen>>

DeadlinePasses ==
    /\ qpc = "reads" /\ stoppedBy = "" /\ Reading # {} 
    /\ Might("early") \/ (Might("late") /\ out # <<>>)
    /\ stoppedBy' = "deadline"
    /\ UNCHANGED <<ask, tape, cuts, cursor, qpc, opened, at, sinks, finished, out, chunksOut,
                   limited, given, seen>>

\* What is left open: cut off where chunks remain, else finished; in order.  Then a
\* position for every store that was opened: past the last entry delivered, or where
\* it was resumed.
ClosedByBound(k) ==
    IF k.id \in finished THEN k
    ELSE IF stoppedBy # "" THEN Finish(DiscardPending(k)) ELSE FinishStore(k, k.id)

Closed(k) ==
    IF k.id \in finished THEN k
    ELSE IF Left(k.id) THEN Finish(DiscardPending(k)) ELSE FinishStore(k, k.id)

CloseStores ==
    FoldLeft(LAMBDA acc, s :
                 LET k == Closed([sink |-> sinks[s], out |-> acc.out, id |-> s])
                 IN  [out |-> k.out, sinks |-> [acc.sinks EXCEPT ![s] = k.sink]],
             [out |-> out, sinks |-> sinks], SelectSeq(Files, LAMBDA s : s \in opened))

Position(s, sink) == IF sink.emittedEnd # None THEN sink.emittedEnd ELSE cursor[s]

\* status: a bound fired, chunks are left, or a sink dropped an entry at the cap.
Limited(ss) == stoppedBy # "" \/ \E s \in opened : Left(s) \/ ss[s].suppressed > 0

AnswerPage ==
    /\ qpc = "reads" /\ (stoppedBy # "" \/ Reading = {})
    /\ LET c == CloseStores
       IN  /\ out' = c.out /\ sinks' = c.sinks
           /\ given' = given \o c.out
           /\ cursor' = [s \in Ids |->
                            IF s \in opened THEN Position(s, c.sinks[s]) ELSE None]
           /\ limited' = Limited(c.sinks)
           /\ seen' = [s \in Ids |-> IF cursor[s] # None THEN Len(tape[s]) ELSE Indexed(s)]
    /\ qpc' = (IF limited' THEN "asks" ELSE "done")
    /\ UNCHANGED <<ask, tape, cuts, opened, at, finished, chunksOut, stoppedBy>>

\* After an answer a store is appended to, or flushed; a caller that follows asks on.
Grow ==
    /\ qpc = "done" /\ Might("grow") /\ qpc' = "asks"
    /\ \E s \in Ids :
         \/ /\ Len(tape[s]) < Len(ask.tapes[s]) + MaxGrow
            /\ tape' = [tape EXCEPT ![s] = Append(@, "S")] /\ UNCHANGED cuts
         \/ /\ Indexed(s) < Len(tape[s])
            /\ cuts' = [cuts EXCEPT ![s] = Append(@, Len(tape[s]))] /\ UNCHANGED tape
    /\ UNCHANGED <<ask, cursor, pageVars, limited, given, seen>>

ReadingSteps == ReadChunk \/ ChunkVanished \/ DeadlinePasses \/ AnswerPage

PagingNext == AskPage \/ OpenStore \/ OpenedAll \/ ReadingSteps \/ Grow

PagingSpec == PagingInit /\ [][PagingNext]_pagingVars

\* The read goes on by itself.  (WF of its reading steps, written out: one of them is
\* enabled exactly while qpc is "reads".)
KeepsReading == <>[](qpc = "reads") => []<><<ReadingSteps>>_pagingVars

FairPaging ==
    PagingSpec /\ WF_pagingVars(AskPage \/ OpenStore \/ OpenedAll) /\ KeepsReading

------------------------------------------------------------------------------
Of(es, s) == SelectSeq(es, LAMBDA e : e.id = s)

\* Entries by definition: from each stamped line to the next, the whole of a store.
LineStarts(s) == {p \in 0 .. Len(tape[s]) - 1 : p = 0 \/ Ends(tape[s][p])}
EntryStarts(s) == {p \in LineStarts(s) : p = 0 \/ Stamped(tape[s][p + 1])}
EntryEnd(s, p) == Min({q \in EntryStarts(s) : q > p} \cup {Len(tape[s])})
Wanted(s) ==
    {p \in EntryStarts(s) : ask.kind = "all" \/ Holds(Cells(s, p, EntryEnd(s, p)))}
AnswerTo(s, end) ==
    LET begins == SetToSortSeq({p \in Wanted(s) : p < end}, <)
    IN  [i \in 1 .. Len(begins) |->
            [id |-> s, begin |-> begins[i], len |-> EntryEnd(s, begins[i]) - begins[i]]]

\* The pages of a walk are the one answer cut in pieces: no entry twice, none left
\* out, none in part, whatever bound stopped a page and wherever the chunks are cut;
\* and the page that says it is exhausted is the end of it.
PagesConcatenate ==
    /\ \A s \in Ids : IsPrefix(Of(given, s), AnswerTo(s, Len(tape[s])))
    /\ qpc = "done" => \A s \in Ids : Of(given, s) = AnswerTo(s, seen[s])

\* Within a page each store is drained before the next.
Turn(e) == CHOOSE i \in 1 .. Len(Files) : Files[i] = e.id
SourcesInTurn == \A i, j \in 1 .. Len(out) : i < j => Turn(out[i]) <= Turn(out[j])

\* A caller that asks on as long as answers are limited comes to the end.
WalkEnds == (qpc = "asks" ~> qpc = "done")

\* limited is exact: it never says more of a walk that has been given everything.
LimitedIsExact ==
    qpc = "asks" /\ limited => \E s \in Ids : Of(given, s) # AnswerTo(s, seen[s])
==============================================================================
