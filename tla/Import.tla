------------------------------- MODULE Import -------------------------------
(***************************************************************************)
(* `timberfs import': files and shipped segments taken into a store        *)
(* (src/src/import.rs: cmd_import, classify_source, segment_present,       *)
(* overlap_line_counts; src/src/store.rs: append_frames).  An import may   *)
(* die at any point and is run again; nothing but the store says what has  *)
(* been taken.  Sources overlap, grow, and are handed over in any order,   *)
(* and retention drops the store's head in between.                        *)
(*                                                                         *)
(* What all sources come from is one log.  A source is a run of its lines: *)
(* a plain file, or the chunks another store made of them.                 *)
(***************************************************************************)
EXTENDS Integers, Sequences, SequencesExt, FiniteSetsExt

CONSTANTS
    FillsChunk,     \* lines that fill a chunk
    EndCheck,       \* TAIL_CHECK, in lines
    MaxKills,       \* bounds: deaths, and imports begun
    MaxImports,
    Importings

\* log: its lines, [text, stamp], the stamp the text has in it, 0 for none.  written: how many there are at first.
\* A source ends at line `to', or where the log does (0); chunkEnds: where a segment's
\* chunks end, empty for a plain file.  happens: an import is killed ("dies"), within a
\* segment ("midSegment"), its last flush fails ("flush"); retention drops ("drops") all it
\* holds, even ("empties").
Line == [text : STRING, stamp : Nat]
Source == [from : Nat \ {0}, to : Nat, chunkEnds : Seq(Nat)]
Importing ==
    [log : Seq(Line), written : Nat, batches : SUBSET (SUBSET Source),
     happens : SUBSET {"dies", "midSegment", "flush", "drops", "empties"}]

ASSUME ImportAssumption ==
    /\ {FillsChunk, EndCheck} \subseteq Nat \ {0} /\ {MaxKills, MaxImports} \subseteq Nat
    /\ \A i \in Importings :
         /\ i.log \in Seq(Line) /\ i.written \in 0 .. Len(i.log)
         /\ \A j, k \in DOMAIN i.log : i.log[j].text = i.log[k].text => i.log[j].stamp = i.log[k].stamp
         /\ \A b \in i.batches : \A s \in b : s \in Source /\ s.to <= Len(i.log)

VARIABLES
    importing,
    logged,     \* lines of the log there are
    chunks,     \* the store's: sequences of [text, stamp]
    buffered,
    gone,       \* history: what retention dropped
    ipc,        \* idle, places, feeds
    batch,      \* history: the sources of the last import, once the store took to one
    jobs,       \* those it has still to take, in order
    resumed,    \* lines of the one it resumes
    observed,   \* the Stamper's last_ts, 0 for none
    awaiting,   \* ... and the lines it holds until there is one
    overlap,    \* what the store has of the open source's window: [counts, until]
    reading,    \* the next line of the open source
    read,       \* history: lines of the log this import has read
    imported,   \* history: those of the imports that ended well
    outcome,    \* how it ended, or whether it was begun before
    kills, begun

importVars ==
    <<importing, logged, chunks, buffered, gone, ipc, batch, jobs, resumed, observed,
      awaiting, overlap, reading, read, imported, outcome, kills, begun>>

------------------------------------------------------------------------------
Mayhap(what) == what \in importing.happens
NoOverlap == [counts |-> <<>>, until |-> -1]

\* The store.
StampsOf(ls) == {ls[i].stamp : i \in DOMAIN ls}
FirstOf(c) == Min(StampsOf(c))
LastOf(c) == Max(StampsOf(c))
InChunks == FlattenSeq(chunks)
TapeEnd == Len(gone) + Len(InChunks) + Len(buffered)
LastStamp == IF buffered # <<>> THEN LastOf(buffered)
             ELSE IF chunks # <<>> THEN LastOf(Last(chunks)) ELSE 0

Flushed == IF buffered = <<>> THEN chunks ELSE Append(chunks, buffered)

\* append_stamped of lines in turn: a full buffer becomes a chunk.
Taken(ls) ==
    FoldLeft(LAMBDA s, l : IF Len(s.buffered) + 1 = FillsChunk
                           THEN [chunks |-> Append(s.chunks, Append(s.buffered, l)), buffered |-> <<>>]
                           ELSE [s EXCEPT !.buffered = Append(@, l)],
             [chunks |-> chunks, buffered |-> buffered], ls)

\* Sources.
Plain(s) == s.chunkEnds = <<>>
EndOf(s) == IF s.to = 0 THEN logged ELSE s.to
Covers(s) == s.from .. EndOf(s)
StampedIn(s) == {i \in Covers(s) : importing.log[i].stamp # 0}
StampOf(s) == importing.log[Min(StampedIn(s))].stamp

\* A segment's lines have the stamps another store gave them.
Inherited(s, i) ==
    LET before == {j \in s.from .. i : importing.log[j].stamp # 0}
    IN  importing.log[IF before = {} THEN Min(StampedIn(s)) ELSE Max(before)].stamp
SegmentLines(s, from, to) ==
    [k \in 1 .. to - from + 1 |->
        [text |-> importing.log[from + k - 1].text, stamp |-> Inherited(s, from + k - 1)]]
SegmentChunks(s) ==
    [k \in DOMAIN s.chunkEnds |->
        SegmentLines(s, IF k = 1 THEN s.from ELSE s.chunkEnds[k - 1] + 1, s.chunkEnds[k])]

\* segment_present: chunks are compared by their length and window.
Alike(a, b) == Len(a) = Len(b) /\ FirstOf(a) = FirstOf(b) /\ LastOf(a) = LastOf(b)
SegmentPresent(seg) ==
    \E at \in 0 .. Len(chunks) - Len(seg) : \A k \in DOMAIN seg : Alike(chunks[at + k], seg[k])

\* continuation: the store's ends are the file's, where they would be.
Texts(ls) == [k \in DOMAIN ls |-> ls[k].text]
FileTexts(s, from, to) == Texts(SubSeq(importing.log, s.from + from - 1, s.from + to - 1))
Continuation(s) ==
    LET n == Min({Len(InChunks), EndCheck})
    IN  IF Cardinality(Covers(s)) < TapeEnd THEN "tooSmall"
        ELSE IF /\ Texts(SubSeq(InChunks, Len(InChunks) - n + 1, Len(InChunks)))
                      = FileTexts(s, TapeEnd - n + 1, TapeEnd)
                /\ gone = <<>> => Texts(SubSeq(InChunks, 1, n)) = FileTexts(s, 1, n)
             THEN "yes" ELSE "differs"

\* overlap_line_counts: the lines from the first chunk whose window reaches t0.
FromChunk(cs, t0) == SelectInSeq(cs, LAMBDA c : LastOf(c) >= t0)
OverlapLineCounts(cs, t0) ==
    LET ls == FlattenSeq(SubSeq(cs, FromChunk(cs, t0), Len(cs)))
    IN  [t \in {ls[i].text : i \in DOMAIN ls} |->
            Cardinality({i \in DOMAIN ls : ls[i].text = t})]

------------------------------------------------------------------------------
ImportInit ==
    /\ importing \in Importings /\ logged = importing.written
    /\ chunks = <<>> /\ buffered = <<>> /\ gone = <<>>
    /\ ipc = "idle" /\ batch = {} /\ jobs = <<>> /\ resumed = 0
    /\ observed = 0 /\ awaiting = <<>> /\ overlap = NoOverlap /\ reading = 0
    /\ read = {} /\ imported = {} /\ outcome = "none" /\ kills = 0 /\ begun = 0

GrowLog ==
    /\ logged < Len(importing.log) /\ logged' = logged + 1
    /\ UNCHANGED <<importing, chunks, buffered, gone, ipc, batch, jobs, resumed, observed,
                   awaiting, overlap, reading, read, imported, outcome, kills, begun>>

\* The buffer goes with the process.
Ends(how) ==
    /\ ipc' = "idle" /\ outcome' = how /\ buffered' = <<>>
    /\ jobs' = <<>> /\ resumed' = 0 /\ observed' = 0 /\ awaiting' = <<>>
    /\ overlap' = NoOverlap /\ reading' = 0 /\ read' = {}

\* Sources with nothing in them are left out, the others put in the order of their first
\* stamps; a single plain one that continues the store is resumed.
Nonempty(b) == {s \in b : Covers(s) # {}}
InOrder(ss) == SetToSortSeq(ss, LAMBDA a, b : StampOf(a) < StampOf(b))
StartAlike(ss) == \E a, b \in ss : a # b /\ StampOf(a) = StampOf(b)

\* What an import ends with when it is refused; stuck, if it is one that was begun before.
Refused(again) == IF again THEN "stuck" ELSE "refused"

Resumes(ss) == chunks # <<>> /\ Cardinality(ss) = 1 /\ \A s \in ss : Plain(s)
ClaimsSame(s) == StampOf(s) = FirstOf(chunks[1])

BeginImport ==
    /\ ipc = "idle" /\ begun < MaxImports /\ begun' = begun + 1
    /\ \E b \in importing.batches :
         LET ss == Nonempty(b)
             one == CHOOSE s \in ss : TRUE
             is == IF Resumes(ss) THEN Continuation(one) ELSE "none"
             refused == StartAlike(ss) \/ (is \in {"tooSmall", "differs"} /\ ClaimsSame(one))
         IN  /\ ss # {} /\ \A s \in ss : StampedIn(s) # {}
             /\ batch' = IF refused THEN {} ELSE b
             /\ outcome' = CASE refused -> Refused(b = batch)
                             [] ~refused -> IF b = batch THEN "again" ELSE "first"
             /\ ipc' = IF refused THEN "idle" ELSE "places"
             /\ jobs' = IF refused THEN <<>> ELSE InOrder(ss)
             /\ resumed' = IF is = "yes" /\ ~refused THEN TapeEnd ELSE 0
             /\ observed' = IF refused THEN 0 ELSE LastStamp
    /\ UNCHANGED <<importing, logged, chunks, buffered, gone, awaiting, overlap, reading, read,
                   imported, kills>>

------------------------------------------------------------------------------
\* append_frames refuses chunks older than the store's end.
Job == Head(jobs)
NextJob == jobs' = Tail(jobs)
Fits(seg) == Flushed # <<>> => LastOf(Last(Flushed)) <= FirstOf(seg[1])

SkipSegment ==
    /\ ipc = "places" /\ jobs # <<>> /\ ~Plain(Job) /\ SegmentPresent(SegmentChunks(Job))
    /\ NextJob /\ read' = read \cup Covers(Job)
    /\ UNCHANGED <<importing, logged, chunks, buffered, gone, ipc, batch, resumed, observed,
                   awaiting, overlap, reading, imported, outcome, kills, begun>>

MergeSegment ==
    /\ ipc = "places" /\ jobs # <<>> /\ ~Plain(Job)
    /\ LET seg == SegmentChunks(Job)
       IN  /\ ~SegmentPresent(seg) /\ Fits(seg)
           /\ chunks' = Flushed \o seg /\ buffered' = <<>>
           /\ observed' = LastOf(Last(seg))
    /\ NextJob /\ read' = read \cup Covers(Job)
    /\ UNCHANGED <<importing, logged, gone, ipc, batch, resumed, awaiting, overlap, reading,
                   imported, outcome, kills, begun>>

\* Where a plain source lands: after the store's end, or inside its window, where what is
\* there already is counted; before it, it is refused.
Inside(s) == resumed = 0 /\ TapeEnd > Len(gone) /\ StampOf(s) <= LastStamp
Predates(s) == StampOf(s) < FirstOf(Flushed[1])

PlacePlain ==
    /\ ipc = "places" /\ jobs # <<>> /\ Plain(Job)
    /\ Inside(Job) => ~Predates(Job)
    /\ IF Inside(Job)
       THEN /\ chunks' = Flushed /\ buffered' = <<>>
            /\ overlap' = [counts |-> OverlapLineCounts(Flushed, StampOf(Job)), until |-> LastStamp]
       ELSE overlap' = NoOverlap /\ UNCHANGED <<chunks, buffered>>
    /\ reading' = Job.from + resumed /\ ipc' = "feeds"
    /\ UNCHANGED <<importing, logged, gone, batch, jobs, resumed, observed, awaiting, read,
                   imported, outcome, kills, begun>>

RefuseSource ==
    /\ ipc = "places" /\ jobs # <<>>
    /\ IF Plain(Job) THEN Inside(Job) /\ Predates(Job)
       ELSE ~SegmentPresent(SegmentChunks(Job)) /\ ~Fits(SegmentChunks(Job))
    /\ Ends(Refused(outcome = "again")) /\ chunks' = Flushed
    /\ batch' = {}
    /\ UNCHANGED <<importing, logged, gone, imported, kills, begun>>

\* One line.  Past the overlap the count is forgotten; a line it holds is skipped, and only
\* its stamp is kept; any other goes to the Stamper, which gives a line without a stamp the
\* last one seen, and holds those before the first.
PastOverlapAtIt(ts) == (IF ts # 0 THEN ts ELSE observed) >= overlap.until
PastOverlap(ts) == (IF ts # 0 THEN ts ELSE observed) > overlap.until
Known(l) == l.text \in DOMAIN overlap.counts /\ overlap.counts[l.text] > 0

FeedLine ==
    /\ ipc = "feeds" /\ reading <= EndOf(Job) /\ reading' = reading + 1
    /\ LET l == importing.log[reading]
           over == IF PastOverlap(l.stamp) THEN NoOverlap ELSE overlap
           ts == IF l.stamp # 0 THEN l.stamp ELSE observed
           fed == Taken([k \in 1 .. Len(awaiting) + 1 |->
                            [text |-> Append(awaiting, l.text)[k], stamp |-> ts]])
       IN  IF over # NoOverlap /\ Known(l)
           THEN /\ overlap' = [over EXCEPT !.counts[l.text] = @ - 1]
                /\ observed' = ts /\ UNCHANGED <<chunks, buffered, awaiting>>
           ELSE /\ overlap' = over
                /\ IF ts = 0
                   THEN awaiting' = Append(awaiting, l.text) /\ UNCHANGED <<chunks, buffered, observed>>
                   ELSE /\ chunks' = fed.chunks /\ buffered' = fed.buffered
                        /\ awaiting' = <<>> /\ observed' = ts
    /\ UNCHANGED <<importing, logged, gone, ipc, batch, jobs, resumed, read, imported, outcome,
                   kills, begun>>

EndSource ==
    /\ ipc = "feeds" /\ reading > EndOf(Job)
    /\ NextJob /\ resumed' = 0 /\ ipc' = "places" /\ read' = read \cup Job.from .. reading - 1
    /\ UNCHANGED <<importing, logged, chunks, buffered, gone, batch, observed, awaiting, overlap,
                   reading, imported, outcome, kills, begun>>

\* The end: what is buffered is flushed, and a failure of that is only logged; then the
\* declared retention, which may drop any head.
Drops(k, cs) == k = 0 \/ (Mayhap("drops") /\ (k < Len(cs) \/ Mayhap("empties")))

FinishImport ==
    /\ ipc = "places" /\ jobs = <<>>
    /\ \E cs \in {Flushed} \cup (IF Mayhap("flush") THEN {chunks} ELSE {}) :
       \E k \in 0 .. Len(cs) :
         /\ Drops(k, cs)
         /\ chunks' = SubSeq(cs, k + 1, Len(cs))
         /\ gone' = gone \o FlattenSeq(SubSeq(cs, 1, k))
    /\ imported' = imported \cup read
    /\ Ends("done")
    /\ UNCHANGED <<importing, logged, batch, kills, begun>>

\* A segment's chunks are recorded one by one; frames without a record are cut off at the
\* next open.
LeftBehind ==
    IF ipc = "places" /\ jobs # <<>> /\ Mayhap("midSegment")
    THEN LET seg == IF Plain(Job) THEN <<>> ELSE SegmentChunks(Job)
         IN  {chunks} \cup (IF Plain(Job) \/ SegmentPresent(seg) \/ ~Fits(seg) THEN {}
                            ELSE {Flushed \o SubSeq(seg, 1, k) : k \in 1 .. Len(seg) - 1})
    ELSE {chunks}

ImportDies ==
    /\ ipc # "idle" /\ Mayhap("dies") /\ kills < MaxKills /\ kills' = kills + 1
    /\ chunks' \in LeftBehind
    /\ batch' = IF ipc = "feeds" \/ read # {} \/ chunks' # chunks THEN batch ELSE {}
    /\ Ends("died")
    /\ UNCHANGED <<importing, logged, gone, imported, begun>>

ImportNext ==
    \/ GrowLog \/ BeginImport \/ SkipSegment \/ MergeSegment
    \/ PlacePlain \/ RefuseSource \/ FeedLine \/ EndSource \/ FinishImport \/ ImportDies

------------------------------------------------------------------------------
\* timberfs(1): "Re-importing is idempotent"; "the overlap is deduplicated line by line";
\* "re-running a shipping script is a no-op".  However often imports of overlapping and
\* growing sources are run, and wherever they were killed, no line of the log is in the
\* store's tape more often than in the log,
TimesIn(t, ls) == Cardinality({i \in DOMAIN ls : ls[i].text = t})
TimesAt(t, places) == Cardinality({i \in places : importing.log[i].text = t})
ImportTape == gone \o InChunks \o buffered
LogTexts == {importing.log[i].text : i \in DOMAIN importing.log}
NothingTwice == \A t \in LogTexts : TimesIn(t, ImportTape) <= TimesAt(t, 1 .. logged)

\* every line of a source whose import ended well is there as often as in the log,
NothingLeftOut == \A t \in LogTexts : TimesIn(t, ImportTape) >= TimesAt(t, imported)

\* and the import that was begun last, whatever became of it, is not refused when it is
\* run again, unless retention has dropped what would say that it is the same.
NeverStuck == outcome = "stuck" => gone # <<>>

ReimportIsIdempotent == NothingTwice /\ NothingLeftOut /\ NeverStuck
=============================================================================
