----------------------------- MODULE MCFileTail -----------------------------
(***************************************************************************)
(* The environments TLC checks FileTail under, and those of Import and     *)
(* Writer.  A behaviour is of one of the three.                            *)
(***************************************************************************)
EXTENDS FileTail, Import, Writer

Tailed(stamps, how, events) == [stamps |-> stamps, deaths |-> how, events |-> events]

\* Lines with their own times, and all that a file and a tail can do; lines without,
\* as long as the tail is not restarted after a rotation.
Restarted == Tailed({"same", "later"}, {"crash", "stop"}, {"rotate", "gap"})
Running == Tailed({"none", "later"}, {}, {"rotate", "gap", "drop"})
Cut == Tailed({"same", "later"}, {}, {"rotate", "gap", "midLine", "truncate"})
Unrotated == Tailed({"none", "later"}, {"crash", "stop"}, {"drop"})
Retained == Tailed({"later"}, {"crash", "stop"}, {"rotate", "drop"})

NoTails == {}
Tails == {Restarted, Running, Cut, Unrotated, Retained}

------------------------------------------------------------------------------
\* Logs: with lines that have no stamp, lines that are alike, stamps that are.
Lines(texts, stamps) == [i \in DOMAIN texts |-> [text |-> texts[i], stamp |-> stamps[i]]]
Trace == Lines(<<"a", "b", "c", "d", "e">>, <<1, 0, 2, 2, 3>>)
Timed == Lines(<<"a", "b", "c", "d", "e">>, <<1, 2, 3, 4, 5>>)
Repeats == Lines(<<"a", "b", "b", "c", "c">>, <<1, 2, 2, 3, 3>>)
Headless == Lines(<<"a", "b", "c", "a", "e">>, <<0, 1, 2, 0, 3>>)

File(from, to) == [from |-> from, to |-> to, chunkEnds |-> <<>>]
Segment(from, to, cuts) == [from |-> from, to |-> to, chunkEnds |-> cuts]
Imports(log, written, batches, what) ==
    [log |-> log, written |-> written, batches |-> batches, happens |-> what]

Whole == {File(1, 0)}
Days == {{File(1, 3)}, {File(3, 5)}, {File(1, 3), File(3, 5)}}
Shipped == {{Segment(1, 2, <<1, 2>>)}, {Segment(3, 5, <<4, 5>>)},
            {Segment(1, 2, <<1, 2>>), Segment(3, 5, <<4, 5>>)}}

Kinds ==
    {Imports(log, 1, {Whole}, {"dies", "drops"}) : log \in {Trace, Repeats, Headless}}
    \cup {Imports(log, 5, Days, {"drops"}) : log \in {Trace, Repeats}}
    \cup {Imports(log, 5, {{File(1, 3), File(3, 5)}}, {"dies", "drops"}) : log \in {Trace, Repeats}}
    \cup {Imports(Trace, 5, Shipped, {"dies"}),
          Imports(Timed, 5, {{Segment(1, 3, <<2, 3>>)}, {File(1, 0)}, {File(3, 5)}}, {"dies"})}

------------------------------------------------------------------------------
\* Feeds, by the entries before each end of a stream.
Text == <<"entry", "entry", "entry">>
Stream == <<"entry", "entry", "end">>
Writes(command, feed, what) == [command |-> command, feed |-> feed, happens |-> what]

Commands ==
    {Writes("append", Text, {"broken", "signal", "kill", "drops", "indexed"}),
     Writes("append", Text, {"upgrade", "drops", "indexed"}),
     Writes("append", Text, {"signal", "upgrade"}),
     Writes("streaming", Stream, {"broken", "signal", "kill", "drops", "indexed"}),
     Writes("streaming", Stream, {"upgrade", "signal"}),
     Writes("atomic", Stream, {"broken", "kill", "drops", "indexed"})}

------------------------------------------------------------------------------
FileTailRests ==
    /\ env = Unrotated /\ produced = <<>> /\ half = FALSE /\ cutOff = {} /\ begins = <<1>>
    /\ inos = <<1>> /\ missing = FALSE /\ behind = FALSE
    /\ tape = <<>> /\ dropped = 0 /\ ends = <<>> /\ tpc = "rests"
    /\ held = 0 /\ offset = 0 /\ lastTs = 0 /\ leading = <<>> /\ waitsFrom = -1
    /\ plan = [file |-> 0, live |-> FALSE, head |-> 0, known |-> {}, until |-> 0] /\ taken = 1
    /\ deaths = 0

ImportRests ==
    /\ importing = Imports(<<>>, 0, {}, {}) /\ logged = 0
    /\ chunks = <<>> /\ buffered = <<>> /\ gone = <<>>
    /\ ipc = "idle" /\ batch = {} /\ jobs = <<>> /\ resumed = 0
    /\ observed = 0 /\ awaiting = <<>> /\ overlap = NoOverlap /\ reading = 0
    /\ read = {} /\ imported = {} /\ outcome = "none" /\ kills = 0 /\ begun = 0

WriterRests ==
    /\ writing = Writes("append", <<>>, {}) /\ offered = 0 /\ closed = "eof"
    /\ reads = 0 /\ complete = FALSE /\ mpc = "out" /\ result = "none" /\ stop = FALSE
    /\ filled = <<>> /\ expired = 0 /\ pending = <<>> /\ baseline = -1
    /\ filters = NoFilters /\ commit = NoCommit /\ inodeCount = 0
    /\ signalled = FALSE /\ upgraded = FALSE /\ wpc = "gone" /\ indexed = <<0, 0>>
    /\ ext = [t \in Threads |-> Idle] /\ manifest = "none"
    /\ falls = 0 /\ spilt = {} /\ exit = "none"

\* A behaviour is of a tail, of imports, or of a writer.
IntakeInit ==
    \/ FileTailInit /\ ImportRests /\ WriterRests
    \/ ImportInit /\ FileTailRests /\ WriterRests
    \/ WriterInit /\ FileTailRests /\ ImportRests

IntakeNext ==
    \/ tpc # "rests" /\ FileTailNext /\ UNCHANGED <<importVars, writerVars>>
    \/ ImportNext /\ UNCHANGED <<fileTailVars, writerVars>>
    \/ WriterNext /\ UNCHANGED <<fileTailVars, importVars>>

TailImportOrWriter ==
    /\ IntakeInit /\ [][IntakeNext]_<<fileTailVars, importVars, writerVars>>
    /\ WF_fileTailVars(TailStep /\ UNCHANGED <<importVars, writerVars>>)
    /\ WF_fileTailVars((EndLine \/ Recreate \/ Reopen) /\ UNCHANGED <<importVars, writerVars>>)

------------------------------------------------------------------------------
\* One each that breaks a property (README, disagreements).
Fragment == {Tailed({"later"}, {"stop"}, {"rotate", "midLine"})}
Late == {Tailed({"later"}, {}, {"rotate", "late"})}
Stale == {Tailed({"none", "later"}, {"stop"}, {"rotate"})}
HeadOfOneStamp == {Tailed({"same"}, {"stop"}, {"rotate", "drop"})}
Twice == {Tailed({"later"}, {}, {"rotate", "twice"})}
InStart == {Tailed({"later"}, {}, {"rotate", "inStart"})}
Hasty == {Tailed({"later"}, {}, {"truncate", "hasty"})}
Waiting == {Tailed({"none", "later"}, {}, {"truncate"})}
Unordered == {Tailed({"none", "later"}, {}, {"rotate", "midLine"})}

\* The same for Import (ReimportIsIdempotent).  Retention empties the store; an import dies
\* within a segment; its last flush fails; a file begins with lines of an entry the store
\* has; two files are cut between lines that are alike; stamps out of order at a cut.
Emptied == {Imports(Trace, 3, {Whole}, {"drops", "empties"})}
InOneStamp == {Imports(Trace, 5, {{File(1, 0)}, {Segment(1, 2, <<1, 2>>)}}, {"dies"})}
HalfDropped == {Imports(Trace, 5, Shipped, {"drops"})}
MidSegment == {Imports(Trace, 5, Shipped, {"dies", "midSegment"})}
FlushFails == {Imports(Trace, 3, {Whole}, {"flush"})}
CutInside == {Imports(Trace, 5, {{File(1, 2)}, {File(2, 5)}}, {})}
Interrupted == {Imports(Repeats, 5, Days, {"dies"})}
Twins == {Imports(Repeats, 5, {{File(1, 2)}, {File(3, 5)}}, {})}
Frames == {Imports(Lines(<<"a", "b", "t", "c", "t">>, <<1, 2, 0, 2, 0>>), 5, {{File(1, 4)}, {File(4, 5)}}, {})}
OutOfOrder ==
    {Imports(Lines(<<"a", "b", "c", "d">>, <<1, 3, 2, 4>>), 4, {{File(1, 3)}, {File(2, 4)}}, {})}

\* The same for Writer (WriterLeavesWell).  An entry is taken while the process leaves; an
\* append closes the store while it indexes; a second stream on one pipe is cut short.
Meanwhile == {Writes("streaming", Stream, {"signal", "meanwhile"})}
UpgradedMeanwhile == {Writes("append", Text, {"upgrade", "meanwhile"})}
Beside == {Writes("append", Text, {"indexed", "beside"})}
DroppedBeside == {Writes("append", Text, {"indexed", "beside", "drops"})}
SecondStream == {Writes("streaming", <<"entry", "end", "entry", "end">>, {})}
==============================================================================
