----------------------------- MODULE FileTail -----------------------------
(***************************************************************************)
(* `timberfs import --follow': a store kept level with a log file another  *)
(* program writes (src/src/follow.rs, with the comparisons of              *)
(* src/src/import.rs).  The file is written, rotated and truncated beside  *)
(* it; the tail dies and starts again, and has no position but the store.  *)
(*                                                                         *)
(* The unit is the line.  Lines are numbered as they are produced, so that *)
(* a file is a run of numbers and no two lines are alike; produced[i] is   *)
(* the time line i is stamped with, 0 if it has no timestamp.              *)
(***************************************************************************)
EXTENDS Integers, Sequences, SequencesExt, FiniteSetsExt

CONSTANTS
    ChunkSize,      \* lines that fill a chunk
    TailCheck,      \* TAIL_CHECK and SEARCH_MIN, in lines
    SearchMin,
    MaxLines,       \* bounds: lines, files and deaths of the tail
    MaxFiles,
    MaxDeaths,
    Environments

\* stamps: lines may have none, the time of the one before, or a later one.  events:
\* the file is rotated, is missing between that and its successor, is truncated in
\* place, is rotated in mid-line, rotated once more than the tail can have seen
\* ("twice"), rotated while the tail starts ("inStart"), written to under its old name
\* ("late"), truncated with lines unread ("hasty"), and retention drops the head.
Environment ==
    [stamps : SUBSET {"none", "same", "later"}, deaths : SUBSET {"crash", "stop"},
     events : SUBSET {"rotate", "gap", "truncate", "midLine", "twice", "inStart", "late",
                      "hasty", "drop"}]

ASSUME FileTailAssumption ==
    /\ {ChunkSize, TailCheck, SearchMin, MaxLines, MaxFiles} \subseteq Nat \ {0}
    /\ MaxDeaths \in Nat /\ SearchMin <= TailCheck
    /\ Environments \subseteq Environment

VARIABLES
    env,
    produced,   \* the lines, by their stamps
    half,       \* the last line has not got its newline yet
    cutOff,     \* lines that never will
    begins,     \* per file, oldest first, the first line it holds
    inos,       \* per file, its inode; a truncated file keeps it
    missing,    \* nothing has the file's name
    behind,     \* the producer still writes to the file before the last
    tape,       \* all the store ever held: [line, stamp, whole]
    dropped,    \* lines that have left it
    ends,       \* where the chunks it holds end
    tpc,        \* down, rotated, live, stream, opens, polls, drains, finishes
    held,       \* inode of the descriptor
    offset,     \* lines read from it
    lastTs,     \* the Stamper's last_ts, 0 for none
    leading,    \* ... and the lines it holds until there is one
    waitsFrom,  \* Awaiting: offset the unimported range begins at, -1 for no wait
    plan,       \* catch_up's: [file, live, head, known, until]
    taken,      \* history: newest file the tail has had open under the name
    deaths

fileVars == <<produced, half, cutOff, begins, inos, missing, behind>>
storeVars == <<tape, dropped, ends>>
tailVars == <<tpc, held, offset, lastTs, leading, waitsFrom, plan, taken, deaths>>
fileTailVars == <<env, fileVars, storeVars, tailVars>>

------------------------------------------------------------------------------
Event(e) == e \in env.events
Newest == Len(begins)
LastLine(k) == IF k = Newest THEN Len(produced) ELSE begins[k + 1] - 1
Size(k) == LastLine(k) - begins[k] + 1

\* Lines of a file that have their newline.
Complete(k) ==
    LastLine(k) - (IF Size(k) > 0 /\ (LastLine(k) \in cutOff \/ (half /\ LastLine(k) = Len(produced)))
                   THEN 1 ELSE 0)
OfInode(ino) == Max({k \in 1 .. Newest : inos[k] = ino})

\* The file the rotated name means, 0 for none.
RotatedFileUnlooked == 0
RotatedFile == IF missing THEN Newest ELSE Newest - 1

------------------------------------------------------------------------------
\* The store.
Durable == IF ends = <<>> THEN dropped ELSE Last(ends)
Held == dropped + 1 .. Len(tape)
Stamps(from, to) == {tape[i].stamp : i \in from .. to}
LastWrite == IF Len(tape) = dropped THEN 0
             ELSE IF Len(tape) > Durable THEN Max(Stamps(Durable + 1, Len(tape)))
             ELSE Max(Stamps((IF Len(ends) = 1 THEN dropped ELSE ends[Len(ends) - 1]) + 1, Durable))
FirstWrite == Min(Stamps(dropped + 1, ends[1]))

\* append_stamped, and the flush of a full chunk.
Entry(i, ts) == [line |-> i, stamp |-> ts,
                 whole |-> i \in cutOff \/ ~(half /\ i = Len(produced))]
Append_(lines) ==
    /\ tape' = tape \o lines
    /\ ends' = IF Len(tape) + Len(lines) - Durable >= ChunkSize
               THEN Append(ends, Len(tape) + Len(lines)) ELSE ends
    /\ UNCHANGED dropped

Stamped(lines, ts) == [j \in 1 .. Len(lines) |-> Entry(lines[j], ts)]
Observed(i) == IF produced[i] > 0 THEN produced[i] ELSE lastTs

\* Stamper::feed: a line without a timestamp has that of the line before it, and
\* the lines before the first one have its.
Feed(i) ==
    /\ lastTs' = Observed(i)
    /\ IF Observed(i) = 0 THEN leading' = Append(leading, i) /\ UNCHANGED storeVars
       ELSE IF produced[i] > 0
       THEN Append_(Stamped(Append(leading, i), produced[i])) /\ leading' = <<>>
       ELSE Append_(Stamped(<<i>>, lastTs)) /\ UNCHANGED leading

\* import_range, of lines that waited for a timestamp.
Waited(from, to, ts) == Stamped([j \in 1 .. to - from + 1 |-> from + j - 1], ts)

------------------------------------------------------------------------------
FileTailInit ==
    /\ env \in Environments
    /\ produced = <<>> /\ half = FALSE /\ cutOff = {} /\ begins = <<1>> /\ inos = <<1>>
    /\ missing = FALSE /\ behind = FALSE
    /\ tape = <<>> /\ dropped = 0 /\ ends = <<>>
    /\ tpc = "down" /\ held = 0 /\ offset = 0 /\ lastTs = 0 /\ leading = <<>> /\ waitsFrom = -1
    /\ plan = [file |-> 0, live |-> FALSE, head |-> 0, known |-> {}, until |-> 0]
    /\ taken = 1 /\ deaths = 0

Clock == IF produced = <<>> THEN 1 ELSE Max({1} \cup {produced[i] : i \in 1 .. Len(produced)})

\* A truncation that the reader has had no occasion to notice.
TruncationUnseen ==
    Newest > 1 /\ inos[Newest] = held /\ taken < Newest /\ tpc # "down"

WriteLine ==
    /\ Len(produced) < MaxLines /\ ~half /\ (missing => behind)
    /\ TruncationUnseen => Event("hasty")
    /\ \E ts \in (IF "none" \in env.stamps THEN {0} ELSE {})
                 \cup (IF "same" \in env.stamps THEN {Clock} ELSE {})
                 \cup (IF "later" \in env.stamps THEN {Clock + 1} ELSE {}) :
         produced' = Append(produced, ts)
    /\ half' \in BOOLEAN
    /\ begins' = IF behind /\ ~missing THEN [begins EXCEPT ![Newest] = @ + 1] ELSE begins
    /\ UNCHANGED <<env, cutOff, inos, missing, behind, storeVars, tailVars>>

EndLine ==
    /\ half /\ half' = FALSE
    /\ UNCHANGED <<env, produced, cutOff, begins, inos, missing, behind, storeVars, tailVars>>

\* The file gets another name; one of its own name appears then or later.  Its
\* producer goes on under the old name until told, or a line it had begun is cut off.
Rotate ==
    /\ Event("rotate") /\ ~missing /\ ~behind /\ Newest < MaxFiles
    /\ Event("twice") \/ (taken = Newest /\ (Newest = 1 \/ begins[Newest] - 1 <= Durable))
    /\ Event("inStart") \/ tpc \in {"down", "polls", "drains"}
    /\ \/ behind' = TRUE /\ UNCHANGED <<half, cutOff>>
       \/ /\ half => Event("midLine")
          /\ behind' = FALSE /\ half' = FALSE
          /\ cutOff' = IF half THEN cutOff \cup {Len(produced)} ELSE cutOff
    /\ \/ /\ begins' = Append(begins, Len(produced) + 1) /\ inos' = Append(inos, Last(inos) + 1)
          /\ UNCHANGED missing
       \/ Event("gap") /\ missing' = TRUE /\ UNCHANGED <<begins, inos>>
    /\ UNCHANGED <<env, produced, storeVars, tailVars>>

Recreate ==
    /\ missing /\ missing' = FALSE
    /\ begins' = Append(begins, Len(produced) + 1) /\ inos' = Append(inos, Last(inos) + 1)
    /\ UNCHANGED <<env, produced, half, cutOff, behind, storeVars, tailVars>>

\* The producer opens the new file.
Reopen ==
    /\ behind /\ ~missing /\ ~half /\ behind' = FALSE
    /\ UNCHANGED <<env, produced, half, cutOff, begins, inos, missing, storeVars, tailVars>>

\* It does so within the time the tail takes to look, unless the environment is late.
Told == behind => Event("late")

\* copytruncate: the content goes to the rotated name, the inode stays.
Truncate ==
    /\ Event("truncate") /\ ~missing /\ ~behind /\ ~half /\ Newest < MaxFiles /\ taken = Newest
    /\ Size(Newest) > 0 /\ tpc \in {"polls", "drains"}
    /\ Event("hasty") \/ (tpc = "polls" /\ offset = Size(Newest))
    /\ begins' = Append(begins, Len(produced) + 1) /\ inos' = Append(inos, Last(inos))
    /\ UNCHANGED <<env, produced, half, cutOff, missing, behind, storeVars, tailVars>>

------------------------------------------------------------------------------
\* Where in a file the store's data ends, by its last lines: at the offset that the
\* store's own length says, or wherever they are found.
EndsAt(k, n, e) ==
    /\ e \in n .. Size(k)
    /\ \A j \in 0 .. n - 1 : tape[Len(tape) - j].line = begins[k] + e - 1 - j

Continues(k) ==
    LET n == Min({Cardinality(Held), TailCheck})
    IN  /\ EndsAt(k, n, Len(tape))
        /\ dropped = 0 => \A j \in 1 .. n : tape[j].line = begins[k] + j - 1

ResumeOffset(k) ==
    IF Held = {} THEN {}
    ELSE IF Continues(k) THEN {Len(tape)}
    ELSE IF Cardinality(Held) < SearchMin THEN {}
    ELSE {e \in 1 .. Size(k) : EndsAt(k, SearchMin, e)}

\* overlap_line_counts: the lines of the chunks that reach time t.  A line that was
\* cut off and the one stored after it are one line there, and neither of them.
ChunkOf(i) == Cardinality({j \in 1 .. Len(ends) : ends[j] < i})
Overlap(t) ==
    LET reach == {i \in Held : \E j \in Held : ChunkOf(j) = ChunkOf(i) /\ tape[j].stamp >= t}
        glued == {i \in Held : tape[i].line \in cutOff /\ i < Len(tape)}
    IN  {tape[i].line : i \in {i \in Held : (\E j \in reach : j <= i)
                                             /\ i \notin glued /\ i - 1 \notin glued}}

NoPlan == [file |-> 0, live |-> FALSE, head |-> 0, known |-> {}, until |-> 0]

\* What a file that does not show where the store ends is read against: nothing of
\* before the store's head, nothing the store knows of through its last time.
ResyncUnheaded(k, live, t0) ==
    [file |-> k, live |-> live, head |-> 0,
     known |-> IF Held # {} /\ t0 <= LastWrite THEN Overlap(t0) ELSE {},
     until |-> IF Held # {} /\ t0 <= LastWrite THEN LastWrite ELSE 0]

Resync(k, live, t0) ==
    LET first == Min(Stamps(dropped + 1, IF ends = <<>> THEN Len(tape) ELSE ends[1]))
        overlaps == Held # {} /\ t0 <= LastWrite
    IN  [file |-> k, live |-> live,
         head |-> IF Held # {} /\ t0 < first THEN first ELSE 0,
         known |-> IF overlaps THEN Overlap(Max({t0, first})) ELSE {},
         until |-> IF overlaps THEN LastWrite ELSE 0]

Start ==
    /\ tpc = "down" /\ ~missing /\ Told
    /\ tpc' = (IF RotatedFile > 0 THEN "rotated" ELSE "live")
    /\ lastTs' = LastWrite /\ leading' = <<>>
    /\ UNCHANGED <<env, fileVars, storeVars, held, offset, waitsFrom, plan, taken, deaths>>

\* catch_up, as far as its decision.
CatchUp ==
    LET live == tpc = "live"
        k == IF live THEN Newest ELSE RotatedFile
        stamped == {i \in begins[k] .. LastLine(k) : produced[i] > 0}
        simply(at) ==      \* from there on: the live file is opened, a rotated one finished
            /\ tpc' = (IF live THEN "opens" ELSE "finishes")
            /\ offset' = at /\ held' = inos[k]
            /\ waitsFrom' = IF ~live /\ lastTs = 0 THEN at ELSE -1
            /\ plan' = [NoPlan EXCEPT !.file = k] /\ UNCHANGED ends
    IN  /\ tpc \in {"rotated", "live"}
        /\ IF (live /\ missing) \/ Size(k) = 0
           THEN /\ tpc' = (IF live THEN "opens" ELSE "live") /\ offset' = 0
                /\ plan' = [NoPlan EXCEPT !.file = k]
                /\ UNCHANGED <<ends, held, waitsFrom>>
           ELSE IF ResumeOffset(k) # {} THEN simply(Min(ResumeOffset(k)))
           ELSE IF stamped = {} THEN simply(0)
           ELSE /\ tpc' = "stream" /\ offset' = 0 /\ held' = inos[k]
                /\ ends' = IF Len(tape) > Durable THEN Append(ends, Len(tape)) ELSE ends
                /\ plan' = Resync(k, live, produced[Min(stamped)])
                /\ UNCHANGED waitsFrom
        /\ UNCHANGED <<env, fileVars, tape, dropped, lastTs, leading, taken, deaths>>

\* ... and its reading.
NextOf(k) == begins[k] + offset

StreamLine ==
    LET k == plan.file
        i == NextOf(k)
        e == Observed(i)
        retained == 0 < e /\ e < plan.head
        known == e <= plan.until /\ i \in plan.known
    IN  /\ tpc = "stream" /\ i <= Complete(k)
        /\ offset' = offset + 1
        /\ \/ /\ retained \/ known
              /\ lastTs' = e /\ UNCHANGED <<leading, storeVars>>
              /\ plan' = IF retained THEN plan ELSE [plan EXCEPT !.known = @ \ {i}]
           \/ /\ ~retained /\ ~known /\ Feed(i)
              /\ plan' = IF e > plan.until THEN [plan EXCEPT !.until = 0] ELSE plan
        /\ UNCHANGED <<env, fileVars, tpc, held, waitsFrom, taken, deaths>>

StreamEnd ==
    LET k == plan.file
        fragment == NextOf(k) <= LastLine(k)
    IN  /\ tpc = "stream" /\ NextOf(k) > Complete(k)
        /\ tpc' = (IF plan.live THEN "opens" ELSE "live")
        /\ IF ~plan.live /\ fragment THEN Feed(LastLine(k))
           ELSE UNCHANGED <<storeVars, lastTs, leading>>
        /\ UNCHANGED <<env, fileVars, held, offset, waitsFrom, plan, taken, deaths>>

------------------------------------------------------------------------------
\* follow_open.  A file that is not there ends the process.
OpenLive ==
    /\ tpc = "opens"
    /\ IF missing THEN tpc' = "down" /\ UNCHANGED <<held, waitsFrom, taken>>
       ELSE /\ tpc' = (IF plan.file > 0 THEN "polls" ELSE "drains")
            /\ held' = inos[Newest] /\ taken' = Newest
            /\ waitsFrom' = IF lastTs = 0 THEN offset ELSE -1
    /\ plan' = NoPlan
    /\ UNCHANGED <<env, fileVars, storeVars, offset, lastTs, leading, deaths>>

\* A pass of the main loop: has the name stopped meaning the file that is held?
Poll ==
    /\ tpc = "polls" /\ Told
    /\ \/ /\ ~missing /\ inos[Newest] # held /\ tpc' = "finishes"
          /\ UNCHANGED <<offset, waitsFrom, taken>>
       \/ /\ ~missing /\ inos[Newest] = held /\ Size(Newest) < offset
          /\ tpc' = "drains" /\ offset' = 0 /\ taken' = Newest
          /\ waitsFrom' = IF lastTs = 0 THEN 0 ELSE -1
       \/ /\ missing \/ (inos[Newest] = held /\ Size(Newest) >= offset)
          /\ tpc' = "drains"
          /\ UNCHANGED <<offset, waitsFrom, taken>>
    /\ UNCHANGED <<env, fileVars, storeVars, held, lastTs, leading, plan, deaths>>

\* drain: every complete line, but none of a file that has no timestamp yet.
DrainLine ==
    LET k == OfInode(held)
        i == NextOf(k)
    IN  /\ tpc \in {"drains", "finishes"} /\ i <= Complete(k)
        /\ \/ /\ waitsFrom >= 0 /\ produced[i] = 0
              /\ UNCHANGED <<storeVars, lastTs, leading, waitsFrom>>
           \/ /\ waitsFrom >= 0 /\ produced[i] > 0
              /\ Append_(Waited(begins[k] + waitsFrom, i - 1, produced[i])
                         \o Stamped(Append(leading, i), produced[i]))
              /\ lastTs' = produced[i] /\ leading' = <<>> /\ waitsFrom' = -1
           \/ /\ waitsFrom = -1 /\ Feed(i) /\ UNCHANGED waitsFrom
        /\ offset' = offset + 1
        /\ UNCHANGED <<env, fileVars, tpc, held, plan, taken, deaths>>

DrainEnd ==
    /\ tpc = "drains" /\ NextOf(OfInode(held)) > Complete(OfInode(held))
    /\ tpc' = "polls"
    /\ UNCHANGED <<env, fileVars, storeVars, held, offset, lastTs, leading, waitsFrom, plan, taken,
                   deaths>>

\* finish_rotated, at the end of the file: the last line as it stands, or, of a file
\* that never had a timestamp, everything, with its modification time.
Modified(k) == Max({1} \cup {produced[i] : i \in 1 .. LastLine(k)})

FinishEnd ==
    LET k == OfInode(held)
    IN  /\ tpc = "finishes" /\ NextOf(k) > Complete(k)
        /\ IF waitsFrom >= 0
           THEN /\ Append_(Waited(begins[k] + waitsFrom, LastLine(k), Modified(k)))
                /\ lastTs' = Modified(k) /\ UNCHANGED leading
           ELSE IF NextOf(k) <= LastLine(k) THEN Feed(LastLine(k))
           ELSE UNCHANGED <<storeVars, lastTs, leading>>
        /\ waitsFrom' = -1 /\ offset' = 0
        /\ tpc' = (IF plan.file > 0 THEN "live" ELSE "opens")
        /\ UNCHANGED <<env, fileVars, held, plan, taken, deaths>>

\* The maintenance thread: a chunk of what is old enough, and retention.
Maintained == tpc \in {"polls", "drains", "finishes"} /\ plan = NoPlan

FlushAged ==
    /\ Maintained /\ Len(tape) > Durable /\ ends' = Append(ends, Len(tape))
    /\ UNCHANGED <<env, fileVars, tape, dropped, tailVars>>

DropHead ==
    /\ Maintained /\ Event("drop") /\ Len(ends) > 1
    /\ dropped' = ends[1] /\ ends' = Tail(ends)
    /\ UNCHANGED <<env, fileVars, tape, tailVars>>

\* Stopped, it flushes.  Killed, what is in no chunk is gone.
Stop ==
    /\ tpc = "polls" /\ "stop" \in env.deaths /\ deaths < MaxDeaths
    /\ ends' = IF Len(tape) > Durable THEN Append(ends, Len(tape)) ELSE ends
    /\ tpc' = "down" /\ deaths' = deaths + 1
    /\ UNCHANGED <<env, fileVars, tape, dropped, held, offset, lastTs, leading, waitsFrom, plan,
                   taken>>

Crash ==
    /\ tpc # "down" /\ "crash" \in env.deaths /\ deaths < MaxDeaths
    /\ tape' = SubSeq(tape, 1, Durable)
    /\ tpc' = "down" /\ deaths' = deaths + 1
    /\ held' = 0 /\ offset' = 0 /\ lastTs' = 0 /\ leading' = <<>> /\ waitsFrom' = -1
    /\ plan' = NoPlan
    /\ UNCHANGED <<env, fileVars, dropped, ends, taken>>

Producer == WriteLine \/ EndLine \/ Rotate \/ Recreate \/ Reopen \/ Truncate
TailStep == Start \/ CatchUp \/ StreamLine \/ StreamEnd \/ OpenLive \/ Poll \/ DrainLine
            \/ DrainEnd \/ FinishEnd
Die == Stop \/ Crash

FileTailNext == Producer \/ TailStep \/ FlushAged \/ DropHead \/ Die

FileTailSpec == FileTailInit /\ [][FileTailNext]_fileTailVars

\* The tail runs, and is started again; the producer ends its lines and gets a file.
FairFileTail ==
    FileTailSpec /\ WF_fileTailVars(TailStep) /\ WF_fileTailVars(EndLine \/ Recreate \/ Reopen)

------------------------------------------------------------------------------
\* src/follow.rs, of the store as the checkpoint: "a restart can neither lose nor
\* duplicate".  What the store ever held is what was written to the file, line for
\* line and in order, across rotations and deaths; no line was taken half-written.
TapeIsTheLog == \A i \in 1 .. Len(tape) : tape[i].line = i /\ tape[i].whole

\* If the tail stops dying, every line there is gets into the store; lines of a log
\* that never had a timestamp are waited with.
LinesArrive ==
    <>[][~Die]_fileTailVars =>
        <>[](\A i \in 1 .. Len(produced) :
                \/ i \in {tape[j].line : j \in 1 .. Len(tape)}
                \/ \A j \in 1 .. Len(produced) : produced[j] = 0)
==============================================================================
