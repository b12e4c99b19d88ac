-------------------------------- MODULE Feed --------------------------------
(***************************************************************************)
(* Feeding a consumer (src/src/feed.rs; src/src/ship.rs: Shipper;          *)
(* src/src/cursor.rs: Positions; src/src/consumer.rs: Report).             *)
(*                                                                         *)
(* The loop reads a batch over the selected stores, writes its entries to  *)
(* the consumer, its child, and moves a store's position when the consumer *)
(* says it has handled what came before.  A store with entries that were   *)
(* sent and neither taken nor acknowledged is parked: left out of the next *)
(* read.  Positions are kept in a file, which retention by interest reads  *)
(* as well: it drops the chunks before the one a position is in.           *)
(*                                                                         *)
(* A store is its tape of entries of length one, in chunks of ChunkLen;    *)
(* what is past the flushed ones is in the write-ahead segment.            *)
(***************************************************************************)
EXTENDS Integers, Sequences, SequencesExt, FiniteSets

CONSTANTS
    Order,         \* the stores, as strings, in the order a selection resolves to
    MaxLog,        \* bound: entries of a store
    ChunkLen,      \* entries of a chunk
    PipeRoom,      \* entries the pipe to the consumer holds
    Hold,          \* entries a holding consumer keeps its position behind
    MaxHeld,       \* MAX_HELD_ENTRIES
    MaxLives,      \* bound: restarts of the unit
    FeedEnvironments

Stores == {Order[i] : i \in 1 .. Len(Order)}
NoStore == ""

\* follow: keep going when there is nothing; one-shot else.  cap: the entries the
\* stores of a read share (batch_entries).  young: stores that a
\* follower without a position reads from their beginning (--follow-from).  claims:
\* the consumer's hello says what its destination holds already.  consumer: plain, or
\* one that acknowledges late and says what it has taken.  happens: a process dies
\* ("die"), entries come in ("append"), retention by interest runs ("retain"), the
\* consumer reads on and reports nothing ("silent"), is slow enough that a silence
\* ended long ago ("slow"), or neither reads nor closes its output ("hang"); a store is
\* relabelled ("relabel"), and what an exporter meets at its receiver (Exporter).
FeedEnvironment ==
    [follow : BOOLEAN, cap : Nat \ {0}, young : SUBSET Stores, claims : BOOLEAN,
     consumer : {"plain", "holding", "exporter"},
     happens : SUBSET {"die", "append", "retain", "silent", "slow", "hang",
                        "relabel", "refuse", "busy", "lose", "deaf", "close"}]

ASSUME FeedAssumption ==
    /\ Order \in Seq(STRING) \ {<<>>} /\ NoStore \notin Stores
    /\ \A i, j \in 1 .. Len(Order) : Order[i] = Order[j] => i = j
    /\ MaxLog \in Nat \ {0} /\ ChunkLen \in Nat \ {0}
    /\ PipeRoom \in Nat \ {0} /\ Hold \in Nat /\ MaxHeld \in Nat /\ MaxLives \in Nat
    /\ FeedEnvironments \subseteq FeedEnvironment

VARIABLES
    logEnd, flushed, head,  \* per store: end of its tape, of its chunks; what is gone
    labels,     \* per store, as a number that grows: its labels
    saved,      \* the positions file
    fpc,
    book,       \* positions in memory, with what is tracked per store
    announced,  \* per store, the labels the consumer was told
    batch,      \* records to be written to the consumer: sources announced, entries read
    sent, more, \* what splice says of the last answer
    skipped, stoppedIn,
    quiet,      \* since when the consumer says nothing: no, lately, long
    pipe, reports,          \* to and from the consumer
    readTo, said,           \* the consumer: next entry, last report, per store
    cpc,
    feedEnv, lives,
    handled,    \* history: per store, entries the destination has
    startedAt,  \* history: per store, where it was picked up
    passedOver, \* history: per store, reads in a row that left it out for others
    spoke,      \* history: a report was taken since the silence began
    hadAtLast   \* history: per store, what it held at the last read

logVars == <<logEnd, flushed, head, labels>>
feedVars == <<saved, fpc, book, announced, batch, sent, more, skipped, stoppedIn, quiet>>
consumerVars == <<readTo, said, cpc>>
feedHistory == <<handled, startedAt, passedOver, spoke, hadAtLast>>
allFeedVars == <<logVars, feedVars, pipe, reports, consumerVars, feedEnv, lives, feedHistory>>

------------------------------------------------------------------------------
None == -1
Unknown == [offset |-> None, floor |-> None]
Fresh == [offset |-> None, floor |-> None, pending |-> {}, taken |-> None]
MaxOf(a, b) == IF a > b THEN a ELSE b
Mayhap(what) == what \in feedEnv.happens

\* A chunk's number; entries in no chunk yet have none.
ChunkOf(s, p) == IF p < flushed[s] THEN p \div ChunkLen ELSE None

Asleep == [s \in Stores |-> None]
SaidNothing == [s \in Stores |-> <<None, None>>]

FeedInit ==
    /\ feedEnv \in FeedEnvironments
    /\ logEnd \in [Stores -> IF "append" \in feedEnv.happens THEN {1} ELSE 0 .. MaxLog]
    /\ flushed = [s \in Stores |-> (logEnd[s] \div ChunkLen) * ChunkLen]
    /\ head = [s \in Stores |-> 0] /\ labels = [s \in Stores |-> 1]
    /\ saved = [s \in Stores |-> Unknown]
    /\ fpc = "start" /\ book = [s \in Stores |-> Fresh]
    /\ announced = Asleep /\ batch = <<>> /\ sent = FALSE /\ more = FALSE
    /\ skipped = FALSE /\ stoppedIn = NoStore /\ quiet = "no"
    /\ pipe = <<>> /\ reports = <<>> /\ readTo = Asleep /\ said = SaidNothing /\ cpc = "runs"
    /\ lives = 0
    /\ handled = [s \in Stores |-> IF feedEnv.claims /\ logEnd[s] > 0 THEN 1 ELSE 0]
    /\ startedAt = Asleep /\ passedOver = [s \in Stores |-> 0]
    /\ spoke = FALSE /\ hadAtLast = logEnd

------------------------------------------------------------------------------
\* The stores' writers.
AppendLog(s) ==
    /\ Mayhap("append") /\ logEnd[s] < MaxLog
    /\ logEnd' = [logEnd EXCEPT ![s] = @ + 1]
    /\ UNCHANGED <<flushed, head, labels>>

FlushLog(s) ==
    /\ logEnd[s] - flushed[s] >= ChunkLen
    /\ flushed' = [flushed EXCEPT ![s] = @ + ChunkLen]
    /\ UNCHANGED <<logEnd, head, labels>>

\* Retention by interest: the chunks before the recorded one (consumed_prefix).
ConsumedPrefix(seq) == seq

Retain(s) ==
    /\ Mayhap("retain") /\ saved[s].floor # None
    /\ LET keep == ConsumedPrefix(saved[s].floor) * ChunkLen
       IN  /\ keep > head[s] /\ keep <= flushed[s]
           /\ head' = [head EXCEPT ![s] = keep]
    /\ UNCHANGED <<logEnd, flushed, labels>>

\* An operator sets other labels.
Relabel(s) ==
    /\ Mayhap("relabel") /\ labels[s] = 1
    /\ labels' = [labels EXCEPT ![s] = @ + 1]
    /\ UNCHANGED <<logEnd, flushed, head>>

BesideWriters == <<feedVars, pipe, reports, consumerVars, feedEnv, lives, feedHistory>>
WriterMoves ==
    /\ \E s \in Stores : AppendLog(s) \/ FlushLog(s) \/ Retain(s) \/ Relabel(s)
    /\ UNCHANGED BesideWriters

------------------------------------------------------------------------------
\* Tracked: what was sent and neither taken nor acknowledged, and what the consumer
\* has taken and holds.  No two entries of a store end at one place.
InFlightUnacked(b) == Cardinality(b.pending)

InFlight(b) == Cardinality({p \in b.pending : p.end > b.taken})
Held(b) == IF b.taken = None THEN 0 ELSE Cardinality({p \in b.pending : p.end <= b.taken})
ParkedNever(s) == FALSE

Parked(s) == InFlight(book[s]) > 0 \/ Held(book[s]) >= MaxHeld

\* Positions::advance.
Advance(b, offset, floor) == [b EXCEPT !.offset = offset, !.floor = MaxOf(@, floor)]

Recorded(b) == [offset |-> b.offset, floor |-> b.floor]
Persisted(books) == [s \in Stores |-> Recorded(books[s])]

\* take, of the reports on a store that have come, which are at the places mine: the
\* last one's offset is what counts, and what ends before any of them is settled.
LastChunk(ps) == Max({None} \cup {p.chunk : p \in ps})
LastTaken(b, rs, mine) == Max({b.taken} \cup {rs[i].taken : i \in mine})

TakenEagerly(b, rs, mine) ==
    Advance([b EXCEPT !.pending = {}, !.taken = LastTaken(b, rs, mine)],
            Max({rs[Max(mine)].offset} \cup {p.end : p \in b.pending}), LastChunk(b.pending))

Taken(b, rs, mine) ==
    LET done == {p \in b.pending : \E i \in mine : p.end <= rs[i].offset}
    IN  Advance([b EXCEPT !.pending = @ \ done, !.taken = LastTaken(b, rs, mine)],
                rs[Max(mine)].offset, LastChunk(done))

ReportsOn(s, rs) == {i \in 1 .. Len(rs) : rs[i].id = s}
TakeAll(books, rs) ==
    [s \in Stores |-> IF ReportsOn(s, rs) = {} THEN books[s]
                      ELSE Taken(books[s], rs, ReportsOn(s, rs))]

------------------------------------------------------------------------------
\* await_hello, and the claims it makes: honoured where nothing is recorded (seed).
Hello ==
    /\ fpc = "start" /\ fpc' = "poll"
    /\ book' = [s \in Stores |->
         LET b == [Fresh EXCEPT !.offset = saved[s].offset, !.floor = saved[s].floor]
         IN  IF feedEnv.claims /\ handled[s] > 0 /\ b.offset = None
             THEN Advance(b, handled[s], None) ELSE b]
    /\ saved' = Persisted(book')
    /\ startedAt' = [s \in Stores |-> IF startedAt[s] = None THEN book'[s].offset ELSE startedAt[s]]
    /\ UNCHANGED <<announced, batch, sent, more, skipped, stoppedIn, quiet, pipe, reports,
                   handled, passedOver, spoke, hadAtLast>>

\* pick_up: a store never read starts at the end of its chunks, or at its beginning,
\* which takes no position.
PickedUp(s) ==
    IF book[s].offset # None \/ s \in feedEnv.young THEN book[s]
    ELSE Advance(book[s], flushed[s], None)

\* rotate_past.
Rotated(id) ==
    IF id = NoStore THEN Order
    ELSE LET i == CHOOSE i \in 1 .. Len(Order) : Order[i] = id
         IN  SubSeq(Order, i + 1, Len(Order)) \o SubSeq(Order, 1, i)

\* Where a read of s begins, and how far it sees.  Without a position there is no
\* live edge, and after a head drop it is not found to follow the chunks
\* (LiveTail!EmitEdge).
ReadFrom(b, s) == MaxOf(MaxOf(b.offset, b.taken), head[s])
ReadTo(b, s) == IF MaxOf(b.offset, b.taken) # None /\ head[s] = 0 THEN logEnd[s] ELSE flushed[s]
Unread(b, s) == [i \in 1 .. MaxOf(0, ReadTo(b, s) - ReadFrom(b, s)) |->
                    [id |-> s, at |-> ReadFrom(b, s) + i - 1, labels |-> labels[s]]]

\* announce: the stores of the answer whose labels the consumer has not been told.  Only
\* an exporter makes anything of it.
Source(s) == [id |-> s, at |-> None, labels |-> labels[s]]
IsSource(r) == r.at = None

Announce(s) ==
    IF feedEnv.consumer # "exporter" \/ announced[s] = labels[s] THEN <<>> ELSE <<Source(s)>>

\* poll_excluding and read_forward: every store that is not parked, in turn, under
\* one cap.
Asked(s, b) == ~Parked(s) /\ (b.offset = None \/ Unread(b, s) # <<>>)
InTurn(order, records) == FlattenSeq([i \in 1 .. Len(order) |-> records[order[i]]])

Poll ==
    /\ fpc = "poll" /\ fpc' = "write"
    /\ LET picked == [s \in Stores |-> PickedUp(s)]
           turns == Rotated(stoppedIn)
           unread == [s \in Stores |-> IF Asked(s, picked[s]) THEN Unread(picked[s], s) ELSE <<>>]
           news == [s \in Stores |-> IF Asked(s, picked[s]) THEN Announce(s) ELSE <<>>]
           all == InTurn(turns, unread)
           out == SubSeq(all, 1, IF Len(all) < feedEnv.cap THEN Len(all) ELSE feedEnv.cap)
           delivers == {out[i].id : i \in 1 .. Len(out)}
       IN  /\ book' = picked
           /\ batch' = InTurn(turns, news) \o out /\ sent' = (out # <<>>) /\ more' = (Len(all) > feedEnv.cap)
           /\ stoppedIn' = IF Len(all) > feedEnv.cap THEN Last(out).id ELSE NoStore
           /\ passedOver' = [s \in Stores |->
                IF ~Parked(s) /\ Unread(picked[s], s) # <<>> /\ s \notin delivers
                THEN passedOver[s] + 1 ELSE 0]
           /\ startedAt' = [s \in Stores |->
                IF startedAt[s] # None THEN startedAt[s]
                ELSE IF picked[s].offset # None THEN picked[s].offset
                ELSE IF s \in delivers THEN head[s] ELSE None]
    /\ skipped' = \E s \in Stores : InFlight(book[s]) > 0
    /\ hadAtLast' = [s \in Stores |-> ReadTo(book'[s], s)]
    /\ UNCHANGED <<saved, announced, quiet, pipe, reports, handled, spoke>>

\* announce and splice: an entry is tracked and written; a full pipe blocks.
WriteEntry ==
    /\ fpc = "write" /\ batch # <<>> /\ Len(pipe) < PipeRoom
    /\ LET e == Head(batch)
       IN  /\ IF IsSource(e)
              THEN /\ announced' = [announced EXCEPT ![e.id] = e.labels]
                   /\ UNCHANGED book
              ELSE /\ book' = [book EXCEPT ![e.id].pending =
                                 @ \cup {[end |-> e.at + 1, chunk |-> ChunkOf(e.id, e.at)]}]
                   /\ UNCHANGED announced
           /\ pipe' = Append(pipe, e)
    /\ batch' = Tail(batch)
    /\ UNCHANGED <<saved, fpc, sent, more, skipped, stoppedIn, quiet, reports, feedHistory>>

\* drain(Now), then what the loop makes of it.
AfterDrainHasty(books) ==
    IF sent \/ more THEN "poll"
    ELSE IF \E s \in Stores : InFlight(books[s]) > 0 THEN "wait"
    ELSE IF feedEnv.follow THEN "poll" ELSE "close"

AfterDrain(books) ==
    IF sent \/ more THEN "poll"
    ELSE IF \E s \in Stores : InFlight(books[s]) > 0 THEN "wait"
    ELSE IF skipped \/ feedEnv.follow THEN "poll" ELSE "close"

DrainNow ==
    /\ fpc = "write" /\ batch = <<>>
    /\ book' = TakeAll(book, reports) /\ reports' = <<>>
    /\ saved' = IF reports = <<>> THEN saved ELSE Persisted(book')
    /\ fpc' = AfterDrain(book')
    /\ spoke' = (spoke \/ reports # <<>>)
    /\ UNCHANGED <<announced, batch, sent, more, skipped, stoppedIn, quiet, pipe,
                   handled, startedAt, passedOver, hadAtLast>>

\* recv_timeout: a report, and what has come in behind it,
WaitReport ==
    /\ fpc = "wait" /\ reports # <<>>
    /\ book' = TakeAll(book, reports) /\ reports' = <<>>
    /\ saved' = Persisted(book') /\ fpc' = "poll" /\ quiet' = "no" /\ spoke' = FALSE
    /\ UNCHANGED <<announced, batch, sent, more, skipped, stoppedIn, pipe,
                   handled, startedAt, passedOver, hadAtLast>>

\* or a poll's length of silence, which ends a one-shot once it has lasted.
WaitTimeout ==
    /\ fpc = "wait" /\ reports = <<>>
    /\ quiet' = IF quiet = "long" /\ feedEnv.follow THEN "no"
                ELSE IF quiet = "no" THEN "lately" ELSE quiet
    /\ fpc' = IF quiet = "long" /\ ~feedEnv.follow THEN "close" ELSE "poll"
    /\ spoke' = IF quiet = "no" THEN FALSE ELSE spoke
    /\ UNCHANGED <<saved, book, announced, batch, sent, more, skipped, stoppedIn, pipe, reports,
                   handled, startedAt, passedOver, hadAtLast>>

\* Time: max_silence has gone by since the first timeout.
SilenceLasts ==
    /\ quiet = "lately" /\ (Mayhap("slow") \/ cpc \in {"silent", "hung"})
    /\ quiet' = "long"
    /\ UNCHANGED <<saved, fpc, book, announced, batch, sent, more, skipped, stoppedIn, pipe, reports,
                   feedHistory>>

\* The stream is ended, the consumer's input closed, and its reports drained until
\* it closes its output.
CloseStream ==
    /\ fpc = "close" /\ fpc' = "drain"
    /\ UNCHANGED <<saved, book, announced, batch, sent, more, skipped, stoppedIn, quiet, pipe, reports,
                   feedHistory>>

DrainToEnd ==
    /\ fpc = "drain" /\ cpc = "left"
    /\ book' = TakeAll(book, reports) /\ reports' = <<>>
    /\ saved' = Persisted(book') /\ fpc' = "ended"
    /\ UNCHANGED <<announced, batch, sent, more, skipped, stoppedIn, quiet, pipe, feedHistory>>

FeedSteps ==
    \/ Hello \/ Poll \/ WriteEntry \/ DrainNow \/ WaitReport \/ WaitTimeout \/ CloseStream
    \/ DrainToEnd

BesideLoop == <<logVars, consumerVars, feedEnv, lives>>
LoopMoves == (FeedSteps \/ SilenceLasts) /\ UNCHANGED BesideLoop

------------------------------------------------------------------------------
\* The consumer reads entries and reports how far it has handled a store, and, where
\* it holds entries back, how far it has read it.  A reader thread takes its reports
\* off its hands, so that it never blocks on them: blocked, it would not read either.
ReportRoom == TRUE

ConsumeEntry ==
    /\ cpc \in {"runs", "silent"} /\ pipe # <<>> /\ (cpc = "runs" => ReportRoom)
    /\ readTo' = [readTo EXCEPT ![Head(pipe).id] = Head(pipe).at + 1]
    /\ pipe' = Tail(pipe)
    /\ UNCHANGED <<reports, said, cpc, handled>>

\* A holding consumer lets go of what it holds when the stream ends; it holds nothing
\* from before where its stream began, and not again what its destination has.
Handles(s) ==
    IF feedEnv.consumer = "plain" \/ (fpc = "drain" /\ pipe = <<>>) THEN readTo[s]
    ELSE Min({readTo[s], MaxOf(readTo[s] - Hold, MaxOf(handled[s], book[s].offset))})

Say(s) ==
    /\ cpc = "runs" /\ readTo[s] # None /\ ReportRoom
    /\ LET r == [id |-> s, offset |-> Handles(s),
                 taken |-> IF feedEnv.consumer = "holding" THEN readTo[s] ELSE None]
       IN  /\ said[s] # <<r.offset, readTo[s]>>
           /\ reports' = Append(reports, r)
           /\ said' = [said EXCEPT ![s] = <<r.offset, readTo[s]>>]
           /\ handled' = [handled EXCEPT ![s] = MaxOf(@, r.offset)]
    /\ UNCHANGED <<pipe, readTo, cpc>>

Leave ==
    /\ cpc \in {"runs", "silent"} /\ fpc = "drain" /\ pipe = <<>>
    /\ cpc = "runs" =>
         \A s \in Stores : readTo[s] # None => said[s] = <<Handles(s), readTo[s]>>
    /\ cpc' = "left"
    /\ UNCHANGED <<pipe, reports, readTo, said, handled>>

FallSilent ==
    /\ cpc = "runs"
    /\ \/ Mayhap("silent") /\ cpc' = "silent"
       \/ Mayhap("hang") /\ cpc' = "hung"
    /\ UNCHANGED <<pipe, reports, readTo, said, handled>>

ConsumerSteps == ConsumeEntry \/ (\E s \in Stores : Say(s)) \/ Leave
BesideConsumer == <<logVars, feedVars, feedEnv, lives, startedAt, passedOver, spoke, hadAtLast>>
ConsumerMoves == (ConsumerSteps \/ FallSilent) /\ UNCHANGED BesideConsumer

\* A process of the pair dies and takes the other with it; the unit is restarted,
\* with the positions file and the destination as they are.
DieAndRestart ==
    /\ Mayhap("die") /\ lives < MaxLives /\ fpc # "ended"
    /\ lives' = lives + 1
    /\ fpc' = "start" /\ book' = [s \in Stores |-> Fresh]
    /\ announced' = Asleep /\ batch' = <<>> /\ sent' = FALSE /\ more' = FALSE
    /\ skipped' = FALSE /\ stoppedIn' = NoStore /\ quiet' = "no"
    /\ pipe' = <<>> /\ reports' = <<>> /\ readTo' = Asleep /\ said' = SaidNothing /\ cpc' = "runs"
    /\ passedOver' = [s \in Stores |-> 0] /\ spoke' = FALSE
    /\ UNCHANGED <<logVars, saved, feedEnv, handled, startedAt, hadAtLast>>

FeedNext == WriterMoves \/ LoopMoves \/ ConsumerMoves \/ DieAndRestart

FeedSpec == FeedInit /\ [][FeedNext]_allFeedVars

FeedFairness ==
    /\ WF_allFeedVars(FeedSteps /\ UNCHANGED BesideLoop)
    /\ WF_allFeedVars(SilenceLasts /\ UNCHANGED BesideLoop)
    /\ WF_allFeedVars(ConsumerSteps /\ UNCHANGED BesideConsumer)
    /\ \A s \in Stores : WF_allFeedVars(FlushLog(s) /\ UNCHANGED BesideWriters)

FairFeed == FeedSpec /\ FeedFairness

------------------------------------------------------------------------------
\* What is tracked of a store is past its position.
Tracks(b) == \A p \in b.pending : p.end > b.offset

FeedTypeOK ==
    /\ \A s \in Stores :
         /\ head[s] <= flushed[s] /\ flushed[s] <= logEnd[s] /\ logEnd[s] <= MaxLog
         /\ handled[s] <= logEnd[s] /\ book[s].offset \in -1 .. MaxLog
         /\ book[s].floor \in -1 .. MaxLog /\ readTo[s] \in -1 .. MaxLog
    /\ \A s \in Stores : Tracks(book[s])
    /\ stoppedIn \in Stores \cup {NoStore} /\ Len(pipe) <= PipeRoom

\* Within one life of the consumer a store's entries come in order, each once: a read
\* begins where the last one of what was taken ended, or waits until it is.
Of(r, s) == r.id = s /\ ~IsSource(r)
Before(s, i) == {j \in 1 .. i - 1 : Of(pipe[j], s)}
FeedInOrder ==
    \A s \in Stores : \A i \in 1 .. Len(pipe) : Of(pipe[i], s) =>
        IF Before(s, i) = {} THEN readTo[s] \in {None, pipe[i].at}
        ELSE pipe[i].at = pipe[Max(Before(s, i))].at + 1

\* The positions file never passes an entry the destination does not have, whatever
\* dies; and retention, which goes by that file, never takes one it will be asked
\* for again.
PositionsHonest ==
    \A s \in Stores :
        /\ saved[s].offset > startedAt[s] => saved[s].offset <= handled[s]
        /\ head[s] > 0 => head[s] <= saved[s].offset

\* No store is passed over more often than there are others, however fast they grow.
NoStoreStarves == \A s \in Stores : passedOver[s] < Cardinality(Stores)

\* A one-shot that was not cut short by silence ends with all that its last read could
\* see sent, and handled once it has drained the consumer: a read that left a parked
\* store out says nothing about that store.
OneShotDrains ==
    ~feedEnv.follow /\ quiet # "long" =>
        \A s \in Stores :
            /\ fpc = "close" => hadAtLast[s] <= MaxOf(book[s].offset, book[s].taken) \/ hadAtLast[s] = 0
            /\ fpc = "ended" => hadAtLast[s] <= saved[s].offset \/ hadAtLast[s] = 0

\* A one-shot is cut short only by a consumer that has said nothing since the silence
\* began.
CutShortBySilence == quiet = "long" => ~spoke

\* What can be read reaches a consumer that reads and reports, in particular one that
\* holds entries until later ones have come.
Reached(s, p) ==
    \/ (IF feedEnv.consumer = "exporter" THEN handled[s] ELSE readTo[s]) > p
    \/ saved[s].offset > p \/ (startedAt[s] # None /\ p < startedAt[s])
EverythingReaches ==
    \A s \in Stores : \A p \in 0 .. MaxLog - 1 :
        p < flushed[s] ~> Reached(s, p) \/ fpc = "ended"

==============================================================================
