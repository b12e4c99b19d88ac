------------------------------ MODULE Exporter ------------------------------
(***************************************************************************)
(* timber-otlp (src/src/timber_otlp.rs, the client of src/src/otlp.rs), as *)
(* the consumer of Feed: entries are gathered per store, posted to an      *)
(* OTLP/HTTP receiver in one request, and a store's position is reported   *)
(* once the receiver has taken them or refused them for good.              *)
(*                                                                         *)
(* A thread of its own reads the stream, so that a part of a batch goes    *)
(* out when nothing more comes.  A request that got no answer, or one to   *)
(* come back later, is made again until it gets one.                       *)
(***************************************************************************)
EXTENDS Feed

CONSTANTS
    BatchSize,     \* --batch-size
    MaxTroubles    \* bound: requests that go wrong

ASSUME ExporterAssumption == BatchSize \in Nat \ {0} /\ MaxTroubles \in Nat

VARIABLES
    inbox,         \* records the reader thread has handed over
    known,         \* per store: what the stream said of it, and what waits to go out
    xpc,           \* read, post, again (on a new connection), wait, report
    conn,          \* the connection kept between requests: none or kept
    reporting,     \* the stores of the request, whose positions are still to be reported
    troubles,
    shipped        \* history: entries the receiver settled, with the labels of the
                   \* source record before them and the labels they came under

exporterVars == <<inbox, known, xpc, conn, reporting, troubles, shipped>>
exportVars == <<allFeedVars, exporterVars>>

------------------------------------------------------------------------------
Unheard == [labels |-> None, pending |-> <<>>, end |-> None]

ExporterInit ==
    /\ FeedInit
    /\ inbox = <<>> /\ known = [s \in Stores |-> Unheard] /\ xpc = "read" /\ conn = "none"
    /\ reporting = {} /\ troubles = 0 /\ shipped = {}

Waiting == {s \in Stores : known[s].pending # <<>>}
Gathered == FoldFunction(LAMBDA k, n : Len(k.pending) + n, 0, known)

\* The reader thread, which never waits for the rest.
ReadRecord ==
    /\ cpc = "runs" /\ pipe # <<>>
    /\ inbox' = Append(inbox, Head(pipe)) /\ pipe' = Tail(pipe)
    /\ readTo' = IF IsSource(Head(pipe)) THEN readTo
                 ELSE [readTo EXCEPT ![Head(pipe).id] = Head(pipe).at + 1]
    /\ UNCHANGED <<reports, said, cpc, handled, known, xpc, conn, reporting, troubles, shipped>>

\* A source record: new labels wait until what came under the old ones has gone out.
\* Feed leaves a store with anything in flight out of its reads and so never announces
\* one in between; a stream somebody else writes may.
AdoptsOnce(r) == IF known[r.id].labels # None THEN known ELSE [known EXCEPT ![r.id].labels = r.labels]
Adopts(r) == [known EXCEPT ![r.id].labels = r.labels]
MustFlushFirst(r) == known[r.id].labels # r.labels /\ known[r.id].pending # <<>>

TakeSource ==
    /\ xpc = "read" /\ inbox # <<>> /\ IsSource(Head(inbox))
    /\ IF MustFlushFirst(Head(inbox))
       THEN xpc' = "post" /\ UNCHANGED <<inbox, known>>
       ELSE known' = Adopts(Head(inbox)) /\ inbox' = Tail(inbox) /\ UNCHANGED xpc
    /\ UNCHANGED <<pipe, reports, readTo, said, cpc, handled, conn, reporting, troubles, shipped>>

TakeEntry ==
    /\ xpc = "read" /\ inbox # <<>> /\ ~IsSource(Head(inbox))
    /\ LET e == Head(inbox)
       IN  known' = [known EXCEPT ![e.id].pending = Append(@, e), ![e.id].end = e.at + 1]
    /\ inbox' = Tail(inbox)
    /\ xpc' = IF Gathered + 1 >= BatchSize THEN "post" ELSE "read"
    /\ UNCHANGED <<pipe, reports, readTo, said, cpc, handled, conn, reporting, troubles, shipped>>

\* --batch-timeout, or the end of the stream: what there is goes out.
FlushRest ==
    /\ xpc = "read" /\ cpc = "runs" /\ inbox = <<>> /\ Waiting # {}
    /\ xpc' = "post"
    /\ UNCHANGED <<pipe, reports, readTo, said, cpc, handled,
                   inbox, known, conn, reporting, troubles, shipped>>

LeaveExported ==
    /\ xpc = "read" /\ cpc = "runs" /\ fpc = "drain" /\ pipe = <<>> /\ inbox = <<>>
    /\ Waiting = {} /\ cpc' = "left"
    /\ UNCHANGED <<pipe, reports, readTo, said, handled, exporterVars>>

------------------------------------------------------------------------------
\* The answers of a receiver, and what they mean for the batch (classify).
Answers == {200, 400, 429, 500, 503}
Taken2xx(status) == status = 200
Retryable(status) == status \in {429, 502, 503, 504}

Went(how) == troubles' = IF how = "well" THEN troubles ELSE troubles + 1
MayFail(how) == Mayhap(how) /\ troubles < MaxTroubles

\* The receiver has the entries of the request, or will never have them.
Settled ==
    /\ shipped' = shipped \cup
         UNION {{[id |-> s, at |-> known[s].pending[i].at, fed |-> known[s].pending[i].labels,
                  as |-> known[s].labels] : i \in 1 .. Len(known[s].pending)} : s \in Waiting}
    /\ handled' = [s \in Stores |-> IF s \in Waiting THEN MaxOf(handled[s], known[s].end)
                                    ELSE handled[s]]

\* try_post, answered; the connection is kept unless the receiver closes it.
Answered(status) ==
    /\ \/ Taken2xx(status) /\ Went("well")
       \/ ~Taken2xx(status) /\ Retryable(status) /\ MayFail("busy") /\ Went("badly")
       \/ ~Taken2xx(status) /\ ~Retryable(status) /\ MayFail("refuse") /\ Went("badly")
    /\ conn' \in {"kept"} \cup (IF Mayhap("close") THEN {"none"} ELSE {})
    /\ IF Retryable(status)
       THEN xpc' = "wait" /\ UNCHANGED <<reporting, shipped, handled>>
       ELSE xpc' = "report" /\ reporting' = Waiting /\ Settled

\* It fails, before or after the receiver has the entries.  On a connection kept from
\* before it is tried once more at once.
AfterFailureForgetful == "report"
AfterFailure == IF xpc = "post" /\ conn = "kept" THEN "again" ELSE "wait"

Failed ==
    /\ \/ MayFail("lose") /\ Settled
       \/ MayFail("deaf") /\ UNCHANGED <<shipped, handled>>
    /\ Went("badly") /\ conn' = "none" /\ xpc' = AfterFailure
    /\ reporting' = IF xpc' = "report" THEN Waiting ELSE {}

TryPost ==
    /\ xpc \in {"post", "again"} /\ cpc = "runs"
    /\ Failed \/ \E status \in Answers : Answered(status)
    /\ UNCHANGED <<pipe, reports, readTo, said, cpc, inbox, known>>

BackOff ==
    /\ xpc = "wait" /\ xpc' = "post"
    /\ UNCHANGED <<pipe, reports, readTo, said, cpc, handled,
                   inbox, known, conn, reporting, troubles, shipped>>

\* A watermark per store of the request, in the order of their ids.
Watermark(s) == [id |-> s, offset |-> known[s].end, taken |-> None]
NextToReport == Order[Min({i \in 1 .. Len(Order) : Order[i] \in reporting})]

Progress ==
    /\ xpc = "report" /\ cpc = "runs" /\ reporting # {}
    /\ LET s == NextToReport
       IN  /\ reports' = Append(reports, Watermark(s))
           /\ known' = [known EXCEPT ![s].pending = <<>>]
           /\ reporting' = reporting \ {s}
           /\ said' = [said EXCEPT ![s] = <<known[s].end, readTo[s]>>]
    /\ xpc' = IF reporting' = {} THEN "read" ELSE "report"
    /\ UNCHANGED <<pipe, readTo, cpc, handled, inbox, conn, troubles, shipped>>

------------------------------------------------------------------------------
IsExporter == feedEnv.consumer = "exporter"

ExporterSteps ==
    \/ TakeSource \/ TakeEntry \/ FlushRest \/ TryPost \/ BackOff \/ Progress \/ LeaveExported

ExporterMoves == IsExporter /\ (ReadRecord \/ ExporterSteps) /\ UNCHANGED BesideConsumer

ExporterDies ==
    /\ DieAndRestart
    /\ inbox' = <<>> /\ known' = [s \in Stores |-> Unheard] /\ xpc' = "read" /\ conn' = "none"
    /\ reporting' = {} /\ UNCHANGED <<troubles, shipped>>

ExportNext ==
    \/ (WriterMoves \/ LoopMoves) /\ UNCHANGED exporterVars
    \/ ~IsExporter /\ ConsumerMoves /\ UNCHANGED exporterVars
    \/ ExporterMoves
    \/ ExporterDies

ExportSpec == ExporterInit /\ [][ExportNext]_exportVars

FairExport ==
    /\ ExportSpec
    /\ WF_exportVars(FeedSteps /\ UNCHANGED <<BesideLoop, exporterVars>>)
    /\ WF_exportVars(SilenceLasts /\ UNCHANGED <<BesideLoop, exporterVars>>)
    /\ WF_exportVars(~IsExporter /\ ConsumerSteps /\ UNCHANGED <<BesideConsumer, exporterVars>>)
    /\ WF_exportVars(IsExporter /\ ReadRecord /\ UNCHANGED BesideConsumer)
    /\ WF_exportVars(IsExporter /\ ExporterSteps /\ UNCHANGED BesideConsumer)
    /\ \A s \in Stores : WF_exportVars(FlushLog(s) /\ UNCHANGED <<BesideWriters, exporterVars>>)

------------------------------------------------------------------------------
\* An entry reaches the receiver under the labels that were announced before it was
\* written to the stream, whatever is pending when they change and however often it has
\* to be sent.
AttributedRight == \A e \in shipped : e.as = e.fed

\* Between where a store was picked up and the position that is recorded for it there is
\* no entry the receiver has neither taken nor refused for good, whatever requests failed
\* and whoever died.
ReportedIsShipped ==
    IsExporter =>
        \A s \in Stores : startedAt[s] # None =>
            \A p \in startedAt[s] .. saved[s].offset - 1 :
                \E e \in shipped : e.id = s /\ e.at = p

==============================================================================
