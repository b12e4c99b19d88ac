------------------------------- MODULE Relay -------------------------------
(***************************************************************************)
(* Native replication of one store: `frames-send --follow` reads its       *)
(* chunks out (src/src/frames.rs, serve.rs), a connection carries them,    *)
(* and `frames-intake` appends them to a replica (receive.rs).  The sender *)
(* has no position of its own: it resumes from what the receiver says it   *)
(* holds.  Both processes fail and are started again, and a connection     *)
(* the receiver has not seen end still has its session.                    *)
(*                                                                         *)
(* A chunk is its number, from 0, and an epoch: a source that loses power  *)
(* writes other content under numbers it has given before.                 *)
(***************************************************************************)
EXTENDS Integers, Sequences, SequencesExt, FiniteSets

CONSTANTS
    PerTurn,        \* CHUNKS_PER_TURN
    DataRoom,       \* frames a socket buffer takes, each way
    AckRoom,
    MaxChunks,      \* bounds: chunks, connections, and failures
    MaxConns,
    MaxWires,       \* stream numbers, given in turn
    MaxFailures,
    Environments

\* pages: the receiver keeps a token index of the sender's filters.  events: either
\* process fails; the source's host loses power, which the receiver does not learn of, with
\* chunks that are not on its disk yet ("unsynced"); it has no filter yet for a chunk it
\* ships ("unindexed"); the source drops what is acknowledged, or more ("overrun"), or
\* while the sender reads its filters ("raced"); the replica drops its head, or all; the
\* store leaves the selection.
Environment ==
    [pages : BOOLEAN,
     events : SUBSET {"senderFails", "receiverFails", "power", "unsynced", "unindexed",
                      "sourceDrops", "overrun", "raced", "replicaDrops", "replicaEmpties",
                      "leaves"}]

ASSUME RelayAssumption ==
    /\ {PerTurn, DataRoom, AckRoom, MaxChunks, MaxConns, MaxWires} \subseteq Nat \ {0}
    /\ MaxFailures \in Nat
    /\ Environments \subseteq Environment

VARIABLES
    env,
    source,     \* the chunks ever sealed there, by epoch; number n is source[n + 1]
    kept,       \* the first it still has
    synced,     \* how many are on its disk for sure
    indexed,    \* how many its filters cover
    epoch,
    replica,    \* the chunks ever appended there, [seq, epoch]
    rKept,      \* how many have left it
    filters,    \* the numbers its filters were built from, one per chunk held
    created,
    spc,        \* down, opens, answers, ships, pages, reads, writes, drains
    conn,       \* the sender's connection
    wire,       \* the stream's number on it
    live,       \* the store has a stream
    resume,     \* the next number to serve
    acked,      \* chunks the receiver last said it has, 0 for none
    lastSent,   \* -1 for none
    turn,       \* what one call of serve has selected, then read
    standing,   \* refused, and not offered again yet
    positions,  \* the position file's chunk, and one: 0 for no file
    link,       \* per connection: unused, up, ended, dead, broken, over
    data, acks, \* what is under way on it
    session,    \* the receiver's on it: [wire, stage, adopted, chunks]
    failures

sourceVars == <<source, kept, synced, indexed, epoch>>
replicaVars == <<replica, rKept, filters, created>>
streamVars == <<wire, live, resume, acked, lastSent, turn, standing>>
senderVars == <<spc, conn, streamVars, positions>>
netVars == <<link, data, acks>>
relayVars == <<env, sourceVars, replicaVars, senderVars, netVars, session, failures>>

------------------------------------------------------------------------------
Conns == 1 .. MaxConns
Event(e) == e \in env.events
NoSession == [wire |-> 0, stage |-> "next", adopted |-> 0, chunks |-> 0]

RelayInit ==
    /\ env \in Environments
    /\ source = <<>> /\ kept = 0 /\ synced = 0 /\ indexed = 0 /\ epoch = 1
    /\ replica = <<>> /\ rKept = 0 /\ filters = <<>> /\ created = FALSE
    /\ spc = "down" /\ conn = 0 /\ wire = 0 /\ live = FALSE /\ resume = 0 /\ acked = 0
    /\ lastSent = -1 /\ turn = <<>> /\ standing = FALSE /\ positions = 0
    /\ link = [c \in Conns |-> "unused"] /\ data = [c \in Conns |-> <<>>]
    /\ acks = [c \in Conns |-> <<>>] /\ session = [c \in Conns |-> NoSession]
    /\ failures = 0

------------------------------------------------------------------------------
\* The source store, under its own writer.
Seal ==
    /\ Len(source) < MaxChunks /\ source' = Append(source, epoch)
    /\ synced' = IF Event("unsynced") THEN synced ELSE Len(source')
    /\ indexed' = IF Event("unindexed") THEN indexed ELSE Len(source')
    /\ UNCHANGED <<env, kept, epoch, replicaVars, senderVars, netVars, session, failures>>

Settle ==
    /\ synced' = Len(source) /\ indexed' = Len(source)
    /\ synced < Len(source) \/ indexed < Len(source)
    /\ UNCHANGED <<env, source, kept, epoch, replicaVars, senderVars, netVars, session, failures>>

DropSource ==
    /\ Event("sourceDrops")
    /\ kept + 1 < (IF Event("overrun") THEN Len(source) ELSE positions)
    /\ spc = "pages" => Event("raced")
    /\ kept' = kept + 1
    /\ UNCHANGED <<env, source, synced, indexed, epoch, replicaVars, senderVars, netVars,
                   session, failures>>

------------------------------------------------------------------------------
\* The sender.  Its process starts, connects, and offers the store.
NextWire == (wire % MaxWires) + 1
Fresh ==
    /\ live' = FALSE /\ resume' = 0 /\ acked' = 0 /\ lastSent' = -1 /\ turn' = <<>>
Connect ==
    /\ spc = "down" /\ conn < MaxConns
    /\ conn' = conn + 1 /\ link' = [link EXCEPT ![conn'] = "up"]
    /\ spc' = "opens" /\ wire' = 1 /\ standing' = FALSE /\ Fresh
    /\ UNCHANGED <<env, sourceVars, replicaVars, positions, data, acks, session, failures>>

Push(c, f) == data' = [data EXCEPT ![c] = Append(@, f)]

\* The first number of a stream is the oldest the source has.
Open ==
    /\ spc = "opens" /\ ~live /\ ~standing /\ link[conn] = "up"
    /\ Push(conn, [kind |-> "open", wire |-> wire, seq |-> IF kept < Len(source) THEN kept ELSE 0])
    /\ spc' = "answers"
    /\ UNCHANGED <<env, sourceVars, replicaVars, conn, streamVars, positions, link, acks,
                   session, failures>>

\* REFUSAL_LINGERS: a store that was refused is offered again.
RefusedForGood == UNCHANGED standing
RefusalEnds == standing' = FALSE
Linger ==
    /\ spc = "opens" /\ standing /\ RefusalEnds
    /\ UNCHANGED <<env, sourceVars, replicaVars, spc, conn, wire, live, resume, acked,
                   lastSent, turn, positions, netVars, session, failures>>

\* A store that has left the selection closes its stream; it may be back at once.
Leave ==
    /\ spc = "opens" /\ live /\ Event("leaves") /\ link[conn] = "up"
    /\ Push(conn, [kind |-> "close", wire |-> wire, seq |-> 0])
    /\ wire' = NextWire /\ Fresh
    /\ UNCHANGED <<env, sourceVars, replicaVars, spc, conn, standing, positions, link, acks,
                   session, failures>>

\* note_ack, note_conflict: what is not of the stream there is now is ignored.
Heard(f) ==
    IF ~live \/ f.wire # wire THEN UNCHANGED streamVars
    ELSE IF f.kind = "coverage"
    THEN acked' = f.covers /\ UNCHANGED <<wire, live, resume, lastSent, turn, standing>>
    ELSE Fresh /\ wire' = NextWire /\ standing' = TRUE

\* The answer is waited for; other frames before it are heard.
Answer ==
    /\ spc = "answers" /\ acks[conn] # <<>>
    /\ LET f == Head(acks[conn])
       IN  IF f.wire = wire /\ f.kind = "accepted"
           THEN /\ live' = TRUE /\ resume' = f.covers /\ acked' = 0 /\ lastSent' = -1
                /\ spc' = "ships" /\ UNCHANGED <<wire, turn, standing>>
           ELSE IF f.wire = wire /\ f.kind = "conflict"
           THEN /\ standing' = TRUE /\ spc' = "ships"
                /\ UNCHANGED <<wire, live, resume, acked, lastSent, turn>>
           ELSE Heard(f) /\ UNCHANGED spc
    /\ acks' = [acks EXCEPT ![conn] = Tail(@)]
    /\ UNCHANGED <<env, sourceVars, replicaVars, conn, positions, link, data, session, failures>>

\* serve reads the store's index, then its filters by their places there, then chunk by
\* chunk; what has been dropped between is left out, and still examined.
TurnSize == PerTurn

Serve ==
    /\ spc = "ships" \/ (spc = "opens" /\ (live \/ standing))
    /\ LET from == IF resume > kept THEN resume ELSE kept
           to == IF from + TurnSize < Len(source) THEN from + TurnSize ELSE Len(source)
           frame(n) == [kind |-> "chunk", wire |-> wire, seq |-> n, epoch |-> source[n + 1],
                        page |-> n - kept]
       IN  IF live /\ from < to
           THEN /\ turn' = [i \in 1 .. to - from |-> frame(from + i - 1)]
                /\ spc' = IF env.pages THEN "pages" ELSE "reads"
           ELSE UNCHANGED turn /\ spc' = "drains"
    /\ UNCHANGED <<env, sourceVars, replicaVars, conn, wire, live, resume, acked, lastSent,
                   standing, positions, netVars, session, failures>>

\* read_pages: a filter goes with its chunk where the source's filters reach it.
PageAtTurn(place, first) == IF place < indexed - kept THEN place - first + kept ELSE -1
PageAt(place, first) == IF place < indexed - kept THEN place + kept ELSE -1

ReadPages ==
    /\ spc = "pages" /\ spc' = "reads"
    /\ turn' = [i \in DOMAIN turn |-> [turn[i] EXCEPT !.page = PageAt(@, turn[1].page)]]
    /\ UNCHANGED <<env, sourceVars, replicaVars, conn, wire, live, resume, acked, lastSent,
                   standing, positions, netVars, session, failures>>

Read ==
    /\ spc = "reads"
    /\ LET gone == IF kept > turn[1].seq THEN kept - turn[1].seq ELSE 0
       IN  turn' = SubSeq(turn, gone + 1, Len(turn))
    /\ lastSent' = IF turn' = <<>> THEN lastSent ELSE Last(turn').seq
    /\ resume' = Last(turn).seq + 1
    /\ spc' = IF turn' = <<>> THEN "drains" ELSE "writes"
    /\ UNCHANGED <<env, sourceVars, replicaVars, conn, wire, live, acked, standing, positions,
                   netVars, session, failures>>

Write ==
    /\ spc = "writes" /\ link[conn] = "up" /\ Len(data[conn]) < DataRoom
    /\ Push(conn, Head(turn)) /\ turn' = Tail(turn)
    /\ spc' = IF turn' = <<>> THEN "drains" ELSE "writes"
    /\ UNCHANGED <<env, sourceVars, replicaVars, conn, wire, live, resume, acked, lastSent,
                   standing, positions, link, acks, session, failures>>

\* drain_acks takes all that has come, and waits for no more.
Drain ==
    /\ spc = "drains" /\ acks[conn] # <<>>
    /\ Heard(Head(acks[conn])) /\ acks' = [acks EXCEPT ![conn] = Tail(@)]
    /\ UNCHANGED <<env, sourceVars, replicaVars, spc, conn, positions, link, data, session,
                   failures>>

\* save_positions: what was sent last, when that is what is acknowledged.
RecordAcked ==
    positions' = IF live /\ acked > 0 /\ lastSent = acked - 1 /\ acked > positions
                 THEN acked ELSE positions

Save ==
    /\ spc = "drains" /\ acks[conn] = <<>> /\ RecordAcked /\ spc' = "opens"
    /\ UNCHANGED <<env, sourceVars, replicaVars, conn, streamVars, netVars, session, failures>>

\* The process ends, by itself or on a connection that has failed; it is started again.
SenderEnds(how) ==
    /\ spc' = "down" /\ link' = [link EXCEPT ![conn] = how]
    /\ acks' = [acks EXCEPT ![conn] = <<>>]
    /\ Fresh /\ UNCHANGED <<conn, wire, standing, positions>>

\* Or its host loses power: what is not on its disk, and what has not left it, is gone.
SenderFails ==
    /\ spc # "down" /\ link[conn] = "up" /\ failures < MaxFailures
    /\ \E how \in {"ended", "dead"} :
        /\ Event(IF how = "dead" THEN "power" ELSE "senderFails") /\ SenderEnds(how)
        /\ data' = IF how = "dead" /\ session[conn].stage = "next"
                   THEN [data EXCEPT ![conn] = <<>>] ELSE data
        /\ source' = IF how = "dead" THEN SubSeq(source, 1, synced) ELSE source
        /\ epoch' = IF how = "dead" THEN epoch + 1 ELSE epoch
    /\ indexed' = IF indexed > Len(source') THEN Len(source') ELSE indexed
    /\ failures' = failures + 1
    /\ UNCHANGED <<env, kept, synced, replicaVars, session>>

Notice ==
    /\ spc # "down" /\ link[conn] \in {"broken", "over"}
    /\ SenderEnds("over")
    /\ UNCHANGED <<env, sourceVars, replicaVars, data, session, failures>>

------------------------------------------------------------------------------
\* The receiver: a thread per connection.
Locked == \E c \in Conns : session[c].wire > 0
Held == Len(replica) - rKept

\* Session::coverage: a replica that holds nothing covers nothing.
Covers == IF Held = 0 THEN 0 ELSE Len(replica)
Tell(c, kind, w) ==
    IF link[c] = "up"
    THEN acks' = [acks EXCEPT ![c] =
                      Append(@, [kind |-> kind, wire |-> w,
                                 covers |-> IF kind = "conflict" THEN 0 ELSE Covers'])]
    ELSE UNCHANGED acks
Room(c) == link[c] # "up" \/ Len(acks[c]) < AckRoom
Alive(c) == link[c] \in {"up", "ended", "dead"}
Next_(c) == Head(data[c])
Take(c) == data' = [data EXCEPT ![c] = Tail(@)]
Ready(c, kind) ==
    /\ Alive(c) /\ data[c] # <<>> /\ Next_(c).kind = kind
    /\ session[c].stage = "next"

\* open_stream: refused while another session writes the store, and where a replica
\* would start in the middle of a tape.
OpenStream(c) ==
    /\ Ready(c, "open") /\ Room(c) /\ Take(c)
    /\ IF Locked \/ (~created /\ Next_(c).seq > 0)
       THEN UNCHANGED <<session, replicaVars>> /\ Tell(c, "conflict", Next_(c).wire)
       ELSE /\ session' = [session EXCEPT ![c] = [NoSession EXCEPT !.wire = Next_(c).wire]]
            /\ created' = TRUE /\ UNCHANGED <<replica, rKept, filters>>
            /\ Tell(c, "accepted", Next_(c).wire)
    /\ UNCHANGED <<env, sourceVars, senderVars, link, failures>>

\* append_wire_frame: a chunk continues the numbering exactly, or ends its stream.
ContinuesAbove(n) == n >= Len(replica)
Continues(n) == n = Len(replica)

ApplyChunk(c) ==
    LET f == Next_(c)
    IN  /\ Ready(c, "chunk")
        /\ IF session[c].wire # f.wire
           THEN Take(c) /\ UNCHANGED <<session, replicaVars, acks>>
           ELSE IF Continues(f.seq)
           THEN /\ replica' = Append(replica, [seq |-> f.seq, epoch |-> f.epoch])
                /\ session' = [session EXCEPT ![c].stage = "page", ![c].chunks = @ + 1]
                /\ UNCHANGED <<rKept, filters, created, data, acks>>
           ELSE /\ Room(c) /\ Take(c) /\ Tell(c, "conflict", f.wire)
                /\ session' = [session EXCEPT ![c] = NoSession] /\ UNCHANGED replicaVars
        /\ UNCHANGED <<env, sourceVars, senderVars, link, failures>>

\* append_page: the filter becomes the next record of the index.
AdoptPage(c) ==
    /\ Alive(c) /\ session[c].stage = "page"
    /\ IF env.pages /\ Next_(c).page >= 0
       THEN /\ filters' = Append(filters, Next_(c).page)
            /\ session' = [session EXCEPT ![c].stage = "ack", ![c].adopted = @ + 1]
       ELSE session' = [session EXCEPT ![c].stage = "ack"] /\ UNCHANGED filters
    /\ UNCHANGED <<env, sourceVars, replica, rKept, created, senderVars, netVars, failures>>

\* Every chunk is acknowledged.
Acknowledge(c) ==
    /\ Alive(c) /\ session[c].stage = "ack" /\ Room(c)
    /\ session' = [session EXCEPT ![c].stage = "next"]
    /\ Take(c) /\ UNCHANGED replicaVars /\ Tell(c, "coverage", session[c].wire)
    /\ UNCHANGED <<env, sourceVars, senderVars, link, failures>>

\* Session::finish: the index is extended unless filters were adopted.
Finished(c) ==
    /\ filters' = IF env.pages /\ session[c].chunks > 0 /\ session[c].adopted = 0
                     /\ Len(filters) <= Held
                  THEN filters \o [i \in 1 .. Held - Len(filters) |-> rKept + Len(filters) + i - 1]
                  ELSE filters
    /\ session' = [session EXCEPT ![c] = NoSession]
    /\ UNCHANGED <<replica, rKept, created>>

CloseStream(c) ==
    /\ Ready(c, "close") /\ Take(c)
    /\ IF session[c].wire = Next_(c).wire THEN Finished(c) ELSE UNCHANGED <<session, replicaVars>>
    /\ UNCHANGED <<env, sourceVars, senderVars, link, acks, failures>>

\* The end of the connection.  Writing to a sender that is gone may be an error, which
\* ends it with its session as it is.
EndConnection(c) ==
    /\ link[c] = "ended" /\ session[c].stage # "page"
    /\ \/ data[c] = <<>> /\ Finished(c)
       \/ /\ data[c] # <<>> /\ session' = [session EXCEPT ![c] = NoSession]
          /\ UNCHANGED replicaVars
    /\ link' = [link EXCEPT ![c] = "over"] /\ data' = [data EXCEPT ![c] = <<>>]
    /\ UNCHANGED <<env, sourceVars, senderVars, acks, failures>>

\* The intake dies, every session with it; it is started again.
ReceiverFails ==
    /\ Event("receiverFails") /\ failures < MaxFailures /\ failures' = failures + 1
    /\ \E c \in Conns : Alive(c)
    /\ link' = [c \in Conns |-> IF link[c] = "up" THEN "broken"
                                ELSE IF Alive(c) THEN "over" ELSE link[c]]
    /\ data' = [c \in Conns |-> <<>>] /\ session' = [c \in Conns |-> NoSession]
    /\ UNCHANGED <<env, sourceVars, replicaVars, senderVars, acks>>

\* Retention of the replica, by a command that takes the writer lock.
DropReplica ==
    /\ Event("replicaDrops") /\ ~Locked /\ Held > (IF Event("replicaEmpties") THEN 0 ELSE 1)
    /\ rKept' = rKept + 1 /\ filters' = IF filters = <<>> THEN filters ELSE Tail(filters)
    /\ UNCHANGED <<env, sourceVars, replica, created, senderVars, netVars, session, failures>>

------------------------------------------------------------------------------
SenderStep ==
    \/ Connect \/ Open \/ Linger \/ Answer \/ Serve \/ ReadPages \/ Read \/ Write \/ Drain
    \/ Save \/ Notice
ReceiverStep(c) ==
    OpenStream(c) \/ ApplyChunk(c) \/ AdoptPage(c) \/ Acknowledge(c) \/ CloseStream(c)
    \/ EndConnection(c)

RelayNext ==
    \/ SenderStep \/ \E c \in Conns : ReceiverStep(c)
    \/ Seal \/ Settle \/ DropSource \/ DropReplica \/ Leave
    \/ SenderFails \/ ReceiverFails

RelaySpec == RelayInit /\ [][RelayNext]_relayVars

\* Both processes run; a refusal ends, and what has come is read.
FairRelay ==
    /\ RelaySpec
    /\ WF_relayVars(Connect \/ Open \/ Answer \/ Serve \/ ReadPages \/ Read \/ Write)
    /\ WF_relayVars(Drain \/ Save) /\ WF_relayVars(Notice)
    /\ SF_relayVars(Linger)
    /\ \A c \in Conns : WF_relayVars(ReceiverStep(c))

------------------------------------------------------------------------------
\* src/receive.rs: "a replica is not a derivative, it is the store in another place".
\* A number means the same chunk at both ends, for all either has ever held, with no
\* gap and no repetition across connections, restarts and refusals.
ReplicaIsTheTape ==
    \A i \in 1 .. Len(replica) :
        /\ replica[i].seq = i - 1
        /\ i <= Len(source) => replica[i].epoch = source[i]

\* A filter answers for the chunk at its own place (one that is missing means a scan).
FiltersMatch == \A i \in 1 .. Len(filters) : i <= Held /\ filters[i] = rKept + i - 1

\* src/frames.rs, of CHUNKS_PER_TURN: the ends do not both wait for the other to read.
NoStandoff ==
    \A c \in Conns :
        ~(/\ c = conn /\ spc = "writes" /\ Len(data[c]) >= DataRoom
          /\ link[c] = "up" /\ session[c].stage = "ack" /\ ~Room(c))

\* When the failures end, the replica comes to hold every chunk the source has sealed,
\* if the source keeps what is not acknowledged.
Failing == SenderFails \/ ReceiverFails
Resumes == <>[][~Failing /\ ~Leave]_relayVars => <>[](Len(replica) = Len(source))
CatchesUp == Event("overrun") \/ Resumes
==============================================================================
