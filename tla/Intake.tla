------------------------------- MODULE Intake -------------------------------
(***************************************************************************)
(* A network intake: the receiver core that owns the stores, their locks   *)
(* and the maintenance tick (src/src/intake.rs), under the two protocols   *)
(* that acknowledge what they are sent: Fluentd Forward, one message at a  *)
(* time with a chunk id to acknowledge (src/src/forward.rs), and OTLP over *)
(* HTTP, one request of several batches (src/src/otlp_intake.rs).          *)
(*                                                                         *)
(* An entry is known by its place: the sender, the message, the batch and  *)
(* the position of its parts in it.  A store is a sequence of entries in   *)
(* three places: chunks, the write-ahead segment and the buffer that the   *)
(* segment copies; of the first two a part is known to be on the disk, and *)
(* of the rest any prefix may be when the receiver dies.  The calls of a   *)
(* store that FileStore takes apart are one step here, each with the ways  *)
(* it can fail.  A step is what one thread does under the intake's mutex,  *)
(* or between two such.                                                    *)
(***************************************************************************)
EXTENDS Integers, SequencesExt, FiniteSetsExt

CONSTANTS
    Clients,       \* senders
    Values,        \* tags, or routing attributes: what names a store
    Names,         \* stores
    StoreOf,       \* store_name: the sanitized value, several to one
    PartialIds,    \* partial_id of a split entry
    ChunkSize,     \* entries that fill a chunk
    PartialRoom,   \* PARTIAL_MAX_OUTSTANDING
    PartialMax,    \* parts that exceed PARTIAL_MAX_BYTES
    Environments   \* what a behaviour may meet: set of environments

\* Messages: how they read ("gzip": refused, with the connection; "bad": refused, with
\* no more than an answer), whether they ask for an acknowledgement (any OTLP request
\* does), and their batches, each of one value.  A Forward message is one batch.  An
\* entry is whole (part = NoPart) or a part of a split one, that may be its last.
NoPart == 0
EntryForm == [part : {NoPart} \cup PartialIds, last : BOOLEAN]
BatchForm == [value : Values, entries : Seq(EntryForm) \ {<<>>}]
MessageForm == [form : {"good", "gzip", "bad"}, chunk : BOOLEAN, batches : Seq(BatchForm) \ {<<>>}]

\* An environment: the protocol; whether a store is made for a value nobody
\* declared; the stores that exist at the start, those that an operator makes later
\* and those another writer has for a while; whether retention drops chunks; what
\* each sender has to send, and whether it waits for an answer as long as its
\* connection stands; what goes wrong, and how often.
Trouble == {"flush", "segment", "fsync", "append", "die", "stop", "give up", "rearm"}
Environment(e) ==
    /\ e.protocol \in {"forward", "otlp", "console"} /\ e.autoCreate \in BOOLEAN
    /\ e.exists \subseteq Names /\ e.later \subseteq Names /\ e.taken \subseteq Names
    /\ e.retains \in BOOLEAN /\ e.patient \in BOOLEAN
    /\ e.script \in [Clients -> Seq(MessageForm)]
    /\ e.protocol = "forward" =>
          \A c \in Clients : \A i \in DOMAIN e.script[c] : Len(e.script[c][i].batches) = 1
    /\ e.troubles \subseteq Trouble /\ e.budget \in Nat

ASSUME IntakeAssumption ==
    /\ StoreOf \in [Values -> Names] /\ "none" \notin Values /\ {"none", "tick"} \cap Clients = {}
    /\ ChunkSize \in Nat \ {0} /\ PartialRoom \in Nat /\ PartialMax \in Nat
    /\ \A e \in Environments : Environment(e)

None == "none"
Tick == <<"tick", 0>>
NoConn == <<"none", 0>>
\* A sender uses a connection of its own at a time; the thread of the one before
\* may still be at work.
Conns == Clients \X {0, 1}
NoPartials == [i \in PartialIds |-> <<>>]

VARIABLES
    env,       \* the environment of this behaviour, the same throughout
    budget,    \* troubles it still has to meet
    \* senders: the message each is at, its connection, whether it waits
    todo, conn, waits,
    \* connections: open at the sender's end, what was sent, what was answered
    up, inbox, replies,
    \* the receiver's connection threads
    tpc,       \* where each is
    msg, at,   \* the message in hand and the position in it
    partials,  \* PartialReassembler: parts held, by partial_id
    rejected,  \* some entry of the request was not stored (OTLP)
    sending,   \* acknowledgements taken, to be sent
    \* the maintenance thread, and what its tick has still to do
    mpc, left,
    \* Intake: the stores, and the acknowledgements each one owes (Forward)
    store, pending,
    taken,     \* stores another program writes
    \* history: messages acknowledged, entries dropped by retention
    acked, dropped

clientVars == <<todo, conn, waits>>
netVars == <<up, inbox, replies>>
threadVars == <<tpc, msg, at, partials, rejected, sending>>
tickVars == <<mpc, left>>
intakeVars == <<store, pending, taken>>
history == <<acked, dropped>>
intakeAllVars == <<env, budget, clientVars, netVars, threadVars, tickVars, intakeVars, history>>

------------------------------------------------------------------------------
\* A store: on disk whether it is there, the value its manifest was opened by,
\* its chunks and segment and how much of each is synced; in memory, whether the
\* receiver has it open, the value it opened it by, and its FileStore.
Absent == [there |-> FALSE, route |-> None, chunks |-> <<>>, csynced |-> 0,
           sap |-> <<>>, ssynced |-> 0,
           open |-> FALSE, routed |-> None, buf |-> <<>>, wal |-> FALSE]

Entry(value, parts) == [value |-> value, parts |-> parts]

\* A call's outcome: the store after it, whether it succeeded, and what trouble it took.
Fine(s) == [store |-> s, ok |-> TRUE, cost |-> 0]
Failed(s) == [store |-> s, ok |-> FALSE, cost |-> 1]
Meets(trouble, o) == IF trouble \in env.troubles THEN {o} ELSE {}

\* flush_chunk: with a segment, what it holds is on the disk before the segment
\* goes; the next one may fail to start, and then there is none until a reopen.
Landed(s) == [s EXCEPT !.chunks = @ \o s.buf, !.buf = <<>>]
LandedSynced(s) ==
    [Landed(s) EXCEPT !.csynced = Len(s.chunks) + Len(s.buf), !.sap = <<>>, !.ssynced = 0]

FlushChunk(s) ==
    IF s.buf = <<>> THEN {Fine(s)}
    ELSE IF s.wal
    THEN {Fine(LandedSynced(s))}
         \cup Meets("segment", [Fine([LandedSynced(s) EXCEPT !.wal = FALSE]) EXCEPT !.cost = 1])
         \cup Meets("flush", Failed([s EXCEPT !.ssynced = Len(s.sap)]))
    ELSE {Fine(Landed(s))} \cup Meets("flush", Failed(s))

\* append_windowed: the buffer first, then the segment, then a full chunk.
Appended(s, e) ==
    LET buffered == [s EXCEPT !.buf = Append(@, e)]
        mirrored == IF s.wal THEN [buffered EXCEPT !.sap = Append(@, e)] ELSE buffered
    IN  (IF Len(mirrored.buf) >= ChunkSize THEN FlushChunk(mirrored) ELSE {Fine(mirrored)})
        \cup (IF s.wal THEN Meets("append", Failed(buffered)) ELSE {})

\* sap_sync, or where there is no segment flush_chunk and sync: what an
\* acknowledgement waits for.
SapSync(s) ==
    {Fine([s EXCEPT !.ssynced = Len(s.sap)])} \cup Meets("fsync", Failed(s))
MakeDurableUnsynced(s) == IF s.wal THEN SapSync(s) ELSE FlushChunk(s)
MakeDurable(s) ==
    IF s.wal THEN SapSync(s)
    ELSE {IF o.ok THEN [o EXCEPT !.store.csynced = Len(o.store.chunks)] ELSE o :
             o \in FlushChunk(s)}

\* FileStore::open after a death: the segment is replayed into the buffer.
Replayed(s) == [s EXCEPT !.open = TRUE, !.buf = s.sap, !.wal = TRUE]

------------------------------------------------------------------------------
\* ensure_store: a store that is open is refused to another value from memory; one
\* that is not, when nobody declared it, when it has a writer, or by its manifest.
RefusedUnopened(s, n, v) ==
    /\ ~s.open
    /\ (~s.there /\ ~env.autoCreate) \/ n \in taken \/ s.route \notin {None, v}
RefusedIn(stores, n, v) ==
    IF stores[n].open THEN stores[n].routed # v ELSE RefusedUnopened(stores[n], n, v)
Refused(n, v) == RefusedIn(store, n, v)

Ensured(s, v) ==
    IF s.open THEN s ELSE [Replayed(s) EXCEPT !.there = TRUE, !.route = v, !.routed = v]

------------------------------------------------------------------------------
Script(c) == env.script[c]
Message(k) == Script(k[1])[msg[k]]
Batch(k, b) == Message(k).batches[b]
Target(k, b) == StoreOf[Batch(k, b).value]

\* Where an entry of a message is, by which it is known.
Place(k, b, j) == <<k[1], msg[k], b, j>>
Places(c, i) ==
    LET batches == Script(c)[i].batches
    IN  UNION {{<<c, i, b, j>> : j \in 1 .. Len(batches[b].entries)} : b \in 1 .. Len(batches)}

Init ==
    /\ env \in Environments /\ budget = env.budget
    /\ todo = [c \in Clients |-> 1] /\ conn = [c \in Clients |-> NoConn]
    /\ waits = [c \in Clients |-> FALSE]
    /\ up = [k \in Conns |-> FALSE] /\ inbox = [k \in Conns |-> <<>>]
    /\ replies = [k \in Conns |-> <<>>]
    /\ tpc = [k \in Conns |-> None] /\ msg = [k \in Conns |-> 0]
    /\ at = [k \in Conns |-> 0] /\ rejected = [k \in Conns |-> FALSE]
    /\ partials = [k \in Conns |-> NoPartials]
    /\ sending = [t \in Conns \cup {Tick} |-> <<>>]
    /\ mpc = "sleeps" /\ left = {}
    /\ store = [n \in Names |-> [Absent EXCEPT !.there = n \in env.exists]]
    /\ pending = [n \in Names |-> <<>>] /\ taken = env.taken
    /\ acked = {} /\ dropped = {}

------------------------------------------------------------------------------
\* Senders (other programs).  A sender sends a message again until it is answered, on
\* a new connection where the old one went quiet or was closed.
Forward == env.protocol = "forward"
Asks(c) == Script(c)[todo[c]].chunk
Owed(k) ==
    \/ \E n \in Names : \E a \in Range(pending[n]) : a.conn = k
    \/ \E t \in DOMAIN sending : \E a \in Range(sending[t]) : a.conn = k
Unused(k) == tpc[k] = None /\ ~up[k] /\ ~Owed(k)

Connect(c) ==
    /\ conn[c] = NoConn /\ todo[c] <= Len(Script(c)) /\ mpc # "down"
    /\ \E k \in {<<c, 0>>, <<c, 1>>} :
         /\ Unused(k) /\ (k[2] = 1 => ~Unused(<<c, 0>>))
         /\ conn' = [conn EXCEPT ![c] = k] /\ up' = [up EXCEPT ![k] = TRUE]
         /\ inbox' = [inbox EXCEPT ![k] = <<>>] /\ replies' = [replies EXCEPT ![k] = <<>>]
         /\ tpc' = [tpc EXCEPT ![k] = "reads"]
    /\ UNCHANGED <<env, budget, todo, waits, msg, at, partials, rejected, sending, tickVars,
                   intakeVars, history>>

SendMessage(c) ==
    /\ conn[c] # NoConn /\ ~waits[c] /\ todo[c] <= Len(Script(c)) /\ inbox[conn[c]] = <<>>
    /\ inbox' = [inbox EXCEPT ![conn[c]] = <<todo[c]>>]
    /\ waits' = [waits EXCEPT ![c] = Asks(c)]
    /\ todo' = [todo EXCEPT ![c] = IF Asks(c) THEN @ ELSE @ + 1]
    /\ UNCHANGED <<env, budget, conn, up, replies, threadVars, tickVars, intakeVars, history>>

\* An answer: acknowledged, to be sent again, or wrong for good.
Hear(c) ==
    /\ conn[c] # NoConn /\ replies[conn[c]] # <<>>
    /\ LET r == Head(replies[conn[c]]) IN
       /\ replies' = [replies EXCEPT ![conn[c]] = Tail(@)]
       /\ waits' = [waits EXCEPT ![c] = @ /\ r.about # todo[c]]
       /\ todo' = [todo EXCEPT ![c] =
                      IF waits[c] /\ r.about = @ /\ r.says # "again" THEN @ + 1 ELSE @]
    /\ UNCHANGED <<env, budget, conn, up, inbox, threadVars, tickVars, intakeVars, history>>

Leave(c) ==
    /\ up' = [up EXCEPT ![conn[c]] = FALSE] /\ conn' = [conn EXCEPT ![c] = NoConn]
    /\ waits' = [waits EXCEPT ![c] = FALSE] /\ replies' = [replies EXCEPT ![conn[c]] = <<>>]
    /\ UNCHANGED <<env, todo, inbox, threadVars, tickVars, intakeVars, history>>

\* Nobody is going to answer: what it sent was refused, or the connection is gone.
Unanswered(c) ==
    LET k == conn[c] IN
    /\ k # NoConn /\ replies[k] = <<>>
    /\ \/ tpc[k] = None
       \/ ~env.patient /\ waits[c] /\ tpc[k] = "reads" /\ inbox[k] = <<>> /\ ~Owed(k)

GiveUp(c) == Unanswered(c) /\ Leave(c) /\ UNCHANGED budget

\* It loses patience while it may still be answered.
GiveUpEarly(c) ==
    /\ "give up" \in env.troubles /\ budget > 0 /\ budget' = budget - 1
    /\ conn[c] # NoConn /\ waits[c] /\ ~Unanswered(c) /\ Leave(c)

------------------------------------------------------------------------------
\* A connection's thread.
Answer(k, i, says) ==
    replies' = IF up[k] THEN [replies EXCEPT ![k] = Append(@, [about |-> i, says |-> says])]
               ELSE replies

\* To the next step of a message, or, done with it, back to reading.
Goes(k, to) ==
    /\ tpc' = [tpc EXCEPT ![k] = to]
    /\ msg' = IF to = "reads" THEN [msg EXCEPT ![k] = 0] ELSE msg

Take(k) ==
    /\ tpc[k] = "reads" /\ inbox[k] # <<>>
    /\ inbox' = [inbox EXCEPT ![k] = Tail(@)]
    /\ LET i == Head(inbox[k])
           form == Script(k[1])[i].form
       IN
       \/ /\ form = "good" /\ UNCHANGED replies
          /\ msg' = [msg EXCEPT ![k] = i] /\ at' = [at EXCEPT ![k] = 1]
          /\ tpc' = [tpc EXCEPT ![k] = IF Forward THEN "feeds" ELSE "ensures"]
       \/ /\ form # "good" /\ UNCHANGED <<msg, at>>
          /\ tpc' = [tpc EXCEPT ![k] = IF Forward \/ form = "gzip" THEN "ends" ELSE "reads"]
          /\ IF Forward THEN UNCHANGED replies ELSE Answer(k, i, "never")
    /\ UNCHANGED <<env, budget, clientVars, up, partials, rejected, sending, tickVars,
                   intakeVars, history>>

\* The connection is at its end, as its sender left it.
Eof(k) ==
    /\ tpc[k] = "reads" /\ inbox[k] = <<>> /\ ~up[k]
    /\ tpc' = [tpc EXCEPT ![k] = "ends"]
    /\ UNCHANGED <<env, budget, clientVars, netVars, msg, at, partials, rejected, sending,
                   tickVars, intakeVars, history>>

\* Its acknowledgements can never be sent; those of others to the same store can.
Without(acks, k) ==
    LET keep(kept, a) == IF a.conn = k THEN kept ELSE Append(kept, a)
    IN  FoldLeft(keep, <<>>, acks)
End(k) ==
    /\ tpc[k] = "ends" /\ tpc' = [tpc EXCEPT ![k] = None]
    /\ pending' = [n \in Names |-> Without(pending[n], k)]
    /\ partials' = [partials EXCEPT ![k] = NoPartials]
    /\ inbox' = [inbox EXCEPT ![k] = <<>>]
    /\ UNCHANGED <<env, budget, clientVars, up, replies, msg, at, rejected, sending, tickVars,
                   store, taken, history>>

------------------------------------------------------------------------------
\* Forward.  PartialReassembler::feed: the parts an entry now makes complete, or none.
Outstanding(ps) == Cardinality({i \in PartialIds : ps[i] # <<>>})
Fed(ps, e, place) ==
    LET i == e.part
        parts == Append(ps[i], place)
    IN  CASE i = NoPart -> [out |-> <<place>>, parts |-> ps]
          [] i # NoPart /\ ps[i] = <<>> /\ Outstanding(ps) >= PartialRoom ->
               [out |-> <<place>>, parts |-> ps]
          [] OTHER ->
               IF e.last \/ Len(parts) > PartialMax
               THEN [out |-> parts, parts |-> [ps EXCEPT ![i] = <<>>]]
               ELSE [out |-> <<>>, parts |-> [ps EXCEPT ![i] = parts]]

\* One entry of a message: fed, and if that makes one complete its store is ensured and
\* it is appended, under one hold of the mutex.  A refusal is logged, and so is a failure.
Feed(k) ==
    LET b == Batch(k, 1)
        n == Target(k, 1)
        fed == Fed(partials[k], b.entries[at[k]], Place(k, 1, at[k]))
        atEnd == at[k] = Len(b.entries)
    IN
    /\ tpc[k] = "feeds"
    /\ partials' = [partials EXCEPT ![k] = fed.parts]
    /\ at' = [at EXCEPT ![k] = IF atEnd THEN 0 ELSE @ + 1]
    /\ Goes(k, IF ~atEnd THEN "feeds" ELSE IF Message(k).chunk THEN "pushes" ELSE "reads")
    /\ IF fed.out = <<>> \/ Refused(n, b.value)
       THEN UNCHANGED <<budget, store>>
       ELSE \E o \in Appended(Ensured(store[n], b.value), Entry(b.value, fed.out)) :
              /\ o.cost <= budget /\ budget' = budget - o.cost
              /\ store' = [store EXCEPT ![n] = o.store]
    /\ UNCHANGED <<env, clientVars, netVars, rejected, sending, tickVars, pending, taken,
                   history>>

\* The chunk is owed an acknowledgement, unless what it was for has no store.
Push(k) ==
    LET n == Target(k, 1) IN
    /\ tpc[k] = "pushes"
    /\ IF store[n].open
       THEN /\ pending' = [pending EXCEPT ![n] = Append(@, [conn |-> k, about |-> msg[k]])]
            /\ Goes(k, "drains")
       ELSE Goes(k, "reads") /\ UNCHANGED pending
    /\ UNCHANGED <<env, budget, clientVars, netVars, at, partials, rejected, sending,
                   tickVars, store, taken, history>>

\* drain_acks: what the store owes, once it is on the disk; put back when it is not.
PutBackNot(acks, n) == pending' = [pending EXCEPT ![n] = <<>>]
PutBack(acks, n) == pending' = [pending EXCEPT ![n] = acks]

Drain(t, n) ==
    IF pending[n] = <<>> THEN UNCHANGED <<budget, store, pending, sending>>
    ELSE \E o \in MakeDurable(store[n]) :
           /\ o.cost <= budget /\ budget' = budget - o.cost
           /\ store' = [store EXCEPT ![n] = o.store]
           /\ IF o.ok
              THEN /\ pending' = [pending EXCEPT ![n] = <<>>]
                   /\ sending' = [sending EXCEPT ![t] = pending[n]]
              ELSE PutBack(pending[n], n) /\ UNCHANGED sending

DrainOwn(k) ==
    /\ tpc[k] = "drains" /\ Drain(k, Target(k, 1))
    /\ Goes(k, "sends")
    /\ UNCHANGED <<env, clientVars, netVars, at, partials, rejected, tickVars, taken,
                   history>>

\* The acknowledgements taken go out one by one, to whichever connections they are for.
SendAck(t) ==
    /\ sending[t] # <<>> /\ sending' = [sending EXCEPT ![t] = Tail(@)]
    /\ LET a == Head(sending[t]) IN
       /\ acked' = acked \cup {<<a.conn[1], a.about>>}
       /\ replies' = IF up[a.conn]
                     THEN [replies EXCEPT ![a.conn] =
                              Append(@, [about |-> a.about, says |-> "stored"])]
                     ELSE replies
    /\ UNCHANGED <<env, budget, clientVars, up, inbox, tpc, msg, at, partials, rejected,
                   tickVars, intakeVars, dropped>>

AllSent(k) ==
    /\ tpc[k] = "sends" /\ sending[k] = <<>> /\ Goes(k, "reads")
    /\ UNCHANGED <<env, budget, clientVars, netVars, at, partials, rejected, sending,
                   tickVars, intakeVars, history>>

------------------------------------------------------------------------------
\* OTLP, handle_export.  First every batch's store, under one hold of the mutex; the
\* first refusal makes the whole request one to send again.
Ensure(k) ==
    LET bs == Message(k).batches
        step(acc, b) ==
            LET n == StoreOf[b.value] IN
            IF acc.refused \/ RefusedIn(acc.store, n, b.value) THEN [acc EXCEPT !.refused = TRUE]
            ELSE [acc EXCEPT !.store[n] = Ensured(@, b.value)]
        all == FoldLeft(step, [store |-> store, refused |-> FALSE], bs)
    IN
    /\ tpc[k] = "ensures" /\ store' = all.store
    /\ Goes(k, IF all.refused THEN "reads" ELSE "appends")
    /\ at' = [at EXCEPT ![k] = IF all.refused THEN 0 ELSE @]
    /\ IF all.refused THEN Answer(k, msg[k], "again") ELSE UNCHANGED replies
    /\ UNCHANGED <<env, budget, clientVars, up, inbox, partials, rejected, sending, tickVars,
                   pending, taken, history>>

\* Then every entry, under one hold; a failure rejects its entry alone.
AppendAll(k) ==
    LET bs == Message(k).batches
        one(acc, e) ==
            UNION {{[store |-> [a.store EXCEPT ![StoreOf[e.value]] = o.store],
                     rejected |-> a.rejected \/ ~o.ok, cost |-> a.cost + o.cost] :
                        o \in Appended(a.store[StoreOf[e.value]], e)} : a \in acc}
        places(b) == [j \in 1 .. Len(bs[b].entries) |-> Entry(bs[b].value, <<Place(k, b, j)>>)]
        entries == FlattenSeq([b \in 1 .. Len(bs) |-> places(b)])
    IN
    /\ tpc[k] = "appends" /\ tpc' = [tpc EXCEPT ![k] = "syncs"]
    /\ \E a \in FoldLeft(one, {[store |-> store, rejected |-> FALSE, cost |-> 0]}, entries) :
         /\ a.cost <= budget /\ budget' = budget - a.cost
         /\ store' = a.store /\ rejected' = [rejected EXCEPT ![k] = a.rejected]
    /\ UNCHANGED <<env, clientVars, netVars, msg, at, partials, sending, tickVars, pending,
                   taken, history>>

\* Then each store is made durable, under a hold of its own; a failure makes the whole
\* request one to send again, stored as it may be.
SyncOne(k) ==
    LET n == Target(k, at[k])
        atEnd == at[k] = Len(Message(k).batches)
    IN
    /\ tpc[k] = "syncs"
    /\ \E o \in MakeDurable(store[n]) :
         /\ o.cost <= budget /\ budget' = budget - o.cost
         /\ store' = [store EXCEPT ![n] = o.store]
         /\ IF o.ok /\ ~atEnd
            THEN /\ at' = [at EXCEPT ![k] = @ + 1] /\ Goes(k, "syncs")
                 /\ UNCHANGED <<replies, acked, rejected>>
            ELSE /\ at' = [at EXCEPT ![k] = 0] /\ Goes(k, "reads")
                 /\ rejected' = [rejected EXCEPT ![k] = FALSE]
                 /\ Answer(k, msg[k], IF o.ok THEN "stored" ELSE "again")
                 /\ acked' = IF o.ok /\ ~rejected[k] THEN acked \cup {<<k[1], msg[k]>>}
                             ELSE acked
    /\ UNCHANGED <<env, clientVars, up, inbox, partials, sending, tickVars, pending,
                   taken, dropped>>

------------------------------------------------------------------------------
\* The maintenance thread.  A tick flushes the buffers that have aged and syncs the
\* segments, under one hold; a failure is logged.
Open == {n \in Names : store[n].open}
Flushed(s) == CHOOSE o \in FlushChunk(s) : o.ok /\ o.cost = 0
Synced(s) == IF s.wal THEN [s EXCEPT !.ssynced = Len(s.sap)] ELSE s

Aged(s) == {Fine(s)} \cup FlushChunk(s)
Ticked(s) ==
    IF ~s.open THEN {Fine(s)}
    ELSE {[o EXCEPT !.store = Synced(o.store)] : o \in Aged(s)} \cup Meets("fsync", Failed(s))

TickStarts ==
    /\ mpc = "sleeps" /\ mpc' = "works"
    /\ left' = {"policy", "sweep"} \X Open
    /\ \E os \in [Names -> UNION {Ticked(store[n]) : n \in Names}] :
         /\ \A n \in Names : os[n] \in Ticked(store[n])
         /\ store' = [n \in Names |-> os[n].store]
         /\ LET cost == MapThenSumSet(LAMBDA n : os[n].cost, Names) IN
            cost <= budget /\ budget' = budget - cost
    /\ UNCHANGED <<env, clientVars, netVars, threadVars, pending, taken, history>>

\* Retention, of any part of the head, where the manifest declares it.
DropHead(s, m) == [s EXCEPT !.chunks = SubSeq(@, m + 1, Len(@)), !.csynced = Max({0, @ - m})]
\* sync_wal_declaration, where the manifest was written: a segment is started again,
\* after a flush of what the buffer holds.
Rearmed(s) == IF s.wal THEN s ELSE [Flushed(s).store EXCEPT !.wal = TRUE]

Policy(n) ==
    /\ mpc = "works" /\ <<"policy", n>> \in left /\ left' = left \ {<<"policy", n>>}
    /\ \E m \in 0 .. (IF env.retains THEN Len(store[n].chunks) ELSE 0),
          rearms \in {FALSE} \cup {"rearm" \in env.troubles} :
         LET s == IF rearms THEN Rearmed(store[n]) ELSE store[n] IN
         /\ store' = [store EXCEPT ![n] = DropHead(s, m)]
         /\ dropped' = dropped \cup UNION {Range(s.chunks[i].parts) : i \in 1 .. m}
    /\ UNCHANGED <<env, budget, clientVars, netVars, threadVars, mpc, pending, taken, acked>>

\* after_tick: Forward's acknowledgements that a failure left.
Sweep(n) ==
    /\ mpc = "works" /\ <<"sweep", n>> \in left /\ sending[Tick] = <<>>
    /\ \A m \in Names : <<"policy", m>> \notin left
    /\ left' = left \ {<<"sweep", n>>}
    /\ IF Forward THEN Drain(Tick, n) ELSE UNCHANGED <<budget, store, pending, sending>>
    /\ UNCHANGED <<env, clientVars, netVars, tpc, msg, at, partials, rejected, mpc, taken,
                   history>>

TickEnds ==
    /\ mpc = "works" /\ left = {} /\ sending[Tick] = <<>> /\ mpc' = "sleeps"
    /\ UNCHANGED <<env, budget, clientVars, netVars, threadVars, left, intakeVars, history>>

\* Told to stop, or upgraded: everything is flushed, and then the process exits, with
\* its threads wherever they have come to.
Stop ==
    /\ "stop" \in env.troubles /\ budget > 0 /\ budget' = budget - 1
    /\ mpc = "sleeps" /\ mpc' = "exits"
    /\ store' = [n \in Names |-> IF n \in Open THEN Flushed(store[n]).store ELSE store[n]]
    /\ UNCHANGED <<env, clientVars, netVars, threadVars, left, pending, taken, history>>

Kept(n) == (store[n].csynced .. Len(store[n].chunks)) \X (store[n].ssynced .. Len(store[n].sap))
\* The process ends; of what is not synced any prefix is there when it comes back.
Gone ==
    /\ mpc' = "down" /\ left' = {}
    /\ \E keeps \in [Names -> UNION {Kept(n) : n \in Names}] :
         /\ \A n \in Names : keeps[n] \in Kept(n)
         /\ store' = [n \in Names |->
              [store[n] EXCEPT !.chunks = SubSeq(@, 1, keeps[n][1]),
                               !.sap = SubSeq(@, 1, keeps[n][2]),
                               !.open = FALSE, !.routed = None, !.buf = <<>>, !.wal = FALSE]]
    /\ tpc' = [k \in Conns |-> None] /\ inbox' = [k \in Conns |-> <<>>]
    /\ partials' = [k \in Conns |-> NoPartials]
    /\ msg' = [k \in Conns |-> 0] /\ at' = [k \in Conns |-> 0]
    /\ rejected' = [k \in Conns |-> FALSE]
    /\ sending' = [t \in Conns \cup {Tick} |-> <<>>]
    /\ pending' = [n \in Names |-> <<>>]
    /\ UNCHANGED <<env, clientVars, up, replies, taken, history>>

Exit == mpc = "exits" /\ Gone /\ UNCHANGED budget
Die ==
    /\ "die" \in env.troubles /\ budget > 0 /\ budget' = budget - 1
    /\ mpc # "down" /\ Gone

Restart ==
    /\ mpc = "down" /\ mpc' = "sleeps"
    /\ UNCHANGED <<env, budget, clientVars, netVars, threadVars, left, intakeVars, history>>

\* An operator makes a store; another program is done writing one.
Declare(n) ==
    /\ n \in env.later /\ ~store[n].there /\ store' = [store EXCEPT ![n].there = TRUE]
    /\ UNCHANGED <<env, budget, clientVars, netVars, threadVars, tickVars, pending, taken,
                   history>>
Release(n) ==
    /\ n \in taken /\ taken' = taken \ {n}
    /\ UNCHANGED <<env, budget, clientVars, netVars, threadVars, tickVars, store, pending,
                   history>>

------------------------------------------------------------------------------
Client(c) == Connect(c) \/ SendMessage(c) \/ Hear(c) \/ GiveUp(c)
Thread(k) ==
    \/ Take(k) \/ Eof(k) \/ End(k)
    \/ Feed(k) \/ Push(k) \/ DrainOwn(k) \/ SendAck(k) \/ AllSent(k)
    \/ Ensure(k) \/ AppendAll(k) \/ SyncOne(k)
Maintenance == TickStarts \/ (\E n \in Names : Policy(n) \/ Sweep(n)) \/ SendAck(Tick) \/ TickEnds
Outside == (\E n \in Names : Declare(n) \/ Release(n)) \/ Restart \/ Exit

Next ==
    \/ \E c \in Clients : Client(c) \/ GiveUpEarly(c)
    \/ \E k \in Conns : Thread(k)
    \/ Maintenance \/ Outside \/ Stop \/ Die

IntakeSpec == Init /\ [][Next]_intakeAllVars

\* A sender and its threads go on while they can, the maintenance thread ticks, and
\* what is outside does what it is there to do.  (WF of each, written out: the first
\* formula is that one of its steps is enabled.)
ThreadReady(k) ==
    IF tpc[k] = "reads" THEN inbox[k] # <<>> \/ ~up[k] ELSE tpc[k] # None
ClientReady(c) ==
    LET k == conn[c] IN
    IF k = NoConn THEN todo[c] <= Len(Script(c)) /\ mpc # "down" /\ \E i \in {0, 1} : Unused(<<c, i>>)
    ELSE \/ ~waits[c] /\ todo[c] <= Len(Script(c)) /\ inbox[k] = <<>>
         \/ replies[k] # <<>> \/ Unanswered(c)
Ready(c) == ClientReady(c) \/ \E i \in {0, 1} : ThreadReady(<<c, i>>)
Works(c) == Client(c) \/ \E i \in {0, 1} : Thread(<<c, i>>)
Awaited == mpc \in {"down", "exits"} \/ taken # {} \/ \E n \in env.later : ~store[n].there

IntakeFairness ==
    /\ \A c \in Clients : <>[]Ready(c) => []<><<Works(c)>>_intakeAllVars
    /\ <>[](mpc \in {"sleeps", "works"}) => []<><<Maintenance>>_intakeAllVars
    /\ <>[]Awaited => []<><<Outside>>_intakeAllVars
FairIntake == IntakeSpec /\ IntakeFairness

------------------------------------------------------------------------------
\* What a store has for good: the chunks and the part of the segment on the disk.
Held(n) ==
    LET s == store[n]
        durable == SubSeq(s.chunks, 1, s.csynced) \o SubSeq(s.sap, 1, s.ssynced)
    IN  UNION {Range(e.parts) : e \in Range(durable)}

\* src/src/forward.rs, of drain_acks: "an ack must never outrun durability".  Whatever
\* was acknowledged, to whichever connection, is on the disk in its own store, all of
\* it, or was dropped by retention: no death loses it.
AckedIsDurable ==
    \A a \in acked : \A p \in Places(a[1], a[2]) :
        p \in dropped \cup Held(StoreOf[Script(a[1])[a[2]].batches[p[3]].value])

\* Where it is what the code does: in the environments that have none of its ways out of it
\* (README, disagreements).  A message of one that can be read, the batch of a Forward one,
\* and the store it is for.
Reads(e, c, i) == i \in DOMAIN e.script[c] /\ e.script[c][i].form = "good"
BatchOf(e, c, i) == e.script[c][i].batches[1]
StoreFrom(e, c, i) == StoreOf[BatchOf(e, c, i).value]
NoSenders(e) == \A c \in Clients : e.script[c] = <<>>

\* One value of a store's name.
OneValueEach(e) ==
    \A c, d \in Clients : \A i \in DOMAIN e.script[c], j \in DOMAIN e.script[d] :
        Reads(e, c, i) /\ Reads(e, d, j) /\ StoreFrom(e, c, i) = StoreFrom(e, d, j)
            => BatchOf(e, c, i).value = BatchOf(e, d, j).value

\* A message that is acknowledged holds the last part of every entry it has one of.
SplitsClose(e) ==
    \A c \in Clients : \A i \in DOMAIN e.script[c] :
        LET es == BatchOf(e, c, i).entries IN
        Reads(e, c, i) /\ e.script[c][i].chunk =>
            \A j \in DOMAIN es : es[j].part # NoPart =>
                \E l \in DOMAIN es : l >= j /\ es[l].part = es[j].part /\ es[l].last

\* A store that may be refused at first and had afterwards is for one message, of one entry.
Late(e) == e.taken \cup (IF e.autoCreate THEN {} ELSE e.later \ e.exists)
LateIsOne(e) ==
    \A c, d \in Clients : \A i \in DOMAIN e.script[c], j \in DOMAIN e.script[d] :
        (Reads(e, c, i) /\ Reads(e, d, j) /\ StoreFrom(e, c, i) = StoreFrom(e, d, j)
         /\ StoreFrom(e, c, i) \in Late(e))
            => c = d /\ i = j /\ Len(BatchOf(e, c, i).entries) = 1

\* No segment refuses what the buffer has, and none is started over what is not synced.
AcksUndisturbed ==
    \A e \in Environments :
        /\ "append" \notin e.troubles /\ ~({"segment", "rearm"} \subseteq e.troubles)
        /\ e.protocol = "console" => NoSenders(e)
        /\ e.protocol = "forward" => OneValueEach(e) /\ SplitsClose(e) /\ LateIsOne(e)

\* "One store, one routed value": what several values sanitize to is never merged,
\* before and after restarts, in whatever order they arrive.
OneSource ==
    \A n \in Names :
        LET s == store[n] IN Cardinality({e.value : e \in Range(s.chunks \o s.sap \o s.buf)}) <= 1

\* "Provisioning converges with nothing lost": a sender that insists is answered in the
\* end, once its stores are there and free and failures have stopped.
Collide == \E c, d \in Clients : \E i \in 1 .. Len(Script(c)), j \in 1 .. Len(Script(d)) :
    \E b \in Range(Script(c)[i].batches), e \in Range(Script(d)[j].batches) :
        b.value # e.value /\ StoreOf[b.value] = StoreOf[e.value]
EveryoneIsAnswered == ~Collide => <>(\A c \in Clients : todo[c] > Len(Script(c)))
==============================================================================
