---------------------------- MODULE Relay_proofs ----------------------------
(***************************************************************************)
(* What TLAPS proves of module Relay, for every number of chunks, of       *)
(* connections and of failures, every room in the sockets and every size   *)
(* of a turn.                                                              *)
(***************************************************************************)
EXTENDS Relay, SequenceFacts

------------------------------------------------------------------------------
\* What a connection carries, each way.
ChunkFrame == [kind : {"chunk"}, wire : Nat, seq : Nat, epoch : Nat, page : Int]
StreamFrame == [kind : {"open", "close"}, wire : Nat, seq : Nat]
AckFrame == [kind : {"accepted", "conflict", "coverage"}, wire : Nat, covers : Nat]
Session == [wire : Nat, stage : {"next", "page", "ack"}, adopted : Nat, chunks : Nat]

StoresOK ==
    /\ env \in Environments
    /\ source \in Seq(Nat) /\ kept \in Nat /\ epoch \in Nat
    /\ synced \in 0 .. Len(source) /\ indexed \in 0 .. Len(source)
    /\ replica \in Seq([seq : Nat, epoch : Nat]) /\ rKept \in 0 .. Len(replica)
    /\ filters \in Seq(Nat) /\ created \in BOOLEAN

SenderOK ==
    /\ spc \in {"down", "opens", "answers", "ships", "pages", "reads", "writes", "drains"}
    /\ conn \in 0 .. MaxConns
    /\ spc # "down" => conn \in Conns
    /\ wire \in Nat /\ resume \in Nat /\ acked \in Nat /\ lastSent \in Int /\ positions \in Nat
    /\ live \in BOOLEAN /\ standing \in BOOLEAN
    /\ turn \in Seq(ChunkFrame)
    /\ spc \in {"pages", "reads", "writes"} => turn # <<>>

LinksOK ==
    /\ link \in [Conns -> {"unused", "up", "ended", "dead", "broken", "over"}]
    /\ data \in [Conns -> Seq(StreamFrame \cup ChunkFrame)]
    /\ acks \in [Conns -> Seq(AckFrame)]
    /\ session \in [Conns -> Session]
    /\ failures \in Nat

\* A session between a chunk's two halves still has its frame before it.
HalfApplied ==
    \A c \in Conns :
        session[c].stage # "next" =>
            /\ data[c] # <<>> /\ Head(data[c]) \in ChunkFrame
            /\ Head(data[c]).wire = session[c].wire

RelayTypeOK == StoresOK /\ SenderOK /\ LinksOK /\ HalfApplied

------------------------------------------------------------------------------
LEMMA RelayBounds ==
    /\ {PerTurn, DataRoom, AckRoom, MaxChunks, MaxConns, MaxWires} \subseteq Nat \ {0}
    /\ NoSession \in Session
    /\ <<>> \in Seq(ChunkFrame)
BY RelayAssumption, EmptySeq DEF NoSession, Session

LEMMA WireNumbers ==
    ASSUME SenderOK
    PROVE  NextWire \in Nat /\ NextWire > 0
BY RelayAssumption DEF NextWire, SenderOK

\* The frames of a connection, by their kind.
LEMMA FrameFields ==
    /\ \A f \in StreamFrame \cup ChunkFrame :
          /\ f.wire \in Nat /\ f.seq \in Nat
          /\ f.kind = "chunk" <=> f \in ChunkFrame
          /\ f.kind \in {"open", "close", "chunk"}
    /\ \A f \in ChunkFrame : f.epoch \in Nat /\ f.page \in Int
    /\ \A f \in AckFrame : f.wire \in Nat /\ f.covers \in Nat
    /\ \A s \in Session :
          s.wire \in Nat /\ s.stage \in {"next", "page", "ack"} /\ s.adopted \in Nat
          /\ s.chunks \in Nat
BY DEF StreamFrame, ChunkFrame, AckFrame, Session

LEMMA SessionMoves ==
    ASSUME NEW c \in Conns, LinksOK,
           \/ session' = [session EXCEPT ![c].stage = "page", ![c].chunks = @ + 1]
           \/ session' = [session EXCEPT ![c].stage = "ack", ![c].adopted = @ + 1]
           \/ session' = [session EXCEPT ![c].stage = "ack"]
    PROVE  /\ session' \in [Conns -> Session] /\ session'[c].wire = session[c].wire
           /\ \A d \in Conns \ {c} : session'[d] = session[d]
<1>1. /\ \A s \in Session, n \in Nat : [s EXCEPT !.stage = "page", !.chunks = n] \in Session
      /\ \A s \in Session, n \in Nat : [s EXCEPT !.stage = "ack", !.adopted = n] \in Session
      /\ \A s \in Session : [s EXCEPT !.stage = "ack"] \in Session
      /\ \A s \in Session : s.adopted + 1 \in Nat /\ s.chunks + 1 \in Nat
  <2>1. \A s \in Session, n \in Nat : [s EXCEPT !.stage = "page", !.chunks = n] \in Session
    BY DEF Session
  <2>2. \A s \in Session, n \in Nat : [s EXCEPT !.stage = "ack", !.adopted = n] \in Session
    BY DEF Session
  <2>3. \A s \in Session : [s EXCEPT !.stage = "ack"] \in Session
    BY DEF Session
  <2>4. \A s \in Session : s.adopted + 1 \in Nat /\ s.chunks + 1 \in Nat
    BY DEF Session
  <2>5. QED
    BY <2>1, <2>2, <2>3, <2>4
<1>2. session[c] \in Session /\ session \in [Conns -> Session]
  BY DEF LinksOK
<1>3. CASE session' = [session EXCEPT ![c].stage = "page", ![c].chunks = @ + 1]
  <2> DEFINE s == [session[c] EXCEPT !.stage = "page", !.chunks = session[c].chunks + 1]
  <2>1. session' = [session EXCEPT ![c] = s]
    BY <1>3
  <2>2. s \in Session /\ s.wire = session[c].wire
    BY <1>1, <1>2 DEF Session
  <2> HIDE DEF s
  <2>3. QED
    BY <1>2, <2>1, <2>2
<1>4. CASE session' = [session EXCEPT ![c].stage = "ack", ![c].adopted = @ + 1]
  <2> DEFINE s == [session[c] EXCEPT !.stage = "ack", !.adopted = session[c].adopted + 1]
  <2>1. session' = [session EXCEPT ![c] = s]
    BY <1>4
  <2>2. s \in Session /\ s.wire = session[c].wire
    BY <1>1, <1>2 DEF Session
  <2> HIDE DEF s
  <2>3. QED
    BY <1>2, <2>1, <2>2
<1>5. CASE session' = [session EXCEPT ![c].stage = "ack"]
  <2> DEFINE s == [session[c] EXCEPT !.stage = "ack"]
  <2>1. session' = [session EXCEPT ![c] = s]
    BY <1>5
  <2>2. s \in Session /\ s.wire = session[c].wire
    BY <1>1, <1>2 DEF Session
  <2> HIDE DEF s
  <2>3. QED
    BY <1>2, <2>1, <2>2
<1>6. QED
  BY <1>3, <1>4, <1>5

\* What is on the way to the receiver, as a sequence.
LEMMA DataIsSeq ==
    ASSUME LinksOK, NEW c \in Conns
    PROVE  /\ data[c] \in Seq(StreamFrame \cup ChunkFrame)
           /\ acks[c] \in Seq(AckFrame)
           /\ session[c] \in Session
           /\ data[c] # <<>> => /\ Head(data[c]) \in StreamFrame \cup ChunkFrame
                                /\ Tail(data[c]) \in Seq(StreamFrame \cup ChunkFrame)
           /\ acks[c] # <<>> => /\ Head(acks[c]) \in AckFrame
                                /\ Tail(acks[c]) \in Seq(AckFrame)
<1>1. /\ data[c] \in Seq(StreamFrame \cup ChunkFrame)
      /\ acks[c] \in Seq(AckFrame)
      /\ session[c] \in Session
  BY DEF LinksOK
<1>2. QED
  BY <1>1, TailIsSeq

LEMMA PushOK ==
    ASSUME RelayTypeOK, conn \in Conns, NEW f \in StreamFrame \cup ChunkFrame, Push(conn, f)
    PROVE  /\ data' \in [Conns -> Seq(StreamFrame \cup ChunkFrame)]
           /\ data'[conn] = Append(data[conn], f)
           /\ \A c \in Conns \ {conn} : data'[c] = data[c]
           /\ UNCHANGED session => HalfApplied'
<1>1. /\ Append(data[conn], f) \in Seq(StreamFrame \cup ChunkFrame)
      /\ Append(data[conn], f) # <<>>
      /\ data[conn] # <<>> => Head(Append(data[conn], f)) = Head(data[conn])
  <2>1. data[conn] \in Seq(StreamFrame \cup ChunkFrame)
    BY DataIsSeq DEF RelayTypeOK
  <2>2. QED
    BY <2>1, AppendKeepsHead
<1>2. data' = [data EXCEPT ![conn] = Append(data[conn], f)] /\ DOMAIN data = Conns
  BY DEF Push, RelayTypeOK, LinksOK
<1>3. data' \in [Conns -> Seq(StreamFrame \cup ChunkFrame)]
  BY <1>1, <1>2 DEF RelayTypeOK, LinksOK
<1>4. data'[conn] = Append(data[conn], f) /\ \A c \in Conns \ {conn} : data'[c] = data[c]
  BY <1>2
<1>5. UNCHANGED session => HalfApplied'
  BY <1>1, <1>4 DEF RelayTypeOK, HalfApplied
<1>6. QED
  BY <1>3, <1>4, <1>5

LEMMA TakeOK ==
    ASSUME RelayTypeOK, NEW c \in Conns, data[c] # <<>>, Take(c)
    PROVE  /\ data' \in [Conns -> Seq(StreamFrame \cup ChunkFrame)]
           /\ data'[c] = Tail(data[c])
           /\ \A d \in Conns \ {c} : data'[d] = data[d]
BY DataIsSeq DEF Take, RelayTypeOK, LinksOK

LEMMA TellOK ==
    ASSUME RelayTypeOK, StoresOK', NEW c \in Conns, NEW w \in Nat,
           NEW kind \in {"accepted", "conflict", "coverage"}, Tell(c, kind, w)
    PROVE  acks' \in [Conns -> Seq(AckFrame)]
<1>1. Covers' \in Nat
  BY SeqElements DEF Covers, StoresOK
<1>2. [kind |-> kind, wire |-> w, covers |-> IF kind = "conflict" THEN 0 ELSE Covers'] \in AckFrame
  BY <1>1 DEF AckFrame
<1>3. CASE link[c] = "up"
  <2> DEFINE a == [kind |-> kind, wire |-> w, covers |-> IF kind = "conflict" THEN 0 ELSE Covers']
  <2>1. Append(acks[c], a) \in Seq(AckFrame)
    BY <1>2, DataIsSeq, AppendProperties DEF RelayTypeOK
  <2>2. acks' = [acks EXCEPT ![c] = Append(acks[c], a)]
    BY <1>3 DEF Tell
  <2> HIDE DEF a
  <2>3. QED
    BY <2>1, <2>2 DEF RelayTypeOK, LinksOK
<1>4. CASE link[c] # "up"
  BY <1>4 DEF Tell, RelayTypeOK, LinksOK
<1>5. QED
  BY <1>3, <1>4

LEMMA FreshOK ==
    ASSUME Fresh
    PROVE  /\ live' \in BOOLEAN
           /\ resume' \in Nat /\ acked' \in Nat /\ lastSent' \in Int
           /\ turn' \in Seq(ChunkFrame)
<1>1. turn' \in Seq(ChunkFrame)
  BY RelayBounds DEF Fresh
<1>2. live' \in BOOLEAN
  BY DEF Fresh
<1>3. resume' \in Nat /\ acked' \in Nat /\ lastSent' \in Int
  BY DEF Fresh
<1>4. QED
  BY <1>1, <1>2, <1>3

LEMMA HeardOK ==
    ASSUME RelayTypeOK, NEW f \in AckFrame, Heard(f)
    PROVE  /\ wire' \in Nat /\ resume' \in Nat /\ acked' \in Nat /\ lastSent' \in Int
           /\ live' \in BOOLEAN /\ standing' \in BOOLEAN /\ turn' \in Seq(ChunkFrame)
           /\ turn' \in {turn, <<>>}
<1>1. f.covers \in Nat
  BY FrameFields
<1>2. NextWire \in Nat
  BY WireNumbers DEF RelayTypeOK
<1>3. turn' \in Seq(ChunkFrame)
  BY RelayBounds DEF Heard, Fresh, RelayTypeOK, SenderOK, streamVars
<1>4. turn' \in {turn, <<>>}
  BY DEF Heard, Fresh, streamVars
<1>5. wire' \in Nat /\ resume' \in Nat /\ acked' \in Nat /\ lastSent' \in Int
  BY <1>1, <1>2 DEF Heard, Fresh, RelayTypeOK, SenderOK, streamVars
<1>6. live' \in BOOLEAN /\ standing' \in BOOLEAN
  BY DEF Heard, Fresh, RelayTypeOK, SenderOK, streamVars
<1>7. QED
  BY <1>3, <1>4, <1>5, <1>6

------------------------------------------------------------------------------
\* Each step, in turn.
LEMMA SourcePreservesRelayTypeOK ==
    ASSUME RelayTypeOK, Seal \/ Settle \/ DropSource
    PROVE  RelayTypeOK'
<1>1. SenderOK'
  BY DEF Seal, Settle, DropSource, RelayTypeOK, SenderOK, senderVars, streamVars
<1>2. LinksOK' /\ HalfApplied'
  BY DEF Seal, Settle, DropSource, RelayTypeOK, LinksOK, HalfApplied, netVars
<1>3. StoresOK'
  <2>1. CASE Seal
    <3>1. Append(source, epoch) \in Seq(Nat) /\ Len(Append(source, epoch)) = Len(source) + 1
          /\ Len(source) \in Nat
      BY AppendIsSeq DEF RelayTypeOK, StoresOK
    <3>2. QED
      BY <2>1, <3>1 DEF Seal, RelayTypeOK, StoresOK, replicaVars
  <2>2. CASE Settle
    BY <2>2, SeqElements DEF Settle, RelayTypeOK, StoresOK, replicaVars
  <2>3. CASE DropSource
    BY <2>3 DEF DropSource, RelayTypeOK, StoresOK, replicaVars
  <2>4. QED
    BY <2>1, <2>2, <2>3
<1>4. QED
  BY <1>1, <1>2, <1>3 DEF RelayTypeOK

LEMMA OffersPreserveRelayTypeOK ==
    ASSUME RelayTypeOK, Connect \/ Open \/ Linger \/ Leave \/ Answer
    PROVE  RelayTypeOK'
<1>1. StoresOK'
  BY DEF Connect, Open, Linger, Leave, Answer, RelayTypeOK, StoresOK, sourceVars, replicaVars
<1>2. CASE Connect
  <2>1. conn' \in Conns
    BY <1>2, RelayAssumption DEF Connect, Conns, RelayTypeOK, SenderOK
  <2>2. SenderOK'
    <3>1. /\ live' \in BOOLEAN /\ resume' \in Nat /\ acked' \in Nat /\ lastSent' \in Int
          /\ turn' \in Seq(ChunkFrame)
      BY <1>2, FreshOK DEF Connect
    <3>2. standing' \in BOOLEAN
      BY <1>2 DEF Connect
    <3>3. QED
      BY <1>2, <2>1, <3>1, <3>2 DEF Connect, Conns, RelayTypeOK, SenderOK
  <2>3. LinksOK' /\ HalfApplied'
    BY <1>2, <2>1 DEF Connect, RelayTypeOK, LinksOK, HalfApplied
  <2>4. QED
    BY <1>1, <2>2, <2>3 DEF RelayTypeOK
<1>3. CASE Open
  <2>1. conn \in Conns
    BY <1>3 DEF Open, RelayTypeOK, SenderOK
  <2>2. [kind |-> "open", wire |-> wire, seq |-> IF kept < Len(source) THEN kept ELSE 0]
           \in StreamFrame
    BY DEF StreamFrame, RelayTypeOK, SenderOK, StoresOK
  <2>3. data' \in [Conns -> Seq(StreamFrame \cup ChunkFrame)] /\ HalfApplied'
    BY <1>3, <2>1, <2>2, PushOK DEF Open
  <2>4. SenderOK'
    BY <1>3, <2>1 DEF Open, RelayTypeOK, SenderOK, streamVars
  <2>5. LinksOK'
    BY <1>3, <2>3 DEF Open, RelayTypeOK, LinksOK
  <2>6. QED
    BY <1>1, <2>3, <2>4, <2>5 DEF RelayTypeOK
<1>4. CASE Linger
  <2>1. SenderOK'
    BY <1>4 DEF Linger, RefusalEnds, RelayTypeOK, SenderOK
  <2>2. LinksOK' /\ HalfApplied'
    BY <1>4 DEF Linger, RelayTypeOK, LinksOK, HalfApplied, netVars
  <2>3. QED
    BY <1>1, <2>1, <2>2 DEF RelayTypeOK
<1>5. CASE Leave
  <2>1. conn \in Conns
    BY <1>5 DEF Leave, RelayTypeOK, SenderOK
  <2>2. [kind |-> "close", wire |-> wire, seq |-> 0] \in StreamFrame
    BY DEF StreamFrame, RelayTypeOK, SenderOK
  <2>3. data' \in [Conns -> Seq(StreamFrame \cup ChunkFrame)] /\ HalfApplied'
    BY <1>5, <2>1, <2>2, PushOK DEF Leave
  <2>4. SenderOK'
    BY <1>5, <2>1, FreshOK, WireNumbers DEF Leave, RelayTypeOK, SenderOK
  <2>5. LinksOK'
    BY <1>5, <2>3 DEF Leave, RelayTypeOK, LinksOK
  <2>6. QED
    BY <1>1, <2>3, <2>4, <2>5 DEF RelayTypeOK
<1>6. CASE Answer
  <2>1. conn \in Conns
    BY <1>6 DEF Answer, RelayTypeOK, SenderOK
  <2>2. Head(acks[conn]) \in AckFrame /\ Tail(acks[conn]) \in Seq(AckFrame)
    BY <1>6, <2>1, DataIsSeq DEF Answer, RelayTypeOK
  <2>3. LinksOK' /\ HalfApplied'
    BY <1>6, <2>1, <2>2 DEF Answer, RelayTypeOK, LinksOK, HalfApplied
  <2>4. SenderOK'
    <3>1. Head(acks[conn]).covers \in Nat
      BY <2>2, FrameFields
    <3>2. CASE Heard(Head(acks[conn])) /\ UNCHANGED spc
      BY <1>6, <2>1, <2>2, <3>2, HeardOK DEF Answer, RelayTypeOK, SenderOK
    <3>3. CASE /\ live' = TRUE /\ resume' = Head(acks[conn]).covers
               /\ acked' = 0 /\ lastSent' = -1
               /\ spc' = "ships" /\ UNCHANGED <<wire, turn, standing>>
      BY <1>6, <2>1, <3>1, <3>3 DEF Answer, RelayTypeOK, SenderOK
    <3>4. CASE /\ standing' = TRUE /\ spc' = "ships"
               /\ UNCHANGED <<wire, live, resume, acked, lastSent, turn>>
      BY <1>6, <2>1, <3>4 DEF Answer, RelayTypeOK, SenderOK
    <3>5. QED
      BY <1>6, <3>2, <3>3, <3>4 DEF Answer
  <2>5. QED
    BY <1>1, <2>3, <2>4 DEF RelayTypeOK
<1>7. QED
  BY <1>2, <1>3, <1>4, <1>5, <1>6

\* A frame of a turn, as serve selects it.
LEMMA SelectedIsFrame ==
    ASSUME StoresOK, SenderOK, NEW n \in Nat, n < Len(source)
    PROVE  [kind |-> "chunk", wire |-> wire, seq |-> n, epoch |-> source[n + 1],
            page |-> n - kept] \in ChunkFrame
<1>1. n + 1 \in 1 .. Len(source) /\ Len(source) \in Nat
  BY SeqElements DEF StoresOK
<1>2. source[n + 1] \in Nat
  BY <1>1, SeqElements DEF StoresOK
<1>3. QED
  BY <1>2 DEF ChunkFrame, StoresOK, SenderOK

LEMMA TurnsPreserveRelayTypeOK ==
    ASSUME RelayTypeOK, Serve \/ ReadPages \/ Read \/ Write \/ Drain \/ Save
    PROVE  RelayTypeOK'
<1>1. StoresOK'
  BY DEF Serve, ReadPages, Read, Write, Drain, Save, RelayTypeOK, StoresOK, sourceVars, replicaVars
<1>2. conn \in Conns
  BY DEF Serve, ReadPages, Read, Write, Drain, Save, RelayTypeOK, SenderOK
<1>3. CASE Serve
  <2>1. LinksOK' /\ HalfApplied'
    BY <1>3 DEF Serve, RelayTypeOK, LinksOK, HalfApplied, netVars
  <2> DEFINE from == IF resume > kept THEN resume ELSE kept
             to == IF from + TurnSize < Len(source) THEN from + TurnSize ELSE Len(source)
             frame(n) == [kind |-> "chunk", wire |-> wire, seq |-> n, epoch |-> source[n + 1],
                          page |-> n - kept]
  <2>2. from \in Nat /\ to \in Nat /\ to <= Len(source) /\ Len(source) \in Nat
    <3>1. resume \in Nat /\ kept \in Nat /\ Len(source) \in Nat
      BY SeqElements DEF RelayTypeOK, StoresOK, SenderOK
    <3>2. TurnSize \in Nat
      BY RelayAssumption DEF TurnSize
    <3>3. QED
      BY <3>1, <3>2
  <2>3. CASE live /\ from < to
    <3>1. turn' = [i \in 1 .. to - from |-> frame(from + i - 1)]
      BY <1>3, <2>3 DEF Serve
    <3>2. \A i \in 1 .. to - from : frame(from + i - 1) \in ChunkFrame
      <4>1. \A i \in 1 .. to - from : from + i - 1 \in Nat /\ from + i - 1 < Len(source)
        BY <2>2, <2>3
      <4>2. QED
        BY <4>1, SelectedIsFrame DEF RelayTypeOK
    <3>3. spc' \in {"pages", "reads"}
      BY <1>3, <2>3 DEF Serve
    <3> HIDE DEF from, to, frame
    <3>4. to - from \in Nat /\ to - from > 0
      BY <2>2, <2>3
    <3>5. turn' \in [1 .. to - from -> ChunkFrame]
      BY <3>1, <3>2
    <3>6. turn' \in Seq(ChunkFrame) /\ Len(turn') = to - from
      BY <3>4, <3>5, FunctionIsSeq
    <3>7. turn' # <<>>
      BY <3>4, <3>6, SeqElements
    <3>8. SenderOK'
      BY <1>2, <1>3, <3>3, <3>6, <3>7 DEF Serve, RelayTypeOK, SenderOK
    <3>9. QED
      BY <1>1, <2>1, <3>8 DEF RelayTypeOK
  <2>4. CASE ~(live /\ from < to)
    <3>1. UNCHANGED turn /\ spc' = "drains"
      BY <1>3, <2>4 DEF Serve
    <3>2. SenderOK'
      BY <1>2, <1>3, <3>1 DEF Serve, RelayTypeOK, SenderOK
    <3>3. QED
      BY <1>1, <2>1, <3>2 DEF RelayTypeOK
  <2>5. QED
    BY <2>3, <2>4
<1>4. CASE ReadPages
  <2>1. LinksOK' /\ HalfApplied'
    BY <1>4 DEF ReadPages, RelayTypeOK, LinksOK, HalfApplied, netVars
  <2>2. turn \in [1 .. Len(turn) -> ChunkFrame] /\ Len(turn) \in Nat /\ turn # <<>>
    BY <1>4, LenProperties DEF ReadPages, RelayTypeOK, SenderOK
  <2>3. \A i \in 1 .. Len(turn) : PageAt(turn[i].page, turn[1].page) \in Int
    <3>1. \A i \in 1 .. Len(turn) : turn[i] \in ChunkFrame /\ turn[i].page \in Int
      BY <2>2, FrameFields
    <3>2. kept \in Int
      BY DEF RelayTypeOK, StoresOK
    <3>3. QED
      BY <3>1, <3>2 DEF PageAt
  <2>4. \A f \in ChunkFrame, p \in Int : [f EXCEPT !.page = p] \in ChunkFrame
    BY DEF ChunkFrame
  <2>5. turn' = [i \in 1 .. Len(turn) |-> [turn[i] EXCEPT !.page = PageAt(turn[i].page, turn[1].page)]]
    BY <1>4, <2>2 DEF ReadPages
  <2>6. turn' \in [1 .. Len(turn) -> ChunkFrame]
    BY <2>2, <2>3, <2>4, <2>5
  <2>7. turn' \in Seq(ChunkFrame) /\ turn' # <<>>
    BY <2>2, <2>6, FunctionIsSeq, SeqElements DEF RelayTypeOK, SenderOK
  <2>8. SenderOK'
    BY <1>2, <1>4, <2>7 DEF ReadPages, RelayTypeOK, SenderOK
  <2>9. QED
    BY <1>1, <2>1, <2>8 DEF RelayTypeOK
<1>5. CASE Read
  <2>1. LinksOK' /\ HalfApplied'
    BY <1>5 DEF Read, RelayTypeOK, LinksOK, HalfApplied, netVars
  <2>2. turn \in Seq(ChunkFrame) /\ turn # <<>> /\ turn[1] \in ChunkFrame
        /\ Len(turn) \in 1 .. Len(turn) /\ turn[Len(turn)] \in ChunkFrame
    BY <1>5, SeqElements DEF Read, RelayTypeOK, SenderOK
  <2> DEFINE gone == IF kept > turn[1].seq THEN kept - turn[1].seq ELSE 0
  <2>3. gone + 1 \in Nat \ {0}
    BY <2>2, FrameFields DEF RelayTypeOK, StoresOK
  <2>4. turn' = SubSeq(turn, gone + 1, Len(turn))
    BY <1>5 DEF Read
  <2> HIDE DEF gone
  <2>5. turn' \in Seq(ChunkFrame)
    BY <2>2, <2>3, <2>4, SuffixIsSeq
  <2>6. turn' # <<>> => turn'[Len(turn')] \in ChunkFrame
    BY <2>5, SeqElements
  <2>7. resume' \in Nat
    BY <1>5, <2>2, FrameFields DEF Read, Last
  <2>8. lastSent' \in Int
    <3>1. turn' # <<>> => turn'[Len(turn')].seq \in Int
      BY <2>6, FrameFields
    <3>2. lastSent \in Int
      BY DEF RelayTypeOK, SenderOK
    <3>3. lastSent' = IF turn' = <<>> THEN lastSent ELSE turn'[Len(turn')].seq
      BY <1>5 DEF Read, Last
    <3>4. QED
      BY <3>1, <3>2, <3>3
  <2>9. SenderOK'
    BY <1>2, <1>5, <2>5, <2>7, <2>8 DEF Read, RelayTypeOK, SenderOK
  <2>10. QED
    BY <1>1, <2>1, <2>9 DEF RelayTypeOK
<1>6. CASE Write
  <2>1. turn \in Seq(ChunkFrame) /\ turn # <<>>
    BY <1>6 DEF Write, RelayTypeOK, SenderOK
  <2>2. Head(turn) \in ChunkFrame /\ Tail(turn) \in Seq(ChunkFrame)
    BY <2>1, TailIsSeq
  <2>3. data' \in [Conns -> Seq(StreamFrame \cup ChunkFrame)] /\ HalfApplied'
    BY <1>2, <1>6, <2>2, PushOK DEF Write
  <2>4. SenderOK'
    BY <1>2, <1>6, <2>2 DEF Write, RelayTypeOK, SenderOK
  <2>5. LinksOK'
    BY <1>6, <2>3 DEF Write, RelayTypeOK, LinksOK
  <2>6. QED
    BY <1>1, <2>3, <2>4, <2>5 DEF RelayTypeOK
<1>7. CASE Drain
  <2>1. Head(acks[conn]) \in AckFrame /\ Tail(acks[conn]) \in Seq(AckFrame)
    BY <1>2, <1>7, DataIsSeq DEF Drain, RelayTypeOK
  <2>2. LinksOK' /\ HalfApplied'
    BY <1>2, <1>7, <2>1 DEF Drain, RelayTypeOK, LinksOK, HalfApplied
  <2>3. SenderOK'
    BY <1>2, <1>7, <2>1, HeardOK DEF Drain, RelayTypeOK, SenderOK
  <2>4. QED
    BY <1>1, <2>2, <2>3 DEF RelayTypeOK
<1>8. CASE Save
  <2>1. LinksOK' /\ HalfApplied'
    BY <1>8 DEF Save, RelayTypeOK, LinksOK, HalfApplied, netVars
  <2>2. positions' \in Nat
    BY <1>8 DEF Save, RecordAcked, RelayTypeOK, SenderOK
  <2>3. SenderOK'
    BY <1>2, <1>8, <2>2 DEF Save, RelayTypeOK, SenderOK, streamVars
  <2>4. QED
    BY <1>1, <2>1, <2>3 DEF RelayTypeOK
<1>9. QED
  BY <1>3, <1>4, <1>5, <1>6, <1>7, <1>8

LEMMA EndsPreserveRelayTypeOK ==
    ASSUME RelayTypeOK, SenderFails \/ Notice
    PROVE  RelayTypeOK'
<1>1. conn \in Conns /\ spc' = "down" /\ Fresh /\ UNCHANGED <<conn, wire, standing, positions, session>>
  BY DEF SenderFails, Notice, SenderEnds, RelayTypeOK, SenderOK
<1>2. SenderOK'
  BY <1>1, FreshOK DEF RelayTypeOK, SenderOK
<1>3. acks' \in [Conns -> Seq(AckFrame)]
  <2>1. acks' = [acks EXCEPT ![conn] = <<>>]
    BY DEF SenderFails, Notice, SenderEnds
  <2>2. <<>> \in Seq(AckFrame)
    BY EmptySeq
  <2>3. QED
    BY <2>1, <2>2 DEF RelayTypeOK, LinksOK
<1>4. CASE SenderFails
  <2>1. PICK how \in {"ended", "dead"} :
          /\ SenderEnds(how)
          /\ data' = IF how = "dead" /\ session[conn].stage = "next"
                     THEN [data EXCEPT ![conn] = <<>>] ELSE data
          /\ source' = IF how = "dead" THEN SubSeq(source, 1, synced) ELSE source
          /\ epoch' = IF how = "dead" THEN epoch + 1 ELSE epoch
    BY <1>4 DEF SenderFails
  <2>2. /\ source' \in Seq(Nat) /\ synced \in 0 .. Len(source') /\ Len(source') \in Nat
    <3>1. SubSeq(source, 1, synced) \in Seq(Nat) /\ Len(SubSeq(source, 1, synced)) = synced
      BY PrefixIsSeq DEF RelayTypeOK, StoresOK
    <3>2. QED
      BY <2>1, <3>1, SeqElements DEF RelayTypeOK, StoresOK
  <2>3. StoresOK'
    BY <1>4, <2>1, <2>2 DEF SenderFails, RelayTypeOK, StoresOK, replicaVars
  <2>4. data' \in [Conns -> Seq(StreamFrame \cup ChunkFrame)]
    <3>1. <<>> \in Seq(StreamFrame \cup ChunkFrame)
      BY EmptySeq
    <3>2. QED
      BY <2>1, <3>1 DEF RelayTypeOK, LinksOK
  <2>5. HalfApplied'
    BY <1>1, <2>1 DEF RelayTypeOK, LinksOK, HalfApplied
  <2>6. LinksOK'
    BY <1>1, <1>3, <1>4, <2>1, <2>4 DEF SenderFails, SenderEnds, RelayTypeOK, LinksOK
  <2>7. QED
    BY <1>2, <2>3, <2>5, <2>6 DEF RelayTypeOK
<1>5. CASE Notice
  <2>1. StoresOK' /\ HalfApplied'
    BY <1>5 DEF Notice, RelayTypeOK, StoresOK, HalfApplied, sourceVars, replicaVars
  <2>2. LinksOK'
    BY <1>1, <1>3, <1>5 DEF Notice, SenderEnds, RelayTypeOK, LinksOK
  <2>3. QED
    BY <1>2, <2>1, <2>2 DEF RelayTypeOK
<1>6. QED
  BY <1>4, <1>5

\* What a receiver's step changes, and what it does not.
LEMMA ReceiverLeavesSender ==
    ASSUME RelayTypeOK, NEW c \in Conns, ReceiverStep(c)
    PROVE  UNCHANGED <<env, sourceVars, senderVars>> /\ SenderOK' /\ failures' \in Nat
<1>1. UNCHANGED <<env, sourceVars, senderVars, failures>>
  BY DEF ReceiverStep, OpenStream, ApplyChunk, AdoptPage, Acknowledge, CloseStream, EndConnection
<1>2. SenderOK'
  BY <1>1 DEF RelayTypeOK, SenderOK, senderVars, streamVars
<1>3. QED
  BY <1>1, <1>2 DEF RelayTypeOK, LinksOK

LEMMA FinishedOK ==
    ASSUME RelayTypeOK, NEW c \in Conns, Finished(c), UNCHANGED <<env, sourceVars>>
    PROVE  /\ StoresOK'
           /\ session' \in [Conns -> Session]
           /\ session' = [session EXCEPT ![c] = NoSession]
<1>1. session' = [session EXCEPT ![c] = NoSession] /\ session' \in [Conns -> Session]
  BY RelayBounds DEF Finished, RelayTypeOK, LinksOK
<1>2. filters' \in Seq(Nat)
  <2>1. /\ filters \in Seq(Nat) /\ Len(filters) \in Nat /\ Len(replica) \in Nat
        /\ Held \in Int /\ rKept \in Nat
    BY SeqElements DEF Held, RelayTypeOK, StoresOK
  <2>2. CASE Len(filters) <= Held
    <3> DEFINE n == Held - Len(filters)
               more == [i \in 1 .. n |-> rKept + Len(filters) + i - 1]
    <3>1. n \in Nat
      BY <2>1, <2>2
    <3>2. \A i \in 1 .. n : rKept + Len(filters) + i - 1 \in Nat
      BY <2>1, <3>1
    <3>3. more \in [1 .. n -> Nat]
      BY <3>2
    <3>4. more \in Seq(Nat)
      BY <3>1, <3>3, FunctionIsSeq
    <3>5. filters' \in {filters, filters \o more}
      BY DEF Finished
    <3> HIDE DEF more, n
    <3>6. filters \o more \in Seq(Nat)
      BY <2>1, <3>4, ConcatProperties
    <3>7. QED
      BY <2>1, <3>5, <3>6
  <2>3. CASE ~(Len(filters) <= Held)
    BY <2>1, <2>3 DEF Finished
  <2>4. QED
    BY <2>2, <2>3
<1>3. QED
  BY <1>1, <1>2 DEF Finished, RelayTypeOK, StoresOK, sourceVars

LEMMA ReceiverPreservesRelayTypeOK ==
    ASSUME RelayTypeOK, NEW c \in Conns, ReceiverStep(c)
    PROVE  RelayTypeOK'
<1>1. UNCHANGED <<env, sourceVars, senderVars>> /\ SenderOK' /\ failures' \in Nat
  BY ReceiverLeavesSender
<1>2. /\ data[c] \in Seq(StreamFrame \cup ChunkFrame)
      /\ session[c] \in Session
      /\ data[c] # <<>> => Head(data[c]) \in StreamFrame \cup ChunkFrame
  BY DataIsSeq DEF RelayTypeOK
<1>3. CASE OpenStream(c)
  <2>1. data[c] # <<>> /\ Take(c) /\ session[c].stage = "next" /\ Next_(c).wire \in Nat
    BY <1>2, <1>3, FrameFields DEF OpenStream, Ready, Next_
  <2>2. StoresOK'
    BY <1>1, <1>3 DEF OpenStream, RelayTypeOK, StoresOK, sourceVars, replicaVars
  <2>3. session' \in [Conns -> Session] /\ (session'[c].stage = "next")
        /\ \A d \in Conns \ {c} : session'[d] = session[d]
    <3>1. [NoSession EXCEPT !.wire = Next_(c).wire] \in Session
          /\ [NoSession EXCEPT !.wire = Next_(c).wire].stage = "next"
      BY <2>1 DEF NoSession, Session
    <3>2. QED
      BY <1>3, <2>1, <3>1 DEF OpenStream, RelayTypeOK, LinksOK
  <2>4. acks' \in [Conns -> Seq(AckFrame)]
    <3>1. \/ Tell(c, "conflict", Next_(c).wire)
          \/ Tell(c, "accepted", Next_(c).wire)
      BY <1>3 DEF OpenStream
    <3>2. QED
      BY <2>1, <2>2, <3>1, TellOK
  <2>5. HalfApplied'
    BY <2>1, <2>3, TakeOK DEF RelayTypeOK, HalfApplied
  <2>6. LinksOK'
    BY <1>1, <1>3, <2>1, <2>3, <2>4, TakeOK DEF OpenStream, RelayTypeOK, LinksOK
  <2>7. QED
    BY <1>1, <2>2, <2>5, <2>6 DEF RelayTypeOK
<1>4. CASE ApplyChunk(c)
  <2>1. data[c] # <<>> /\ Next_(c) \in ChunkFrame /\ session[c].stage = "next"
        /\ Next_(c).wire \in Nat /\ Next_(c).seq \in Nat /\ Next_(c).epoch \in Nat
    BY <1>2, <1>4, FrameFields DEF ApplyChunk, Ready, Next_
  <2>2. CASE session[c].wire # Next_(c).wire
    <3>1. Take(c) /\ UNCHANGED <<session, replicaVars, acks>>
      BY <1>4, <2>2 DEF ApplyChunk
    <3>2. StoresOK'
      BY <1>1, <3>1 DEF RelayTypeOK, StoresOK, sourceVars, replicaVars
    <3>3. LinksOK' /\ HalfApplied'
      BY <1>1, <1>4, <2>1, <3>1, TakeOK DEF ApplyChunk, RelayTypeOK, LinksOK, HalfApplied
    <3>4. QED
      BY <1>1, <3>2, <3>3 DEF RelayTypeOK
  <2>3. CASE session[c].wire = Next_(c).wire /\ Continues(Next_(c).seq)
    <3>1. /\ replica' = Append(replica, [seq |-> Next_(c).seq, epoch |-> Next_(c).epoch])
          /\ session' = [session EXCEPT ![c].stage = "page", ![c].chunks = @ + 1]
          /\ UNCHANGED <<rKept, filters, created, data, acks>>
      BY <1>4, <2>3 DEF ApplyChunk
    <3>2. [seq |-> Next_(c).seq, epoch |-> Next_(c).epoch] \in [seq : Nat, epoch : Nat]
      BY <2>1
    <3>3. replica' \in Seq([seq : Nat, epoch : Nat]) /\ Len(replica') = Len(replica) + 1
          /\ Len(replica) \in Nat
      BY <3>1, <3>2, AppendIsSeq DEF RelayTypeOK, StoresOK
    <3>4. StoresOK'
      BY <1>1, <3>1, <3>3 DEF RelayTypeOK, StoresOK, sourceVars
    <3>5. session' \in [Conns -> Session] /\ session'[c].wire = session[c].wire
          /\ \A d \in Conns \ {c} : session'[d] = session[d]
      BY <3>1, SessionMoves DEF RelayTypeOK
    <3>6. LinksOK'
      BY <1>1, <1>4, <3>1, <3>5 DEF ApplyChunk, RelayTypeOK, LinksOK
    <3>7. HalfApplied'
      BY <2>1, <2>3, <3>1, <3>5 DEF Next_, RelayTypeOK, HalfApplied
    <3>8. QED
      BY <1>1, <3>4, <3>6, <3>7 DEF RelayTypeOK
  <2>4. CASE session[c].wire = Next_(c).wire /\ ~Continues(Next_(c).seq)
    <3>1. /\ Take(c) /\ Tell(c, "conflict", Next_(c).wire)
          /\ session' = [session EXCEPT ![c] = NoSession] /\ UNCHANGED replicaVars
      BY <1>4, <2>4 DEF ApplyChunk
    <3>2. StoresOK'
      BY <1>1, <3>1 DEF RelayTypeOK, StoresOK, sourceVars, replicaVars
    <3>3. acks' \in [Conns -> Seq(AckFrame)]
      BY <2>1, <3>1, <3>2, TellOK
    <3>4. session' \in [Conns -> Session] /\ session'[c].stage = "next"
          /\ \A d \in Conns \ {c} : session'[d] = session[d]
      BY <3>1, RelayBounds DEF NoSession, RelayTypeOK, LinksOK
    <3>5. LinksOK' /\ HalfApplied'
      BY <1>1, <1>4, <2>1, <3>1, <3>3, <3>4, TakeOK
      DEF ApplyChunk, RelayTypeOK, LinksOK, HalfApplied
    <3>6. QED
      BY <1>1, <3>2, <3>5 DEF RelayTypeOK
  <2>5. QED
    BY <2>2, <2>3, <2>4
<1>5. CASE AdoptPage(c)
  <2>1. session[c].stage = "page" /\ Next_(c) \in ChunkFrame /\ Next_(c).page \in Int
    BY <1>5, FrameFields DEF AdoptPage, Next_, RelayTypeOK, HalfApplied
  <2>2. filters' \in Seq(Nat)
    <3>1. CASE UNCHANGED filters
      BY <3>1 DEF RelayTypeOK, StoresOK
    <3>2. CASE Next_(c).page >= 0 /\ filters' = Append(filters, Next_(c).page)
      <4>1. Next_(c).page \in Nat
        BY <2>1, <3>2
      <4>2. QED
        BY <3>2, <4>1, AppendProperties DEF RelayTypeOK, StoresOK
    <3>3. QED
      BY <1>5, <3>1, <3>2 DEF AdoptPage
  <2>3. StoresOK'
    BY <1>1, <1>5, <2>2 DEF AdoptPage, RelayTypeOK, StoresOK, sourceVars
  <2>4. session' \in [Conns -> Session] /\ session'[c].wire = session[c].wire
        /\ \A d \in Conns \ {c} : session'[d] = session[d]
    BY <1>5, SessionMoves DEF AdoptPage, RelayTypeOK
  <2>5. LinksOK'
    BY <1>1, <1>5, <2>4 DEF AdoptPage, netVars, RelayTypeOK, LinksOK
  <2>6. HalfApplied'
    BY <1>5, <2>1, <2>4 DEF AdoptPage, netVars, RelayTypeOK, HalfApplied
  <2>7. QED
    BY <1>1, <2>3, <2>5, <2>6 DEF RelayTypeOK
<1>6. CASE Acknowledge(c)
  <2>1. data[c] # <<>> /\ Take(c) /\ session[c].wire \in Nat
    BY <1>2, <1>6, FrameFields DEF Acknowledge, RelayTypeOK, HalfApplied
  <2>2. StoresOK'
    BY <1>1, <1>6 DEF Acknowledge, RelayTypeOK, StoresOK, sourceVars, replicaVars
  <2>3. acks' \in [Conns -> Seq(AckFrame)]
    BY <1>6, <2>1, <2>2, TellOK DEF Acknowledge
  <2>4. session' \in [Conns -> Session] /\ session'[c].stage = "next"
        /\ \A d \in Conns \ {c} : session'[d] = session[d]
    BY <1>2, <1>6 DEF Acknowledge, RelayTypeOK, LinksOK, Session
  <2>5. LinksOK' /\ HalfApplied'
    BY <1>1, <1>6, <2>1, <2>3, <2>4, TakeOK DEF Acknowledge, RelayTypeOK, LinksOK, HalfApplied
  <2>6. QED
    BY <1>1, <2>2, <2>5 DEF RelayTypeOK
<1>7. CASE CloseStream(c)
  <2>1. data[c] # <<>> /\ Take(c) /\ session[c].stage = "next"
    BY <1>7 DEF CloseStream, Ready
  <2>2. CASE Finished(c)
    <3>1. /\ StoresOK' /\ session' \in [Conns -> Session]
          /\ session' = [session EXCEPT ![c] = NoSession]
      BY <1>1, <2>2, FinishedOK
    <3>2. session'[c].stage = "next" /\ \A d \in Conns \ {c} : session'[d] = session[d]
      BY <3>1 DEF NoSession, RelayTypeOK, LinksOK
    <3>3. LinksOK' /\ HalfApplied'
      BY <1>1, <1>7, <2>1, <3>1, <3>2, TakeOK
      DEF CloseStream, RelayTypeOK, LinksOK, HalfApplied
    <3>4. QED
      BY <1>1, <3>1, <3>3 DEF RelayTypeOK
  <2>3. CASE UNCHANGED <<session, replicaVars>>
    <3>1. StoresOK'
      BY <1>1, <2>3 DEF RelayTypeOK, StoresOK, sourceVars, replicaVars
    <3>2. LinksOK' /\ HalfApplied'
      BY <1>1, <1>7, <2>1, <2>3, TakeOK DEF CloseStream, RelayTypeOK, LinksOK, HalfApplied
    <3>3. QED
      BY <1>1, <3>1, <3>2 DEF RelayTypeOK
  <2>4. QED
    BY <1>7, <2>2, <2>3 DEF CloseStream
<1>8. CASE EndConnection(c)
  <2>1. StoresOK' /\ session' = [session EXCEPT ![c] = NoSession]
    <3>1. CASE Finished(c)
      BY <1>1, <3>1, FinishedOK
    <3>2. CASE session' = [session EXCEPT ![c] = NoSession] /\ UNCHANGED replicaVars
      BY <1>1, <3>2 DEF RelayTypeOK, StoresOK, sourceVars, replicaVars
    <3>3. QED
      BY <1>8, <3>1, <3>2 DEF EndConnection
  <2>2. session' \in [Conns -> Session] /\ session'[c].stage = "next"
        /\ \A d \in Conns \ {c} : session'[d] = session[d]
    BY <2>1, RelayBounds DEF NoSession, RelayTypeOK, LinksOK
  <2>3. data' \in [Conns -> Seq(StreamFrame \cup ChunkFrame)]
        /\ \A d \in Conns \ {c} : data'[d] = data[d]
    <3>1. <<>> \in Seq(StreamFrame \cup ChunkFrame)
      BY EmptySeq
    <3>2. QED
      BY <1>8, <3>1 DEF EndConnection, RelayTypeOK, LinksOK
  <2>4. LinksOK' /\ HalfApplied'
    BY <1>1, <1>8, <2>2, <2>3 DEF EndConnection, RelayTypeOK, LinksOK, HalfApplied
  <2>5. QED
    BY <1>1, <2>1, <2>4 DEF RelayTypeOK
<1>9. QED
  BY <1>3, <1>4, <1>5, <1>6, <1>7, <1>8 DEF ReceiverStep

LEMMA RestPreservesRelayTypeOK ==
    ASSUME RelayTypeOK, ReceiverFails \/ DropReplica
    PROVE  RelayTypeOK'
<1>1. SenderOK'
  BY DEF ReceiverFails, DropReplica, RelayTypeOK, SenderOK, senderVars, streamVars
<1>2. CASE ReceiverFails
  <2>1. StoresOK'
    BY <1>2 DEF ReceiverFails, RelayTypeOK, StoresOK, sourceVars, replicaVars
  <2>2. /\ data' = [c \in Conns |-> <<>>] /\ session' = [c \in Conns |-> NoSession]
        /\ \A c \in Conns : data'[c] = <<>> /\ session'[c].stage = "next"
    BY <1>2 DEF ReceiverFails, NoSession
  <2>3. data' \in [Conns -> Seq(StreamFrame \cup ChunkFrame)] /\ session' \in [Conns -> Session]
    <3>1. <<>> \in Seq(StreamFrame \cup ChunkFrame)
      BY EmptySeq
    <3>2. QED
      BY <2>2, <3>1, RelayBounds
  <2>4. LinksOK' /\ HalfApplied'
    BY <1>2, <2>2, <2>3 DEF ReceiverFails, RelayTypeOK, LinksOK, HalfApplied
  <2>5. QED
    BY <1>1, <2>1, <2>4 DEF RelayTypeOK
<1>3. CASE DropReplica
  <2>1. Len(replica) \in Nat /\ rKept' = rKept + 1 /\ rKept \in Nat /\ rKept < Len(replica)
    BY <1>3, SeqElements DEF DropReplica, Held, RelayTypeOK, StoresOK
  <2>2. filters' \in Seq(Nat)
    BY <1>3, TailIsSeq DEF DropReplica, RelayTypeOK, StoresOK
  <2>3. StoresOK'
    BY <1>3, <2>1, <2>2 DEF DropReplica, RelayTypeOK, StoresOK, sourceVars
  <2>4. LinksOK' /\ HalfApplied'
    BY <1>3 DEF DropReplica, RelayTypeOK, LinksOK, HalfApplied, netVars
  <2>5. QED
    BY <1>1, <2>3, <2>4 DEF RelayTypeOK
<1>4. QED
  BY <1>2, <1>3

\* The sender's and the receiver's state, the stores and what is under way on every
\* connection keep their types; a session that has appended a chunk still has it before it.
THEOREM RelayTypeCorrect == RelaySpec => []RelayTypeOK
<1>1. RelayInit => RelayTypeOK
  <2> SUFFICES ASSUME RelayInit PROVE RelayTypeOK
    OBVIOUS
  <2>1. StoresOK
    <3>1. /\ <<>> \in Seq(Nat) /\ <<>> \in Seq([seq : Nat, epoch : Nat]) /\ Len(<<>>) = 0
      BY EmptySeq
    <3>2. created \in BOOLEAN
      BY DEF RelayInit
    <3>3. QED
      BY <3>1, <3>2 DEF RelayInit, StoresOK
  <2>2. SenderOK
    <3>1. turn \in Seq(ChunkFrame) /\ live \in BOOLEAN /\ standing \in BOOLEAN
      BY EmptySeq DEF RelayInit
    <3>2. QED
      BY <3>1, RelayAssumption DEF RelayInit, SenderOK
  <2>3. LinksOK
    <3>1. <<>> \in Seq(StreamFrame \cup ChunkFrame) /\ <<>> \in Seq(AckFrame)
      BY EmptySeq
    <3>2. QED
      BY <3>1, RelayBounds DEF RelayInit, LinksOK
  <2>4. HalfApplied
    BY DEF RelayInit, HalfApplied, NoSession
  <2>5. QED
    BY <2>1, <2>2, <2>3, <2>4 DEF RelayTypeOK
<1>2. RelayTypeOK /\ [RelayNext]_relayVars => RelayTypeOK'
  <2> SUFFICES ASSUME RelayTypeOK, [RelayNext]_relayVars PROVE RelayTypeOK'
    OBVIOUS
  <2>1. CASE SenderStep \/ Leave
    BY <2>1, OffersPreserveRelayTypeOK, TurnsPreserveRelayTypeOK, EndsPreserveRelayTypeOK
    DEF SenderStep
  <2>2. CASE \E c \in Conns : ReceiverStep(c)
    BY <2>2, ReceiverPreservesRelayTypeOK
  <2>3. CASE Seal \/ Settle \/ DropSource
    BY <2>3, SourcePreservesRelayTypeOK
  <2>4. CASE DropReplica \/ SenderFails \/ ReceiverFails
    BY <2>4, RestPreservesRelayTypeOK, EndsPreserveRelayTypeOK
  <2>5. CASE UNCHANGED relayVars
    BY <2>5 DEF relayVars, sourceVars, replicaVars, senderVars, streamVars, netVars,
       RelayTypeOK, StoresOK, SenderOK, LinksOK, HalfApplied
  <2>6. QED
    BY <2>1, <2>2, <2>3, <2>4, <2>5 DEF RelayNext
<1>3. QED
  BY <1>1, <1>2, PTL DEF RelaySpec

------------------------------------------------------------------------------
\* What any step does to the frames under way, and to the turn being served.
LEMMA DataSteps ==
    ASSUME RelayTypeOK, NEW S, data \in [Conns -> Seq(StreamFrame \cup S)],
           spc = "writes" => turn \in Seq(S), [RelayNext]_relayVars
    PROVE  data' \in [Conns -> Seq(StreamFrame \cup S)]
<1> DEFINE F == StreamFrame \cup S
<1>1. \A c \in Conns : data[c] \in Seq(F) /\ <<>> \in Seq(F)
  BY EmptySeq
<1>2. ASSUME NEW c \in Conns, NEW f \in F, Push(c, f) PROVE data' \in [Conns -> Seq(F)]
  <2>1. Append(data[c], f) \in Seq(F)
    BY <1>1, <1>2, AppendProperties
  <2>2. QED
    BY <1>1, <1>2, <2>1 DEF Push
<1>3. ASSUME NEW c \in Conns, data[c] # <<>>, Take(c) PROVE data' \in [Conns -> Seq(F)]
  <2>1. Tail(data[c]) \in Seq(F)
    BY <1>1, <1>3, TailIsSeq
  <2>2. QED
    BY <1>1, <1>3, <2>1 DEF Take
<1>4. CASE Open \/ Leave \/ Write
  <2>1. conn \in Conns
    BY <1>4 DEF Open, Leave, Write, RelayTypeOK, SenderOK
  <2>2. CASE Open
    <3> DEFINE f == [kind |-> "open", wire |-> wire, seq |-> IF kept < Len(source) THEN kept ELSE 0]
    <3>1. f \in F
      BY DEF StreamFrame, RelayTypeOK, SenderOK, StoresOK
    <3>2. Push(conn, f)
      BY <2>2 DEF Open
    <3> HIDE DEF f, F
    <3>3. QED
      BY <1>2, <2>1, <3>1, <3>2 DEF F
  <2>3. CASE Leave
    <3> DEFINE f == [kind |-> "close", wire |-> wire, seq |-> 0]
    <3>1. f \in F
      BY DEF StreamFrame, RelayTypeOK, SenderOK
    <3>2. Push(conn, f)
      BY <2>3 DEF Leave
    <3> HIDE DEF f, F
    <3>3. QED
      BY <1>2, <2>1, <3>1, <3>2 DEF F
  <2>4. CASE Write
    <3>1. Head(turn) \in F
      BY <2>4, TailIsSeq DEF Write, RelayTypeOK, SenderOK
    <3>2. QED
      BY <1>2, <2>1, <2>4, <3>1 DEF Write
  <2>5. QED
    BY <1>4, <2>2, <2>3, <2>4
<1>5. CASE \E c \in Conns : ReceiverStep(c)
  <2> SUFFICES ASSUME NEW c \in Conns, ReceiverStep(c) PROVE data' \in [Conns -> Seq(F)]
    BY <1>5
  <2>1. CASE OpenStream(c) \/ CloseStream(c)
    BY <1>3, <2>1 DEF OpenStream, CloseStream, Ready
  <2>2. CASE ApplyChunk(c)
    <3>1. (Take(c) /\ data[c] # <<>>) \/ UNCHANGED data
      BY <2>2 DEF ApplyChunk, Ready
    <3>2. QED
      BY <1>3, <3>1
  <2>3. CASE Acknowledge(c)
    <3>1. Take(c) /\ data[c] # <<>>
      BY <2>3 DEF Acknowledge, RelayTypeOK, HalfApplied
    <3>2. QED
      BY <1>3, <3>1
  <2>4. CASE AdoptPage(c) \/ EndConnection(c)
    BY <1>1, <2>4 DEF AdoptPage, EndConnection, netVars
  <2>5. QED
    BY <2>1, <2>2, <2>3, <2>4 DEF ReceiverStep
<1>6. CASE SenderFails \/ ReceiverFails
  BY <1>1, <1>6 DEF SenderFails, ReceiverFails
<1>7. CASE ~(\/ Open \/ Leave \/ Write \/ SenderFails \/ ReceiverFails
             \/ \E c \in Conns : ReceiverStep(c))
  <2>1. UNCHANGED data
    BY <1>7 DEF RelayNext, SenderStep, Connect, Linger, Answer, Serve, ReadPages, Read, Drain,
       Save, Notice, Seal, Settle, DropSource, DropReplica, relayVars, netVars
  <2>2. QED
    BY <2>1
<1>8. QED
  BY <1>4, <1>5, <1>6, <1>7

LEMMA TurnSteps ==
    ASSUME RelayTypeOK, NEW S, turn \in Seq(S), [RelayNext]_relayVars,
           ~Serve, ~ReadPages
    PROVE  turn' \in Seq(S)
<1>1. CASE Write
  BY <1>1, TailIsSeq DEF Write, RelayTypeOK, SenderOK
<1>2. CASE Read
  <2> DEFINE gone == IF kept > turn[1].seq THEN kept - turn[1].seq ELSE 0
  <2>1. turn[1] \in ChunkFrame
    BY <1>2, SeqElements DEF Read, RelayTypeOK, SenderOK
  <2>2. gone + 1 \in Nat \ {0}
    BY <2>1, FrameFields DEF RelayTypeOK, StoresOK
  <2>3. turn' = SubSeq(turn, gone + 1, Len(turn))
    BY <1>2 DEF Read
  <2> HIDE DEF gone
  <2>4. QED
    BY <2>2, <2>3, SuffixIsSeq
<1>3. CASE ~Write /\ ~Read
  <2>1. turn' \in {turn, <<>>}
    <3>1. CASE Answer
      <4>1. Heard(Head(acks[conn])) \/ UNCHANGED turn
        BY <3>1 DEF Answer
      <4>2. QED
        BY <4>1 DEF Heard, Fresh, streamVars
    <3>2. CASE Drain
      BY <3>2 DEF Drain, Heard, Fresh, streamVars
    <3>3. CASE Connect \/ Leave \/ SenderFails \/ Notice
      BY <3>3 DEF Connect, Leave, SenderFails, Notice, SenderEnds, Fresh
    <3>4. CASE \E c \in Conns : ReceiverStep(c)
      BY <3>4 DEF ReceiverStep, OpenStream, ApplyChunk, AdoptPage, Acknowledge, CloseStream,
         EndConnection, senderVars, streamVars
    <3>5. CASE Open \/ Linger \/ Save \/ Seal \/ Settle \/ DropSource \/ DropReplica
               \/ ReceiverFails \/ UNCHANGED relayVars
      BY <3>5 DEF Open, Linger, Save, Seal, Settle, DropSource, DropReplica, ReceiverFails,
         relayVars, senderVars, streamVars
    <3>6. QED
      BY <1>3, <3>1, <3>2, <3>3, <3>4, <3>5 DEF RelayNext, SenderStep
  <2>2. QED
    BY <2>1, EmptySeq
<1>4. QED
  BY <1>1, <1>2, <1>3

------------------------------------------------------------------------------
\* A source that ships only what is on its disk, or whose host keeps its power.
ShipsTheDurable == \A e \in Environments : ~({"power", "unsynced"} \subseteq e.events)

\* A chunk frame that carries what the source has under its number.
Genuine == {f \in ChunkFrame : f.seq < Len(source) /\ f.epoch = source[f.seq + 1]}

\* What is under way, in a turn or in the replica is what the source still has.
FramesAreGenuine ==
    /\ "unsynced" \notin env.events => synced = Len(source)
    /\ turn \in Seq(Genuine)
    /\ data \in [Conns -> Seq(StreamFrame \cup Genuine)]
    /\ Len(replica) <= Len(source)
    /\ \A i \in 1 .. Len(replica) :
          replica[i].seq = i - 1 /\ replica[i].epoch = source[i]

\* The source does not forget a chunk it has sealed.
LEMMA SourceOnlyGrows ==
    ASSUME ShipsTheDurable, RelayTypeOK, FramesAreGenuine, [RelayNext]_relayVars
    PROVE  /\ Len(source) \in Nat /\ Len(source') \in Nat /\ Len(source) <= Len(source')
           /\ \A i \in 1 .. Len(source) : source'[i] = source[i]
           /\ Genuine \subseteq Genuine'
           /\ "unsynced" \notin env'.events => synced' = Len(source')
<1>1. source \in Seq(Nat) /\ Len(source) \in Nat /\ epoch \in Nat
  BY SeqElements DEF RelayTypeOK, StoresOK
<1>2. /\ Len(source') \in Nat /\ Len(source) <= Len(source')
      /\ \A i \in 1 .. Len(source) : source'[i] = source[i]
      /\ env' = env
      /\ "unsynced" \notin env.events => synced' = Len(source')
  <2>1. CASE Seal
    BY <1>1, <2>1, AppendIsSeq DEF Seal, Event
  <2>2. CASE Settle
    BY <1>1, <2>2 DEF Settle
  <2>3. CASE SenderFails
    <3>1. PICK how \in {"ended", "dead"} :
            /\ Event(IF how = "dead" THEN "power" ELSE "senderFails")
            /\ source' = IF how = "dead" THEN SubSeq(source, 1, synced) ELSE source
      BY <2>3 DEF SenderFails
    <3>2. CASE how = "dead"
      <4>1. "power" \in env.events
        BY <3>1, <3>2 DEF Event
      <4>2. env \in Environments
        BY DEF RelayTypeOK, StoresOK
      <4>3. "unsynced" \notin env.events
        BY <4>1, <4>2 DEF ShipsTheDurable
      <4>4. source' = source
        BY <1>1, <3>1, <3>2, <4>3, SubSeqFull DEF FramesAreGenuine
      <4>5. QED
        BY <1>1, <2>3, <4>3, <4>4 DEF SenderFails, FramesAreGenuine
    <3>3. CASE how # "dead"
      <4>1. source' = source /\ UNCHANGED <<env, synced>>
        BY <2>3, <3>1, <3>3 DEF SenderFails
      <4>2. QED
        BY <1>1, <4>1 DEF FramesAreGenuine
    <3>4. QED
      BY <3>2, <3>3
  <2>4. CASE ~Seal /\ ~Settle /\ ~SenderFails
    <3>1. CASE \E c \in Conns : ReceiverStep(c)
      BY <1>1, <3>1, ReceiverLeavesSender DEF sourceVars, FramesAreGenuine
    <3>2. CASE ~\E c \in Conns : ReceiverStep(c)
      <4>1. UNCHANGED <<env, source, synced>>
        BY <2>4, <3>2 DEF RelayNext, SenderStep, Connect, Open, Linger, Leave, Answer, Serve,
           ReadPages, Read, Write, Drain, Save, Notice, DropSource, DropReplica, ReceiverFails,
           relayVars, sourceVars
      <4>2. QED
        BY <1>1, <4>1 DEF FramesAreGenuine
    <3>3. QED
      BY <3>1, <3>2
  <2>5. QED
    BY <2>1, <2>2, <2>3, <2>4
<1>3. Genuine \subseteq Genuine'
  <2> SUFFICES ASSUME NEW f \in Genuine PROVE f \in Genuine'
    OBVIOUS
  <2>1. f \in ChunkFrame /\ f.seq \in Nat /\ f.seq < Len(source) /\ f.epoch = source[f.seq + 1]
    BY FrameFields DEF Genuine
  <2>2. f.seq + 1 \in 1 .. Len(source) /\ f.seq < Len(source')
    BY <1>1, <1>2, <2>1
  <2>3. QED
    BY <1>2, <2>1, <2>2 DEF Genuine
<1>4. QED
  BY <1>1, <1>2, <1>3

\* A chunk is appended only by its own number, from a frame on its connection.
LEMMA ReplicaSteps ==
    ASSUME RelayTypeOK, [RelayNext]_relayVars
    PROVE  \/ replica' = replica
           \/ \E c \in Conns :
                 /\ data[c] # <<>> /\ Head(data[c]).kind = "chunk"
                 /\ Head(data[c]).seq = Len(replica)
                 /\ replica' = Append(replica, [seq |-> Head(data[c]).seq,
                                                epoch |-> Head(data[c]).epoch])
<1>1. CASE \E c \in Conns : ReceiverStep(c)
  <2> SUFFICES ASSUME NEW c \in Conns, ReceiverStep(c), replica' # replica
               PROVE  /\ data[c] # <<>> /\ Head(data[c]).kind = "chunk"
                      /\ Head(data[c]).seq = Len(replica)
                      /\ replica' = Append(replica, [seq |-> Head(data[c]).seq,
                                                     epoch |-> Head(data[c]).epoch])
    BY <1>1
  <2>1. ApplyChunk(c)
    BY DEF ReceiverStep, OpenStream, AdoptPage, Acknowledge, CloseStream, EndConnection,
       Finished, replicaVars
  <2>2. QED
    BY <2>1 DEF ApplyChunk, Ready, Next_, Continues, replicaVars
<1>2. CASE ~\E c \in Conns : ReceiverStep(c)
  BY <1>2 DEF RelayNext, SenderStep, Connect, Open, Linger, Leave, Answer, Serve, ReadPages,
     Read, Write, Drain, Save, Notice, Seal, Settle, DropSource, DropReplica, SenderFails,
     ReceiverFails, relayVars, replicaVars
<1>3. QED
  BY <1>1, <1>2

\* What serve puts in a turn is what the source has.
LEMMA ServedIsGenuine ==
    ASSUME RelayTypeOK, Serve, turn \in Seq(Genuine)
    PROVE  turn' \in Seq(Genuine)
<1> DEFINE from == IF resume > kept THEN resume ELSE kept
           to == IF from + TurnSize < Len(source) THEN from + TurnSize ELSE Len(source)
           frame(n) == [kind |-> "chunk", wire |-> wire, seq |-> n, epoch |-> source[n + 1],
                        page |-> n - kept]
<1>1. CASE live /\ from < to
  <2>1. turn' = [i \in 1 .. to - from |-> frame(from + i - 1)]
    BY <1>1 DEF Serve
  <2>2. from \in Nat /\ to \in Nat /\ to <= Len(source)
    <3>1. resume \in Nat /\ kept \in Nat /\ Len(source) \in Nat
      BY SeqElements DEF RelayTypeOK, StoresOK, SenderOK
    <3>2. TurnSize \in Nat
      BY RelayAssumption DEF TurnSize
    <3>3. QED
      BY <3>1, <3>2
  <2>3. \A n \in Nat : n < Len(source) => frame(n) \in Genuine
    BY SelectedIsFrame DEF RelayTypeOK, Genuine
  <2> HIDE DEF frame
  <2>4. \A i \in 1 .. to - from : frame(from + i - 1) \in Genuine
    BY <1>1, <2>2, <2>3
  <2>5. from < to
    BY <1>1
  <2> HIDE DEF from, to
  <2>6. to - from \in Nat
    BY <2>2, <2>5
  <2>7. turn' \in [1 .. to - from -> Genuine]
    BY <2>1, <2>4
  <2>8. QED
    BY <2>6, <2>7, FunctionIsSeq
<1>2. CASE ~(live /\ from < to)
  BY <1>2 DEF Serve
<1>3. QED
  BY <1>1, <1>2

LEMMA PagedIsGenuine ==
    ASSUME RelayTypeOK, ReadPages, turn \in Seq(Genuine)
    PROVE  turn' \in Seq(Genuine)
<1>1. turn \in [1 .. Len(turn) -> Genuine] /\ Len(turn) \in Nat
  BY LenProperties
<1>2. turn' = [i \in 1 .. Len(turn) |-> [turn[i] EXCEPT !.page = PageAt(turn[i].page, turn[1].page)]]
  BY <1>1 DEF ReadPages
<1>3. turn' \in Seq(ChunkFrame)
  BY TurnsPreserveRelayTypeOK DEF RelayTypeOK, SenderOK
<1>4. Len(turn') = Len(turn)
  BY <1>1, <1>2, <1>3, LenProperties
<1>5. \A i \in 1 .. Len(turn) : turn'[i].seq = turn[i].seq /\ turn'[i].epoch = turn[i].epoch
  BY <1>1, <1>2 DEF Genuine, ChunkFrame
<1>6. \A i \in 1 .. Len(turn) : turn'[i] \in Genuine
  BY <1>1, <1>3, <1>4, <1>5, SeqElements DEF Genuine
<1>7. turn' \in [1 .. Len(turn) -> Genuine]
  BY <1>2, <1>6
<1>8. QED
  BY <1>1, <1>7, FunctionIsSeq

\* src/receive.rs: a number means the same chunk at both ends, with no gap and no repetition,
\* whatever connections break, processes die, streams are refused or heads are dropped; of a
\* source that ships nothing its disk could still lose.
THEOREM ReplicaIsTheSource ==
    ASSUME ShipsTheDurable
    PROVE  RelaySpec => []ReplicaIsTheTape
<1>1. RelayInit => FramesAreGenuine
  <2> SUFFICES ASSUME RelayInit PROVE FramesAreGenuine
    OBVIOUS
  <2>1. <<>> \in Seq(Genuine) /\ <<>> \in Seq(StreamFrame \cup Genuine) /\ Len(<<>>) = 0
    BY EmptySeq
  <2>2. QED
    BY <2>1 DEF RelayInit, FramesAreGenuine
<1>2. RelayTypeOK /\ FramesAreGenuine /\ [RelayNext]_relayVars => FramesAreGenuine'
  <2> SUFFICES ASSUME RelayTypeOK, FramesAreGenuine, [RelayNext]_relayVars
               PROVE  FramesAreGenuine'
    OBVIOUS
  <2>1. /\ Len(source) \in Nat /\ Len(source') \in Nat /\ Len(source) <= Len(source')
        /\ \A i \in 1 .. Len(source) : source'[i] = source[i]
        /\ Genuine \subseteq Genuine'
        /\ "unsynced" \notin env'.events => synced' = Len(source')
    BY SourceOnlyGrows
  <2>2. turn' \in Seq(Genuine')
    <3>1. turn' \in Seq(Genuine)
      BY TurnSteps, ServedIsGenuine, PagedIsGenuine DEF FramesAreGenuine
    <3>2. QED
      BY <2>1, <3>1, SeqMonotonic
  <2>3. data' \in [Conns -> Seq(StreamFrame \cup Genuine')]
    <3>1. data' \in [Conns -> Seq(StreamFrame \cup Genuine)]
      BY DataSteps DEF FramesAreGenuine
    <3>2. StreamFrame \cup Genuine \subseteq StreamFrame \cup Genuine'
      BY <2>1
    <3>3. \A c \in Conns : data'[c] \in Seq(StreamFrame \cup Genuine')
      BY <3>1, <3>2, SeqMonotonic
    <3>4. QED
      BY <3>1, <3>3
  <2>4. /\ Len(replica') <= Len(source')
        /\ \A i \in 1 .. Len(replica') :
              replica'[i].seq = i - 1 /\ replica'[i].epoch = source'[i]
    <3>1. Len(replica) \in Nat
      BY SeqElements DEF RelayTypeOK, StoresOK
    <3>2. CASE replica' = replica
      BY <2>1, <3>1, <3>2 DEF FramesAreGenuine
    <3>3. ASSUME NEW c \in Conns, data[c] # <<>>, Head(data[c]).kind = "chunk",
                 Head(data[c]).seq = Len(replica),
                 replica' = Append(replica, [seq |-> Head(data[c]).seq,
                                             epoch |-> Head(data[c]).epoch])
          PROVE  /\ Len(replica') <= Len(source')
                 /\ \A i \in 1 .. Len(replica') :
                       replica'[i].seq = i - 1 /\ replica'[i].epoch = source'[i]
      <4> DEFINE f == Head(data[c])
      <4>1. f \in Genuine
        <5>1. data[c] \in Seq(StreamFrame \cup Genuine)
          BY DEF FramesAreGenuine
        <5>2. f \in StreamFrame \cup Genuine
          BY <3>3, <5>1, TailIsSeq
        <5>3. f.kind = "chunk"
          BY <3>3
        <5> HIDE DEF f
        <5>4. QED
          BY <5>2, <5>3 DEF StreamFrame
      <4>2. f.seq = Len(replica) /\ f.seq < Len(source) /\ f.epoch = source[f.seq + 1]
            /\ f.epoch \in Nat
        BY <3>3, <4>1, FrameFields DEF Genuine
      <4>3. replica \in Seq([seq : Nat, epoch : Nat])
            /\ [seq |-> f.seq, epoch |-> f.epoch] \in [seq : Nat, epoch : Nat]
        BY <3>1, <4>2 DEF RelayTypeOK, StoresOK
      <4>4. /\ Len(replica') = Len(replica) + 1
            /\ \A i \in 1 .. Len(replica) : replica'[i] = replica[i]
            /\ replica'[Len(replica) + 1] = [seq |-> f.seq, epoch |-> f.epoch]
        BY <3>3, <4>3, AppendIsSeq
      <4> HIDE DEF f
      <4>5. \A i \in 1 .. Len(replica) : replica[i].seq = i - 1 /\ replica[i].epoch = source'[i]
        BY <2>1, <3>1 DEF FramesAreGenuine
      <4>6. replica'[Len(replica) + 1].seq = Len(replica)
            /\ replica'[Len(replica) + 1].epoch = source'[Len(replica) + 1]
        BY <2>1, <3>1, <4>2, <4>4
      <4>7. \A i \in 1 .. Len(replica') : i \in 1 .. Len(replica) \/ i = Len(replica) + 1
        BY <3>1, <4>4
      <4>8. QED
        BY <2>1, <3>1, <4>2, <4>4, <4>5, <4>6, <4>7
    <3>4. QED
      BY <3>2, <3>3, ReplicaSteps
  <2>5. QED
    BY <2>1, <2>2, <2>3, <2>4 DEF FramesAreGenuine
<1>3. FramesAreGenuine => ReplicaIsTheTape
  BY DEF FramesAreGenuine, ReplicaIsTheTape
<1>4. QED
  BY <1>1, <1>2, <1>3, RelayTypeCorrect, PTL DEF RelaySpec

------------------------------------------------------------------------------
\* Where filters travel, the source has a filter for every chunk it ships, does not drop
\* chunks while the sender reads their filters, and the receiver is not interrupted.
FiltersTravelWhole ==
    \A e \in Environments :
        e.pages => e.events \cap {"unindexed", "raced", "receiverFails"} = {}

\* A chunk frame that carries the chunk's own filter.
Paged == {f \in ChunkFrame : f.wire > 0 /\ f.page = f.seq}

\* The sender: a filter's place in the source's index is that of its chunk.
SenderPages ==
    /\ indexed = Len(source)
    /\ spc # "down" => wire > 0
    /\ spc = "pages" =>
          \A i \in 1 .. Len(turn) :
              turn[i].wire > 0 /\ turn[i].seq < indexed /\ turn[i].page = turn[i].seq - kept
    /\ spc \in {"reads", "writes"} => turn \in Seq(Paged)

\* The receiver: one session writes the replica, and only between its two halves is there a
\* chunk more than there are filters.
HalfDone == \E c \in Conns : session[c].stage = "page"
ReceiverPages ==
    /\ \A c, d \in Conns : session[c].wire > 0 /\ session[d].wire > 0 => c = d
    /\ \A c \in Conns : session[c].stage # "next" => session[c].wire > 0
    /\ \A c \in Conns : session[c].wire > 0 \/ session[c].chunks = 0
    /\ \A c \in Conns : session[c].stage = "page" => Head(data[c]).seq = Len(replica) - 1
    /\ Len(filters) = IF HalfDone THEN Held - 1 ELSE Held
    /\ \A i \in 1 .. Len(filters) : filters[i] = rKept + i - 1

FiltersFollow ==
    /\ ~env.pages => filters = <<>>
    /\ env.pages =>
          /\ data \in [Conns -> Seq(StreamFrame \cup Paged)]
          /\ SenderPages
          /\ ReceiverPages

LEMMA EnvironmentStays ==
    ASSUME RelayTypeOK, [RelayNext]_relayVars
    PROVE  env' = env
<1>1. CASE \E c \in Conns : ReceiverStep(c)
  BY <1>1, ReceiverLeavesSender
<1>2. CASE ~\E c \in Conns : ReceiverStep(c)
  BY <1>2 DEF RelayNext, SenderStep, Connect, Open, Linger, Leave, Answer, Serve, ReadPages,
     Read, Write, Drain, Save, Notice, Seal, Settle, DropSource, DropReplica, SenderFails,
     ReceiverFails, relayVars
<1>3. QED
  BY <1>1, <1>2

\* What the sender does with the filters of a turn.
LEMMA ServedHasPlaces ==
    ASSUME RelayTypeOK, SenderPages, env.pages, Serve
    PROVE  SenderPages'
<1> DEFINE from == IF resume > kept THEN resume ELSE kept
           to == IF from + TurnSize < Len(source) THEN from + TurnSize ELSE Len(source)
           frame(n) == [kind |-> "chunk", wire |-> wire, seq |-> n, epoch |-> source[n + 1],
                        page |-> n - kept]
<1>1. UNCHANGED <<source, indexed, kept, wire>> /\ spc # "down"
  BY DEF Serve, sourceVars
<1>2. CASE live /\ from < to
  <2>1. turn' = [i \in 1 .. to - from |-> frame(from + i - 1)] /\ spc' = "pages"
    BY <1>2 DEF Serve
  <2>2. from \in Nat /\ to \in Nat /\ to <= Len(source) /\ from < to
    <3>1. resume \in Nat /\ kept \in Nat /\ Len(source) \in Nat
      BY SeqElements DEF RelayTypeOK, StoresOK, SenderOK
    <3>2. TurnSize \in Nat
      BY RelayAssumption DEF TurnSize
    <3>3. QED
      BY <1>2, <3>1, <3>2
  <2>3. turn' \in Seq(ChunkFrame)
    BY TurnsPreserveRelayTypeOK DEF RelayTypeOK, SenderOK
  <2>4. \A n \in Nat : /\ frame(n).wire = wire /\ frame(n).seq = n /\ frame(n).page = n - kept
    OBVIOUS
  <2> HIDE DEF frame, from, to
  <2>5. Len(turn') = to - from
    <3>1. DOMAIN turn' = 1 .. Len(turn') /\ DOMAIN turn' = 1 .. to - from /\ Len(turn') \in Nat
      BY <2>1, <2>3, SeqElements
    <3>2. QED
      BY <2>2, <3>1
  <2>6. \A i \in 1 .. Len(turn') :
           turn'[i].wire = wire /\ turn'[i].seq < Len(source) /\ turn'[i].page = turn'[i].seq - kept
    <3> SUFFICES ASSUME NEW i \in 1 .. Len(turn')
                 PROVE  /\ turn'[i].wire = wire /\ turn'[i].seq < Len(source)
                        /\ turn'[i].page = turn'[i].seq - kept
      OBVIOUS
    <3>1. from + i - 1 \in Nat /\ from + i - 1 < Len(source) /\ i \in 1 .. to - from
      BY <2>2, <2>5, SeqElements DEF RelayTypeOK, StoresOK
    <3>2. turn'[i] = frame(from + i - 1)
      BY <2>1, <3>1
    <3>3. QED
      BY <2>4, <3>1, <3>2
  <2>7. QED
    BY <1>1, <2>1, <2>6 DEF SenderPages
<1>3. CASE ~(live /\ from < to)
  <2>1. spc' = "drains"
    BY <1>3 DEF Serve
  <2>2. QED
    BY <1>1, <2>1 DEF SenderPages
<1>4. QED
  BY <1>2, <1>3

LEMMA ReadFiltersAreTheirs ==
    ASSUME RelayTypeOK, SenderPages, ReadPages
    PROVE  SenderPages'
<1>1. /\ turn \in [1 .. Len(turn) -> ChunkFrame] /\ Len(turn) \in Nat
      /\ kept \in Nat /\ spc = "pages" /\ spc' = "reads"
      /\ UNCHANGED <<source, indexed, wire>>
  BY LenProperties DEF ReadPages, RelayTypeOK, SenderOK, StoresOK, sourceVars
<1>2. turn' = [i \in 1 .. Len(turn) |-> [turn[i] EXCEPT !.page = PageAt(turn[i].page, turn[1].page)]]
  BY <1>1 DEF ReadPages
<1>3. turn' \in Seq(ChunkFrame)
  BY TurnsPreserveRelayTypeOK DEF RelayTypeOK, SenderOK
<1>4. Len(turn') = Len(turn)
  BY <1>1, <1>2, <1>3, LenProperties
<1>5. \A i \in 1 .. Len(turn) : PageAt(turn[i].page, turn[1].page) = turn[i].seq
  <2> SUFFICES ASSUME NEW i \in 1 .. Len(turn) PROVE PageAt(turn[i].page, turn[1].page) = turn[i].seq
    OBVIOUS
  <2>1. turn[i].seq \in Nat /\ turn[i].page = turn[i].seq - kept /\ turn[i].seq < indexed
        /\ indexed \in Nat
    <3>1. turn[i] \in ChunkFrame
      BY <1>1
    <3>2. turn[i].seq \in Nat /\ indexed \in Nat
      BY <3>1, FrameFields, SeqElements DEF RelayTypeOK, StoresOK
    <3>3. QED
      BY <1>1, <3>2 DEF SenderPages
  <2>2. QED
    BY <1>1, <2>1 DEF PageAt
<1>6. \A i \in 1 .. Len(turn) :
         turn'[i].seq = turn[i].seq /\ turn'[i].wire = turn[i].wire /\ turn'[i].page = turn[i].seq
  BY <1>1, <1>2, <1>5 DEF ChunkFrame
<1>7. \A i \in 1 .. Len(turn) : turn'[i] \in Paged
  BY <1>1, <1>3, <1>4, <1>6, SeqElements DEF Paged, SenderPages
<1>8. turn' \in [1 .. Len(turn) -> Paged]
  BY <1>2, <1>7
<1>9. turn' \in Seq(Paged)
  BY <1>1, <1>8, FunctionIsSeq
<1>10. QED
  BY <1>1, <1>9 DEF SenderPages

LEMMA SenderPagesPreserved ==
    ASSUME FiltersTravelWhole, RelayTypeOK, SenderPages, env.pages, [RelayNext]_relayVars
    PROVE  SenderPages'
<1>1. env \in Environments /\ ~Event("unindexed") /\ ~Event("raced")
  BY DEF FiltersTravelWhole, RelayTypeOK, StoresOK, Event
<1>2. CASE \E c \in Conns : ReceiverStep(c)
  BY <1>2, ReceiverLeavesSender DEF SenderPages, sourceVars, senderVars, streamVars
<1>3. CASE Seal \/ Settle \/ DropSource
  <2>1. Len(source') >= Len(source) /\ indexed' = Len(source')
        /\ Len(source') \in Nat /\ Len(source) \in Nat
    BY <1>1, <1>3, AppendIsSeq, SeqElements
    DEF Seal, Settle, DropSource, RelayTypeOK, StoresOK, SenderPages
  <2>2. UNCHANGED <<spc, wire, turn>> /\ (spc = "pages" => kept' = kept)
    BY <1>1, <1>3 DEF Seal, Settle, DropSource, senderVars, streamVars
  <2>3. \A i \in 1 .. Len(turn) : turn[i].seq \in Nat
    BY SeqElements, FrameFields DEF RelayTypeOK, SenderOK
  <2>4. QED
    BY <2>1, <2>2, <2>3 DEF SenderPages
<1>4. CASE SenderFails \/ Notice
  <2>1. spc' = "down" /\ indexed' = Len(source')
    <3>1. CASE Notice
      BY <3>1 DEF Notice, SenderEnds, SenderPages, sourceVars
    <3>2. CASE SenderFails
      <4>1. spc' = "down" /\ indexed' = IF indexed > Len(source') THEN Len(source') ELSE indexed
        BY <3>2 DEF SenderFails, SenderEnds
      <4>2. source' = source \/ source' = SubSeq(source, 1, synced)
        BY <3>2 DEF SenderFails
      <4>3. Len(source') \in Nat /\ Len(source') <= Len(source) /\ Len(source) \in Nat
        BY <4>2, PrefixIsSeq, SeqElements DEF RelayTypeOK, StoresOK
      <4>4. QED
        BY <4>1, <4>3 DEF SenderPages
    <3>3. QED
      BY <1>4, <3>1, <3>2
  <2>2. QED
    BY <2>1 DEF SenderPages
<1>5. CASE Connect \/ Open \/ Linger \/ Leave \/ Save
  <2>1. UNCHANGED <<source, indexed>> /\ spc' \in {"opens", "answers"}
    BY <1>5 DEF Connect, Open, Linger, Leave, Save, sourceVars
  <2>2. wire' = 1 \/ wire' = NextWire \/ (wire' = wire /\ spc # "down")
    BY <1>5 DEF Connect, Open, Linger, Leave, Save, streamVars
  <2>3. wire' > 0
    BY <1>5, <2>2, WireNumbers DEF Connect, SenderPages, RelayTypeOK
  <2>4. QED
    BY <2>1, <2>3 DEF SenderPages
<1>6. CASE Answer \/ Drain
  <2>1. UNCHANGED <<source, indexed>> /\ spc' \in {"answers", "ships", "drains"} /\ spc # "down"
    BY <1>6 DEF Answer, Drain, sourceVars
  <2>2. wire' \in {wire, NextWire}
    <3>1. UNCHANGED wire \/ Heard(Head(acks[conn]))
      BY <1>6 DEF Answer, Drain
    <3>2. QED
      BY <3>1 DEF Heard, streamVars
  <2>3. wire' > 0
    BY <2>1, <2>2, WireNumbers DEF SenderPages, RelayTypeOK
  <2>4. QED
    BY <2>1, <2>3 DEF SenderPages
<1>7. CASE Read \/ Write
  <2>1. turn' \in Seq(Paged)
    <3>1. turn \in Seq(Paged)
      BY <1>7 DEF Read, Write, SenderPages
    <3>2. ~Serve /\ ~ReadPages
      BY <1>7 DEF Read, Write, Serve, ReadPages
    <3>3. QED
      BY <3>1, <3>2, TurnSteps
  <2>2. UNCHANGED <<source, indexed, wire>> /\ spc' \in {"writes", "drains"} /\ spc # "down"
    BY <1>7 DEF Read, Write, sourceVars
  <2>3. QED
    BY <2>1, <2>2 DEF SenderPages
<1>8. CASE DropReplica \/ ReceiverFails \/ UNCHANGED relayVars
  BY <1>8 DEF DropReplica, ReceiverFails, relayVars, sourceVars, senderVars, streamVars, SenderPages
<1>9. QED
  BY <1>2, <1>3, <1>4, <1>5, <1>6, <1>7, <1>8, ServedHasPlaces, ReadFiltersAreTheirs
  DEF RelayNext, SenderStep

\* While a session is between two halves, the frame it works on stays before it.
LEMMA HeadStays ==
    ASSUME RelayTypeOK, NEW c \in Conns, session[c].stage # "next", [RelayNext]_relayVars,
           ~ReceiverFails, ~ReceiverStep(c)
    PROVE  Head(data'[c]) = Head(data[c])
<1>1. data[c] # <<>>
  BY DEF RelayTypeOK, HalfApplied
<1>2. CASE \E d \in Conns : ReceiverStep(d)
  <2> SUFFICES ASSUME NEW d \in Conns, d # c, ReceiverStep(d) PROVE data'[c] = data[c]
    BY <1>2
  <2>1. CASE EndConnection(d)
    BY <2>1 DEF EndConnection, RelayTypeOK, LinksOK
  <2>2. CASE ~EndConnection(d)
    BY <2>2 DEF ReceiverStep, OpenStream, ApplyChunk, AdoptPage, Acknowledge, CloseStream,
       Take, netVars, RelayTypeOK, LinksOK
  <2>3. QED
    BY <2>1, <2>2
<1>3. CASE Open \/ Leave \/ Write
  <2>1. conn \in Conns
    BY <1>3 DEF Open, Leave, Write, RelayTypeOK, SenderOK
  <2>2. PICK f \in StreamFrame \cup ChunkFrame : Push(conn, f)
    <3>1. CASE Open
      <4> DEFINE f == [kind |-> "open", wire |-> wire, seq |-> IF kept < Len(source) THEN kept ELSE 0]
      <4>1. f \in StreamFrame /\ Push(conn, f)
        BY <3>1 DEF Open, StreamFrame, RelayTypeOK, SenderOK, StoresOK
      <4> HIDE DEF f
      <4>2. QED
        BY <4>1
    <3>2. CASE Leave
      <4> DEFINE f == [kind |-> "close", wire |-> wire, seq |-> 0]
      <4>1. f \in StreamFrame /\ Push(conn, f)
        BY <3>2 DEF Leave, StreamFrame, RelayTypeOK, SenderOK
      <4> HIDE DEF f
      <4>2. QED
        BY <4>1
    <3>3. CASE Write
      <4>1. Head(turn) \in ChunkFrame
        BY <3>3, TailIsSeq DEF Write, RelayTypeOK, SenderOK
      <4>2. QED
        BY <3>3, <4>1 DEF Write
    <3>4. QED
      BY <1>3, <3>1, <3>2, <3>3
  <2>3. /\ data'[conn] = Append(data[conn], f)
        /\ \A d \in Conns \ {conn} : data'[d] = data[d]
    BY <2>1, <2>2, PushOK
  <2>4. data[conn] \in Seq(StreamFrame \cup ChunkFrame)
    BY <2>1, DataIsSeq DEF RelayTypeOK
  <2>5. data[conn] # <<>> => Head(Append(data[conn], f)) = Head(data[conn])
    BY <2>2, <2>4, AppendKeepsHead
  <2>6. QED
    BY <1>1, <2>3, <2>5
<1>4. CASE SenderFails
  <2>1. data'[c] = data[c]
    BY <1>4 DEF SenderFails, RelayTypeOK, LinksOK
  <2>2. QED
    BY <2>1
<1>5. CASE ~(\/ Open \/ Leave \/ Write \/ SenderFails \/ \E d \in Conns : ReceiverStep(d))
  <2>1. UNCHANGED data
    BY <1>5 DEF RelayNext, SenderStep, Connect, Linger, Answer, Serve, ReadPages, Read, Drain,
       Save, Notice, Seal, Settle, DropSource, DropReplica, relayVars, netVars
  <2>2. QED
    BY <2>1
<1>6. QED
  BY <1>2, <1>3, <1>4, <1>5

\* A step of one session leaves the others where they are, and writes the replica only
\* when it is the one that may.
LEMMA SessionPreservesReceiverPages ==
    ASSUME RelayTypeOK, ReceiverPages, env.pages, data \in [Conns -> Seq(StreamFrame \cup Paged)],
           NEW c \in Conns, ReceiverStep(c)
    PROVE  ReceiverPages'
<1>1. /\ session \in [Conns -> Session] /\ session[c] \in Session /\ session[c].wire \in Nat
      /\ Len(filters) \in Nat /\ Len(replica) \in Nat /\ rKept \in Nat /\ filters \in Seq(Nat)
      /\ Held \in Int
  BY DataIsSeq, FrameFields, SeqElements DEF Held, RelayTypeOK, LinksOK, StoresOK
<1>2. \A d \in Conns \ {c} :
         /\ session'[d] = session[d]
         /\ session[d].stage = "page" => Head(data'[d]) = Head(data[d])
  <2>1. ASSUME NEW d \in Conns \ {c}, session[d].stage = "page"
        PROVE  Head(data'[d]) = Head(data[d])
    <3>1. data'[d] = data[d]
      BY DEF ReceiverStep, OpenStream, ApplyChunk, AdoptPage, Acknowledge, CloseStream,
         EndConnection, Take, netVars, RelayTypeOK, LinksOK
    <3>2. QED
      BY <3>1
  <2>2. \A d \in Conns \ {c} : session'[d] = session[d]
    BY <1>1 DEF ReceiverStep, OpenStream, ApplyChunk, AdoptPage, Acknowledge, CloseStream,
       EndConnection, Finished
  <2>3. QED
    BY <2>1, <2>2
\* A session that ends, or that goes on to its next frame, with the replica as it was.
<1>3. ASSUME UNCHANGED replicaVars, session[c].stage # "page", session'[c].stage = "next",
             session'[c].wire > 0 => \A d \in Conns \ {c} : ~(session[d].wire > 0),
             session'[c].wire > 0 \/ session'[c].chunks = 0
      PROVE  ReceiverPages'
  <2>1. HalfDone' <=> HalfDone
    BY <1>2, <1>3 DEF HalfDone
  <2>2. Held' = Held
    BY <1>3 DEF Held, replicaVars
  <2>3. \A d \in Conns : session'[d].wire > 0 \/ session'[d].chunks = 0
    BY <1>2, <1>3 DEF ReceiverPages
  <2>4. /\ \A d, e \in Conns : session'[d].wire > 0 /\ session'[e].wire > 0 => d = e
        /\ \A d \in Conns : session'[d].stage # "next" => session'[d].wire > 0
    BY SMTT(60), <1>2, <1>3 DEF ReceiverPages
  <2>5. \A d \in Conns : session'[d].stage = "page" => Head(data'[d]).seq = Len(replica') - 1
    BY <1>2, <1>3 DEF ReceiverPages, replicaVars
  <2>6. QED
    BY <1>3, <2>1, <2>2, <2>3, <2>4, <2>5 DEF ReceiverPages, replicaVars
<1>4. CASE OpenStream(c)
  <2>1. session[c].stage = "next" /\ UNCHANGED <<replica, rKept, filters>>
    BY <1>4 DEF OpenStream, Ready, replicaVars
  <2>2. CASE UNCHANGED session
    <3>1. HalfDone' <=> HalfDone
      BY <2>2 DEF HalfDone
    <3>2. Held' = Held
      BY <2>1 DEF Held
    <3>3. QED
      BY <1>2, <2>1, <2>2, <3>1, <3>2 DEF ReceiverPages
  <2>3. CASE ~Locked /\ session' = [session EXCEPT ![c] = [NoSession EXCEPT !.wire = Next_(c).wire]]
    <3>1. session'[c].stage = "next" /\ session'[c].chunks = 0
      BY <1>1, <2>3 DEF NoSession
    <3>2. \A d \in Conns : ~(session[d].wire > 0)
      BY <2>3 DEF Locked
    <3>3. HalfDone' <=> HalfDone
      BY <1>2, <2>1, <3>1 DEF HalfDone
    <3>4. Held' = Held
      BY <2>1 DEF Held
    <3>5. /\ \A d, e \in Conns : session'[d].wire > 0 /\ session'[e].wire > 0 => d = e
          /\ \A d \in Conns : session'[d].stage # "next" => session'[d].wire > 0
          /\ \A d \in Conns : session'[d].wire > 0 \/ session'[d].chunks = 0
      BY ZenonT(60), <1>2, <3>1, <3>2 DEF ReceiverPages
    <3>6. \A d \in Conns : session'[d].stage = "page" => Head(data'[d]).seq = Len(replica') - 1
      BY <1>2, <2>1, <3>1 DEF ReceiverPages
    <3>7. QED
      BY <2>1, <3>3, <3>4, <3>5, <3>6 DEF ReceiverPages
  <2>4. QED
    BY <1>4, <2>2, <2>3 DEF OpenStream
<1>5. CASE ApplyChunk(c)
  <2>1. session[c].stage = "next" /\ data[c] # <<>> /\ Next_(c).kind = "chunk"
    BY <1>5 DEF ApplyChunk, Ready
  <2>2. Next_(c) \in Paged
    <3>1. Next_(c) \in StreamFrame \cup Paged
      BY <2>1, TailIsSeq DEF Next_
    <3>2. QED
      BY <2>1, <3>1 DEF StreamFrame
  <2>3. CASE UNCHANGED <<session, replicaVars>>
    BY <1>3, <2>1, <2>3, <1>1 DEF ReceiverPages
  <2>4. CASE session' = [session EXCEPT ![c] = NoSession] /\ UNCHANGED replicaVars
    BY <1>1, <1>3, <2>1, <2>4 DEF NoSession
  <2>5. CASE /\ session[c].wire = Next_(c).wire /\ Next_(c).seq = Len(replica)
             /\ replica' = Append(replica, [seq |-> Next_(c).seq, epoch |-> Next_(c).epoch])
             /\ session' = [session EXCEPT ![c].stage = "page", ![c].chunks = @ + 1]
             /\ UNCHANGED <<rKept, filters, created, data, acks>>
    <3>1. session[c].wire > 0
      BY <2>2, <2>5 DEF Paged
    <3>2. session'[c].wire = session[c].wire /\ session'[c].stage = "page"
      BY <1>1, <2>5 DEF Session
    <3>3. \A d \in Conns : session[d].stage = "next"
      <4>1. \A d \in Conns : session[d].stage # "next" => d = c
        BY <3>1 DEF ReceiverPages
      <4>2. QED
        BY <2>1, <4>1
    <3>4. ~HalfDone /\ HalfDone'
      BY <3>2, <3>3 DEF HalfDone
    <3>5. Len(replica') = Len(replica) + 1
      <4>1. [seq |-> Next_(c).seq, epoch |-> Next_(c).epoch] \in [seq : Nat, epoch : Nat]
        BY <2>2, FrameFields DEF Paged
      <4>2. QED
        BY <2>5, <4>1, AppendIsSeq DEF RelayTypeOK, StoresOK
    <3>6. Held' = Held + 1
      BY <1>1, <2>5, <3>5 DEF Held
    <3>7. Head(data'[c]).seq = Len(replica') - 1
      BY <1>1, <2>5, <3>5 DEF Next_
    <3>8. Len(filters') = Held' - 1
      BY <1>1, <2>5, <3>4, <3>6 DEF ReceiverPages
    <3>9. \A d \in Conns : session'[d].stage = "page" => d = c
      BY <1>2, <3>3
    <3>10. \A d \in Conns : session'[d].wire > 0 <=> session[d].wire > 0
      BY <1>2, <3>2
    <3>11. /\ \A d, e \in Conns : session'[d].wire > 0 /\ session'[e].wire > 0 => d = e
           /\ \A d \in Conns : session'[d].stage # "next" => session'[d].wire > 0
           /\ \A d \in Conns : session'[d].wire > 0 \/ session'[d].chunks = 0
      BY <1>2, <3>1, <3>2, <3>10 DEF ReceiverPages
    <3>12. \A d \in Conns : session'[d].stage = "page" => Head(data'[d]).seq = Len(replica') - 1
      BY <3>7, <3>9
    <3>13. \A i \in 1 .. Len(filters') : filters'[i] = rKept' + i - 1
      BY <2>5 DEF ReceiverPages
    <3>14. QED
      BY <3>4, <3>8, <3>11, <3>12, <3>13 DEF ReceiverPages
  <2>6. QED
    BY <1>5, <2>3, <2>4, <2>5 DEF ApplyChunk, Continues
<1>6. CASE AdoptPage(c)
  <2>1. session[c].stage = "page" /\ UNCHANGED <<replica, rKept, data>> /\ HalfDone
        /\ session[c].wire > 0
    BY <1>6 DEF AdoptPage, netVars, HalfDone, ReceiverPages
  <2>2. Next_(c) \in Paged
    <3>1. data[c] # <<>> /\ Next_(c) \in ChunkFrame
      BY <2>1 DEF Next_, RelayTypeOK, HalfApplied
    <3>2. Next_(c) \in StreamFrame \cup Paged
      BY <3>1, TailIsSeq DEF Next_
    <3>3. QED
      BY <3>1, <3>2 DEF StreamFrame, ChunkFrame
  <2>3. Next_(c).page = Len(replica) - 1 /\ Next_(c).page \in Nat
    BY <2>1, <2>2, FrameFields DEF Next_, Paged, ReceiverPages
  <2>4. filters' = Append(filters, Next_(c).page)
        /\ session' = [session EXCEPT ![c].stage = "ack", ![c].adopted = @ + 1]
    <3>1. Next_(c).page >= 0
      BY <2>3
    <3>2. env.pages /\ Next_(c).page >= 0
      BY <3>1
    <3>3. QED
      BY <1>6, <3>2 DEF AdoptPage
  <2>5. /\ Len(filters') = Len(filters) + 1
        /\ \A i \in 1 .. Len(filters) : filters'[i] = filters[i]
        /\ filters'[Len(filters) + 1] = Len(replica) - 1
    BY <1>1, <2>3, <2>4, AppendIsSeq
  <2>6. Len(filters) = Held - 1 /\ Held' = Held
    BY <2>1 DEF ReceiverPages, Held
  <2>7. Len(filters') = Held' /\ \A i \in 1 .. Len(filters') : filters'[i] = rKept' + i - 1
    <3>1. Len(filters') = Held' /\ rKept' = rKept
      BY <1>1, <2>1, <2>5, <2>6
    <3>2. \A i \in 1 .. Len(filters) : filters'[i] = rKept + i - 1
      BY <2>5 DEF ReceiverPages
    <3>3. Len(replica) - 1 = rKept + (Len(filters) + 1) - 1
      BY <1>1, <2>6 DEF Held
    <3>4. \A i \in 1 .. Len(filters') : i \in 1 .. Len(filters) \/ i = Len(filters) + 1
      BY <1>1, <2>5
    <3>5. QED
      BY <2>5, <3>1, <3>2, <3>3, <3>4
  <2>8. session'[c].wire = session[c].wire /\ session'[c].stage = "ack"
    BY <1>1, <2>4 DEF Session
  <2>9. \A d \in Conns : session'[d].wire > 0 <=> session[d].wire > 0
    BY <1>2, <2>8
  <2>10. \A d \in Conns : session'[d].stage = "next" \/ d = c
    <3>1. \A d \in Conns \ {c} : ~(session[d].wire > 0)
      BY <2>1 DEF ReceiverPages
    <3>2. QED
      BY <1>1, <1>2, <3>1 DEF ReceiverPages
  <2>11. ~HalfDone'
    BY <2>8, <2>10 DEF HalfDone
  <2>12. \A d \in Conns : session'[d].stage # "page"
    BY <2>11 DEF HalfDone
  <2>13. \A d \in Conns : session'[d].stage # "next" => session'[d].wire > 0
    BY <2>1, <2>8, <2>10
  <2>14. \A d \in Conns : session'[d].wire > 0 \/ session'[d].chunks = 0
    BY <1>2, <2>1, <2>8 DEF ReceiverPages
  <2>15. \A d, e \in Conns : session'[d].wire > 0 /\ session'[e].wire > 0 => d = e
    BY <2>9 DEF ReceiverPages
  <2>16. QED
    BY <2>7, <2>11, <2>12, <2>13, <2>14, <2>15 DEF ReceiverPages
<1>7. CASE Acknowledge(c)
  <2>1. session'[c].wire = session[c].wire /\ session'[c].stage = "next"
        /\ session'[c].chunks = session[c].chunks
        /\ session[c].stage = "ack" /\ UNCHANGED replicaVars
    BY <1>1, <1>7 DEF Acknowledge, Session
  <2>2. QED
    BY <1>3, <2>1 DEF ReceiverPages
\* The stream's end extends the index by nothing: it is already as long as the replica.
<1>8. CASE CloseStream(c) \/ EndConnection(c)
  <2>1. session[c].stage # "page"
    BY <1>8 DEF CloseStream, EndConnection, Ready
  <2>2. UNCHANGED <<replica, rKept>>
    BY <1>8 DEF CloseStream, EndConnection, Finished, replicaVars
  <2>3. \/ session' = [session EXCEPT ![c] = NoSession]
        \/ UNCHANGED session /\ session[c].stage = "next"
    <3>1. CASE CloseStream(c)
      BY <3>1 DEF CloseStream, Finished, Ready
    <3>2. CASE EndConnection(c)
      BY <3>2 DEF EndConnection, Finished
    <3>3. QED
      BY <1>8, <3>1, <3>2
  <2>4. session'[c].stage = "next"
        /\ (session'[c].wire > 0 => session[c].wire > 0)
        /\ (session'[c].wire > 0 \/ session'[c].chunks = 0)
    BY <1>1, <2>3 DEF NoSession, ReceiverPages
  <2>5. UNCHANGED filters
    <3>1. CASE UNCHANGED replicaVars
      BY <3>1 DEF replicaVars
    <3>2. CASE Finished(c) /\ Len(filters) = Held
      <4> DEFINE more == [i \in 1 .. Held - Len(filters) |-> rKept + Len(filters) + i - 1]
      <4>1. filters' \in {filters, filters \o more}
        BY <3>2 DEF Finished
      <4>2. 1 .. Held - Len(filters) = {}
        BY <1>1, <3>2
      <4>3. more \in [1 .. 0 -> Nat]
        BY <4>2
      <4>4. more \in Seq(Nat) /\ Len(more) = 0
        BY <4>3, FunctionIsSeq
      <4>5. more = <<>>
        BY <4>4, SeqElements
      <4> HIDE DEF more
      <4>6. QED
        BY <1>1, <4>1, <4>5, ConcatEmptySeq
    <3>3. CASE Finished(c) /\ Len(filters) = Held - 1
      <4>1. \E d \in Conns \ {c} : session[d].stage = "page"
        BY <1>1, <2>1, <3>3 DEF ReceiverPages, HalfDone
      <4>2. ~(session[c].wire > 0)
        BY <4>1 DEF ReceiverPages
      <4>3. session[c].chunks = 0
        BY <4>2 DEF ReceiverPages
      <4>4. QED
        BY <3>3, <4>3 DEF Finished
    <3>4. QED
      BY <1>8, <3>1, <3>2, <3>3 DEF CloseStream, EndConnection, ReceiverPages
  <2>6. HalfDone' <=> HalfDone
    BY <1>2, <2>1, <2>4 DEF HalfDone
  <2>7. Held' = Held
    BY <2>2 DEF Held
  <2>8. QED
    BY ZenonT(60), <1>2, <2>2, <2>4, <2>5, <2>6, <2>7 DEF ReceiverPages
<1>9. QED
  BY <1>4, <1>5, <1>6, <1>7, <1>8 DEF ReceiverStep

LEMMA ReceiverPagesPreserved ==
    ASSUME FiltersTravelWhole, RelayTypeOK, ReceiverPages, env.pages,
           data \in [Conns -> Seq(StreamFrame \cup Paged)], [RelayNext]_relayVars
    PROVE  ReceiverPages'
<1>1. ~ReceiverFails
  BY DEF FiltersTravelWhole, RelayTypeOK, StoresOK, ReceiverFails, Event
<1>2. CASE \E c \in Conns : ReceiverStep(c)
  BY <1>2, SessionPreservesReceiverPages
<1>3. CASE DropReplica
  <2>1. /\ Len(filters) \in Nat /\ Len(replica) \in Nat /\ rKept \in Nat
        /\ filters \in Seq(Nat) /\ session \in [Conns -> Session]
    BY SeqElements DEF RelayTypeOK, StoresOK, LinksOK
  <2>2. ~HalfDone /\ ~HalfDone'
    BY <1>3 DEF DropReplica, Locked, HalfDone, ReceiverPages
  <2>3. Held > 0 /\ Held' = Held - 1 /\ rKept' = rKept + 1
    BY <1>3, <2>1 DEF DropReplica, Held
  <2>4. filters # <<>> /\ filters' = Tail(filters)
    BY <1>3, <2>1, <2>2, <2>3, SeqElements DEF DropReplica, ReceiverPages
  <2>5. Len(filters') = Len(filters) - 1 /\ \A i \in 1 .. Len(filters) - 1 : filters'[i] = filters[i + 1]
    BY <2>1, <2>4, TailIsSeq
  <2>6. Len(filters) = Held
    BY <2>2 DEF ReceiverPages
  <2>7. \A i \in 1 .. Len(filters') : filters'[i] = rKept' + i - 1
    <3> SUFFICES ASSUME NEW i \in 1 .. Len(filters') PROVE filters'[i] = rKept' + i - 1
      OBVIOUS
    <3>1. i \in 1 .. Len(filters) - 1 /\ i + 1 \in 1 .. Len(filters)
      BY <2>1, <2>5
    <3>2. filters[i + 1] = rKept + (i + 1) - 1
      BY <3>1 DEF ReceiverPages
    <3>3. QED
      BY <2>1, <2>3, <2>5, <3>1, <3>2
  <2>8. UNCHANGED <<session, data, replica>>
    BY <1>3 DEF DropReplica, netVars
  <2>9. QED
    BY <2>2, <2>3, <2>5, <2>6, <2>7, <2>8 DEF ReceiverPages
<1>4. CASE ~DropReplica /\ ~\E c \in Conns : ReceiverStep(c)
  <2>1. UNCHANGED <<session, replicaVars>>
    BY <1>1, <1>4 DEF RelayNext, SenderStep, Connect, Open, Linger, Leave, Answer, Serve, ReadPages,
       Read, Write, Drain, Save, Notice, Seal, Settle, DropSource, SenderFails, relayVars
  <2>2. \A c \in Conns : session[c].stage = "page" => Head(data'[c]) = Head(data[c])
    <3> SUFFICES ASSUME NEW c \in Conns, session[c].stage = "page"
                 PROVE  Head(data'[c]) = Head(data[c])
      OBVIOUS
    <3>1. session[c].stage # "next" /\ ~ReceiverStep(c)
      BY <1>4
    <3>2. QED
      BY <1>1, <3>1, HeadStays
  <2>3. (HalfDone' <=> HalfDone) /\ Held' = Held
    BY <2>1 DEF HalfDone, Held, replicaVars
  <2>4. QED
    BY <2>1, <2>2, <2>3 DEF ReceiverPages, replicaVars
<1>5. QED
  BY <1>2, <1>3, <1>4

\* Without filters on the wire there is no index to keep.
LEMMA NoFiltersPreserved ==
    ASSUME RelayTypeOK, ~env.pages, filters = <<>>, [RelayNext]_relayVars
    PROVE  filters' = <<>>
<1>1. CASE \E c \in Conns : ReceiverStep(c)
  BY <1>1 DEF ReceiverStep, OpenStream, ApplyChunk, AdoptPage, Acknowledge, CloseStream,
     EndConnection, Finished, replicaVars
<1>2. CASE ~\E c \in Conns : ReceiverStep(c)
  BY <1>2 DEF RelayNext, SenderStep, Connect, Open, Linger, Leave, Answer, Serve, ReadPages,
     Read, Write, Drain, Save, Notice, Seal, Settle, DropSource, DropReplica, SenderFails,
     ReceiverFails, relayVars, replicaVars
<1>3. QED
  BY <1>1, <1>2

\* src/receive.rs, append_page: every filter of the replica answers for the chunk at its own
\* place, whatever senders fail, streams close or heads are dropped, at either end; where
\* filters travel whole.
THEOREM FiltersFollowTheirChunks ==
    ASSUME FiltersTravelWhole
    PROVE  RelaySpec => []FiltersMatch
<1>1. RelayInit => FiltersFollow
  <2> SUFFICES ASSUME RelayInit PROVE FiltersFollow
    OBVIOUS
  <2>1. <<>> \in Seq(StreamFrame \cup Paged) /\ Len(<<>>) = 0
    BY EmptySeq
  <2>2. SenderPages
    BY <2>1 DEF RelayInit, SenderPages
  <2>3. ReceiverPages
    BY <2>1 DEF RelayInit, ReceiverPages, HalfDone, Held, NoSession
  <2>4. data \in [Conns -> Seq(StreamFrame \cup Paged)] /\ filters = <<>>
    BY <2>1 DEF RelayInit
  <2>5. QED
    BY <2>2, <2>3, <2>4 DEF FiltersFollow
<1>2. RelayTypeOK /\ FiltersFollow /\ [RelayNext]_relayVars => FiltersFollow'
  <2> SUFFICES ASSUME RelayTypeOK, FiltersFollow, [RelayNext]_relayVars PROVE FiltersFollow'
    OBVIOUS
  <2>1. env' = env
    BY EnvironmentStays
  <2>2. CASE ~env.pages
    BY <2>1, <2>2, NoFiltersPreserved DEF FiltersFollow
  <2>3. CASE env.pages
    <3>1. data \in [Conns -> Seq(StreamFrame \cup Paged)] /\ SenderPages /\ ReceiverPages
      BY <2>3 DEF FiltersFollow
    <3>2. data' \in [Conns -> Seq(StreamFrame \cup Paged)]
      BY <3>1, DataSteps DEF SenderPages
    <3>3. SenderPages'
      BY <2>3, <3>1, SenderPagesPreserved
    <3>4. ReceiverPages'
      BY <2>3, <3>1, ReceiverPagesPreserved
    <3>5. QED
      BY <2>1, <2>3, <3>2, <3>3, <3>4 DEF FiltersFollow, Paged
  <2>4. QED
    BY <2>2, <2>3
<1>3. RelayTypeOK /\ FiltersFollow => FiltersMatch
  <2> SUFFICES ASSUME RelayTypeOK, FiltersFollow, NEW i \in 1 .. Len(filters)
               PROVE  i <= Held /\ filters[i] = rKept + i - 1
    BY DEF FiltersMatch
  <2>1. Len(filters) \in Nat /\ Len(replica) \in Nat /\ rKept \in Nat
    BY SeqElements DEF RelayTypeOK, StoresOK
  <2>2. env.pages
    BY <2>1, EmptySeq DEF FiltersFollow
  <2>3. Len(filters) <= Held /\ filters[i] = rKept + i - 1
    BY <2>1, <2>2 DEF FiltersFollow, ReceiverPages, Held
  <2>4. QED
    BY <2>1, <2>3 DEF Held
<1>4. QED
  BY <1>1, <1>2, <1>3, RelayTypeCorrect, PTL DEF RelaySpec
=============================================================================
