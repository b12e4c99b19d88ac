---------------------------- MODULE Intake_proofs ----------------------------
(***************************************************************************)
(* What TLAPS proves of the receiver core under its protocols (modules     *)
(* Intake and Console), for all senders, connections, values, stores,      *)
(* scripts and bounds, and every set of environments in which the code     *)
(* keeps to it (AcksUndisturbed): what was acknowledged is durable; and of *)
(* the console's (OutputUndisturbed): what was put out is kept.            *)
(***************************************************************************)
EXTENDS Console, SequenceFacts

------------------------------------------------------------------------------
\* The parts of the entries of a sequence; of a store, those that no death loses, and
\* those that the next sync makes so.
Position == (Clients \X Nat \X Nat \X Nat) \cup (Clients \X Nat)
EntryRecord == [value : Values, parts : Seq(Position)]
StoreRecord ==
    [there : BOOLEAN, route : Values \cup {None}, chunks : Seq(EntryRecord), csynced : Nat,
     sap : Seq(EntryRecord), ssynced : Nat, open : BOOLEAN, routed : Values \cup {None},
     buf : Seq(EntryRecord), wal : BOOLEAN]

PartsOf(s) == UNION {Range(e.parts) : e \in Range(s)}
Sure(s) == PartsOf(SubSeq(s.chunks, 1, s.csynced)) \cup PartsOf(SubSeq(s.sap, 1, s.ssynced))
Soon(s) ==
    Sure(s) \cup (IF ~s.open THEN {}
                  ELSE IF s.wal THEN PartsOf(s.sap) ELSE PartsOf(s.chunks) \cup PartsOf(s.buf))

\* The buffer is what the segment copies, and is empty of a store that is not open.
StoreOK(s) ==
    /\ s \in StoreRecord
    /\ s.csynced <= Len(s.chunks) /\ s.ssynced <= Len(s.sap)
    /\ ~s.open => s.buf = <<>> /\ ~s.wal
    /\ s.open => s.sap = IF s.wal THEN s.buf ELSE <<>>

\* What a call of a store that is open leaves of it, but for what is gone by retention.
SameStore(s, t) ==
    /\ t.there = s.there /\ t.route = s.route /\ t.open = s.open /\ t.routed = s.routed
    /\ s.wal => t.wal \/ "segment" \in env.troubles
Becomes(s, t, gone) ==
    /\ StoreOK(t) /\ SameStore(s, t)
    /\ Sure(s) \subseteq Sure(t) \cup gone /\ Soon(s) \subseteq Soon(t) \cup gone
Better(s, t) == Becomes(s, t, {})

------------------------------------------------------------------------------
\* A sequence of one element, and what a sequence without its first has.
LEMMA OneElement ==
    ASSUME NEW S, NEW x \in S
    PROVE  <<x>> \in Seq(S) /\ Range(<<x>>) = {x} /\ <<>> \in Seq(S) /\ Range(<<>>) = {}
<1> DEFINE none == <<>>
<1>0. none \in Seq(S)
  BY EmptySeq
<1>1. Append(none, x) = <<x>>
  OBVIOUS
<1>2. Range(none) = {}
  BY DEF Range
<1> HIDE DEF none
<1>3. Append(none, x) \in Seq(S)
  BY <1>0, AppendIsSeq
<1>4. Range(Append(none, x)) = Range(none) \cup {x}
  BY <1>0, AppendRange
<1>5. QED
  BY <1>1, <1>2, <1>3, <1>4, EmptySeq DEF none

LEMMA TailRange ==
    ASSUME NEW S, NEW s \in Seq(S), s # <<>>
    PROVE  /\ Head(s) \in S /\ Head(s) \in Range(s) /\ Tail(s) \in Seq(S)
           /\ Range(Tail(s)) \subseteq Range(s)
<1>1. /\ Head(s) \in S /\ Head(s) = s[1] /\ Tail(s) \in Seq(S) /\ Len(s) \in Nat /\ Len(s) > 0
      /\ Len(Tail(s)) = Len(s) - 1 /\ \A i \in 1 .. Len(s) - 1 : Tail(s)[i] = s[i + 1]
  BY TailIsSeq
<1>2. DOMAIN s = 1 .. Len(s) /\ DOMAIN Tail(s) = 1 .. Len(Tail(s))
  BY <1>1, SeqElements
<1>3. Head(s) \in Range(s)
  BY <1>1, <1>2 DEF Range
<1>4. ASSUME NEW x \in Range(Tail(s)) PROVE x \in Range(s)
  <2>1. PICK i \in 1 .. Len(s) - 1 : x = Tail(s)[i]
    BY <1>1, <1>2 DEF Range
  <2>2. x = s[i + 1] /\ i + 1 \in 1 .. Len(s)
    BY <1>1, <2>1
  <2>3. QED
    BY <1>2, <2>2 DEF Range
<1>5. QED
  BY <1>1, <1>3, <1>4

------------------------------------------------------------------------------
LEMMA PartsByIndex ==
    ASSUME NEW s \in Seq(EntryRecord)
    PROVE  \A x : x \in PartsOf(s) <=> \E i \in 1 .. Len(s) : x \in Range(s[i].parts)
<1>1. DOMAIN s = 1 .. Len(s)
  BY SeqElements
<1>2. QED
  BY <1>1 DEF PartsOf, Range

LEMMA NoParts == PartsOf(<<>>) = {}
BY DEF PartsOf, Range

LEMMA PartsOfConcat ==
    ASSUME NEW s \in Seq(EntryRecord), NEW t \in Seq(EntryRecord)
    PROVE  s \o t \in Seq(EntryRecord) /\ PartsOf(s \o t) = PartsOf(s) \cup PartsOf(t)
<1>1. Range(s \o t) = Range(s) \cup Range(t) /\ s \o t \in Seq(EntryRecord)
  BY ConcatRange, ConcatProperties
<1>2. QED
  BY <1>1 DEF PartsOf

LEMMA PartsOfAppend ==
    ASSUME NEW s \in Seq(EntryRecord), NEW e \in EntryRecord
    PROVE  /\ Append(s, e) \in Seq(EntryRecord) /\ Len(Append(s, e)) = Len(s) + 1 /\ Len(s) \in Nat
           /\ PartsOf(Append(s, e)) = PartsOf(s) \cup Range(e.parts)
<1>1. Range(Append(s, e)) = Range(s) \cup {e} /\ Append(s, e) \in Seq(EntryRecord)
      /\ Len(Append(s, e)) = Len(s) + 1 /\ Len(s) \in Nat
  BY AppendRange, AppendIsSeq
<1>2. QED
  BY <1>1 DEF PartsOf

LEMMA PartsOfPrefix ==
    ASSUME NEW s \in Seq(EntryRecord), NEW m \in Nat, NEW n \in Nat, m <= n, n <= Len(s)
    PROVE  /\ SubSeq(s, 1, n) \in Seq(EntryRecord) /\ Len(SubSeq(s, 1, n)) = n
           /\ PartsOf(SubSeq(s, 1, m)) \subseteq PartsOf(SubSeq(s, 1, n))
           /\ PartsOf(SubSeq(s, 1, n)) \subseteq PartsOf(s)
           /\ SubSeq(s, 1, Len(s)) = s
<1>1. Len(s) \in Nat /\ m \in 0 .. Len(s) /\ n \in 0 .. Len(s) /\ Len(s) \in 0 .. Len(s)
  BY SeqElements
<1>2. /\ SubSeq(s, 1, m) \in Seq(EntryRecord) /\ Len(SubSeq(s, 1, m)) = m
      /\ \A i \in 1 .. m : SubSeq(s, 1, m)[i] = s[i]
  BY <1>1, PrefixIsSeq
<1>3. /\ SubSeq(s, 1, n) \in Seq(EntryRecord) /\ Len(SubSeq(s, 1, n)) = n
      /\ \A i \in 1 .. n : SubSeq(s, 1, n)[i] = s[i] /\ SubSeq(s, 1, Len(s)) = s
  BY <1>1, PrefixIsSeq
<1>4. SubSeq(s, 1, Len(s)) = s
  BY <1>1, PrefixIsSeq
<1>5. ASSUME NEW x \in PartsOf(SubSeq(s, 1, m)) PROVE x \in PartsOf(SubSeq(s, 1, n))
  <2>1. PICK i \in 1 .. m : x \in Range(SubSeq(s, 1, m)[i].parts)
    BY <1>2, PartsByIndex
  <2>2. i \in 1 .. n /\ SubSeq(s, 1, m)[i] = SubSeq(s, 1, n)[i]
    BY <1>2, <1>3
  <2>3. QED
    BY <1>3, <2>1, <2>2, PartsByIndex
<1>6. ASSUME NEW x \in PartsOf(SubSeq(s, 1, n)) PROVE x \in PartsOf(s)
  <2>1. PICK i \in 1 .. n : x \in Range(SubSeq(s, 1, n)[i].parts)
    BY <1>3, PartsByIndex
  <2>2. i \in 1 .. Len(s) /\ SubSeq(s, 1, n)[i] = s[i]
    BY <1>1, <1>3
  <2>3. QED
    BY <2>1, <2>2, PartsByIndex
<1>7. QED
  BY <1>3, <1>4, <1>5, <1>6

LEMMA PrefixOfConcat ==
    ASSUME NEW s \in Seq(EntryRecord), NEW t \in Seq(EntryRecord), NEW m \in Nat, m <= Len(s)
    PROVE  PartsOf(SubSeq(s \o t, 1, m)) = PartsOf(SubSeq(s, 1, m)) /\ m <= Len(s \o t)
<1>1. /\ Len(s) \in Nat /\ Len(t) \in Nat /\ s \o t \in Seq(EntryRecord)
      /\ Len(s \o t) = Len(s) + Len(t) /\ \A i \in 1 .. Len(s) : (s \o t)[i] = s[i]
  <2>1. Len(s) \in Nat /\ Len(t) \in Nat
    BY SeqElements
  <2>2. s \o t \in Seq(EntryRecord) /\ Len(s \o t) = Len(s) + Len(t)
        /\ \A i \in 1 .. Len(s) + Len(t) : (s \o t)[i] = IF i <= Len(s) THEN s[i] ELSE t[i - Len(s)]
    BY ConcatProperties
  <2>3. QED
    BY <2>1, <2>2
<1> DEFINE u == s \o t
           p == SubSeq(u, 1, m)
           q == SubSeq(s, 1, m)
<1>2. m \in 0 .. Len(s) /\ m \in 0 .. Len(u)
  BY <1>1
<1>3. /\ p \in Seq(EntryRecord) /\ Len(p) = m /\ \A i \in 1 .. m : p[i] = u[i]
      /\ q \in Seq(EntryRecord) /\ Len(q) = m /\ \A i \in 1 .. m : q[i] = s[i]
  BY <1>1, <1>2, PrefixIsSeq
<1>4. \A i \in 1 .. m : p[i] = q[i]
  BY <1>1, <1>2, <1>3
<1> HIDE DEF p, q, u
<1>5. PartsOf(p) = PartsOf(q)
  BY <1>3, <1>4, PartsByIndex
<1>6. QED
  BY <1>1, <1>5 DEF p, q, u

LEMMA GreaterOfTwo ==
    ASSUME NEW a \in Int, NEW b \in Int
    PROVE  Max({a, b}) = IF a >= b THEN a ELSE b
<1>1. \E x \in {a, b} : \A y \in {a, b} : x >= y
  OBVIOUS
<1>2. Max({a, b}) \in {a, b} /\ \A y \in {a, b} : Max({a, b}) >= y
  BY <1>1 DEF Max
<1>3. QED
  BY <1>2

\* What retention takes from a store, and what it leaves.
LEMMA DroppedParts ==
    ASSUME NEW s \in Seq(EntryRecord), NEW m \in Nat, m <= Len(s), NEW c \in Nat, c <= Len(s)
    PROVE  LET rest == SubSeq(s, m + 1, Len(s))
               cut == Max({0, c - m})
               gone == UNION {Range(s[i].parts) : i \in 1 .. m}
           IN  /\ rest \in Seq(EntryRecord) /\ cut \in Nat /\ cut <= Len(rest)
               /\ PartsOf(SubSeq(s, 1, c)) \subseteq PartsOf(SubSeq(rest, 1, cut)) \cup gone
               /\ PartsOf(s) \subseteq PartsOf(rest) \cup gone
<1> DEFINE rest == SubSeq(s, m + 1, Len(s))
           cut == Max({0, c - m})
           gone == UNION {Range(s[i].parts) : i \in 1 .. m}
<1>1. cut = IF m >= c THEN 0 ELSE c - m
  BY GreaterOfTwo
<1>2. Len(s) \in Nat /\ m + 1 \in Nat \ {0}
  BY SeqElements
<1>3. /\ rest \in Seq(EntryRecord) /\ Len(rest) = Len(s) - m
      /\ \A i \in 1 .. Len(s) - m : rest[i] = s[m + i]
  <2>1. /\ rest \in Seq(EntryRecord)
        /\ Len(rest) = IF m + 1 <= Len(s) THEN Len(s) - (m + 1) + 1 ELSE 0
        /\ \A i \in 1 .. Len(s) - (m + 1) + 1 : rest[i] = s[(m + 1) + i - 1]
    BY <1>2, SuffixIsSeq
  <2> HIDE DEF rest
  <2>2. Len(rest) = Len(s) - m
    <3>1. Len(rest) = IF m + 1 <= Len(s) THEN Len(s) - (m + 1) + 1 ELSE 0
      BY <2>1
    <3>2. QED
      BY <1>2, <3>1
  <2>3. ASSUME NEW i \in 1 .. Len(s) - m PROVE rest[i] = s[m + i]
    <3>1. i \in 1 .. Len(s) - (m + 1) + 1 /\ (m + 1) + i - 1 = m + i
      BY <1>2
    <3>2. QED
      BY <2>1, <3>1
  <2>4. QED
    BY <2>1, <2>2, <2>3
<1> HIDE DEF rest, cut
<1>4. cut \in Nat /\ cut <= Len(rest) /\ cut \in 0 .. Len(rest)
  BY <1>1, <1>2, <1>3
<1> DEFINE p == SubSeq(s, 1, c)
           q == SubSeq(rest, 1, cut)
<1>5. /\ p \in Seq(EntryRecord) /\ Len(p) = c /\ \A i \in 1 .. c : p[i] = s[i]
  <2>1. c \in 0 .. Len(s)
    BY <1>2
  <2>2. QED
    BY <2>1, PrefixIsSeq
<1>6. /\ q \in Seq(EntryRecord) /\ Len(q) = cut /\ \A i \in 1 .. cut : q[i] = rest[i]
  BY <1>3, <1>4, PrefixIsSeq
<1> HIDE DEF p, q
<1>7. ASSUME NEW x \in PartsOf(p), x \notin gone PROVE x \in PartsOf(q)
  <2>1. PICK i \in 1 .. c : x \in Range(p[i].parts)
    BY <1>5, PartsByIndex
  <2>2. i \notin 1 .. m /\ p[i] = s[i]
    BY <1>5, <1>7, <2>1
  <2>3. i - m \in 1 .. cut /\ i - m \in 1 .. Len(s) - m /\ m + (i - m) = i
    BY <1>1, <1>2, <2>2
  <2>4. q[i - m] = s[i]
    BY <1>3, <1>6, <2>3
  <2>5. QED
    BY <1>6, <2>1, <2>2, <2>3, <2>4, PartsByIndex
<1>8. ASSUME NEW x \in PartsOf(s), x \notin gone PROVE x \in PartsOf(rest)
  <2>1. PICK i \in 1 .. Len(s) : x \in Range(s[i].parts)
    BY PartsByIndex
  <2>2. i \notin 1 .. m
    BY <1>8, <2>1
  <2>3. i - m \in 1 .. Len(s) - m /\ m + (i - m) = i
    BY <1>2, <2>2
  <2>4. QED
    BY <1>3, <2>1, <2>3, PartsByIndex
<1>9. QED
  BY <1>3, <1>4, <1>7, <1>8 DEF rest, cut, p, q

------------------------------------------------------------------------------
\* The calls of a store.
LEMMA StoreTypes ==
    ASSUME NEW s \in StoreRecord
    PROVE  /\ s.there \in BOOLEAN /\ s.route \in Values \cup {None} /\ s.chunks \in Seq(EntryRecord)
           /\ s.csynced \in Nat /\ s.sap \in Seq(EntryRecord) /\ s.ssynced \in Nat
           /\ s.open \in BOOLEAN /\ s.routed \in Values \cup {None} /\ s.buf \in Seq(EntryRecord)
           /\ s.wal \in BOOLEAN
           /\ Len(s.chunks) \in Nat /\ Len(s.sap) \in Nat /\ Len(s.buf) \in Nat
           /\ <<>> \in Seq(EntryRecord)
BY SeqElements, EmptySeq DEF StoreRecord

\* What is sure is in the chunks or the segment; all of either, if all of it is synced.
LEMMA SureFacts ==
    ASSUME NEW s \in StoreRecord, s.csynced <= Len(s.chunks), s.ssynced <= Len(s.sap)
    PROVE  /\ Sure(s) \subseteq PartsOf(s.chunks) \cup PartsOf(s.sap)
           /\ s.csynced = Len(s.chunks) => PartsOf(s.chunks) \subseteq Sure(s)
           /\ s.ssynced = Len(s.sap) => PartsOf(s.sap) \subseteq Sure(s)
<1>1. PartsOf(SubSeq(s.chunks, 1, s.csynced)) \subseteq PartsOf(s.chunks)
      /\ SubSeq(s.chunks, 1, Len(s.chunks)) = s.chunks
  BY StoreTypes, PartsOfPrefix
<1>2. PartsOf(SubSeq(s.sap, 1, s.ssynced)) \subseteq PartsOf(s.sap)
      /\ SubSeq(s.sap, 1, Len(s.sap)) = s.sap
  BY StoreTypes, PartsOfPrefix
<1>3. QED
  BY <1>1, <1>2 DEF Sure

LEMMA BetterIsReflexive ==
    ASSUME NEW s, StoreOK(s)
    PROVE  Better(s, s)
BY DEF Better, Becomes, SameStore

LEMMA BetterIsTransitive ==
    ASSUME NEW s, NEW t, NEW u, Better(s, t), Better(t, u)
    PROVE  Better(s, u)
BY DEF Better, Becomes, SameStore

\* A flush: the buffer is moved to the chunks, and there is no segment left.
IsLanded(s, t) ==
    /\ t.chunks = s.chunks \o s.buf /\ t.buf = <<>> /\ t.sap = <<>> /\ t.ssynced = 0
    /\ \/ t.csynced = Len(s.chunks) + Len(s.buf)
       \/ ~s.wal /\ ~t.wal /\ t.csynced = s.csynced

LEMMA SumBounds ==
    ASSUME NEW a \in Nat, NEW b \in Nat, NEW c \in Nat, a <= b
    PROVE  a <= b + c /\ b + c \in Nat /\ \A d \in Nat : d <= d
OBVIOUS

LEMMA SumIsNat ==
    ASSUME NEW b \in Nat, NEW c \in Nat
    PROVE  b + c \in Nat
OBVIOUS

LEMMA LandedFacts ==
    ASSUME NEW s, StoreOK(s), s.open, NEW t \in StoreRecord, SameStore(s, t), IsLanded(s, t)
    PROVE  Better(s, t)
<1>1. /\ s \in StoreRecord /\ s.csynced <= Len(s.chunks) /\ s.ssynced <= Len(s.sap)
      /\ s.sap = IF s.wal THEN s.buf ELSE <<>>
  BY DEF StoreOK
<1>2. /\ s.chunks \in Seq(EntryRecord) /\ s.buf \in Seq(EntryRecord)
      /\ Len(s.chunks) \in Nat /\ Len(s.buf) \in Nat /\ s.csynced \in Nat /\ t.csynced \in Nat
      /\ s.ssynced \in Nat
  BY <1>1, StoreTypes
<1>3. Len(s.chunks \o s.buf) = Len(s.chunks) + Len(s.buf)
      /\ PartsOf(s.chunks \o s.buf) = PartsOf(s.chunks) \cup PartsOf(s.buf)
  BY <1>2, ConcatProperties, PartsOfConcat
<1>4. Len(t.chunks) = Len(s.chunks) + Len(s.buf)
      /\ PartsOf(t.chunks) = PartsOf(s.chunks) \cup PartsOf(s.buf)
  BY <1>3 DEF IsLanded
<1>5. s.csynced <= Len(s.chunks) + Len(s.buf) /\ Len(s.chunks) + Len(s.buf) \in Nat
  BY <1>1, <1>2, SumBounds
<1>6. t.csynced <= Len(t.chunks)
  <2>1. t.csynced = Len(s.chunks) + Len(s.buf) \/ t.csynced = s.csynced
    BY DEF IsLanded
  <2>2. s.csynced <= Len(t.chunks) /\ Len(s.chunks) + Len(s.buf) <= Len(t.chunks)
    <3>1. Len(t.chunks) = Len(s.chunks) + Len(s.buf)
      BY <1>4
    <3>2. Len(s.chunks) + Len(s.buf) <= Len(s.chunks) + Len(s.buf)
      BY <1>5, SumBounds
    <3>3. QED
      BY <1>5, <3>1, <3>2
  <2>3. QED
    BY <2>1, <2>2
<1>7. Len(<<>>) = 0 /\ t.sap = <<>> /\ t.ssynced = 0 /\ t.buf = <<>>
  BY EmptySeq DEF IsLanded
<1>8. StoreOK(t)
  BY <1>1, <1>6, <1>7 DEF StoreOK, SameStore
<1>9. Sure(s) \subseteq PartsOf(s.chunks) \cup PartsOf(s.sap)
  BY <1>1, SureFacts
<1>10. Sure(s) \subseteq Sure(t) /\ Soon(s) \subseteq Soon(t)
  <2>1. CASE t.csynced = Len(s.chunks) + Len(s.buf)
    <3>1. PartsOf(t.chunks) \subseteq Sure(t)
      <4>1. t.csynced = Len(t.chunks) /\ t.csynced <= Len(t.chunks) /\ t.ssynced <= Len(t.sap)
        BY <1>4, <1>6, <1>7, <2>1
      <4>2. QED
        BY <4>1, SureFacts
    <3>2. PartsOf(s.sap) \subseteq PartsOf(s.buf)
      BY <1>1, NoParts
    <3>3. QED
      BY <1>4, <1>9, <3>1, <3>2 DEF Soon
  <2>2. CASE ~s.wal /\ ~t.wal /\ t.csynced = s.csynced
    <3>1. PartsOf(SubSeq(t.chunks, 1, t.csynced)) = PartsOf(SubSeq(s.chunks, 1, s.csynced))
      <4>1. PartsOf(SubSeq(s.chunks \o s.buf, 1, s.csynced)) = PartsOf(SubSeq(s.chunks, 1, s.csynced))
        BY <1>1, <1>2, PrefixOfConcat
      <4>2. QED
        BY <2>2, <4>1 DEF IsLanded
    <3>2. s.sap = t.sap /\ s.ssynced = t.ssynced
      <4>1. s.sap = <<>>
        BY <1>1, <2>2
      <4>2. s.ssynced = 0
        BY <1>1, <1>2, <1>7, <4>1
      <4>3. QED
        BY <1>7, <4>1, <4>2
    <3>3. Sure(s) = Sure(t)
      BY <3>1, <3>2 DEF Sure
    <3>4. QED
      BY <1>4, <2>2, <3>3 DEF Soon, SameStore
  <2>3. QED
    BY <2>1, <2>2 DEF IsLanded
<1>11. QED
  BY <1>8, <1>10 DEF Better, Becomes

\* ... and what there is of a segment, synced.
LEMMA SyncedFacts ==
    ASSUME NEW s, StoreOK(s), s.open, NEW t, t = [s EXCEPT !.ssynced = Len(s.sap)]
    PROVE  Better(s, t) /\ (s.wal => Soon(t) \subseteq Sure(t))
<1>1. /\ s \in StoreRecord /\ s.csynced <= Len(s.chunks) /\ s.ssynced <= Len(s.sap)
      /\ s.sap = IF s.wal THEN s.buf ELSE <<>>
  BY DEF StoreOK
<1>2. /\ t \in StoreRecord /\ SameStore(s, t) /\ t.chunks = s.chunks /\ t.csynced = s.csynced
      /\ t.sap = s.sap /\ t.buf = s.buf /\ t.wal = s.wal /\ t.ssynced = Len(t.sap)
  BY <1>1, StoreTypes DEF StoreRecord, SameStore
<1>3. StoreOK(t)
  BY <1>1, <1>2, StoreTypes DEF StoreOK, SameStore
<1>4. PartsOf(t.sap) \subseteq Sure(t)
  <2>1. t.csynced <= Len(t.chunks) /\ t.ssynced <= Len(t.sap)
    BY <1>1, <1>2, StoreTypes
  <2>2. QED
    BY <1>2, <2>1, SureFacts
<1>5. PartsOf(SubSeq(s.sap, 1, s.ssynced)) \subseteq PartsOf(s.sap)
  BY <1>1, StoreTypes, PartsOfPrefix
<1>6. Sure(s) \subseteq Sure(t)
  BY <1>2, <1>4, <1>5 DEF Sure
<1>7. Soon(s) \subseteq Soon(t)
  BY <1>2, <1>6 DEF Soon, SameStore
<1>8. s.wal => Soon(t) \subseteq Sure(t)
  BY <1>2, <1>4 DEF Soon, SameStore
<1>9. QED
  BY <1>2, <1>3, <1>6, <1>7, <1>8 DEF Better, Becomes

LEMMA FlushFacts ==
    ASSUME NEW s, StoreOK(s), s.open, NEW o \in FlushChunk(s)
    PROVE  Better(s, o.store) /\ (~s.wal /\ o.ok => o.store.buf = <<>> /\ ~o.store.wal)
<1>1. /\ s \in StoreRecord /\ s.sap = IF s.wal THEN s.buf ELSE <<>>
      /\ s.csynced <= Len(s.chunks) /\ s.ssynced <= Len(s.sap)
  BY DEF StoreOK
<1>2. CASE s.buf = <<>>
  <2>1. o = Fine(s)
    BY <1>2 DEF FlushChunk
  <2>2. o.store = s
    BY <2>1 DEF Fine
  <2>3. QED
    BY <1>2, <2>2, BetterIsReflexive
<1>3. CASE s.buf # <<>> /\ s.wal
  <2> DEFINE t == LandedSynced(s)
  <2>1. /\ t \in StoreRecord /\ SameStore(s, t) /\ IsLanded(s, t)
    <3>1. s.chunks \o s.buf \in Seq(EntryRecord) /\ Len(s.chunks) + Len(s.buf) \in Nat
      <4>1. s.chunks \in Seq(EntryRecord) /\ s.buf \in Seq(EntryRecord)
            /\ Len(s.chunks) \in Nat /\ Len(s.buf) \in Nat
        BY <1>1, StoreTypes
      <4>2. s.chunks \o s.buf \in Seq(EntryRecord)
        BY <4>1, ConcatProperties
      <4>3. Len(s.chunks) + Len(s.buf) \in Nat
        BY <4>1, SumIsNat
      <4>4. QED
        BY <4>2, <4>3
    <3>2. <<>> \in Seq(EntryRecord)
      BY <1>1, StoreTypes
    <3>3. t = [s EXCEPT !.chunks = s.chunks \o s.buf, !.buf = <<>>,
                        !.csynced = Len(s.chunks) + Len(s.buf), !.sap = <<>>, !.ssynced = 0]
      BY <1>1 DEF LandedSynced, Landed, StoreRecord
    <3> HIDE DEF t
    <3>4. QED
      BY <1>1, <3>1, <3>2, <3>3 DEF StoreRecord, SameStore, IsLanded
  <2> DEFINE u == [t EXCEPT !.wal = FALSE]
  <2>2. u \in StoreRecord /\ IsLanded(s, u) /\ ("segment" \in env.troubles => SameStore(s, u))
    <3> HIDE DEF t
    <3>1. QED
      BY <2>1 DEF StoreRecord, SameStore, IsLanded
  <2> HIDE DEF t, u
  <2>3. Better(s, t) /\ ("segment" \in env.troubles => Better(s, u))
    BY <2>1, <2>2, LandedFacts
  <2>4. \/ o = Fine(t)
        \/ o = [Fine(u) EXCEPT !.cost = 1] /\ "segment" \in env.troubles
        \/ o = Failed([s EXCEPT !.ssynced = Len(s.sap)])
    BY <1>3 DEF FlushChunk, Meets, t, u
  <2>5. CASE o = Fine(t)
    BY <1>3, <2>3, <2>5 DEF Fine
  <2>6. CASE o = [Fine(u) EXCEPT !.cost = 1] /\ "segment" \in env.troubles
    BY <1>3, <2>3, <2>6 DEF Fine
  <2>7. CASE o = Failed([s EXCEPT !.ssynced = Len(s.sap)])
    <3> DEFINE v == [s EXCEPT !.ssynced = Len(s.sap)]
    <3>1. o.store = v
      BY <2>7 DEF Failed
    <3>2. Better(s, v)
      BY SyncedFacts
    <3> HIDE DEF v
    <3>3. QED
      BY <1>3, <3>1, <3>2
  <2>8. QED
    BY <2>4, <2>5, <2>6, <2>7
<1>4. CASE s.buf # <<>> /\ ~s.wal
  <2> DEFINE t == Landed(s)
  <2>1. /\ t \in StoreRecord /\ SameStore(s, t) /\ t.chunks = s.chunks \o s.buf /\ t.buf = <<>>
        /\ t.sap = s.sap /\ t.ssynced = s.ssynced /\ t.csynced = s.csynced /\ t.wal = s.wal
    <3>1. s.chunks \o s.buf \in Seq(EntryRecord) /\ <<>> \in Seq(EntryRecord)
      <4>1. s.chunks \in Seq(EntryRecord) /\ s.buf \in Seq(EntryRecord)
        BY <1>1, StoreTypes
      <4>2. QED
        BY <4>1, ConcatProperties, EmptySeq
    <3>2. QED
      BY <1>1, <3>1 DEF Landed, StoreRecord, SameStore
  <2> HIDE DEF t
  <2>2. t.sap = <<>> /\ t.ssynced = 0
    <3>1. s.sap = <<>> /\ s.ssynced \in Nat /\ Len(<<>>) = 0
      BY <1>1, <1>4, StoreTypes, EmptySeq
    <3>2. s.ssynced = 0
      BY <1>1, <3>1
    <3>3. QED
      BY <2>1, <3>1, <3>2
  <2>3. Better(s, t)
    <3>1. IsLanded(s, t)
      BY <1>4, <2>1, <2>2 DEF IsLanded
    <3>2. QED
      BY <2>1, <3>1, LandedFacts
  <2>4. o = Fine(t) \/ o = Failed(s)
    BY <1>4 DEF FlushChunk, Meets, t
  <2>5. CASE o = Fine(t)
    BY <1>4, <2>1, <2>3, <2>5 DEF Fine
  <2>6. CASE o = Failed(s)
    BY <1>4, <2>6, BetterIsReflexive DEF Failed
  <2>7. QED
    BY <2>4, <2>5, <2>6
<1>5. QED
  BY <1>1, <1>2, <1>3, <1>4, StoreTypes

LEMMA AppendedFacts ==
    ASSUME NEW s, StoreOK(s), s.open, "append" \notin env.troubles,
           NEW e \in EntryRecord, NEW o \in Appended(s, e)
    PROVE  Better(s, o.store) /\ Range(e.parts) \subseteq Soon(o.store)
<1>1. /\ s \in StoreRecord /\ s.sap = IF s.wal THEN s.buf ELSE <<>>
      /\ s.csynced <= Len(s.chunks) /\ s.ssynced <= Len(s.sap)
  BY DEF StoreOK
<1> DEFINE buffered == [s EXCEPT !.buf = Append(@, e)]
           t == IF s.wal THEN [buffered EXCEPT !.sap = Append(@, e)] ELSE buffered
<1>2. /\ Append(s.buf, e) \in Seq(EntryRecord) /\ Append(s.sap, e) \in Seq(EntryRecord)
      /\ PartsOf(Append(s.buf, e)) = PartsOf(s.buf) \cup Range(e.parts)
      /\ PartsOf(Append(s.sap, e)) = PartsOf(s.sap) \cup Range(e.parts)
      /\ Len(Append(s.sap, e)) = Len(s.sap) + 1 /\ Len(s.sap) \in Nat /\ s.ssynced \in Nat
  BY <1>1, StoreTypes, PartsOfAppend
<1>3. /\ t \in StoreRecord /\ SameStore(s, t) /\ t.wal = s.wal /\ t.chunks = s.chunks
      /\ t.csynced = s.csynced /\ t.ssynced = s.ssynced /\ t.buf = Append(s.buf, e)
      /\ t.sap = IF s.wal THEN Append(s.sap, e) ELSE s.sap
  <2>1. CASE s.wal
    <3>1. t = [s EXCEPT !.buf = Append(s.buf, e), !.sap = Append(s.sap, e)]
      BY <1>1, <2>1 DEF StoreRecord
    <3> HIDE DEF t
    <3>2. QED
      BY <1>1, <1>2, <2>1, <3>1 DEF StoreRecord, SameStore
  <2>2. CASE ~s.wal
    <3>1. t = [s EXCEPT !.buf = Append(s.buf, e)]
      BY <2>2
    <3> HIDE DEF t
    <3>2. QED
      BY <1>1, <1>2, <2>2, <3>1 DEF StoreRecord, SameStore
  <2>3. QED
    BY <2>1, <2>2
<1>4. o \in FlushChunk(t) \/ o = Fine(t)
  <2>1. o \in (IF Len(t.buf) >= ChunkSize THEN FlushChunk(t) ELSE {Fine(t)})
    BY DEF Appended, Meets
  <2> HIDE DEF t
  <2>2. QED
    BY <2>1
<1> HIDE DEF t
<1>5. s.ssynced <= Len(t.sap)
  BY <1>1, <1>2, <1>3
<1>6. StoreOK(t) /\ t.open
  BY <1>1, <1>3, <1>5 DEF StoreOK, SameStore
<1>7. Sure(s) \subseteq Sure(t)
  <2>1. PartsOf(SubSeq(Append(s.sap, e), 1, s.ssynced)) = PartsOf(SubSeq(s.sap, 1, s.ssynced))
    <3> DEFINE one == <<e>>
    <3>1. Append(s.sap, e) = s.sap \o one /\ one \in Seq(EntryRecord) /\ s.sap \in Seq(EntryRecord)
      BY <1>1, StoreTypes, AppendIsConcat
    <3> HIDE DEF one
    <3>2. s.ssynced <= Len(s.sap) /\ s.ssynced \in Nat
      BY <1>1, <1>2
    <3>3. PartsOf(SubSeq(s.sap \o one, 1, s.ssynced)) = PartsOf(SubSeq(s.sap, 1, s.ssynced))
      BY <3>1, <3>2, PrefixOfConcat
    <3>4. QED
      BY <3>1, <3>3
  <2>2. QED
    BY <1>3, <2>1 DEF Sure
<1>8. Soon(s) \subseteq Soon(t) /\ Range(e.parts) \subseteq Soon(t)
  BY <1>2, <1>3, <1>6, <1>7 DEF Soon, SameStore
<1>9. Better(s, t)
  BY <1>3, <1>6, <1>7, <1>8 DEF Better, Becomes
<1>10. Better(t, o.store)
  <2>1. CASE o \in FlushChunk(t)
    BY <1>6, <2>1, FlushFacts
  <2>2. CASE o = Fine(t)
    BY <1>6, <2>2, BetterIsReflexive DEF Fine
  <2>3. QED
    BY <1>4, <2>1, <2>2
<1>11. Better(s, o.store)
  BY <1>9, <1>10, BetterIsTransitive
<1>12. QED
  BY <1>8, <1>10, <1>11 DEF Better, Becomes

\* What an acknowledgement waits for does what it says.
LEMMA DurableFacts ==
    ASSUME NEW s, StoreOK(s), s.open, NEW o \in MakeDurable(s)
    PROVE  Better(s, o.store) /\ (o.ok => Soon(s) \subseteq Sure(o.store))
<1>1. CASE s.wal
  <2> DEFINE t == [s EXCEPT !.ssynced = Len(s.sap)]
  <2>1. o = Fine(t) \/ o = Failed(s)
    BY <1>1 DEF MakeDurable, SapSync, Meets
  <2>2. Better(s, t) /\ Soon(t) \subseteq Sure(t)
    BY <1>1, SyncedFacts
  <2> HIDE DEF t
  <2>3. CASE o = Fine(t)
    BY <2>2, <2>3 DEF Fine, Better, Becomes
  <2>4. CASE o = Failed(s)
    BY <2>4, BetterIsReflexive DEF Failed
  <2>5. QED
    BY <2>1, <2>3, <2>4
<1>2. CASE ~s.wal
  <2>1. PICK q \in FlushChunk(s) : o = IF q.ok THEN [q EXCEPT !.store.csynced = Len(q.store.chunks)] ELSE q
    BY <1>2 DEF MakeDurable
  <2>2. Better(s, q.store) /\ (q.ok => q.store.buf = <<>> /\ ~q.store.wal)
    BY <1>2, FlushFacts
  <2>3. CASE ~q.ok
    BY <2>1, <2>2, <2>3
  <2>4. CASE q.ok
    <3> DEFINE t == q.store
               u == [t EXCEPT !.csynced = Len(t.chunks)]
    <3>1. o.store = u
      <4>1. q = [store |-> q.store, ok |-> q.ok, cost |-> q.cost]
        <5>1. q \in {Fine(s), Fine(Landed(s)), Failed(s)}
          BY <1>2 DEF FlushChunk, Meets
        <5>2. QED
          BY <5>1 DEF Fine, Failed
      <4>2. o = [q EXCEPT !.store.csynced = Len(q.store.chunks)]
        BY <2>1, <2>4
      <4>3. QED
        BY <4>1, <4>2
    <3>2. StoreOK(t) /\ t.open /\ t.buf = <<>> /\ ~t.wal /\ Soon(s) \subseteq Soon(t) /\ t \in StoreRecord
      BY <2>2, <2>4 DEF Better, Becomes, SameStore, StoreOK
    <3> HIDE DEF t
    <3>3. /\ u \in StoreRecord /\ SameStore(t, u) /\ u.chunks = t.chunks /\ u.csynced = Len(t.chunks)
          /\ u.sap = t.sap /\ u.ssynced = t.ssynced /\ u.buf = t.buf /\ u.wal = t.wal
      <4>1. Len(t.chunks) \in Nat
        BY <3>2, StoreTypes
      <4>2. QED
        BY <3>2, <4>1 DEF StoreRecord, SameStore
    <3> HIDE DEF u
    <3>4. u.csynced <= Len(u.chunks) /\ u.ssynced <= Len(u.sap) /\ Len(u.chunks) \in Nat
      <4>1. Len(t.chunks) \in Nat
        BY <3>2, StoreTypes
      <4>2. t.ssynced <= Len(t.sap)
        BY <3>2 DEF StoreOK
      <4>3. QED
        BY <3>3, <4>1, <4>2
    <3>5. StoreOK(u)
      BY <3>2, <3>3, <3>4 DEF StoreOK, SameStore
    <3>6. PartsOf(t.chunks) \subseteq Sure(u)
      BY <3>3, <3>4, SureFacts
    <3>7. Sure(t) \subseteq PartsOf(t.chunks)
      <4>1. t.sap = <<>> /\ t.csynced <= Len(t.chunks) /\ t.ssynced <= Len(t.sap)
        BY <3>2 DEF StoreOK
      <4>2. QED
        BY <3>2, <4>1, SureFacts, NoParts
    <3>8. Soon(t) \subseteq Sure(u)
      BY <3>2, <3>6, <3>7, NoParts DEF Soon
    <3>9. Better(t, u)
      <4>1. Sure(t) \subseteq Sure(u)
        BY <3>6, <3>7
      <4>2. Soon(t) \subseteq Soon(u)
        BY <3>8 DEF Soon
      <4>3. QED
        BY <3>3, <3>5, <4>1, <4>2 DEF Better, Becomes
    <3>10. Better(s, u)
      <4>1. Better(s, t)
        BY <2>2 DEF t
      <4>2. QED
        BY <3>9, <4>1, BetterIsTransitive
    <3>11. QED
      BY <3>1, <3>2, <3>8, <3>10
  <2>5. QED
    BY <2>3, <2>4
<1>3. QED
  BY <1>1, <1>2

LEMMA TickedFacts ==
    ASSUME NEW s, StoreOK(s), NEW o \in Ticked(s)
    PROVE  Better(s, o.store)
<1>1. s.wal \in BOOLEAN /\ s.open \in BOOLEAN
  BY StoreTypes DEF StoreOK
<1>2. CASE o = Fine(s) \/ o = Failed(s)
  BY <1>2, BetterIsReflexive DEF Fine, Failed
<1>3. CASE s.open /\ \E q \in Aged(s) : o = [q EXCEPT !.store = Synced(q.store)]
  <2>1. PICK q \in Aged(s) : o = [q EXCEPT !.store = Synced(q.store)]
    BY <1>3
  <2> DEFINE t == q.store
             u == Synced(t)
  <2>2. Better(s, t)
    BY <1>3, FlushFacts, BetterIsReflexive DEF Aged, Fine
  <2>3. \E w, ok, cost : q = [store |-> w, ok |-> ok, cost |-> cost]
    <3>1. \E w : q = Fine(w) \/ q = Failed(w) \/ q = [Fine(w) EXCEPT !.cost = 1]
      BY DEF Aged, FlushChunk, Meets
    <3>2. QED
      BY <3>1 DEF Fine, Failed
  <2>4. o.store = u
    BY <2>1, <2>3
  <2>5. StoreOK(t) /\ t.open
    BY <1>3, <2>2 DEF Better, Becomes, SameStore
  <2>6. Better(t, u)
    <3> HIDE DEF t
    <3>1. CASE t.wal
      BY <2>5, <3>1, SyncedFacts DEF Synced
    <3>2. CASE ~t.wal
      BY <2>5, <3>2, BetterIsReflexive DEF Synced
    <3>3. QED
      BY <3>1, <3>2
  <2> HIDE DEF u
  <2>7. Better(s, u)
    <3> HIDE DEF t
    <3>1. QED
      BY <2>2, <2>6, BetterIsTransitive DEF t
  <2>8. QED
    BY <2>4, <2>7
<1>4. QED
  BY <1>1, <1>2, <1>3 DEF Ticked, Meets

LEMMA FlushedFacts ==
    ASSUME NEW s, StoreOK(s), s.open
    PROVE  Better(s, Flushed(s).store)
<1>1. \E o \in FlushChunk(s) : o.ok /\ o.cost = 0
  <2>1. CASE s.buf = <<>>
    BY <2>1 DEF FlushChunk, Fine
  <2>2. CASE s.buf # <<>> /\ s.wal
    <3>1. Fine(LandedSynced(s)) \in FlushChunk(s)
      BY <2>2 DEF FlushChunk
    <3>2. QED
      BY <3>1 DEF Fine
  <2>3. CASE s.buf # <<>> /\ ~s.wal
    <3>1. Fine(Landed(s)) \in FlushChunk(s)
      BY <2>3 DEF FlushChunk
    <3>2. QED
      BY <3>1 DEF Fine
  <2>4. QED
    BY <2>1, <2>2, <2>3
<1>2. Flushed(s) \in FlushChunk(s)
  BY <1>1 DEF Flushed
<1>3. QED
  BY <1>2, FlushFacts

\* Retention, of a store whose segment stands.
PartsBefore(s, m) == UNION {Range(s.chunks[i].parts) : i \in 1 .. m}

LEMMA DropFacts ==
    ASSUME NEW s, StoreOK(s), NEW m \in 0 .. Len(s.chunks)
    PROVE  Becomes(s, DropHead(s, m), PartsBefore(s, m))
<1> DEFINE t == DropHead(s, m)
           gone == PartsBefore(s, m)
           rest == SubSeq(s.chunks, m + 1, Len(s.chunks))
           cut == Max({0, s.csynced - m})
<1>1. s \in StoreRecord /\ s.csynced <= Len(s.chunks) /\ s.ssynced <= Len(s.sap)
  BY DEF StoreOK
<1>2. /\ rest \in Seq(EntryRecord) /\ cut \in Nat /\ cut <= Len(rest)
      /\ PartsOf(SubSeq(s.chunks, 1, s.csynced)) \subseteq PartsOf(SubSeq(rest, 1, cut)) \cup gone
      /\ PartsOf(s.chunks) \subseteq PartsOf(rest) \cup gone
  <2>1. s.chunks \in Seq(EntryRecord) /\ Len(s.chunks) \in Nat /\ s.csynced \in Nat
    BY <1>1, StoreTypes
  <2>2. m \in Nat /\ m <= Len(s.chunks)
    BY <2>1
  <2>3. QED
    BY <1>1, <2>1, <2>2, DroppedParts DEF PartsBefore
<1>3. t = [s EXCEPT !.chunks = rest, !.csynced = cut]
  BY DEF DropHead
<1> HIDE DEF rest, cut, gone, t
<1>4. /\ t \in StoreRecord /\ SameStore(s, t) /\ t.wal = s.wal /\ t.chunks = rest /\ t.csynced = cut
      /\ t.sap = s.sap /\ t.ssynced = s.ssynced /\ t.buf = s.buf
  BY <1>1, <1>2, <1>3 DEF StoreRecord, SameStore
<1>5. StoreOK(t)
  BY <1>2, <1>4 DEF StoreOK, SameStore
<1>6. Sure(s) \subseteq Sure(t) \cup gone
  BY <1>2, <1>4 DEF Sure
<1>7. Soon(s) \subseteq Soon(t) \cup gone
  BY <1>2, <1>4, <1>6 DEF Soon, SameStore
<1>8. QED
  BY <1>4, <1>5, <1>6, <1>7 DEF Becomes, t, gone

\* A store is opened.
LEMMA EnsuredFacts ==
    ASSUME NEW s, StoreOK(s), NEW v \in Values
    PROVE  LET t == Ensured(s, v) IN
           /\ StoreOK(t) /\ t.open /\ Sure(s) \subseteq Sure(t) /\ Soon(s) \subseteq Soon(t)
           /\ s.open => t = s
           /\ ~s.open => t.there /\ t.route = v /\ t.routed = v /\ t.wal
<1>1. s \in StoreRecord
  BY DEF StoreOK
<1>2. CASE s.open
  BY <1>2 DEF Ensured
<1>3. CASE ~s.open
  <2> DEFINE t == Ensured(s, v)
  <2>1. t = [s EXCEPT !.open = TRUE, !.buf = s.sap, !.wal = TRUE, !.there = TRUE, !.route = v,
                      !.routed = v]
    BY <1>1, <1>3 DEF Ensured, Replayed, StoreRecord
  <2> HIDE DEF t
  <2>2. /\ t \in StoreRecord /\ t.open /\ t.there /\ t.route = v /\ t.routed = v /\ t.wal
        /\ t.chunks = s.chunks /\ t.csynced = s.csynced /\ t.sap = s.sap /\ t.ssynced = s.ssynced
        /\ t.buf = s.sap
    BY <1>1, <2>1 DEF StoreRecord
  <2>3. StoreOK(t)
    BY <2>2 DEF StoreOK
  <2>4. Sure(t) = Sure(s)
    BY <2>2 DEF Sure
  <2>5. Soon(s) \subseteq Soon(t)
    BY <1>3, <2>4 DEF Soon
  <2>6. QED
    BY <1>3, <2>2, <2>3, <2>4, <2>5 DEF t
<1>4. s.open \in BOOLEAN
  BY <1>1, StoreTypes
<1>5. QED
  BY <1>2, <1>3, <1>4

\* The process ends, with some of what is not synced, and with all that is.
GoneTo(s, p) ==
    [s EXCEPT !.chunks = SubSeq(@, 1, p[1]), !.sap = SubSeq(@, 1, p[2]),
              !.open = FALSE, !.routed = None, !.buf = <<>>, !.wal = FALSE]

LEMMA GoneFacts ==
    ASSUME NEW s, StoreOK(s), NEW p, p \in (s.csynced .. Len(s.chunks)) \X (s.ssynced .. Len(s.sap)),
           NEW t, t = GoneTo(s, p)
    PROVE  StoreOK(t) /\ ~t.open /\ t.there = s.there /\ t.route = s.route /\ Sure(s) \subseteq Sure(t)
<1> DEFINE m == p[1]
           n == p[2]
           c == SubSeq(s.chunks, 1, m)
           a == SubSeq(s.sap, 1, n)
<1>1. /\ s \in StoreRecord /\ s.csynced <= Len(s.chunks) /\ s.ssynced <= Len(s.sap)
  BY DEF StoreOK
<1>2. /\ s.chunks \in Seq(EntryRecord) /\ s.sap \in Seq(EntryRecord)
      /\ s.csynced \in Nat /\ s.ssynced \in Nat /\ Len(s.chunks) \in Nat /\ Len(s.sap) \in Nat
  BY <1>1, StoreTypes
<1>3. /\ m \in Nat /\ s.csynced <= m /\ m <= Len(s.chunks) /\ m \in 0 .. Len(s.chunks)
      /\ n \in Nat /\ s.ssynced <= n /\ n <= Len(s.sap) /\ n \in 0 .. Len(s.sap)
  <2>1. m \in s.csynced .. Len(s.chunks) /\ n \in s.ssynced .. Len(s.sap)
    OBVIOUS
  <2> HIDE DEF m, n
  <2>2. QED
    BY <1>2, <2>1
<1>4. t = [s EXCEPT !.chunks = c, !.sap = a, !.open = FALSE, !.routed = None, !.buf = <<>>, !.wal = FALSE]
  BY DEF GoneTo
<1> HIDE DEF m, n
<1>5. /\ c \in Seq(EntryRecord) /\ Len(c) = m /\ a \in Seq(EntryRecord) /\ Len(a) = n
      /\ <<>> \in Seq(EntryRecord)
  BY <1>2, <1>3, PrefixIsSeq, EmptySeq
<1>6. SubSeq(c, 1, s.csynced) = SubSeq(s.chunks, 1, s.csynced)
      /\ SubSeq(a, 1, s.ssynced) = SubSeq(s.sap, 1, s.ssynced)
  <2>1. s.csynced \in 0 .. m /\ s.ssynced \in 0 .. n
    BY <1>2, <1>3
  <2>2. QED
    BY <1>2, <1>3, <2>1, PrefixOfPrefix
<1> HIDE DEF c, a
<1>7. /\ t \in StoreRecord /\ t.chunks = c /\ t.sap = a /\ ~t.open /\ t.buf = <<>> /\ ~t.wal
      /\ t.csynced = s.csynced /\ t.ssynced = s.ssynced /\ t.there = s.there /\ t.route = s.route
  BY <1>1, <1>4, <1>5 DEF StoreRecord
<1>8. StoreOK(t)
  BY <1>3, <1>5, <1>7 DEF StoreOK
<1>9. Sure(s) \subseteq Sure(t)
  BY <1>6, <1>7 DEF Sure
<1>10. QED
  BY <1>7, <1>8, <1>9

------------------------------------------------------------------------------
\* Where the parts of a message are to be: every one in its store's set.
PlacesIn(e, c, i) ==
    LET bs == e.script[c][i].batches
    IN  UNION {{<<c, i, b, j>> : j \in 1 .. Len(bs[b].entries)} : b \in 1 .. Len(bs)}
Where(e, c, i, p) == StoreOf[e.script[c][i].batches[p[3]].value]
MsgIn(e, c, i, F) == \A p \in PlacesIn(e, c, i) : p \in F[Where(e, c, i, p)]

SafeIn == [n \in Names |-> dropped \cup Sure(store[n])]
ComingIn == [n \in Names |-> dropped \cup Soon(store[n])]

\* Whether a store may be there at all, and the values that name it.
CanBe(e, n) == e.autoCreate \/ n \in e.exists \cup e.later
Routes(e, n) ==
    {v \in Values : \E c \in Clients : \E i \in DOMAIN e.script[c] :
        Reads(e, c, i) /\ StoreFrom(e, c, i) = n /\ BatchOf(e, c, i).value = v}

GoodStore(e, n, s) ==
    /\ StoreOK(s)
    /\ n \in e.exists => s.there
    /\ s.there \/ s.open => CanBe(e, n)
    /\ s.open => s.wal \/ "segment" \in e.troubles
    /\ e.protocol = "forward" =>
          /\ s.route \in {None} \cup Routes(e, n)
          /\ s.open => s.routed \in Routes(e, n)

\* Of a message that is fed, up to m: stored, or held for a last part that is to come.
Due(e, c, i, j, m, ps) ==
    LET es == BatchOf(e, c, i).entries IN
    /\ es[j].part # NoPart /\ <<c, i, 1, j>> \in Range(ps[es[j].part])
    /\ \E l \in DOMAIN es : l >= m /\ es[l].part = es[j].part /\ es[l].last
FedSoFar(e, c, i, m, ps, F) ==
    \A j \in DOMAIN BatchOf(e, c, i).entries :
        j < m => <<c, i, 1, j>> \in F[StoreFrom(e, c, i)] \/ Due(e, c, i, j, m, ps)

------------------------------------------------------------------------------
\* The inductive invariant.
AckRecord == [conn : Conns, about : Nat]
ThreadStates ==
    {None, "reads", "ends", "feeds", "pushes", "drains", "sends", "ensures", "appends", "syncs"}

Controls ==
    /\ env \in Environments
    /\ todo \in [Clients -> Nat \ {0}]
    /\ conn \in [Clients -> Conns \cup {NoConn}]
    /\ \A c \in Clients : conn[c] # NoConn => conn[c][1] = c
    /\ inbox \in [Conns -> Seq(Nat)]
    /\ \A k \in Conns : \A i \in Range(inbox[k]) : i \in DOMAIN env.script[k[1]]
    /\ tpc \in [Conns -> ThreadStates] /\ msg \in [Conns -> Nat] /\ at \in [Conns -> Nat]
    /\ partials \in [Conns -> [PartialIds -> Seq(Position)]]
    /\ sending \in [Conns \cup {Tick} -> Seq(AckRecord)]
    /\ pending \in [Names -> Seq(AckRecord)]

InHand ==
    \A k \in Conns :
        /\ tpc[k] \in {"feeds", "pushes", "drains"} => Forward /\ Reads(env, k[1], msg[k])
        /\ tpc[k] \in {"ensures", "appends", "syncs"} => ~Forward /\ Reads(env, k[1], msg[k])
        /\ tpc[k] = "feeds" => at[k] \in DOMAIN BatchOf(env, k[1], msg[k]).entries
        /\ tpc[k] = "pushes" => Message(k).chunk
        /\ tpc[k] \in {"ensures", "appends"} => at[k] = 1
        /\ tpc[k] = "syncs" => at[k] \in DOMAIN Message(k).batches

Stores ==
    /\ store \in [Names -> StoreRecord] /\ \A n \in Names : GoodStore(env, n, store[n])
    /\ taken \subseteq env.taken
    /\ \A n \in Names : <<"policy", n>> \in left => store[n].open

\* What is promised: of what was acknowledged, of acknowledgements taken, and of those owed.
Promised ==
    /\ \A a \in acked :
          a[1] \in Clients /\ a[2] \in DOMAIN env.script[a[1]] /\ MsgIn(env, a[1], a[2], SafeIn)
    /\ \A t \in Conns \cup {Tick} : \A a \in Range(sending[t]) :
          Reads(env, a.conn[1], a.about) /\ MsgIn(env, a.conn[1], a.about, SafeIn)
    /\ \A n \in Names : \A a \in Range(pending[n]) :
          /\ store[n].open /\ Forward /\ Reads(env, a.conn[1], a.about)
          /\ StoreFrom(env, a.conn[1], a.about) = n /\ MsgIn(env, a.conn[1], a.about, ComingIn)

\* A Forward thread's message, for a store that is never refused; and one for a store that
\* is late, from when that is open.
Fated(k) ==
    LET n == StoreFrom(env, k[1], msg[k]) IN
    tpc[k] \in {"feeds", "pushes"} /\ Message(k).chunk /\ n \notin Late(env) /\ CanBe(env, n) =>
        /\ tpc[k] = "feeds" => FedSoFar(env, k[1], msg[k], at[k], partials[k], ComingIn)
        /\ tpc[k] = "pushes" => MsgIn(env, k[1], msg[k], ComingIn)
LateHeld ==
    Forward =>
        \A c \in Clients : \A i \in DOMAIN env.script[c] :
            Reads(env, c, i) /\ StoreFrom(env, c, i) \in Late(env) /\ store[StoreFrom(env, c, i)].open
                => MsgIn(env, c, i, ComingIn)
\* A request's stores are open from when they are ensured; what was appended is coming, and
\* of the batches synced it is safe.
RequestKept(k) ==
    LET bs == Message(k).batches IN
    /\ tpc[k] \in {"appends", "syncs"} => \A b \in DOMAIN bs : store[StoreOf[bs[b].value]].open
    /\ tpc[k] = "syncs" =>
          /\ MsgIn(env, k[1], msg[k], ComingIn)
          /\ \A p \in PlacesIn(env, k[1], msg[k]) :
                p[3] < at[k] => p \in SafeIn[Where(env, k[1], msg[k], p)]
Threads ==
    /\ LateHeld
    /\ \A k \in Conns : Fated(k) /\ RequestKept(k)

TapsOff == tap = Per("off") /\ watch = "lists" /\ events = <<>>
Quiet ==
    /\ env \in Environments /\ todo = [c \in Clients |-> 1] /\ conn = [c \in Clients |-> NoConn]
    /\ tpc = [k \in Conns |-> None] /\ sending = [t \in Conns \cup {Tick} |-> <<>>]
    /\ acked = {}
IntakeInv == Controls /\ InHand /\ Stores /\ Promised /\ Threads /\ TapsOff
Inv == env \in Environments /\ IF Console THEN Quiet ELSE IntakeInv

------------------------------------------------------------------------------
\* Environments, their messages and the stores those are for.
LEMMA EnvironmentOf ==
    ASSUME NEW e \in Environments
    PROVE  Environment(e) /\ StoreOf \in [Values -> Names] /\ None \notin Values
BY IntakeAssumption DEF None

LEMMA MessageFacts ==
    ASSUME NEW e \in Environments, NEW c \in Clients, NEW i \in DOMAIN e.script[c]
    PROVE  /\ e.script[c] \in Seq(MessageForm) /\ i \in Nat \ {0} /\ i <= Len(e.script[c])
           /\ e.script[c][i].batches \in Seq(BatchForm) /\ e.script[c][i].batches # <<>>
           /\ e.script[c][i].chunk \in BOOLEAN
           /\ 1 \in DOMAIN e.script[c][i].batches
           /\ \A b \in DOMAIN e.script[c][i].batches :
                 /\ b \in Nat \ {0}
                 /\ e.script[c][i].batches[b].value \in Values
                 /\ StoreOf[e.script[c][i].batches[b].value] \in Names
                 /\ e.script[c][i].batches[b].entries \in Seq(EntryForm)
                 /\ e.script[c][i].batches[b].entries # <<>>
           /\ e.protocol = "forward" => DOMAIN e.script[c][i].batches = {1}
<1>1. e.script[c] \in Seq(MessageForm)
  BY EnvironmentOf DEF Environment
<1>2. Len(e.script[c]) \in Nat /\ DOMAIN e.script[c] = 1 .. Len(e.script[c])
      /\ e.script[c][i] \in MessageForm
  BY <1>1, SeqElements
<1> DEFINE bs == e.script[c][i].batches
<1>3. bs \in Seq(BatchForm) \ {<<>>} /\ e.script[c][i].chunk \in BOOLEAN
  BY <1>2 DEF MessageForm
<1>4. e.protocol = "forward" => Len(bs) = 1
  BY EnvironmentOf DEF Environment
<1> HIDE DEF bs
<1>5. Len(bs) \in Nat /\ DOMAIN bs = 1 .. Len(bs) /\ Len(bs) # 0 /\ \A b \in 1 .. Len(bs) : bs[b] \in BatchForm
  BY <1>3, SeqElements
<1>6. ASSUME NEW b \in DOMAIN bs
      PROVE  /\ b \in Nat \ {0} /\ bs[b].value \in Values /\ StoreOf[bs[b].value] \in Names
             /\ bs[b].entries \in Seq(EntryForm) /\ bs[b].entries # <<>>
  <2>1. b \in Nat \ {0} /\ bs[b] \in BatchForm
    BY <1>5
  <2>2. bs[b].value \in Values /\ bs[b].entries \in Seq(EntryForm) \ {<<>>}
    BY <2>1 DEF BatchForm
  <2>3. QED
    BY <2>1, <2>2, EnvironmentOf
<1>7. i \in Nat \ {0} /\ i <= Len(e.script[c]) /\ 1 \in DOMAIN bs
  BY <1>2, <1>5
<1>8. e.protocol = "forward" => DOMAIN bs = {1}
  BY <1>4, <1>5
<1>9. QED
  BY <1>1, <1>3, <1>6, <1>7, <1>8 DEF bs

LEMMA PlaceFacts ==
    ASSUME NEW e \in Environments, NEW c \in Clients, NEW i \in DOMAIN e.script[c]
    PROVE  \A p \in PlacesIn(e, c, i) :
              /\ p \in Position /\ p[3] \in DOMAIN e.script[c][i].batches
              /\ p[4] \in DOMAIN e.script[c][i].batches[p[3]].entries
              /\ p = <<c, i, p[3], p[4]>>
              /\ Where(e, c, i, p) \in Names
              /\ e.protocol = "forward" => p[3] = 1 /\ Where(e, c, i, p) = StoreFrom(e, c, i)
<1> DEFINE bs == e.script[c][i].batches
<1>1. TAKE p \in PlacesIn(e, c, i)
<1>2. /\ bs \in Seq(BatchForm) /\ i \in Nat
      /\ \A b \in DOMAIN bs : b \in Nat /\ StoreOf[bs[b].value] \in Names /\ bs[b].entries \in Seq(EntryForm)
      /\ e.protocol = "forward" => DOMAIN bs = {1}
  BY MessageFacts
<1>3. PICK b \in 1 .. Len(bs) : \E j \in 1 .. Len(bs[b].entries) : p = <<c, i, b, j>>
  BY DEF PlacesIn
<1>4. PICK j \in 1 .. Len(bs[b].entries) : p = <<c, i, b, j>>
  BY <1>3
<1>5. b \in DOMAIN bs
  BY <1>2, SeqElements
<1>6. j \in DOMAIN bs[b].entries /\ j \in Nat
  BY <1>2, <1>5, SeqElements
<1>7. p[3] = b /\ p[4] = j /\ p \in Position
  BY <1>2, <1>4, <1>5, <1>6 DEF Position
<1>8. Where(e, c, i, p) = StoreOf[bs[b].value]
  BY <1>7 DEF Where
<1>9. e.protocol = "forward" => b = 1 /\ StoreOf[bs[b].value] = StoreFrom(e, c, i)
  BY <1>2, <1>5 DEF StoreFrom, BatchOf
<1>10. QED
  BY <1>2, <1>4, <1>5, <1>6, <1>7, <1>8, <1>9

LEMMA MsgGrows ==
    ASSUME NEW e \in Environments, NEW c \in Clients, NEW i \in DOMAIN e.script[c],
           NEW F, NEW G, \A n \in Names : F[n] \subseteq G[n], MsgIn(e, c, i, F)
    PROVE  MsgIn(e, c, i, G)
BY PlaceFacts DEF MsgIn

------------------------------------------------------------------------------
\* Stores that stay as they should be.
LEMMA GoodBecomes ==
    ASSUME NEW n \in Names, NEW s, GoodStore(env, n, s), NEW t, NEW gone, Becomes(s, t, gone)
    PROVE  GoodStore(env, n, t) /\ t.open = s.open
BY DEF GoodStore, Becomes, SameStore

LEMMA GoodEnsured ==
    ASSUME NEW n \in Names, NEW s, GoodStore(env, n, s), NEW v \in Values,
           ~s.open => s.there \/ env.autoCreate,
           env.protocol = "forward" => v \in Routes(env, n)
    PROVE  GoodStore(env, n, Ensured(s, v))
<1> DEFINE t == Ensured(s, v)
<1>1. /\ StoreOK(t) /\ t.open
      /\ s.open => t = s
      /\ ~s.open => t.there /\ t.route = v /\ t.routed = v /\ t.wal
  BY EnsuredFacts DEF GoodStore
<1> HIDE DEF t
<1>2. CASE s.open
  BY <1>1, <1>2 DEF t
<1>3. CASE ~s.open
  BY <1>1, <1>3 DEF GoodStore, CanBe, t
<1>4. QED
  BY <1>2, <1>3

LEMMA GoodDeclared ==
    ASSUME NEW n \in Names, NEW s, GoodStore(env, n, s), n \in env.later,
           NEW t, t = [s EXCEPT !.there = TRUE]
    PROVE  GoodStore(env, n, t) /\ t.open = s.open /\ Sure(t) = Sure(s) /\ Soon(t) = Soon(s)
<1>1. s \in StoreRecord
  BY DEF GoodStore, StoreOK
<1>2. /\ t \in StoreRecord /\ t.there /\ t.open = s.open /\ t.route = s.route /\ t.routed = s.routed
      /\ t.chunks = s.chunks /\ t.csynced = s.csynced /\ t.sap = s.sap /\ t.ssynced = s.ssynced
      /\ t.buf = s.buf /\ t.wal = s.wal
  BY <1>1 DEF StoreRecord
<1>3. StoreOK(t)
  BY <1>2 DEF GoodStore, StoreOK
<1>4. Sure(t) = Sure(s) /\ Soon(t) = Soon(s)
  BY <1>2 DEF Sure, Soon
<1>5. QED
  BY <1>2, <1>3, <1>4 DEF GoodStore, CanBe

LEMMA GoodGone ==
    ASSUME NEW n \in Names, NEW s, GoodStore(env, n, s), NEW t, StoreOK(t), ~t.open,
           t.there = s.there, t.route = s.route
    PROVE  GoodStore(env, n, t)
BY DEF GoodStore

\* What the next state makes of what was safe, and what was coming.
Grows ==
    \A n \in Names : /\ SafeIn[n] \subseteq SafeIn'[n] /\ ComingIn[n] \subseteq ComingIn'[n]
                     /\ store[n].open => store'[n].open

LEMMA InAt ==
    ASSUME NEW n \in Names
    PROVE  /\ SafeIn[n] = dropped \cup Sure(store[n]) /\ ComingIn[n] = dropped \cup Soon(store[n])
           /\ SafeIn'[n] = dropped' \cup Sure(store'[n]) /\ ComingIn'[n] = dropped' \cup Soon(store'[n])
BY DEF SafeIn, ComingIn

LEMMA BecomesGrows ==
    ASSUME NEW gone, dropped' = dropped \cup gone,
           \A n \in Names : Becomes(store[n], store'[n], gone)
    PROVE  Grows
BY InAt DEF Grows, Becomes, SameStore

LEMMA SameGrows ==
    ASSUME dropped' = dropped, store' = store
    PROVE  Grows
BY InAt DEF Grows

\* The step of one store alone.
LEMMA OneStoreGrows ==
    ASSUME Stores, NEW n \in Names, NEW t, store' = [store EXCEPT ![n] = t],
           NEW gone, dropped' = dropped \cup gone, Becomes(store[n], t, gone)
    PROVE  /\ Grows /\ store' \in [Names -> StoreRecord]
           /\ \A m \in Names : GoodStore(env, m, store'[m]) /\ store'[m].open = store[m].open
<1>1. store \in [Names -> StoreRecord] /\ \A m \in Names : GoodStore(env, m, store[m])
  BY DEF Stores
<1>2. t \in StoreRecord
  BY DEF Becomes, StoreOK
<1>3. store' \in [Names -> StoreRecord] /\ \A m \in Names : store'[m] = IF m = n THEN t ELSE store[m]
  BY <1>1, <1>2
<1>4. \A m \in Names : Becomes(store[m], store'[m], gone)
  <2>1. TAKE m \in Names
  <2>2. Becomes(store[m], store[m], gone)
    BY <1>1 DEF GoodStore, Becomes, SameStore
  <2>3. QED
    BY <1>3, <2>2
<1>5. QED
  BY <1>1, <1>3, <1>4, BecomesGrows, GoodBecomes

------------------------------------------------------------------------------
\* What PartialReassembler makes of an entry, and of a message that closes what it splits.
LEMMA FedFacts ==
    ASSUME NEW ps \in [PartialIds -> Seq(Position)], NEW e \in EntryForm, NEW place \in Position
    PROVE  LET f == Fed(ps, e, place) IN
           /\ f.out \in Seq(Position) /\ f.parts \in [PartialIds -> Seq(Position)]
           /\ f.out # <<>> => place \in Range(f.out)
           /\ \A i \in PartialIds : Range(ps[i]) \subseteq Range(f.parts[i]) \cup Range(f.out)
           /\ e.part # NoPart /\ e.last => Range(ps[e.part]) \subseteq Range(f.out)
           /\ \/ place \in Range(f.out)
              \/ e.part # NoPart /\ ~e.last /\ place \in Range(f.parts[e.part])
<1> DEFINE f == Fed(ps, e, place)
           i == e.part
           parts == Append(ps[i], place)
<1>1. <<place>> \in Seq(Position) /\ Range(<<place>>) = {place} /\ <<>> \in Seq(Position) /\ Range(<<>>) = {}
  BY OneElement
<1>2. CASE i = NoPart
  <2>1. f = [out |-> <<place>>, parts |-> ps]
    BY <1>2 DEF Fed
  <2> HIDE DEF f
  <2>2. QED
    BY <1>1, <1>2, <2>1 DEF f
<1>3. CASE i # NoPart /\ ps[i] = <<>> /\ Outstanding(ps) >= PartialRoom
  <2>1. f = [out |-> <<place>>, parts |-> ps]
    BY <1>3 DEF Fed
  <2> HIDE DEF f
  <2>2. QED
    BY <1>1, <1>3, <2>1 DEF f
<1>4. CASE i # NoPart /\ ~(ps[i] = <<>> /\ Outstanding(ps) >= PartialRoom)
  <2>1. i \in PartialIds
    BY <1>4 DEF EntryForm
  <2>2. parts \in Seq(Position) /\ Range(parts) = Range(ps[i]) \cup {place}
    <3>1. ps[i] \in Seq(Position)
      BY <2>1
    <3>2. QED
      BY <3>1, AppendIsSeq, AppendRange
  <2>3. f = IF e.last \/ Len(parts) > PartialMax
            THEN [out |-> parts, parts |-> [ps EXCEPT ![i] = <<>>]]
            ELSE [out |-> <<>>, parts |-> [ps EXCEPT ![i] = parts]]
    BY <1>4 DEF Fed
  <2> HIDE DEF f, parts
  <2>4. CASE e.last \/ Len(parts) > PartialMax
    BY <1>1, <1>4, <2>1, <2>2, <2>3, <2>4 DEF f
  <2>5. CASE ~(e.last \/ Len(parts) > PartialMax)
    BY <1>1, <1>4, <2>1, <2>2, <2>3, <2>5 DEF f
  <2>6. QED
    BY <2>4, <2>5
<1>5. QED
  BY <1>2, <1>3, <1>4

LEMMA FedOne ==
    ASSUME NEW e \in Environments, SplitsClose(e), NEW c \in Clients, NEW i \in DOMAIN e.script[c],
           Reads(e, c, i), e.script[c][i].chunk,
           NEW m \in DOMAIN BatchOf(e, c, i).entries,
           NEW ps \in [PartialIds -> Seq(Position)], NEW F, NEW G,
           F[StoreFrom(e, c, i)] \subseteq G[StoreFrom(e, c, i)],
           FedSoFar(e, c, i, m, ps, F),
           Range(Fed(ps, BatchOf(e, c, i).entries[m], <<c, i, 1, m>>).out) \subseteq G[StoreFrom(e, c, i)]
    PROVE  FedSoFar(e, c, i, m + 1, Fed(ps, BatchOf(e, c, i).entries[m], <<c, i, 1, m>>).parts, G)
<1> DEFINE es == BatchOf(e, c, i).entries
           f == Fed(ps, es[m], <<c, i, 1, m>>)
           n == StoreFrom(e, c, i)
<1>1. es \in Seq(EntryForm) /\ i \in Nat
  BY MessageFacts DEF BatchOf
<1>2. DOMAIN es = 1 .. Len(es) /\ Len(es) \in Nat /\ \A l \in 1 .. Len(es) : es[l] \in EntryForm
  BY <1>1, SeqElements
<1>3. m \in Nat /\ \A l \in DOMAIN es : l \in Nat /\ es[l].part \in {NoPart} \cup PartialIds
  BY <1>2 DEF EntryForm
<1>4. <<c, i, 1, m>> \in Position /\ es[m] \in EntryForm
  BY <1>1, <1>2, <1>3 DEF Position
<1>5. /\ \A r \in PartialIds : Range(ps[r]) \subseteq Range(f.parts[r]) \cup Range(f.out)
      /\ es[m].part # NoPart /\ es[m].last => Range(ps[es[m].part]) \subseteq Range(f.out)
      /\ \/ <<c, i, 1, m>> \in Range(f.out)
         \/ es[m].part # NoPart /\ ~es[m].last /\ <<c, i, 1, m>> \in Range(f.parts[es[m].part])
  BY <1>4, FedFacts
<1>6. \A j \in DOMAIN es : es[j].part # NoPart =>
        \E l \in DOMAIN es : l >= j /\ es[l].part = es[j].part /\ es[l].last
  BY DEF SplitsClose
<1>7. \A j \in DOMAIN es : j < m => <<c, i, 1, j>> \in F[n] \/ Due(e, c, i, j, m, ps)
  BY DEF FedSoFar
<1>8. Range(f.out) \subseteq G[n] /\ F[n] \subseteq G[n]
  OBVIOUS
<1> HIDE DEF f, n
<1>9. ASSUME NEW j \in DOMAIN es, j < m + 1
      PROVE  <<c, i, 1, j>> \in G[n] \/ Due(e, c, i, j, m + 1, f.parts)
  <2>1. CASE j = m
    <3>1. CASE <<c, i, 1, m>> \in Range(f.out)
      BY <1>8, <2>1, <3>1
    <3>2. CASE es[m].part # NoPart /\ ~es[m].last /\ <<c, i, 1, m>> \in Range(f.parts[es[m].part])
      <4>1. PICK l \in DOMAIN es : l >= m /\ es[l].part = es[m].part /\ es[l].last
        BY <1>6, <3>2
      <4>2. l >= m + 1
        BY <1>3, <3>2, <4>1
      <4>3. QED
        BY <2>1, <3>2, <4>1, <4>2 DEF Due
    <3>3. QED
      BY <1>5, <3>1, <3>2
  <2>2. CASE j < m /\ <<c, i, 1, j>> \in F[n]
    BY <1>8, <2>2
  <2>3. CASE j < m /\ Due(e, c, i, j, m, ps)
    <3>1. /\ es[j].part # NoPart /\ <<c, i, 1, j>> \in Range(ps[es[j].part])
          /\ \E l \in DOMAIN es : l >= m /\ es[l].part = es[j].part /\ es[l].last
      BY <2>3 DEF Due
    <3>2. PICK l \in DOMAIN es : l >= m /\ es[l].part = es[j].part /\ es[l].last
      BY <3>1
    <3>3. CASE l = m
      BY <1>5, <1>8, <3>1, <3>2, <3>3
    <3>4. CASE l # m
      <4>1. l >= m + 1
        BY <1>3, <3>2, <3>4
      <4>2. <<c, i, 1, j>> \in Range(f.parts[es[j].part]) \cup Range(f.out)
        BY <1>3, <1>5, <3>1
      <4>3. QED
        BY <1>8, <3>1, <3>2, <4>1, <4>2 DEF Due
    <3>5. QED
      BY <3>3, <3>4
  <2>4. j < m \/ j = m
    BY <1>3, <1>9
  <2>5. QED
    BY <1>7, <2>1, <2>2, <2>3, <2>4
<1>10. QED
  BY <1>9 DEF FedSoFar, f, n

LEMMA FedNone ==
    ASSUME NEW e \in Environments, NEW c \in Clients, NEW i \in DOMAIN e.script[c], NEW ps, NEW F
    PROVE  FedSoFar(e, c, i, 1, ps, F)
<1>1. BatchOf(e, c, i).entries \in Seq(EntryForm)
  BY MessageFacts DEF BatchOf
<1>2. \A j \in DOMAIN BatchOf(e, c, i).entries : ~(j < 1)
  BY <1>1, SeqElements
<1>3. QED
  BY <1>2 DEF FedSoFar

LEMMA FedAll ==
    ASSUME NEW e \in Environments, e.protocol = "forward", NEW c \in Clients,
           NEW i \in DOMAIN e.script[c], NEW ps, NEW F,
           FedSoFar(e, c, i, Len(BatchOf(e, c, i).entries) + 1, ps, F)
    PROVE  MsgIn(e, c, i, F)
<1> DEFINE es == BatchOf(e, c, i).entries
<1>1. es \in Seq(EntryForm)
  BY MessageFacts DEF BatchOf
<1>2. DOMAIN es = 1 .. Len(es) /\ Len(es) \in Nat
  BY <1>1, SeqElements
<1>3. \A j \in DOMAIN es : j < Len(es) + 1 /\ ~(j >= Len(es) + 1)
  BY <1>2
<1>4. \A j \in DOMAIN es : <<c, i, 1, j>> \in F[StoreFrom(e, c, i)]
  BY <1>3 DEF FedSoFar, Due
<1> USE DEF MsgIn
<1>5. TAKE p \in PlacesIn(e, c, i)
<1>6. p = <<c, i, 1, p[4]>> /\ p[4] \in DOMAIN es /\ Where(e, c, i, p) = StoreFrom(e, c, i)
  BY PlaceFacts DEF BatchOf
<1>7. QED
  BY <1>4, <1>6

------------------------------------------------------------------------------
\* The acknowledgements that are left, of those a store owes.
LEMMA WithoutFacts ==
    ASSUME NEW acks \in Seq(AckRecord), NEW k
    PROVE  Without(acks, k) \in Seq(AckRecord) /\ Range(Without(acks, k)) \subseteq Range(acks)
<1> DEFINE n == Len(acks)
           S == {s \in Seq(AckRecord) : Range(s) \subseteq Range(acks)}
           D == [p \in S \X (1 .. n) |-> IF acks[p[2]].conn = k THEN p[1] ELSE Append(p[1], acks[p[2]])]
           Is(f) == f = [t \in SUBSET (1 .. n) |->
                           IF t = {} THEN <<>>
                           ELSE IF acks[Max(t)].conn = k THEN f[t \ {Max(t)}]
                                ELSE Append(f[t \ {Max(t)}], acks[Max(t)])]
<1>1. n \in Nat /\ DOMAIN acks = 1 .. n /\ \A i \in 1 .. n : acks[i] \in AckRecord /\ acks[i] \in Range(acks)
  BY SeqElements DEF Range
<1>2. Without(acks, k) = (CHOOSE f : Is(f))[1 .. n]
  BY <1>1 DEF Without, FoldLeft, MapThenFoldSet
<1>3. <<>> \in S
  BY EmptySeq DEF Range
<1>4. D \in [S \X (1 .. n) -> S]
  <2>1. ASSUME NEW s \in S, NEW i \in 1 .. n PROVE Append(s, acks[i]) \in S
    BY <1>1, AppendIsSeq, AppendRange
  <2> HIDE DEF S
  <2>2. QED
    BY <2>1
<1> HIDE DEF n, S
<1>5. IsStep(D, n, S)
  BY <1>4 DEF IsStep
<1>6. \A s \in S, i \in 1 .. n : D[<<s, i>>] = IF acks[i].conn = k THEN s ELSE Append(s, acks[i])
  OBVIOUS
<1> HIDE DEF D
<1>7. \E f : Is(f)
  <2>1. PICK g : g \in [SUBSET (1 .. n) -> S] /\ IsFold(g, n, S, <<>>, D)
    BY <1>1, <1>3, <1>5, FoldExists
  <2>2. ASSUME NEW t \in SUBSET (1 .. n)
        PROVE  g[t] = IF t = {} THEN <<>>
                      ELSE IF acks[Max(t)].conn = k THEN g[t \ {Max(t)}]
                           ELSE Append(g[t \ {Max(t)}], acks[Max(t)])
    <3>1. CASE t = {}
      BY <2>1, <3>1 DEF IsFold
    <3>2. CASE t # {}
      <4>1. t \ {Max(t)} \in SUBSET (1 .. n) /\ g[t \ {Max(t)}] \in S /\ Max(t) \in 1 .. n
        BY <1>1, <2>1, <3>2, GreatestOf
      <4>2. g[t] = D[<<g[t \ {Max(t)}], Max(t)>>]
        BY <2>1, <3>2, <4>1 DEF IsFold
      <4>3. QED
        BY <1>6, <3>2, <4>1, <4>2
    <3>3. QED
      BY <3>1, <3>2
  <2>3. Is(g)
    BY <2>1, <2>2
  <2> HIDE DEF Is
  <2>4. QED
    BY <2>3
<1>8. PICK f : Is(f) /\ Without(acks, k) = f[1 .. n]
  <2> HIDE DEF Is
  <2>1. QED
    BY <1>2, <1>7
<1>9. IsFold(f, n, S, <<>>, D)
  <2>1. f[{}] = <<>>
    BY <1>8
  <2>2. ASSUME NEW t \in SUBSET (1 .. n), t # {}, f[t \ {Max(t)}] \in S
        PROVE  f[t] = D[<<f[t \ {Max(t)}], Max(t)>>]
    <3>1. Max(t) \in 1 .. n
      BY <1>1, <2>2, GreatestOf
    <3>2. f[t] = IF acks[Max(t)].conn = k THEN f[t \ {Max(t)}] ELSE Append(f[t \ {Max(t)}], acks[Max(t)])
      BY <1>8, <2>2
    <3>3. QED
      BY <1>6, <2>2, <3>1, <3>2
  <2>3. QED
    BY <2>1, <2>2 DEF IsFold
<1>10. PICK h : IsChain(h, n, S, <<>>, D) /\ h[n] = f[1 .. n]
  BY <1>1, <1>3, <1>5, <1>9, FoldChain
<1>11. Without(acks, k) \in S
  <2>1. n \in 0 .. n
    BY <1>1
  <2>2. h[n] \in S
    BY <1>10, <2>1 DEF IsChain
  <2>3. QED
    BY <1>8, <1>10, <2>2
<1>12. QED
  BY <1>11 DEF S

------------------------------------------------------------------------------
\* What is there from the start.
LEMMA InitControls ==
    ASSUME Init
    PROVE  Controls /\ InHand
<1>1. Controls
  <2>1. /\ todo \in [Clients -> Nat \ {0}] /\ conn \in [Clients -> Conns \cup {NoConn}]
        /\ \A c \in Clients : conn[c] = NoConn
        /\ tpc \in [Conns -> ThreadStates] /\ msg \in [Conns -> Nat] /\ at \in [Conns -> Nat]
    BY DEF Init, ThreadStates
  <2>2. inbox \in [Conns -> Seq(Nat)] /\ \A k \in Conns : Range(inbox[k]) = {}
    BY EmptySeq DEF Init, Range
  <2>3. /\ partials \in [Conns -> [PartialIds -> Seq(Position)]]
        /\ sending \in [Conns \cup {Tick} -> Seq(AckRecord)]
        /\ pending \in [Names -> Seq(AckRecord)]
    BY EmptySeq DEF Init, NoPartials
  <2>4. env \in Environments
    BY DEF Init
  <2>5. QED
    BY <2>1, <2>2, <2>3, <2>4 DEF Controls
<1>2. InHand
  <2>1. \A k \in Conns : tpc[k] = None
    BY DEF Init
  <2>2. QED
    BY <2>1 DEF InHand, None
<1>3. QED
  BY <1>1, <1>2

LEMMA InitStores ==
    ASSUME Init
    PROVE  Stores
<1>1. env \in Environments /\ Environment(env) /\ taken = env.taken /\ left = {}
  BY EnvironmentOf DEF Init
<1>2. store = [n \in Names |-> [Absent EXCEPT !.there = n \in env.exists]]
  BY DEF Init
<1>3. ASSUME NEW n \in Names
      PROVE  store[n] \in StoreRecord /\ GoodStore(env, n, store[n])
  <2> DEFINE b == n \in env.exists
             s == [Absent EXCEPT !.there = b]
  <2>1. store[n] = s /\ b \in BOOLEAN
    BY <1>2
  <2> HIDE DEF b
  <2>2. /\ s \in StoreRecord /\ s.csynced = 0 /\ s.ssynced = 0 /\ s.chunks = <<>> /\ s.sap = <<>>
        /\ ~s.open /\ s.buf = <<>> /\ ~s.wal /\ s.route = None /\ s.there = b
    <3>1. <<>> \in Seq(EntryRecord) /\ 0 \in Nat
      BY EmptySeq
    <3>2. Absent = [there |-> FALSE, route |-> None, chunks |-> <<>>, csynced |-> 0, sap |-> <<>>,
                    ssynced |-> 0, open |-> FALSE, routed |-> None, buf |-> <<>>, wal |-> FALSE]
      BY DEF Absent
    <3>3. Absent \in StoreRecord
      BY <3>1, <3>2 DEF StoreRecord
    <3>4. s \in StoreRecord
      BY <2>1, <3>3 DEF StoreRecord
    <3>5. QED
      BY <3>2, <3>3, <3>4 DEF StoreRecord
  <2> HIDE DEF s
  <2>3. StoreOK(s)
    BY <2>2, EmptySeq DEF StoreOK
  <2>4. QED
    BY <2>1, <2>2, <2>3 DEF GoodStore, CanBe, b
<1>4. store \in [Names -> StoreRecord]
  BY <1>2, <1>3
<1>5. QED
  BY <1>1, <1>3, <1>4 DEF Stores

LEMMA InitPromises ==
    ASSUME Init
    PROVE  Promised /\ Threads
<1>1. /\ acked = {} /\ \A k \in Conns : tpc[k] = None
      /\ \A t \in Conns \cup {Tick} : Range(sending[t]) = {}
      /\ \A n \in Names : Range(pending[n]) = {}
  BY DEF Init, Range
<1>2. Promised
  BY <1>1 DEF Promised
<1>3. \A k \in Conns : Fated(k) /\ RequestKept(k)
  BY <1>1 DEF Fated, RequestKept, None
<1>4. LateHeld
  <2>1. \A n \in Names : ~store[n].open
    BY DEF Init, Absent
  <2>2. \A c \in Clients : \A i \in DOMAIN env.script[c] : StoreFrom(env, c, i) \in Names
    BY MessageFacts DEF Init, StoreFrom, BatchOf
  <2>3. \A c \in Clients : \A i \in DOMAIN env.script[c] : ~store[StoreFrom(env, c, i)].open
    BY <2>1, <2>2
  <2>4. QED
    BY <2>3 DEF LateHeld
<1>5. QED
  BY <1>2, <1>3, <1>4 DEF Threads

------------------------------------------------------------------------------
\* What a step leaves as it was.
SameThread(k) ==
    tpc'[k] = tpc[k] /\ msg'[k] = msg[k] /\ at'[k] = at[k] /\ partials'[k] = partials[k]
Idle == {None, "reads", "ends", "sends"}

LEMMA IdleIsNot ==
    \A s \in Idle : s \notin {"feeds", "pushes", "drains", "ensures", "appends", "syncs"}
BY DEF Idle, None

LEMMA InHandKept ==
    ASSUME InHand, env' = env, \A k \in Conns : SameThread(k) \/ tpc'[k] \in Idle
    PROVE  InHand'
<1>1. ASSUME NEW k \in Conns
      PROVE  /\ tpc'[k] \in {"feeds", "pushes", "drains"} => Forward' /\ Reads(env', k[1], msg'[k])
             /\ tpc'[k] \in {"ensures", "appends", "syncs"} => ~Forward' /\ Reads(env', k[1], msg'[k])
             /\ tpc'[k] = "feeds" => at'[k] \in DOMAIN BatchOf(env', k[1], msg'[k]).entries
             /\ tpc'[k] = "pushes" => Message(k)'.chunk
             /\ tpc'[k] \in {"ensures", "appends"} => at'[k] = 1
             /\ tpc'[k] = "syncs" => at'[k] \in DOMAIN Message(k)'.batches
  <2>1. CASE tpc'[k] \in Idle
    BY <2>1, IdleIsNot
  <2>2. CASE SameThread(k)
    <3>1. Message(k)' = Message(k) /\ (Forward' <=> Forward)
      BY <2>2 DEF Message, Script, SameThread, Forward
    <3>2. QED
      BY <2>2, <3>1 DEF InHand, SameThread
  <2>3. QED
    BY <2>1, <2>2
<1>2. QED
  BY <1>1 DEF InHand

LEMMA InHandGoes ==
    ASSUME InHand, env' = env, NEW k \in Conns, \A m \in Conns \ {k} : SameThread(m),
           msg'[k] = msg[k], Reads(env, k[1], msg[k]),
           \/ Forward /\ tpc'[k] = "drains"
           \/ Forward /\ tpc'[k] = "pushes" /\ Message(k).chunk
           \/ Forward /\ tpc'[k] = "feeds" /\ at'[k] \in DOMAIN BatchOf(env, k[1], msg[k]).entries
           \/ ~Forward /\ tpc'[k] = "appends" /\ at'[k] = 1
           \/ ~Forward /\ tpc'[k] = "syncs" /\ at'[k] \in DOMAIN Message(k).batches
    PROVE  InHand'
<1>1. ASSUME NEW m \in Conns
      PROVE  /\ tpc'[m] \in {"feeds", "pushes", "drains"} => Forward' /\ Reads(env', m[1], msg'[m])
             /\ tpc'[m] \in {"ensures", "appends", "syncs"} => ~Forward' /\ Reads(env', m[1], msg'[m])
             /\ tpc'[m] = "feeds" => at'[m] \in DOMAIN BatchOf(env', m[1], msg'[m]).entries
             /\ tpc'[m] = "pushes" => Message(m)'.chunk
             /\ tpc'[m] \in {"ensures", "appends"} => at'[m] = 1
             /\ tpc'[m] = "syncs" => at'[m] \in DOMAIN Message(m)'.batches
  <2>1. (Forward' <=> Forward) /\ (msg'[m] = msg[m] => Message(m)' = Message(m))
    BY DEF Message, Script, Forward
  <2>2. CASE m = k
    BY <2>1, <2>2
  <2>3. CASE m # k
    BY <2>1, <2>3 DEF InHand, SameThread
  <2>4. QED
    BY <2>2, <2>3
<1>2. QED
  BY <1>1 DEF InHand

\* What is promised stays so where what was safe or coming does, and so does what is new.
LEMMA PromisedMore ==
    ASSUME Controls, Promised, Grows, env' = env,
           \A a \in acked' :
              a \in acked \/ (/\ a[1] \in Clients /\ a[2] \in DOMAIN env.script[a[1]]
                              /\ MsgIn(env, a[1], a[2], SafeIn')),
           \A t \in Conns \cup {Tick} : \A a \in Range(sending'[t]) :
              a \in Range(sending[t]) \/ (Reads(env, a.conn[1], a.about) /\ MsgIn(env, a.conn[1], a.about, SafeIn')),
           \A n \in Names : \A a \in Range(pending'[n]) :
              a \in Range(pending[n]) \/
                 (/\ store'[n].open /\ Forward /\ Reads(env, a.conn[1], a.about)
                  /\ StoreFrom(env, a.conn[1], a.about) = n /\ MsgIn(env, a.conn[1], a.about, ComingIn'))
    PROVE  Promised'
<1>1. env \in Environments
  BY DEF Controls
<1>2. ASSUME NEW a \in acked'
      PROVE  a[1] \in Clients /\ a[2] \in DOMAIN env.script[a[1]] /\ MsgIn(env, a[1], a[2], SafeIn')
  <2>1. CASE a \in acked
    <3>1. a[1] \in Clients /\ a[2] \in DOMAIN env.script[a[1]] /\ MsgIn(env, a[1], a[2], SafeIn)
      BY <2>1 DEF Promised
    <3>2. QED
      BY <1>1, <3>1, MsgGrows DEF Grows
  <2>2. QED
    BY <1>2, <2>1
<1>3. ASSUME NEW a \in AckRecord, Reads(env, a.conn[1], a.about)
      PROVE  /\ MsgIn(env, a.conn[1], a.about, SafeIn) => MsgIn(env, a.conn[1], a.about, SafeIn')
             /\ MsgIn(env, a.conn[1], a.about, ComingIn) => MsgIn(env, a.conn[1], a.about, ComingIn')
  <2>1. a.conn[1] \in Clients /\ a.about \in DOMAIN env.script[a.conn[1]]
    BY <1>3 DEF AckRecord, Conns, Reads
  <2>2. QED
    BY <1>1, <2>1, MsgGrows DEF Grows
<1>4. ASSUME NEW t \in Conns \cup {Tick}, NEW a \in Range(sending'[t])
      PROVE  Reads(env, a.conn[1], a.about) /\ MsgIn(env, a.conn[1], a.about, SafeIn')
  <2>1. CASE a \in Range(sending[t])
    <3>1. a \in AckRecord
      BY <2>1, SeqElements DEF Controls, Range
    <3>2. Reads(env, a.conn[1], a.about) /\ MsgIn(env, a.conn[1], a.about, SafeIn)
      BY <2>1 DEF Promised
    <3>3. QED
      BY <1>3, <3>1, <3>2
  <2>2. QED
    BY <1>4, <2>1
<1>5. ASSUME NEW n \in Names, NEW a \in Range(pending'[n])
      PROVE  /\ store'[n].open /\ Forward' /\ Reads(env, a.conn[1], a.about)
             /\ StoreFrom(env, a.conn[1], a.about) = n /\ MsgIn(env, a.conn[1], a.about, ComingIn')
  <2>1. Forward' <=> Forward
    BY DEF Forward
  <2>2. CASE a \in Range(pending[n])
    <3>1. a \in AckRecord
      BY <2>2, SeqElements DEF Controls, Range
    <3>2. /\ store[n].open /\ Forward /\ Reads(env, a.conn[1], a.about)
          /\ StoreFrom(env, a.conn[1], a.about) = n /\ MsgIn(env, a.conn[1], a.about, ComingIn)
      BY <2>2 DEF Promised
    <3>3. QED
      BY <1>3, <2>1, <3>1, <3>2 DEF Grows
  <2>3. QED
    BY <1>5, <2>1, <2>2
<1>6. QED
  BY <1>2, <1>4, <1>5 DEF Promised

LEMMA PromisedKept ==
    ASSUME Controls, Promised, Grows, env' = env, acked' \subseteq acked,
           \A t \in Conns \cup {Tick} : Range(sending'[t]) \subseteq Range(sending[t]),
           \A n \in Names : Range(pending'[n]) \subseteq Range(pending[n])
    PROVE  Promised'
BY PromisedMore

LEMMA FedGrows ==
    ASSUME NEW e \in Environments, NEW c \in Clients, NEW i \in DOMAIN e.script[c], NEW m, NEW ps,
           NEW F, NEW G, \A n \in Names : F[n] \subseteq G[n], FedSoFar(e, c, i, m, ps, F)
    PROVE  FedSoFar(e, c, i, m, ps, G)
<1>1. StoreFrom(e, c, i) \in Names
  BY MessageFacts DEF StoreFrom, BatchOf
<1>2. QED
  BY <1>1 DEF FedSoFar

\* The stores of the message in hand.
LEMMA HandFacts ==
    ASSUME Controls, NEW k \in Conns, Reads(env, k[1], msg[k])
    PROVE  /\ env \in Environments /\ k[1] \in Clients /\ msg[k] \in DOMAIN env.script[k[1]]
           /\ Message(k) = env.script[k[1]][msg[k]]
           /\ Batch(k, 1) = BatchOf(env, k[1], msg[k]) /\ Target(k, 1) = StoreFrom(env, k[1], msg[k])
           /\ StoreFrom(env, k[1], msg[k]) \in Names
           /\ \A b \in DOMAIN Message(k).batches :
                 Target(k, b) = StoreOf[Message(k).batches[b].value] /\ Target(k, b) \in Names
<1>1. env \in Environments /\ k[1] \in Clients /\ msg[k] \in DOMAIN env.script[k[1]]
  BY DEF Controls, Conns, Reads
<1>2. Message(k) = env.script[k[1]][msg[k]]
  BY DEF Message, Script
<1>3. /\ 1 \in DOMAIN Message(k).batches
      /\ \A b \in DOMAIN Message(k).batches : StoreOf[Message(k).batches[b].value] \in Names
  <2> DEFINE c == k[1]
             i == msg[k]
             bs == env.script[c][i].batches
  <2>1. c \in Clients /\ i \in DOMAIN env.script[c] /\ Message(k).batches = bs
    BY <1>1, <1>2
  <2> HIDE DEF c, i
  <2>2. 1 \in DOMAIN bs /\ \A b \in DOMAIN bs : StoreOf[bs[b].value] \in Names
    BY <1>1, <2>1, MessageFacts
  <2> HIDE DEF bs
  <2>3. QED
    BY <2>1, <2>2
<1>4. QED
  BY <1>1, <1>2, <1>3 DEF Batch, Target, BatchOf, StoreFrom

LEMMA HandBatches ==
    ASSUME Controls, NEW k \in Conns, Reads(env, k[1], msg[k])
    PROVE  LET bs == Message(k).batches IN
           /\ bs \in Seq(BatchForm) /\ Len(bs) \in Nat /\ DOMAIN bs = 1 .. Len(bs) /\ 1 \in DOMAIN bs
           /\ msg[k] \in Nat
           /\ \A b \in DOMAIN bs :
                 /\ b \in Nat \ {0} /\ bs[b].value \in Values /\ StoreOf[bs[b].value] \in Names
                 /\ bs[b].entries \in Seq(EntryForm) /\ Len(bs[b].entries) \in Nat
<1> DEFINE c == k[1]
           i == msg[k]
           bs == Message(k).batches
<1>1. env \in Environments /\ c \in Clients /\ i \in DOMAIN env.script[c]
      /\ bs = env.script[c][i].batches
  BY HandFacts
<1> HIDE DEF c, i, bs
<1>2. /\ bs \in Seq(BatchForm) /\ 1 \in DOMAIN bs /\ i \in Nat
      /\ \A b \in DOMAIN bs :
            /\ b \in Nat \ {0} /\ bs[b].value \in Values /\ StoreOf[bs[b].value] \in Names
            /\ bs[b].entries \in Seq(EntryForm)
  BY <1>1, MessageFacts
<1>3. Len(bs) \in Nat /\ DOMAIN bs = 1 .. Len(bs)
  BY <1>2, SeqElements
<1>4. ASSUME NEW b \in DOMAIN bs PROVE Len(bs[b].entries) \in Nat
  BY <1>2, SeqElements
<1>5. QED
  BY <1>2, <1>3, <1>4 DEF bs, i

LEMMA ThreadKept ==
    ASSUME Controls, InHand, Grows, env' = env, NEW k \in Conns, Fated(k), RequestKept(k),
           SameThread(k) \/ tpc'[k] \in Idle \cup {"drains"}
    PROVE  Fated(k)' /\ RequestKept(k)'
<1>1. CASE tpc'[k] \in Idle \cup {"drains"}
  <2>1. tpc'[k] \notin {"feeds", "pushes", "appends", "syncs"}
    BY <1>1, IdleIsNot
  <2>2. QED
    BY <2>1 DEF Fated, RequestKept
<1>2. CASE SameThread(k)
  <2>1. /\ Message(k)' = Message(k) /\ tpc'[k] = tpc[k] /\ msg'[k] = msg[k] /\ at'[k] = at[k]
        /\ partials'[k] = partials[k]
    BY <1>2 DEF Message, Script, SameThread
  <2>2. ASSUME tpc[k] \in {"feeds", "pushes", "appends", "syncs"}
        PROVE  /\ Reads(env, k[1], msg[k]) /\ env \in Environments /\ k[1] \in Clients
               /\ msg[k] \in DOMAIN env.script[k[1]]
    <3>1. Reads(env, k[1], msg[k])
      BY <2>2 DEF InHand
    <3>2. QED
      BY <3>1, HandFacts
  <2>3. Fated(k)'
    <3> DEFINE n == StoreFrom(env, k[1], msg[k])
    <3>1. SUFFICES ASSUME Message(k).chunk, n \notin Late(env), CanBe(env, n)
                   PROVE  /\ tpc[k] = "feeds" =>
                                FedSoFar(env, k[1], msg[k], at[k], partials[k], ComingIn')
                          /\ tpc[k] = "pushes" => MsgIn(env, k[1], msg[k], ComingIn')
      BY <2>1 DEF Fated
    <3>2. /\ tpc[k] = "feeds" => FedSoFar(env, k[1], msg[k], at[k], partials[k], ComingIn)
          /\ tpc[k] = "pushes" => MsgIn(env, k[1], msg[k], ComingIn)
      BY <3>1 DEF Fated
    <3>3. CASE tpc[k] = "feeds"
      BY <2>2, <3>2, <3>3, FedGrows DEF Grows
    <3>4. CASE tpc[k] = "pushes"
      BY <2>2, <3>2, <3>4, MsgGrows DEF Grows
    <3>5. QED
      BY <3>3, <3>4
  <2>4. RequestKept(k)'
    <3> DEFINE bs == Message(k).batches
    <3>1. CASE tpc[k] \notin {"appends", "syncs"}
      BY <2>1, <3>1 DEF RequestKept
    <3>2. CASE tpc[k] \in {"appends", "syncs"}
      <4>1. \A b \in DOMAIN bs : store[StoreOf[bs[b].value]].open /\ StoreOf[bs[b].value] \in Names
        BY <2>2, <3>2, HandFacts DEF RequestKept
      <4>2. \A b \in DOMAIN bs : store'[StoreOf[bs[b].value]].open
        BY <4>1 DEF Grows
      <4>3. ASSUME tpc[k] = "syncs"
            PROVE  /\ MsgIn(env, k[1], msg[k], ComingIn')
                   /\ \A p \in PlacesIn(env, k[1], msg[k]) :
                         p[3] < at[k] => p \in SafeIn'[Where(env, k[1], msg[k], p)]
        <5>1. /\ MsgIn(env, k[1], msg[k], ComingIn)
              /\ \A p \in PlacesIn(env, k[1], msg[k]) :
                    p[3] < at[k] => p \in SafeIn[Where(env, k[1], msg[k], p)]
          BY <4>3 DEF RequestKept
        <5>2. \A p \in PlacesIn(env, k[1], msg[k]) : Where(env, k[1], msg[k], p) \in Names
          BY <2>2, <3>2, PlaceFacts
        <5>3. MsgIn(env, k[1], msg[k], ComingIn')
          BY <2>2, <3>2, <5>1, MsgGrows DEF Grows
        <5>4. QED
          BY <5>1, <5>2, <5>3 DEF Grows
      <4>4. QED
        BY <2>1, <4>2, <4>3 DEF RequestKept
    <3>3. QED
      BY <3>1, <3>2
  <2>5. QED
    BY <2>3, <2>4
<1>3. QED
  BY <1>1, <1>2

LEMMA LateKept ==
    ASSUME Controls, LateHeld, Grows, env' = env,
           \A n \in Names : store'[n].open => store[n].open
    PROVE  LateHeld'
<1>1. SUFFICES ASSUME Forward, NEW c \in Clients, NEW i \in DOMAIN env.script[c],
                      Reads(env, c, i), StoreFrom(env, c, i) \in Late(env),
                      store'[StoreFrom(env, c, i)].open
               PROVE  MsgIn(env, c, i, ComingIn')
  BY DEF LateHeld, Forward
<1>2. env \in Environments /\ StoreFrom(env, c, i) \in Names
  BY MessageFacts DEF Controls, StoreFrom, BatchOf
<1>3. MsgIn(env, c, i, ComingIn)
  BY <1>1, <1>2 DEF LateHeld
<1>4. QED
  BY <1>2, <1>3, MsgGrows DEF Grows

------------------------------------------------------------------------------
\* The controls, step by step.
LEMMA ClientControls ==
    ASSUME Controls, NEW c \in Clients, Client(c) \/ GiveUpEarly(c)
    PROVE  /\ Controls' /\ \A k \in Conns : SameThread(k) \/ tpc'[k] \in Idle
           /\ UNCHANGED <<env, sending, tickVars, intakeVars, history>>
<1>1. /\ todo[c] \in Nat \ {0} /\ env \in Environments
      /\ conn[c] \in Conns \cup {NoConn} /\ (conn[c] # NoConn => conn[c] \in Conns /\ conn[c][1] = c)
      /\ inbox \in [Conns -> Seq(Nat)] /\ tpc \in [Conns -> ThreadStates]
      /\ todo \in [Clients -> Nat \ {0}] /\ conn \in [Clients -> Conns \cup {NoConn}]
  BY DEF Controls
<1>2. CASE Connect(c)
  <2>1. PICK k \in {<<c, 0>>, <<c, 1>>} :
             /\ conn' = [conn EXCEPT ![c] = k] /\ inbox' = [inbox EXCEPT ![k] = <<>>]
             /\ tpc' = [tpc EXCEPT ![k] = "reads"]
    BY <1>2 DEF Connect
  <2>2. k \in Conns /\ k[1] = c
    BY DEF Conns
  <2>3. /\ UNCHANGED <<env, todo, msg, at, partials, sending, tickVars, intakeVars, history>>
    BY <1>2 DEF Connect
  <2>4. inbox' \in [Conns -> Seq(Nat)] /\ \A m \in Conns : \A i \in Range(inbox'[m]) : i \in Range(inbox[m])
    BY <1>1, <2>1, <2>2, OneElement
  <2>5. tpc' \in [Conns -> ThreadStates] /\ \A m \in Conns : tpc'[m] = tpc[m] \/ tpc'[m] \in Idle
    BY <1>1, <2>1, <2>2 DEF ThreadStates, Idle
  <2>6. conn' \in [Clients -> Conns \cup {NoConn}] /\ \A d \in Clients : conn'[d] = conn[d] \/ conn'[d][1] = d
    BY <1>1, <2>1, <2>2
  <2>7. Controls'
    BY <2>3, <2>4, <2>5, <2>6 DEF Controls, intakeVars
  <2>8. QED
    BY <2>3, <2>5, <2>7 DEF SameThread
<1>3. CASE SendMessage(c)
  <2> DEFINE k == conn[c]
  <2>1. /\ k \in Conns /\ k[1] = c /\ todo[c] <= Len(Script(c))
        /\ inbox' = [inbox EXCEPT ![k] = <<todo[c]>>]
        /\ todo' = [todo EXCEPT ![c] = IF Asks(c) THEN @ ELSE @ + 1]
    BY <1>1, <1>3 DEF SendMessage
  <2>2. UNCHANGED <<env, conn, threadVars, tickVars, intakeVars, history>>
    BY <1>3 DEF SendMessage
  <2>3. todo[c] \in DOMAIN env.script[c]
    <3>1. env.script[c] \in Seq(MessageForm)
      BY <1>1, EnvironmentOf DEF Environment
    <3>2. DOMAIN env.script[c] = 1 .. Len(env.script[c]) /\ Len(env.script[c]) \in Nat
      BY <3>1, SeqElements
    <3>3. QED
      BY <1>1, <2>1, <3>2 DEF Script
  <2>4. todo' \in [Clients -> Nat \ {0}]
    BY <1>1, <2>1
  <2> HIDE DEF k
  <2>5. /\ inbox' \in [Conns -> Seq(Nat)]
        /\ \A m \in Conns : \A i \in Range(inbox'[m]) : i \in Range(inbox[m]) \/ (m = k /\ i = todo[c])
    BY <1>1, <2>1, OneElement
  <2>6. Controls'
    BY <2>1, <2>2, <2>3, <2>4, <2>5 DEF Controls, threadVars, intakeVars
  <2>7. QED
    BY <2>2, <2>6 DEF SameThread, threadVars
<1>4. CASE Hear(c)
  <2>1. todo' \in [Clients -> Nat \ {0}]
    BY <1>1, <1>4 DEF Hear
  <2>2. UNCHANGED <<env, conn, inbox, threadVars, tickVars, intakeVars, history>>
    BY <1>4 DEF Hear
  <2>3. Controls'
    BY <2>1, <2>2 DEF Controls, threadVars, intakeVars
  <2>4. QED
    BY <2>2, <2>3 DEF SameThread, threadVars
<1>5. CASE Leave(c)
  <2>1. conn' \in [Clients -> Conns \cup {NoConn}] /\ \A d \in Clients : conn'[d] = conn[d] \/ conn'[d] = NoConn
    BY <1>1, <1>5 DEF Leave
  <2>2. UNCHANGED <<env, todo, inbox, threadVars, tickVars, intakeVars, history>>
    BY <1>5 DEF Leave
  <2>3. Controls'
    BY <2>1, <2>2 DEF Controls, threadVars, intakeVars
  <2>4. QED
    BY <2>2, <2>3 DEF SameThread, threadVars
<1>6. QED
  BY <1>2, <1>3, <1>4, <1>5 DEF Client, GiveUp, GiveUpEarly

\* A thread's next state, and its message.
LEMMA GoesFacts ==
    ASSUME Controls, NEW k \in Conns, NEW to \in ThreadStates, Goes(k, to)
    PROVE  /\ tpc' \in [Conns -> ThreadStates] /\ msg' \in [Conns -> Nat] /\ tpc'[k] = to
           /\ to # "reads" => msg'[k] = msg[k]
           /\ \A m \in Conns \ {k} : tpc'[m] = tpc[m] /\ msg'[m] = msg[m]
BY DEF Controls, Goes

LEMMA TakeControls ==
    ASSUME Controls, InHand, NEW k \in Conns, Take(k)
    PROVE  /\ Controls' /\ InHand' /\ \A m \in Conns \ {k} : SameThread(m)
           /\ UNCHANGED <<env, partials, sending, tickVars, intakeVars, history>>
           /\ \/ tpc'[k] \in Idle
              \/ tpc'[k] = "ensures"
              \/ tpc'[k] = "feeds" /\ at'[k] = 1 /\ Reads(env, k[1], msg'[k])
<1> DEFINE i == Head(inbox[k])
           form == Script(k[1])[i].form
<1>1. /\ env \in Environments /\ k[1] \in Clients /\ inbox \in [Conns -> Seq(Nat)]
      /\ \A m \in Conns : \A x \in Range(inbox[m]) : x \in DOMAIN env.script[m[1]]
      /\ tpc \in [Conns -> ThreadStates] /\ msg \in [Conns -> Nat] /\ at \in [Conns -> Nat]
  BY DEF Controls, Conns
<1>2. /\ inbox[k] \in Seq(Nat) /\ inbox[k] # <<>> /\ inbox' = [inbox EXCEPT ![k] = Tail(@)]
      /\ tpc[k] = "reads"
      /\ UNCHANGED <<env, todo, conn, partials, sending, tickVars, intakeVars, history>>
  BY <1>1 DEF Take, clientVars
<1>3. i \in Nat /\ i \in Range(inbox[k]) /\ Tail(inbox[k]) \in Seq(Nat) /\ Range(Tail(inbox[k])) \subseteq Range(inbox[k])
  BY <1>2, TailRange
<1>4. /\ inbox' \in [Conns -> Seq(Nat)]
      /\ \A m \in Conns : Range(inbox'[m]) \subseteq Range(inbox[m])
  <2> DEFINE rest == Tail(inbox[k])
  <2> HIDE DEF rest
  <2>1. inbox' = [inbox EXCEPT ![k] = rest]
    BY <1>2 DEF rest
  <2>2. QED
    BY <1>1, <1>3, <2>1 DEF rest
<1> HIDE DEF i
<1>5. CASE form = "good" /\ msg' = [msg EXCEPT ![k] = i] /\ at' = [at EXCEPT ![k] = 1]
           /\ tpc' = [tpc EXCEPT ![k] = IF Forward THEN "feeds" ELSE "ensures"]
  <2>1. Reads(env, k[1], i)
    BY <1>1, <1>3, <1>5 DEF Reads, Script
  <2>2. /\ tpc' \in [Conns -> ThreadStates] /\ msg' \in [Conns -> Nat] /\ at' \in [Conns -> Nat]
        /\ tpc'[k] = (IF Forward THEN "feeds" ELSE "ensures") /\ msg'[k] = i /\ at'[k] = 1
        /\ \A m \in Conns \ {k} : tpc'[m] = tpc[m] /\ msg'[m] = msg[m] /\ at'[m] = at[m]
    BY <1>1, <1>3, <1>5 DEF ThreadStates
  <2>3. Controls'
    BY <1>2, <1>4, <2>2 DEF Controls, intakeVars
  <2>4. \A m \in Conns \ {k} : SameThread(m)
    BY <1>2, <2>2 DEF SameThread
  <2>5. 1 \in DOMAIN BatchOf(env, k[1], i).entries
    <3>1. BatchOf(env, k[1], i).entries \in Seq(EntryForm) /\ BatchOf(env, k[1], i).entries # <<>>
      BY <1>1, <2>1, MessageFacts DEF Reads, BatchOf
    <3>2. QED
      BY <3>1, SeqElements
  <2>6. InHand'
    <3>1. ASSUME NEW m \in Conns
          PROVE  /\ tpc'[m] \in {"feeds", "pushes", "drains"} => Forward' /\ Reads(env', m[1], msg'[m])
                 /\ tpc'[m] \in {"ensures", "appends", "syncs"} => ~Forward' /\ Reads(env', m[1], msg'[m])
                 /\ tpc'[m] = "feeds" => at'[m] \in DOMAIN BatchOf(env', m[1], msg'[m]).entries
                 /\ tpc'[m] = "pushes" => Message(m)'.chunk
                 /\ tpc'[m] \in {"ensures", "appends"} => at'[m] = 1
                 /\ tpc'[m] = "syncs" => at'[m] \in DOMAIN Message(m)'.batches
      <4>1. CASE m = k
        BY <1>2, <2>1, <2>2, <2>5, <4>1 DEF Forward
      <4>2. CASE m # k
        <5>1. SameThread(m) /\ Message(m)' = Message(m) /\ (Forward' <=> Forward)
          BY <1>2, <2>4, <4>2 DEF Message, Script, SameThread, Forward
        <5>2. QED
          BY <1>2, <5>1 DEF InHand, SameThread
      <4>3. QED
        BY <4>1, <4>2
    <3>2. QED
      BY <3>1 DEF InHand
  <2>7. QED
    BY <1>2, <2>1, <2>2, <2>3, <2>4, <2>6
<1>6. CASE UNCHANGED <<msg, at>>
           /\ tpc' = [tpc EXCEPT ![k] = IF Forward \/ form = "gzip" THEN "ends" ELSE "reads"]
  <2>1. /\ tpc' \in [Conns -> ThreadStates] /\ tpc'[k] \in Idle
        /\ \A m \in Conns \ {k} : tpc'[m] = tpc[m]
    BY <1>1, <1>6 DEF ThreadStates, Idle
  <2>2. Controls'
    BY <1>2, <1>4, <1>6, <2>1 DEF Controls, intakeVars
  <2>3. \A m \in Conns \ {k} : SameThread(m)
    BY <1>2, <1>6, <2>1 DEF SameThread
  <2>4. InHand'
    BY <1>2, <2>1, <2>3, InHandKept
  <2>5. QED
    BY <1>2, <2>1, <2>2, <2>3, <2>4
<1>7. QED
  BY <1>5, <1>6 DEF Take, i

------------------------------------------------------------------------------
\* The invariant, step by step.
Core == Controls /\ InHand /\ Stores /\ Promised /\ Threads

\* A step of which no thread takes up something new.
LEMMA CoreKept ==
    ASSUME Core, Controls', InHand', Stores', Promised', Grows, env' = env,
           \A n \in Names : store'[n].open => store[n].open,
           \A k \in Conns : SameThread(k) \/ tpc'[k] \in Idle \cup {"drains"}
    PROVE  Core'
<1>1. LateHeld'
  BY LateKept DEF Core, Threads
<1>2. \A k \in Conns : Fated(k)' /\ RequestKept(k)'
  BY ThreadKept DEF Core, Threads
<1>3. QED
  BY <1>1, <1>2 DEF Core, Threads

\* ... nor a store changes.
LEMMA StoresKept ==
    ASSUME Stores, env' = env, store' = store, left' = left, taken' \subseteq taken, dropped' = dropped
    PROVE  Stores' /\ Grows /\ \A n \in Names : store'[n].open => store[n].open
BY SameGrows DEF Stores

LEMMA ClientStep ==
    ASSUME Core, NEW c \in Clients, Client(c) \/ GiveUpEarly(c)
    PROVE  Core'
<1>1. /\ Controls' /\ \A k \in Conns : SameThread(k) \/ tpc'[k] \in Idle
      /\ UNCHANGED <<env, sending, tickVars, intakeVars, history>>
  BY ClientControls DEF Core
<1>2. /\ env' = env /\ sending' = sending /\ left' = left /\ store' = store /\ pending' = pending
      /\ taken' = taken /\ acked' = acked /\ dropped' = dropped
  BY <1>1 DEF tickVars, intakeVars, history
<1>3. Stores' /\ Grows /\ \A n \in Names : store'[n].open => store[n].open
  BY <1>2, StoresKept DEF Core
<1>4. InHand'
  BY <1>1, <1>2, InHandKept DEF Core
<1>5. Promised'
  BY <1>2, <1>3, PromisedKept DEF Core
<1>6. QED
  BY <1>1, <1>2, <1>3, <1>4, <1>5, CoreKept

LEMMA EofStep ==
    ASSUME Core, NEW k \in Conns, Eof(k)
    PROVE  Core'
<1>1. /\ tpc' = [tpc EXCEPT ![k] = "ends"]
      /\ UNCHANGED <<env, todo, conn, inbox, msg, at, partials, sending, left, store, pending, taken,
                     acked, dropped>>
  BY DEF Eof, clientVars, netVars, tickVars, intakeVars, history
<1>2. tpc \in [Conns -> ThreadStates]
  BY DEF Core, Controls
<1>3. /\ tpc' \in [Conns -> ThreadStates]
      /\ \A m \in Conns : SameThread(m) \/ tpc'[m] \in Idle
  BY <1>1, <1>2 DEF ThreadStates, Idle, SameThread
<1>4. Controls'
  BY <1>1, <1>3 DEF Core, Controls
<1>5. Stores' /\ Grows /\ \A n \in Names : store'[n].open => store[n].open
  BY <1>1, StoresKept DEF Core
<1>6. InHand'
  BY <1>1, <1>3, InHandKept DEF Core
<1>7. Promised'
  BY <1>1, <1>5, PromisedKept DEF Core
<1>8. QED
  BY <1>1, <1>3, <1>4, <1>5, <1>6, <1>7, CoreKept

LEMMA EndStep ==
    ASSUME Core, NEW k \in Conns, End(k)
    PROVE  Core'
<1>1. /\ tpc' = [tpc EXCEPT ![k] = None] /\ pending' = [n \in Names |-> Without(pending[n], k)]
      /\ partials' = [partials EXCEPT ![k] = NoPartials] /\ inbox' = [inbox EXCEPT ![k] = <<>>]
      /\ UNCHANGED <<env, todo, conn, msg, at, sending, left, store, taken, acked, dropped>>
  BY DEF End, clientVars, tickVars, history
<1>2. /\ tpc \in [Conns -> ThreadStates] /\ partials \in [Conns -> [PartialIds -> Seq(Position)]]
      /\ inbox \in [Conns -> Seq(Nat)] /\ pending \in [Names -> Seq(AckRecord)]
  BY DEF Core, Controls
<1>3. /\ tpc' \in [Conns -> ThreadStates]
      /\ \A m \in Conns : SameThread(m) \/ tpc'[m] \in Idle
  BY <1>1, <1>2 DEF ThreadStates, Idle, SameThread
<1>4. partials' \in [Conns -> [PartialIds -> Seq(Position)]]
  <2>1. NoPartials \in [PartialIds -> Seq(Position)]
    BY EmptySeq DEF NoPartials
  <2>2. QED
    BY <1>1, <1>2, <2>1
<1>5. inbox' \in [Conns -> Seq(Nat)] /\ \A m \in Conns : \A i \in Range(inbox'[m]) : i \in Range(inbox[m])
  <2>1. <<>> \in Seq(Nat) /\ Range(<<>>) = {}
    BY EmptySeq DEF Range
  <2>2. QED
    BY <1>1, <1>2, <2>1
<1>6. pending' \in [Names -> Seq(AckRecord)] /\ \A n \in Names : Range(pending'[n]) \subseteq Range(pending[n])
  BY <1>1, <1>2, WithoutFacts
<1>7. Controls'
  BY <1>1, <1>3, <1>4, <1>5, <1>6 DEF Core, Controls
<1>8. Stores' /\ Grows /\ \A n \in Names : store'[n].open => store[n].open
  BY <1>1, StoresKept DEF Core
<1>9. InHand'
  BY <1>1, <1>3, InHandKept DEF Core
<1>10. Promised'
  BY <1>1, <1>6, <1>8, PromisedKept DEF Core
<1>11. QED
  BY <1>1, <1>3, <1>7, <1>8, <1>9, <1>10, CoreKept

LEMMA TakeStep ==
    ASSUME Core, NEW k \in Conns, Take(k)
    PROVE  Core'
<1>1. /\ Controls' /\ InHand' /\ \A m \in Conns \ {k} : SameThread(m)
      /\ UNCHANGED <<env, partials, sending, tickVars, intakeVars, history>>
      /\ \/ tpc'[k] \in Idle
         \/ tpc'[k] = "ensures"
         \/ tpc'[k] = "feeds" /\ at'[k] = 1 /\ Reads(env, k[1], msg'[k])
  BY TakeControls DEF Core
<1>2. /\ env' = env /\ sending' = sending /\ left' = left /\ store' = store /\ pending' = pending
      /\ taken' = taken /\ acked' = acked /\ dropped' = dropped
  BY <1>1 DEF tickVars, intakeVars, history
<1>3. Stores' /\ Grows /\ \A n \in Names : store'[n].open => store[n].open
  BY <1>2, StoresKept DEF Core
<1>4. Promised'
  BY <1>2, <1>3, PromisedKept DEF Core
<1>5. ASSUME NEW m \in Conns
      PROVE  Fated(m)' /\ RequestKept(m)'
  <2>1. CASE SameThread(m) \/ tpc'[m] \in Idle
    BY <1>2, <1>3, <2>1, ThreadKept DEF Core, Threads
  <2>2. CASE tpc'[m] = "ensures"
    BY <2>2 DEF Fated, RequestKept
  <2>3. CASE tpc'[m] = "feeds" /\ at'[m] = 1 /\ Reads(env, m[1], msg'[m])
    <3>1. env \in Environments /\ m[1] \in Clients /\ msg'[m] \in DOMAIN env.script[m[1]]
      BY <2>3 DEF Core, Controls, Conns, Reads
    <3>2. FedSoFar(env, m[1], msg'[m], 1, partials'[m], ComingIn')
      BY <3>1, FedNone
    <3>3. QED
      BY <1>2, <2>3, <3>2 DEF Fated, RequestKept
  <2>4. QED
    BY <1>1, <2>1, <2>2, <2>3
<1>6. LateHeld'
  BY <1>2, <1>3, LateKept DEF Core, Threads
<1>7. QED
  BY <1>1, <1>3, <1>4, <1>5, <1>6 DEF Core, Threads

LEMMA PushStep ==
    ASSUME Core, NEW k \in Conns, Push(k)
    PROVE  Core'
<1> DEFINE n == Target(k, 1)
           a == [conn |-> k, about |-> msg[k]]
<1>1. /\ tpc[k] = "pushes"
      /\ IF store[n].open
         THEN pending' = [pending EXCEPT ![n] = Append(@, a)] /\ Goes(k, "drains")
         ELSE Goes(k, "reads") /\ pending' = pending
      /\ UNCHANGED <<env, todo, conn, inbox, at, partials, sending, left, store, taken, acked, dropped>>
  BY DEF Push, clientVars, netVars, tickVars, history
<1>2. Forward /\ Reads(env, k[1], msg[k]) /\ Message(k).chunk
  BY <1>1 DEF Core, InHand
<1>3. /\ env \in Environments /\ n \in Names /\ n = StoreFrom(env, k[1], msg[k])
      /\ k[1] \in Clients /\ msg[k] \in DOMAIN env.script[k[1]]
  BY <1>2, HandFacts DEF Core
<1>4. /\ pending \in [Names -> Seq(AckRecord)] /\ msg \in [Conns -> Nat] /\ a \in AckRecord
  BY DEF Core, Controls, AckRecord
<1>5. Stores' /\ Grows /\ \A m \in Names : store'[m].open => store[m].open
  BY <1>1, StoresKept DEF Core
<1>6. ASSUME store[n].open
      PROVE  MsgIn(env, k[1], msg[k], ComingIn')
  <2>1. CanBe(env, n)
    BY <1>3, <1>6 DEF Core, Stores, GoodStore
  <2>2. MsgIn(env, k[1], msg[k], ComingIn)
    <3>1. CASE n \in Late(env)
      BY <1>2, <1>3, <1>6, <3>1 DEF Core, Threads, LateHeld
    <3>2. CASE n \notin Late(env)
      BY <1>1, <1>2, <1>3, <2>1, <3>2 DEF Core, Threads, Fated
    <3>3. QED
      BY <3>1, <3>2
  <2>3. QED
    BY <1>3, <1>5, <2>2, MsgGrows DEF Grows
<1> HIDE DEF n
<1>7. /\ pending' \in [Names -> Seq(AckRecord)]
      /\ \A m \in Names : \A b \in Range(pending'[m]) :
            b \in Range(pending[m]) \/ (m = n /\ b = a /\ store[n].open)
  <2>1. CASE store[n].open
    <3>1. Append(pending[n], a) \in Seq(AckRecord) /\ Range(Append(pending[n], a)) = Range(pending[n]) \cup {a}
      BY <1>3, <1>4, AppendIsSeq, AppendRange
    <3> DEFINE q == Append(pending[n], a)
    <3>2. pending' = [pending EXCEPT ![n] = q]
      BY <1>1, <2>1
    <3> HIDE DEF a, q
    <3>3. \A m \in Names : pending'[m] = IF m = n THEN q ELSE pending[m]
      BY <1>4, <3>2
    <3>4. q \in Seq(AckRecord) /\ Range(q) = Range(pending[n]) \cup {a}
      BY <3>1 DEF q
    <3>5. pending' \in [Names -> Seq(AckRecord)]
      BY <1>4, <3>2, <3>4
    <3>6. QED
      BY <2>1, <3>3, <3>4, <3>5
  <2>2. CASE ~store[n].open
    BY <1>1, <1>4, <2>2
  <2>3. QED
    BY <2>1, <2>2
<1>8. /\ tpc' \in [Conns -> ThreadStates] /\ msg' \in [Conns -> Nat]
      /\ \A m \in Conns \ {k} : tpc'[m] = tpc[m] /\ msg'[m] = msg[m]
      /\ (tpc'[k] = "drains" /\ msg'[k] = msg[k]) \/ tpc'[k] = "reads"
  <2>1. Goes(k, "drains") \/ Goes(k, "reads")
    BY <1>1
  <2>2. "drains" \in ThreadStates /\ "reads" \in ThreadStates
    BY DEF ThreadStates
  <2>3. QED
    BY <2>1, <2>2, GoesFacts DEF Core
<1>9. \A m \in Conns \ {k} : SameThread(m)
  BY <1>1, <1>8 DEF SameThread
<1>10. Controls'
  BY <1>1, <1>7, <1>8 DEF Core, Controls
<1>11. InHand'
  <2>1. CASE tpc'[k] = "drains" /\ msg'[k] = msg[k]
    BY <1>1, <1>2, <1>9, <2>1, InHandGoes DEF Core
  <2>2. CASE tpc'[k] = "reads"
    BY <1>1, <1>9, <2>2, InHandKept DEF Core, Idle
  <2>3. QED
    BY <1>8, <2>1, <2>2
<1>12. Promised'
  <2>1. ASSUME NEW m \in Names, NEW b \in Range(pending'[m]), b \notin Range(pending[m])
        PROVE  /\ store'[m].open /\ Forward /\ Reads(env, b.conn[1], b.about)
               /\ StoreFrom(env, b.conn[1], b.about) = m /\ MsgIn(env, b.conn[1], b.about, ComingIn')
    <3>1. m = n /\ b = a /\ store[n].open
      BY <1>7, <2>1
    <3>2. b.conn = k /\ b.about = msg[k]
      BY <3>1
    <3>3. QED
      BY <1>1, <1>2, <1>3, <1>6, <3>1, <3>2
  <2>2. QED
    BY <1>1, <1>5, <2>1, PromisedMore DEF Core
<1>13. \A m \in Conns : SameThread(m) \/ tpc'[m] \in Idle \cup {"drains"}
  BY <1>8, <1>9 DEF Idle
<1>14. QED
  BY <1>1, <1>5, <1>10, <1>11, <1>12, <1>13, CoreKept

\* What a store owes is taken once all that is coming of it is safe.
LEMMA DrainFacts ==
    ASSUME Core, NEW t \in Conns \cup {Tick}, NEW n \in Names, Drain(t, n), dropped' = dropped
    PROVE  /\ Grows /\ store' \in [Names -> StoreRecord]
           /\ \A m \in Names : GoodStore(env, m, store'[m]) /\ store'[m].open = store[m].open
           /\ sending' \in [Conns \cup {Tick} -> Seq(AckRecord)]
           /\ pending' \in [Names -> Seq(AckRecord)]
           /\ \A u \in Conns \cup {Tick} : \A a \in Range(sending'[u]) :
                 a \in Range(sending[u]) \/ (Reads(env, a.conn[1], a.about) /\ MsgIn(env, a.conn[1], a.about, SafeIn'))
           /\ \A m \in Names : Range(pending'[m]) \subseteq Range(pending[m])
<1>1. /\ store \in [Names -> StoreRecord] /\ \A m \in Names : GoodStore(env, m, store[m])
      /\ sending \in [Conns \cup {Tick} -> Seq(AckRecord)]
      /\ pending \in [Names -> Seq(AckRecord)] /\ pending[n] \in Seq(AckRecord)
      /\ env \in Environments
  BY DEF Core, Controls, Stores
<1>2. CASE pending[n] = <<>>
  <2>1. store' = store /\ pending' = pending /\ sending' = sending
    BY <1>2 DEF Drain
  <2>2. QED
    BY <1>1, <2>1, SameGrows
<1>3. CASE pending[n] # <<>>
  <2>1. PICK o \in MakeDurable(store[n]) :
           /\ store' = [store EXCEPT ![n] = o.store]
           /\ IF o.ok
              THEN /\ pending' = [pending EXCEPT ![n] = <<>>]
                   /\ sending' = [sending EXCEPT ![t] = pending[n]]
              ELSE pending' = [pending EXCEPT ![n] = pending[n]] /\ sending' = sending
    BY <1>3 DEF Drain, PutBack
  <2>2. store[n].open /\ Forward
    <3>1. Head(pending[n]) \in Range(pending[n])
      BY <1>1, <1>3, TailRange
    <3>2. QED
      BY <3>1 DEF Core, Promised
  <2>3. StoreOK(store[n])
    BY <1>1 DEF GoodStore
  <2>4. Better(store[n], o.store) /\ (o.ok => Soon(store[n]) \subseteq Sure(o.store))
    BY <2>2, <2>3, DurableFacts
  <2>5. /\ Grows /\ store' \in [Names -> StoreRecord]
        /\ \A m \in Names : GoodStore(env, m, store'[m]) /\ store'[m].open = store[m].open
    <3> DEFINE s == o.store
    <3>1. store' = [store EXCEPT ![n] = s] /\ Becomes(store[n], s, {})
      BY <2>1, <2>4 DEF Better
    <3> HIDE DEF s
    <3>2. dropped' = dropped \cup {}
      OBVIOUS
    <3>3. QED
      BY <3>1, <3>2, OneStoreGrows DEF Core
  <2>6. CASE ~o.ok
    <3>1. pending' = pending /\ sending' = sending
      BY <1>1, <2>1, <2>6
    <3>2. QED
      BY <1>1, <2>5, <3>1
  <2>7. CASE o.ok
    <3> DEFINE none == <<>>
    <3>1. pending' = [pending EXCEPT ![n] = none] /\ sending' = [sending EXCEPT ![t] = pending[n]]
      BY <2>1, <2>7
    <3>2. none \in Seq(AckRecord) /\ Range(none) = {}
      BY EmptySeq DEF Range
    <3> HIDE DEF none
    <3>3. pending' \in [Names -> Seq(AckRecord)] /\ \A m \in Names : Range(pending'[m]) \subseteq Range(pending[m])
      BY <1>1, <3>1, <3>2
    <3>4. /\ sending' \in [Conns \cup {Tick} -> Seq(AckRecord)]
          /\ \A u \in Conns \cup {Tick} : sending'[u] = sending[u] \/ sending'[u] = pending[n]
      BY <1>1, <3>1
    <3>5. ComingIn[n] \subseteq SafeIn'[n]
      <4>1. store'[n] = o.store
        BY <1>1, <2>1
      <4>2. QED
        BY <2>4, <2>7, <4>1, InAt
    <3>6. ASSUME NEW a \in Range(pending[n])
          PROVE  Reads(env, a.conn[1], a.about) /\ MsgIn(env, a.conn[1], a.about, SafeIn')
      <4>1. /\ Reads(env, a.conn[1], a.about) /\ StoreFrom(env, a.conn[1], a.about) = n
            /\ MsgIn(env, a.conn[1], a.about, ComingIn)
        BY DEF Core, Promised
      <4>2. a.conn[1] \in Clients /\ a.about \in DOMAIN env.script[a.conn[1]]
        <5>1. a \in AckRecord
          BY <1>1, SeqElements DEF Range
        <5>2. QED
          BY <4>1, <5>1 DEF AckRecord, Conns, Reads
      <4>3. \A p \in PlacesIn(env, a.conn[1], a.about) : Where(env, a.conn[1], a.about, p) = n
        BY <1>1, <2>2, <4>1, <4>2, PlaceFacts DEF Forward
      <4>4. QED
        BY <3>5, <4>1, <4>3 DEF MsgIn
    <3>7. QED
      BY <2>5, <3>3, <3>4, <3>6
  <2>8. QED
    BY <2>6, <2>7
<1>4. QED
  BY <1>2, <1>3

LEMMA DrainOwnStep ==
    ASSUME Core, NEW k \in Conns, DrainOwn(k)
    PROVE  Core'
<1> DEFINE n == Target(k, 1)
<1>1. /\ tpc[k] = "drains" /\ Drain(k, n) /\ Goes(k, "sends")
      /\ UNCHANGED <<env, todo, conn, inbox, at, partials, left, taken, acked, dropped>>
  BY DEF DrainOwn, clientVars, netVars, tickVars, history
<1>2. n \in Names
  BY <1>1, HandFacts DEF Core, InHand
<1> HIDE DEF n
<1>3. /\ Grows /\ store' \in [Names -> StoreRecord]
      /\ \A m \in Names : GoodStore(env, m, store'[m]) /\ store'[m].open = store[m].open
      /\ sending' \in [Conns \cup {Tick} -> Seq(AckRecord)]
      /\ pending' \in [Names -> Seq(AckRecord)]
      /\ \A u \in Conns \cup {Tick} : \A a \in Range(sending'[u]) :
            a \in Range(sending[u]) \/ (Reads(env, a.conn[1], a.about) /\ MsgIn(env, a.conn[1], a.about, SafeIn'))
      /\ \A m \in Names : Range(pending'[m]) \subseteq Range(pending[m])
  BY <1>1, <1>2, DrainFacts
<1>4. Promised'
  BY <1>1, <1>3, PromisedMore DEF Core
<1>5. Stores'
  BY <1>1, <1>3 DEF Core, Stores
<1>6. /\ tpc' \in [Conns -> ThreadStates] /\ msg' \in [Conns -> Nat] /\ tpc'[k] = "sends"
      /\ \A m \in Conns \ {k} : tpc'[m] = tpc[m] /\ msg'[m] = msg[m]
  BY <1>1, GoesFacts DEF Core, ThreadStates
<1>7. \A m \in Conns : SameThread(m) \/ tpc'[m] \in Idle
  BY <1>1, <1>6 DEF SameThread, Idle
<1>8. Controls'
  BY <1>1, <1>3, <1>6 DEF Core, Controls
<1>9. InHand'
  BY <1>1, <1>7, InHandKept DEF Core
<1>10. QED
  BY <1>1, <1>3, <1>4, <1>5, <1>7, <1>8, <1>9, CoreKept

LEMMA SweepStep ==
    ASSUME Core, NEW n \in Names, Sweep(n)
    PROVE  Core'
<1>1. /\ left' = left \ {<<"sweep", n>>}
      /\ UNCHANGED <<env, todo, conn, inbox, tpc, msg, at, partials, taken, acked, dropped>>
  BY DEF Sweep, clientVars, netVars, history
<1>2. /\ Grows /\ store' \in [Names -> StoreRecord]
      /\ \A m \in Names : GoodStore(env, m, store'[m]) /\ store'[m].open = store[m].open
      /\ sending' \in [Conns \cup {Tick} -> Seq(AckRecord)]
      /\ pending' \in [Names -> Seq(AckRecord)]
      /\ \A u \in Conns \cup {Tick} : \A a \in Range(sending'[u]) :
            a \in Range(sending[u]) \/ (Reads(env, a.conn[1], a.about) /\ MsgIn(env, a.conn[1], a.about, SafeIn'))
      /\ \A m \in Names : Range(pending'[m]) \subseteq Range(pending[m])
  <2>1. CASE Forward
    BY <1>1, <2>1, DrainFacts DEF Sweep
  <2>2. CASE ~Forward
    <3>1. store' = store /\ pending' = pending /\ sending' = sending
      BY <2>2 DEF Sweep
    <3>2. QED
      BY <1>1, <3>1, SameGrows DEF Core, Controls, Stores
  <2>3. QED
    BY <2>1, <2>2
<1>3. Promised'
  BY <1>1, <1>2, PromisedMore DEF Core
<1>4. Stores'
  BY <1>1, <1>2 DEF Core, Stores
<1>5. \A m \in Conns : SameThread(m)
  BY <1>1 DEF SameThread
<1>6. Controls'
  BY <1>1, <1>2 DEF Core, Controls
<1>7. InHand'
  BY <1>1, <1>5, InHandKept DEF Core
<1>8. QED
  BY <1>1, <1>2, <1>3, <1>4, <1>5, <1>6, <1>7, CoreKept

LEMMA SendAckStep ==
    ASSUME Core, NEW t \in Conns \cup {Tick}, SendAck(t)
    PROVE  Core'
<1> DEFINE a == Head(sending[t])
           x == <<a.conn[1], a.about>>
<1>1. /\ sending[t] # <<>> /\ sending' = [sending EXCEPT ![t] = Tail(@)] /\ acked' = acked \cup {x}
      /\ UNCHANGED <<env, todo, conn, inbox, tpc, msg, at, partials, left, store, pending, taken, dropped>>
  BY DEF SendAck, clientVars, tickVars, intakeVars
<1>2. sending \in [Conns \cup {Tick} -> Seq(AckRecord)] /\ sending[t] \in Seq(AckRecord)
  BY DEF Core, Controls
<1>3. /\ a \in AckRecord /\ a \in Range(sending[t]) /\ Tail(sending[t]) \in Seq(AckRecord)
      /\ Range(Tail(sending[t])) \subseteq Range(sending[t])
  BY <1>1, <1>2, TailRange
<1>4. /\ sending' \in [Conns \cup {Tick} -> Seq(AckRecord)]
      /\ \A u \in Conns \cup {Tick} : Range(sending'[u]) \subseteq Range(sending[u])
  <2> DEFINE rest == Tail(sending[t])
  <2>1. sending' = [sending EXCEPT ![t] = rest]
    BY <1>1
  <2> HIDE DEF rest
  <2>2. QED
    BY <1>2, <1>3, <2>1 DEF rest
<1>5. Stores' /\ Grows /\ \A n \in Names : store'[n].open => store[n].open
  BY <1>1, StoresKept DEF Core
<1>6. x[1] \in Clients /\ x[2] \in DOMAIN env.script[x[1]] /\ MsgIn(env, x[1], x[2], SafeIn')
  <2> HIDE DEF a
  <2>1. Reads(env, a.conn[1], a.about) /\ MsgIn(env, a.conn[1], a.about, SafeIn)
    BY <1>3 DEF Core, Promised
  <2>2. a.conn[1] \in Clients /\ a.about \in DOMAIN env.script[a.conn[1]] /\ env \in Environments
    BY <1>3, <2>1 DEF AckRecord, Conns, Reads, Core, Controls
  <2>3. MsgIn(env, a.conn[1], a.about, SafeIn')
    BY <1>5, <2>1, <2>2, MsgGrows DEF Grows
  <2>4. QED
    BY <2>2, <2>3
<1> HIDE DEF x
<1>7. Promised'
  <2>1. \A b \in acked' : b \in acked \/ b = x
    BY <1>1
  <2>2. QED
    BY <1>1, <1>4, <1>5, <1>6, <2>1, PromisedMore DEF Core
<1>8. \A m \in Conns : SameThread(m)
  BY <1>1 DEF SameThread
<1>9. Controls'
  BY <1>1, <1>4 DEF Core, Controls
<1>10. InHand'
  BY <1>1, <1>8, InHandKept DEF Core
<1>11. QED
  BY <1>1, <1>5, <1>7, <1>8, <1>9, <1>10, CoreKept

LEMMA AllSentStep ==
    ASSUME Core, NEW k \in Conns, AllSent(k)
    PROVE  Core'
<1>1. /\ Goes(k, "reads")
      /\ UNCHANGED <<env, todo, conn, inbox, at, partials, sending, left, store, pending, taken,
                     acked, dropped>>
  BY DEF AllSent, clientVars, netVars, tickVars, intakeVars, history
<1>2. Stores' /\ Grows /\ \A n \in Names : store'[n].open => store[n].open
  BY <1>1, StoresKept DEF Core
<1>3. Promised'
  BY <1>1, <1>2, PromisedKept DEF Core
<1>4. /\ tpc' \in [Conns -> ThreadStates] /\ msg' \in [Conns -> Nat] /\ tpc'[k] = "reads"
      /\ \A m \in Conns \ {k} : tpc'[m] = tpc[m] /\ msg'[m] = msg[m]
  BY <1>1, GoesFacts DEF Core, ThreadStates
<1>5. \A m \in Conns : SameThread(m) \/ tpc'[m] \in Idle
  BY <1>1, <1>4 DEF SameThread, Idle
<1>6. Controls'
  BY <1>1, <1>4 DEF Core, Controls
<1>7. InHand'
  BY <1>1, <1>5, InHandKept DEF Core
<1>8. QED
  BY <1>1, <1>2, <1>3, <1>5, <1>6, <1>7, CoreKept

------------------------------------------------------------------------------
\* Forward: an entry is fed, and stored with what it completes unless its store is refused.
LEMMA NotRefused ==
    ASSUME NEW st, NEW n \in Names, NEW v, ~RefusedIn(st, n, v)
    PROVE  ~st[n].open => st[n].there \/ env.autoCreate
BY DEF RefusedIn, RefusedUnopened

LEMMA NeverRefused ==
    ASSUME AcksUndisturbed, Controls, Stores, Forward, NEW c \in Clients, NEW i \in DOMAIN env.script[c],
           Reads(env, c, i), StoreFrom(env, c, i) \notin Late(env), CanBe(env, StoreFrom(env, c, i))
    PROVE  ~Refused(StoreFrom(env, c, i), BatchOf(env, c, i).value)
<1> DEFINE n == StoreFrom(env, c, i)
           v == BatchOf(env, c, i).value
           s == store[n]
<1>1. env \in Environments /\ n \in Names /\ taken \subseteq env.taken
  BY MessageFacts DEF Controls, Stores, StoreFrom, BatchOf
<1>2. GoodStore(env, n, s)
  BY <1>1 DEF Stores
<1>3. \A w \in Routes(env, n) : w = v
  BY <1>1 DEF AcksUndisturbed, OneValueEach, Forward, Routes
<1>4. /\ s.open => s.routed = v
      /\ s.route \in {None, v}
  BY <1>2, <1>3 DEF GoodStore, Forward
<1>5. n \notin taken /\ (s.there \/ env.autoCreate)
  BY <1>1, <1>2 DEF Late, CanBe, GoodStore
<1> HIDE DEF s
<1>6. QED
  BY <1>4, <1>5 DEF Refused, RefusedIn, RefusedUnopened, s

LEMMA FeedStores ==
    ASSUME AcksUndisturbed, Core, NEW k \in Conns, Feed(k)
    PROVE  LET n == StoreFrom(env, k[1], msg[k])
               b == BatchOf(env, k[1], msg[k])
               out == Fed(partials[k], b.entries[at[k]], <<k[1], msg[k], 1, at[k]>>).out
           IN  /\ Stores' /\ Grows
               /\ \A m \in Names : store'[m].open /\ ~store[m].open => m = n /\ out # <<>> /\ ~Refused(n, b.value)
               /\ out # <<>> /\ ~Refused(n, b.value) => Range(out) \subseteq ComingIn'[n]
<1> DEFINE n == StoreFrom(env, k[1], msg[k])
           b == BatchOf(env, k[1], msg[k])
           v == b.value
           out == Fed(partials[k], b.entries[at[k]], <<k[1], msg[k], 1, at[k]>>).out
           s == store[n]
           t == Ensured(s, v)
<1>1. tpc[k] = "feeds" /\ Forward /\ Reads(env, k[1], msg[k]) /\ at[k] \in DOMAIN b.entries
  BY DEF Feed, Core, InHand
<1>2. /\ env \in Environments /\ k[1] \in Clients /\ msg[k] \in DOMAIN env.script[k[1]]
      /\ b = Batch(k, 1) /\ n = Target(k, 1) /\ n \in Names
  BY <1>1, HandFacts DEF Core
<1>3. v \in Values /\ b.entries \in Seq(EntryForm) /\ msg[k] \in Nat
  BY <1>2, MessageFacts DEF BatchOf
<1>4. /\ env' = env /\ left' = left /\ taken' = taken /\ dropped' = dropped
      /\ IF out = <<>> \/ Refused(n, v) THEN store' = store
         ELSE \E o \in Appended(t, Entry(v, out)) : store' = [store EXCEPT ![n] = o.store]
  <2>1. out = Fed(partials[k], Batch(k, 1).entries[at[k]], Place(k, 1, at[k])).out
    BY <1>2 DEF Place
  <2> HIDE DEF out
  <2>2. QED
    BY <1>2, <2>1 DEF Feed, tickVars, history
<1>5. out \in Seq(Position)
  <2>1. partials[k] \in [PartialIds -> Seq(Position)]
    BY DEF Core, Controls
  <2>2. b.entries[at[k]] \in EntryForm /\ at[k] \in Nat
    BY <1>1, <1>3, SeqElements
  <2>3. <<k[1], msg[k], 1, at[k]>> \in Position
    BY <1>2, <1>3, <2>2 DEF Position
  <2>4. QED
    BY <2>1, <2>2, <2>3, FedFacts
<1>6. store \in [Names -> StoreRecord] /\ \A m \in Names : GoodStore(env, m, store[m])
  BY DEF Core, Stores
<1> HIDE DEF n, b, out, t
<1>7. CASE out = <<>> \/ Refused(n, v)
  <2>1. Stores' /\ Grows /\ \A m \in Names : store'[m].open => store[m].open
    BY <1>4, <1>7, StoresKept DEF Core
  <2>2. QED
    BY <1>7, <2>1 DEF n, b, out
<1>8. CASE out # <<>> /\ ~Refused(n, v)
  <2>1. PICK o \in Appended(t, Entry(v, out)) : store' = [store EXCEPT ![n] = o.store]
    BY <1>4, <1>8
  <2>2. GoodStore(env, n, s) /\ StoreOK(s)
    BY <1>2, <1>6 DEF GoodStore
  <2>3. StoreOK(t) /\ t.open /\ Sure(s) \subseteq Sure(t) /\ Soon(s) \subseteq Soon(t)
    BY <1>3, <2>2, EnsuredFacts DEF t
  <2>4. GoodStore(env, n, t)
    <3>1. v \in Routes(env, n)
      BY <1>1, <1>2, <1>3 DEF Routes, n, b
    <3>2. ~s.open => s.there \/ env.autoCreate
      BY <1>2, <1>8, NotRefused DEF Refused
    <3>3. QED
      BY <1>2, <1>3, <2>2, <3>1, <3>2, GoodEnsured DEF t
  <2>5. Entry(v, out) \in EntryRecord /\ Entry(v, out).parts = out
    BY <1>3, <1>5 DEF Entry, EntryRecord
  <2>6. Better(t, o.store) /\ Range(out) \subseteq Soon(o.store)
    BY <1>2, <2>3, <2>5, AppendedFacts DEF AcksUndisturbed
  <2> DEFINE u == o.store
  <2>7. store' = [store EXCEPT ![n] = u] /\ Becomes(t, u, {})
    BY <2>1, <2>6 DEF Better
  <2>8. GoodStore(env, n, u) /\ u.open /\ u \in StoreRecord
    BY <1>2, <2>3, <2>4, <2>7, GoodBecomes DEF Becomes, StoreOK
  <2> HIDE DEF u
  <2>9. store' \in [Names -> StoreRecord] /\ \A m \in Names : store'[m] = IF m = n THEN u ELSE store[m]
    BY <1>6, <2>7, <2>8
  <2>10. Sure(s) \subseteq Sure(u) /\ Soon(s) \subseteq Soon(u)
    BY <2>3, <2>7 DEF Becomes
  <2>11. Grows
    <3>1. ASSUME NEW m \in Names
          PROVE  /\ SafeIn[m] \subseteq SafeIn'[m] /\ ComingIn[m] \subseteq ComingIn'[m]
                 /\ store[m].open => store'[m].open
      <4>1. CASE m = n
        BY <1>4, <2>8, <2>9, <2>10, <4>1, InAt
      <4>2. CASE m # n
        BY <1>4, <2>9, <4>2, InAt
      <4>3. QED
        BY <4>1, <4>2
    <3>2. QED
      BY <3>1 DEF Grows
  <2>12. Stores'
    <3>1. \A m \in Names : GoodStore(env, m, store'[m])
      BY <1>6, <2>8, <2>9
    <3>2. QED
      BY <1>4, <2>9, <2>11, <3>1 DEF Core, Stores, Grows
  <2>13. Range(out) \subseteq ComingIn'[n]
    BY <1>2, <2>6, <2>9, InAt DEF u
  <2>14. \A m \in Names : store'[m].open /\ ~store[m].open => m = n
    BY <2>9
  <2>15. QED
    BY <1>8, <2>11, <2>12, <2>13, <2>14 DEF n, b, out
<1>9. QED
  BY <1>7, <1>8

LEMMA FeedMoves ==
    ASSUME Core, NEW k \in Conns, Feed(k)
    PROVE  LET b == BatchOf(env, k[1], msg[k])
               fed == Fed(partials[k], b.entries[at[k]], <<k[1], msg[k], 1, at[k]>>)
           IN  /\ Controls' /\ InHand' /\ \A m \in Conns \ {k} : SameThread(m)
               /\ UNCHANGED <<env, sending, pending, acked>> /\ partials'[k] = fed.parts
               /\ \/ tpc'[k] \in Idle
                  \/ /\ tpc'[k] = "feeds" /\ msg'[k] = msg[k] /\ at'[k] = at[k] + 1
                     /\ at[k] \in DOMAIN b.entries
                  \/ /\ tpc'[k] = "pushes" /\ msg'[k] = msg[k] /\ at[k] = Len(b.entries)
<1> DEFINE b == BatchOf(env, k[1], msg[k])
           fed == Fed(partials[k], b.entries[at[k]], <<k[1], msg[k], 1, at[k]>>)
           atEnd == at[k] = Len(b.entries)
           next == IF atEnd THEN 0 ELSE at[k] + 1
           to == IF ~atEnd THEN "feeds" ELSE IF Message(k).chunk THEN "pushes" ELSE "reads"
           ps == fed.parts
<1>1. tpc[k] = "feeds" /\ Forward /\ Reads(env, k[1], msg[k]) /\ at[k] \in DOMAIN b.entries
  BY DEF Feed, Core, InHand
<1>2. /\ env \in Environments /\ k[1] \in Clients /\ msg[k] \in DOMAIN env.script[k[1]]
      /\ b = Batch(k, 1)
  BY <1>1, HandFacts DEF Core
<1>3. b.entries \in Seq(EntryForm) /\ msg[k] \in Nat
  BY <1>2, MessageFacts DEF BatchOf
<1>4. DOMAIN b.entries = 1 .. Len(b.entries) /\ Len(b.entries) \in Nat /\ b.entries[at[k]] \in EntryForm
      /\ at[k] \in Nat
  BY <1>1, <1>3, SeqElements
<1>5. /\ partials' = [partials EXCEPT ![k] = ps] /\ at' = [at EXCEPT ![k] = next] /\ Goes(k, to)
      /\ UNCHANGED <<env, todo, conn, inbox, sending, pending, acked>>
  <2>1. fed = Fed(partials[k], Batch(k, 1).entries[at[k]], Place(k, 1, at[k]))
    BY <1>2 DEF Place
  <2> HIDE DEF fed
  <2>2. QED
    BY <1>2, <2>1 DEF Feed, clientVars, netVars, history
<1>6. ps \in [PartialIds -> Seq(Position)]
  <2>1. partials[k] \in [PartialIds -> Seq(Position)]
    BY DEF Core, Controls
  <2>2. <<k[1], msg[k], 1, at[k]>> \in Position
    BY <1>2, <1>3, <1>4 DEF Position
  <2>3. QED
    BY <1>4, <2>1, <2>2, FedFacts
<1>7. partials \in [Conns -> [PartialIds -> Seq(Position)]] /\ at \in [Conns -> Nat]
  BY DEF Core, Controls
<1>8. next \in Nat /\ to \in ThreadStates
  BY <1>4 DEF ThreadStates
<1> HIDE DEF ps, next, to, fed, b
<1>9. /\ partials' \in [Conns -> [PartialIds -> Seq(Position)]] /\ partials'[k] = ps
      /\ at' \in [Conns -> Nat] /\ at'[k] = next
      /\ \A m \in Conns \ {k} : partials'[m] = partials[m] /\ at'[m] = at[m]
  BY <1>5, <1>6, <1>7, <1>8
<1>10. /\ tpc' \in [Conns -> ThreadStates] /\ msg' \in [Conns -> Nat] /\ tpc'[k] = to
       /\ to # "reads" => msg'[k] = msg[k]
       /\ \A m \in Conns \ {k} : tpc'[m] = tpc[m] /\ msg'[m] = msg[m]
  BY <1>5, <1>8, GoesFacts DEF Core
<1>11. Controls'
  <2>1. Controls
    BY DEF Core
  <2>2. QED
    BY <1>5, <1>9, <1>10, <2>1 DEF Controls
<1>12. \A m \in Conns \ {k} : SameThread(m)
  BY <1>9, <1>10 DEF SameThread
<1>13. CASE ~atEnd
  <2>1. to = "feeds" /\ next = at[k] + 1
    BY <1>13 DEF to, next
  <2>2. at'[k] \in DOMAIN b.entries
    BY <1>1, <1>4, <1>9, <1>13, <2>1
  <2>3. tpc'[k] = "feeds" /\ msg'[k] = msg[k] /\ at'[k] = at[k] + 1
    BY <1>9, <1>10, <2>1
  <2>4. InHand'
    BY <1>1, <1>5, <1>12, <2>2, <2>3, InHandGoes DEF Core, b
  <2>5. QED
    BY <1>1, <1>5, <1>9, <1>11, <1>12, <2>3, <2>4 DEF b, fed, ps
<1>14. CASE atEnd /\ Message(k).chunk
  <2>1. to = "pushes"
    BY <1>14 DEF to
  <2>2. tpc'[k] = "pushes" /\ msg'[k] = msg[k] /\ at[k] = Len(b.entries)
    BY <1>10, <1>14, <2>1
  <2>3. InHand'
    BY <1>1, <1>5, <1>12, <1>14, <2>2, InHandGoes DEF Core
  <2>4. QED
    BY <1>5, <1>9, <1>11, <1>12, <2>2, <2>3 DEF b, fed, ps
<1>15. CASE atEnd /\ ~Message(k).chunk
  <2>1. to = "reads"
    BY <1>15 DEF to
  <2>2. tpc'[k] \in Idle
    BY <1>10, <2>1 DEF Idle
  <2>3. InHand'
    BY <1>5, <1>12, <2>2, InHandKept DEF Core
  <2>4. QED
    BY <1>5, <1>9, <1>11, <1>12, <2>2, <2>3 DEF b, fed, ps
<1>16. QED
  BY <1>13, <1>14, <1>15

LEMMA FeedStep ==
    ASSUME AcksUndisturbed, Core, NEW k \in Conns, Feed(k)
    PROVE  Core'
<1> DEFINE c == k[1]
           i == msg[k]
           n == StoreFrom(env, c, i)
           b == BatchOf(env, c, i)
           m == at[k]
           fed == Fed(partials[k], b.entries[m], <<c, i, 1, m>>)
           out == fed.out
<1>1. /\ Controls' /\ InHand' /\ \A x \in Conns \ {k} : SameThread(x)
      /\ UNCHANGED <<env, sending, pending, acked>> /\ partials'[k] = fed.parts
      /\ \/ tpc'[k] \in Idle
         \/ tpc'[k] = "feeds" /\ msg'[k] = i /\ at'[k] = m + 1 /\ m \in DOMAIN b.entries
         \/ tpc'[k] = "pushes" /\ msg'[k] = i /\ m = Len(b.entries)
  BY FeedMoves
<1>2. /\ Stores' /\ Grows
      /\ \A x \in Names : store'[x].open /\ ~store[x].open => x = n /\ out # <<>> /\ ~Refused(n, b.value)
      /\ out # <<>> /\ ~Refused(n, b.value) => Range(out) \subseteq ComingIn'[n]
  BY FeedStores
<1>3. tpc[k] = "feeds" /\ Forward /\ Reads(env, c, i) /\ m \in DOMAIN b.entries
  BY DEF Feed, Core, InHand
<1>4. /\ env \in Environments /\ c \in Clients /\ i \in DOMAIN env.script[c] /\ n \in Names
      /\ Message(k) = env.script[c][i]
  BY <1>3, HandFacts DEF Core
<1>5. partials[k] \in [PartialIds -> Seq(Position)]
  BY DEF Core, Controls
<1>6. out # <<>> => <<c, i, 1, m>> \in Range(out)
  <2>1. b.entries \in Seq(EntryForm) /\ i \in Nat
    BY <1>4, MessageFacts DEF BatchOf
  <2>2. b.entries[m] \in EntryForm /\ m \in Nat
    BY <1>3, <2>1, SeqElements
  <2>3. <<c, i, 1, m>> \in Position
    BY <1>4, <2>1, <2>2 DEF Position
  <2>4. QED
    BY <1>5, <2>2, <2>3, FedFacts
<1>7. /\ OneValueEach(env) /\ SplitsClose(env) /\ LateIsOne(env)
  BY <1>3, <1>4 DEF AcksUndisturbed, Forward
<1>8. Promised'
  BY <1>1, <1>2, PromisedKept DEF Core
<1>9. LateHeld'
  <2>1. SUFFICES ASSUME NEW d \in Clients, NEW j \in DOMAIN env.script[d], Reads(env, d, j),
                        StoreFrom(env, d, j) \in Late(env), store'[StoreFrom(env, d, j)].open
                 PROVE  MsgIn(env, d, j, ComingIn')
    BY <1>1 DEF LateHeld
  <2>2. StoreFrom(env, d, j) \in Names
    BY <1>4, MessageFacts DEF StoreFrom, BatchOf
  <2>3. CASE store[StoreFrom(env, d, j)].open
    <3>1. MsgIn(env, d, j, ComingIn)
      BY <1>3, <2>1, <2>3 DEF Core, Threads, LateHeld
    <3>2. QED
      BY <1>2, <1>4, <3>1, MsgGrows DEF Grows
  <2>4. CASE ~store[StoreFrom(env, d, j)].open
    <3>1. StoreFrom(env, d, j) = n /\ out # <<>> /\ ~Refused(n, b.value)
      BY <1>2, <2>1, <2>2, <2>4
    <3>2. c = d /\ i = j /\ Len(b.entries) = 1
      BY <1>3, <1>4, <1>7, <2>1, <3>1 DEF LateIsOne
    <3>3. b.entries \in Seq(EntryForm)
      BY <1>4, MessageFacts DEF BatchOf
    <3>4. DOMAIN b.entries = {1}
      BY <3>2, <3>3, SeqElements
    <3>5. ASSUME NEW p \in PlacesIn(env, d, j)
          PROVE  p = <<d, j, 1, 1>> /\ Where(env, d, j, p) = n
      <4>1. /\ p = <<d, j, p[3], p[4]>> /\ p[3] = 1 /\ Where(env, d, j, p) = StoreFrom(env, d, j)
            /\ p[4] \in DOMAIN env.script[d][j].batches[p[3]].entries
        BY <1>3, <1>4, PlaceFacts DEF Forward
      <4>2. p[4] = 1
        BY <3>2, <3>4, <4>1 DEF BatchOf
      <4>3. QED
        BY <3>1, <4>1, <4>2
    <3>6. <<c, i, 1, 1>> \in ComingIn'[n]
      BY <1>2, <1>3, <1>6, <3>1, <3>4
    <3>7. QED
      BY <3>2, <3>5, <3>6 DEF MsgIn
  <2>5. QED
    BY <2>3, <2>4
<1>10. ASSUME Message(k).chunk, n \notin Late(env), CanBe(env, n)
       PROVE  FedSoFar(env, c, i, m + 1, fed.parts, ComingIn')
  <2>1. ~Refused(n, b.value)
    BY <1>3, <1>4, <1>10, NeverRefused DEF Core
  <2>2. Range(out) \subseteq ComingIn'[n]
    <3>1. Range(<<>>) = {}
      BY DEF Range
    <3>2. QED
      BY <1>2, <2>1, <3>1
  <2>3. FedSoFar(env, c, i, m, partials[k], ComingIn)
    BY <1>3, <1>10 DEF Core, Threads, Fated
  <2>4. ComingIn[n] \subseteq ComingIn'[n]
    BY <1>2, <1>4 DEF Grows
  <2>5. QED
    BY <1>3, <1>4, <1>5, <1>7, <1>10, <2>2, <2>3, <2>4, FedOne
<1>11. Fated(k)' /\ RequestKept(k)'
  <2>1. CASE tpc'[k] \in Idle
    BY <1>1, <1>2, <2>1, ThreadKept DEF Core, Threads
  <2>2. CASE tpc'[k] = "feeds" /\ msg'[k] = i /\ at'[k] = m + 1
    <3>1. Message(k)' = Message(k)
      BY <1>1, <2>2 DEF Message, Script
    <3>2. Fated(k)'
      BY <1>1, <1>10, <2>2, <3>1 DEF Fated
    <3>3. QED
      BY <2>2, <3>2 DEF RequestKept
  <2>3. CASE tpc'[k] = "pushes" /\ msg'[k] = i /\ m = Len(b.entries)
    <3>1. Message(k)' = Message(k)
      BY <1>1, <2>3 DEF Message, Script
    <3>2. ASSUME Message(k).chunk, n \notin Late(env), CanBe(env, n)
          PROVE  MsgIn(env, c, i, ComingIn')
      BY <1>3, <1>4, <1>10, <2>3, <3>2, FedAll DEF Forward
    <3>3. Fated(k)'
      BY <1>1, <2>3, <3>1, <3>2 DEF Fated
    <3>4. QED
      BY <2>3, <3>3 DEF RequestKept
  <2>4. QED
    BY <1>1, <2>1, <2>2, <2>3
<1>12. ASSUME NEW x \in Conns
       PROVE  Fated(x)' /\ RequestKept(x)'
  <2>1. CASE x = k
    BY <1>11, <2>1
  <2>2. CASE x # k
    BY <1>1, <1>2, <2>2, ThreadKept DEF Core, Threads
  <2>3. QED
    BY <2>1, <2>2
<1>13. QED
  BY <1>1, <1>2, <1>8, <1>9, <1>12 DEF Core, Threads

------------------------------------------------------------------------------
\* The maintenance thread, and what is outside.
\* A step of the stores alone, that opens and closes none.
LEMMA StoresStep ==
    ASSUME Core, Grows, store' \in [Names -> StoreRecord],
           \A n \in Names : GoodStore(env, n, store'[n]) /\ store'[n].open = store[n].open,
           \A n \in Names : <<"policy", n>> \in left' => store[n].open,
           UNCHANGED <<env, todo, conn, inbox, tpc, msg, at, partials, sending, pending, acked>>,
           taken' \subseteq taken
    PROVE  Core'
<1>1. Stores'
  BY DEF Core, Stores
<1>2. \A k \in Conns : SameThread(k)
  BY DEF SameThread
<1>3. Controls'
  BY DEF Core, Controls
<1>4. InHand'
  BY <1>2, InHandKept DEF Core
<1>5. Promised'
  BY PromisedKept DEF Core
<1>6. QED
  BY <1>1, <1>2, <1>3, <1>4, <1>5, CoreKept

\* ... of which all stores become what they should.
LEMMA AllBecome ==
    ASSUME Stores, NEW f, store' = [n \in Names |-> f[n]], dropped' = dropped,
           \A n \in Names : Better(store[n], f[n])
    PROVE  /\ Grows /\ store' \in [Names -> StoreRecord]
           /\ \A n \in Names : GoodStore(env, n, store'[n]) /\ store'[n].open = store[n].open
<1>1. \A n \in Names : Becomes(store[n], store'[n], {}) /\ GoodStore(env, n, store[n])
  BY DEF Better, Stores
<1>2. \A n \in Names : GoodStore(env, n, store'[n]) /\ store'[n].open = store[n].open
  BY <1>1, GoodBecomes
<1>3. store' \in [Names -> StoreRecord]
  BY <1>2 DEF GoodStore, StoreOK
<1>4. dropped' = dropped \cup {}
  OBVIOUS
<1>5. QED
  BY <1>1, <1>2, <1>3, <1>4, BecomesGrows

LEMMA TickStartsStep ==
    ASSUME Core, TickStarts
    PROVE  Core'
<1>1. /\ left' = {"policy", "sweep"} \X Open
      /\ UNCHANGED <<env, todo, conn, inbox, tpc, msg, at, partials, sending, pending, taken,
                     acked, dropped>>
  BY DEF TickStarts, clientVars, netVars, threadVars, history
<1>2. PICK os : /\ \A n \in Names : os[n] \in Ticked(store[n])
                /\ store' = [n \in Names |-> os[n].store]
  BY DEF TickStarts
<1> DEFINE f == [n \in Names |-> os[n].store]
<1>3. store' = [n \in Names |-> f[n]]
  BY <1>2
<1>4. \A n \in Names : Better(store[n], f[n])
  <2>1. TAKE n \in Names
  <2>2. StoreOK(store[n]) /\ os[n] \in Ticked(store[n]) /\ f[n] = os[n].store
    BY <1>2 DEF Core, Stores, GoodStore
  <2> HIDE DEF f
  <2>3. QED
    BY <2>2, TickedFacts
<1> HIDE DEF f
<1>5. /\ Grows /\ store' \in [Names -> StoreRecord]
      /\ \A n \in Names : GoodStore(env, n, store'[n]) /\ store'[n].open = store[n].open
  BY <1>1, <1>3, <1>4, AllBecome DEF Core
<1>6. \A n \in Names : <<"policy", n>> \in left' => store[n].open
  BY <1>1 DEF Open
<1>7. QED
  BY <1>1, <1>5, <1>6, StoresStep

LEMMA StopStep ==
    ASSUME Core, Stop
    PROVE  Core'
<1> DEFINE f == [n \in Names |-> IF n \in Open THEN Flushed(store[n]).store ELSE store[n]]
<1>1. /\ store' = f
      /\ UNCHANGED <<env, todo, conn, inbox, tpc, msg, at, partials, sending, left, pending, taken,
                     acked, dropped>>
  BY DEF Stop, clientVars, netVars, threadVars, history
<1>2. \A n \in Names : Better(store[n], f[n])
  <2>1. TAKE n \in Names
  <2>2. StoreOK(store[n])
    BY DEF Core, Stores, GoodStore
  <2>3. QED
    BY <2>2, FlushedFacts, BetterIsReflexive DEF Open
<1>3. store' = [n \in Names |-> f[n]]
  BY <1>1
<1> HIDE DEF f
<1>4. /\ Grows /\ store' \in [Names -> StoreRecord]
      /\ \A n \in Names : GoodStore(env, n, store'[n]) /\ store'[n].open = store[n].open
  BY <1>1, <1>2, <1>3, AllBecome DEF Core
<1>5. \A n \in Names : <<"policy", n>> \in left' => store[n].open
  BY <1>1 DEF Core, Stores
<1>6. QED
  BY <1>1, <1>4, <1>5, StoresStep

LEMMA PolicyStep ==
    ASSUME AcksUndisturbed, Core, NEW n \in Names, Policy(n)
    PROVE  Core'
<1>1. /\ <<"policy", n>> \in left /\ left' = left \ {<<"policy", n>>}
      /\ UNCHANGED <<env, todo, conn, inbox, tpc, msg, at, partials, sending, pending, taken, acked>>
  BY DEF Policy, clientVars, netVars, threadVars
<1>2. /\ env \in Environments /\ StoreOK(store[n]) /\ store[n].open
      /\ store[n].wal \/ "segment" \in env.troubles
  BY <1>1 DEF Core, Controls, Stores, GoodStore
<1>3. "rearm" \in env.troubles => Rearmed(store[n]) = store[n]
  BY <1>2 DEF AcksUndisturbed, Rearmed
<1>4. PICK m \in 0 .. Len(store[n].chunks) :
         /\ store' = [store EXCEPT ![n] = DropHead(store[n], m)]
         /\ dropped' = dropped \cup PartsBefore(store[n], m)
  <2>1. Len(store[n].chunks) \in Nat
    BY <1>2, StoreTypes DEF StoreOK
  <2>2. \A m \in 0 .. (IF env.retains THEN Len(store[n].chunks) ELSE 0) : m \in 0 .. Len(store[n].chunks)
    BY <2>1
  <2>3. PICK h \in 0 .. (IF env.retains THEN Len(store[n].chunks) ELSE 0),
             rearms \in {FALSE} \cup {"rearm" \in env.troubles} :
               LET s == IF rearms THEN Rearmed(store[n]) ELSE store[n] IN
               /\ store' = [store EXCEPT ![n] = DropHead(s, h)]
               /\ dropped' = dropped \cup PartsBefore(s, h)
    BY DEF Policy, PartsBefore
  <2> DEFINE r == IF rearms THEN Rearmed(store[n]) ELSE store[n]
  <2>4. r = store[n]
    <3>1. rearms => "rearm" \in env.troubles
      OBVIOUS
    <3>2. QED
      BY <1>3, <3>1
  <2>5. store' = [store EXCEPT ![n] = DropHead(r, h)] /\ dropped' = dropped \cup PartsBefore(r, h)
    BY <2>3
  <2> HIDE DEF r
  <2>6. h \in 0 .. Len(store[n].chunks)
    BY <2>2
  <2>7. QED
    BY <2>4, <2>5, <2>6
<1> DEFINE t == DropHead(store[n], m)
           gone == PartsBefore(store[n], m)
<1>5. Becomes(store[n], t, gone)
  BY <1>2, <1>4, DropFacts
<1>6. store' = [store EXCEPT ![n] = t] /\ dropped' = dropped \cup gone
  BY <1>4
<1> HIDE DEF t, gone
<1>7. /\ Grows /\ store' \in [Names -> StoreRecord]
      /\ \A x \in Names : GoodStore(env, x, store'[x]) /\ store'[x].open = store[x].open
  BY <1>5, <1>6, OneStoreGrows DEF Core
<1>8. \A x \in Names : <<"policy", x>> \in left' => store[x].open
  BY <1>1 DEF Core, Stores
<1>9. QED
  BY <1>1, <1>7, <1>8, StoresStep

LEMMA DeclareStep ==
    ASSUME Core, NEW n \in Names, Declare(n)
    PROVE  Core'
<1> DEFINE t == [store[n] EXCEPT !.there = TRUE]
<1>1. /\ n \in env.later /\ store' = [store EXCEPT ![n].there = TRUE]
      /\ UNCHANGED <<env, todo, conn, inbox, tpc, msg, at, partials, sending, left, pending, taken,
                     acked, dropped>>
  BY DEF Declare, clientVars, netVars, threadVars, tickVars, history
<1>2. store \in [Names -> StoreRecord] /\ \A m \in Names : GoodStore(env, m, store[m])
  BY DEF Core, Stores
<1>3. store' = [store EXCEPT ![n] = t]
  BY <1>1
<1>4. GoodStore(env, n, t) /\ t.open = store[n].open /\ Sure(t) = Sure(store[n]) /\ Soon(t) = Soon(store[n])
  BY <1>1, <1>2, GoodDeclared
<1> HIDE DEF t
<1>5. t \in StoreRecord
  BY <1>4 DEF GoodStore, StoreOK
<1>6. store' \in [Names -> StoreRecord] /\ \A m \in Names : store'[m] = IF m = n THEN t ELSE store[m]
  BY <1>2, <1>3, <1>5
<1>7. \A m \in Names : GoodStore(env, m, store'[m]) /\ store'[m].open = store[m].open
  BY <1>2, <1>4, <1>6
<1>8. Grows
  <2>1. ASSUME NEW m \in Names
        PROVE  /\ SafeIn[m] \subseteq SafeIn'[m] /\ ComingIn[m] \subseteq ComingIn'[m]
               /\ store[m].open => store'[m].open
    <3>1. Sure(store'[m]) = Sure(store[m]) /\ Soon(store'[m]) = Soon(store[m]) /\ store'[m].open = store[m].open
      BY <1>4, <1>6
    <3>2. QED
      BY <1>1, <3>1, InAt
  <2>2. QED
    BY <2>1 DEF Grows
<1>9. \A m \in Names : <<"policy", m>> \in left' => store[m].open
  BY <1>1 DEF Core, Stores
<1>10. QED
  BY <1>1, <1>6, <1>7, <1>8, <1>9, StoresStep

\* What leaves all of it as it was.
LEMMA RestStep ==
    ASSUME Core, TickEnds \/ Restart \/ \E n \in Names : Release(n)
    PROVE  Core'
<1>1. /\ UNCHANGED <<env, todo, conn, inbox, tpc, msg, at, partials, sending, left, store, pending,
                     acked, dropped>>
      /\ taken' \subseteq taken
  BY DEF TickEnds, Restart, Release, clientVars, netVars, threadVars, tickVars, intakeVars, history
<1>2. /\ Grows /\ store' \in [Names -> StoreRecord]
      /\ \A n \in Names : GoodStore(env, n, store'[n]) /\ store'[n].open = store[n].open
      /\ \A n \in Names : <<"policy", n>> \in left' => store[n].open
  BY <1>1, SameGrows DEF Core, Stores
<1>3. QED
  BY <1>1, <1>2, StoresStep

LEMMA GoneStep ==
    ASSUME Core, Gone
    PROVE  Core'
<1>1. /\ left' = {} /\ tpc' = [k \in Conns |-> None] /\ inbox' = [k \in Conns |-> <<>>]
      /\ partials' = [k \in Conns |-> NoPartials]
      /\ msg' = [k \in Conns |-> 0] /\ at' = [k \in Conns |-> 0]
      /\ sending' = [t \in Conns \cup {Tick} |-> <<>>]
      /\ pending' = [n \in Names |-> <<>>]
      /\ UNCHANGED <<env, todo, conn, taken, acked, dropped>>
  BY DEF Gone, clientVars, history
<1>2. PICK keeps :
         /\ \A n \in Names : keeps[n] \in Kept(n)
         /\ store' = [n \in Names |-> GoneTo(store[n], keeps[n])]
  BY DEF Gone, GoneTo
<1>3. ASSUME NEW n \in Names
      PROVE  /\ GoodStore(env, n, store'[n]) /\ ~store'[n].open /\ store'[n] \in StoreRecord
             /\ Sure(store[n]) \subseteq Sure(store'[n])
  <2>1. store'[n] = GoneTo(store[n], keeps[n])
    BY <1>2
  <2>2. GoodStore(env, n, store[n]) /\ StoreOK(store[n])
    BY DEF Core, Stores, GoodStore
  <2>3. keeps[n] \in (store[n].csynced .. Len(store[n].chunks)) \X (store[n].ssynced .. Len(store[n].sap))
    BY <1>2 DEF Kept
  <2>4. /\ StoreOK(store'[n]) /\ ~store'[n].open /\ store'[n].there = store[n].there
        /\ store'[n].route = store[n].route /\ Sure(store[n]) \subseteq Sure(store'[n])
    BY <2>1, <2>2, <2>3, GoneFacts
  <2>5. GoodStore(env, n, store'[n])
    BY <2>2, <2>4, GoodGone
  <2>6. QED
    BY <2>4, <2>5 DEF StoreOK
<1>4. store' \in [Names -> StoreRecord]
  BY <1>2, <1>3
<1>5. Stores'
  BY <1>1, <1>3, <1>4 DEF Core, Stores
<1>6. /\ \A k \in Conns : tpc'[k] = None /\ Range(inbox'[k]) = {}
      /\ \A t \in Conns \cup {Tick} : Range(sending'[t]) = {}
      /\ \A n \in Names : Range(pending'[n]) = {}
  BY <1>1 DEF Range
<1>7. Controls'
  <2>1. /\ tpc' \in [Conns -> ThreadStates] /\ msg' \in [Conns -> Nat] /\ at' \in [Conns -> Nat]
    BY <1>1 DEF ThreadStates
  <2>2. /\ inbox' \in [Conns -> Seq(Nat)] /\ sending' \in [Conns \cup {Tick} -> Seq(AckRecord)]
        /\ pending' \in [Names -> Seq(AckRecord)]
        /\ partials' \in [Conns -> [PartialIds -> Seq(Position)]]
    BY <1>1, EmptySeq DEF NoPartials
  <2>3. QED
    BY <1>1, <1>6, <2>1, <2>2 DEF Core, Controls
<1>8. InHand'
  <2>1. \A k \in Conns : tpc'[k] \in Idle
    BY <1>6 DEF Idle
  <2>2. QED
    BY <1>1, <2>1, InHandKept DEF Core
<1>9. Promised'
  <2>1. \A n \in Names : SafeIn[n] \subseteq SafeIn'[n]
    BY <1>1, <1>3, InAt
  <2>2. ASSUME NEW a \in acked'
        PROVE  a[1] \in Clients /\ a[2] \in DOMAIN env'.script[a[1]] /\ MsgIn(env', a[1], a[2], SafeIn')
    <3>1. a[1] \in Clients /\ a[2] \in DOMAIN env.script[a[1]] /\ MsgIn(env, a[1], a[2], SafeIn)
      BY <1>1 DEF Core, Promised
    <3>2. env \in Environments
      BY DEF Core, Controls
    <3>3. MsgIn(env, a[1], a[2], SafeIn')
      BY <2>1, <3>1, <3>2, MsgGrows
    <3>4. QED
      BY <1>1, <3>1, <3>3
  <2>3. QED
    BY <1>6, <2>2 DEF Promised
<1>10. Threads'
  <2>1. \A k \in Conns : Fated(k)' /\ RequestKept(k)'
    BY <1>6 DEF Fated, RequestKept, None
  <2>2. LateHeld'
    <3>1. \A c \in Clients : \A i \in DOMAIN env.script[c] : StoreFrom(env, c, i) \in Names
      BY MessageFacts DEF Core, Controls, StoreFrom, BatchOf
    <3>2. \A c \in Clients : \A i \in DOMAIN env.script[c] : ~store'[StoreFrom(env, c, i)].open
      BY <1>3, <3>1
    <3>3. QED
      BY <1>1, <3>2 DEF LateHeld
  <2>3. QED
    BY <2>1, <2>2 DEF Threads
<1>11. QED
  BY <1>5, <1>7, <1>8, <1>9, <1>10 DEF Core

------------------------------------------------------------------------------
\* OTLP.  A request's batches are made safe one after the other, and then it is answered.
LEMMA SyncStores ==
    ASSUME Core, NEW k \in Conns, SyncOne(k)
    PROVE  /\ env \in Environments /\ k[1] \in Clients /\ msg[k] \in DOMAIN env.script[k[1]]
           /\ Message(k) = env.script[k[1]][msg[k]]
           /\ at[k] \in DOMAIN Message(k).batches
           /\ UNCHANGED <<env, todo, conn, inbox, partials, sending, left, pending, taken, dropped>>
           /\ Grows /\ store' \in [Names -> StoreRecord]
           /\ \A m \in Names : GoodStore(env, m, store'[m]) /\ store'[m].open = store[m].open
           /\ \/ /\ tpc'[k] = "reads" /\ Goes(k, "reads") /\ at' = [at EXCEPT ![k] = 0]
                 /\ acked' = acked
              \/ /\ \A p \in PlacesIn(env, k[1], msg[k]) :
                       p[3] < at[k] + 1 => p \in SafeIn'[Where(env, k[1], msg[k], p)]
                 /\ \/ /\ at[k] # Len(Message(k).batches) /\ acked' = acked
                       /\ at' = [at EXCEPT ![k] = at[k] + 1] /\ Goes(k, "syncs")
                    \/ /\ at[k] = Len(Message(k).batches) /\ acked' = acked \cup {<<k[1], msg[k]>>}
                       /\ at' = [at EXCEPT ![k] = 0] /\ Goes(k, "reads")
<1> DEFINE n == Target(k, at[k])
<1>1. tpc[k] = "syncs" /\ ~Forward /\ Reads(env, k[1], msg[k]) /\ at[k] \in DOMAIN Message(k).batches
  BY DEF SyncOne, Core, InHand
<1>2. /\ env \in Environments /\ k[1] \in Clients /\ msg[k] \in DOMAIN env.script[k[1]]
      /\ Message(k) = env.script[k[1]][msg[k]]
      /\ n = StoreOf[Message(k).batches[at[k]].value] /\ n \in Names
  BY <1>1, HandFacts DEF Core
<1>3. UNCHANGED <<env, todo, conn, inbox, partials, sending, left, pending, taken, dropped>>
  BY DEF SyncOne, clientVars, tickVars
<1>4. PICK o \in MakeDurable(store[n]) :
         /\ store' = [store EXCEPT ![n] = o.store]
         /\ \/ /\ o.ok /\ at[k] # Len(Message(k).batches) /\ acked' = acked
               /\ at' = [at EXCEPT ![k] = at[k] + 1] /\ Goes(k, "syncs")
            \/ /\ at' = [at EXCEPT ![k] = 0] /\ Goes(k, "reads")
               /\ \/ acked' = acked
                  \/ /\ o.ok /\ at[k] = Len(Message(k).batches)
                     /\ acked' = acked \cup {<<k[1], msg[k]>>}
  BY DEF SyncOne
<1>5. store[n].open /\ StoreOK(store[n]) /\ store \in [Names -> StoreRecord]
  <2>1. store[n].open
    BY <1>1, <1>2 DEF Core, Threads, RequestKept
  <2>2. QED
    BY <1>2, <2>1 DEF Core, Stores, GoodStore
<1> HIDE DEF n
<1>6. Better(store[n], o.store) /\ (o.ok => Soon(store[n]) \subseteq Sure(o.store))
  BY <1>5, DurableFacts
<1> DEFINE s == o.store
<1>7. store' = [store EXCEPT ![n] = s] /\ Becomes(store[n], s, {})
  BY <1>4, <1>6 DEF Better
<1>8. o.ok => ComingIn[n] \subseteq SafeIn'[n]
  <2>1. store'[n] = o.store
    BY <1>2, <1>4, <1>5
  <2>2. QED
    BY <1>2, <1>3, <1>6, <2>1, InAt
<1> HIDE DEF s
<1>9. /\ Grows /\ store' \in [Names -> StoreRecord]
      /\ \A m \in Names : GoodStore(env, m, store'[m]) /\ store'[m].open = store[m].open
  <2>1. dropped' = dropped \cup {}
    BY <1>3
  <2>2. QED
    BY <1>2, <1>7, <2>1, OneStoreGrows DEF Core
<1>10. ASSUME o.ok, NEW p \in PlacesIn(env, k[1], msg[k]), p[3] < at[k] + 1
       PROVE  p \in SafeIn'[Where(env, k[1], msg[k], p)]
  <2>1. /\ Where(env, k[1], msg[k], p) \in Names /\ p[3] \in DOMAIN Message(k).batches
    BY <1>2, PlaceFacts
  <2>2. p[3] \in Nat /\ at[k] \in Nat
    BY <1>1, <1>2, <2>1, MessageFacts
  <2>3. CASE p[3] < at[k]
    <3>1. p \in SafeIn[Where(env, k[1], msg[k], p)]
      BY <1>1, <2>3 DEF Core, Threads, RequestKept
    <3>2. QED
      BY <1>9, <2>1, <3>1 DEF Grows
  <2>4. CASE p[3] = at[k]
    <3>1. Where(env, k[1], msg[k], p) = n
      BY <1>2, <2>4 DEF Where
    <3>2. p \in ComingIn[Where(env, k[1], msg[k], p)]
      BY <1>1 DEF Core, Threads, RequestKept, MsgIn
    <3>3. QED
      BY <1>8, <1>10, <3>1, <3>2
  <2>5. QED
    BY <1>10, <2>2, <2>3, <2>4
<1>11. Goes(k, "reads") => tpc'[k] = "reads"
  BY DEF Goes, Core, Controls
<1>12. QED
  BY <1>1, <1>2, <1>3, <1>4, <1>9, <1>10, <1>11

LEMMA SyncOneStep ==
    ASSUME Core, NEW k \in Conns, SyncOne(k)
    PROVE  Core'
<1> DEFINE bs == Message(k).batches
           x == <<k[1], msg[k]>>
<1>1. /\ env \in Environments /\ k[1] \in Clients /\ msg[k] \in DOMAIN env.script[k[1]]
      /\ Message(k) = env.script[k[1]][msg[k]] /\ at[k] \in DOMAIN bs
      /\ UNCHANGED <<env, todo, conn, inbox, partials, sending, left, pending, taken, dropped>>
      /\ Grows /\ store' \in [Names -> StoreRecord]
      /\ \A m \in Names : GoodStore(env, m, store'[m]) /\ store'[m].open = store[m].open
  BY SyncStores
<1>2. tpc[k] = "syncs" /\ ~Forward /\ Reads(env, k[1], msg[k])
  BY DEF SyncOne, Core, InHand
<1>3. bs \in Seq(BatchForm) /\ DOMAIN bs = 1 .. Len(bs) /\ Len(bs) \in Nat /\ at[k] \in Nat
  <2>1. bs \in Seq(BatchForm) /\ DOMAIN bs = 1 .. Len(bs) /\ Len(bs) \in Nat
    BY <1>2, HandBatches DEF Core
  <2>2. at[k] \in Nat
    BY DEF Core, Controls
  <2>3. QED
    BY <2>1, <2>2
<1>4. tpc \in [Conns -> ThreadStates] /\ at \in [Conns -> Nat]
  BY DEF Core, Controls
<1>5. Stores'
  BY <1>1 DEF Core, Stores
<1>6. CASE Goes(k, "syncs") /\ at' = [at EXCEPT ![k] = at[k] + 1] /\ at[k] # Len(bs) /\ acked' = acked
           /\ \A p \in PlacesIn(env, k[1], msg[k]) :
                 p[3] < at[k] + 1 => p \in SafeIn'[Where(env, k[1], msg[k], p)]
  <2>1. /\ tpc' \in [Conns -> ThreadStates] /\ msg' \in [Conns -> Nat] /\ tpc'[k] = "syncs"
        /\ msg'[k] = msg[k] /\ \A m \in Conns \ {k} : tpc'[m] = tpc[m] /\ msg'[m] = msg[m]
    BY <1>6, GoesFacts DEF Core, ThreadStates
  <2>2. at' \in [Conns -> Nat] /\ at'[k] = at[k] + 1 /\ \A m \in Conns \ {k} : at'[m] = at[m]
    BY <1>3, <1>4, <1>6
  <2>3. Controls'
    <3>1. Controls
      BY DEF Core
    <3>2. QED
      BY <1>1, <2>1, <2>2, <3>1 DEF Controls
  <2>4. \A m \in Conns \ {k} : SameThread(m)
    BY <1>1, <2>1, <2>2 DEF SameThread
  <2>5. at'[k] \in DOMAIN bs
    BY <1>1, <1>3, <1>6, <2>2
  <2>6. InHand'
    BY <1>1, <1>2, <2>1, <2>4, <2>5, InHandGoes DEF Core
  <2>7. Promised'
    BY <1>1, <1>6, PromisedKept DEF Core
  <2>8. LateHeld'
    BY <1>1, LateKept DEF Core, Threads
  <2>9. ASSUME NEW m \in Conns
        PROVE  Fated(m)' /\ RequestKept(m)'
    <3>1. CASE m # k
      BY <1>1, <2>4, <3>1, ThreadKept DEF Core, Threads
    <3>2. CASE m = k
      <4>1. Message(k)' = Message(k)
        BY <1>1, <2>1 DEF Message, Script
      <4>2. \A b \in DOMAIN bs : StoreOf[bs[b].value] \in Names /\ store[StoreOf[bs[b].value]].open
        BY <1>2, HandFacts DEF Core, Threads, RequestKept
      <4>3. MsgIn(env, k[1], msg[k], ComingIn')
        <5>1. MsgIn(env, k[1], msg[k], ComingIn)
          BY <1>2 DEF Core, Threads, RequestKept
        <5>2. QED
          BY <1>1, <5>1, MsgGrows DEF Grows
      <4>4. RequestKept(k)'
        BY <1>1, <1>6, <2>1, <2>2, <4>1, <4>2, <4>3 DEF RequestKept, Grows
      <4>5. Fated(k)'
        BY <2>1 DEF Fated
      <4>6. QED
        BY <3>2, <4>4, <4>5
    <3>3. QED
      BY <3>1, <3>2
  <2>10. QED
    BY <1>5, <2>3, <2>6, <2>7, <2>8, <2>9 DEF Core, Threads
<1>7. CASE Goes(k, "reads") /\ at' = [at EXCEPT ![k] = 0]
           /\ \/ acked' = acked
              \/ /\ acked' = acked \cup {x} /\ at[k] = Len(bs)
                 /\ \A p \in PlacesIn(env, k[1], msg[k]) :
                       p[3] < at[k] + 1 => p \in SafeIn'[Where(env, k[1], msg[k], p)]
  <2>1. /\ tpc' \in [Conns -> ThreadStates] /\ msg' \in [Conns -> Nat] /\ tpc'[k] = "reads"
        /\ \A m \in Conns \ {k} : tpc'[m] = tpc[m] /\ msg'[m] = msg[m]
    BY <1>7, GoesFacts DEF Core, ThreadStates
  <2>2. at' \in [Conns -> Nat] /\ \A m \in Conns \ {k} : at'[m] = at[m]
    BY <1>4, <1>7
  <2>3. Controls'
    <3>1. Controls
      BY DEF Core
    <3>2. QED
      BY <1>1, <2>1, <2>2, <3>1 DEF Controls
  <2>4. \A m \in Conns : SameThread(m) \/ tpc'[m] \in Idle
    BY <1>1, <2>1, <2>2 DEF SameThread, Idle
  <2>5. InHand'
    BY <1>1, <2>4, InHandKept DEF Core
  <2>6. Promised'
    <3>1. CASE acked' = acked
      BY <1>1, <3>1, PromisedKept DEF Core
    <3>2. CASE /\ acked' = acked \cup {x} /\ at[k] = Len(bs)
               /\ \A p \in PlacesIn(env, k[1], msg[k]) :
                     p[3] < at[k] + 1 => p \in SafeIn'[Where(env, k[1], msg[k], p)]
      <4>1. ASSUME NEW p \in PlacesIn(env, k[1], msg[k])
            PROVE  p[3] < at[k] + 1
        <5>1. p[3] \in DOMAIN bs
          BY <1>1, PlaceFacts
        <5>2. QED
          BY <1>3, <3>2, <5>1
      <4>2. MsgIn(env, k[1], msg[k], SafeIn')
        BY <3>2, <4>1 DEF MsgIn
      <4>3. x[1] = k[1] /\ x[2] = msg[k]
        OBVIOUS
      <4> HIDE DEF x
      <4>4. \A b \in acked' : b \in acked \/ b = x
        BY <3>2
      <4>5. QED
        BY <1>1, <4>2, <4>3, <4>4, PromisedMore DEF Core
    <3>3. QED
      BY <1>7, <3>1, <3>2
  <2>7. QED
    BY <1>1, <1>5, <2>3, <2>4, <2>5, <2>6, CoreKept
<1>8. QED
  BY <1>6, <1>7, SyncStores

\* A request's stores are opened, batch by batch up to one that is refused.
EnsureStep(acc, b) ==
    LET n == StoreOf[b.value] IN
    IF acc.refused \/ RefusedIn(acc.store, n, b.value) THEN [acc EXCEPT !.refused = TRUE]
    ELSE [acc EXCEPT !.store[n] = Ensured(@, b.value)]
AllEnsured(bs) == FoldLeft(EnsureStep, [store |-> store, refused |-> FALSE], bs)

Opened ==
    {acc \in [store : [Names -> StoreRecord], refused : BOOLEAN] :
        \A n \in Names :
            /\ GoodStore(env, n, acc.store[n]) /\ (store[n].open => acc.store[n].open)
            /\ Sure(store[n]) \subseteq Sure(acc.store[n]) /\ Soon(store[n]) \subseteq Soon(acc.store[n])}

LEMMA EnsureStepFacts ==
    ASSUME Controls, Stores, ~Forward, NEW acc \in Opened, NEW b \in BatchForm
    PROVE  LET next == EnsureStep(acc, b) IN
           /\ next \in Opened
           /\ ~next.refused => ~acc.refused /\ next.store[StoreOf[b.value]].open
           /\ \A n \in Names : acc.store[n].open => next.store[n].open
<1> DEFINE v == b.value
           n == StoreOf[v]
           next == EnsureStep(acc, b)
           s == acc.store[n]
           t == Ensured(s, v)
<1>1. v \in Values /\ n \in Names
  BY EnvironmentOf DEF Controls, BatchForm
<1>2. /\ acc \in [store : [Names -> StoreRecord], refused : BOOLEAN]
      /\ \A m \in Names :
            /\ GoodStore(env, m, acc.store[m]) /\ (store[m].open => acc.store[m].open)
            /\ Sure(store[m]) \subseteq Sure(acc.store[m]) /\ Soon(store[m]) \subseteq Soon(acc.store[m])
  BY DEF Opened
<1>3. CASE acc.refused \/ RefusedIn(acc.store, n, v)
  <2>1. next = [acc EXCEPT !.refused = TRUE]
    BY <1>3 DEF EnsureStep
  <2> HIDE DEF next
  <2>2. next.store = acc.store /\ next.refused /\ next \in [store : [Names -> StoreRecord], refused : BOOLEAN]
    BY <1>2, <2>1
  <2>3. next \in Opened
    BY <1>2, <2>2 DEF Opened
  <2>4. QED
    BY <2>2, <2>3 DEF next
<1>4. CASE ~acc.refused /\ ~RefusedIn(acc.store, n, v)
  <2>1. next = [acc EXCEPT !.store[n] = t]
    BY <1>4 DEF EnsureStep
  <2>2. GoodStore(env, n, s) /\ StoreOK(s)
    BY <1>1, <1>2 DEF GoodStore
  <2>3. /\ StoreOK(t) /\ t.open /\ Sure(s) \subseteq Sure(t) /\ Soon(s) \subseteq Soon(t)
    BY <1>1, <2>2, EnsuredFacts
  <2>4. GoodStore(env, n, t)
    <3>1. ~s.open => s.there \/ env.autoCreate
      BY <1>1, <1>4, NotRefused
    <3>2. QED
      BY <1>1, <2>2, <3>1, GoodEnsured DEF Forward
  <2>5. t \in StoreRecord
    BY <2>3 DEF StoreOK
  <2> HIDE DEF next, t, n, v
  <2>6. /\ next \in [store : [Names -> StoreRecord], refused : BOOLEAN]
        /\ next.refused = acc.refused
        /\ \A m \in Names : next.store[m] = IF m = n THEN t ELSE acc.store[m]
    BY <1>1, <1>2, <2>1, <2>5
  <2>7. next \in Opened
    BY <1>1, <1>2, <2>3, <2>4, <2>6 DEF Opened
  <2>8. next.store[n].open /\ \A m \in Names : acc.store[m].open => next.store[m].open
    BY <1>1, <2>3, <2>6
  <2>9. QED
    BY <1>4, <2>6, <2>7, <2>8 DEF next, n, v
<1>5. QED
  BY <1>3, <1>4

LEMMA EnsuredAll ==
    ASSUME Controls, Stores, ~Forward, NEW bs \in Seq(BatchForm)
    PROVE  /\ AllEnsured(bs) \in Opened
           /\ ~AllEnsured(bs).refused =>
                 \A b \in DOMAIN bs : AllEnsured(bs).store[StoreOf[bs[b].value]].open
<1> DEFINE n == Len(bs)
           base == [store |-> store, refused |-> FALSE]
           D == [p \in Opened \X (1 .. n) |-> EnsureStep(p[1], bs[p[2]])]
           Is(f) == f = [t \in SUBSET (1 .. n) |->
                           IF t = {} THEN base ELSE EnsureStep(f[t \ {Max(t)}], bs[Max(t)])]
<1>1. n \in Nat /\ DOMAIN bs = 1 .. n /\ \A i \in 1 .. n : bs[i] \in BatchForm
  BY SeqElements
<1>2. AllEnsured(bs) = (CHOOSE f : Is(f))[1 .. n]
  BY <1>1 DEF AllEnsured, FoldLeft, MapThenFoldSet
<1>3. base \in Opened
  BY DEF Opened, Stores
<1>4. D \in [Opened \X (1 .. n) -> Opened]
  BY <1>1, EnsureStepFacts
<1> HIDE DEF n, base
<1>5. IsStep(D, n, Opened)
  BY <1>4 DEF IsStep
<1>6. \A s \in Opened, i \in 1 .. n : D[<<s, i>>] = EnsureStep(s, bs[i])
  OBVIOUS
<1> HIDE DEF D
<1>7. \E f : Is(f)
  <2>1. PICK g : g \in [SUBSET (1 .. n) -> Opened] /\ IsFold(g, n, Opened, base, D)
    BY <1>1, <1>3, <1>5, FoldExists
  <2>2. ASSUME NEW t \in SUBSET (1 .. n)
        PROVE  g[t] = IF t = {} THEN base ELSE EnsureStep(g[t \ {Max(t)}], bs[Max(t)])
    <3>1. CASE t = {}
      BY <2>1, <3>1 DEF IsFold
    <3>2. CASE t # {}
      <4>1. t \ {Max(t)} \in SUBSET (1 .. n) /\ g[t \ {Max(t)}] \in Opened /\ Max(t) \in 1 .. n
        BY <1>1, <2>1, <3>2, GreatestOf
      <4>2. g[t] = D[<<g[t \ {Max(t)}], Max(t)>>]
        BY <2>1, <3>2, <4>1 DEF IsFold
      <4>3. QED
        BY <1>6, <3>2, <4>1, <4>2
    <3>3. QED
      BY <3>1, <3>2
  <2>3. Is(g)
    BY <2>1, <2>2
  <2> HIDE DEF Is
  <2>4. QED
    BY <2>3
<1>8. PICK f : Is(f) /\ AllEnsured(bs) = f[1 .. n]
  <2> HIDE DEF Is
  <2>1. QED
    BY <1>2, <1>7
<1>9. IsFold(f, n, Opened, base, D)
  <2>1. f[{}] = base
    BY <1>8
  <2>2. ASSUME NEW t \in SUBSET (1 .. n), t # {}, f[t \ {Max(t)}] \in Opened
        PROVE  f[t] = D[<<f[t \ {Max(t)}], Max(t)>>]
    <3>1. Max(t) \in 1 .. n
      BY <1>1, <2>2, GreatestOf
    <3>2. f[t] = EnsureStep(f[t \ {Max(t)}], bs[Max(t)])
      BY <1>8, <2>2
    <3>3. QED
      BY <1>6, <2>2, <3>1, <3>2
  <2>3. QED
    BY <2>1, <2>2 DEF IsFold
<1>10. PICK h : IsChain(h, n, Opened, base, D) /\ h[n] = f[1 .. n]
  BY <1>1, <1>3, <1>5, <1>9, FoldChain
<1>11. /\ \A i \in 0 .. n : h[i] \in Opened
       /\ \A i \in 1 .. n : h[i] = EnsureStep(h[i - 1], bs[i])
  <2>1. \A i \in 0 .. n : h[i] \in Opened
    BY <1>10 DEF IsChain
  <2>2. ASSUME NEW i \in 1 .. n PROVE h[i] = EnsureStep(h[i - 1], bs[i])
    <3>1. i - 1 \in 0 .. n
      BY <1>1
    <3>2. h[i] = D[<<h[i - 1], i>>] /\ h[i - 1] \in Opened
      BY <1>10, <2>1, <3>1 DEF IsChain
    <3>3. QED
      BY <1>6, <3>2
  <2>3. QED
    BY <2>1, <2>2
<1> DEFINE OpenTo(i) == ~h[i].refused => \A b \in 1 .. i : h[i].store[StoreOf[bs[b].value]].open
           T == {i \in Nat : i <= n => OpenTo(i)}
<1>12. 0 \in T
  OBVIOUS
<1>13. ASSUME NEW i \in Nat, i \in T PROVE i + 1 \in T
  <2>1. SUFFICES ASSUME i + 1 <= n PROVE OpenTo(i + 1)
    <3> HIDE DEF OpenTo
    <3>1. QED
      OBVIOUS
  <2>2. OpenTo(i)
    <3> HIDE DEF OpenTo
    <3>1. QED
      BY <1>1, <1>13, <2>1
  <2>3. i + 1 \in 1 .. n /\ i \in 0 .. n /\ (i + 1) - 1 = i
    BY <1>1, <2>1
  <2>4. h[i + 1] = EnsureStep(h[i], bs[i + 1]) /\ h[i] \in Opened /\ bs[i + 1] \in BatchForm
    BY <1>1, <1>11, <2>3
  <2>5. /\ ~h[i + 1].refused => ~h[i].refused /\ h[i + 1].store[StoreOf[bs[i + 1].value]].open
        /\ \A m \in Names : h[i].store[m].open => h[i + 1].store[m].open
    BY <2>4, EnsureStepFacts
  <2>6. ASSUME ~h[i + 1].refused, NEW b \in 1 .. i + 1 PROVE h[i + 1].store[StoreOf[bs[b].value]].open
    <3>1. CASE b = i + 1
      BY <2>5, <2>6, <3>1
    <3>2. CASE b # i + 1
      <4>1. b \in 1 .. i /\ b \in 1 .. n
        BY <1>1, <2>1, <3>2
      <4>2. StoreOf[bs[b].value] \in Names
        BY <1>1, <4>1, EnvironmentOf DEF Controls, BatchForm
      <4>3. QED
        BY <2>2, <2>5, <2>6, <4>1, <4>2
    <3>3. QED
      BY <3>1, <3>2
  <2>7. QED
    BY <2>6
<1>14. OpenTo(n)
  <2> HIDE DEF OpenTo
  <2>1. Nat \subseteq T
    <3> HIDE DEF T
    <3>1. QED
      BY <1>12, <1>13, SetInduction
  <2>2. QED
    BY <1>1, <2>1
<1>15. AllEnsured(bs) = h[n] /\ h[n] \in Opened
  <2>1. n \in 0 .. n
    BY <1>1
  <2>2. QED
    BY <1>8, <1>10, <1>11, <2>1
<1>16. QED
  BY <1>1, <1>14, <1>15

LEMMA EnsureStepCore ==
    ASSUME Core, NEW k \in Conns, Ensure(k)
    PROVE  Core'
<1> DEFINE bs == Message(k).batches
           all == AllEnsured(bs)
<1>1. tpc[k] = "ensures" /\ ~Forward /\ Reads(env, k[1], msg[k]) /\ at[k] = 1
  BY DEF Ensure, Core, InHand
<1>2. /\ env \in Environments /\ k[1] \in Clients /\ msg[k] \in DOMAIN env.script[k[1]]
      /\ Message(k) = env.script[k[1]][msg[k]]
  BY <1>1, HandFacts DEF Core
<1>3. /\ UNCHANGED <<env, todo, conn, inbox, partials, sending, left, pending, taken, acked, dropped>>
  BY DEF Ensure, clientVars, tickVars, history
<1>4. /\ store' = all.store
      /\ IF all.refused THEN Goes(k, "reads") ELSE Goes(k, "appends")
      /\ at' = [at EXCEPT ![k] = IF all.refused THEN 0 ELSE @]
  BY DEF Ensure, AllEnsured, EnsureStep, FoldLeft, MapThenFoldSet
<1>5. bs \in Seq(BatchForm)
  BY <1>2, MessageFacts
<1>6. all \in Opened /\ (~all.refused => \A b \in DOMAIN bs : all.store[StoreOf[bs[b].value]].open)
  BY <1>1, <1>5, EnsuredAll DEF Core
<1> HIDE DEF all
<1>7. /\ store' \in [Names -> StoreRecord] /\ all.refused \in BOOLEAN
      /\ \A n \in Names :
            /\ GoodStore(env, n, store'[n]) /\ (store[n].open => store'[n].open)
            /\ Sure(store[n]) \subseteq Sure(store'[n]) /\ Soon(store[n]) \subseteq Soon(store'[n])
  BY <1>4, <1>6 DEF Opened
<1>8. Grows
  BY <1>3, <1>7, InAt DEF Grows
<1>9. Stores'
  BY <1>3, <1>7 DEF Core, Stores
<1>10. tpc \in [Conns -> ThreadStates] /\ at \in [Conns -> Nat]
  BY DEF Core, Controls
<1>11. at' \in [Conns -> Nat] /\ \A m \in Conns \ {k} : at'[m] = at[m]
  BY <1>4, <1>7, <1>10
<1>12. /\ tpc' \in [Conns -> ThreadStates] /\ msg' \in [Conns -> Nat]
       /\ \A m \in Conns \ {k} : tpc'[m] = tpc[m] /\ msg'[m] = msg[m]
       /\ \/ tpc'[k] = "reads"
          \/ tpc'[k] = "appends" /\ msg'[k] = msg[k] /\ ~all.refused /\ at'[k] = 1
  <2>1. CASE all.refused
    BY <1>4, <2>1, GoesFacts DEF Core, ThreadStates
  <2>2. CASE ~all.refused
    <3>1. Goes(k, "appends") /\ at'[k] = 1
      BY <1>1, <1>4, <1>10, <2>2
    <3>2. "appends" \in ThreadStates
      BY DEF ThreadStates
    <3>3. QED
      BY <2>2, <3>1, <3>2, GoesFacts DEF Core
  <2>3. QED
    BY <1>7, <2>1, <2>2
<1>13. Controls'
  <2>1. Controls
    BY DEF Core
  <2>2. QED
    BY <1>3, <1>11, <1>12, <2>1 DEF Controls
<1>14. \A m \in Conns \ {k} : SameThread(m)
  BY <1>3, <1>11, <1>12 DEF SameThread
<1>15. Promised'
  BY <1>3, <1>8, PromisedKept DEF Core
<1>16. LateHeld'
  BY <1>1, <1>3 DEF LateHeld, Forward
<1>17. InHand'
  <2>1. CASE tpc'[k] = "reads"
    BY <1>3, <1>14, <2>1, InHandKept DEF Core, Idle
  <2>2. CASE tpc'[k] = "appends" /\ msg'[k] = msg[k] /\ at'[k] = 1
    BY <1>1, <1>3, <1>14, <2>2, InHandGoes DEF Core
  <2>3. QED
    BY <1>12, <2>1, <2>2
<1>18. ASSUME NEW m \in Conns
       PROVE  Fated(m)' /\ RequestKept(m)'
  <2>1. CASE m # k \/ tpc'[m] \in Idle
    BY <1>3, <1>8, <1>14, <2>1, ThreadKept DEF Core, Threads
  <2>2. CASE m = k /\ tpc'[k] = "appends" /\ msg'[k] = msg[k] /\ ~all.refused
    <3>1. Message(k)' = Message(k)
      BY <1>3, <2>2 DEF Message, Script
    <3>2. \A b \in DOMAIN bs : store'[StoreOf[bs[b].value]].open
      BY <1>4, <1>6, <2>2
    <3>3. RequestKept(k)'
      BY <2>2, <3>1, <3>2 DEF RequestKept
    <3>4. Fated(k)'
      BY <2>2 DEF Fated
    <3>5. QED
      BY <2>2, <3>3, <3>4
  <2>3. QED
    BY <1>12, <2>1, <2>2 DEF Idle
<1>19. QED
  BY <1>9, <1>13, <1>15, <1>16, <1>17, <1>18 DEF Core, Threads

------------------------------------------------------------------------------
\* OTLP.  A request's entries are appended, each whatever became of those before it.
AppendOne(a, e) ==
    {[store |-> [a.store EXCEPT ![StoreOf[e.value]] = o.store],
      rejected |-> a.rejected \/ ~o.ok, cost |-> a.cost + o.cost] :
        o \in Appended(a.store[StoreOf[e.value]], e)}
AppendStep(acc, e) == UNION {AppendOne(a, e) : a \in acc}
AllAppended(es) ==
    FoldLeft(AppendStep, {[store |-> store, rejected |-> FALSE, cost |-> 0]}, es)

Outcome == [store : [Names -> StoreRecord], rejected : BOOLEAN, cost : Nat]
Written == {a \in Outcome : \A n \in Names : Better(store[n], a.store[n])}

LEMMA AppendedForm ==
    ASSUME NEW s, NEW e, NEW o \in Appended(s, e)
    PROVE  o.ok \in BOOLEAN /\ o.cost \in Nat
<1>1. ASSUME NEW t, NEW x, x = Fine(t) \/ x = Failed(t)
      PROVE  x.ok \in BOOLEAN /\ x.cost \in Nat
  <2>1. CASE x = Fine(t)
    <3>1. x.ok = TRUE /\ x.cost = 0
      BY <2>1 DEF Fine
    <3>2. x.ok \in BOOLEAN
      BY <3>1, Zenon
    <3>3. QED
      BY <3>1, <3>2
  <2>2. CASE x = Failed(t)
    <3>1. x.ok = FALSE /\ x.cost = 1
      BY <2>2 DEF Failed
    <3>2. x.ok \in BOOLEAN
      BY <3>1, Zenon
    <3>3. QED
      BY <3>1, <3>2
  <2>3. QED
    BY <1>1, <2>1, <2>2
<1>2. ASSUME NEW t, NEW x \in FlushChunk(t) PROVE x.ok \in BOOLEAN /\ x.cost \in Nat
  <2> DEFINE fine == Fine([LandedSynced(t) EXCEPT !.wal = FALSE])
  <2>1. \/ \E u : x = Fine(u) \/ x = Failed(u)
        \/ x = [fine EXCEPT !.cost = 1]
    BY <1>2 DEF FlushChunk, Meets
  <2>2. CASE \E u : x = Fine(u) \/ x = Failed(u)
    BY <1>1, <2>2
  <2>3. CASE x = [fine EXCEPT !.cost = 1]
    <3>1. fine = [store |-> [LandedSynced(t) EXCEPT !.wal = FALSE], ok |-> TRUE, cost |-> 0]
      BY DEF Fine
    <3> HIDE DEF fine
    <3>2. x.ok = TRUE /\ x.cost = 1
      BY <2>3, <3>1
    <3>3. x.ok \in BOOLEAN
      BY <3>2, Zenon
    <3>4. QED
      BY <3>2, <3>3
  <2>4. QED
    BY <2>1, <2>2, <2>3
<1>3. \/ \E t : o \in FlushChunk(t)
      \/ \E t : o = Fine(t) \/ o = Failed(t)
  BY DEF Appended, Meets
<1>4. QED
  BY <1>1, <1>2, <1>3

LEMMA AppendOneFacts ==
    ASSUME "append" \notin env.troubles, NEW a \in Written, NEW e \in EntryRecord,
           StoreOf[e.value] \in Names, store[StoreOf[e.value]].open, NEW x \in AppendOne(a, e)
    PROVE  /\ x \in Written /\ Range(e.parts) \subseteq Soon(x.store[StoreOf[e.value]])
           /\ \A n \in Names : Soon(a.store[n]) \subseteq Soon(x.store[n])
<1> DEFINE n == StoreOf[e.value]
<1>1. /\ a \in Outcome /\ \A m \in Names : Better(store[m], a.store[m])
  BY DEF Written
<1>2. PICK o \in Appended(a.store[n], e) :
         x = [store |-> [a.store EXCEPT ![n] = o.store],
              rejected |-> a.rejected \/ ~o.ok, cost |-> a.cost + o.cost]
  BY DEF AppendOne
<1>3. o.ok \in BOOLEAN /\ o.cost \in Nat
  BY <1>2, AppendedForm
<1> HIDE DEF n
<1>4. StoreOK(a.store[n]) /\ a.store[n].open /\ n \in Names
  BY <1>1 DEF Better, Becomes, SameStore, n
<1>5. Better(a.store[n], o.store) /\ Range(e.parts) \subseteq Soon(o.store)
  BY <1>2, <1>4, AppendedFacts
<1>6. o.store \in StoreRecord
  BY <1>5 DEF Better, Becomes, StoreOK
<1>7. a.store \in [Names -> StoreRecord] /\ a.cost \in Nat
  BY <1>1 DEF Outcome
<1> DEFINE t == o.store
           f == [a.store EXCEPT ![n] = t]
           r == a.rejected \/ ~o.ok
           cost == a.cost + o.cost
<1>8. x = [store |-> f, rejected |-> r, cost |-> cost] /\ r \in BOOLEAN /\ cost \in Nat
  BY <1>2, <1>3, <1>7
<1>9. f \in [Names -> StoreRecord] /\ \A m \in Names : f[m] = IF m = n THEN t ELSE a.store[m]
  BY <1>6, <1>7
<1> HIDE DEF f, r, cost
<1>10. x \in Outcome /\ x.store = f
  BY <1>8, <1>9 DEF Outcome
<1>11. ASSUME NEW m \in Names
       PROVE  Better(store[m], f[m]) /\ Soon(a.store[m]) \subseteq Soon(f[m])
  <2>1. CASE m = n
    <3>1. Better(store[n], t)
      BY <1>1, <1>4, <1>5, BetterIsTransitive
    <3>2. QED
      BY <1>5, <1>9, <2>1, <3>1 DEF Better, Becomes
  <2>2. CASE m # n
    BY <1>1, <1>9, <2>2
  <2>3. QED
    BY <2>1, <2>2
<1>12. Range(e.parts) \subseteq Soon(f[n])
  BY <1>4, <1>5, <1>9
<1>13. QED
  BY <1>10, <1>11, <1>12 DEF Written, n

LEMMA AppendStepFacts ==
    ASSUME "append" \notin env.troubles, NEW acc \in SUBSET Written, NEW e \in EntryRecord,
           StoreOf[e.value] \in Names, store[StoreOf[e.value]].open
    PROVE  /\ AppendStep(acc, e) \in SUBSET Written
           /\ \A x \in AppendStep(acc, e) :
                 /\ Range(e.parts) \subseteq Soon(x.store[StoreOf[e.value]])
                 /\ \E a \in acc : \A n \in Names : Soon(a.store[n]) \subseteq Soon(x.store[n])
<1>1. \A x \in AppendStep(acc, e) : \E a \in acc : x \in AppendOne(a, e)
  BY DEF AppendStep
<1>2. ASSUME NEW x \in AppendStep(acc, e)
      PROVE  /\ x \in Written /\ Range(e.parts) \subseteq Soon(x.store[StoreOf[e.value]])
             /\ \E a \in acc : \A n \in Names : Soon(a.store[n]) \subseteq Soon(x.store[n])
  <2>1. PICK a \in acc : x \in AppendOne(a, e)
    BY <1>1
  <2>2. QED
    BY <2>1, AppendOneFacts
<1>3. QED
  BY <1>2

LEMMA AppendedAll ==
    ASSUME Stores, "append" \notin env.troubles, NEW es \in Seq(EntryRecord),
           \A i \in DOMAIN es : StoreOf[es[i].value] \in Names /\ store[StoreOf[es[i].value]].open
    PROVE  /\ AllAppended(es) \in SUBSET Written
           /\ \A a \in AllAppended(es) : \A i \in DOMAIN es :
                 Range(es[i].parts) \subseteq Soon(a.store[StoreOf[es[i].value]])
<1> DEFINE n == Len(es)
           S == SUBSET Written
           base == {[store |-> store, rejected |-> FALSE, cost |-> 0]}
           D == [p \in S \X (1 .. n) |-> AppendStep(p[1], es[p[2]])]
           Is(f) == f = [t \in SUBSET (1 .. n) |->
                           IF t = {} THEN base ELSE AppendStep(f[t \ {Max(t)}], es[Max(t)])]
<1>1. n \in Nat /\ DOMAIN es = 1 .. n /\ \A i \in 1 .. n : es[i] \in EntryRecord
  BY SeqElements
<1>2. AllAppended(es) = (CHOOSE f : Is(f))[1 .. n]
  BY <1>1 DEF AllAppended, FoldLeft, MapThenFoldSet
<1>3. base \in S
  <2> DEFINE a == [store |-> store, rejected |-> FALSE, cost |-> 0]
  <2>1. a \in Outcome /\ a.store = store
    BY DEF Outcome, Stores
  <2>2. \A m \in Names : Better(store[m], store[m])
    BY BetterIsReflexive DEF Stores, GoodStore
  <2> HIDE DEF a
  <2>3. a \in Written
    BY <2>1, <2>2 DEF Written
  <2>4. QED
    BY <2>3 DEF a
<1> HIDE DEF S
<1>4. D \in [S \X (1 .. n) -> S]
  BY <1>1, AppendStepFacts DEF S
<1> HIDE DEF n, base
<1>5. IsStep(D, n, S)
  BY <1>4 DEF IsStep
<1>6. \A s \in S, i \in 1 .. n : D[<<s, i>>] = AppendStep(s, es[i])
  OBVIOUS
<1> HIDE DEF D
<1>7. \E f : Is(f)
  <2>1. PICK g : g \in [SUBSET (1 .. n) -> S] /\ IsFold(g, n, S, base, D)
    BY <1>1, <1>3, <1>5, FoldExists
  <2>2. ASSUME NEW t \in SUBSET (1 .. n)
        PROVE  g[t] = IF t = {} THEN base ELSE AppendStep(g[t \ {Max(t)}], es[Max(t)])
    <3>1. CASE t = {}
      BY <2>1, <3>1 DEF IsFold
    <3>2. CASE t # {}
      <4>1. t \ {Max(t)} \in SUBSET (1 .. n) /\ g[t \ {Max(t)}] \in S /\ Max(t) \in 1 .. n
        BY <1>1, <2>1, <3>2, GreatestOf
      <4>2. g[t] = D[<<g[t \ {Max(t)}], Max(t)>>]
        BY <2>1, <3>2, <4>1 DEF IsFold
      <4>3. QED
        BY <1>6, <3>2, <4>1, <4>2
    <3>3. QED
      BY <3>1, <3>2
  <2>3. Is(g)
    BY <2>1, <2>2
  <2> HIDE DEF Is
  <2>4. QED
    BY <2>3
<1>8. PICK f : Is(f) /\ AllAppended(es) = f[1 .. n]
  <2> HIDE DEF Is
  <2>1. QED
    BY <1>2, <1>7
<1>9. IsFold(f, n, S, base, D)
  <2>1. f[{}] = base
    BY <1>8
  <2>2. ASSUME NEW t \in SUBSET (1 .. n), t # {}, f[t \ {Max(t)}] \in S
        PROVE  f[t] = D[<<f[t \ {Max(t)}], Max(t)>>]
    <3>1. Max(t) \in 1 .. n
      BY <1>1, <2>2, GreatestOf
    <3>2. f[t] = AppendStep(f[t \ {Max(t)}], es[Max(t)])
      BY <1>8, <2>2
    <3>3. QED
      BY <1>6, <2>2, <3>1, <3>2
  <2>3. QED
    BY <2>1, <2>2 DEF IsFold
<1>10. PICK h : IsChain(h, n, S, base, D) /\ h[n] = f[1 .. n]
  BY <1>1, <1>3, <1>5, <1>9, FoldChain
<1>11. /\ \A i \in 0 .. n : h[i] \in S
       /\ \A i \in 1 .. n : h[i] = AppendStep(h[i - 1], es[i])
  <2>1. \A i \in 0 .. n : h[i] \in S
    BY <1>10 DEF IsChain
  <2>2. ASSUME NEW i \in 1 .. n PROVE h[i] = AppendStep(h[i - 1], es[i])
    <3>1. i - 1 \in 0 .. n
      BY <1>1
    <3>2. h[i] = D[<<h[i - 1], i>>] /\ h[i - 1] \in S
      BY <1>10, <2>1, <3>1 DEF IsChain
    <3>3. QED
      BY <1>6, <3>2
  <2>3. QED
    BY <2>1, <2>2
<1> DEFINE HasAll(i) == \A a \in h[i] : \A j \in 1 .. i :
                            Range(es[j].parts) \subseteq Soon(a.store[StoreOf[es[j].value]])
           T == {i \in Nat : i <= n => HasAll(i)}
<1>12. 0 \in T
  OBVIOUS
<1>13. ASSUME NEW i \in Nat, i \in T PROVE i + 1 \in T
  <2>1. SUFFICES ASSUME i + 1 <= n PROVE HasAll(i + 1)
    <3> HIDE DEF HasAll
    <3>1. QED
      OBVIOUS
  <2>2. HasAll(i)
    <3> HIDE DEF HasAll
    <3>1. QED
      BY <1>1, <1>13, <2>1
  <2>3. i + 1 \in 1 .. n /\ i \in 0 .. n /\ (i + 1) - 1 = i
    BY <1>1, <2>1
  <2>4. h[i + 1] = AppendStep(h[i], es[i + 1]) /\ h[i] \in SUBSET Written /\ es[i + 1] \in EntryRecord
    BY <1>1, <1>11, <2>3 DEF S
  <2>5. ASSUME NEW a \in h[i + 1], NEW j \in 1 .. i + 1
        PROVE  Range(es[j].parts) \subseteq Soon(a.store[StoreOf[es[j].value]])
    <3>1. StoreOf[es[i + 1].value] \in Names /\ store[StoreOf[es[i + 1].value]].open
      BY <1>1, <2>3
    <3>2. /\ Range(es[i + 1].parts) \subseteq Soon(a.store[StoreOf[es[i + 1].value]])
          /\ \E b \in h[i] : \A m \in Names : Soon(b.store[m]) \subseteq Soon(a.store[m])
      <4> DEFINE acc == h[i]
                 e == es[i + 1]
                 next == h[i + 1]
      <4>1. acc \in SUBSET Written /\ e \in EntryRecord /\ next = AppendStep(acc, e) /\ a \in next
        BY <2>4, <2>5
      <4>2. StoreOf[e.value] \in Names /\ store[StoreOf[e.value]].open
        BY <3>1
      <4> HIDE DEF acc, e, next
      <4>3. /\ Range(e.parts) \subseteq Soon(a.store[StoreOf[e.value]])
            /\ \E b \in acc : \A m \in Names : Soon(b.store[m]) \subseteq Soon(a.store[m])
        BY <4>1, <4>2, AppendStepFacts
      <4>4. QED
        BY <4>3 DEF acc, e
    <3>3. CASE j = i + 1
      BY <3>2, <3>3
    <3>4. CASE j # i + 1
      <4>1. PICK b \in h[i] : \A m \in Names : Soon(b.store[m]) \subseteq Soon(a.store[m])
        BY <3>2
      <4>2. j \in 1 .. i /\ j \in 1 .. n
        BY <1>1, <2>1, <3>4
      <4>3. StoreOf[es[j].value] \in Names
        BY <1>1, <4>2
      <4>4. Range(es[j].parts) \subseteq Soon(b.store[StoreOf[es[j].value]])
        BY <2>2, <4>2
      <4>5. QED
        BY <4>1, <4>3, <4>4
    <3>5. QED
      BY <3>3, <3>4
  <2>6. QED
    BY <2>5
<1>14. HasAll(n)
  <2> HIDE DEF HasAll
  <2>1. Nat \subseteq T
    <3> HIDE DEF T
    <3>1. QED
      BY <1>12, <1>13, SetInduction
  <2>2. QED
    BY <1>1, <2>1
<1>15. AllAppended(es) = h[n] /\ h[n] \in S
  <2>1. n \in 0 .. n
    BY <1>1
  <2>2. QED
    BY <1>8, <1>10, <1>11, <2>1
<1>16. QED
  BY <1>1, <1>14, <1>15 DEF S

\* The entries of a request's batches, one after the other.
EntriesOf(k, bs) ==
    FlattenSeq([b \in 1 .. Len(bs) |->
        [j \in 1 .. Len(bs[b].entries) |-> Entry(bs[b].value, <<Place(k, b, j)>>)]])

LEMMA EntriesFacts ==
    ASSUME Controls, NEW k \in Conns, Reads(env, k[1], msg[k])
    PROVE  LET bs == Message(k).batches
               es == EntriesOf(k, bs)
           IN  /\ es \in Seq(EntryRecord)
               /\ \A i \in DOMAIN es : \E b \in DOMAIN bs : es[i].value = bs[b].value
               /\ \A p \in PlacesIn(env, k[1], msg[k]) : \E i \in DOMAIN es :
                     p \in Range(es[i].parts) /\ StoreOf[es[i].value] = Where(env, k[1], msg[k], p)
<1> DEFINE bs == Message(k).batches
           places(b) == [j \in 1 .. Len(bs[b].entries) |-> Entry(bs[b].value, <<Place(k, b, j)>>)]
           all == [b \in 1 .. Len(bs) |-> places(b)]
           es == EntriesOf(k, bs)
<1>1. /\ env \in Environments /\ k[1] \in Clients /\ msg[k] \in DOMAIN env.script[k[1]]
      /\ bs = env.script[k[1]][msg[k]].batches
  BY HandFacts
<1>2. /\ DOMAIN bs = 1 .. Len(bs) /\ Len(bs) \in Nat /\ msg[k] \in Nat
      /\ \A b \in DOMAIN bs : b \in Nat /\ bs[b].value \in Values /\ Len(bs[b].entries) \in Nat
  BY HandBatches
<1>3. ASSUME NEW b \in 1 .. Len(bs), NEW j \in 1 .. Len(bs[b].entries)
      PROVE  /\ Entry(bs[b].value, <<Place(k, b, j)>>) \in EntryRecord
             /\ Range(<<Place(k, b, j)>>) = {<<k[1], msg[k], b, j>>}
  <2> DEFINE p == Place(k, b, j)
             one == <<p>>
  <2>1. j \in Nat /\ b \in Nat
    <3>1. Len(bs[b].entries) \in Nat
      BY <1>2
    <3>2. QED
      BY <1>2, <3>1
  <2>2. p = <<k[1], msg[k], b, j>> /\ p \in Position
    BY <1>1, <1>2, <2>1 DEF Place, Position
  <2> HIDE DEF p
  <2>3. one \in Seq(Position) /\ Range(one) = {p}
    BY <2>2, OneElement
  <2> HIDE DEF one
  <2>4. Entry(bs[b].value, one) \in EntryRecord
    BY <1>2, <1>3, <2>3 DEF Entry, EntryRecord
  <2>5. QED
    BY <2>2, <2>3, <2>4 DEF p, one
<1> HIDE DEF bs
<1>4. ASSUME NEW b \in 1 .. Len(bs)
      PROVE  places(b) \in Seq(EntryRecord) /\ DOMAIN places(b) = 1 .. Len(bs[b].entries)
  <2>1. Len(bs[b].entries) \in Nat
    BY <1>2
  <2>2. places(b) \in [1 .. Len(bs[b].entries) -> EntryRecord]
    BY <1>3
  <2>3. QED
    BY <2>1, <2>2, FunctionIsSeq
<1>5. Len(bs) \in Nat
  BY <1>2
<1>6. all \in Seq(Seq(EntryRecord)) /\ Len(all) = Len(bs) /\ \A b \in 1 .. Len(bs) : all[b] = places(b)
  <2>1. all \in [1 .. Len(bs) -> Seq(EntryRecord)]
    BY <1>4
  <2>2. QED
    BY <1>5, <2>1, FunctionIsSeq
<1>7. es = FlattenSeq(all)
  BY DEF EntriesOf
<1> HIDE DEF all, es
<1>8. /\ es \in Seq(EntryRecord)
      /\ \A x : x \in Range(es) <=> \E b \in 1 .. Len(bs) : x \in Range(places(b))
  <2> HIDE DEF places
  <2>1. /\ FlattenSeq(all) \in Seq(EntryRecord)
        /\ \A x : x \in Range(FlattenSeq(all)) <=> \E b \in 1 .. Len(all) : x \in Range(all[b])
    <3>1. all \in Seq(Seq(EntryRecord))
      BY <1>6
    <3>2. QED
      BY <3>1, FlattenRange
  <2>2. QED
    BY <1>6, <1>7, <2>1
<1>9. ASSUME NEW i \in DOMAIN es
      PROVE  \E b \in DOMAIN bs : es[i].value = bs[b].value
  <2>1. es[i] \in Range(es)
    BY DEF Range
  <2>2. PICK b \in 1 .. Len(bs) : es[i] \in Range(places(b))
    BY <1>8, <2>1
  <2>3. PICK j \in 1 .. Len(bs[b].entries) : es[i] = Entry(bs[b].value, <<Place(k, b, j)>>)
    BY <2>2 DEF Range
  <2>4. es[i].value = bs[b].value
    BY <2>3 DEF Entry
  <2>5. QED
    BY <1>2, <2>4
<1>10. ASSUME NEW p \in PlacesIn(env, k[1], msg[k])
       PROVE  \E i \in DOMAIN es : p \in Range(es[i].parts)
                                   /\ StoreOf[es[i].value] = Where(env, k[1], msg[k], p)
  <2>1. PICK b \in 1 .. Len(bs) : \E j \in 1 .. Len(bs[b].entries) : p = <<k[1], msg[k], b, j>>
    BY <1>1 DEF PlacesIn
  <2>2. PICK j \in 1 .. Len(bs[b].entries) : p = <<k[1], msg[k], b, j>>
    BY <2>1
  <2> DEFINE e == Entry(bs[b].value, <<Place(k, b, j)>>)
  <2>3. e.value = bs[b].value /\ Range(e.parts) = {p}
    BY <1>3, <2>2 DEF Entry
  <2>4. places(b)[j] = e /\ j \in DOMAIN places(b)
    OBVIOUS
  <2>5. e \in Range(places(b))
    <3> HIDE DEF e
    <3>1. QED
      BY <2>4 DEF Range
  <2> HIDE DEF e
  <2>6. e \in Range(es)
    BY <1>8, <2>5
  <2>7. PICK i \in DOMAIN es : es[i] = e
    BY <2>6 DEF Range
  <2>8. Where(env, k[1], msg[k], p) = StoreOf[bs[b].value]
    BY <1>1, <2>2 DEF Where
  <2>9. QED
    BY <2>3, <2>7, <2>8
<1>11. QED
  BY <1>8, <1>9, <1>10 DEF bs, es

LEMMA AppendAllStep ==
    ASSUME AcksUndisturbed, Core, NEW k \in Conns, AppendAll(k)
    PROVE  Core'
<1> DEFINE bs == Message(k).batches
           es == EntriesOf(k, bs)
<1>1. tpc[k] = "appends" /\ ~Forward /\ Reads(env, k[1], msg[k]) /\ at[k] = 1
  BY DEF AppendAll, Core, InHand
<1>2. /\ env \in Environments /\ k[1] \in Clients /\ msg[k] \in DOMAIN env.script[k[1]]
      /\ Message(k) = env.script[k[1]][msg[k]]
  BY <1>1, HandFacts DEF Core
<1>3. /\ UNCHANGED <<env, todo, conn, inbox, msg, at, partials, sending, left, pending, taken,
                     acked, dropped>>
  BY DEF AppendAll, clientVars, netVars, tickVars, history
<1>4. /\ tpc' = [tpc EXCEPT ![k] = "syncs"]
      /\ \E a \in AllAppended(es) : store' = a.store
  BY DEF AppendAll, AllAppended, AppendStep, AppendOne, EntriesOf, FoldLeft, MapThenFoldSet
<1>5. /\ DOMAIN bs = 1 .. Len(bs) /\ 1 \in DOMAIN bs
      /\ \A b \in DOMAIN bs : StoreOf[bs[b].value] \in Names /\ store[StoreOf[bs[b].value]].open
  <2>1. /\ DOMAIN bs = 1 .. Len(bs) /\ 1 \in DOMAIN bs
        /\ \A b \in DOMAIN bs : StoreOf[bs[b].value] \in Names
    BY <1>1, HandBatches DEF Core
  <2>2. \A b \in DOMAIN bs : store[StoreOf[bs[b].value]].open
    BY <1>1 DEF Core, Threads, RequestKept
  <2>3. QED
    BY <2>1, <2>2
<1>6. /\ es \in Seq(EntryRecord)
      /\ \A i \in DOMAIN es : \E b \in DOMAIN bs : es[i].value = bs[b].value
      /\ \A p \in PlacesIn(env, k[1], msg[k]) : \E i \in DOMAIN es :
            p \in Range(es[i].parts) /\ StoreOf[es[i].value] = Where(env, k[1], msg[k], p)
  BY <1>1, EntriesFacts DEF Core
<1> HIDE DEF es
<1>7. \A i \in DOMAIN es : StoreOf[es[i].value] \in Names /\ store[StoreOf[es[i].value]].open
  BY <1>5, <1>6
<1>8. "append" \notin env.troubles
  BY <1>2 DEF AcksUndisturbed
<1>9. /\ AllAppended(es) \in SUBSET Written
      /\ \A a \in AllAppended(es) : \A i \in DOMAIN es :
            Range(es[i].parts) \subseteq Soon(a.store[StoreOf[es[i].value]])
  BY <1>6, <1>7, <1>8, AppendedAll DEF Core
<1>10. PICK a \in AllAppended(es) : store' = a.store
  BY <1>4
<1>11. a \in Outcome /\ \A n \in Names : Better(store[n], store'[n])
  BY <1>9, <1>10 DEF Written
<1>12. /\ store' \in [Names -> StoreRecord]
       /\ \A n \in Names : GoodStore(env, n, store'[n]) /\ store'[n].open = store[n].open
  <2>1. \A n \in Names : GoodStore(env, n, store[n])
    BY DEF Core, Stores
  <2>2. QED
    BY <1>10, <1>11, <2>1, GoodBecomes DEF Outcome, Better
<1>13. Grows
  BY <1>3, <1>11, BecomesGrows DEF Better
<1>14. Stores'
  BY <1>3, <1>12 DEF Core, Stores
<1>15. tpc \in [Conns -> ThreadStates] /\ "syncs" \in ThreadStates
  BY DEF Core, Controls, ThreadStates
<1>16. /\ tpc' \in [Conns -> ThreadStates] /\ tpc'[k] = "syncs"
       /\ \A m \in Conns \ {k} : tpc'[m] = tpc[m]
  BY <1>4, <1>15
<1>17. Controls'
  BY <1>3, <1>16 DEF Core, Controls
<1>18. \A m \in Conns \ {k} : SameThread(m)
  BY <1>3, <1>16 DEF SameThread
<1>19. Promised'
  BY <1>3, <1>13, PromisedKept DEF Core
<1>20. LateHeld'
  BY <1>1, <1>3 DEF LateHeld, Forward
<1>21. InHand'
  BY <1>1, <1>3, <1>5, <1>16, <1>18, InHandGoes DEF Core
<1>22. MsgIn(env, k[1], msg[k], ComingIn')
  <2>1. ASSUME NEW p \in PlacesIn(env, k[1], msg[k])
        PROVE  p \in ComingIn'[Where(env, k[1], msg[k], p)]
    <3> DEFINE n == Where(env, k[1], msg[k], p)
    <3>1. n \in Names
      BY <1>2, PlaceFacts
    <3>2. PICK i \in DOMAIN es : p \in Range(es[i].parts) /\ StoreOf[es[i].value] = n
      BY <1>6
    <3> HIDE DEF n
    <3>3. p \in Soon(store'[n])
      BY <1>9, <1>10, <3>2
    <3>4. p \in ComingIn'[n]
      BY <3>1, <3>3, InAt
    <3>5. QED
      BY <3>4 DEF n
  <2>2. QED
    BY <2>1 DEF MsgIn
<1>23. ASSUME NEW p \in PlacesIn(env, k[1], msg[k]) PROVE ~(p[3] < 1)
  <2>1. p[3] \in DOMAIN bs
    BY <1>2, PlaceFacts
  <2>2. p[3] \in Nat \ {0}
    BY <1>1, <2>1, HandBatches DEF Core
  <2>3. QED
    BY <2>2
<1>24. ASSUME NEW m \in Conns
       PROVE  Fated(m)' /\ RequestKept(m)'
  <2>1. CASE m # k
    BY <1>3, <1>13, <1>18, <2>1, ThreadKept DEF Core, Threads
  <2>2. CASE m = k
    <3>1. Message(k)' = Message(k)
      BY <1>3 DEF Message, Script
    <3>2. \A b \in DOMAIN bs : store'[StoreOf[bs[b].value]].open
      BY <1>5, <1>12
    <3>3. RequestKept(k)'
      BY <1>1, <1>3, <1>16, <1>22, <1>23, <3>1, <3>2 DEF RequestKept
    <3>4. Fated(k)'
      BY <1>16 DEF Fated
    <3>5. QED
      BY <2>2, <3>3, <3>4
  <2>3. QED
    BY <2>1, <2>2
<1>25. QED
  BY <1>14, <1>17, <1>19, <1>20, <1>21, <1>24 DEF Core, Threads

------------------------------------------------------------------------------
\* Every step of the receiver, its senders, and what is outside.
LEMMA ThreadStep ==
    ASSUME AcksUndisturbed, Core, NEW k \in Conns, Thread(k)
    PROVE  Core'
<1>1. CASE Take(k)
  BY <1>1, TakeStep
<1>2. CASE Eof(k)
  BY <1>2, EofStep
<1>3. CASE End(k)
  BY <1>3, EndStep
<1>4. CASE Feed(k)
  BY <1>4, FeedStep
<1>5. CASE Push(k)
  BY <1>5, PushStep
<1>6. CASE DrainOwn(k)
  BY <1>6, DrainOwnStep
<1>7. CASE SendAck(k)
  BY <1>7, SendAckStep
<1>8. CASE AllSent(k)
  BY <1>8, AllSentStep
<1>9. CASE Ensure(k)
  BY <1>9, EnsureStepCore
<1>10. CASE AppendAll(k)
  BY <1>10, AppendAllStep
<1>11. CASE SyncOne(k)
  BY <1>11, SyncOneStep
<1>12. QED
  BY <1>1, <1>2, <1>3, <1>4, <1>5, <1>6, <1>7, <1>8, <1>9, <1>10, <1>11 DEF Thread

LEMMA NextStep ==
    ASSUME AcksUndisturbed, Core, Next
    PROVE  Core'
<1>1. CASE \E c \in Clients : Client(c) \/ GiveUpEarly(c)
  BY <1>1, ClientStep
<1>2. CASE \E k \in Conns : Thread(k)
  BY <1>2, ThreadStep
<1>3. CASE Maintenance
  <2>1. CASE TickStarts
    BY <2>1, TickStartsStep
  <2>2. CASE \E n \in Names : Policy(n)
    BY <2>2, PolicyStep
  <2>3. CASE \E n \in Names : Sweep(n)
    BY <2>3, SweepStep
  <2>4. CASE SendAck(Tick)
    BY <2>4, SendAckStep
  <2>5. CASE TickEnds
    BY <2>5, RestStep
  <2>6. QED
    BY <1>3, <2>1, <2>2, <2>3, <2>4, <2>5 DEF Maintenance
<1>4. CASE Outside
  <2>1. CASE \E n \in Names : Declare(n)
    BY <2>1, DeclareStep
  <2>2. CASE Restart \/ \E n \in Names : Release(n)
    BY <2>2, RestStep
  <2>3. CASE Exit
    BY <2>3, GoneStep DEF Exit
  <2>4. QED
    BY <1>4, <2>1, <2>2, <2>3 DEF Outside
<1>5. CASE Stop
  BY <1>5, StopStep
<1>6. CASE Die
  BY <1>6, GoneStep DEF Die
<1>7. QED
  BY <1>1, <1>2, <1>3, <1>4, <1>5, <1>6 DEF Next

\* A step that has nothing to do with any of it.
CoreVars == <<env, todo, conn, inbox, tpc, msg, at, partials, sending, left, store, pending, taken,
              acked, dropped>>
LEMMA SameCore ==
    ASSUME Core, UNCHANGED CoreVars
    PROVE  Core'
<1>1. UNCHANGED <<env, todo, conn, inbox, tpc, msg, at, partials, sending, left, store, pending, taken,
                  acked, dropped>>
  BY DEF CoreVars
<1>2. Grows
  BY <1>1, SameGrows
<1>3. /\ store' \in [Names -> StoreRecord] /\ taken' \subseteq taken
      /\ \A n \in Names : GoodStore(env, n, store'[n]) /\ store'[n].open = store[n].open
      /\ \A n \in Names : <<"policy", n>> \in left' => store[n].open
  BY <1>1 DEF Core, Stores
<1>4. QED
  BY <1>1, <1>2, <1>3, StoresStep

------------------------------------------------------------------------------
\* The taps of the console intake.
LEMMA TapIsOn ==
    ASSUME NEW c \in Clients, Tap(c) \/ Ages(c) \/ ReadFails(c)
    PROVE  tap[c] # "off"
<1>1. CASE ReadInstance(c) \/ Post(c) \/ Attach(c) \/ DrainRing(c)
  BY <1>1 DEF ReadInstance, Post, Attach, DrainRing, At
<1>2. CASE Own(c) \/ RecordBacklog(c) \/ Stream(c) \/ Consume(c)
  BY <1>2 DEF Own, RecordBacklog, Stream, Consume, At
<1>3. CASE CloseStream(c) \/ Relinquish(c) \/ Wake(c) \/ Leaves(c)
  BY <1>3 DEF CloseStream, Relinquish, Wake, Leaves, At
<1>4. CASE Ages(c) \/ ReadFails(c)
  BY <1>4 DEF Ages, ReadFails, At
<1>5. QED
  BY <1>1, <1>2, <1>3, <1>4 DEF Tap

LEMMA InstanceKeeps ==
    ASSUME NEW c \in Clients, Instance(c)
    PROVE  UNCHANGED CoreVars /\ UNCHANGED <<tap, watch>> /\ (watch = "lists" => UNCHANGED events)
<1>1. CASE Emit(c)
  BY <1>1 DEF Emit, intakeAllVars, clientVars, netVars, threadVars, tickVars, intakeVars, history,
              CoreVars, watchVars, tapVars
<1>2. CASE Halt(c)
  BY <1>2 DEF Halt, intakeAllVars, clientVars, netVars, threadVars, tickVars, intakeVars, history,
              CoreVars, watchVars, tapVars
<1>3. CASE Boot(c)
  BY <1>3 DEF Boot, intakeAllVars, clientVars, netVars, threadVars, tickVars, intakeVars, history,
              CoreVars, watchVars, tapVars
<1>4. CASE HumanTakes(c)
  BY <1>4 DEF HumanTakes, clientVars, netVars, threadVars, tickVars, intakeVars, history,
              CoreVars, watchVars, tapVars
<1>5. CASE HumanLeaves(c)
  BY <1>5 DEF HumanLeaves, intakeAllVars, clientVars, netVars, threadVars, tickVars, intakeVars, history,
              CoreVars, watchVars, tapVars
<1>6. QED
  BY <1>1, <1>2, <1>3, <1>4, <1>5 DEF Instance

\* Under the other protocols there is no tap.
LEMMA TapsStayOff ==
    ASSUME TapsOff, ~Console, ConsoleNext
    PROVE  TapsOff' /\ (Next \/ UNCHANGED CoreVars)
<1>1. \A c \in Clients : tap[c] = "off"
  BY DEF TapsOff, Per
<1>2. CASE \E c \in Clients : Instance(c)
  BY <1>2, InstanceKeeps DEF TapsOff, Per
<1>3. ~\E c \in Clients : Tap(c) \/ Ages(c) \/ ReadFails(c)
  BY <1>1, TapIsOn
<1>4. ~Supervisor
  BY DEF Supervisor, List, Subscribe, Notice, TapsOff
<1>5. CASE (Exit \/ Die) /\ TapsGone
  <2>1. TapsOff'
    BY <1>5 DEF TapsGone, TapsOff, Per
  <2>2. Next
    BY <1>5 DEF Next, Outside
  <2>3. QED
    BY <2>1, <2>2
<1>6. CASE /\ \/ \E c \in Clients : Client(c) \/ GiveUpEarly(c)
              \/ \E k \in Conns : Thread(k)
              \/ Maintenance \/ Stop \/ Restart
              \/ \E n \in Names : Declare(n) \/ Release(n)
           /\ UNCHANGED consoleVars
  <2>1. TapsOff'
    BY <1>6 DEF TapsOff, Per, consoleVars, watchVars, tapVars
  <2>2. Next
    BY <1>6 DEF Next, Outside
  <2>3. QED
    BY <2>1, <2>2
<1>7. QED
  BY <1>2, <1>3, <1>4, <1>5, <1>6 DEF ConsoleNext

------------------------------------------------------------------------------
\* Under the console's no sender connects, and nothing is acknowledged.
QuietVars == <<env, todo, conn, tpc, sending, acked>>

LEMMA TapKeeps ==
    ASSUME NEW c \in Clients, Tap(c) \/ Ages(c) \/ ReadFails(c)
    PROVE  UNCHANGED QuietVars
<1> USE DEF QuietVars, intakeAllVars, clientVars, threadVars, history
<1>1. CASE ReadInstance(c) \/ Post(c)
  BY <1>1 DEF ReadInstance, Post
<1>2. CASE Attach(c)
  BY <1>2 DEF Attach
<1>3. CASE DrainRing(c)
  BY <1>3 DEF DrainRing
<1>4. CASE Own(c)
  BY <1>4 DEF Own
<1>5. CASE RecordBacklog(c)
  BY <1>5 DEF RecordBacklog
<1>6. CASE Stream(c)
  BY <1>6 DEF Stream
<1>7. CASE Consume(c)
  BY <1>7 DEF Consume
<1>8. CASE CloseStream(c)
  BY <1>8 DEF CloseStream
<1>9. CASE Relinquish(c) \/ Wake(c) \/ Leaves(c)
  BY <1>9 DEF Relinquish, Wake, Leaves
<1>10. CASE Ages(c) \/ ReadFails(c)
  BY <1>10 DEF Ages, ReadFails
<1>11. QED
  BY <1>1, <1>2, <1>3, <1>4, <1>5, <1>6, <1>7, <1>8, <1>9, <1>10 DEF Tap

LEMMA EnvStays ==
    ASSUME ConsoleNext
    PROVE  env' = env
<1>1. CASE \E c \in Clients : Instance(c)
  BY <1>1, InstanceKeeps DEF CoreVars
<1>2. CASE \E c \in Clients : Tap(c) \/ Ages(c) \/ ReadFails(c)
  BY <1>2, TapKeeps DEF QuietVars
<1>3. CASE Supervisor
  BY <1>3 DEF Supervisor, List, Subscribe, Notice, intakeAllVars
<1>4. CASE (Exit \/ Die) /\ TapsGone
  BY <1>4 DEF Exit, Die, Gone
<1>5. ASSUME NEW c \in Clients, Client(c) \/ GiveUpEarly(c) PROVE env' = env
  BY <1>5 DEF Client, Connect, SendMessage, Hear, GiveUp, GiveUpEarly, Leave
<1>6. ASSUME NEW k \in Conns, Thread(k) PROVE env' = env
  <2>1. CASE Take(k) \/ Eof(k) \/ End(k) \/ Push(k)
    BY <2>1 DEF Take, Eof, End, Push
  <2>2. CASE Feed(k)
    BY <2>2 DEF Feed
  <2>3. CASE DrainOwn(k) \/ SendAck(k) \/ AllSent(k)
    BY <2>3 DEF DrainOwn, SendAck, AllSent
  <2>4. CASE Ensure(k)
    BY <2>4 DEF Ensure
  <2>5. CASE AppendAll(k)
    BY <2>5 DEF AppendAll
  <2>6. CASE SyncOne(k)
    BY <2>6 DEF SyncOne
  <2>7. QED
    BY <1>6, <2>1, <2>2, <2>3, <2>4, <2>5, <2>6 DEF Thread
<1>7. CASE Maintenance
  <2>1. CASE TickStarts
    BY <2>1 DEF TickStarts
  <2>2. CASE \E n \in Names : Policy(n)
    BY <2>2 DEF Policy
  <2>3. CASE (\E n \in Names : Sweep(n)) \/ SendAck(Tick) \/ TickEnds
    BY <2>3 DEF Sweep, SendAck, TickEnds
  <2>4. QED
    BY <1>7, <2>1, <2>2, <2>3 DEF Maintenance
<1>8. CASE Stop \/ Restart \/ \E n \in Names : Declare(n) \/ Release(n)
  BY <1>8 DEF Stop, Restart, Declare, Release
<1>9. QED
  BY <1>1, <1>2, <1>3, <1>4, <1>5, <1>6, <1>7, <1>8 DEF ConsoleNext

LEMMA NobodySends ==
    ASSUME AcksUndisturbed, Quiet, Console
    PROVE  /\ \A c \in Clients : ~(Client(c) \/ GiveUpEarly(c))
           /\ \A k \in Conns : ~Thread(k)
<1>1. /\ env \in Environments /\ todo = [c \in Clients |-> 1] /\ conn = [c \in Clients |-> NoConn]
      /\ tpc = [k \in Conns |-> None] /\ sending = [t \in Conns \cup {Tick} |-> <<>>]
  BY DEF Quiet
<1>2. NoSenders(env)
  BY <1>1 DEF AcksUndisturbed, Console
<1>3. ASSUME NEW c \in Clients PROVE ~(Client(c) \/ GiveUpEarly(c))
  <2>1. conn[c] = NoConn /\ todo[c] = 1 /\ Len(Script(c)) = 0
    BY <1>1, <1>2, EmptySeq DEF NoSenders, Script
  <2>2. QED
    BY <2>1 DEF Client, GiveUpEarly, Connect, SendMessage, Hear, GiveUp, Unanswered
<1>4. ASSUME NEW k \in Conns PROVE ~Thread(k)
  <2>1. tpc[k] = "none" /\ sending[k] = <<>>
    BY <1>1 DEF None
  <2>2. QED
    BY <2>1 DEF Thread, Take, Eof, End, Feed, Push, DrainOwn, SendAck, AllSent, Ensure, AppendAll, SyncOne
<1>5. QED
  BY <1>3, <1>4

LEMMA QuietStep ==
    ASSUME AcksUndisturbed, Quiet, Console, ConsoleNext
    PROVE  Quiet'
<1> USE DEF QuietVars
<1>1. /\ env \in Environments /\ todo = [c \in Clients |-> 1] /\ conn = [c \in Clients |-> NoConn]
      /\ tpc = [k \in Conns |-> None] /\ sending = [t \in Conns \cup {Tick} |-> <<>>]
      /\ acked = {}
  BY DEF Quiet
<1>2. NoSenders(env) /\ ~Forward
  BY <1>1 DEF AcksUndisturbed, Console, Forward
<1>3. SUFFICES \/ UNCHANGED QuietVars
               \/ /\ UNCHANGED <<env, todo, conn, acked>>
                  /\ tpc' = [k \in Conns |-> None] /\ sending' = [t \in Conns \cup {Tick} |-> <<>>]
  BY <1>1 DEF Quiet
<1>4. CASE \E c \in Clients : Instance(c)
  BY <1>4, InstanceKeeps DEF CoreVars
<1>5. CASE \E c \in Clients : Tap(c) \/ Ages(c) \/ ReadFails(c)
  BY <1>5, TapKeeps
<1>6. CASE Supervisor
  BY <1>6 DEF Supervisor, List, Subscribe, Notice, intakeAllVars, clientVars, threadVars, history
<1>7. CASE (Exit \/ Die) /\ TapsGone
  BY <1>7 DEF Exit, Die, Gone, clientVars, history
<1>8. /\ \A c \in Clients : ~(Client(c) \/ GiveUpEarly(c))
      /\ \A k \in Conns : ~Thread(k)
  BY NobodySends
<1>9. CASE Maintenance
  <2>1. ~SendAck(Tick)
    BY <1>1 DEF SendAck
  <2>2. CASE TickStarts
    BY <2>2 DEF TickStarts, clientVars, threadVars, history
  <2>3. CASE \E n \in Names : Policy(n)
    BY <2>3 DEF Policy, clientVars, threadVars
  <2>4. CASE \E n \in Names : Sweep(n)
    BY <1>2, <2>4 DEF Sweep, clientVars, history
  <2>5. CASE TickEnds
    BY <2>5 DEF TickEnds, clientVars, threadVars, history
  <2>6. QED
    BY <1>9, <2>1, <2>2, <2>3, <2>4, <2>5 DEF Maintenance
<1>10. CASE Stop
  BY <1>10 DEF Stop, clientVars, threadVars, history
<1>11. CASE Restart \/ \E n \in Names : Declare(n) \/ Release(n)
  BY <1>11 DEF Restart, Declare, Release, clientVars, threadVars, history
<1>12. QED
  BY <1>4, <1>5, <1>6, <1>7, <1>8, <1>9, <1>10, <1>11 DEF ConsoleNext

------------------------------------------------------------------------------
LEMMA InvInit ==
    ASSUME ConsoleInit
    PROVE  Inv
<1>1. Init
  BY DEF ConsoleInit
<1>2. CASE Console
  BY <1>1, <1>2 DEF Inv, Quiet, Init
<1>3. CASE ~Console
  <2>1. Controls /\ InHand /\ Stores /\ Promised /\ Threads
    BY <1>1, InitControls, InitStores, InitPromises
  <2>2. TapsOff /\ env \in Environments
    BY <1>1 DEF ConsoleInit, TapsOff, Init
  <2>3. QED
    BY <1>3, <2>1, <2>2 DEF Inv, IntakeInv
<1>4. QED
  BY <1>2, <1>3

LEMMA InvStep ==
    ASSUME AcksUndisturbed, Inv, [ConsoleNext]_allVars
    PROVE  Inv'
<1>1. CASE UNCHANGED allVars
  <2>1. /\ UNCHANGED CoreVars /\ UNCHANGED <<tap, watch, events>>
    BY <1>1 DEF allVars, intakeAllVars, clientVars, netVars, threadVars, tickVars, intakeVars, history,
                consoleVars, watchVars, tapVars, CoreVars
  <2>2. CASE Console
    BY <2>1, <2>2 DEF Inv, Quiet, Console, CoreVars
  <2>3. CASE ~Console
    <3>1. Core'
      BY <2>1, <2>3, SameCore DEF Inv, IntakeInv, Core
    <3>2. TapsOff'
      BY <2>1, <2>3 DEF Inv, IntakeInv, TapsOff, Per
    <3>3. UNCHANGED env
      BY <2>1 DEF CoreVars
    <3>4. QED
      BY <2>3, <3>1, <3>2, <3>3 DEF Inv, IntakeInv, Core, Console
  <2>4. QED
    BY <2>2, <2>3
<1>2. CASE ConsoleNext /\ Console
  <2>1. Quiet'
    BY <1>2, QuietStep DEF Inv
  <2>2. env' = env
    BY <1>2, EnvStays
  <2>3. QED
    BY <1>2, <2>1, <2>2 DEF Inv, Console
<1>3. CASE ConsoleNext /\ ~Console
  <2>1. Core /\ TapsOff
    BY <1>3 DEF Inv, IntakeInv, Core
  <2>2. TapsOff' /\ (Next \/ UNCHANGED CoreVars)
    BY <1>3, <2>1, TapsStayOff
  <2>3. Core'
    BY <2>1, <2>2, NextStep, SameCore
  <2>4. env' = env
    BY <1>3, EnvStays
  <2>5. QED
    BY <1>3, <2>2, <2>3, <2>4 DEF Inv, IntakeInv, Core, Controls, Console
<1>4. QED
  BY <1>1, <1>2, <1>3

LEMMA InvAcked ==
    ASSUME Inv
    PROVE  AckedIsDurable
<1>1. CASE Console
  BY <1>1 DEF Inv, Quiet, AckedIsDurable
<1>2. CASE ~Console
  <2>1. /\ env \in Environments /\ Stores
        /\ \A a \in acked : /\ a[1] \in Clients /\ a[2] \in DOMAIN env.script[a[1]]
                            /\ MsgIn(env, a[1], a[2], SafeIn)
    BY <1>2 DEF Inv, IntakeInv, Promised
  <2>2. ASSUME NEW n \in Names PROVE SafeIn[n] = dropped \cup Held(n)
    <3> DEFINE s == store[n]
               a == SubSeq(s.chunks, 1, s.csynced)
               b == SubSeq(s.sap, 1, s.ssynced)
    <3>1. StoreOK(s)
      BY <2>1 DEF Stores, GoodStore
    <3>2. a \in Seq(EntryRecord) /\ b \in Seq(EntryRecord)
      BY <3>1, StoreTypes, PartsOfPrefix DEF StoreOK
    <3>3. Sure(s) = PartsOf(a) \cup PartsOf(b) /\ Held(n) = PartsOf(a \o b)
      BY DEF Sure, Held, PartsOf
    <3> HIDE DEF a, b, s
    <3>4. PartsOf(a \o b) = PartsOf(a) \cup PartsOf(b)
      BY <3>2, PartsOfConcat
    <3>5. QED
      BY <3>3, <3>4, InAt DEF s
  <2>3. ASSUME NEW a \in acked, NEW p \in Places(a[1], a[2])
        PROVE  p \in dropped \cup Held(StoreOf[Script(a[1])[a[2]].batches[p[3]].value])
    <3>1. p \in PlacesIn(env, a[1], a[2])
      BY DEF Places, PlacesIn, Script
    <3>2. Where(env, a[1], a[2], p) \in Names /\ p \in SafeIn[Where(env, a[1], a[2], p)]
      BY <2>1, <3>1, PlaceFacts DEF MsgIn
    <3>3. QED
      BY <2>2, <3>2 DEF Where, Script
  <2>4. QED
    BY <2>3 DEF AckedIsDurable
<1>3. QED
  BY <1>1, <1>2

\* src/src/forward.rs, of drain_acks, "an ack must never outrun durability", and of an OTLP
\* request's answer: under no failure that AcksUndisturbed leaves out, with any number of
\* senders, connections, stores and messages, whatever was acknowledged is on the disk in its
\* own store, all of it, or was dropped by retention, through deaths, stops, restarts,
\* failed flushes and syncs, late and taken stores and senders that give up.
THEOREM AckedAreDurable ==
    ASSUME AcksUndisturbed
    PROVE  ConsoleSpec => []AckedIsDurable
<1>1. ConsoleInit => Inv
  BY InvInit
<1>2. Inv /\ [ConsoleNext]_allVars => Inv'
  BY InvStep
<1>3. Inv => AckedIsDurable
  BY InvAcked
<1>4. QED
  BY <1>1, <1>2, <1>3, PTL DEF ConsoleSpec

------------------------------------------------------------------------------
\* What was put out of a console, as a piece, and what a tap has in hand in the end.
Piece == Clients \X Nat
Said(c) == {<<c, i>> : i \in 1 .. emitted[c]}
Passed(c) ==
    Range(wire[c].sent) \cup Range(partial[c]) \cup Range(held[c]) \cup Soon(store[StoreFor(c)])

TapSteps == {"off", "reads", "posts", "connects", "drains", "ensures", "records", "streams",
             "consumes", "releases", "sleeps", "ends"}

\* The receiver under the taps: it does not end, and its stores are kept.
Served ==
    /\ mpc \in {"sleeps", "works"} /\ taken \subseteq env.taken
    /\ store \in [Names -> StoreRecord]
    /\ \A n \in Names :
          /\ StoreOK(store[n]) /\ (store[n].open => store[n].wal \/ "segment" \in env.troubles)
          /\ <<"policy", n>> \in left => store[n].open

Wires == [Clients -> [sent : Seq(Piece), open : BOOLEAN]]
TapsTyped ==
    /\ boots \in [Clients -> Nat] /\ emitted \in [Clients -> Nat]
    /\ ring \in [Clients -> Seq(Piece)] /\ backlog \in [Clients -> Seq(Piece)]
    /\ partial \in [Clients -> Seq(Piece)] /\ held \in [Clients -> Seq(Piece)]
    /\ wire \in Wires
    /\ tap \in [Clients -> TapSteps] /\ young \in [Clients -> BOOLEAN]
    /\ heard \in [Clients -> {"nothing", "error", "more"}]

\* What a tap has is what its instance has said; the refusal only over the websocket, and
\* then at once.
Told(c) ==
    /\ emitted[c] <= Len(env.output[c])
    /\ Range(ring[c]) \cup Range(backlog[c]) \cup Range(partial[c]) \subseteq Said(c)
    /\ \A p \in wired : p[1] = c => p \in Said(c)
    /\ Range(wire[c].sent) \cup Range(held[c]) \subseteq Said(c) \cup {Refusal(c)}
    /\ Refusal(c) \in Range(wire[c].sent) => May("refuse") /\ young[c]
    /\ NoHalves(env) => partial[c] = <<>>
    /\ heard[c] = "nothing" => held[c] = <<>>
    /\ heard[c] = "error" => May("refuse") /\ Range(held[c]) \subseteq {Refusal(c)}

\* By where it is.
Attaching == {"connects", "drains", "ensures", "records"}
Staged(c) ==
    /\ tap[c] \in Attaching => young[c] /\ heard[c] = "nothing"
    /\ tap[c] \notin {"streams", "consumes", "releases"} => partial[c] = <<>> /\ held[c] = <<>>
    /\ tap[c] \notin {"drains", "ensures", "records", "streams", "consumes", "releases"} => wire[c] = Shut
    /\ tap[c] = "releases" /\ ~Breaks(env) => partial[c] = <<>> /\ held[c] = <<>> /\ wire[c] = Shut
    /\ tap[c] \notin {"ensures", "records"} => backlog[c] = <<>>
    /\ tap[c] = "consumes" => ~env.keepRing
    /\ tap[c] \in {"records", "streams", "consumes"} => store[StoreFor(c)].open

\* Where the ring is emptied it has nothing that the websocket did not have.
Emptied(c) ==
    ~env.keepRing =>
        /\ tap[c] \in {"ensures", "records", "streams", "consumes"} /\ wire[c].open
              => Range(ring[c]) \subseteq wired
        /\ tap[c] = "consumes" => wire[c].open
        /\ ~wire[c].open => Range(wire[c].sent) \subseteq {Refusal(c)}

\* Where a tap may give up, the ring has what is not stored; elsewhere what the websocket
\* had is stored or on its way, and of the rest nothing is lost that the ring had.
OutKept(c) ==
    IF Breaks(env)
    THEN /\ Said(c) \subseteq Range(ring[c]) \cup Range(backlog[c]) \cup Soon(store[StoreFor(c)])
         /\ Len(ring[c]) <= emitted[c]
    ELSE /\ Said(c) \subseteq wrapped \cup Range(ring[c]) \cup Range(backlog[c]) \cup Passed(c)
         /\ Said(c) \cap wired \subseteq Passed(c)

TapInv ==
    /\ Served /\ TapsTyped
    /\ \A c \in Clients : Told(c) /\ Staged(c) /\ Emptied(c) /\ OutKept(c)
OutInv == Console => TapInv

------------------------------------------------------------------------------
\* A sequence cut in two.
LEMMA CutRange ==
    ASSUME NEW S, NEW s \in Seq(S), NEW m \in 0 .. Len(s)
    PROVE  /\ SubSeq(s, 1, m) \in Seq(S) /\ SubSeq(s, m + 1, Len(s)) \in Seq(S)
           /\ Range(s) = Range(SubSeq(s, 1, m)) \cup Range(SubSeq(s, m + 1, Len(s)))
           /\ m = Len(s) => SubSeq(s, m + 1, Len(s)) = <<>>
<1> DEFINE a == SubSeq(s, 1, m)
           b == SubSeq(s, m + 1, Len(s))
<1>1. Len(s) \in Nat /\ DOMAIN s = 1 .. Len(s) /\ m \in Nat /\ m <= Len(s)
  BY SeqElements
<1>2. a \in Seq(S) /\ Len(a) = m /\ \A i \in 1 .. m : a[i] = s[i]
  BY PrefixIsSeq
<1>3. /\ b \in Seq(S) /\ Len(b) = (IF m + 1 <= Len(s) THEN Len(s) - m ELSE 0)
      /\ \A i \in 1 .. Len(s) - m : b[i] = s[m + i]
  <2>1. m + 1 \in Nat \ {0}
    BY <1>1
  <2>2. /\ b \in Seq(S) /\ Len(b) = (IF m + 1 <= Len(s) THEN Len(s) - (m + 1) + 1 ELSE 0)
        /\ \A i \in 1 .. Len(s) - (m + 1) + 1 : b[i] = s[m + 1 + i - 1]
    BY <2>1, SuffixIsSeq
  <2>3. Len(s) - (m + 1) + 1 = Len(s) - m
    BY <1>1
  <2>4. \A i \in 1 .. Len(s) - m : m + 1 + i - 1 = m + i
    BY <1>1
  <2>5. QED
    BY <2>2, <2>3, <2>4
<1> HIDE DEF a, b
<1> DEFINE n == Len(s)
<1>a. Len(b) = n - m
  <2>1. n \in Nat /\ m \in Nat /\ m <= n
    BY <1>1
  <2>2. Len(b) = IF m + 1 <= n THEN n - m ELSE 0
    BY <1>3
  <2> HIDE DEF n
  <2>3. QED
    BY <2>1, <2>2
<1>4. DOMAIN a = 1 .. m /\ DOMAIN b = 1 .. n - m /\ (m = n => b = <<>>)
  <2>1. DOMAIN a = 1 .. m /\ DOMAIN b = 1 .. Len(b) /\ (Len(b) = 0 => b = <<>>)
    BY <1>2, <1>3, SeqElements
  <2>2. n \in Nat /\ m \in Nat
    BY <1>1
  <2> HIDE DEF n
  <2>3. QED
    BY <1>a, <2>1, <2>2
<1>5. ASSUME NEW x \in Range(s) PROVE x \in Range(a) \cup Range(b)
  <2>1. PICK i \in 1 .. Len(s) : x = s[i]
    BY <1>1 DEF Range
  <2>2. CASE i <= m
    <3>1. i \in 1 .. m
      BY <2>2
    <3>2. QED
      BY <1>2, <1>4, <2>1, <3>1 DEF Range
  <2>3. CASE i > m
    <3>1. i - m \in 1 .. n - m /\ m + (i - m) = i
      BY <1>1, <2>3
    <3>2. QED
      BY <1>3, <1>4, <2>1, <3>1 DEF Range
  <2>4. QED
    BY <1>1, <2>2, <2>3
<1>6. ASSUME NEW x \in Range(a) \cup Range(b) PROVE x \in Range(s)
  <2>1. CASE x \in Range(a)
    <3>1. PICK i \in 1 .. m : x = a[i]
      BY <1>4, <2>1 DEF Range
    <3>2. i \in 1 .. Len(s)
      BY <1>1
    <3>3. QED
      BY <1>1, <1>2, <3>1, <3>2 DEF Range
  <2>2. CASE x \in Range(b)
    <3>1. PICK i \in 1 .. n - m : x = b[i]
      BY <1>4, <2>2 DEF Range
    <3>2. m + i \in 1 .. Len(s)
      BY <1>1
    <3>3. QED
      BY <1>1, <1>3, <3>1, <3>2 DEF Range
  <2>3. QED
    BY <1>6, <2>1, <2>2
<1>7. QED
  BY <1>2, <1>3, <1>4, <1>5, <1>6 DEF a, b

\* Stamper.push makes lines of pieces, and keeps the rest; all are lines but for halves.
LEMMA EndedFacts ==
    ASSUME NEW ps \in Seq(Piece)
    PROVE  LET out == Ended(ps) IN
           /\ out.lines \in Seq(Piece) /\ out.rest \in Seq(Piece)
           /\ Range(ps) = Range(out.lines) \cup Range(out.rest)
           /\ (\A p \in Range(ps) : Kind(p) # "half") => out.rest = <<>>
<1> DEFINE ends == {i \in DOMAIN ps : Kind(ps[i]) # "half"}
           upTo == Max(ends \cup {0})
<1>1. Len(ps) \in Nat /\ DOMAIN ps = 1 .. Len(ps)
  BY SeqElements
<1>2. upTo \in 0 .. Len(ps) /\ \A i \in ends : i <= upTo
  <2>1. PICK x \in ends \cup {0} : \A y \in ends \cup {0} : x >= y
    <3>1. CASE ends = {}
      BY <3>1
    <3>2. CASE ends # {}
      <4>1. ends \in SUBSET (1 .. Len(ps))
        BY <1>1
      <4> HIDE DEF ends
      <4>2. Max(ends) \in ends /\ \A y \in ends : y <= Max(ends)
        BY <1>1, <3>2, <4>1, GreatestOf
      <4>3. QED
        <5> DEFINE x == Max(ends)
        <5>1. x \in ends /\ \A y \in ends : y <= x
          BY <4>2
        <5>2. \A y \in ends : y \in Nat
          BY <1>1, <4>1
        <5> HIDE DEF x
        <5>3. QED
          BY <5>1, <5>2
    <3>3. QED
      BY <3>1, <3>2
  <2>2. ends \cup {0} \subseteq 0 .. Len(ps)
    BY <1>1
  <2> HIDE DEF ends
  <2>3. upTo \in ends \cup {0} /\ \A y \in ends \cup {0} : upTo >= y
    BY <2>1 DEF Max
  <2>4. QED
    BY <2>2, <2>3
<1>3. Ended(ps) = [lines |-> SubSeq(ps, 1, upTo), rest |-> SubSeq(ps, upTo + 1, Len(ps))]
  BY DEF Ended
<1>4. (\A p \in Range(ps) : Kind(p) # "half") => upTo = Len(ps)
  <2>1. SUFFICES ASSUME \A p \in Range(ps) : Kind(p) # "half" PROVE upTo = Len(ps)
    OBVIOUS
  <2>2. \A i \in DOMAIN ps : i \in ends
    BY <2>1 DEF Range
  <2> HIDE DEF ends, upTo
  <2>3. CASE Len(ps) = 0
    BY <1>2, <2>3
  <2>4. CASE Len(ps) # 0
    <3>1. Len(ps) \in DOMAIN ps
      BY <1>1, <2>4
    <3>2. Len(ps) <= upTo
      BY <1>2, <2>2, <3>1
    <3>3. upTo \in Int /\ Len(ps) \in Int /\ upTo <= Len(ps)
      BY <1>1, <1>2
    <3>4. QED
      BY <3>2, <3>3
  <2>5. QED
    BY <2>3, <2>4
<1> HIDE DEF upTo, ends
<1>5. QED
  BY <1>2, <1>3, <1>4, CutRange

------------------------------------------------------------------------------
\* What a step makes of the stores, if it loses nothing of them.
StoresGo ==
    /\ store' \in [Names -> StoreRecord]
    /\ \A n \in Names :
          /\ StoreOK(store'[n]) /\ (store'[n].open => store'[n].wal \/ "segment" \in env.troubles)
          /\ store[n].open => store'[n].open
          /\ Soon(store[n]) \subseteq Soon(store'[n])

LEMMA StoreForIsName ==
    ASSUME env \in Environments, NEW c \in Clients
    PROVE  StoreFor(c) \in Names /\ env.value[c] \in Values
<1>1. ConsoleEnvironment(env)
  BY ConsoleAssumption
<1>2. env.value[c] \in Values
  BY <1>1 DEF ConsoleEnvironment
<1>3. StoreOf \in [Values -> Names]
  BY IntakeAssumption
<1>4. QED
  BY <1>2, <1>3 DEF StoreFor

LEMMA SameStoresGo ==
    ASSUME Served, store' = store
    PROVE  StoresGo
BY DEF Served, StoresGo

LEMMA OneStoreGoes ==
    ASSUME Served, NEW n \in Names, NEW t, store' = [store EXCEPT ![n] = t], StoreOK(t),
           t.open => t.wal \/ "segment" \in env.troubles, store[n].open => t.open,
           Soon(store[n]) \subseteq Soon(t)
    PROVE  StoresGo /\ store'[n] = t
<1>1. t \in StoreRecord
  BY DEF StoreOK
<1>2. store' \in [Names -> StoreRecord] /\ \A m \in Names : store'[m] = IF m = n THEN t ELSE store[m]
  BY <1>1 DEF Served
<1>3. QED
  BY <1>2 DEF Served, StoresGo

\* ... and if a call makes it of one.
LEMMA BetterGoes ==
    ASSUME Served, NEW n \in Names, store[n].open, NEW t, store' = [store EXCEPT ![n] = t],
           Better(store[n], t)
    PROVE  StoresGo /\ store'[n] = t
<1>1. /\ StoreOK(t) /\ t.open = store[n].open /\ (store[n].wal => t.wal \/ "segment" \in env.troubles)
      /\ Soon(store[n]) \subseteq Soon(t)
  BY DEF Better, Becomes, SameStore
<1>2. store[n].wal \/ "segment" \in env.troubles
  BY DEF Served
<1>3. QED
  BY <1>1, <1>2, OneStoreGoes

\* A tap opens its store.
LEMMA OwnedFacts ==
    ASSUME NEW s, StoreOK(s), s.open => s.wal \/ "segment" \in env.troubles
    PROVE  LET t == IF s.open THEN s ELSE [Replayed(s) EXCEPT !.there = TRUE] IN
           /\ StoreOK(t) /\ t.open /\ (t.wal \/ "segment" \in env.troubles) /\ Soon(s) \subseteq Soon(t)
<1>1. s \in StoreRecord
  BY DEF StoreOK
<1>2. CASE s.open
  BY <1>2
<1>3. CASE ~s.open
  <2> DEFINE t == [Replayed(s) EXCEPT !.there = TRUE]
  <2>1. t = [s EXCEPT !.open = TRUE, !.buf = s.sap, !.wal = TRUE, !.there = TRUE]
    BY <1>1 DEF Replayed, StoreRecord
  <2> HIDE DEF t
  <2>2. /\ t \in StoreRecord /\ t.open /\ t.wal
        /\ t.chunks = s.chunks /\ t.csynced = s.csynced /\ t.sap = s.sap /\ t.ssynced = s.ssynced
        /\ t.buf = s.sap
    BY <1>1, <2>1 DEF StoreRecord
  <2>3. StoreOK(t)
    BY <2>2 DEF StoreOK
  <2>4. Sure(t) = Sure(s)
    BY <2>2 DEF Sure
  <2>5. Soon(s) \subseteq Soon(t)
    BY <1>3, <2>4 DEF Soon
  <2>6. QED
    BY <1>3, <2>2, <2>3, <2>5 DEF t
<1>4. s.open \in BOOLEAN
  BY <1>1, StoreTypes
<1>5. QED
  BY <1>2, <1>3, <1>4

LEMMA AppendedIsFine ==
    ASSUME NEW s, NEW e, NEW o \in Appended(s, e), "append" \notin env.troubles,
           "flush" \notin env.troubles
    PROVE  o.ok
<1>1. \A t : Fine(t).ok = TRUE /\ Fine(t).store = t
  BY DEF Fine
<1>2. \A t, x : x \in Meets("segment", [Fine(t) EXCEPT !.cost = 1]) => x.ok
  BY DEF Meets, Fine
<1>3. Meets("flush", Failed(s)) = {} /\ Meets("append", Failed(s)) = {}
      /\ \A x : Meets("flush", x) = {} /\ Meets("append", x) = {}
  BY DEF Meets
<1>4. ASSUME NEW t, NEW p \in FlushChunk(t) PROVE p.ok
  <2>1. CASE t.buf = <<>>
    BY <1>1, <2>1 DEF FlushChunk
  <2>2. CASE t.buf # <<>> /\ t.wal
    BY <1>1, <1>2, <1>3, <2>2 DEF FlushChunk
  <2>3. CASE t.buf # <<>> /\ ~t.wal
    BY <1>1, <1>3, <2>3 DEF FlushChunk
  <2>4. QED
    BY <2>1, <2>2, <2>3
<1> DEFINE buffered == [s EXCEPT !.buf = Append(@, e)]
           mirrored == IF s.wal THEN [buffered EXCEPT !.sap = Append(@, e)] ELSE buffered
<1>5. o \in FlushChunk(mirrored) \/ o = Fine(mirrored)
  <2>1. o \in (IF Len(mirrored.buf) >= ChunkSize THEN FlushChunk(mirrored) ELSE {Fine(mirrored)})
             \cup (IF s.wal THEN Meets("append", Failed(buffered)) ELSE {})
    BY DEF Appended
  <2> HIDE DEF mirrored, buffered
  <2>2. QED
    BY <1>3, <2>1
<1> HIDE DEF mirrored
<1>6. QED
  BY <1>1, <1>4, <1>5

\* A tap writes: what it writes is coming, and only a flush that fails turns it away.
LEMMA WritesFacts ==
    ASSUME AcksUndisturbed, env \in Environments, Served, NEW c \in Clients, NEW ps \in Seq(Piece),
           store[StoreFor(c)].open, NEW then, Writes(c, ps, then)
    PROVE  /\ StoresGo /\ Range(ps) \subseteq Soon(store'[StoreFor(c)])
           /\ \/ tap' = [tap EXCEPT ![c] = then]
              \/ Breaks(env) /\ tap' = [tap EXCEPT ![c] = "releases"]
<1> DEFINE n == StoreFor(c)
<1>1. n \in Names /\ env.value[c] \in Values /\ "append" \notin env.troubles
  BY StoreForIsName DEF AcksUndisturbed
<1>2. CASE ps = <<>>
  <2>1. store' = store /\ tap' = [tap EXCEPT ![c] = then]
    BY <1>2 DEF Writes, Moves
  <2>2. Range(ps) = {}
    BY <1>2 DEF Range
  <2>3. QED
    BY <2>1, <2>2, SameStoresGo
<1>3. CASE ps # <<>>
  <2>1. Entry(env.value[c], ps) \in EntryRecord /\ Entry(env.value[c], ps).parts = ps
    <3>1. ps \in Seq(Position)
      <4>1. Len(ps) \in Nat /\ ps \in [1 .. Len(ps) -> Piece]
        BY SeqElements
      <4>2. ps \in [1 .. Len(ps) -> Position]
        BY <4>1 DEF Piece, Position
      <4>3. QED
        BY <4>1, <4>2, FunctionIsSeq
    <3>2. QED
      BY <1>1, <3>1 DEF Entry, EntryRecord
  <2> DEFINE e == Entry(env.value[c], ps)
  <2>2. PICK o \in Appended(store[n], e) :
           /\ store' = [store EXCEPT ![n] = o.store]
           /\ tap' = [tap EXCEPT ![c] = IF o.ok THEN then ELSE "releases"]
    BY <1>3 DEF Writes, Moves
  <2>3. StoreOK(store[n]) /\ store[n].open
    BY <1>1 DEF Served
  <2> HIDE DEF n, e
  <2>4. Better(store[n], o.store) /\ Range(e.parts) \subseteq Soon(o.store)
    BY <1>1, <2>1, <2>2, <2>3, AppendedFacts DEF e
  <2>5. StoresGo /\ store'[n] = o.store
    BY <1>1, <2>2, <2>3, <2>4, BetterGoes
  <2>6. ~o.ok => Breaks(env)
    BY <1>1, <2>2, AppendedIsFine DEF Breaks
  <2>7. Range(ps) \subseteq Soon(store'[n])
    BY <2>1, <2>4, <2>5 DEF e
  <2>8. QED
    BY <2>2, <2>5, <2>6, <2>7 DEF n
<1>4. QED
  BY <1>2, <1>3

------------------------------------------------------------------------------
\* A step is one of a tap or its instance; what that leaves of the others, and of itself.
SameTap(d) ==
    /\ emitted'[d] = emitted[d] /\ ring'[d] = ring[d] /\ wire'[d] = wire[d] /\ tap'[d] = tap[d]
    /\ backlog'[d] = backlog[d] /\ partial'[d] = partial[d] /\ held'[d] = held[d]
    /\ young'[d] = young[d] /\ heard'[d] = heard[d]
Holds(c) == Told(c) /\ Staged(c) /\ Emptied(c) /\ OutKept(c)

LEMMA StoredStays ==
    ASSUME env \in Environments, env' = env, StoresGo, NEW d \in Clients
    PROVE  /\ StoreFor(d) \in Names /\ StoreFor(d)' = StoreFor(d)
           /\ Soon(store[StoreFor(d)]) \subseteq Soon(store'[StoreFor(d)])
           /\ store[StoreFor(d)].open => store'[StoreFor(d)].open
<1>1. StoreFor(d) \in Names
  BY StoreForIsName
<1>2. StoreFor(d)' = StoreFor(d)
  BY DEF StoreFor
<1>3. QED
  BY <1>1, <1>2 DEF StoresGo

LEMMA TapStays ==
    ASSUME env \in Environments, env' = env, StoresGo, NEW d \in Clients, Holds(d), SameTap(d),
           wired \subseteq wired', wrapped \subseteq wrapped', \A p \in wired' \ wired : p[1] # d
    PROVE  Holds(d)'
<1>1. /\ StoreFor(d)' = StoreFor(d)
      /\ Soon(store[StoreFor(d)]) \subseteq Soon(store'[StoreFor(d)])
      /\ store[StoreFor(d)].open => store'[StoreFor(d)].open
  BY StoredStays
<1>2. Said(d)' = Said(d)
  BY DEF Said, SameTap
<1>3. Passed(d) \subseteq Passed(d)'
  BY <1>1 DEF Passed, SameTap
<1>4. Told(d)'
  BY <1>2 DEF Holds, Told, SameTap, NoHalves, Refusal, May
<1>5. Staged(d)'
  BY <1>1 DEF Holds, Staged, SameTap, Breaks, Shut, Attaching
<1>6. Emptied(d)'
  BY DEF Holds, Emptied, SameTap, Refusal
<1>7. OutKept(d)'
  <2>1. Said(d) \subseteq wrapped \cup Range(ring[d]) \cup Range(backlog[d]) \cup Passed(d)
           => Said(d)' \subseteq wrapped' \cup Range(ring'[d]) \cup Range(backlog'[d]) \cup Passed(d)'
    BY <1>2, <1>3 DEF SameTap
  <2>0. Said(d) \cap wired' \subseteq wired
    BY DEF Said
  <2>2. Said(d) \cap wired \subseteq Passed(d) => Said(d)' \cap wired' \subseteq Passed(d)'
    BY <1>2, <1>3, <2>0
  <2>3. CASE Breaks(env)
    BY <1>1, <1>2, <2>3 DEF Holds, OutKept, SameTap, Breaks
  <2>4. CASE ~Breaks(env)
    <3>1. ~Breaks(env)'
      BY <2>4
    <3>2. QED
      BY <2>1, <2>2, <2>4, <3>1 DEF Holds, OutKept
  <2>5. QED
    BY <2>3, <2>4
<1>8. QED
  BY <1>4, <1>5, <1>6, <1>7 DEF Holds

\* So that it is left to show what becomes of the one.
LEMMA TapMoves ==
    ASSUME TapInv, env \in Environments, env' = env, NEW c \in Clients, StoresGo,
           mpc' = mpc, left' = left, taken' = taken, TapsTyped',
           \A d \in Clients \ {c} : SameTap(d),
           wired \subseteq wired', wrapped \subseteq wrapped',
           \A p \in wired' \ wired : p[1] = c,
           Holds(c)'
    PROVE  TapInv'
<1>1. Served'
  BY DEF TapInv, Served, StoresGo
<1>2. ASSUME NEW d \in Clients PROVE Holds(d)'
  <2>1. CASE d = c
    BY <2>1
  <2>2. CASE d # c
    <3>1. \A p \in wired' \ wired : p[1] # d
      BY <2>2
    <3>2. Holds(d) /\ SameTap(d)
      BY <2>2 DEF TapInv, Holds
    <3>3. QED
      BY <3>1, <3>2, TapStays
  <2>3. QED
    BY <2>1, <2>2
<1>3. QED
  BY <1>1, <1>2 DEF TapInv, Holds

------------------------------------------------------------------------------
\* What OutputUndisturbed says of an environment.
LEMMA ConsoleFacts ==
    ASSUME OutputUndisturbed, env \in Environments, Console
    PROVE  /\ {"die", "stop"} \cap env.troubles = {} /\ ~env.retains
           /\ \A c \in Clients : StoreFor(c) \notin env.taken
           /\ May("refuse") => NoHalves(env)
           /\ Breaks(env) => NoHalves(env) /\ RingKeepsAll(env)
           /\ ~env.keepRing => ~May("drain") /\ env.boots = 0
BY DEF OutputUndisturbed, Console, May, StoreFor

\* A piece that was said is no error; where there are no halves, it ends a line.
LEMMA KindFacts ==
    ASSUME OutputUndisturbed, env \in Environments, Console, NEW c \in Clients,
           emitted[c] \in Nat, emitted[c] <= Len(env.output[c])
    PROVE  /\ Len(env.output[c]) \in Nat
           /\ \A p \in Said(c) : p \in Piece /\ Kind(p) # "error" /\ (NoHalves(env) => Kind(p) # "half")
           /\ Refusal(c) \in Piece /\ Refusal(c) \notin Said(c) /\ Kind(Refusal(c)) = "error"
<1>1. ConsoleEnvironment(env)
  BY ConsoleAssumption
<1>2. env.output[c] \in Seq({"line", "half", "error"})
  BY <1>1 DEF ConsoleEnvironment
<1>3. Len(env.output[c]) \in Nat /\ DOMAIN env.output[c] = 1 .. Len(env.output[c])
  BY <1>2, SeqElements
<1>4. ASSUME NEW p \in Said(c)
      PROVE  p \in Piece /\ Kind(p) # "error" /\ (NoHalves(env) => Kind(p) # "half")
  <2>1. PICK i \in 1 .. emitted[c] : p = <<c, i>>
    BY DEF Said
  <2>2. i \in DOMAIN env.output[c] /\ i \in Nat /\ i # 0
    BY <1>3, <2>1
  <2>3. Kind(p) = env.output[c][i]
    BY <2>1, <2>2 DEF Kind
  <2>4. Kind(p) \in Range(env.output[c])
    BY <2>2, <2>3 DEF Range
  <2>5. "error" \notin Range(env.output[c])
    BY DEF OutputUndisturbed, Console
  <2>6. QED
    BY <2>1, <2>2, <2>4, <2>5 DEF NoHalves, Piece
<1>5. Refusal(c) \in Piece /\ Kind(Refusal(c)) = "error"
  BY DEF Refusal, Piece, Kind
<1>6. Refusal(c) \notin Said(c)
  BY DEF Refusal, Said
<1>7. QED
  BY <1>3, <1>4, <1>5, <1>6

\* What a state of a tap is.
LEMMA TapFacts ==
    ASSUME TapInv, OutputUndisturbed, env \in Environments, Console, NEW c \in Clients
    PROVE  /\ emitted[c] \in Nat /\ boots[c] \in Nat
           /\ ring[c] \in Seq(Piece) /\ backlog[c] \in Seq(Piece) /\ partial[c] \in Seq(Piece)
           /\ held[c] \in Seq(Piece) /\ wire[c] \in [sent : Seq(Piece), open : BOOLEAN]
           /\ wire[c].sent \in Seq(Piece) /\ wire[c].open \in BOOLEAN
           /\ tap[c] \in TapSteps /\ young[c] \in BOOLEAN /\ heard[c] \in {"nothing", "error", "more"}
           /\ Holds(c)
           /\ Len(env.output[c]) \in Nat
           /\ \A p \in Said(c) : p \in Piece /\ Kind(p) # "error" /\ (NoHalves(env) => Kind(p) # "half")
           /\ Refusal(c) \in Piece /\ Refusal(c) \notin Said(c) /\ Kind(Refusal(c)) = "error"
<1>1. TapsTyped /\ Holds(c) /\ emitted[c] <= Len(env.output[c])
  BY DEF TapInv, Holds, Told
<1>2. emitted[c] \in Nat
  BY <1>1 DEF TapsTyped
<1>3. /\ Len(env.output[c]) \in Nat
      /\ \A p \in Said(c) : p \in Piece /\ Kind(p) # "error" /\ (NoHalves(env) => Kind(p) # "half")
      /\ Refusal(c) \in Piece /\ Refusal(c) \notin Said(c) /\ Kind(Refusal(c)) = "error"
  BY <1>1, <1>2, KindFacts
<1>4. QED
  BY <1>1, <1>2, <1>3 DEF TapsTyped, Wires

LEMMA NoPieces ==
    /\ Range(<<>>) = {} /\ <<>> \in Seq(Piece) /\ Len(<<>>) = 0
    /\ Shut.sent = <<>> /\ ~Shut.open /\ Shut \in [sent : Seq(Piece), open : BOOLEAN]
BY EmptySeq DEF Range, Shut

\* What a step may make of the pieces of a tap.
LEMMA OutGoes ==
    ASSUME env \in Environments, env' = env, NEW c \in Clients, Holds(c),
           emitted'[c] = emitted[c], wrapped \subseteq wrapped', wired' = wired,
           Soon(store[StoreFor(c)]) \subseteq Soon(store'[StoreFor(c)]),
           Breaks(env) => /\ Range(ring[c]) \cup Range(backlog[c])
                               \subseteq Range(ring'[c]) \cup Range(backlog'[c]) \cup Soon(store'[StoreFor(c)])
                          /\ Len(ring'[c]) <= emitted[c],
           ~Breaks(env) =>
               /\ Said(c) \cap (Range(wire[c].sent) \cup Range(partial[c]) \cup Range(held[c])) \subseteq Passed(c)'
               /\ Range(ring[c]) \cup Range(backlog[c])
                     \subseteq wrapped' \cup Range(ring'[c]) \cup Range(backlog'[c]) \cup Passed(c)'
    PROVE  OutKept(c)'
<1>1. StoreFor(c)' = StoreFor(c) /\ Said(c)' = Said(c) /\ (Breaks(env))' = Breaks(env)
  BY DEF StoreFor, Said
<1>2. CASE Breaks(env)
  <2>1. /\ Said(c) \subseteq Range(ring[c]) \cup Range(backlog[c]) \cup Soon(store[StoreFor(c)])
    BY <1>2 DEF Holds, OutKept
  <2>2. /\ Said(c)' \subseteq Range(ring'[c]) \cup Range(backlog'[c]) \cup Soon(store'[StoreFor(c)'])
        /\ Len(ring'[c]) <= emitted'[c]
    BY <1>1, <1>2, <2>1
  <2>3. QED
    BY <1>1, <1>2, <2>2 DEF OutKept
<1>3. CASE ~Breaks(env)
  <2>1. /\ Said(c) \subseteq wrapped \cup Range(ring[c]) \cup Range(backlog[c]) \cup Passed(c)
        /\ Said(c) \cap wired \subseteq Passed(c)
    BY <1>3 DEF Holds, OutKept
  <2>2. Soon(store'[StoreFor(c)]) \subseteq Passed(c)'
    BY <1>1 DEF Passed
  <2>3. Said(c) \cap Passed(c) \subseteq Passed(c)'
    BY <1>3, <2>2 DEF Passed
  <2>4. /\ Said(c)' \subseteq wrapped' \cup Range(ring'[c]) \cup Range(backlog'[c]) \cup Passed(c)'
        /\ Said(c)' \cap wired' \subseteq Passed(c)'
    BY <1>1, <1>3, <2>1, <2>3
  <2>5. QED
    BY <1>1, <1>3, <2>4 DEF OutKept
<1>4. QED
  BY <1>2, <1>3

\* A step of a tap that moves no piece.
SamePieces(c) ==
    /\ emitted'[c] = emitted[c] /\ ring'[c] = ring[c] /\ wire'[c] = wire[c]
    /\ backlog'[c] = backlog[c] /\ partial'[c] = partial[c] /\ held'[c] = held[c]

LEMMA SamePiecesKept ==
    ASSUME env \in Environments, env' = env, StoresGo, NEW c \in Clients, Holds(c), SamePieces(c),
           wired' = wired, wrapped' = wrapped
    PROVE  OutKept(c)'
<1>1. StoreFor(c)' = StoreFor(c) /\ Soon(store[StoreFor(c)]) \subseteq Soon(store'[StoreFor(c)])
  BY StoredStays
<1>2. Range(wire[c].sent) \cup Range(partial[c]) \cup Range(held[c]) \subseteq Passed(c)'
  BY DEF Passed, SamePieces
<1>3. Breaks(env) => Len(ring[c]) <= emitted[c]
  BY DEF Holds, OutKept
<1>4. QED
  BY <1>1, <1>2, <1>3, OutGoes DEF SamePieces

\* A step that changes one field of a websocket.
LEMMA WireSends ==
    ASSUME wire \in Wires, NEW c \in Clients, NEW s \in Seq(Piece), wire' = [wire EXCEPT ![c].sent = s]
    PROVE  /\ wire' \in Wires /\ wire'[c].sent = s /\ wire'[c].open = wire[c].open
           /\ \A d \in Clients \ {c} : wire'[d] = wire[d]
BY DEF Wires

LEMMA WireShuts ==
    ASSUME wire \in Wires, NEW c \in Clients, wire' = [wire EXCEPT ![c].open = FALSE]
    PROVE  /\ wire' \in Wires /\ wire'[c].sent = wire[c].sent /\ wire'[c].open = FALSE
           /\ \A d \in Clients \ {c} : wire'[d] = wire[d]
BY DEF Wires

LEMMA IsShut ==
    ASSUME NEW w \in [sent : Seq(Piece), open : BOOLEAN]
    PROVE  w = Shut <=> w.sent = <<>> /\ w.open = FALSE
BY DEF Shut

------------------------------------------------------------------------------
\* The instances.
LEMMA AllStay ==
    ASSUME TapInv, env \in Environments, env' = env, StoresGo, Served', boots' \in [Clients -> Nat],
           UNCHANGED <<emitted, ring, wire, wired, wrapped, tap, backlog, partial, held, young, heard>>
    PROVE  TapInv'
<1>1. TapsTyped'
  BY DEF TapInv, TapsTyped
<1>2. \A d \in Clients : Holds(d) /\ SameTap(d)
  BY DEF TapInv, Holds, SameTap
<1>3. \A d \in Clients : Holds(d)'
  BY <1>2, TapStays
<1>4. QED
  BY <1>1, <1>3 DEF TapInv, Holds

\* Emit: what an instance puts out is in its ring, and goes over the websocket; what
\* leaves the ring for it was over the websocket before, or was not tapped.
LEMMA EmitPieces ==
    ASSUME TapInv, OutputUndisturbed, env \in Environments, Console, NEW c \in Clients, Emit(c)
    PROVE  /\ emitted'[c] = emitted[c] + 1 /\ emitted[c] + 1 <= Len(env.output[c])
           /\ ring'[c] \in Seq(Piece) /\ <<c, emitted[c] + 1>> \in Range(ring'[c])
           /\ Range(ring'[c]) \subseteq Range(ring[c]) \cup {<<c, emitted[c] + 1>>}
           /\ wrapped' \subseteq wrapped \cup Range(ring[c])
           /\ wrapped \subseteq wrapped'
           /\ Range(ring[c]) \subseteq Range(ring'[c]) \cup wired \cup wrapped'
           /\ Len(ring[c]) < RingRoom =>
                 Range(ring[c]) \subseteq Range(ring'[c]) /\ Len(ring'[c]) = Len(ring[c]) + 1
<1> DEFINE p == <<c, emitted[c] + 1>>
           all == Append(ring[c], p)
           over == Len(all) > RingRoom
<1>1. /\ emitted[c] < Len(env.output[c])
      /\ emitted' = [emitted EXCEPT ![c] = @ + 1]
      /\ ring' = [ring EXCEPT ![c] = IF over THEN Tail(all) ELSE all]
      /\ wrapped' = IF over THEN wrapped \cup ({Head(all)} \ wired) ELSE wrapped
  BY DEF Emit
<1>2. /\ emitted[c] \in Nat /\ ring[c] \in Seq(Piece) /\ Len(env.output[c]) \in Nat
      /\ emitted \in [Clients -> Nat] /\ ring \in [Clients -> Seq(Piece)]
  BY TapFacts DEF TapInv, TapsTyped
<1>3. emitted[c] + 1 \in Nat /\ emitted[c] + 1 <= Len(env.output[c])
  BY <1>1, <1>2
<1>4. p \in Piece
  BY <1>3 DEF Piece
<1>5. emitted'[c] = emitted[c] + 1 /\ ring'[c] = IF over THEN Tail(all) ELSE all
  BY <1>1, <1>2
<1> DEFINE r == ring[c]
<1>6. r \in Seq(Piece)
  BY <1>2
<1> HIDE DEF p, r
<1>7. /\ all \in Seq(Piece) /\ Len(r) \in Nat /\ Len(all) = Len(r) + 1 /\ all # <<>>
      /\ \A i \in 1 .. Len(r) : all[i] = r[i]
      /\ all[Len(r) + 1] = p /\ Range(all) = Range(r) \cup {p}
  BY <1>4, <1>6, AppendIsSeq, AppendRange DEF r
<1>8. RingRoom \in Nat /\ RingRoom >= 1
  BY ConsoleAssumption
<1> HIDE DEF all
<1>9. CASE ~over
  <2>1. ring'[c] = all /\ wrapped' = wrapped
    BY <1>1, <1>5, <1>9
  <2>2. QED
    BY <1>3, <1>5, <1>7, <2>1 DEF p, r
<1>10. CASE over
  <2>1. ring'[c] = Tail(all) /\ wrapped' = wrapped \cup ({Head(all)} \ wired)
    BY <1>1, <1>5, <1>10
  <2>2. /\ Head(all) = all[1] /\ Tail(all) \in Seq(Piece) /\ Len(Tail(all)) = Len(all) - 1
        /\ \A i \in 1 .. Len(all) - 1 : Tail(all)[i] = all[i + 1]
        /\ Range(Tail(all)) \subseteq Range(all)
    BY <1>7, TailIsSeq, TailRange
  <2>3. Len(r) >= 1 /\ ~(Len(r) < RingRoom)
    BY <1>7, <1>8, <1>10
  <2>4. /\ DOMAIN Tail(all) = 1 .. Len(r) /\ DOMAIN r = 1 .. Len(r)
        /\ \A i \in 1 .. Len(r) : Tail(all)[i] = all[i + 1]
    <3>1. Len(all) - 1 = Len(r)
      BY <1>7
    <3>2. DOMAIN Tail(all) = 1 .. Len(Tail(all)) /\ DOMAIN r = 1 .. Len(r)
      BY <1>6, <2>2, SeqElements
    <3>3. QED
      BY <2>2, <3>1, <3>2
  <2>5. Head(all) = r[1] /\ r[1] \in Range(r)
    BY <1>7, <2>2, <2>3, <2>4 DEF Range
  <2>6. p \in Range(Tail(all))
    <3>1. Len(r) \in DOMAIN Tail(all) /\ Tail(all)[Len(r)] = p
      BY <1>7, <2>3, <2>4
    <3>2. QED
      BY <3>1 DEF Range
  <2>7. ASSUME NEW x \in Range(r) PROVE x = Head(all) \/ x \in Range(Tail(all))
    <3>1. PICK i \in 1 .. Len(r) : x = r[i]
      BY <2>4 DEF Range
    <3>2. CASE i = 1
      BY <2>5, <3>1, <3>2
    <3>3. CASE i # 1
      <4>1. i - 1 \in 1 .. Len(r) /\ (i - 1) + 1 = i
        BY <1>7, <3>1, <3>3
      <4>2. Tail(all)[i - 1] = r[i]
        BY <1>7, <2>4, <3>1, <4>1
      <4>3. QED
        BY <2>4, <3>1, <4>1, <4>2 DEF Range
    <3>4. QED
      BY <3>2, <3>3
  <2>8. QED
    BY <1>3, <1>5, <1>7, <2>1, <2>2, <2>3, <2>5, <2>6, <2>7 DEF p, r
<1>11. QED
  BY <1>9, <1>10

LEMMA EmitStep ==
    ASSUME TapInv, OutputUndisturbed, env \in Environments, Console, NEW c \in Clients, Emit(c)
    PROVE  TapInv'
<1> DEFINE p == <<c, emitted[c] + 1>>
<1>1. /\ UNCHANGED <<env, mpc, left, taken, store, boots, tap, backlog, partial, held, young, heard>>
      /\ emitted' = [emitted EXCEPT ![c] = @ + 1] /\ \E r : ring' = [ring EXCEPT ![c] = r]
      /\ wire' = IF wire[c].open THEN [wire EXCEPT ![c].sent = Append(@, p)] ELSE wire
      /\ wired' = IF wire[c].open THEN wired \cup {p} ELSE wired
  BY DEF Emit, intakeAllVars, tickVars, intakeVars, tapVars
<1>2. /\ emitted'[c] = emitted[c] + 1 /\ emitted[c] + 1 <= Len(env.output[c])
      /\ ring'[c] \in Seq(Piece) /\ p \in Range(ring'[c])
      /\ Range(ring'[c]) \subseteq Range(ring[c]) \cup {p}
      /\ wrapped' \subseteq wrapped \cup Range(ring[c])
      /\ wrapped \subseteq wrapped'
      /\ Range(ring[c]) \subseteq Range(ring'[c]) \cup wired \cup wrapped'
      /\ Len(ring[c]) < RingRoom =>
            Range(ring[c]) \subseteq Range(ring'[c]) /\ Len(ring'[c]) = Len(ring[c]) + 1
  BY EmitPieces
<1>3. /\ emitted[c] \in Nat /\ ring[c] \in Seq(Piece) /\ Len(env.output[c]) \in Nat /\ Holds(c)
      /\ wire[c].sent \in Seq(Piece) /\ wire[c].open \in BOOLEAN
  BY TapFacts
<1>4. /\ emitted \in [Clients -> Nat] /\ ring \in [Clients -> Seq(Piece)]
      /\ wire \in Wires
  BY DEF TapInv, TapsTyped
<1>5. /\ Said(c)' = Said(c) \cup {p} /\ p \notin Said(c) /\ p \in Piece /\ p[1] = c /\ p # Refusal(c)
  <2>1. 1 .. (emitted[c] + 1) = (1 .. emitted[c]) \cup {emitted[c] + 1}
        /\ emitted[c] + 1 \notin 1 .. emitted[c] /\ emitted[c] + 1 \in Nat /\ emitted[c] + 1 # 0
    BY <1>3
  <2>2. QED
    BY <1>2, <2>1 DEF Said, Piece, Refusal
<1> HIDE DEF p
<1>6. /\ wire' \in Wires /\ wire'[c].open = wire[c].open /\ wire'[c] \in [sent : Seq(Piece), open : BOOLEAN]
      /\ wire'[c].sent = IF wire[c].open THEN Append(wire[c].sent, p) ELSE wire[c].sent
      /\ Range(wire'[c].sent) = Range(wire[c].sent) \cup (IF wire[c].open THEN {p} ELSE {})
      /\ \A d \in Clients \ {c} : wire'[d] = wire[d]
  <2>1. CASE wire[c].open
    <3>1. Append(wire[c].sent, p) \in Seq(Piece)
          /\ Range(Append(wire[c].sent, p)) = Range(wire[c].sent) \cup {p}
      BY <1>3, <1>5, AppendIsSeq, AppendRange
    <3>2. wire' = [wire EXCEPT ![c].sent = Append(wire[c].sent, p)]
      BY <1>1, <2>1
    <3> DEFINE s == Append(wire[c].sent, p)
    <3>3. s \in Seq(Piece) /\ wire' = [wire EXCEPT ![c].sent = s]
      BY <3>1, <3>2
    <3> HIDE DEF s
    <3>4. /\ wire' \in Wires /\ wire'[c].sent = s /\ wire'[c].open = wire[c].open
          /\ \A d \in Clients \ {c} : wire'[d] = wire[d]
      BY <1>4, <3>3, WireSends
    <3>5. QED
      BY <2>1, <3>1, <3>4 DEF Wires, s
  <2>2. CASE ~wire[c].open
    BY <1>1, <1>4, <2>2 DEF Wires
  <2>3. QED
    BY <2>1, <2>2
<1>7. TapsTyped'
  BY <1>1, <1>2, <1>3, <1>4, <1>6 DEF TapInv, TapsTyped
<1>8. \A d \in Clients \ {c} : SameTap(d)
  BY <1>1, <1>4, <1>6 DEF SameTap
<1>9. StoresGo /\ StoreFor(c)' = StoreFor(c)
  BY <1>1, SameStoresGo DEF TapInv, StoreFor
<1>10. Told(c)'
  <2>1. Told(c)
    BY <1>3 DEF Holds
  <2>2. Refusal(c)' = Refusal(c) /\ May("refuse")' = May("refuse") /\ (NoHalves(env))' = NoHalves(env)
    BY <1>1 DEF Refusal, May
  <2>3. emitted'[c] <= Len(env'.output[c])
    BY <1>1, <1>2
  <2>4. Range(ring'[c]) \cup Range(backlog'[c]) \cup Range(partial'[c]) \subseteq Said(c)'
    BY <1>1, <1>2, <1>5, <2>1 DEF Told
  <2>5. \A q \in wired' : q[1] = c => q \in Said(c)'
    BY <1>1, <1>5, <2>1 DEF Told
  <2>6. Range(wire'[c].sent) \cup Range(held'[c]) \subseteq Said(c)' \cup {Refusal(c)}
    BY <1>1, <1>5, <1>6, <2>1 DEF Told
  <2>7. Refusal(c) \in Range(wire'[c].sent) => May("refuse") /\ young'[c]
    BY <1>1, <1>5, <1>6, <2>1 DEF Told
  <2>8. /\ NoHalves(env) => partial'[c] = <<>>
        /\ heard'[c] = "nothing" => held'[c] = <<>>
        /\ heard'[c] = "error" => May("refuse") /\ Range(held'[c]) \subseteq {Refusal(c)}
    BY <1>1, <2>1 DEF Told
  <2>9. QED
    BY <2>2, <2>3, <2>4, <2>5, <2>6, <2>7, <2>8 DEF Told
<1>11. Staged(c)'
  <2>1. Staged(c)
    BY <1>3 DEF Holds
  <2>2. wire[c] = Shut => wire'[c] = Shut
    BY <1>3, <1>6, IsShut, NoPieces
  <2>3. StoreFor(c)' = StoreFor(c)
    BY <1>9
  <2>4. QED
    BY <1>1, <2>1, <2>2, <2>3 DEF Staged, Attaching, Breaks, Shut
<1>12. Emptied(c)'
  <2>1. Emptied(c)
    BY <1>3 DEF Holds
  <2>2. QED
    BY <1>1, <1>2, <1>6, <2>1 DEF Emptied, Refusal
<1>13. OutKept(c)'
  <2>1. (Breaks(env))' = Breaks(env)
    BY <1>1
  <2>2. CASE Breaks(env)
    <3>1. Said(c) \subseteq Range(ring[c]) \cup Range(backlog[c]) \cup Soon(store[StoreFor(c)])
          /\ Len(ring[c]) <= emitted[c]
      BY <1>3, <2>2 DEF Holds, OutKept
    <3>2. Len(env.output[c]) <= RingRoom /\ RingRoom \in Nat
      BY <2>2, ConsoleFacts, ConsoleAssumption DEF RingKeepsAll
    <3>3. Len(ring[c]) < RingRoom /\ Len(ring[c]) + 1 <= emitted[c] + 1
      <4>1. Len(ring[c]) \in Nat
        BY <1>3, SeqElements
      <4>2. QED
        BY <1>2, <1>3, <3>1, <3>2, <4>1
    <3>4. Range(ring[c]) \subseteq Range(ring'[c]) /\ Len(ring'[c]) <= emitted'[c]
      BY <1>2, <3>3
    <3>5. Said(c)' \subseteq Range(ring'[c]) \cup Range(backlog'[c]) \cup Soon(store'[StoreFor(c)'])
      BY <1>1, <1>2, <1>5, <1>9, <3>1, <3>4
    <3>6. QED
      BY <2>1, <2>2, <3>4, <3>5 DEF OutKept
  <2>3. CASE ~Breaks(env)
    <3>1. /\ Said(c) \subseteq wrapped \cup Range(ring[c]) \cup Range(backlog[c]) \cup Passed(c)
          /\ Said(c) \cap wired \subseteq Passed(c)
      BY <1>3, <2>3 DEF Holds, OutKept
    <3>2. Passed(c)' = Passed(c) \cup (IF wire[c].open THEN {p} ELSE {})
      BY <1>1, <1>6, <1>9 DEF Passed
    <3>3. Range(ring[c]) \subseteq Said(c)
      BY <1>3 DEF Holds, Told
    <3>4. p \notin wired
      BY <1>3, <1>5 DEF Holds, Told
    <3>5. Range(ring[c]) \subseteq Range(ring'[c]) \cup wrapped' \cup Passed(c)'
      BY <1>2, <3>1, <3>2, <3>3
    <3>6. Said(c)' \subseteq wrapped' \cup Range(ring'[c]) \cup Range(backlog'[c]) \cup Passed(c)'
      BY <1>1, <1>2, <1>5, <3>1, <3>2, <3>5
    <3>7. Said(c)' \cap wired' \subseteq Passed(c)'
      BY <1>1, <1>5, <3>1, <3>2, <3>4
    <3>8. QED
      BY <2>1, <2>3, <3>6, <3>7 DEF OutKept
  <2>4. QED
    BY <2>2, <2>3
<1>14. wired \subseteq wired' /\ wrapped \subseteq wrapped' /\ \A q \in wired' \ wired : q[1] = c
  BY <1>1, <1>2, <1>5
<1>15. Holds(c)'
  BY <1>10, <1>11, <1>12, <1>13 DEF Holds
<1>16. /\ env' = env /\ mpc' = mpc /\ left' = left /\ taken' = taken
  BY <1>1
<1>17. QED
  BY <1>7, <1>8, <1>9, <1>14, <1>15, <1>16, TapMoves

\* Halt: what a ring is lost with no websocket had, or it has got through; where the ring
\* is emptied, instances do not go.
LEMMA HaltStep ==
    ASSUME TapInv, OutputUndisturbed, env \in Environments, Console, NEW c \in Clients, Halt(c)
    PROVE  TapInv'
<1>1. /\ UNCHANGED <<env, mpc, left, taken, store, boots, emitted, wired, tap, backlog, partial, held,
                     young, heard>>
      /\ boots[c] < env.boots
      /\ wire' = [wire EXCEPT ![c].open = FALSE] /\ ring' = [ring EXCEPT ![c] = <<>>]
      /\ wrapped' = wrapped \cup (Range(ring[c]) \ wired)
  BY DEF Halt, intakeAllVars, tickVars, intakeVars, tapVars
<1>2. /\ boots[c] \in Nat /\ Holds(c) /\ wire[c] \in [sent : Seq(Piece), open : BOOLEAN]
  BY TapFacts
<1>3. env.keepRing /\ ~Breaks(env)
  <2>1. env.boots # 0
    BY <1>1, <1>2
  <2>2. QED
    BY <2>1, ConsoleFacts DEF RingKeepsAll
<1>4. /\ ring \in [Clients -> Seq(Piece)] /\ wire \in Wires
  BY DEF TapInv, TapsTyped
<1>5. /\ wire' \in Wires /\ wire'[c].sent = wire[c].sent /\ wire'[c].open = FALSE
      /\ \A d \in Clients \ {c} : wire'[d] = wire[d]
      /\ ring' \in [Clients -> Seq(Piece)] /\ ring'[c] = <<>>
  BY <1>1, <1>4, WireShuts, NoPieces
<1>6. TapsTyped'
  BY <1>1, <1>5 DEF TapInv, TapsTyped
<1>7. \A d \in Clients \ {c} : SameTap(d)
  BY <1>1, <1>4, <1>5 DEF SameTap
<1>8. StoresGo /\ StoreFor(c)' = StoreFor(c) /\ Said(c)' = Said(c)
  BY <1>1, SameStoresGo DEF TapInv, StoreFor, Said
<1>9. Told(c)'
  BY <1>1, <1>2, <1>5, <1>8, NoPieces DEF Holds, Told, Refusal, May, NoHalves
<1>10. Staged(c)'
  <2>1. wire[c] = Shut => wire'[c] = Shut
    BY <1>2, <1>5, IsShut DEF Wires
  <2>2. QED
    BY <1>1, <1>2, <1>8, <2>1 DEF Holds, Staged, Attaching, Breaks, Shut
<1>11. Emptied(c)'
  BY <1>1, <1>3 DEF Emptied
<1>12. OutKept(c)'
  <2>1. /\ Said(c) \subseteq wrapped \cup Range(ring[c]) \cup Range(backlog[c]) \cup Passed(c)
        /\ Said(c) \cap wired \subseteq Passed(c)
    BY <1>2, <1>3 DEF Holds, OutKept
  <2>2. Passed(c)' = Passed(c)
    BY <1>1, <1>5, <1>8 DEF Passed
  <2>3. Range(ring[c]) \subseteq Said(c)
    BY <1>2 DEF Holds, Told
  <2>4. Said(c) \subseteq wrapped' \cup Range(backlog[c]) \cup Passed(c)
    BY <1>1, <2>1, <2>3
  <2>5. QED
    BY <1>1, <1>3, <1>8, <2>1, <2>2, <2>4 DEF OutKept
<1>13. Holds(c)'
  BY <1>9, <1>10, <1>11, <1>12 DEF Holds
<1>14. wired \subseteq wired' /\ wrapped \subseteq wrapped' /\ \A q \in wired' \ wired : q[1] = c
  BY <1>1
<1>15. /\ env' = env /\ mpc' = mpc /\ left' = left /\ taken' = taken
  BY <1>1
<1>16. QED
  BY <1>6, <1>7, <1>8, <1>13, <1>14, <1>15, TapMoves

LEMMA InstanceStep ==
    ASSUME TapInv, OutputUndisturbed, env \in Environments, Console, NEW c \in Clients, Instance(c)
    PROVE  TapInv'
<1>1. CASE Boot(c) \/ HumanTakes(c) \/ HumanLeaves(c)
  <2>1. /\ UNCHANGED <<env, mpc, left, taken, store, emitted, ring, wire, wired, wrapped, tap, backlog,
                       partial, held, young, heard>>
    <3>1. CASE Boot(c)
      BY <3>1 DEF Boot, intakeAllVars, tickVars, intakeVars, tapVars
    <3>2. CASE HumanTakes(c)
      BY <3>2 DEF HumanTakes, tickVars, intakeVars, tapVars
    <3>3. CASE HumanLeaves(c)
      BY <3>3 DEF HumanLeaves, intakeAllVars, tickVars, intakeVars, tapVars
    <3>4. QED
      BY <1>1, <3>1, <3>2, <3>3
  <2>2. boots' \in [Clients -> Nat]
    <3>1. boots \in [Clients -> Nat]
      BY DEF TapInv, TapsTyped
    <3>2. boots' = [boots EXCEPT ![c] = @ + 1] \/ boots' = boots
      BY <1>1 DEF Boot, HumanTakes, HumanLeaves
    <3>3. QED
      BY <3>1, <3>2
  <2>3. StoresGo /\ Served'
    BY <2>1, SameStoresGo DEF TapInv, Served
  <2>4. QED
    BY <2>1, <2>2, <2>3, AllStay
<1>2. QED
  BY <1>1, EmitStep, HaltStep DEF Instance

------------------------------------------------------------------------------
\* The taps.  One goes from a step to another.
LEMMA Went ==
    ASSUME TapInv, NEW c \in Clients, NEW to \in TapSteps, tap' = [tap EXCEPT ![c] = to]
    PROVE  tap' \in [Clients -> TapSteps] /\ tap'[c] = to /\ \A d \in Clients \ {c} : tap'[d] = tap[d]
BY DEF TapInv, TapsTyped

LEMMA OnlyMoves ==
    ASSUME TapInv, OutputUndisturbed, env \in Environments, Console, NEW c \in Clients,
           UNCHANGED <<env, mpc, left, taken, store, boots, emitted, ring, wire, wired, wrapped, backlog,
                       partial, held, heard>>,
           NEW to \in TapSteps, tap' = [tap EXCEPT ![c] = to],
           young' \in [Clients -> BOOLEAN], \A d \in Clients \ {c} : young'[d] = young[d],
           Refusal(c) \in Range(wire[c].sent) => young'[c],
           Staged(c)', Emptied(c)'
    PROVE  TapInv'
<1>1. tap' \in [Clients -> TapSteps] /\ tap'[c] = to /\ \A d \in Clients \ {c} : tap'[d] = tap[d]
  BY Went
<1>2. TapsTyped'
  BY <1>1 DEF TapInv, TapsTyped
<1>3. \A d \in Clients \ {c} : SameTap(d)
  BY <1>1 DEF SameTap
<1>4. StoresGo
  BY SameStoresGo DEF TapInv
<1>5. Holds(c)
  BY TapFacts
<1>6. OutKept(c)'
  BY <1>4, <1>5, SamePiecesKept DEF SamePieces
<1>7. Told(c)'
  <2>1. Told(c) /\ Said(c)' = Said(c)
    BY <1>5 DEF Holds, Said
  <2>2. QED
    BY <2>1 DEF Told, Refusal, May, NoHalves
<1>8. Holds(c)'
  BY <1>6, <1>7 DEF Holds
<1>9. wired \subseteq wired' /\ wrapped \subseteq wrapped' /\ \A p \in wired' \ wired : p[1] = c
  OBVIOUS
<1>10. env' = env /\ mpc' = mpc /\ left' = left /\ taken' = taken
  OBVIOUS
<1>11. QED
  BY <1>2, <1>3, <1>4, <1>8, <1>9, <1>10, TapMoves

\* Ones that do nothing else.
LEMMA RoundSteps ==
    ASSUME TapInv, OutputUndisturbed, env \in Environments, Console, NEW c \in Clients,
           ReadInstance(c) \/ Wake(c) \/ Leaves(c)
    PROVE  TapInv'
<1>1. /\ UNCHANGED <<env, mpc, left, taken, store, boots, emitted, ring, wire, wired, wrapped, backlog,
                     partial, held, young, heard>>
  BY DEF ReadInstance, Wake, Leaves, intakeAllVars, tickVars, intakeVars, incusVars
<1>2. /\ tap[c] \in {"reads", "sleeps", "ends"}
      /\ \E to \in {"posts", "ends", "reads", "off"} : tap' = [tap EXCEPT ![c] = to]
  BY DEF ReadInstance, Wake, Leaves, At, Moves
<1>3. PICK to \in {"posts", "ends", "reads", "off"} : tap' = [tap EXCEPT ![c] = to]
  BY <1>2
<1>4. to \in TapSteps
  BY DEF TapSteps
<1>5. tap'[c] = to /\ Holds(c) /\ young \in [Clients -> BOOLEAN]
  BY <1>3, <1>4, Went, TapFacts DEF TapInv, TapsTyped
<1>6. Staged(c)'
  BY <1>1, <1>2, <1>5 DEF Holds, Staged, Attaching, Shut
<1>7. Emptied(c)'
  BY <1>1, <1>2, <1>5 DEF Holds, Emptied, Refusal
<1>8. QED
  BY <1>1, <1>3, <1>4, <1>5, <1>6, <1>7, OnlyMoves DEF Holds, Told

LEMMA ReadFailsStep ==
    ASSUME TapInv, OutputUndisturbed, env \in Environments, Console, NEW c \in Clients, ReadFails(c)
    PROVE  TapInv'
<1>1. /\ UNCHANGED <<env, mpc, left, taken, store, boots, emitted, ring, wire, wired, wrapped, backlog,
                     partial, held, young, heard>>
      /\ tap[c] = "streams" /\ tap' = [tap EXCEPT ![c] = "releases"] /\ Breaks(env)
  BY DEF ReadFails, At, Moves, May, Breaks, tickVars, intakeVars, incusVars
<1>2. "releases" \in TapSteps
  BY DEF TapSteps
<1>3. tap'[c] = "releases" /\ Holds(c) /\ young \in [Clients -> BOOLEAN]
  BY <1>1, <1>2, Went, TapFacts DEF TapInv, TapsTyped
<1>4. Staged(c)'
  BY <1>1, <1>3 DEF Holds, Staged, Attaching, Shut, Breaks
<1>5. Emptied(c)'
  BY <1>1, <1>3 DEF Holds, Emptied, Refusal
<1>6. QED
  BY <1>1, <1>2, <1>3, <1>4, <1>5, OnlyMoves DEF Holds, Told

LEMMA AgesStep ==
    ASSUME TapInv, OutputUndisturbed, env \in Environments, Console, NEW c \in Clients, Ages(c)
    PROVE  TapInv'
<1>1. /\ UNCHANGED <<env, mpc, left, taken, store, boots, emitted, ring, wire, wired, wrapped, backlog,
                     partial, held, tap, heard>>
      /\ tap[c] = "streams" /\ young' = [young EXCEPT ![c] = FALSE]
      /\ Refusal(c) \notin Range(wire[c].sent)
  BY DEF Ages, At, intakeAllVars, tickVars, intakeVars, incusVars
<1>2. Holds(c) /\ young \in [Clients -> BOOLEAN] /\ tap \in [Clients -> TapSteps]
  BY TapFacts DEF TapInv, TapsTyped
<1>3. young' \in [Clients -> BOOLEAN] /\ \A d \in Clients \ {c} : young'[d] = young[d]
  BY <1>1, <1>2
<1>4. "streams" \in TapSteps /\ tap' = [tap EXCEPT ![c] = "streams"]
  BY <1>1, <1>2 DEF TapSteps
<1>5. Staged(c)'
  BY <1>1, <1>2 DEF Holds, Staged, Attaching, Shut, StoreFor, Breaks
<1>6. Emptied(c)'
  BY <1>1, <1>2 DEF Holds, Emptied, Refusal
<1>7. QED
  BY <1>1, <1>3, <1>4, <1>5, <1>6, OnlyMoves

\* A tap that starts over, and one that is done, has nothing in hand.
LEMMA PostStep ==
    ASSUME TapInv, OutputUndisturbed, env \in Environments, Console, NEW c \in Clients, Post(c)
    PROVE  TapInv'
<1>1. /\ UNCHANGED <<env, mpc, left, taken, store, boots, emitted, ring, wire, wired, wrapped, backlog>>
      /\ tap[c] = "posts" /\ \E to \in {"connects", "sleeps"} : tap' = [tap EXCEPT ![c] = to]
      /\ partial' = [partial EXCEPT ![c] = <<>>] /\ held' = [held EXCEPT ![c] = <<>>]
      /\ young' = [young EXCEPT ![c] = TRUE] /\ heard' = [heard EXCEPT ![c] = "nothing"]
  BY DEF Post, At, Moves, After, intakeAllVars, tickVars, intakeVars
<1>2. PICK to \in {"connects", "sleeps"} : tap' = [tap EXCEPT ![c] = to]
  BY <1>1
<1>3. to \in TapSteps
  BY DEF TapSteps
<1>4. tap' \in [Clients -> TapSteps] /\ tap'[c] = to /\ \A d \in Clients \ {c} : tap'[d] = tap[d]
  BY <1>2, <1>3, Went
<1>5. Holds(c) /\ TapsTyped
  BY TapFacts DEF TapInv
<1>6. /\ partial'[c] = <<>> /\ held'[c] = <<>> /\ young'[c] = TRUE /\ heard'[c] = "nothing"
      /\ TapsTyped'
  BY <1>1, <1>4, <1>5, NoPieces DEF TapsTyped
<1>7. \A d \in Clients \ {c} : SameTap(d)
  BY <1>1, <1>4, <1>5 DEF SameTap, TapsTyped
<1>8. partial[c] = <<>> /\ held[c] = <<>> /\ wire[c] = Shut
  BY <1>1, <1>5 DEF Holds, Staged
<1>9. StoresGo /\ Said(c)' = Said(c)
  BY <1>1, SameStoresGo DEF TapInv, Said
<1>10. OutKept(c)'
  BY <1>1, <1>5, <1>6, <1>8, <1>9, SamePiecesKept DEF SamePieces
<1>11. Told(c)'
  BY <1>1, <1>5, <1>6, <1>8, <1>9, NoPieces DEF Holds, Told, Refusal, May, NoHalves
<1>12. Staged(c)'
  BY <1>1, <1>4, <1>5, <1>6, <1>8 DEF Holds, Staged, Attaching, Shut
<1>13. Emptied(c)'
  BY <1>1, <1>4, <1>5, <1>6 DEF Holds, Emptied, Refusal
<1>14. Holds(c)'
  BY <1>10, <1>11, <1>12, <1>13 DEF Holds
<1>15. env' = env /\ mpc' = mpc /\ left' = left /\ taken' = taken /\ wired' = wired /\ wrapped' = wrapped
  BY <1>1
<1>16. QED
  BY <1>6, <1>7, <1>9, <1>14, <1>15, TapMoves

LEMMA RelinquishStep ==
    ASSUME TapInv, OutputUndisturbed, env \in Environments, Console, NEW c \in Clients, Relinquish(c)
    PROVE  TapInv'
<1>1. /\ UNCHANGED <<env, mpc, left, taken, store, boots, emitted, ring, wired, wrapped, backlog, young, heard>>
      /\ tap[c] = "releases" /\ tap' = [tap EXCEPT ![c] = "sleeps"]
      /\ partial' = [partial EXCEPT ![c] = <<>>] /\ held' = [held EXCEPT ![c] = <<>>]
      /\ wire' = [wire EXCEPT ![c] = Shut]
  BY DEF Relinquish, At, Moves, intakeAllVars, tickVars, intakeVars
<1>2. "sleeps" \in TapSteps
  BY DEF TapSteps
<1>3. tap' \in [Clients -> TapSteps] /\ tap'[c] = "sleeps" /\ \A d \in Clients \ {c} : tap'[d] = tap[d]
  BY <1>1, <1>2, Went
<1>4. Holds(c) /\ TapsTyped
  BY TapFacts DEF TapInv
<1>5. /\ partial'[c] = <<>> /\ held'[c] = <<>> /\ wire'[c] = Shut /\ TapsTyped'
  BY <1>1, <1>3, <1>4, NoPieces DEF TapsTyped, Wires
<1>6. \A d \in Clients \ {c} : SameTap(d)
  BY <1>1, <1>3, <1>4 DEF SameTap, TapsTyped, Wires
<1>7. StoresGo /\ Said(c)' = Said(c)
  BY <1>1, SameStoresGo DEF TapInv, Said
<1>8. OutKept(c)'
  <2>1. ~Breaks(env) => Range(wire[c].sent) = {} /\ Range(partial[c]) = {} /\ Range(held[c]) = {}
    BY <1>1, <1>4, NoPieces DEF Holds, Staged
  <2>2. Breaks(env) => Len(ring[c]) <= emitted[c]
    BY <1>4 DEF Holds, OutKept
  <2>3. QED
    BY <1>1, <1>4, <2>1, <2>2, OutGoes
<1>9. Told(c)'
  BY <1>1, <1>4, <1>5, <1>7, NoPieces DEF Holds, Told, Refusal, May, NoHalves
<1>10. Staged(c)'
  BY <1>1, <1>3, <1>4, <1>5 DEF Holds, Staged, Attaching, Shut
<1>11. Emptied(c)'
  BY <1>1, <1>3, <1>4, <1>5, NoPieces DEF Holds, Emptied, Refusal
<1>12. Holds(c)'
  BY <1>8, <1>9, <1>10, <1>11 DEF Holds
<1>13. env' = env /\ mpc' = mpc /\ left' = left /\ taken' = taken /\ wired' = wired /\ wrapped' = wrapped
  BY <1>1
<1>14. QED
  BY <1>5, <1>6, <1>7, <1>12, <1>13, TapMoves

\* Attach: with the websocket there is all from then on; what refuses says so over it.
LEMMA AttachStep ==
    ASSUME TapInv, OutputUndisturbed, env \in Environments, Console, NEW c \in Clients, Attach(c)
    PROVE  TapInv'
<1> DEFINE opened == [sent |-> <<>>, open |-> TRUE]
           refused == [sent |-> <<Refusal(c)>>, open |-> FALSE]
<1>1. /\ UNCHANGED <<env, mpc, left, taken, store, boots, emitted, ring, wired, wrapped, backlog, partial,
                     held, young, heard>>
      /\ tap[c] = "connects"
      /\ \/ tap' = [tap EXCEPT ![c] = "drains"] /\ wire' = [wire EXCEPT ![c] = opened]
         \/ tap' = [tap EXCEPT ![c] = "releases"] /\ wire' = wire
         \/ /\ tap' = [tap EXCEPT ![c] = "drains"] /\ wire' = [wire EXCEPT ![c] = refused]
            /\ May("refuse")
  BY DEF Attach, At, Moves, After, tickVars, intakeVars
<1>2. PICK to \in {"drains", "releases"}, w \in {opened, wire[c], refused} :
         /\ tap' = [tap EXCEPT ![c] = to] /\ wire' = [wire EXCEPT ![c] = w]
         /\ \/ w = opened /\ to = "drains"
            \/ w = wire[c]
            \/ w = refused /\ to = "drains" /\ May("refuse")
  <2>1. wire \in Wires
    BY DEF TapInv, TapsTyped
  <2>2. wire = [wire EXCEPT ![c] = wire[c]]
    BY <2>1 DEF Wires
  <2> HIDE DEF opened, refused
  <2>3. QED
    BY <1>1, <2>2
<1>3. to \in TapSteps
  BY DEF TapSteps
<1>4. tap' \in [Clients -> TapSteps] /\ tap'[c] = to /\ \A d \in Clients \ {c} : tap'[d] = tap[d]
  BY <1>2, <1>3, Went
<1>5. Holds(c) /\ TapsTyped /\ Refusal(c) \in Piece /\ Refusal(c) \notin Said(c)
  BY TapFacts DEF TapInv
<1>6. wire[c] = Shut /\ partial[c] = <<>> /\ held[c] = <<>> /\ young[c] /\ heard[c] = "nothing"
  BY <1>1, <1>5 DEF Holds, Staged, Attaching
<1>7. /\ w \in [sent : Seq(Piece), open : BOOLEAN]
      /\ w.sent = <<>> \/ (Range(w.sent) = {Refusal(c)} /\ ~w.open /\ May("refuse") /\ to = "drains")
  <2>1. CASE w = opened /\ to = "drains"
    BY <2>1, NoPieces
  <2>2. CASE w = wire[c]
    BY <1>6, <2>2, NoPieces
  <2>3. CASE w = refused /\ to = "drains" /\ May("refuse")
    <3>1. <<Refusal(c)>> \in Seq(Piece) /\ Range(<<Refusal(c)>>) = {Refusal(c)}
      BY <1>5 DEF Range
    <3>2. QED
      BY <2>3, <3>1
  <2>4. QED
    BY <1>2, <2>1, <2>2, <2>3
<1> HIDE DEF opened, refused
<1>8. wire' \in Wires /\ wire'[c] = w /\ \A d \in Clients \ {c} : wire'[d] = wire[d]
  BY <1>2, <1>5, <1>7 DEF TapsTyped, Wires
<1>9. TapsTyped'
  BY <1>1, <1>4, <1>5, <1>8 DEF TapsTyped
<1>10. \A d \in Clients \ {c} : SameTap(d)
  BY <1>1, <1>4, <1>8 DEF SameTap
<1>11. StoresGo /\ Said(c)' = Said(c)
  BY <1>1, SameStoresGo DEF TapInv, Said
<1>12. OutKept(c)'
  <2>1. Range(wire[c].sent) = {} /\ Range(partial[c]) = {} /\ Range(held[c]) = {}
    BY <1>6, NoPieces
  <2>2. Breaks(env) => Len(ring[c]) <= emitted[c]
    BY <1>5 DEF Holds, OutKept
  <2>3. QED
    BY <1>1, <1>5, <2>1, <2>2, OutGoes
<1>13. Told(c)'
  <2>1. Range(wire'[c].sent) \subseteq {Refusal(c)} /\ (Refusal(c) \in Range(wire'[c].sent) => May("refuse"))
    BY <1>7, <1>8, NoPieces
  <2>2. QED
    BY <1>1, <1>5, <1>6, <1>11, <2>1, NoPieces DEF Holds, Told, Refusal, May, NoHalves
<1>14. Staged(c)'
  <2>1. tap'[c] = "releases" => wire'[c] = Shut
    BY <1>2, <1>4, <1>6, <1>8
  <2>2. QED
    BY <1>1, <1>4, <1>5, <1>6, <2>1 DEF Holds, Staged, Attaching, Shut
<1>15. Emptied(c)'
  <2>1. ~wire'[c].open => Range(wire'[c].sent) \subseteq {Refusal(c)}
    BY <1>7, <1>8, NoPieces
  <2>2. QED
    BY <1>1, <1>4, <1>5, <2>1 DEF Holds, Emptied, Refusal
<1>16. Holds(c)'
  BY <1>12, <1>13, <1>14, <1>15 DEF Holds
<1>17. env' = env /\ mpc' = mpc /\ left' = left /\ taken' = taken /\ wired' = wired /\ wrapped' = wrapped
  BY <1>1
<1>18. QED
  BY <1>9, <1>10, <1>11, <1>16, <1>17, TapMoves

\* DrainRing: what was in the ring is in hand; where a failure may leave it there, it is not
\* emptied later.
LEMMA DrainRingStep ==
    ASSUME TapInv, OutputUndisturbed, env \in Environments, Console, NEW c \in Clients, DrainRing(c)
    PROVE  TapInv'
<1>1. /\ UNCHANGED <<env, mpc, left, taken, store, boots, emitted, wire, wired, wrapped, partial, held,
                     young, heard>>
      /\ tap[c] = "drains" /\ tap' = [tap EXCEPT ![c] = "ensures"]
      /\ \/ backlog' = [backlog EXCEPT ![c] = ring[c]] /\ ring' = [ring EXCEPT ![c] = <<>>]
         \/ May("drain") /\ ring' = ring /\ backlog' = [backlog EXCEPT ![c] = <<>>]
  BY DEF DrainRing, At, Moves, After, tickVars, intakeVars
<1>2. "ensures" \in TapSteps
  BY DEF TapSteps
<1>3. tap' \in [Clients -> TapSteps] /\ tap'[c] = "ensures" /\ \A d \in Clients \ {c} : tap'[d] = tap[d]
  BY <1>1, <1>2, Went
<1>4. Holds(c) /\ TapsTyped /\ ring[c] \in Seq(Piece)
  BY TapFacts DEF TapInv
<1>5. backlog[c] = <<>>
  BY <1>1, <1>4 DEF Holds, Staged
<1>6. /\ ring' \in [Clients -> Seq(Piece)] /\ backlog' \in [Clients -> Seq(Piece)]
      /\ \A d \in Clients \ {c} : ring'[d] = ring[d] /\ backlog'[d] = backlog[d]
      /\ \/ backlog'[c] = ring[c] /\ ring'[c] = <<>>
         \/ May("drain") /\ ring'[c] = ring[c] /\ backlog'[c] = <<>>
  BY <1>1, <1>4, NoPieces DEF TapsTyped
<1>7. TapsTyped'
  BY <1>1, <1>3, <1>4, <1>6 DEF TapsTyped
<1>8. \A d \in Clients \ {c} : SameTap(d)
  BY <1>1, <1>3, <1>6 DEF SameTap
<1>9. StoresGo /\ Said(c)' = Said(c) /\ StoreFor(c)' = StoreFor(c)
  BY <1>1, SameStoresGo DEF TapInv, Said, StoreFor
<1>10. OutKept(c)'
  <2>1. Passed(c)' = Passed(c)
    BY <1>1, <1>9 DEF Passed
  <2>2. Range(wire[c].sent) \cup Range(partial[c]) \cup Range(held[c]) \subseteq Passed(c)'
    BY <2>1 DEF Passed
  <2>3. Range(ring[c]) \cup Range(backlog[c]) = Range(ring'[c]) \cup Range(backlog'[c])
    BY <1>5, <1>6, NoPieces
  <2>4. Breaks(env) => Len(ring'[c]) <= emitted[c]
    <3>1. Breaks(env) => Len(ring[c]) <= emitted[c]
      BY <1>4 DEF Holds, OutKept
    <3>2. emitted[c] \in Nat
      BY TapFacts
    <3>3. QED
      BY <1>6, <3>1, <3>2, NoPieces
  <2>5. QED
    BY <1>1, <1>4, <2>2, <2>3, <2>4, OutGoes
<1>11. Told(c)'
  <2>1. Range(ring'[c]) \cup Range(backlog'[c]) \subseteq Said(c)
    BY <1>4, <1>6, NoPieces DEF Holds, Told
  <2>2. QED
    BY <1>1, <1>4, <1>9, <2>1 DEF Holds, Told, Refusal, May, NoHalves
<1>12. Staged(c)'
  BY <1>1, <1>3, <1>4 DEF Holds, Staged, Attaching, Shut, Breaks
<1>13. Emptied(c)'
  <2>1. ~env.keepRing => Range(ring'[c]) = {}
    BY <1>6, ConsoleFacts, NoPieces
  <2>2. QED
    BY <1>1, <1>3, <1>4, <2>1 DEF Holds, Emptied, Refusal
<1>14. Holds(c)'
  BY <1>10, <1>11, <1>12, <1>13 DEF Holds
<1>15. env' = env /\ mpc' = mpc /\ left' = left /\ taken' = taken /\ wired' = wired /\ wrapped' = wrapped
  BY <1>1
<1>16. QED
  BY <1>7, <1>8, <1>9, <1>14, <1>15, TapMoves

\* Consume: the websocket had it all.
LEMMA ConsumeStep ==
    ASSUME TapInv, OutputUndisturbed, env \in Environments, Console, NEW c \in Clients, Consume(c)
    PROVE  TapInv'
<1>1. /\ UNCHANGED <<env, mpc, left, taken, store, boots, emitted, wire, wired, wrapped, backlog, partial,
                     held, young, heard>>
      /\ tap[c] = "consumes" /\ tap' = [tap EXCEPT ![c] = "streams"]
      /\ ring' = [ring EXCEPT ![c] = <<>>]
  BY DEF Consume, At, Moves, intakeAllVars, tickVars, intakeVars
<1>2. "streams" \in TapSteps
  BY DEF TapSteps
<1>3. tap' \in [Clients -> TapSteps] /\ tap'[c] = "streams" /\ \A d \in Clients \ {c} : tap'[d] = tap[d]
  BY <1>1, <1>2, Went
<1>4. Holds(c) /\ TapsTyped
  BY TapFacts DEF TapInv
<1>5. ~env.keepRing /\ ~Breaks(env) /\ wire[c].open /\ Range(ring[c]) \subseteq wired
  <2>1. ~env.keepRing
    BY <1>1, <1>4 DEF Holds, Staged
  <2>2. ~Breaks(env)
    BY <2>1, ConsoleFacts DEF RingKeepsAll
  <2>3. QED
    BY <1>1, <1>4, <2>1, <2>2 DEF Holds, Emptied
<1>6. /\ ring' \in [Clients -> Seq(Piece)] /\ ring'[c] = <<>>
      /\ \A d \in Clients \ {c} : ring'[d] = ring[d]
  BY <1>1, <1>4, NoPieces DEF TapsTyped
<1>7. TapsTyped'
  BY <1>1, <1>3, <1>4, <1>6 DEF TapsTyped
<1>8. \A d \in Clients \ {c} : SameTap(d)
  BY <1>1, <1>3, <1>6 DEF SameTap
<1>9. StoresGo /\ Said(c)' = Said(c) /\ StoreFor(c)' = StoreFor(c)
  BY <1>1, SameStoresGo DEF TapInv, Said, StoreFor
<1>10. OutKept(c)'
  <2>1. Passed(c)' = Passed(c)
    BY <1>1, <1>9 DEF Passed
  <2>2. Range(wire[c].sent) \cup Range(partial[c]) \cup Range(held[c]) \subseteq Passed(c)'
    BY <2>1 DEF Passed
  <2>3. Range(ring[c]) \subseteq Passed(c)'
    BY <1>4, <1>5, <2>1 DEF Holds, Told, OutKept
  <2>4. QED
    BY <1>1, <1>4, <1>5, <2>2, <2>3, OutGoes
<1>11. Told(c)'
  BY <1>1, <1>4, <1>6, <1>9, NoPieces DEF Holds, Told, Refusal, May, NoHalves
<1>12. Staged(c)'
  BY <1>1, <1>3, <1>4, <1>9 DEF Holds, Staged, Attaching, Shut, Breaks
<1>13. Emptied(c)'
  BY <1>1, <1>3, <1>4, <1>6, NoPieces DEF Holds, Emptied, Refusal
<1>14. Holds(c)'
  BY <1>10, <1>11, <1>12, <1>13 DEF Holds
<1>15. env' = env /\ mpc' = mpc /\ left' = left /\ taken' = taken /\ wired' = wired /\ wrapped' = wrapped
  BY <1>1
<1>16. QED
  BY <1>7, <1>8, <1>9, <1>14, <1>15, TapMoves

\* Own: no other program has the store, so there is one.
LEMMA OwnStep ==
    ASSUME TapInv, OutputUndisturbed, env \in Environments, Console, NEW c \in Clients, Own(c)
    PROVE  TapInv'
<1> DEFINE n == StoreFor(c)
           t == IF store[n].open THEN store[n] ELSE [Replayed(store[n]) EXCEPT !.there = TRUE]
<1>1. n \notin taken
  BY ConsoleFacts DEF TapInv, Served
<1>2. /\ UNCHANGED <<env, mpc, left, taken, boots, emitted, ring, wire, wired, wrapped, backlog, partial,
                     held, young, heard>>
      /\ tap[c] = "ensures" /\ tap' = [tap EXCEPT ![c] = "records"]
      /\ store' = [store EXCEPT ![n] = t]
  BY <1>1 DEF Own, At, Moves, tickVars, incusVars
<1>3. n \in Names /\ StoreOK(store[n]) /\ (store[n].open => store[n].wal \/ "segment" \in env.troubles)
  BY StoreForIsName DEF TapInv, Served
<1> HIDE DEF n
<1>4. StoreOK(t) /\ t.open /\ (t.wal \/ "segment" \in env.troubles) /\ Soon(store[n]) \subseteq Soon(t)
  BY <1>3, OwnedFacts
<1> HIDE DEF t
<1>5. StoresGo /\ store'[n] = t
  BY <1>2, <1>3, <1>4, OneStoreGoes DEF TapInv
<1>6. "records" \in TapSteps
  BY DEF TapSteps
<1>7. tap' \in [Clients -> TapSteps] /\ tap'[c] = "records" /\ \A d \in Clients \ {c} : tap'[d] = tap[d]
  BY <1>2, <1>6, Went
<1>8. Holds(c) /\ TapsTyped
  BY TapFacts DEF TapInv
<1>9. TapsTyped'
  BY <1>2, <1>7, <1>8 DEF TapsTyped
<1>10. \A d \in Clients \ {c} : SameTap(d)
  BY <1>2, <1>7 DEF SameTap
<1>11. OutKept(c)'
  BY <1>2, <1>5, <1>8, SamePiecesKept DEF SamePieces
<1>12. StoreFor(c)' = n /\ Said(c)' = Said(c)
  BY <1>2 DEF StoreFor, Said, n
<1>13. Told(c)'
  BY <1>2, <1>8, <1>12 DEF Holds, Told, Refusal, May, NoHalves
<1>14. Staged(c)'
  BY <1>2, <1>4, <1>5, <1>7, <1>8, <1>12 DEF Holds, Staged, Attaching, Shut, Breaks
<1>15. Emptied(c)'
  BY <1>2, <1>7, <1>8 DEF Holds, Emptied, Refusal
<1>16. Holds(c)'
  BY <1>11, <1>13, <1>14, <1>15 DEF Holds
<1>17. env' = env /\ mpc' = mpc /\ left' = left /\ taken' = taken /\ wired' = wired /\ wrapped' = wrapped
  BY <1>2
<1>18. QED
  BY <1>5, <1>9, <1>10, <1>16, <1>17, TapMoves

\* RecordBacklog: the lines of what the ring had are stored, or, where it keeps all, it has
\* them still.
LEMMA RecordBacklogStep ==
    ASSUME AcksUndisturbed, TapInv, OutputUndisturbed, env \in Environments, Console, NEW c \in Clients,
           RecordBacklog(c)
    PROVE  TapInv'
<1> DEFINE out == Ended(backlog[c])
<1>1. /\ UNCHANGED <<env, mpc, left, taken, boots, emitted, ring, wire, wired, wrapped, held, young, heard>>
      /\ tap[c] = "records" /\ Writes(c, out.lines, "streams")
      /\ partial' = [partial EXCEPT ![c] = out.rest] /\ backlog' = [backlog EXCEPT ![c] = <<>>]
  BY DEF RecordBacklog, At, tickVars, incusVars
<1>2. Holds(c) /\ TapsTyped /\ backlog[c] \in Seq(Piece) /\ Served
      /\ \A p \in Said(c) : NoHalves(env) => Kind(p) # "half"
  BY TapFacts DEF TapInv
<1>3. Range(backlog[c]) \subseteq Said(c)
  BY <1>2 DEF Holds, Told
<1>4. /\ out.lines \in Seq(Piece) /\ out.rest \in Seq(Piece)
      /\ Range(backlog[c]) = Range(out.lines) \cup Range(out.rest)
      /\ NoHalves(env) => out.rest = <<>>
  BY <1>2, <1>3, EndedFacts
<1> HIDE DEF out
<1>5. store[StoreFor(c)].open /\ partial[c] = <<>> /\ held[c] = <<>>
  BY <1>1, <1>2 DEF Holds, Staged
<1>6. /\ StoresGo /\ Range(out.lines) \subseteq Soon(store'[StoreFor(c)])
      /\ \/ tap' = [tap EXCEPT ![c] = "streams"]
         \/ Breaks(env) /\ tap' = [tap EXCEPT ![c] = "releases"]
  BY <1>1, <1>2, <1>4, <1>5, WritesFacts
<1>7. PICK to \in {"streams", "releases"} :
         tap' = [tap EXCEPT ![c] = to] /\ (to = "releases" => Breaks(env))
  BY <1>6
<1>8. to \in TapSteps
  BY DEF TapSteps
<1>9. tap' \in [Clients -> TapSteps] /\ tap'[c] = to /\ \A d \in Clients \ {c} : tap'[d] = tap[d]
  BY <1>7, <1>8, Went DEF TapInv
<1>10. /\ partial'[c] = out.rest /\ backlog'[c] = <<>>
       /\ TapsTyped'
  BY <1>1, <1>2, <1>4, <1>9, NoPieces DEF TapsTyped
<1>11. \A d \in Clients \ {c} : SameTap(d)
  BY <1>1, <1>2, <1>9 DEF SameTap, TapsTyped
<1>12. /\ StoreFor(c)' = StoreFor(c) /\ Said(c)' = Said(c) /\ store'[StoreFor(c)].open
       /\ Soon(store[StoreFor(c)]) \subseteq Soon(store'[StoreFor(c)])
  BY <1>1, <1>5, <1>6, StoredStays DEF Said
<1>13. OutKept(c)'
  <2>1. Breaks(env) => out.rest = <<>> /\ Len(ring[c]) <= emitted[c]
    BY <1>2, <1>4, ConsoleFacts DEF Holds, OutKept
  <2>2. Breaks(env) => Range(backlog[c]) \subseteq Soon(store'[StoreFor(c)])
    BY <1>4, <1>6, <2>1, NoPieces
  <2>3. Range(backlog[c]) \subseteq Passed(c)'
    BY <1>4, <1>6, <1>10, <1>12 DEF Passed
  <2>4. Range(wire[c].sent) \cup Range(partial[c]) \cup Range(held[c]) \subseteq Passed(c)'
    BY <1>1, <1>5, NoPieces DEF Passed
  <2>5. QED
    BY <1>1, <1>2, <1>12, <2>1, <2>2, <2>3, <2>4, OutGoes
<1>14. Told(c)'
  BY <1>1, <1>2, <1>3, <1>4, <1>10, <1>12, NoPieces DEF Holds, Told, Refusal, May, NoHalves
<1>15. Staged(c)'
  <2>1. (Breaks(env))' = Breaks(env)
    BY <1>1
  <2>2. QED
    BY <1>1, <1>2, <1>5, <1>7, <1>9, <1>10, <1>12, <2>1 DEF Holds, Staged, Attaching, Shut
<1>16. Emptied(c)'
  BY <1>1, <1>2, <1>9 DEF Holds, Emptied, Refusal
<1>17. Holds(c)'
  BY <1>13, <1>14, <1>15, <1>16 DEF Holds
<1>18. env' = env /\ mpc' = mpc /\ left' = left /\ taken' = taken /\ wired' = wired /\ wrapped' = wrapped
  BY <1>1
<1>19. QED
  BY <1>6, <1>10, <1>11, <1>17, <1>18, TapMoves

\* CloseStream: what it held is stored but for a refusal, with which nothing else came.
LEMMA CloseStreamStep ==
    ASSUME AcksUndisturbed, TapInv, OutputUndisturbed, env \in Environments, Console, NEW c \in Clients,
           CloseStream(c)
    PROVE  TapInv'
<1> DEFINE all == held[c] \o partial[c]
<1>1. /\ UNCHANGED <<env, mpc, left, taken, boots, emitted, ring, wire, wired, wrapped, backlog, young, heard>>
      /\ tap[c] = "streams" /\ ~wire[c].open /\ wire[c].sent = <<>>
      /\ held' = [held EXCEPT ![c] = <<>>] /\ partial' = [partial EXCEPT ![c] = <<>>]
      /\ IF heard[c] = "error" THEN store' = store /\ tap' = [tap EXCEPT ![c] = "releases"]
         ELSE Writes(c, all, "releases")
  <2>1. ~Stopping
    BY DEF TapInv, Served, Stopping
  <2>2. QED
    BY <2>1 DEF CloseStream, At, Moves, tickVars, incusVars
<1>2. /\ Holds(c) /\ TapsTyped /\ Served /\ held[c] \in Seq(Piece) /\ partial[c] \in Seq(Piece)
      /\ wire[c] \in [sent : Seq(Piece), open : BOOLEAN] /\ Refusal(c) \notin Said(c)
  BY TapFacts DEF TapInv
<1>3. all \in Seq(Piece) /\ Range(all) = Range(held[c]) \cup Range(partial[c])
  BY <1>2, ConcatRange, ConcatProperties
<1>4. store[StoreFor(c)].open
  BY <1>1, <1>2 DEF Holds, Staged
<1> HIDE DEF all
<1>5. /\ StoresGo /\ tap' = [tap EXCEPT ![c] = "releases"]
      /\ Said(c) \cap (Range(held[c]) \cup Range(partial[c])) \subseteq Soon(store'[StoreFor(c)])
  <2>1. CASE heard[c] = "error"
    <3>1. Range(held[c]) \subseteq {Refusal(c)} /\ May("refuse")
      BY <1>2, <2>1 DEF Holds, Told
    <3>2. partial[c] = <<>>
      BY <1>2, <3>1, ConsoleFacts DEF Holds, Told
    <3>3. QED
      BY <1>1, <1>2, <2>1, <3>1, <3>2, NoPieces, SameStoresGo
  <2>2. CASE heard[c] # "error"
    BY <1>1, <1>2, <1>3, <1>4, <2>2, WritesFacts
  <2>3. QED
    BY <2>1, <2>2
<1>6. "releases" \in TapSteps
  BY DEF TapSteps
<1>7. tap' \in [Clients -> TapSteps] /\ tap'[c] = "releases" /\ \A d \in Clients \ {c} : tap'[d] = tap[d]
  BY <1>5, <1>6, Went
<1>8. /\ partial'[c] = <<>> /\ held'[c] = <<>> /\ TapsTyped'
  BY <1>1, <1>2, <1>7, NoPieces DEF TapsTyped
<1>9. \A d \in Clients \ {c} : SameTap(d)
  BY <1>1, <1>2, <1>7 DEF SameTap, TapsTyped
<1>10. /\ StoreFor(c)' = StoreFor(c) /\ Said(c)' = Said(c)
       /\ Soon(store[StoreFor(c)]) \subseteq Soon(store'[StoreFor(c)])
  BY <1>1, <1>5, StoredStays DEF Said
<1>11. OutKept(c)'
  <2>1. Breaks(env) => Len(ring[c]) <= emitted[c]
    BY <1>2 DEF Holds, OutKept
  <2>2. Said(c) \cap (Range(wire[c].sent) \cup Range(partial[c]) \cup Range(held[c])) \subseteq Passed(c)'
    BY <1>1, <1>5, <1>10, NoPieces DEF Passed
  <2>3. QED
    BY <1>1, <1>2, <1>10, <2>1, <2>2, OutGoes
<1>12. Told(c)'
  BY <1>1, <1>2, <1>8, <1>10, NoPieces DEF Holds, Told, Refusal, May, NoHalves
<1>13. Staged(c)'
  <2>1. wire'[c] = Shut
    BY <1>1, <1>2, IsShut
  <2>2. QED
    BY <1>1, <1>2, <1>7, <1>8, <2>1 DEF Holds, Staged, Attaching, Shut
<1>14. Emptied(c)'
  BY <1>1, <1>2, <1>7 DEF Holds, Emptied, Refusal
<1>15. Holds(c)'
  BY <1>11, <1>12, <1>13, <1>14 DEF Holds
<1>16. env' = env /\ mpc' = mpc /\ left' = left /\ taken' = taken /\ wired' = wired /\ wrapped' = wrapped
  BY <1>1
<1>17. QED
  BY <1>5, <1>8, <1>9, <1>15, <1>16, TapMoves

\* Stream: of a frame, the lines it ends are held or stored, the rest kept.
LEMMA StreamPieces ==
    ASSUME TapInv, OutputUndisturbed, env \in Environments, Console, NEW c \in Clients, tap[c] = "streams",
           wire[c].sent # <<>>
    PROVE  LET p == Head(wire[c].sent)
               out == Ended(Append(partial[c], p))
           IN  /\ Tail(wire[c].sent) \in Seq(Piece)
               /\ Range(wire[c].sent) = Range(Tail(wire[c].sent)) \cup {p}
               /\ out.lines \in Seq(Piece) /\ out.rest \in Seq(Piece)
               /\ Range(out.lines) \cup Range(out.rest) = Range(partial[c]) \cup {p}
               /\ Range(out.rest) \subseteq Said(c) /\ (NoHalves(env) => out.rest = <<>>)
               /\ Kind(p) = "error" => p = Refusal(c) /\ partial[c] = <<>> /\ May("refuse")
<1> DEFINE s == wire[c].sent
           p == Head(s)
           r == Append(partial[c], p)
           out == Ended(r)
<1>1. /\ s \in Seq(Piece) /\ partial[c] \in Seq(Piece) /\ Holds(c)
      /\ \A q \in Said(c) : q \in Piece /\ Kind(q) # "error" /\ (NoHalves(env) => Kind(q) # "half")
      /\ Kind(Refusal(c)) = "error" /\ Refusal(c) \notin Said(c)
  BY TapFacts
<1>2. /\ p \in Piece /\ p \in Range(s) /\ Tail(s) \in Seq(Piece) /\ Range(Tail(s)) \subseteq Range(s)
  BY <1>1, TailRange
<1>3. Range(s) = Range(Tail(s)) \cup {p}
  <2>1. /\ Len(s) \in Nat /\ p = s[1] /\ Len(Tail(s)) = Len(s) - 1
        /\ \A i \in 1 .. Len(s) - 1 : Tail(s)[i] = s[i + 1]
    BY <1>1, TailIsSeq
  <2>2. DOMAIN s = 1 .. Len(s) /\ DOMAIN Tail(s) = 1 .. Len(s) - 1
    BY <1>1, <1>2, <2>1, SeqElements
  <2>3. ASSUME NEW x \in Range(s) PROVE x = p \/ x \in Range(Tail(s))
    <3> HIDE DEF s
    <3>1. PICK i \in 1 .. Len(s) : x = s[i]
      BY <2>2, <2>3 DEF Range
    <3>2. CASE i = 1
      BY <2>1, <3>1, <3>2
    <3>3. CASE i # 1
      <4>1. i - 1 \in 1 .. Len(s) - 1 /\ (i - 1) + 1 = i
        BY <2>1, <3>1, <3>3
      <4>2. Tail(s)[i - 1] = s[i]
        BY <2>1, <4>1
      <4>3. QED
        BY <2>2, <3>1, <4>1, <4>2 DEF Range
    <3>4. QED
      BY <3>2, <3>3
  <2>4. QED
    BY <1>2, <2>3
<1>4. p \in Said(c) \cup {Refusal(c)} /\ (p = Refusal(c) => May("refuse"))
  BY <1>1, <1>2 DEF Holds, Told
<1>5. NoHalves(env) => partial[c] = <<>>
  BY <1>1 DEF Holds, Told
<1>6. Kind(p) = "error" => p = Refusal(c) /\ partial[c] = <<>> /\ May("refuse")
  BY <1>1, <1>4, <1>5, ConsoleFacts
<1> HIDE DEF p, s
<1>7. r \in Seq(Piece) /\ Range(r) = Range(partial[c]) \cup {p}
  BY <1>1, <1>2, AppendIsSeq, AppendRange
<1>8. /\ out.lines \in Seq(Piece) /\ out.rest \in Seq(Piece)
      /\ Range(r) = Range(out.lines) \cup Range(out.rest)
      /\ (\A q \in Range(r) : Kind(q) # "half") => out.rest = <<>>
  <2> HIDE DEF r
  <2>1. QED
    BY <1>7, EndedFacts
<1> HIDE DEF r, out
<1>9. NoHalves(env) => out.rest = <<>>
  <2>1. SUFFICES ASSUME NoHalves(env) PROVE \A q \in Range(r) : Kind(q) # "half"
    BY <1>8
  <2>2. Range(r) = {p}
    BY <1>5, <1>7, <2>1, NoPieces
  <2>3. Kind(p) # "half"
    BY <1>1, <1>4, <2>1
  <2>4. QED
    BY <2>2, <2>3
<1>10. Range(out.rest) \subseteq Said(c)
  <2>1. CASE NoHalves(env)
    BY <1>9, <2>1, NoPieces
  <2>2. CASE ~NoHalves(env)
    <3>1. p \in Said(c)
      BY <1>4, <2>2, ConsoleFacts
    <3>2. QED
      BY <1>1, <1>7, <1>8, <3>1 DEF Holds, Told
  <2>3. QED
    BY <2>1, <2>2
<1>11. QED
  BY <1>2, <1>3, <1>6, <1>7, <1>8, <1>9, <1>10 DEF p, r, out, s

\* What it does with the lines.
LEMMA StreamGoes ==
    ASSUME AcksUndisturbed, TapInv, OutputUndisturbed, env \in Environments, Console, NEW c \in Clients,
           Stream(c)
    PROVE  /\ StoresGo
           /\ \E to \in {"streams", "consumes", "releases"}, h \in Seq(Piece) :
                 LET lines == Ended(Append(partial[c], Head(wire[c].sent))).lines IN
                 /\ tap' = [tap EXCEPT ![c] = to] /\ held' = [held EXCEPT ![c] = h]
                 /\ Range(h) \subseteq Range(held[c]) \cup Range(lines)
                 /\ Range(held[c]) \cup Range(lines) \subseteq Range(h) \cup Soon(store'[StoreFor(c)])
                 /\ to = "releases" => Breaks(env)
                 /\ to = "consumes" => ~env.keepRing /\ ~young[c]
<1> DEFINE lines == Ended(Append(partial[c], Head(wire[c].sent))).lines
           all == held[c] \o lines
           next == {"streams"} \cup (IF env.keepRing \/ young[c] THEN {} ELSE {"consumes"})
<1>1. /\ tap[c] = "streams" /\ wire[c].sent # <<>>
      /\ \E then \in next :
            IF lines = <<>> \/ young[c]
            THEN /\ held' = [held EXCEPT ![c] = @ \o lines]
                 /\ UNCHANGED <<budget, store>> /\ Moves(c, then)
            ELSE /\ held' = [held EXCEPT ![c] = <<>>]
                 /\ Writes(c, held[c] \o lines, then)
  BY DEF Stream, At
<1>2. Holds(c) /\ held[c] \in Seq(Piece) /\ Served /\ held \in [Clients -> Seq(Piece)]
  BY TapFacts DEF TapInv, TapsTyped
<1>3. lines \in Seq(Piece)
  BY <1>1, StreamPieces
<1> HIDE DEF lines
<1>4. all \in Seq(Piece) /\ Range(all) = Range(held[c]) \cup Range(lines)
  BY <1>2, <1>3, ConcatRange, ConcatProperties
<1>5. store[StoreFor(c)].open
  BY <1>1, <1>2 DEF Holds, Staged
<1>6. PICK then \in next :
            IF lines = <<>> \/ young[c]
            THEN /\ held' = [held EXCEPT ![c] = all]
                 /\ store' = store /\ tap' = [tap EXCEPT ![c] = then]
            ELSE /\ held' = [held EXCEPT ![c] = <<>>]
                 /\ Writes(c, all, then)
  BY <1>1 DEF Moves
<1>7. then \in {"streams", "consumes"} /\ (then = "consumes" => ~env.keepRing /\ ~young[c])
  BY <1>6
<1> HIDE DEF all, next
<1>8. CASE lines = <<>> \/ young[c]
  BY <1>2, <1>4, <1>6, <1>7, <1>8, SameStoresGo DEF lines
<1>9. CASE ~(lines = <<>> \/ young[c])
  <2>1. /\ StoresGo /\ Range(all) \subseteq Soon(store'[StoreFor(c)])
        /\ \/ tap' = [tap EXCEPT ![c] = then]
           \/ Breaks(env) /\ tap' = [tap EXCEPT ![c] = "releases"]
    BY <1>2, <1>4, <1>5, <1>6, <1>9, WritesFacts
  <2>2. held' = [held EXCEPT ![c] = <<>>]
    BY <1>6, <1>9
  <2>3. PICK to \in {"streams", "consumes", "releases"} :
           tap' = [tap EXCEPT ![c] = to] /\ (to = "releases" => Breaks(env)) /\ (to = "consumes" => to = then)
    BY <1>7, <2>1
  <2>4. QED
    BY <1>4, <1>7, <2>1, <2>2, <2>3, NoPieces DEF lines
<1>10. QED
  BY <1>8, <1>9

LEMMA StreamStep ==
    ASSUME AcksUndisturbed, TapInv, OutputUndisturbed, env \in Environments, Console, NEW c \in Clients,
           Stream(c)
    PROVE  TapInv'
<1> DEFINE p == Head(wire[c].sent)
           out == Ended(Append(partial[c], p))
           lines == out.lines
           rest == out.rest
           tail == Tail(wire[c].sent)
           now == IF heard[c] = "nothing" /\ Kind(p) = "error" THEN "error" ELSE "more"
<1>1. /\ UNCHANGED <<env, mpc, left, taken, boots, emitted, ring, wired, wrapped, backlog, young>>
      /\ tap[c] = "streams" /\ wire[c].sent # <<>>
      /\ partial' = [partial EXCEPT ![c] = rest]
      /\ heard' = [heard EXCEPT ![c] = now]
      /\ wire' = [wire EXCEPT ![c].sent = tail]
  BY DEF Stream, At, tickVars
<1>2. PICK to \in {"streams", "consumes", "releases"}, h \in Seq(Piece) :
         /\ tap' = [tap EXCEPT ![c] = to] /\ held' = [held EXCEPT ![c] = h]
         /\ Range(h) \subseteq Range(held[c]) \cup Range(lines)
         /\ Range(held[c]) \cup Range(lines) \subseteq Range(h) \cup Soon(store'[StoreFor(c)])
         /\ to = "releases" => Breaks(env)
         /\ to = "consumes" => ~env.keepRing /\ ~young[c]
  BY StreamGoes
<1>3. StoresGo
  BY StreamGoes
<1>4. /\ tail \in Seq(Piece) /\ Range(wire[c].sent) = Range(tail) \cup {p}
      /\ lines \in Seq(Piece) /\ rest \in Seq(Piece)
      /\ Range(lines) \cup Range(rest) = Range(partial[c]) \cup {p}
      /\ Range(rest) \subseteq Said(c) /\ (NoHalves(env) => rest = <<>>)
      /\ Kind(p) = "error" => p = Refusal(c) /\ partial[c] = <<>> /\ May("refuse")
  BY <1>1, StreamPieces
<1>5. now \in {"nothing", "error", "more"} /\ now # "nothing"
      /\ (now = "error" => heard[c] = "nothing" /\ Kind(p) = "error")
  OBVIOUS
<1> HIDE DEF now, tail, rest, lines, out, p
<1>6. Holds(c) /\ TapsTyped /\ wire[c] \in [sent : Seq(Piece), open : BOOLEAN]
  BY TapFacts DEF TapInv
<1>7. to \in TapSteps
  BY DEF TapSteps
<1>8. tap' \in [Clients -> TapSteps] /\ tap'[c] = to /\ \A d \in Clients \ {c} : tap'[d] = tap[d]
  BY <1>2, <1>7, Went
<1>9. /\ wire' \in Wires /\ wire'[c].sent = tail /\ wire'[c].open = wire[c].open
      /\ \A d \in Clients \ {c} : wire'[d] = wire[d]
  BY <1>1, <1>4, <1>6, WireSends DEF TapsTyped
<1>10. partial'[c] = rest /\ heard'[c] = now /\ held'[c] = h /\ TapsTyped'
  BY <1>1, <1>2, <1>4, <1>5, <1>6, <1>8, <1>9 DEF TapsTyped
<1>11. \A d \in Clients \ {c} : SameTap(d)
  BY <1>1, <1>2, <1>6, <1>8, <1>9 DEF SameTap, TapsTyped
<1>12. /\ StoreFor(c)' = StoreFor(c) /\ Said(c)' = Said(c)
       /\ Soon(store[StoreFor(c)]) \subseteq Soon(store'[StoreFor(c)])
       /\ store[StoreFor(c)].open => store'[StoreFor(c)].open
  BY <1>1, <1>3, StoredStays DEF Said
<1>13. OutKept(c)'
  <2>1. Breaks(env) => Len(ring[c]) <= emitted[c]
    BY <1>6 DEF Holds, OutKept
  <2>2. Passed(c)' = Range(tail) \cup Range(rest) \cup Range(h) \cup Soon(store'[StoreFor(c)])
    BY <1>9, <1>10, <1>12 DEF Passed
  <2>3. Range(wire[c].sent) \cup Range(partial[c]) \cup Range(held[c]) \subseteq Passed(c)'
    BY <1>2, <1>4, <2>2
  <2>4. QED
    BY <1>1, <1>6, <1>12, <2>1, <2>3, OutGoes
<1>14. Told(c)'
  <2>1. Told(c)
    BY <1>6 DEF Holds
  <2>2. Range(partial[c]) \cup Range(held[c]) \cup Range(wire[c].sent) \subseteq Said(c) \cup {Refusal(c)}
    BY <2>1 DEF Told
  <2>3. Range(wire'[c].sent) \cup Range(held'[c]) \subseteq Said(c) \cup {Refusal(c)}
    BY <1>2, <1>4, <1>9, <1>10, <2>2
  <2>4. Refusal(c) \in Range(wire'[c].sent) => May("refuse") /\ young[c]
    BY <1>4, <1>9, <2>1 DEF Told
  <2>5. heard'[c] = "error" => May("refuse") /\ Range(held'[c]) \subseteq {Refusal(c)}
    <3>1. SUFFICES ASSUME now = "error" PROVE May("refuse") /\ Range(h) \subseteq {Refusal(c)}
      BY <1>10
    <3>2. held[c] = <<>> /\ partial[c] = <<>> /\ p = Refusal(c) /\ May("refuse")
      BY <1>4, <1>5, <2>1, <3>1 DEF Told
    <3>3. QED
      BY <1>2, <1>4, <3>2, NoPieces
  <2>6. QED
    BY <1>1, <1>4, <1>5, <1>10, <1>12, <2>1, <2>3, <2>4, <2>5 DEF Told, Refusal, May, NoHalves
<1>15. Staged(c)'
  <2>1. (Breaks(env))' = Breaks(env)
    BY <1>1
  <2>2. QED
    BY <1>1, <1>2, <1>6, <1>8, <1>12, <2>1 DEF Holds, Staged, Attaching, Shut
<1>16. Emptied(c)'
  <2>1. ~env.keepRing /\ to = "consumes" => wire[c].open
    <3>1. SUFFICES ASSUME ~env.keepRing, to = "consumes", ~wire[c].open PROVE FALSE
      OBVIOUS
    <3>2. ~young[c] /\ Range(wire[c].sent) \subseteq {Refusal(c)} /\ p \in Range(wire[c].sent)
      BY <1>2, <1>4, <1>6, <3>1 DEF Holds, Emptied
    <3>3. QED
      BY <1>6, <3>2 DEF Holds, Told
  <2>2. QED
    BY <1>1, <1>2, <1>4, <1>6, <1>8, <1>9, <2>1 DEF Holds, Emptied, Refusal
<1>17. Holds(c)'
  BY <1>13, <1>14, <1>15, <1>16 DEF Holds
<1>18. env' = env /\ mpc' = mpc /\ left' = left /\ taken' = taken /\ wired' = wired /\ wrapped' = wrapped
  BY <1>1
<1>19. QED
  BY <1>3, <1>10, <1>11, <1>17, <1>18, TapMoves

------------------------------------------------------------------------------
\* The supervisor starts taps where there is none.
LEMMA SpawnStep ==
    ASSUME TapInv, OutputUndisturbed, env \in Environments, Console,
           UNCHANGED <<env, mpc, left, taken, store, boots, emitted, ring, wire, wired, wrapped, backlog,
                       partial, held, young, heard>>,
           NEW cs, tap' = Spawned(cs)
    PROVE  TapInv'
<1>1. /\ tap' \in [Clients -> TapSteps]
      /\ \A d \in Clients : tap'[d] = tap[d] \/ (tap[d] = "off" /\ tap'[d] = "reads")
  <2>1. tap \in [Clients -> TapSteps] /\ "reads" \in TapSteps
    BY DEF TapInv, TapsTyped, TapSteps
  <2>2. QED
    BY <2>1 DEF Spawned
<1>2. TapsTyped'
  BY <1>1 DEF TapInv, TapsTyped
<1>3. StoresGo /\ Served'
  BY SameStoresGo DEF TapInv, Served
<1>4. ASSUME NEW d \in Clients PROVE Holds(d)'
  <2>1. Holds(d)
    BY DEF TapInv, Holds
  <2>2. CASE tap'[d] = tap[d]
    BY <1>3, <2>1, <2>2, TapStays DEF SameTap
  <2>3. CASE tap[d] = "off" /\ tap'[d] = "reads"
    <3>1. OutKept(d)'
      BY <1>3, <2>1, SamePiecesKept DEF SamePieces
    <3>2. Told(d)'
      <4>1. Told(d) /\ Said(d)' = Said(d)
        BY <2>1 DEF Holds, Said
      <4>2. QED
        BY <4>1 DEF Told, Refusal, May, NoHalves
    <3>3. Staged(d)'
      BY <2>1, <2>3 DEF Holds, Staged, Attaching, Shut
    <3>4. Emptied(d)'
      BY <2>1, <2>3 DEF Holds, Emptied, Refusal
    <3>5. QED
      BY <3>1, <3>2, <3>3, <3>4 DEF Holds
  <2>4. QED
    BY <1>1, <2>2, <2>3
<1>5. QED
  BY <1>2, <1>3, <1>4 DEF TapInv, Holds

LEMMA SupervisorStep ==
    ASSUME TapInv, OutputUndisturbed, env \in Environments, Console, Supervisor
    PROVE  TapInv'
<1>1. /\ UNCHANGED <<env, mpc, left, taken, store, boots, emitted, ring, wire, wired, wrapped, backlog,
                     partial, held, young, heard>>
  BY DEF Supervisor, List, Subscribe, Notice, intakeAllVars, tickVars, intakeVars, incusVars, tapVars
<1>2. CASE Subscribe
  <2>1. tap' = tap /\ boots' \in [Clients -> Nat]
    BY <1>1, <1>2 DEF Subscribe, tapVars, TapInv, TapsTyped
  <2>2. StoresGo /\ Served'
    BY <1>1, SameStoresGo DEF TapInv, Served
  <2>3. QED
    BY <1>1, <2>1, <2>2, AllStay
<1>3. CASE List \/ Notice
  <2>1. PICK cs : tap' = Spawned(cs)
    BY <1>3 DEF List, Notice
  <2>2. QED
    BY <1>1, <2>1, SpawnStep
<1>4. QED
  BY <1>2, <1>3 DEF Supervisor

------------------------------------------------------------------------------
\* The maintenance thread, and what others do to the stores.
LEMMA AllGo ==
    ASSUME Served, NEW f, store' = [n \in Names |-> f[n]], \A n \in Names : Better(store[n], f[n])
    PROVE  StoresGo
<1>1. ASSUME NEW n \in Names
      PROVE  /\ store'[n] = f[n] /\ StoreOK(f[n]) /\ f[n].open = store[n].open
             /\ (store[n].wal => f[n].wal \/ "segment" \in env.troubles)
             /\ Soon(store[n]) \subseteq Soon(f[n])
  BY DEF Better, Becomes, SameStore
<1>2. store' \in [Names -> StoreRecord]
  BY <1>1 DEF StoreOK
<1>3. QED
  BY <1>1, <1>2 DEF StoresGo, Served

LEMMA TickGoes ==
    ASSUME Served, TickStarts
    PROVE  StoresGo
<1>1. PICK os : /\ \A n \in Names : os[n] \in Ticked(store[n])
                /\ store' = [n \in Names |-> os[n].store]
  BY DEF TickStarts
<1> DEFINE f == [n \in Names |-> os[n].store]
<1>2. store' = [n \in Names |-> f[n]]
  BY <1>1
<1>3. \A n \in Names : Better(store[n], f[n])
  <2>1. TAKE n \in Names
  <2>2. StoreOK(store[n]) /\ os[n] \in Ticked(store[n]) /\ f[n] = os[n].store
    BY <1>1 DEF Served
  <2> HIDE DEF f
  <2>3. QED
    BY <2>2, TickedFacts
<1> HIDE DEF f
<1>4. QED
  BY <1>2, <1>3, AllGo

LEMMA PolicyGoes ==
    ASSUME AcksUndisturbed, OutputUndisturbed, env \in Environments, Console, Served,
           NEW n \in Names, Policy(n)
    PROVE  StoresGo
<1>1. /\ StoreOK(store[n]) /\ store[n].open /\ (store[n].wal \/ "segment" \in env.troubles)
  BY DEF Served, Policy
<1>2. "rearm" \in env.troubles => Rearmed(store[n]) = store[n]
  BY <1>1 DEF AcksUndisturbed, Rearmed
<1>3. ~env.retains
  BY ConsoleFacts
<1>4. store' = [store EXCEPT ![n] = DropHead(store[n], 0)]
  <2>1. PICK m \in 0 .. (IF env.retains THEN Len(store[n].chunks) ELSE 0),
             rearms \in {FALSE} \cup {"rearm" \in env.troubles} :
               store' = [store EXCEPT ![n] = DropHead(IF rearms THEN Rearmed(store[n]) ELSE store[n], m)]
    BY DEF Policy
  <2>2. m = 0
    BY <1>3, <2>1
  <2>3. (IF rearms THEN Rearmed(store[n]) ELSE store[n]) = store[n]
    BY <1>2, <2>1
  <2>4. QED
    BY <2>1, <2>2, <2>3
<1>5. PartsBefore(store[n], 0) = {}
  BY DEF PartsBefore
<1>6. Better(store[n], DropHead(store[n], 0))
  <2>1. 0 \in 0 .. Len(store[n].chunks)
    BY <1>1, StoreTypes DEF StoreOK
  <2>2. Becomes(store[n], DropHead(store[n], 0), PartsBefore(store[n], 0))
    BY <1>1, <2>1, DropFacts
  <2>3. QED
    BY <1>5, <2>2 DEF Better
<1>7. QED
  BY <1>1, <1>4, <1>6, BetterGoes

LEMMA DeclareGoes ==
    ASSUME Served, NEW n \in Names, Declare(n)
    PROVE  StoresGo
<1> DEFINE t == [store[n] EXCEPT !.there = TRUE]
<1>1. store' = [store EXCEPT ![n] = t] /\ StoreOK(store[n])
      /\ (store[n].open => store[n].wal \/ "segment" \in env.troubles)
  BY DEF Served, Declare
<1>2. store[n] \in StoreRecord
  BY <1>1 DEF StoreOK
<1>3. /\ t \in StoreRecord /\ t.open = store[n].open /\ t.wal = store[n].wal /\ t.chunks = store[n].chunks
      /\ t.csynced = store[n].csynced /\ t.sap = store[n].sap /\ t.ssynced = store[n].ssynced
      /\ t.buf = store[n].buf
  BY <1>2 DEF StoreRecord
<1> HIDE DEF t
<1>4. StoreOK(t)
  BY <1>1, <1>3 DEF StoreOK
<1>5. Sure(t) = Sure(store[n])
  BY <1>3 DEF Sure
<1>6. Soon(t) = Soon(store[n])
  BY <1>3, <1>5 DEF Soon
<1>7. QED
  BY <1>1, <1>3, <1>4, <1>6, OneStoreGoes

LEMMA KeeperStep ==
    ASSUME AcksUndisturbed, Quiet, TapInv, OutputUndisturbed, env \in Environments, Console,
           UNCHANGED consoleVars,
           Maintenance \/ Stop \/ Restart \/ (\E n \in Names : Declare(n) \/ Release(n))
    PROVE  TapInv'
<1>1. Served /\ ~Stop /\ ~Restart /\ ~SendAck(Tick) /\ ~Forward
  <2>1. "stop" \notin env.troubles /\ mpc \in {"sleeps", "works"}
    BY ConsoleFacts DEF TapInv, Served
  <2>2. sending[Tick] = <<>>
    BY DEF Quiet
  <2>3. QED
    BY <2>1, <2>2 DEF TapInv, Stop, Restart, SendAck, Forward, Console
<1>2. SUFFICES StoresGo /\ env' = env /\ mpc' \in {"sleeps", "works"} /\ taken' \subseteq taken
               /\ (left' \subseteq left \/ left' = {"policy", "sweep"} \X Open)
  <2>1. UNCHANGED <<boots, emitted, ring, wire, wired, wrapped, tap, backlog, partial, held, young, heard>>
    BY DEF consoleVars, incusVars, tapVars
  <2>2. boots' \in [Clients -> Nat]
    BY <2>1 DEF TapInv, TapsTyped
  <2>3. Served'
    BY <1>1, <1>2 DEF Served, StoresGo, Open
  <2>4. QED
    BY <1>2, <2>1, <2>2, <2>3, AllStay
<1>3. CASE TickStarts
  BY <1>1, <1>3, TickGoes DEF TickStarts
<1>4. ASSUME NEW n \in Names, Policy(n)
      PROVE  StoresGo /\ UNCHANGED <<env, mpc, taken>> /\ left' \subseteq left
  BY <1>1, <1>4, PolicyGoes DEF Policy
<1>5. ASSUME NEW n \in Names, Sweep(n)
      PROVE  StoresGo /\ UNCHANGED <<env, mpc, taken>> /\ left' \subseteq left
  BY <1>1, <1>5, SameStoresGo DEF Sweep
<1>6. CASE TickEnds
  BY <1>1, <1>6, SameStoresGo DEF TickEnds, intakeVars
<1>7. ASSUME NEW n \in Names, Declare(n)
      PROVE  StoresGo /\ UNCHANGED <<env, mpc, taken, left>>
  BY <1>1, <1>7, DeclareGoes DEF Declare, tickVars
<1>8. ASSUME NEW n \in Names, Release(n)
      PROVE  StoresGo /\ UNCHANGED <<env, mpc, left>> /\ taken' \subseteq taken
  BY <1>1, <1>8, SameStoresGo DEF Release, tickVars
<1>9. mpc \in {"sleeps", "works"}
  BY <1>1 DEF Served
<1>10. QED
  BY <1>1, <1>3, <1>4, <1>5, <1>6, <1>7, <1>8, <1>9 DEF Maintenance

------------------------------------------------------------------------------
LEMMA TapInit ==
    ASSUME OutputUndisturbed, ConsoleInit, Console
    PROVE  TapInv
<1>1. Init /\ env \in Environments
  BY DEF ConsoleInit, Init
<1>2. Served
  <2>1. /\ mpc = "sleeps" /\ taken = env.taken /\ left = {}
        /\ store = [n \in Names |-> [Absent EXCEPT !.there = n \in env.exists]]
    BY <1>1 DEF Init
  <2>2. store \in [Names -> StoreRecord] /\ \A n \in Names : StoreOK(store[n])
    BY <1>1, InitStores DEF Stores, GoodStore
  <2>3. \A n \in Names : ~store[n].open
    BY <2>1 DEF Absent
  <2>4. QED
    BY <2>1, <2>2, <2>3 DEF Served
<1>3. /\ \A c \in Clients :
            /\ emitted[c] = 0 /\ ring[c] = <<>> /\ backlog[c] = <<>> /\ partial[c] = <<>> /\ held[c] = <<>>
            /\ wire[c] = Shut /\ tap[c] = "off" /\ heard[c] = "nothing"
      /\ wired = {}
  BY DEF ConsoleInit, Per
<1>4. TapsTyped
  BY NoPieces DEF ConsoleInit, Per, TapsTyped, Wires, TapSteps
<1>5. ASSUME NEW c \in Clients PROVE Told(c) /\ Staged(c) /\ Emptied(c) /\ OutKept(c)
  <2>1. Said(c) = {} /\ 0 <= Len(env.output[c])
    <3>1. ConsoleEnvironment(env)
      BY <1>1, ConsoleAssumption
    <3>2. env.output[c] \in Seq({"line", "half", "error"})
      BY <3>1 DEF ConsoleEnvironment
    <3>3. Len(env.output[c]) \in Nat
      BY <3>2, SeqElements
    <3>4. QED
      BY <1>3, <3>3 DEF Said
  <2>2. Told(c)
    BY <1>3, <2>1, NoPieces DEF Told
  <2>3. Staged(c)
    BY <1>3 DEF Staged, Attaching
  <2>4. Emptied(c)
    BY <1>3, NoPieces DEF Emptied
  <2>5. OutKept(c)
    BY <1>3, <2>1, NoPieces DEF OutKept
  <2>6. QED
    BY <2>2, <2>3, <2>4, <2>5
<1>6. QED
  BY <1>2, <1>4, <1>5 DEF TapInv

LEMMA TapStep ==
    ASSUME AcksUndisturbed, TapInv, OutputUndisturbed, env \in Environments, Console, NEW c \in Clients,
           Tap(c) \/ Ages(c) \/ ReadFails(c)
    PROVE  TapInv'
<1>1. CASE ReadInstance(c) \/ Wake(c) \/ Leaves(c)
  BY <1>1, RoundSteps
<1>2. CASE Post(c) \/ Attach(c) \/ DrainRing(c) \/ Own(c)
  BY <1>2, PostStep, AttachStep, DrainRingStep, OwnStep
<1>3. CASE RecordBacklog(c) \/ Stream(c) \/ Consume(c) \/ CloseStream(c)
  BY <1>3, RecordBacklogStep, StreamStep, ConsumeStep, CloseStreamStep
<1>4. CASE Relinquish(c) \/ Ages(c) \/ ReadFails(c)
  BY <1>4, RelinquishStep, AgesStep, ReadFailsStep
<1>5. QED
  BY <1>1, <1>2, <1>3, <1>4 DEF Tap

LEMMA OutStep ==
    ASSUME AcksUndisturbed, OutputUndisturbed, Inv, OutInv, [ConsoleNext]_allVars
    PROVE  OutInv'
<1>1. SUFFICES ASSUME Console, TapInv PROVE TapInv'
  <2>1. env' = env
    BY EnvStays DEF allVars, intakeAllVars
  <2>2. QED
    BY <1>1, <2>1 DEF OutInv, Console
<1>2. env \in Environments /\ Quiet
  BY <1>1 DEF Inv
<1>3. CASE UNCHANGED allVars
  <2>1. UNCHANGED <<env, mpc, left, taken, store, boots, emitted, ring, wire, wired, wrapped, tap, backlog,
                    partial, held, young, heard>>
    BY <1>3 DEF allVars, intakeAllVars, tickVars, intakeVars, consoleVars, incusVars, tapVars
  <2>2. boots' \in [Clients -> Nat]
    BY <1>1, <2>1 DEF TapInv, TapsTyped
  <2>3. StoresGo /\ Served'
    BY <1>1, <2>1, SameStoresGo DEF TapInv, Served
  <2>4. QED
    BY <1>1, <1>2, <2>1, <2>2, <2>3, AllStay
<1>4. ASSUME NEW c \in Clients, Instance(c) \/ Tap(c) \/ Ages(c) \/ ReadFails(c) PROVE TapInv'
  BY <1>1, <1>2, <1>4, InstanceStep, TapStep
<1>5. CASE Supervisor
  BY <1>1, <1>2, <1>5, SupervisorStep
<1>6. ~(Exit \/ Die)
  <2>1. mpc \in {"sleeps", "works"} /\ "die" \notin env.troubles
    BY <1>1, <1>2, ConsoleFacts DEF TapInv, Served
  <2>2. QED
    BY <2>1 DEF Exit, Die
<1>7. /\ \A c \in Clients : ~(Client(c) \/ GiveUpEarly(c))
      /\ \A k \in Conns : ~Thread(k)
  BY <1>1, <1>2, NobodySends
<1>8. CASE /\ UNCHANGED consoleVars
           /\ Maintenance \/ Stop \/ Restart \/ (\E n \in Names : Declare(n) \/ Release(n))
  BY <1>1, <1>2, <1>8, KeeperStep
<1>9. QED
  BY <1>3, <1>4, <1>5, <1>6, <1>7, <1>8 DEF ConsoleNext

LEMMA OutInvKept ==
    ASSUME Inv, OutInv
    PROVE  OutputKept
<1>1. SUFFICES ASSUME Console, NEW c \in Clients, NEW i \in 1 .. emitted[c]
      PROVE  <<c, i>> \in wrapped \cup OnTheWay(c) \cup Stored(c)
  BY DEF OutputKept
<1>2. TapInv /\ env \in Environments
  BY <1>1 DEF Inv, OutInv
<1>3. OutKept(c) /\ <<c, i>> \in Said(c)
  BY <1>1, <1>2 DEF TapInv, Said
<1>4. Soon(store[StoreFor(c)]) \subseteq Stored(c)
  <2> DEFINE s == store[StoreFor(c)]
  <2>1. StoreOK(s)
    BY <1>1, <1>2, StoreForIsName DEF TapInv, Served
  <2>2. s.chunks \in Seq(EntryRecord) /\ s.sap \in Seq(EntryRecord) /\ s.buf \in Seq(EntryRecord)
        /\ Sure(s) \subseteq PartsOf(s.chunks) \cup PartsOf(s.sap)
    BY <2>1, StoreTypes, SureFacts DEF StoreOK
  <2>3. Stored(c) = PartsOf(s.chunks \o s.sap \o s.buf)
    BY DEF Stored, PartsOf
  <2> HIDE DEF s
  <2>4. PartsOf(s.chunks \o s.sap \o s.buf) = PartsOf(s.chunks) \cup PartsOf(s.sap) \cup PartsOf(s.buf)
    <3> DEFINE t == s.chunks \o s.sap
    <3>1. t \in Seq(EntryRecord) /\ PartsOf(t) = PartsOf(s.chunks) \cup PartsOf(s.sap)
      BY <2>2, PartsOfConcat
    <3> HIDE DEF t
    <3>2. PartsOf(t \o s.buf) = PartsOf(t) \cup PartsOf(s.buf)
      BY <2>2, <3>1, PartsOfConcat
    <3>3. QED
      BY <3>1, <3>2 DEF t
  <2>5. QED
    BY <2>2, <2>3, <2>4 DEF Soon, s
<1>5. QED
  BY <1>3, <1>4 DEF OutKept, Passed, OnTheWay

\* src/src/incus_intake.rs, of tap_instance, "The order here is the whole reliability
\* argument": under no failure that OutputUndisturbed leaves out, with any number of instances
\* and any output, and through refusals, halts, boots and failed reads, whatever an instance
\* has put out is in its store or somewhere on the way to it, unless the ring lost it before
\* there was a websocket.
THEOREM OutputIsKept ==
    ASSUME AcksUndisturbed, OutputUndisturbed
    PROVE  ConsoleSpec => []OutputKept
<1>1. ConsoleInit => Inv /\ OutInv
  BY InvInit, TapInit DEF OutInv
<1>2. Inv /\ OutInv /\ [ConsoleNext]_allVars => Inv' /\ OutInv'
  BY InvStep, OutStep
<1>3. Inv /\ OutInv => OutputKept
  BY OutInvKept
<1>4. QED
  BY <1>1, <1>2, <1>3, PTL DEF ConsoleSpec
=============================================================================
